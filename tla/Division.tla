------------------------------- MODULE Division -------------------------------
(***************************************************************************)
(* The division subsystem: schoolbook, block-wise and Barrett kernels and  *)
(* the workspaces they run in. All of it is sequential: one call runs at a *)
(* time, to its end.                                                       *)
(***************************************************************************)

EXTENDS KnuthDivision, BlockDivision, BarrettDivision, DivisionWorkspace

vars == <<knuth, bz, bar, dw>>

Init == KnuthInit /\ BzInit /\ BarInit /\ DwInit

Idle == knuth = KnuthIdle /\ bz = BzIdle /\ bar = BarIdle /\ dw = DwIdle

Enter ==
  /\ Idle
  /\ \/ KnuthEnter /\ UNCHANGED <<bz, bar, dw>>
     \/ BzEnter /\ UNCHANGED <<knuth, bar, dw>>
     \/ BzEnterQuotient /\ UNCHANGED <<knuth, bar, dw>>
     \/ BarEnter /\ UNCHANGED <<knuth, bz, dw>>
     \/ DwEnter /\ UNCHANGED <<knuth, bz, bar>>

KnuthRuns == KnuthStep /\ UNCHANGED <<bz, bar, dw>>
BzRunsOn == BzStep /\ UNCHANGED <<knuth, bar, dw>>
BarRuns == BarStep /\ UNCHANGED <<knuth, bz, dw>>
DwRuns == DwStep /\ UNCHANGED <<knuth, bz, bar>>

Next == Enter \/ KnuthRuns \/ BzRunsOn \/ BarRuns \/ DwRuns

\* A function that was called goes on executing: weak fairness of the steps of each kernel,
\* written out with the fact that they are enabled until the call is over (evaluating
\* ENABLED of these steps is too much for TLC).
Fairness ==
  /\ []<>(knuth = KnuthIdle) \/ []<><<knuth # KnuthIdle>>_knuth
  /\ []<>(bz = BzIdle) \/ []<><<bz # BzIdle>>_bz
  /\ []<>(bar = BarIdle) \/ []<><<bar # BarIdle>>_bar

Spec == Init /\ [][Next]_vars /\ Fairness

\* Every division comes back: digit loops, the recursion on halves and the march of windows
\* end, and so do the loops that repeat until a remainder or a residue is in range.
DivideReturns ==
  /\ knuth # KnuthIdle ~> knuth = KnuthIdle
  /\ bz # BzIdle ~> bz = BzIdle
  /\ bar # BarIdle ~> bar = BarIdle
================================================================================
