---------------------------- MODULE Multiplication ----------------------------
(***************************************************************************)
(* The multiplication subsystem: the dispatchers, the recursive kernels,   *)
(* the product modulo B^w - 1 and the workspace they share. All of it is   *)
(* sequential: one call runs at a time, to its end.                        *)
(***************************************************************************)

EXTENDS Karatsuba, ProductDispatch, WrapProduct, ToomCook, Workspace

vars == <<kara, disp, wrap, toom, ws>>

Init == KaraInit /\ DispInit /\ WrapInit /\ ToomInit /\ WsInit

Idle == /\ kara = KaraIdle /\ disp = DispIdle /\ wrap = WrapIdle
        /\ toom = ToomIdle /\ ws = WsIdle

Enter ==
  /\ Idle
  /\ \/ KaraEnter /\ UNCHANGED <<disp, wrap, toom, ws>>
     \/ DispEnter /\ UNCHANGED <<kara, wrap, toom, ws>>
     \/ WrapEnter /\ UNCHANGED <<kara, disp, toom, ws>>
     \/ ToomEnter /\ UNCHANGED <<kara, disp, wrap, ws>>
     \/ WsEnter /\ UNCHANGED <<kara, disp, wrap, toom>>

KaraRuns == KaraStep /\ UNCHANGED <<disp, wrap, toom, ws>>
DispRuns == DispStep /\ UNCHANGED <<kara, wrap, toom, ws>>
WrapRuns == WrapStep /\ UNCHANGED <<kara, disp, toom, ws>>
ToomRuns == toom # ToomIdle /\ ToomStep /\ UNCHANGED <<kara, disp, wrap, ws>>
WsRuns == WsStep /\ UNCHANGED <<kara, disp, wrap, toom>>

Next == Enter \/ KaraRuns \/ DispRuns \/ WrapRuns \/ ToomRuns \/ WsRuns

\* A function that was called goes on executing: weak fairness of the steps of each
\* component, written out with the fact that they are enabled until the call is over
\* (evaluating ENABLED of these steps is too much for TLC).
Fairness ==
  /\ []<>(kara = KaraIdle) \/ []<><<kara # KaraIdle>>_kara
  /\ []<>(disp = DispIdle) \/ []<><<disp # DispIdle>>_disp
  /\ []<>(wrap = WrapIdle) \/ []<><<wrap # WrapIdle>>_wrap
  /\ []<>(toom = ToomIdle) \/ []<><<toom # ToomIdle>>_toom

Spec == Init /\ [][Next]_vars /\ Fairness

\* Every product comes back: the recursion of the kernels reaches its base case, the slicing
\* loop and the dispatcher it calls again come to an end, whatever the shape of the operands.
MultiplyReturns ==
  /\ kara # KaraIdle ~> kara = KaraIdle
  /\ disp # DispIdle ~> disp = DispIdle
  /\ wrap # WrapIdle ~> wrap = WrapIdle
  /\ toom # ToomIdle ~> toom = ToomIdle
===============================================================================
