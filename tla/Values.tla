-------------------------------- MODULE Values --------------------------------
(***************************************************************************)
(* What is built on the arithmetic: gcd, lcm and midpoint, conversion to   *)
(* and from the digits of a base, and text. Each call runs to its end.     *)
(***************************************************************************)

EXTENDS NumericFunctions, TextConversion

vars == <<num, conv, text>>

Init == NumInit /\ ConvInit /\ TextInit

Idle == num = NumIdle /\ conv = ConvIdle /\ text = TextIdle

Enter ==
  /\ Idle
  /\ \/ NumEnter /\ UNCHANGED <<conv, text>>
     \/ ConvEnter /\ UNCHANGED <<num, text>>
     \/ TextEnter /\ UNCHANGED <<num, conv>>

NumRuns == NumStep /\ UNCHANGED <<conv, text>>
ConvRuns == ConvStep /\ UNCHANGED <<num, text>>
TextRuns == TextStep /\ UNCHANGED <<num, conv>>

Next == Enter \/ NumRuns \/ ConvRuns \/ TextRuns

Spec == Init /\ [][Next]_vars
================================================================================
