---------------------------- MODULE UnwrittenMemory ----------------------------
(***************************************************************************)
(* What limbs hold that nobody has written since they were allocated. A    *)
(* buffer holds a pattern over and over; a pattern as long as the buffer   *)
(* makes it anything at all.                                               *)
(***************************************************************************)

EXTENDS LimbMemory, FiniteSets

CONSTANT Leftovers     \* the patterns: functions from 0 .. k-1 to limbs

ASSUME LeftoversAssumption ==
  \A old \in Leftovers :
    LET k == Cardinality(DOMAIN old)
    IN  k \in Nat \ {0} /\ old \in [0 .. k - 1 -> 0 .. Base - 1]

\* an array of n limbs that were never written
Leftover(n, old) == [i \in 0 .. n - 1 |-> old[i % Cardinality(DOMAIN old)]]
===============================================================================
