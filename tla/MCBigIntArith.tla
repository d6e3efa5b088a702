---------------------------- MODULE MCBigIntArith ----------------------------
(***************************************************************************)
(* BigIntArith with limbs of two bits, two limbs in place and at most four *)
(* on the heap. The operands are the ends of every limb count.             *)
(***************************************************************************)

EXTENDS BigIntArith

MCOperandMagnitudes == {0, 1, 3, 4, 6, 15, 16, 63, 64}
MCIntegerLimbs == {1, 3}

\* What the next step and the invariants depend on: states that differ only in how the
\* object was reached are explored once. Action properties are checked on every step.
View == <<acc, Running>>
==============================================================================
