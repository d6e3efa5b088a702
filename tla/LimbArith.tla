------------------------------ MODULE LimbArith ------------------------------
(***************************************************************************)
(* Little-endian limbs: the digits of a magnitude in base 2^LimbBits, and  *)
(* the limb-by-limb two's complement operations of basic_big_int.hpp.      *)
(* Limbs are a function from 0 .. n-1 for some n.                          *)
(***************************************************************************)

EXTENDS Powers

CONSTANT LimbBits   \* width of uint_multiprecision_t

ASSUME LimbAssumption == LimbBits \in Nat \ {0}

(***************************************************************************)
(* Positional notation. Sums are recursive functions, which proofs can     *)
(* unfold one step at a time.                                              *)
(***************************************************************************)

\* the number whose lowest n digits to the base b these are
FromDigits(b, digits, n) ==
  LET sum[k \in 0 .. n] == IF k = 0 THEN 0 ELSE sum[k - 1] + digits[k - 1] * Power(b, k - 1)
  IN  sum[n]

\* powers of two as one function, of which TLC needs no copy for every use of Base
TwoTo[n \in Nat] == IF n = 0 THEN 1 ELSE 2 * TwoTo[n - 1]

Base == TwoTo[LimbBits]

\* the number that the lowest n limbs stand for
Magnitude(limbs, n) == FromDigits(Base, limbs, n)

Digit(v, i) == (v \div Power(Base, i)) % Base

\* limbs of v without leading zeros; zero has one limb
LimbsNeeded(v) ==
  LET limbs[w \in 0 .. v] == IF w < Base THEN 1 ELSE 1 + limbs[w \div Base] IN limbs[v]

\* the lowest n limbs overwritten by those of v (modulo Base^n)
Written(limbs, n, v) == [i \in DOMAIN limbs |-> IF i < n THEN Digit(v, i) ELSE limbs[i]]

\* limbs first .. last - 1 set to zero
Cleared(limbs, first, last) ==
  [i \in DOMAIN limbs |-> IF first <= i /\ i < last THEN 0 ELSE limbs[i]]

\* Mutant: all zero limbs are trimmed, the last one too
TrimmedSizeNoFloor(limbs, n) ==
  CHOOSE k \in 0 .. n : /\ k = 0 \/ limbs[k - 1] # 0
                        /\ \A i \in k .. n - 1 : limbs[i] = 0

\* n less the zero limbs at the top, but at least 1
TrimmedSize(limbs, n) ==
  CHOOSE k \in 1 .. n : /\ k = 1 \/ limbs[k - 1] # 0
                        /\ \A i \in k .. n - 1 : limbs[i] = 0

(***************************************************************************)
(* Bitwise operations on sign and magnitude.                               *)
(***************************************************************************)

Bit(x, i) == (x \div Power(2, i)) % 2

BitOp(op, a, b) ==
  CASE op = "and" -> a * b
    [] op = "or"  -> a + b - a * b
    [] op = "xor" -> (a + b) % 2

\* op on the lowest n bits
BitsOp(op, x, y, n) == FromDigits(2, [i \in 0 .. n - 1 |-> BitOp(op, Bit(x, i), Bit(y, i))], n)

LimbOp(op, l, r) == BitsOp(op, l, r, LimbBits)

\* eval_bitwise on the sign bits
ResultNegative(op, negl, negr) ==
  CASE op = "and" -> negl /\ negr
    [] op = "or"  -> negl \/ negr
    [] op = "xor" -> negl # negr

\* bitwise_result_limb_count
ResultSize(op, negl, negr, sizel, sizer) ==
  IF op = "and" /\ ~(negl /\ negr)
    THEN CASE ~negl /\ ~negr -> IF sizel < sizer THEN sizel ELSE sizer
           [] ~negl /\ negr  -> sizel
           [] negl /\ ~negr  -> sizer
    ELSE IF sizel < sizer THEN sizer ELSE sizel

\* Mutant: the carry of the complement is lost between limbs
ComplementedNoCarry(limb, neg, carry) ==
  IF neg THEN [limb |-> (Base - limb) % Base, carry |-> 0] ELSE [limb |-> limb, carry |-> carry]

\* one limb of the two's complement of a negative operand, and the carry out
Complemented(limb, neg, carry) ==
  IF neg
    THEN LET sum == Base - 1 - limb + carry
         IN  [limb |-> sum % Base, carry |-> sum \div Base]
    ELSE [limb |-> limb, carry |-> carry]

\* limb i of an operand of that many limbs
LimbOr0(limbs, size, i) == IF i < size THEN limbs[i] ELSE 0

AsBit(b) == IF b THEN 1 ELSE 0

\* limb i of both operands and of the result, complemented with the carries before it
BitwiseStep(op, l, sizel, negl, r, sizer, negr, carries, i) ==
  LET left   == Complemented(LimbOr0(l, sizel, i), negl, carries.l)
      right  == Complemented(LimbOr0(r, sizer, i), negr, carries.r)
      result == Complemented(LimbOp(op, left.limb, right.limb),
                             ResultNegative(op, negl, negr), carries.out)
  IN  [limb |-> result.limb, l |-> left.carry, r |-> right.carry, out |-> result.carry]

\* eval_bitwise_into_spans: n limbs of the magnitude of the result and whether limb n is 1
EvalBitwise(op, l, sizel, negl, r, sizer, negr) ==
  LET n      == ResultSize(op, negl, negr, sizel, sizer)
      negout == ResultNegative(op, negl, negr)
      Step(carries, i) == BitwiseStep(op, l, sizel, negl, r, sizer, negr, carries, i)
      \* the limb before and the three carries after the first i limbs
      loop[i \in 0 .. n] ==
        IF i = 0
          THEN [limb |-> 0, l |-> AsBit(negl), r |-> AsBit(negr), out |-> AsBit(negout)]
          ELSE Step(loop[i - 1], i - 1)
  IN  [limbs |-> [i \in 0 .. n - 1 |-> loop[i + 1].limb], size |-> n,
       extra |-> negout /\ loop[n].out = 1]

\* what a bitwise operation means: two's complement over enough bits
BitwiseMeaning(op, x, y, bits) ==
  BitsOp(op, x, y, bits) - (IF ResultNegative(op, x < 0, y < 0) THEN Power(2, bits) ELSE 0)
==============================================================================
