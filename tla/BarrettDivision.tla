--------------------------- MODULE BarrettDivision ---------------------------
(***************************************************************************)
(* Block-wise Barrett division (divide.cpp): the exact scaled reciprocal   *)
(* of the normalized divisor by Newton steps, and the march of windows     *)
(* that it turns into two products each, one of them modulo B^w - 1. One   *)
(* call may divide several dividends by the same divisor, as               *)
(* divide_barrett_preinv does. The limbs here are the digits of a wide     *)
(* number: the sign of a residue is read off its limb n, which must be     *)
(* wide enough for the constant 64.                                        *)
(***************************************************************************)

EXTENDS WideNat, DivisionSizes

CONSTANTS
  BarOperands,    \* records: den, the dividends nums, the threshold of the recursion
  BarWrapCutoff   \* multiply_mod_bnm1_cutoff

ASSUME BarAssumption == BarWrapCutoff >= 2

VARIABLE bar

BarIdle == [pc |-> "idle"]
BarInit == bar = BarIdle

-----------------------------------------------------------------------------
(***************************************************************************)
(* Residues modulo B^w - 1 (mul_impl.hpp); all ones stands for zero.       *)
(***************************************************************************)

AddMod(x, y, w) ==
  LET sum == Plus(x, y)
      one == Plus(BelowLimbs(sum, w), One)
  IN  IF Len(sum) <= w THEN sum ELSE IF Len(one) > w THEN One ELSE one

\* a borrow out of the top wraps around to one less
SubtractMod(x, y, w) ==
  IF Less(x, y) THEN Minus(Plus(x, Ones(w)), y) ELSE Minus(x, y)

FoldMod(x, w) == AddMod(BelowLimbs(x, w), AboveLimbs(x, w), w)

\* what multiply_mod_bnm1 may return (WrapProduct): zero in either form, of factors not zero
ProductsMod(x, y, w) ==
  LET product == FoldMod(Times(x, y), w)
  IN  IF product = Ones(w) THEN {product, <<>>} ELSE {product}

-----------------------------------------------------------------------------
(* The reciprocal: levels are the sizes of the recursion, the deepest last.*)

Level == bar.levels[Len(bar.levels)]
LevelDivisor == AboveLimbs(bar.d, bar.n - Level)

BarEnter ==
  /\ bar = BarIdle
  /\ \E c \in BarOperands :
       LET n == Len(c.den)
           shift == DigitBits - TopBits(c.den)
       IN  bar' = [pc |-> "descend", den |-> c.den, nums |-> c.nums, threshold |-> c.threshold,
                   n |-> n, shift |-> shift, d |-> ShiftedUp(c.den, shift), sound |-> TRUE,
                   levels |-> <<n>>, inverse |-> <<>>, residual |-> <<>>, fixes |-> 0,
                   w |-> <<>>, left |-> 0, rest |-> <<>>, block |-> <<>>, corrections |-> 0,
                   quotient |-> <<>>]

BarDescend ==
  /\ bar.pc = "descend"
  /\ Level > bar.threshold
  /\ bar' = [bar EXCEPT !.levels = Append(@, (Level + 1) \div 2)]

\* by schoolbook division; the quotient's limb n is one
BarLeaf ==
  /\ bar.pc = "descend"
  /\ Level <= bar.threshold
  /\ \E q \in {WideQuotient(Ones(2 * Level), LevelDivisor)} :
       bar' = [bar EXCEPT !.pc = "inverted", !.inverse = BelowLimbs(q, Level),
                          !.sound = @ /\ DigitAt(q, Level + 1) = 1]

\* corrected by the error of the seed, clamped to the range of a reciprocal
Candidate(inverse, negative, correction, n) ==
  LET sum == Plus(inverse, correction)
  IN  IF negative
      THEN IF Less(inverse, correction) THEN <<>> ELSE Minus(inverse, correction)
      ELSE IF Len(sum) > n THEN Ones(n) ELSE sum

\* The reciprocal of the top h limbs seeds that of n limbs: T is its product with the
\* divisor and should be B^(n + h); limb n + h of T is the sign of the error.
BarRefine ==
  /\ bar.pc = "inverted" /\ Len(bar.levels) > 1
  /\ LET h == Level
         n == bar.levels[Len(bar.levels) - 1]
         d == AboveLimbs(bar.d, bar.n - n)
     IN  \E t \in {Plus(Times(d, bar.inverse), UpLimbs(d, h))} :
         \E error \in {IF DigitAt(t, n + h + 1) # 0 THEN BelowLimbs(t, n + h)
                       ELSE Minus(LimbPower(n + h), t)} :
           bar' = [bar EXCEPT
             !.pc = "residual",
             !.levels = SubSeq(@, 1, Len(@) - 1),
             !.inverse = Candidate(UpLimbs(@, n - h), DigitAt(t, n + h + 1) # 0,
                           AboveLimbs(Plus(Times(@, error), UpLimbs(error, h)), 2 * h), n),
             !.sound = @ /\ DigitAt(t, n + h + 1) <= 1 /\ Len(t) <= n + h + 1
                         /\ Len(error) <= n + 1]

\* B^2n - 1 - d * (B^n + I), as a residue
BarResidual ==
  /\ bar.pc = "residual"
  /\ LET n == Level
         w == WrapSize(n + 1, BarWrapCutoff)
         d == LevelDivisor
         target == Ones((2 * n) % w)
     IN  \E p \in ProductsMod(d, bar.inverse, w) :
           bar' = [bar EXCEPT
             !.pc = "fix", !.fixes = 0,
             !.residual = SubtractMod(target, AddMod(p, FoldMod(UpLimbs(d, n), w), w), w)]

\* Mutant: only the limbs above n tell the sign
ResidualNegativeHigh(residual, n) == Len(residual) > n + 1

ResidualNegative(residual, n) == Len(residual) > n + 1 \/ DigitAt(residual, n + 1) > 64

BarLower ==
  /\ bar.pc = "fix"
  /\ ResidualNegative(bar.residual, Level)
  /\ bar' = [bar EXCEPT
       !.inverse = IF @ = <<>> THEN Ones(Level) ELSE Minus(@, One),
       !.residual = AddMod(@, LevelDivisor, WrapSize(Level + 1, BarWrapCutoff)),
       !.fixes = @ + 1,
       !.sound = @ /\ bar.inverse # <<>> /\ bar.fixes < 16]

BarRaise ==
  /\ bar.pc = "fix"
  /\ ~ResidualNegative(bar.residual, Level)
  /\ ~Less(bar.residual, LevelDivisor)
  /\ bar' = [bar EXCEPT
       !.inverse = IF @ = Ones(Level) THEN <<>> ELSE Plus(@, One),
       !.residual = Minus(@, LevelDivisor),
       !.fixes = @ + 1,
       !.sound = @ /\ bar.inverse # Ones(Level) /\ bar.fixes < 16]

BarFixed ==
  /\ bar.pc = "fix"
  /\ ~ResidualNegative(bar.residual, Level)
  /\ Less(bar.residual, LevelDivisor)
  /\ bar' = [bar EXCEPT !.pc = "inverted"]

-----------------------------------------------------------------------------
(* The march.                                                              *)

\* barrett_blocks
Blocks(num, shift, n) == BlockCount(WideBits(num) + shift, n * DigitBits)

BlockOf(x, i, n) == BelowLimbs(AboveLimbs(x, i * n), n)

\* the workspace of the next dividend; the reciprocal stays
BarStart ==
  /\ bar.pc = "inverted" /\ Len(bar.levels) = 1
  /\ \E w \in {ShiftedUp(bar.nums[1], bar.shift)} :
     \E t \in {Blocks(bar.nums[1], bar.shift, bar.n)} :
       bar' = [bar EXCEPT !.pc = "window", !.w = w, !.left = t - 1,
                          !.rest = BlockOf(w, t - 1, bar.n), !.quotient = <<>>]

\* the remainder of a window from its residue, where all ones means none
FromResidue(x, w) == IF x = Ones(w) THEN <<>> ELSE x

\* U_hi * X / B^n is never above the quotient block and at most four below it
BarWindow ==
  /\ bar.pc = "window" /\ bar.left > 0
  /\ LET n == bar.n
         w == WrapSize(n + 1, BarWrapCutoff)
         i == bar.left - 1
     IN  \E q \in {Plus(bar.rest, AboveLimbs(Times(bar.rest, bar.inverse), n))} :
         \E product \in ProductsMod(q, bar.d, w) :
         \E window \in {Plus(UpLimbs(bar.rest, n), BlockOf(bar.w, i, n))} :
         \E r \in {FromResidue(SubtractMod(FoldMod(window, w), product, w), w)} :
           bar' = [bar EXCEPT !.pc = "correct", !.left = i, !.rest = r,
                              !.block = q, !.corrections = 0,
                              !.sound = @ /\ Len(q) <= n /\ w \in n + 1 .. 2 * n
                                          /\ Len(r) <= n + 1 /\ DigitAt(r, n + 1) <= 4]

BarCorrect ==
  /\ bar.pc = "correct"
  /\ ~Less(bar.rest, bar.d)
  /\ bar' = [bar EXCEPT !.block = Plus(@, One), !.rest = Minus(@, bar.d),
                        !.corrections = @ + 1,
                        !.sound = @ /\ bar.block # Ones(bar.n) /\ bar.corrections < 4]

BarCorrected ==
  /\ bar.pc = "correct"
  /\ Less(bar.rest, bar.d)
  /\ bar' = [bar EXCEPT !.pc = "window",
                        !.quotient = Plus(UpLimbs(@, bar.n), bar.block)]

\* the remainder is shifted back
BarFinish ==
  /\ bar.pc = "window" /\ bar.left = 0
  /\ bar' = [bar EXCEPT !.pc = "done", !.rest = ShiftedDown(@, bar.shift),
                        !.sound = @ /\ LowBits(bar.rest, bar.shift) = 0]

\* Mutant: the next dividend is the same
BarAgainSame ==
  /\ bar.pc = "done" /\ Len(bar.nums) > 1
  /\ bar' = [bar EXCEPT !.pc = "inverted"]

BarAgain ==
  /\ bar.pc = "done" /\ Len(bar.nums) > 1
  /\ bar' = [bar EXCEPT !.pc = "inverted", !.nums = Tail(@)]

BarReturn ==
  /\ bar.pc = "done" /\ Len(bar.nums) = 1
  /\ bar' = BarIdle

BarStep == \/ BarDescend \/ BarLeaf \/ BarRefine \/ BarResidual \/ BarLower \/ BarRaise
           \/ BarFixed \/ BarStart \/ BarWindow \/ BarCorrect \/ BarCorrected
           \/ BarFinish \/ BarAgain \/ BarReturn

-----------------------------------------------------------------------------
(* Properties.                                                             *)

\* Every level of the recursion ends with the exact reciprocal, the largest X with
\* d * X < B^2n, whatever the seed's error and the form in which a residue was zero, within
\* sixteen fixes; and every dividend's quotient and remainder are exact within four
\* corrections to a window.
BarrettDivides ==
  /\ bar.pc # "idle" => bar.sound
  /\ bar.pc = "inverted" =>
       LET d == LevelDivisor
           x == Plus(LimbPower(Level), bar.inverse)
       IN  /\ Less(Times(d, x), LimbPower(2 * Level))
           /\ ~Less(Times(d, Plus(x, One)), LimbPower(2 * Level))
  /\ bar.pc = "done" =>
       /\ Less(bar.rest, bar.den)
       /\ Plus(Times(bar.quotient, bar.den), bar.rest) = bar.nums[1]
===============================================================================
