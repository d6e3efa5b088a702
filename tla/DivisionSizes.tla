---------------------------- MODULE DivisionSizes ----------------------------
(***************************************************************************)
(* Sizes on which the block-wise divisions agree with their workspaces:    *)
(* the padded divisor, the blocks of the dividend, the wrap of a product.  *)
(***************************************************************************)

EXTENDS Powers

\* n / 2^k, rounded up
InParts(n, k) == (n + Power(2, k) - 1) \div Power(2, k)

\* least k with n / 2^k, rounded up, at most limit
Halvings(n, limit) == CHOOSE k \in 0 .. n : \A j \in 0 .. k : (InParts(n, j) <= limit) <=> (j = k)

RoundedUp(n, k) == InParts(n, k) * Power(2, k)

\* burnikel_ziegler_plan: s limbs padded to j * 2^k, so that halving ends at j limbs. k is
\* the bit width of s / threshold, which may be one halving more than needed.
PaddedLimbs(s, threshold) ==
  LET width == CHOOSE b \in 0 .. s : /\ s \div threshold < Power(2, b)
                                     /\ b = 0 \/ Power(2, b - 1) <= s \div threshold
  IN  RoundedUp(s, width)

\* how often n limbs are halved
HalvingLevels(n, threshold) ==
  LET levels[k \in 0 .. n] ==
        IF k >= threshold /\ k % 2 = 0 THEN 1 + levels[k \div 2] ELSE 0
  IN  levels[n]

\* Mutant: every fraction is taken as it is
FlatSlack(n, threshold) == 0

\* divappr_quotient_slack
QuotientSlack(n, threshold) == HalvingLevels(n, threshold) + 2

\* blocks of blockBits bits, so that the top block of the shifted dividend is below half
BlockCount(dividendBits, blockBits) ==
  LET t == dividendBits \div blockBits + 1 IN IF t < 2 THEN 2 ELSE t

\* multiply_mod_bnm1_next_size, where no cyclic transform is in reach
WrapSize(n, cutoff) == RoundedUp(n, Halvings(n, cutoff))
==============================================================================
