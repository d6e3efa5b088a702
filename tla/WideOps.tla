------------------------------- MODULE WideOps -------------------------------
(***************************************************************************)
(* Operations on one and two limbs (wide_ops.hpp): carries, and division   *)
(* by a limb or two limbs, portable and with a precomputed reciprocal. A   *)
(* two-limb number is the number it stands for, [quotient, remainder] the  *)
(* result of a division. All operations are modulo the width.              *)
(***************************************************************************)

EXTENDS LimbArith

LowLimb(x)  == x % Base
HighLimb(x) == x \div Base

Normalized(d) == 2 * d >= Base

\* countl_zero of a limb other than 0: what shifts its top bit into place
LeadingZeros(x) ==
  CHOOSE s \in 0 .. LimbBits - 1 : Normalized(x * Power(2, s)) /\ x * Power(2, s) < Base

\* countr_zero of a number other than 0
TrailingZeros(x) == CHOOSE z \in 0 .. 30 : x % 2 ^ z = 0 /\ (x \div 2 ^ z) % 2 = 1

\* bits of a number, bit_width
BitWidth(x) == CHOOSE b \in 0 .. 31 : (b = 0 \/ 2 ^ (b - 1) <= x) /\ (b = 31 \/ x < 2 ^ b)

(***************************************************************************)
(* Carries and borrows.                                                    *)
(***************************************************************************)

OverflowingAdd(x, y) == LET value == (x + y) % Base IN [value |-> value, overflow |-> value < x]
OverflowingSub(x, y) == [value |-> (x - y) % Base, overflow |-> x < y]
OverflowingMul(x, y) ==
  LET value == (x * y) % Base IN [value |-> value, overflow |-> x # 0 /\ value \div x # y]

CarryingAdd(x, y, carry) ==
  LET xy  == OverflowingAdd(x, y)
      out == OverflowingAdd(xy.value, carry)
  IN  [value |-> out.value, carry |-> IF xy.overflow \/ out.overflow THEN 1 ELSE 0]

BorrowingSub(x, y, borrow) ==
  LET xy  == OverflowingSub(x, y)
      out == OverflowingSub(xy.value, borrow)
  IN  [value |-> out.value, borrow |-> IF xy.overflow \/ out.overflow THEN 1 ELSE 0]

(***************************************************************************)
(* High products from half limbs, and funnel shifts. LimbBits is even.     *)
(***************************************************************************)

HalfBase == 2 ^ (LimbBits \div 2)

HighMulPortable(x, y) ==
  LET lh == (x % HalfBase) * (y \div HalfBase)
      hl == (x \div HalfBase) * (y % HalfBase)
      ll == (x % HalfBase) * (y % HalfBase)
      mid == (ll \div HalfBase) + (lh % HalfBase) + (hl % HalfBase)
  IN  (x \div HalfBase) * (y \div HalfBase) + (lh \div HalfBase) + (hl \div HalfBase)
        + (mid \div HalfBase)

\* the same for two's complement: \div rounds down as the arithmetic shift does
SignedHighMulPortable(x, y) ==
  LET mid1 == (x \div HalfBase) * (y % HalfBase)
      mid2 == (y \div HalfBase) * (x % HalfBase)
      low  == (x % HalfBase) * (y % HalfBase)
      carry == ((mid1 % HalfBase) + (mid2 % HalfBase) + (low \div HalfBase)) \div HalfBase
  IN  (x \div HalfBase) * (y \div HalfBase) + (mid1 \div HalfBase) + (mid2 \div HalfBase) + carry

FunnelShl(high, low, s) ==
  IF s = 0 THEN high ELSE ((high * 2 ^ s) % Base) + low \div 2 ^ (LimbBits - s)
FunnelShr(high, low, s) ==
  IF s = 0 THEN low ELSE low \div 2 ^ s + ((high * 2 ^ (LimbBits - s)) % Base)

(***************************************************************************)
(* Bit-by-bit division, where no wider type exists.                        *)
(***************************************************************************)

\* x is a two-limb number whose high limb is below y
NarrowingDivPortable(x, y) ==
  LET f[i \in 0 .. LimbBits] ==
        IF i = 0 THEN [quotient |-> 0, remainder |-> HighLimb(x)]
        ELSE LET before == f[i - 1]
                 r == ((2 * before.remainder) % Base) + Bit(LowLimb(x), LimbBits - i)
                 spilled == 2 * before.remainder >= Base
             IN  IF spilled \/ r >= y
                 THEN [quotient |-> (2 * before.quotient + 1) % Base,
                       remainder |-> (r - y) % Base]
                 ELSE [quotient |-> (2 * before.quotient) % Base, remainder |-> r]
  IN  f[LimbBits]

\* both of two limbs; the high limb of y is not 0
DivideWideByWidePortable(x, y) ==
  LET f[i \in 0 .. 2 * LimbBits] ==
        IF i = 0 THEN [quotient |-> 0, remainder |-> 0]
        ELSE LET before == f[i - 1]
                 r == ((2 * before.remainder) % (Base * Base)) + Bit(x, 2 * LimbBits - i)
                 spilled == 2 * before.remainder >= Base * Base
             IN  IF spilled \/ r >= y
                 THEN [quotient |-> (2 * before.quotient + 1) % Base,
                       remainder |-> (r - y) % (Base * Base)]
                 ELSE [quotient |-> (2 * before.quotient) % Base, remainder |-> r]
  IN  f[2 * LimbBits]

(***************************************************************************)
(* Division by a precomputed reciprocal; divisors are normalized.          *)
(***************************************************************************)

ReciprocalWord(d) ==
  NarrowingDivPortable((Base - 1 - d) * Base + Base - 1, d).quotient

\* the estimate from the high limb, lowered until it covers d0 as well: at most twice for
\* the high limb of the product of d0 with the reciprocal and twice for its low limb
ReciprocalWord3by2(d1, d0) ==
  LET RefineLow(v, p) ==
        LET t == d0 * v
            sum == (p + HighLimb(t)) % Base
            twice == sum > d1 \/ (sum = d1 /\ LowLimb(t) >= d0)
        IN  IF sum >= HighLimb(t) THEN v ELSE IF twice THEN v - 2 ELSE v - 1
      RefineHigh(v, p) ==
        CASE p >= d0 -> RefineLow(v, p)
          [] p < d0 /\ p < d1  -> RefineLow(v - 1, (p - d1) % Base)
          [] p < d0 /\ p >= d1 -> RefineLow(v - 2, (p - 2 * d1) % Base)
      WithWord(v) == RefineHigh(v, (d1 * v + d0) % Base)
  IN  WithWord(ReciprocalWord(d1))

\* u is a two-limb number whose high limb is below d
Div2by1Preinv(u, d, v) ==
  LET qw == v * HighLimb(u) + u
      q1 == (HighLimb(qw) + 1) % Base
      r  == (LowLimb(u) - q1 * d) % Base
      Corrected(q, rem) == IF rem >= d THEN [quotient |-> (q + 1) % Base, remainder |-> rem - d]
                           ELSE [quotient |-> q, remainder |-> rem]
  IN  IF r > LowLimb(qw) THEN Corrected((q1 - 1) % Base, (r + d) % Base) ELSE Corrected(q1, r)

\* Several limbs by one, from the top. The divisor is shifted until it is normalized, and the
\* dividend's limbs are shifted by the same amount on the way.
ShortDivide(x, d) ==
  LET s == LeadingZeros(d)
      v == ReciprocalWord(d * 2 ^ s)
      n == LimbsNeeded(x)
      limb(i) == FunnelShl(Digit(x, i), IF i = 0 THEN 0 ELSE Digit(x, i - 1), s)
      f[i \in 0 .. n] ==
        IF i = 0 THEN [quotient |-> 0, remainder |-> FunnelShl(0, Digit(x, n - 1), s)]
        ELSE LET above == f[i - 1]
                 step == Div2by1Preinv(above.remainder * Base + limb(n - i), d * 2 ^ s, v)
             IN  [quotient |-> above.quotient * Base + step.quotient,
                  remainder |-> step.remainder]
  IN  [quotient |-> f[n].quotient, remainder |-> f[n].remainder \div 2 ^ s]

\* Mutant: the last correction is taken to be impossible
Div3by2PreinvUncorrected(high, u0, d, v) ==
  LET qw == v * HighLimb(high) + high
      q1 == HighLimb(qw) % Base
      r  == (LowLimb(high) * Base + u0 - (q1 + 1) * d) % (Base * Base)
  IN  IF HighLimb(r) >= LowLimb(qw)
      THEN [quotient |-> q1, remainder |-> (r + d) % (Base * Base)]
      ELSE [quotient |-> (q1 + 1) % Base, remainder |-> r]

\* Three limbs, the upper two as one number below d, by the two limbs of d. Only the low two
\* limbs of the remainder are tracked.
Div3by2Preinv(high, u0, d, v) ==
  LET qw == v * HighLimb(high) + high
      q1 == HighLimb(qw) % Base
      r  == (LowLimb(high) * Base + u0 - (q1 + 1) * d) % (Base * Base)
      Corrected(q, rem) == IF rem >= d THEN [quotient |-> (q + 1) % Base, remainder |-> rem - d]
                           ELSE [quotient |-> q, remainder |-> rem]
  IN  IF HighLimb(r) >= LowLimb(qw) THEN Corrected(q1, (r + d) % (Base * Base))
      ELSE Corrected((q1 + 1) % Base, r)
==============================================================================
