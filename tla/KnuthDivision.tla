---------------------------- MODULE KnuthDivision ----------------------------
(***************************************************************************)
(* Schoolbook division (div_impl.hpp): divide_unsigned, which is Knuth's   *)
(* Algorithm D with the 3/2 estimate of a quotient digit, and              *)
(* divide_unsigned_approx, which leaves out the divisor limbs that cannot  *)
(* change the quotient by more than one. One step per quotient digit.      *)
(***************************************************************************)

EXTENDS WideOps

CONSTANTS
  KnuthOperands,   \* pairs <<dividend, divisor>> for divide_unsigned
  KnuthApprox      \* pairs for divide_unsigned_approx

VARIABLE knuth

KnuthIdle == [pc |-> "idle"]
KnuthInit == knuth = KnuthIdle

\* limbs at .. at + n - 1 of the array f, as a number, and overwritten by the digits of v
Part(f, at, n) == Magnitude([i \in 0 .. n - 1 |-> f[at + i]], n)
Patched(f, at, n, v) ==
  [i \in DOMAIN f |-> IF at <= i /\ i < at + n THEN Digit(v, i - at) ELSE f[i]]

Limbs(v, n) == [i \in 0 .. n - 1 |-> Digit(v, i)]

\* Mutant: as many as the quotient has
KeptLimbsNoGuard(m, n) == IF m - n + 1 < n THEN (IF m - n + 1 < 2 THEN 2 ELSE m - n + 1) ELSE n

\* divisor limbs that divide_unsigned_approx keeps: one more than the quotient has
KeptLimbs(m, n) == IF m - n + 2 < n THEN m - n + 2 ELSE n

\* What the functions assert of their operands. The digits of the approximation that drop
\* divisor limbs are at most half the base: limbs are counted in 31 bits and have 32 or 64.
ASSUME KnuthAssumption ==
  /\ \A p \in KnuthOperands :
       /\ p[1] \in Nat /\ p[2] \in Nat
       /\ 2 <= LimbsNeeded(p[2]) /\ LimbsNeeded(p[2]) <= LimbsNeeded(p[1])
  /\ \A p \in KnuthApprox :
       /\ p[1] \in Nat /\ p[2] \in Nat
       /\ 3 <= LimbsNeeded(p[2]) /\ LimbsNeeded(p[2]) < LimbsNeeded(p[1])
       /\ 2 * (KeptLimbs(LimbsNeeded(p[1]), LimbsNeeded(p[2])) - 1) <= Base

\* Both operands shifted by the divisor's leading zeros, the dividend into one limb more.
\* top is the limb above the window of the next digit, j the digit. den and num are what
\* was asked, sound whether every DEBUG_ASSERT held.
KnuthStart(num, den, approx) ==
  LET m == LimbsNeeded(num)
      n == LimbsNeeded(den)
      shift == LeadingZeros(Digit(den, n - 1))
      d == Limbs(den * Power(2, shift), n)
      kept == IF approx THEN KeptLimbs(m, n) ELSE n
  IN  [pc |-> IF ~approx \/ m - n + 1 >= kept THEN "digit" ELSE "tail",
       approx |-> approx, num |-> num, den |-> den, m |-> m, n |-> n, kept |-> kept,
       shift |-> shift, d |-> d, dinv |-> ReciprocalWord3by2(d[n - 1], d[n - 2]),
       u |-> Limbs(num * Power(2, shift), m + 1), top |-> Digit(num * Power(2, shift), m),
       j |-> m - n, exact |-> TRUE, sound |-> TRUE,
       quotient |-> [i \in 0 .. m - n + 1 |-> Base - 1]]

KnuthEnter ==
  /\ knuth = KnuthIdle
  /\ \/ \E p \in KnuthOperands : knuth' = KnuthStart(p[1], p[2], FALSE)
     \/ \E p \in KnuthApprox : knuth' = KnuthStart(p[1], p[2], TRUE)

-----------------------------------------------------------------------------
(* One quotient digit. k is a call; the digit works on the top two limbs   *)
(* of the divisor and on the low limbs below them.                         *)

TopPair(k) == k.d[k.n - 1] * Base + k.d[k.n - 2]
Low(k) == IF k.pc = "digit" THEN k.kept - 2 ELSE k.j

\* where the digit's window begins
WindowBase(k) == k.j + k.n - 2 - Low(k)

\* after the digit q: the limbs of the window, the limb above the next one, the asserts
Stepped(k, q, u, top, sound) ==
  LET more == k.j > 0
      next == IF k.pc = "digit" /\ (~k.approx \/ k.j >= k.kept) THEN "digit"
              ELSE IF k.j > 1 THEN "tail" ELSE "last"
  IN  [k EXCEPT !.quotient[k.j] = q, !.u = u, !.top = top, !.sound = @ /\ sound,
                !.pc = IF more THEN next ELSE "finish", !.j = IF more THEN @ - 1 ELSE @]

\* the largest digit times the divisor, subtracted from the window with the borrow cy
Saturated(k) ==
  LET n == Low(k) + 2
      rest == Part(k.u, WindowBase(k), n) - (Base - 1) * Part(k.d, k.n - n, n)
  IN  [rest |-> rest % Power(Base, n), cy |-> -(rest \div Power(Base, n))]

\* Mutant: the estimate is never taken to be too large
SubtractedNoAddBack(k, step, low) ==
  LET part == Part(k.u, WindowBase(k), low) - step.quotient * Part(k.d, k.n - 2 - low, low)
  IN  [q |-> step.quotient, low |-> part % Power(Base, low), sound |-> TRUE,
       high |-> (step.remainder + (part \div Power(Base, low))) % (Base * Base)]

\* The low limbs of the divisor times the estimate are subtracted too. A borrow out of the
\* top two limbs means that the estimate is one too large: the divisor is added back.
Subtracted(k, step, low) ==
  LET divisor == Part(k.d, k.n - 2 - low, low)
      part == Part(k.u, WindowBase(k), low) - step.quotient * divisor
      high == step.remainder + (part \div Power(Base, low))
      back == (part % Power(Base, low)) + divisor
      sum  == (high % (Base * Base)) + TopPair(k) + (back \div Power(Base, low))
  IN  IF high >= 0
      THEN [q |-> step.quotient, low |-> part % Power(Base, low), high |-> high, sound |-> TRUE]
      ELSE [q |-> step.quotient - 1, low |-> back % Power(Base, low),
            high |-> sum % (Base * Base), sound |-> sum >= Base * Base]

Estimate(k) ==
  Div3by2Preinv(k.top * Base + k.u[k.j + k.n - 1], k.u[k.j + k.n - 2], TopPair(k), k.dinv)

\* the top limb of the remainder is kept aside, the one below goes back into the window
WithEstimate(k, result) ==
  Stepped(k, result.q,
          [Patched(k.u, WindowBase(k), Low(k), result.low)
             EXCEPT ![k.j + k.n - 2] = LowLimb(result.high)],
          HighLimb(result.high), result.sound)

WithSaturated(k, q, rest, sound) ==
  LET u == Patched(k.u, WindowBase(k), Low(k) + 2, rest)
  IN  Stepped(k, q, u, u[k.j + k.n - 1], sound)

-----------------------------------------------------------------------------
(* Actions.                                                                *)

\* the window begins with the top pair of the divisor: the largest digit, no correction
KnuthLargestDigit ==
  /\ knuth.pc = "digit"
  /\ knuth.top * Base + knuth.u[knuth.j + knuth.n - 1] = TopPair(knuth)
  /\ \E s \in {Saturated(knuth)} :
       knuth' = WithSaturated(knuth, Base - 1, s.rest, s.cy = knuth.top)

KnuthDigit ==
  /\ knuth.pc = "digit"
  /\ knuth.top * Base + knuth.u[knuth.j + knuth.n - 1] # TopPair(knuth)
  /\ \E step \in {Estimate(knuth)} :
       knuth' = WithEstimate(knuth, Subtracted(knuth, step, Low(knuth)))

\* whether the digits of the tail can still be told from the largest
TailSaturates == ~knuth.exact \/ knuth.top >= knuth.d[knuth.n - 1]

KnuthTailDigit ==
  /\ knuth.pc = "tail"
  /\ ~TailSaturates
  /\ \E step \in {Estimate(knuth)} :
       knuth' = WithEstimate(knuth, Subtracted(knuth, step, Low(knuth)))

KnuthTailLargest ==
  /\ knuth.pc = "tail"
  /\ TailSaturates
  /\ \E s \in {Saturated(knuth)} :
       LET n     == Low(knuth) + 2
           back  == s.rest + Part(knuth.d, knuth.n - n, n)
           above == Power(Base, n)
       IN  knuth' = IF knuth.top # s.cy /\ knuth.exact /\ knuth.top < s.cy
                    THEN WithSaturated(knuth, Base - 2, back % above, back >= above)
                    ELSE [WithSaturated(knuth, Base - 1, s.rest, TRUE)
                            EXCEPT !.exact = @ /\ knuth.top = s.cy]

\* the lowest digit of the approximation, against the top pair alone
KnuthLastDigit ==
  /\ knuth.pc = "last"
  /\ \E digit \in {IF ~TailSaturates THEN Estimate(knuth).quotient
                   ELSE IF knuth.exact /\ knuth.top < Saturated(knuth).cy
                        THEN Base - 2 ELSE Base - 1} :
       knuth' = [knuth EXCEPT !.quotient[0] = digit, !.pc = "finish"]

\* limbs of the quotient above its digits are cleared; the remainder is shifted back
KnuthFinish ==
  /\ knuth.pc = "finish"
  /\ LET k == knuth
         r == Part([k.u EXCEPT ![k.n - 1] = k.top], 0, k.n)
     IN  knuth' = [pc |-> "done", approx |-> k.approx, num |-> k.num, den |-> k.den,
                   quotient |-> Part([k.quotient EXCEPT ![k.m - k.n + 1] = 0], 0, k.m - k.n + 2),
                   remainder |-> r \div Power(2, k.shift),
                   sound |-> k.sound /\ (k.approx \/ r % Power(2, k.shift) = 0)]

KnuthReturn == knuth.pc = "done" /\ knuth' = KnuthIdle

KnuthStep == \/ KnuthLargestDigit \/ KnuthDigit \/ KnuthTailDigit \/ KnuthTailLargest
             \/ KnuthLastDigit \/ KnuthFinish \/ KnuthReturn

-----------------------------------------------------------------------------
(* Properties.                                                             *)

\* what is left of the dividend before digit j, and its part in the divisor's window
Remaining(k) == Part(k.u, 0, k.j + k.n) + k.top * Power(Base, k.j + k.n)
WindowTop(k) == Part(k.u, k.j + 1, k.n - 1) + k.top * Power(Base, k.n - 1)

\* Every digit of divide_unsigned is exact whatever estimate it started from: digits and
\* remainder make up the dividend, the remainder stays below the divisor, and no assertion
\* about a borrow or a carry fails. The estimate is corrected at most once.
SchoolbookDivision ==
  /\ knuth.pc # "idle" => knuth.sound
  /\ knuth.pc = "digit" /\ ~knuth.approx =>
       LET d == knuth.den * Power(2, knuth.shift)
           above == knuth.m - knuth.n - knuth.j
       IN  /\ Part(knuth.quotient, knuth.j + 1, above) * Power(Base, knuth.j + 1) * d
                + Remaining(knuth) = knuth.num * Power(2, knuth.shift)
           /\ WindowTop(knuth) < d
  /\ knuth.pc = "done" /\ ~knuth.approx =>
       /\ knuth.quotient = knuth.num \div knuth.den
       /\ knuth.remainder = knuth.num % knuth.den

\* divide_unsigned_approx is never below the quotient and never more than one above it,
\* although it drops divisor limbs and gives up on exact digits.
ApproximateDigits ==
  knuth.pc = "done" /\ knuth.approx =>
    knuth.quotient - (knuth.num \div knuth.den) \in {0, 1}
==============================================================================
