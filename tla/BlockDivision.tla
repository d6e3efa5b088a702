---------------------------- MODULE BlockDivision ----------------------------
(***************************************************************************)
(* Burnikel-Ziegler division (divide.cpp): the driver that marches blocks  *)
(* of the dividend, the recursion of D_2n/n and D_3n/2n, the approximate   *)
(* D_2n/n and the quotient-only division built on it. Leaves are the       *)
(* schoolbook kernels, by their contracts (KnuthDivision).                 *)
(***************************************************************************)

EXTENDS LimbMemory, WideOps, DivisionSizes, Sequences

CONSTANTS
  BzOperands,     \* records: num, den and the threshold override of a call with remainder
  BzQuotients     \* of a call of divide_quotient

VARIABLE bz

BzIdle == [frames |-> <<>>]
BzInit == bz = BzIdle

BzFrame == bz.frames[Len(bz.frames)]
BzRuns(op, pc) == bz.frames # <<>> /\ BzFrame.op = op /\ BzFrame.pc = pc
BzBecomes(f) == [bz.frames EXCEPT ![Len(bz.frames)] = f]
BzAt(pc) == BzBecomes([BzFrame EXCEPT !.pc = pc])

-----------------------------------------------------------------------------
(* Parameters.                                                             *)

\* bits of a number without its leading zeros
BzBits(x) ==
  LET size == LimbsNeeded(x) IN size * LimbBits - LeadingZeros(Digit(x, size - 1))

\* burnikel_ziegler_plan, and the shift sigma of both operands
BzPlan(num, den, threshold) ==
  LET n == PaddedLimbs(LimbsNeeded(den), threshold)
      sigma == n * LimbBits - BzBits(den)
  IN  [n |-> n, t |-> BlockCount(BzBits(num) + sigma, n * LimbBits), sigma |-> sigma,
       threshold |-> threshold]

\* Two limbs or more, a dividend at least as long, and limbs that hold the number of halvings
\* (of which there are fewer than bits in a size).
ASSUME BzAssumption ==
  /\ \A c \in BzOperands \cup BzQuotients :
       /\ c.num \in Nat /\ c.den \in Nat /\ c.threshold \in Nat /\ c.threshold >= 2
       /\ c.den >= Base /\ LimbsNeeded(c.den) <= LimbsNeeded(c.num)
  /\ \A c \in BzQuotients :
       2 * HalvingLevels(PaddedLimbs(LimbsNeeded(c.den), c.threshold), c.threshold) + 2 < Base

Leaf(n) == n % 2 # 0 \/ n < bz.plan.threshold

-----------------------------------------------------------------------------
(* Calls. value is the number in the window at the call, for the           *)
(* properties.                                                             *)

BzCall(op, mem, a, b, q) ==
  [op |-> op, pc |-> "enter", a |-> a, b |-> b, q |-> q, value |-> Value(mem, a),
   carry |-> 0, corrections |-> 0, sound |-> TRUE]

Upper(s) == Subspan(s, s.n \div 2)
Lower(s) == First(s, s.n \div 2)

\* a driver's workspace: divisor and dividend shifted by sigma, blocks of the quotient
BzWorkspace(num, den, plan) ==
  [b |-> ArrayOf(plan.n, den * Power(2, plan.sigma)),
   w |-> ArrayOf(plan.t * plan.n, num * Power(2, plan.sigma)),
   q |-> Filled((plan.t - 1) * plan.n, Base - 1)]

BzDriver(approx, blocks) == [op |-> "driver", pc |-> "march", approx |-> approx, left |-> blocks]

BzEnter ==
  /\ bz = BzIdle
  /\ \E c \in BzOperands : \E plan \in {BzPlan(c.num, c.den, c.threshold)} :
       bz' = [frames |-> <<BzDriver(FALSE, plan.t - 1)>>, num |-> c.num, den |-> c.den,
              plan |-> plan, mem |-> BzWorkspace(c.num, c.den, plan)]

\* divide_quotient: a zero limb below the dividend is the room for a fraction
BzEnterQuotient ==
  /\ bz = BzIdle
  /\ \E c \in BzQuotients : \E plan \in {BzPlan(c.num * Base, c.den, c.threshold)} :
       bz' = [frames |-> <<[op |-> "quotient", pc |-> "verify"], BzDriver(TRUE, plan.t - 1)>>,
              num |-> c.num, den |-> c.den, plan |-> plan,
              mem |-> BzWorkspace(c.num * Base, c.den, plan)]

-----------------------------------------------------------------------------
(* D_2n/n.                                                                 *)

\* divide_dc_basecase: the schoolbook kernel, the remainder put back into the window
BzLeaf ==
  /\ \/ BzRuns("2n1n", "enter") /\ Leaf(BzFrame.b.n)
     \/ BzRuns("divappr", "enter") /\ Leaf(BzFrame.b.n) /\ BzFrame.b.n < 3
  /\ LET f == BzFrame
         b == Value(bz.mem, f.b)
     IN  bz' = [bz EXCEPT
           !.mem = Store(Store(@, f.q, f.value \div b), f.a, f.value % b),
           !.frames = BzBecomes([f EXCEPT !.pc = "return",
                                          !.sound = f.value \div b < Power(Base, f.b.n)])]

\* the upper half of the quotient, from the upper three quarters of the window
BzUpper ==
  /\ BzRuns("2n1n", "enter") \/ BzRuns("divappr", "enter")
  /\ ~Leaf(BzFrame.b.n)
  /\ LET f == BzFrame
         window == Subspan(f.a, f.b.n \div 2)
     IN  bz' = [bz EXCEPT !.frames =
           Append(BzAt("lower"), BzCall("3n2n", bz.mem, window, f.b, Upper(f.q)))]

BzLower ==
  /\ BzRuns("2n1n", "lower")
  /\ LET f == BzFrame
         window == First(f.a, 3 * (f.b.n \div 2))
     IN  bz' = [bz EXCEPT !.frames =
           Append(BzAt("return"), BzCall("3n2n", bz.mem, window, f.b, Lower(f.q)))]

-----------------------------------------------------------------------------
(* D_3n/2n: q limbs h, window v of 3h, divisor b of 2h.                    *)

TopBelow(f, h) == Value(bz.mem, Subspan(f.a, 2 * h)) < Value(bz.mem, Upper(f.b))

BzEstimate ==
  /\ BzRuns("3n2n", "enter")
  /\ TopBelow(BzFrame, BzFrame.q.n)
  /\ LET f == BzFrame
     IN  bz' = [bz EXCEPT !.frames =
           Append(BzAt("product"),
                  BzCall("2n1n", bz.mem, Subspan(f.a, f.q.n), Upper(f.b), f.q))]

\* the top of the window equals the divisor's: the largest quotient, the remainder
\* may carry
BzLargest ==
  /\ BzRuns("3n2n", "enter")
  /\ ~TopBelow(BzFrame, BzFrame.q.n)
  /\ LET f == BzFrame
         h == f.q.n
         mid == First(Subspan(f.a, h), h)
         top == Subspan(f.a, 2 * h)
         sum == Value(bz.mem, mid) + Value(bz.mem, Upper(f.b))
     IN  bz' = [bz EXCEPT
           !.mem = Fill(Store(Store(@, f.q, Power(Base, h) - 1), mid, sum), top),
           !.frames = BzBecomes([f EXCEPT
             !.pc = "product", !.carry = sum \div Power(Base, h),
             !.sound = Value(bz.mem, top) = Value(bz.mem, Upper(f.b))])]

\* Mutant: the carry of the remainder is lost
NetNoCarry(carry, difference, width) == difference \div Power(Base, width)

\* limb above the remainder: the carry less the borrow
Net(carry, difference, width) == carry + difference \div Power(Base, width)

\* the product with the lower half of the divisor is taken off
BzProduct ==
  /\ BzRuns("3n2n", "product")
  /\ LET f == BzFrame
         h == f.q.n
         rest == First(f.a, 2 * h)
         difference == Value(bz.mem, rest) - Value(bz.mem, f.q) * Value(bz.mem, Lower(f.b))
         net == Net(f.carry, difference, 2 * h)
     IN  bz' = [bz EXCEPT
           !.mem = Store(@, rest, difference % Power(Base, 2 * h)),
           !.frames = BzBecomes([f EXCEPT !.pc = IF net < 0 THEN "correct" ELSE "return",
                                          !.carry = net, !.sound = @ /\ net <= 0])]

BzCorrect ==
  /\ BzRuns("3n2n", "correct")
  /\ LET f == BzFrame
         h == f.q.n
         rest == First(f.a, 2 * h)
         sum == Value(bz.mem, rest) + Value(bz.mem, f.b)
         net == f.carry + sum \div Power(Base, 2 * h)
         q == Value(bz.mem, f.q)
     IN  bz' = [bz EXCEPT
           !.mem = Store(Store(@, rest, sum), f.q, (q - 1) % Power(Base, h)),
           !.frames = BzBecomes([f EXCEPT !.pc = IF net < 0 THEN "correct" ELSE "return",
                                          !.carry = net, !.corrections = @ + 1,
                                          !.sound = @ /\ q > 0])]

-----------------------------------------------------------------------------
(* The approximate D_2n/n.                                                 *)

\* a leaf of three limbs or more: divide_unsigned_approx, its top digit saturated
BzApproxLeaf ==
  /\ BzRuns("divappr", "enter")
  /\ Leaf(BzFrame.b.n) /\ BzFrame.b.n >= 3
  /\ LET f == BzFrame
         q == f.value \div Value(bz.mem, f.b)
         short == Trimmed(bz.mem, f.a) <= f.b.n
     IN  \E approx \in IF short THEN {q} ELSE {q, q + 1} :
           bz' = [bz EXCEPT
             !.mem = Store(@, f.q, IF approx >= Power(Base, f.b.n) THEN Power(Base, f.b.n) - 1
                                   ELSE approx),
             !.frames = BzAt("return")]

\* the lower half, of the upper half of the remainder by the upper half of the divisor
BzApproxLower ==
  /\ BzRuns("divappr", "lower")
  /\ LET f == BzFrame
         h == f.b.n \div 2
         top == Value(bz.mem, First(Subspan(f.a, 2 * h), h))
         b1 == Value(bz.mem, Upper(f.b))
         window == First(Subspan(f.a, h), 2 * h)
     IN  bz' = IF top < b1
               THEN [bz EXCEPT !.frames =
                       Append(BzAt("return"),
                              BzCall("divappr", bz.mem, window, Upper(f.b), Lower(f.q)))]
               ELSE [bz EXCEPT !.mem = Store(@, Lower(f.q), Power(Base, h) - 1),
                               !.frames = BzBecomes([f EXCEPT !.pc = "return",
                                                              !.sound = top = b1])]

BzReturn ==
  /\ bz.frames # <<>> /\ BzFrame.pc = "return"
  /\ bz' = [bz EXCEPT !.frames = SubSeq(@, 1, Len(@) - 1)]

-----------------------------------------------------------------------------
(* The drivers.                                                            *)

\* windows from the top down; the lowest may be approximate
BzMarch ==
  /\ BzRuns("driver", "march")
  /\ BzFrame.left > 0
  /\ LET f == BzFrame
         n == bz.plan.n
         i == f.left - 1
         op == IF f.approx /\ i = 0 THEN "divappr" ELSE "2n1n"
     IN  bz' = [bz EXCEPT !.frames =
           Append(BzBecomes([f EXCEPT !.left = i]),
                  BzCall(op, bz.mem, Span("w", i * n, 2 * n), Span("b", 0, n),
                         Span("q", i * n, n)))]

QuotientLimbs == Span("q", 0, (bz.plan.t - 1) * bz.plan.n)

\* the remainder is shifted back; it is no use after an approximate window
BzFinish ==
  /\ BzRuns("driver", "march")
  /\ BzFrame.left = 0
  /\ ~BzFrame.approx
  /\ LET r == Value(bz.mem, Span("w", 0, bz.plan.n))
     IN  bz' = [frames |-> <<[op |-> "result", pc |-> "done"]>>,
                num |-> bz.num, den |-> bz.den,
                quotient |-> Value(bz.mem, TrimmedSpan(bz.mem, QuotientLimbs)),
                remainder |-> r \div Power(2, bz.plan.sigma),
                sound |-> r % Power(2, bz.plan.sigma) = 0]

BzFinishApprox ==
  /\ BzRuns("driver", "march")
  /\ BzFrame.left = 0
  /\ BzFrame.approx
  /\ LET q == Value(bz.mem, TrimmedSpan(bz.mem, QuotientLimbs))
     IN  bz' = [frames |-> SubSeq(bz.frames, 1, 1), num |-> bz.num, den |-> bz.den,
                plan |-> bz.plan, extended |-> q]

\* The fraction below the quotient's lowest limb tells whether the approximation can have
\* carried into it; if it can, the product with the divisor decides.
BzVerify ==
  /\ BzRuns("quotient", "verify")
  /\ LET size == LimbsNeeded(bz.num) - LimbsNeeded(bz.den) + 1
         slack == QuotientSlack(bz.plan.n, bz.plan.threshold)
         q == bz.extended \div Base
         above == bz.num < q * bz.den
     IN  bz' = [frames |-> <<[op |-> "result", pc |-> "done"]>>,
                num |-> bz.num, den |-> bz.den,
                plan |-> bz.plan,
                quotient |-> CASE q >= Power(Base, size) -> Power(Base, size) - 1
                               [] q < Power(Base, size) /\ bz.extended % Base >= slack -> q
                               [] q < Power(Base, size) /\ bz.extended % Base < slack ->
                                    IF above THEN q - 1 ELSE q,
                sound |-> slack < Base /\ bz.extended < Power(Base, size + 2)]

BzExit == BzRuns("result", "done") /\ bz' = BzIdle

BzStep == \/ BzLeaf \/ BzUpper \/ BzLower \/ BzEstimate \/ BzLargest \/ BzProduct \/ BzCorrect
          \/ BzApproxLeaf \/ BzApproxLower \/ BzReturn
          \/ BzMarch \/ BzFinish \/ BzFinishApprox \/ BzVerify \/ BzExit

-----------------------------------------------------------------------------
(* Properties.                                                             *)

\* the window's part above the remainder
AboveRemainder(f) == Subspan(f.a, f.b.n)

\* Every exact window divides: the quotient block and the remainder left in the window make
\* up what it held, the remainder is below the divisor and the limbs above it are zero, so
\* that the next window's precondition holds. A correction is needed at most twice, and the
\* whole march returns quotient and remainder.
WindowsDivide ==
  bz.frames # <<>> =>
    LET f == BzFrame
    IN  /\ f.op = "2n1n" /\ f.pc = "enter" =>
             Value(bz.mem, AboveRemainder(f)) < Value(bz.mem, f.b)
        /\ f.op \in {"2n1n", "3n2n"} /\ f.pc = "return" =>
             LET b == Value(bz.mem, f.b)
                 r == Value(bz.mem, First(f.a, f.b.n))
             IN  /\ f.sound /\ f.corrections <= 2
                 /\ Value(bz.mem, f.q) * b + r = f.value /\ r < b
                 /\ Value(bz.mem, AboveRemainder(f)) = 0
        /\ f.op = "result" /\ "remainder" \in DOMAIN bz =>
             /\ bz.sound
             /\ bz.quotient = bz.num \div bz.den /\ bz.remainder = bz.num % bz.den

\* An approximate window is never below the quotient, and at most two above it for every
\* halving and one for the leaf, however the leaves round. Then divide_quotient, which has only
\* that quotient with one fraction limb, is exact where a window is halved once: the fraction
\* rules the carry out or the product finds it. Where it is halved more often its slack is less
\* than that, and its quotient may be one too large (ApproximateQuotient).
QuotientAlone ==
  bz.frames # <<>> =>
    LET f == BzFrame
    IN  /\ f.op = "divappr" /\ f.pc = "return" =>
             /\ f.sound
             /\ Value(bz.mem, f.q) - (f.value \div Value(bz.mem, f.b))
                  \in 0 .. 2 * HalvingLevels(f.b.n, bz.plan.threshold) + 1
        /\ f.op = "result" /\ "remainder" \notin DOMAIN bz =>
             /\ bz.sound
             /\ bz.quotient - (bz.num \div bz.den) \in 0 .. 1
             /\ HalvingLevels(bz.plan.n, bz.plan.threshold) <= 1 =>
                  bz.quotient = bz.num \div bz.den
==============================================================================
