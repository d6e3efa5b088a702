------------------------- MODULE ApproximateQuotient -------------------------
(***************************************************************************)
(* divide_quotient (divide.cpp) by its numbers: the exact windows are      *)
(* quotient and remainder, which BlockDivision shows of the recursion that *)
(* computes them, and the lowest window is the chain of halvings of        *)
(* divide_dc_divappr. On wide numbers, so that the limbs hold the slack of *)
(* several halvings and a window of many limbs is in reach.                *)
(***************************************************************************)

EXTENDS WideNat, DivisionSizes

CONSTANT AqOperands     \* records num, den, the threshold override of a call of divide_quotient

VARIABLE aq

AqIdle == [pc |-> "idle"]
Init == aq = AqIdle

-----------------------------------------------------------------------------
(* burnikel_ziegler_plan of the dividend with a limb more.                 *)

AqEnter ==
  /\ aq = AqIdle
  /\ \E c \in AqOperands : \E n \in {PaddedLimbs(Len(c.den), c.threshold)} :
       LET sigma == n * DigitBits - WideBits(c.den)
           t == BlockCount(WideBits(c.num) + DigitBits + sigma, n * DigitBits)
       IN  \E w \in {ShiftedUp(UpLimbs(c.num, 1), sigma)} :
             aq' = [pc |-> "march", num |-> c.num, den |-> c.den, threshold |-> c.threshold,
                    n |-> n, left |-> t - 1, w |-> w, d |-> ShiftedUp(c.den, sigma),
                    rest |-> BelowLimbs(AboveLimbs(w, (t - 1) * n), n), quotient |-> <<>>]

\* the number in the window below the remainder so far
Window(i) == Plus(UpLimbs(aq.rest, aq.n), BelowLimbs(AboveLimbs(aq.w, i * aq.n), aq.n))

\* one of the exact windows, from the top down
AqWindow ==
  /\ aq.pc = "march" /\ aq.left > 1
  /\ \E v \in {Window(aq.left - 1)} : \E q \in {WideQuotient(v, aq.d)} :
       aq' = [aq EXCEPT !.left = @ - 1, !.rest = Minus(v, Times(q, aq.d)),
                        !.quotient = Plus(UpLimbs(@, aq.n), q)]

-----------------------------------------------------------------------------
(* divide_dc_divappr: size limbs of quotient are still to come, of the     *)
(* window v by the divisor d, which loses its lower half at each level.    *)

AqApproximate ==
  /\ aq.pc = "march" /\ aq.left = 1
  /\ aq' = [pc |-> "window", num |-> aq.num, den |-> aq.den, threshold |-> aq.threshold,
            n |-> aq.n, size |-> aq.n, v |-> Window(0), d |-> aq.d, quotient |-> aq.quotient]

AqLeaf == aq.size % 2 # 0 \/ aq.size < aq.threshold

\* the upper half exactly; its remainder is the next window unless its top is the divisor's,
\* and then the lower half is all ones
AqHalve ==
  /\ aq.pc = "window" /\ ~AqLeaf
  /\ LET h == aq.size \div 2
         upper == AboveLimbs(aq.v, h)
         d1 == AboveLimbs(aq.d, h)
     IN  \E q \in {WideQuotient(upper, aq.d)} :
         \E r \in {Minus(upper, Times(q, aq.d))} :
           LET so_far == Plus(UpLimbs(aq.quotient, h), q)
           IN  aq' = IF Less(AboveLimbs(r, h), d1)
                     THEN [aq EXCEPT !.size = h, !.v = r, !.d = d1, !.quotient = so_far]
                     ELSE [aq EXCEPT !.pc = "verify",
                                     !.quotient = Plus(UpLimbs(so_far, h), Ones(h))]

\* the schoolbook kernel; from three limbs on, the approximate one, which saturates
AqDivide ==
  /\ aq.pc = "window" /\ AqLeaf
  /\ \E q \in {WideQuotient(aq.v, aq.d)} :
     \E digits \in IF aq.size < 3 \/ Len(aq.v) <= aq.size THEN {q} ELSE {q, Plus(q, One)} :
       LET saturated == IF Len(digits) > aq.size THEN Ones(aq.size) ELSE digits
       IN  aq' = [aq EXCEPT !.pc = "verify",
                            !.quotient = Plus(UpLimbs(@, aq.size), saturated)]

-----------------------------------------------------------------------------
(* The lowest limb is the fraction.                                        *)

AqVerify ==
  /\ aq.pc = "verify"
  /\ LET size == Len(aq.num) - Len(aq.den) + 1
         q == AboveLimbs(aq.quotient, 1)
         accepted == DigitAt(aq.quotient, 1) >= QuotientSlack(aq.n, aq.threshold)
         above == Less(aq.num, Times(q, aq.den))
     IN  aq' = [pc |-> "done", num |-> aq.num, den |-> aq.den,
                quotient |-> CASE Len(q) > size -> Ones(size)
                               [] Len(q) <= size /\ ~accepted /\ above -> Minus(q, One)
                               [] Len(q) <= size /\ (accepted \/ ~above) -> q]

AqExit == aq.pc = "done" /\ aq' = AqIdle

Next == \/ AqEnter \/ AqWindow \/ AqApproximate \/ AqHalve \/ AqDivide
        \/ AqVerify \/ AqExit

Spec == Init /\ [][Next]_aq

-----------------------------------------------------------------------------
(* Properties.                                                             *)

\* "divide_quotient: must equal the exact divmod quotient on every input"
\* (tests/beman/big_int/division_divappr.test.cpp).
QuotientIsExact ==
  aq.pc = "done" =>
    /\ ~Less(aq.num, Times(aq.quotient, aq.den))
    /\ Less(aq.num, Times(Plus(aq.quotient, One), aq.den))
==============================================================================
