--------------------------- MODULE NumericFunctions ---------------------------
(***************************************************************************)
(* gcd, lcm and midpoint (numeric.hpp, gcd_impl.hpp). The greatest common  *)
(* divisor of two values of several limbs is computed in three limb        *)
(* buffers that change roles: Euclidean steps bring the operands to about  *)
(* one size, then Lehmer steps simulate Euclid on the top two limbs, and   *)
(* binary steps take over where the top limbs certify nothing. One step    *)
(* per division, simulated quotient and pass.                              *)
(***************************************************************************)

EXTENDS WideOps, LimbMemory, FiniteSets

CONSTANTS
  NumGcds,        \* pairs of magnitudes for gcd
  NumLcms,        \* pairs of magnitudes for lcm
  NumMidpoints,   \* pairs of integers for midpoint
  NumInplace      \* inplace_capacity

VARIABLE num

NumIdle == [pc |-> "idle"]
NumInit == num = NumIdle

-----------------------------------------------------------------------------
(* One limb.                                                               *)

OddPartOf(x) == x \div 2 ^ TrailingZeros(x)

\* gcd_limbs: both odd, the larger replaced by the difference
GcdLimbs(x, y) ==
  LET common == SmallerOf(TrailingZeros(x), TrailingZeros(y))
      loop[p \in (1 .. Base - 1) \X (0 .. Base - 1)] ==
        IF p[2] = 0 THEN p[1]
        ELSE LET v == OddPartOf(p[2])
             IN  IF p[1] > v THEN loop[<<v, p[1] - v>>] ELSE loop[<<p[1], v - p[1]>>]
  IN  loop[<<OddPartOf(x), y>>] * 2 ^ common

\* gcd_short
GcdShort(x, d) == LET r == ShortDivide(x, d).remainder IN IF r = 0 THEN d ELSE GcdLimbs(r, d)

OneLimb(x) == LimbsNeeded(x) = 1

-----------------------------------------------------------------------------
(* Calls, and their results where no buffer is needed.                     *)

\* what is computed, by Euclid's own algorithm
Gcd(m, n) == LET f[p \in Nat \X Nat] == IF p[2] = 0 THEN p[1] ELSE f[<<p[2], p[1] % p[2]>>]
             IN  f[<<m, n>>]

NumFinished(call, result) == [pc |-> "done", call |-> call, result |-> result, tail |-> {0}]

\* The early returns of gcd_impl.
GcdSmall(m, n) == m = 0 \/ n = 0 \/ OneLimb(m) \/ OneLimb(n)
GcdSmallResult(m, n) ==
  CASE n = 0 -> m
    [] n # 0 /\ m = 0 -> n
    [] n # 0 /\ m # 0 /\ OneLimb(m) /\ OneLimb(n) -> GcdLimbs(m, n)
    [] m # 0 /\ ~OneLimb(m) /\ n # 0 /\ OneLimb(n) -> GcdShort(m, n)
    [] n # 0 /\ ~OneLimb(n) /\ m # 0 /\ OneLimb(m) -> GcdShort(n, m)

NumEuclid(call) == [pc |-> "euclid", call |-> call, a |-> call.m, b |-> call.n]

NumGcd ==
  /\ num = NumIdle
  /\ \E p \in NumGcds :
       LET call == [op |-> "gcd", m |-> p[1], n |-> p[2]]
       IN  num' = IF GcdSmall(p[1], p[2]) THEN NumFinished(call, GcdSmallResult(p[1], p[2]))
                  ELSE NumEuclid(call)

\* lcm_impl: m * n with the divisor g taken out of the shorter operand
LcmOf(m, n, g) ==
  IF LimbsNeeded(n) < LimbsNeeded(m) THEN (n \div g) * m ELSE (m \div g) * n

LcmScalar(m, n) ==
  LET product == (m \div GcdLimbs(m, n)) * n
  IN  LowLimb(product) + HighLimb(product) * Base

NumLcm ==
  /\ num = NumIdle
  /\ \E p \in NumLcms :
       LET call == [op |-> "lcm", m |-> p[1], n |-> p[2]]
       IN  num' =
         CASE p[1] = 0 \/ p[2] = 0 -> NumFinished(call, 0)
           [] p[1] # 0 /\ p[2] # 0 /\ OneLimb(p[1]) /\ OneLimb(p[2]) ->
                NumFinished(call, LcmScalar(p[1], p[2]))
           [] p[1] # 0 /\ p[2] # 0 /\ ~(OneLimb(p[1]) /\ OneLimb(p[2])) ->
                IF GcdSmall(p[1], p[2])
                THEN NumFinished(call, LcmOf(p[1], p[2], GcdSmallResult(p[1], p[2])))
                ELSE NumEuclid(call)

AbsOf(x) == IF x < 0 THEN -x ELSE x

\* two limbs on opposite sides of zero: half their distance without its carry
HalfGap(x, y) == LimbOp("and", x, y) + LimbOp("xor", x, y) \div 2

\* midpoint of two integers whose magnitudes fit a limb
MidpointLimbs(m, n) ==
  LET am == AbsOf(m)
      an == AbsOf(n)
      gap == HalfGap(am, an)
      same == IF an >= am THEN am + (an - am) \div 2 ELSE am - (am - an) \div 2
      SignedAs(negative, x) == IF negative THEN -x ELSE x
  IN  IF (m < 0) = (n < 0) THEN SignedAs(m < 0, same)
      ELSE IF am >= gap THEN SignedAs(m < 0, am - gap) ELSE SignedAs(n < 0, gap - am)

\* m + (n - m) / 2, the magnitude of the difference halved
MidpointWide(m, n) == m + (IF n < m THEN -((m - n) \div 2) ELSE (n - m) \div 2)

NumMidpoint ==
  /\ num = NumIdle
  /\ \E p \in NumMidpoints :
       num' = NumFinished([op |-> "midpoint", m |-> p[1], n |-> p[2]],
                IF OneLimb(AbsOf(p[1])) /\ OneLimb(AbsOf(p[2]))
                THEN MidpointLimbs(p[1], p[2]) ELSE MidpointWide(p[1], p[2]))

-----------------------------------------------------------------------------
(* Euclidean steps, and the buffers.                                       *)

EuclidGap == LimbBits \div 2

\* the remainder always ends up in b
NumDivide ==
  /\ num.pc = "euclid"
  /\ ~OneLimb(num.a) /\ ~OneLimb(num.b)
  /\ LET aBits == BitWidth(num.a)
         bBits == BitWidth(num.b)
     IN  \/ /\ aBits > bBits + EuclidGap
            /\ num' = [num EXCEPT !.a = num.b, !.b = num.a % num.b,
                                  !.pc = IF num.a % num.b = 0 THEN "divided" ELSE @]
         \/ /\ bBits > aBits + EuclidGap
            /\ num' = [num EXCEPT !.b = num.b % num.a,
                                  !.pc = IF num.b % num.a = 0 THEN "divided" ELSE @]

\* A buffer of a value v of n limbs: in place, with zero limbs above it, or an allocated
\* block of capacity limbs, with leftovers of earlier values above it.
Buffer(v, n, capacity) ==
  [i \in 0 .. LargerOf(capacity, NumInplace) - 1 |->
     IF i < n THEN Digit(v, i) ELSE IF capacity <= NumInplace THEN 0 ELSE Base - 1]

NoSimulation == <<>>

\* Wide operands get a limb of headroom each, and a third buffer.
NumPlace ==
  /\ num.pc = "euclid"
  /\ \/ OneLimb(num.a) \/ OneLimb(num.b)
     \/ AbsOf(BitWidth(num.a) - BitWidth(num.b)) <= EuclidGap
  /\ LET na == LimbsNeeded(num.a)
         nb == LimbsNeeded(num.b)
         width == LargerOf(na, nb) + 1
         wide == width > 3
         Capacity(n) == IF wide THEN width ELSE n
     IN  num' = [pc |-> "pass", call |-> num.call, common |-> 0,
                 mem |-> [a |-> Buffer(num.a, na, Capacity(na)),
                          b |-> Buffer(num.b, nb, Capacity(nb)),
                          t |-> Buffer(0, 1, Capacity(1))],
                 u |-> Span("a", 0, na), v |-> Span("b", 0, nb),
                 t |-> Span("t", 0, 0), lehmer |-> wide, sim |-> NoSimulation]

BufferSize(area) == Cardinality(DOMAIN num.mem[area])

ValueU == Value(num.mem, num.u)
ValueV == Value(num.mem, num.v)

-----------------------------------------------------------------------------
(* One pass of gcd_unsigned_spans.                                         *)

\* larger operand first
NumOrder ==
  /\ num.pc = "pass"
  /\ LET u == ValueU
         v == ValueV
         big == IF u < v THEN num.v ELSE num.u
         small == IF u < v THEN num.u ELSE num.v
     IN  num' = [num EXCEPT !.u = big, !.v = small,
                            !.pc = CASE u = v -> "restore"
                                     [] u # v /\ small.n = 1 -> "short"
                                     [] u # v /\ small.n > 1 ->
                                          IF big.n >= 3 /\ num.lehmer THEN "window" ELSE "binary"]

\* The smaller operand fits a limb.
NumShort ==
  /\ num.pc = "short"
  /\ num' = [num EXCEPT !.pc = "restore", !.u = First(num.u, 1),
                        !.mem = Store(@, First(num.u, 1), GcdShort(ValueU, ValueV))]

TwosInCommon(x, y) == SmallerOf(TrailingZeros(x), TrailingZeros(y))

\* both made odd, then their difference
NumBinary ==
  /\ num.pc = "binary"
  /\ LET x == OddPartOf(ValueU)
         y == OddPartOf(ValueV)
         shifted == Store(Store(num.mem, num.u, x), num.v, y)
         u == First(num.u, LimbsNeeded(x))
         v == First(num.v, LimbsNeeded(y))
         big == IF x < y THEN v ELSE u
         difference == Store(shifted, big, AbsOf(x - y))
         common == num.common + TwosInCommon(ValueU, ValueV)
     IN  num' = IF x = y
                THEN [num EXCEPT !.pc = "restore", !.mem = shifted, !.common = common,
                                 !.u = u, !.v = v]
                ELSE [num EXCEPT !.pc = "pass", !.mem = difference, !.common = common,
                                 !.u = TrimmedSpan(difference, big),
                                 !.v = IF x < y THEN u ELSE v]

-----------------------------------------------------------------------------
(* Lehmer's reduction.                                                     *)

\* the top two limbs at the positions of the larger operand, which is shifted up to align
Window(s) ==
  LET n == num.u.n
      align == LeadingZeros(Limb(num.mem, num.u, n - 1))
  IN  ((Value(num.mem, s) * 2 ^ align) \div Base ^ (n - 2)) % (Base * Base)

NumWindow ==
  /\ num.pc = "window"
  /\ \E v \in {Window(num.v)} :
       num' = IF v = 0 THEN [num EXCEPT !.pc = "binary"]
              ELSE [num EXCEPT !.pc = "simulate",
                              !.sim = [u |-> Window(num.u), v |-> v, x0 |-> 1, x1 |-> 0,
                                       y0 |-> 0, y1 |-> 1, steps |-> 0]]

\* Mutant: the remainder alone decides
CertifiedByRemainder(u, v, steps, x1, x2, y1, y2) ==
  y2 < Base /\ IF steps % 2 = 0 THEN v >= x2 ELSE v >= y2

\* Jebelean's exact condition on the pair after the step
Certified(u, v, steps, x1, x2, y1, y2) ==
  /\ y2 < Base
  /\ IF steps % 2 = 0 THEN v >= x2 /\ u - v >= y2 + y1
                      ELSE v >= y2 /\ u - v >= x2 + x1

\* one step of lehmer_simulate; steps counts the step that is not certified too
NumSimulate ==
  /\ num.pc = "simulate"
  /\ LET s == num.sim
         q == s.u \div s.v
         x2 == (s.x0 + q * s.x1) % Base
         y2 == s.y0 + q * s.y1
         steps == s.steps + 1
     IN  num' = IF Certified(s.v, s.u % s.v, steps, s.x1, x2, s.y1, y2)
                THEN [num EXCEPT !.sim = [u |-> s.v, v |-> s.u % s.v, x0 |-> s.x1, x1 |-> x2,
                                          y0 |-> s.y1, y1 |-> y2, steps |-> steps]]
                ELSE [num EXCEPT !.sim.steps = steps,
                                 !.pc = IF steps <= 1 THEN "uncertified" ELSE "update"]

NumUncertified ==
  /\ num.pc = "uncertified"
  /\ num' = [num EXCEPT !.pc = "binary", !.sim = NoSimulation]

\* Mutant: the signs of the cofactors do not alternate
UpdateEvenAlways(s) == TRUE
UpdateEven(s) == s.steps % 2 = 0

\* gcd_lehmer_step: the mirror of the update goes to the third buffer first, which becomes
\* an operand. The smaller operand's buffer is free afterwards.
NumUpdate ==
  /\ num.pc = "update"
  /\ LET s == num.sim
         even == UpdateEven(s)
         xOwn == IF even THEN s.x1 ELSE s.x0
         yOwn == IF even THEN s.y1 ELSE s.y0
         xT == IF even THEN s.x0 ELSE s.x1
         yT == IF even THEN s.y0 ELSE s.y1
         width == num.u.n + 1
         own == First(num.u, width)
         scratch == [num.t EXCEPT !.n = width]
         \* v's coefficients are magnitudes: y * v less x * u, and x * u less y * v
         mirrored == Store(num.mem, scratch, ValueV * yT - ValueU * xT)
         updated == Store(mirrored, own, ValueU * xOwn - ValueV * yOwn)
         newOwn == TrimmedSpan(updated, own)
         newT == TrimmedSpan(updated, scratch)
         larger == IF even THEN newT ELSE newOwn
         smaller == IF even THEN newOwn ELSE newT
     IN  num' = [num EXCEPT
                   !.mem = updated, !.sim = NoSimulation,
                   !.u = larger, !.v = smaller, !.t = First(num.v, 0),
                   !.pc = IF Value(updated, smaller) = 0 THEN "restore" ELSE "pass"]

-----------------------------------------------------------------------------
(* The end.                                                                *)

LcmOrGcd(call, g) == IF call.op = "lcm" THEN LcmOf(call.m, call.n, g) ELSE g

\* b divides a exactly
NumDivided ==
  /\ num.pc = "divided"
  /\ num' = NumFinished(num.call, LcmOrGcd(num.call, num.a))

InPlace(area) == BufferSize(area) = NumInplace

\* The result may be in any buffer; it is shifted up there and copied into a's, whose limbs
\* above the result are cleared if they are in place.
NumRestore ==
  /\ num.pc = "restore"
  /\ LET g == ValueU * 2 ^ num.common
         n == LimbsNeeded(g)
         shifted == Store(num.mem, First(num.u, n), g)
         copied == [shifted EXCEPT !.a = [i \in DOMAIN @ |->
                      IF i < n THEN shifted[num.u.area][i] ELSE @[i]]]
         cleared == [i \in DOMAIN copied.a |->
                      IF i >= n /\ InPlace("a") THEN 0 ELSE copied.a[i]]
     IN  num' = [pc |-> "done", call |-> num.call,
                 result |-> LcmOrGcd(num.call, Magnitude(cleared, n)),
                 tail |-> IF InPlace("a")
                          THEN {cleared[i] : i \in n .. NumInplace - 1} ELSE {0}]

NumReturn == num.pc = "done" /\ num' = NumIdle

NumEnter == NumGcd \/ NumLcm \/ NumMidpoint

NumStep == \/ NumDivide \/ NumPlace \/ NumOrder \/ NumShort \/ NumBinary \/ NumWindow
           \/ NumSimulate \/ NumUncertified \/ NumUpdate \/ NumDivided \/ NumRestore
           \/ NumReturn

-----------------------------------------------------------------------------
(* Properties.                                                             *)

OperandSum == IF num.pc = "euclid" THEN num.a + num.b ELSE ValueU + ValueV

\* the full operands after the certified steps: the pair that Euclid's algorithm reaches
CertifiedLarger == AbsOf(num.sim.x0 * ValueU - num.sim.y0 * ValueV)
CertifiedSmaller == AbsOf(num.sim.x1 * ValueU - num.sim.y1 * ValueV)

\* Quotients that the top two limbs certify are those of the full operands. No pass loses or
\* adds a common divisor and the buffers have room for every update. The results are the
\* greatest common divisor, the least common multiple and the midpoint rounded towards the
\* first operand; an in-place result leaves no limb of an operand above it.
NumericExact ==
  /\ num.pc = "euclid" => Gcd(num.a, num.b) = Gcd(num.call.m, num.call.n)
  /\ num.pc = "pass" =>
       Gcd(ValueU, ValueV) * 2 ^ num.common = Gcd(num.call.m, num.call.n)
  /\ num.pc = "simulate" => CertifiedSmaller < CertifiedLarger
  /\ num.pc = "update" => \A area \in {"a", "b", "t"} : BufferSize(area) > num.u.n
  /\ num.pc = "restore" =>
       LimbsNeeded(ValueU * 2 ^ num.common) <=
         SmallerOf(BufferSize(num.u.area), BufferSize("a"))
  /\ num.pc = "done" =>
       LET m == num.call.m
           n == num.call.n
       IN  /\ num.tail \subseteq {0}
           /\ num.call.op = "gcd" => num.result = Gcd(m, n)
           /\ num.call.op = "lcm" => num.result * Gcd(m, n) = m * n
           /\ num.call.op = "midpoint" =>
                /\ AbsOf(2 * num.result - (m + n)) <= 1
                /\ AbsOf(num.result - m) <= AbsOf(num.result - n)

\* Every division and every pass makes the sum of the two operands smaller, so that the
\* reduction ends although neither Lehmer nor binary steps look at the size of the result.
GcdShrinks ==
  [][ \/ num.pc = "euclid" /\ num'.pc = "euclid"
      \/ num.pc \in {"binary", "update"} /\ num'.pc = "pass"
      => OperandSum' < OperandSum ]_num
===============================================================================
