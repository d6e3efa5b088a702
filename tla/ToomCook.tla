------------------------------ MODULE ToomCook ------------------------------
(***************************************************************************)
(* The Toom-Cook kernels (toom_cook_3, _4, _6_5 and _8_5.cpp): split both  *)
(* operands into pieces of k limbs, evaluate the two polynomials at small  *)
(* points, multiply the values, interpolate the coefficients of the        *)
(* product in place and add them up at their offsets.                      *)
(*                                                                         *)
(* A kernel is data here: its shape, its points and its interpolation, a   *)
(* sequence of instructions over the named buffers. One step executes one  *)
(* instruction, so that what each one needs - no borrow, no remainder, a   *)
(* result that fits the buffer - can be stated of every point of the       *)
(* program. The recursive products are taken to be exact: that is what     *)
(* the same property says of the smaller call.                             *)
(***************************************************************************)

EXTENDS WideNat

CONSTANTS
  ToomLimbBits,   \* bits of uint_multiprecision_t: the constants need at least 32
  ToomOperands,   \* pairs of operands to multiply, each a sequence of limbs, lowest first
  ToomEntries,    \* the kernels that are called from outside
  ToomCutoffs,    \* below its cutoff a kernel leaves the product to the next
  ToomOverrides   \* values of cutoff_override; 0 stands for the kernel's own cutoff

VARIABLE toom     \* the call that runs, if any

ToomIdle == [pc |-> "idle"]
ToomInit == toom = ToomIdle

-----------------------------------------------------------------------------
(* Instructions: dst is the buffer they write.                             *)

\* dst := (x +/- y) >> n, where y counts with its sign
Add(dst, x, y, n) == [op |-> "fold", dst |-> dst, x |-> x, y |-> y, plus |-> TRUE, n |-> n]
Sub(dst, x, y, n) == [op |-> "fold", dst |-> dst, x |-> x, y |-> y, plus |-> FALSE, n |-> n]
\* dst := (dst - (y << by)) >> n, with y shifted in tmp_double
Take(dst, y, by, n) == [op |-> "take", dst |-> dst, y |-> y, by |-> by, n |-> n]
\* dst := dst - factor * y: subtract_shifted_unsigned, or multiply_single_limb first
TakeTimes(dst, y, factor) == [op |-> "times", dst |-> dst, y |-> y, factor |-> factor]
Divide(dst, by) == [op |-> "divide", dst |-> dst, by |-> by, flip |-> FALSE]
\* a quotient by a negative number: only the sign of dst remembers it
DivideNegated(dst, by) == [op |-> "divide", dst |-> dst, by |-> by, flip |-> TRUE]
ShiftUp(dst, n) == [op |-> "up", dst |-> dst, n |-> n]
ShiftDown(dst, n) == [op |-> "down", dst |-> dst, n |-> n]
\* dst := 5 * dst: a copy in tmp_double, a shift by two and an addition
TimesFive(dst) == [op |-> "five", dst |-> dst]
\* the palindromic and antipalindromic parts of two rows:
\* dst := row + (dst << n), row := |row - (dst << n)| and its sign
Mirror(dst, row, n) == [op |-> "mirror", dst |-> dst, y |-> row, n |-> n]
\* dst := a * x + b * y with the signs of both, b negated if minus, x negated if negated
Combine(dst, x, a, negated, y, b, minus) ==
  [op |-> "combine", dst |-> dst, x |-> x, a |-> a, negated |-> negated,
   y |-> y, b |-> b, minus |-> minus]
\* recover_pair: the two summands of the sum in high and the difference in low
Recover(low, high) == [op |-> "recover", dst |-> low, y |-> high]

-----------------------------------------------------------------------------
(* Points: "at" names the buffer of the product, x is 2^shift, or its      *)
(* reciprocal with the operands reversed, and its negative if minus.       *)

At(buf, shift)      == [at |-> buf, shift |-> shift, minus |-> FALSE, reversed |-> FALSE]
AtMinus(buf, shift) == [at |-> buf, shift |-> shift, minus |-> TRUE, reversed |-> FALSE]
AtInverse(buf, shift) == [at |-> buf, shift |-> shift, minus |-> FALSE, reversed |-> TRUE]
AtInverseMinus(buf, shift) == [at |-> buf, shift |-> shift, minus |-> TRUE, reversed |-> TRUE]

-----------------------------------------------------------------------------
(* Toom-3.                                                                 *)

Toom3Points == <<At("v1", 0), AtMinus("vm1", 0), At("v2", 1)>>

Toom3Interpolation ==
  <<Sub("v2", "v2", "vm1", 0), Divide("v2", 3), Sub("vm1", "v1", "vm1", 1),
    Take("v1", "c0", 0, 0), Take("v2", "v1", 0, 1), Take("v1", "vm1", 0, 0),
    Take("v1", "cinf", 0, 0), Take("v2", "cinf", 0, 0), Take("v2", "cinf", 0, 0),
    Take("vm1", "v2", 0, 0)>>

\* parts of the operands, whether k comes from the larger or the smaller one, and where
\* the coefficients 1, 2, ... are at the end
Toom3 == [name |-> "toom3", next |-> "karatsuba", partsA |-> 3, partsB |-> 3,
          byLarger |-> TRUE, points |-> Toom3Points,
          interpolation |-> Toom3Interpolation, coefficients |-> <<"vm1", "v1", "v2">>]

\* the sign of a value does not reach its square, so the same steps run unsigned
SquareToom3 == [Toom3 EXCEPT !.next = "square_karatsuba"]

-----------------------------------------------------------------------------
(* Toom-4.                                                                 *)

Toom4Points ==
  <<At("v1", 0), AtMinus("vm1", 0), At("v2", 1), AtMinus("vm2", 1), AtInverse("vh", 1)>>

Toom4Even ==
  <<Add("v1", "v1", "vm1", 1), Sub("vm1", "v1", "vm1", 0),
    Add("v2", "v2", "vm2", 1), Sub("vm2", "v2", "vm2", 1),
    Take("v2", "v1", 0, 0), Divide("v2", 3), Take("v1", "c0", 0, 0),
    Take("v1", "cinf", 0, 0), Take("v2", "v1", 0, 0), Take("v2", "cinf", 0, 0),
    Take("v2", "cinf", 2, 0), Take("v2", "cinf", 4, 2), Take("v1", "v2", 0, 0)>>

Toom4Odd ==
  <<TakeTimes("vh", "c0", 64), TakeTimes("vh", "v1", 16), TakeTimes("vh", "v2", 4),
    Take("vh", "cinf", 0, 1), Take("vm2", "vm1", 0, 0), Take("vh", "vm1", 0, 0),
    Divide("vm2", 3), Divide("vh", 3), TimesFive("vm1"), Take("vm1", "vm2", 0, 0),
    Take("vm1", "vh", 0, 0), Divide("vm1", 3), Take("vh", "vm1", 0, 0), Divide("vh", 5),
    Take("vm2", "vm1", 0, 0), Divide("vm2", 5)>>

Toom4 == [name |-> "toom4", next |-> "toom3", partsA |-> 4, partsB |-> 4,
          byLarger |-> TRUE, points |-> Toom4Points,
          interpolation |-> Toom4Even \o Toom4Odd,
          coefficients |-> <<"vh", "v1", "vm1", "v2", "vm2">>]

SquareToom4Points == Toom4Points
SquareToom4 == [Toom4 EXCEPT !.points = SquareToom4Points]

-----------------------------------------------------------------------------
(* Toom-6.5: six pieces by at most seven.                                  *)

Toom65IntegerPoints ==
  <<At("v1", 0), AtMinus("vm1", 0), At("v2", 1), AtMinus("vm2", 1),
    At("v4", 2), AtMinus("vm4", 2)>>

Toom65InversePoints ==
  <<AtInverse("vh", 1), AtInverseMinus("vmh", 1), AtInverse("vq", 2), AtInverseMinus("vmq", 2)>>

\* even and odd parts of the product at each pair of points
Toom65Fold ==
  <<Add("v1", "v1", "vm1", 1), Sub("vm1", "v1", "vm1", 0),
    Add("v2", "v2", "vm2", 1), Sub("vm2", "v2", "vm2", 1),
    Add("v4", "v4", "vm4", 1), Sub("vm4", "v4", "vm4", 2),
    Add("vh", "vh", "vmh", 1), Sub("vmh", "vh", "vmh", 0),
    Add("vq", "vq", "vmq", 1), Sub("vmq", "vq", "vmq", 0)>>

Toom65ReduceEven ==
  <<Take("v1", "c0", 0, 0), Take("v2", "c0", 0, 0), Take("v4", "c0", 0, 0),
    Take("vh", "c0", 11, 1), Take("vq", "c0", 22, 2)>>

\* Mutant: the rows of the inverse points keep the powers of two of their points
Toom65ReduceOddUnscaled ==
  <<Take("vm1", "cinf", 0, 0), TakeTimes("vm2", "cinf", 1024),
    TakeTimes("vm4", "cinf", 1048576), Take("vmh", "cinf", 0, 0), Take("vmq", "cinf", 0, 0),
    ShiftUp("vm2", 2), ShiftUp("vm4", 4)>>

Toom65ReduceOdd ==
  <<Take("vm1", "cinf", 0, 0), TakeTimes("vm2", "cinf", 1024),
    TakeTimes("vm4", "cinf", 1048576), Take("vmh", "cinf", 0, 2), Take("vmq", "cinf", 0, 4),
    ShiftUp("vm2", 2), ShiftUp("vm4", 4)>>

\* solve_subsystem over the rows a (ones), b and c (2 and 4), d and e (their inverses)
SolveSubsystem(a, b, c, d, e) ==
  <<Mirror(d, b, 2), Mirror(e, c, 4), TakeTimes(d, a, 128), TakeTimes(e, a, 8192),
    TakeTimes(e, d, 400), Divide(e, 680400), TakeTimes(d, e, 900), Divide(d, 144),
    Take(a, e, 0, 0), Take(a, d, 0, 0),
    Combine(c, b, 272, FALSE, c, 1, TRUE), Divide(c, 771120),
    Combine(b, b, 1, TRUE, c, 1020, TRUE), Divide(b, 240)>>

Toom65Solve ==
  SolveSubsystem("v1", "v2", "v4", "vh", "vq")
  \o SolveSubsystem("vm1", "vm2", "vm4", "vmh", "vmq")
  \o <<Recover("v4", "vq"), Recover("v2", "vh"), Recover("vm4", "vmq"), Recover("vm2", "vmh")>>

Toom65 == [name |-> "toom65", next |-> "toom4", partsA |-> 6, partsB |-> 7,
           byLarger |-> FALSE, points |-> Toom65IntegerPoints \o Toom65InversePoints,
           interpolation |-> Toom65Fold \o Toom65ReduceEven \o Toom65ReduceOdd \o Toom65Solve,
           coefficients |->
             <<"vm4", "v4", "vm2", "v2", "vm1", "v1", "vmh", "vh", "vmq", "vq">>]

\* the squares at the inverse points are scaled to what the interpolation expects
SquareToom65Points == Toom65IntegerPoints \o Toom65InversePoints

\* with cinf = 0 the odd rows are only shifted
SquareToom65Interpolation ==
  Toom65Fold \o Toom65ReduceEven
  \o <<ShiftDown("vmh", 2), ShiftDown("vmq", 4), ShiftUp("vm2", 2), ShiftUp("vm4", 4)>>
  \o Toom65Solve

SquareToom65 == [Toom65 EXCEPT !.points = SquareToom65Points,
                               !.interpolation = SquareToom65Interpolation]

-----------------------------------------------------------------------------
(* Toom-8.5: eight pieces by at most nine.                                 *)

Toom85IntegerPoints ==
  <<At("v1", 0), AtMinus("vm1", 0), At("v2", 1), AtMinus("vm2", 1),
    At("v4", 2), AtMinus("vm4", 2), At("v8", 3), AtMinus("vm8", 3)>>

Toom85InversePoints ==
  <<AtInverse("vh", 1), AtInverseMinus("vmh", 1), AtInverse("vq", 2), AtInverseMinus("vmq", 2),
    AtInverse("ve", 3), AtInverseMinus("vme", 3)>>

Symmetrize(positive, negative, n) ==
  <<Add(positive, positive, negative, 1), Sub(negative, positive, negative, n)>>

Toom85Fold ==
  Symmetrize("v1", "vm1", 0) \o Symmetrize("v2", "vm2", 1) \o Symmetrize("v4", "vm4", 2)
  \o Symmetrize("v8", "vm8", 3) \o Symmetrize("vh", "vmh", 0) \o Symmetrize("vq", "vmq", 0)
  \o Symmetrize("ve", "vme", 0)

Toom85ReduceEven ==
  <<Take("v1", "c0", 0, 0), Take("v2", "c0", 0, 0), Take("v4", "c0", 0, 0),
    Take("v8", "c0", 0, 0),
    Take("vh", "c0", 15, 1), Take("vq", "c0", 30, 2), Take("ve", "c0", 45, 3)>>

Toom85Scale == <<ShiftUp("vm2", 2), ShiftUp("vm4", 4), ShiftUp("vm8", 6)>>

Toom85ReduceOdd ==
  <<Take("vm1", "cinf", 0, 0), Take("vm2", "cinf", 14, 0), Take("vm4", "cinf", 28, 0),
    Take("vm8", "cinf", 42, 0), Take("vmh", "cinf", 0, 2), Take("vmq", "cinf", 0, 4),
    Take("vme", "cinf", 0, 6)>> \o Toom85Scale

\* solve_subsystem_85: the block of sums, then the block of differences
SolveSubsystem85(r1, r2, r4, r8, rh, rq, re) ==
  <<Mirror(rh, r2, 2), Mirror(rq, r4, 4), Mirror(re, r8, 6),
    TakeTimes(rh, r1, 512), TakeTimes(rq, r1, 131072), TakeTimes(re, r1, 33554432),
    TakeTimes(rq, rh, 1600), TakeTimes(re, rh, 1806336), TakeTimes(re, rq, 5712),
    Divide(re, 2343600), Divide(re, 1272348),
    TakeTimes(rq, re, 242902800), Divide(rq, 10886400),
    TakeTimes(rh, rq, 3600), TakeTimes(rh, re, 15876), Divide(rh, 576),
    Take(r1, rh, 0, 0), Take(r1, rq, 0, 0), Take(r1, re, 0, 0),
    Combine(r4, r4, 1, FALSE, r2, 16388, TRUE),
    Combine(r8, r8, 1, FALSE, r2, 268501008, TRUE),
    Combine(r8, r8, 1, FALSE, r4, 20500, TRUE),
    Divide(r8, 293760), DivideNegated(r8, 151200),
    Combine(r4, r4, 1, FALSE, r8, 14688000, TRUE), Divide(r4, 50086080),
    Combine(r2, r2, 1, FALSE, r4, 4080, FALSE), Combine(r2, r2, 1, FALSE, r8, 960, FALSE),
    DivideNegated(r2, 16380)>>

Toom85Solve ==
  SolveSubsystem85("v1", "v2", "v4", "v8", "vh", "vq", "ve")
  \o SolveSubsystem85("vm1", "vm2", "vm4", "vm8", "vmh", "vmq", "vme")
  \o <<Recover("v2", "ve"), Recover("v4", "vq"), Recover("v8", "vh"),
       Recover("vm2", "vme"), Recover("vm4", "vmq"), Recover("vm8", "vmh")>>

Toom85 == [name |-> "toom85", next |-> "toom65", partsA |-> 8, partsB |-> 9,
           byLarger |-> FALSE, points |-> Toom85IntegerPoints \o Toom85InversePoints,
           interpolation |-> Toom85Fold \o Toom85ReduceEven \o Toom85ReduceOdd \o Toom85Solve,
           coefficients |-> <<"vm2", "v2", "vm4", "v4", "vm8", "v8", "vm1", "v1",
                              "vmh", "vh", "vmq", "vq", "vme", "ve">>]

SquareToom85Points == Toom85IntegerPoints \o Toom85InversePoints

SquareToom85Interpolation ==
  Toom85Fold \o Toom85ReduceEven
  \o <<ShiftDown("vmh", 2), ShiftDown("vmq", 4), ShiftDown("vme", 6)>> \o Toom85Scale
  \o Toom85Solve

SquareToom85 == [Toom85 EXCEPT !.points = SquareToom85Points,
                               !.interpolation = SquareToom85Interpolation]

Kernel(name, square) ==
  CASE name = "toom3"  -> IF square THEN SquareToom3 ELSE Toom3
    [] name = "toom4"  -> IF square THEN SquareToom4 ELSE Toom4
    [] name = "toom65" -> IF square THEN SquareToom65 ELSE Toom65
    [] name = "toom85" -> IF square THEN SquareToom85 ELSE Toom85

\* the kernel that a call is in
Running(t) == Kernel(t.name, t.square)

-----------------------------------------------------------------------------
(* A call: the gate, the split, the evaluation.                            *)

Larger(t)  == IF Len(t.a) < Len(t.b) THEN Len(t.b) ELSE Len(t.a)
Smaller(t) == IF Len(t.a) < Len(t.b) THEN Len(t.a) ELSE Len(t.b)

PieceSize(kernel, t) ==
  LET size == IF kernel.byLarger THEN Larger(t) ELSE Smaller(t)
  IN  (size + kernel.partsA - 1) \div kernel.partsA

\* below the cutoff, with an empty top piece, or with an operand of too many pieces
Refused(kernel, t) ==
  LET cutoff == IF t.override = 0 THEN ToomCutoffs[t.name] ELSE t.override
  IN  \/ Smaller(t) < cutoff
      \/ Smaller(t) <= (kernel.partsA - 1) * PieceSize(kernel, t)
      \/ Larger(t) > kernel.partsB * PieceSize(kernel, t)

\* the number of the limbs s[from] .. s[to], those that s has
LimbsValue(s, from, to) ==
  LET last == IF to < Len(s) THEN to ELSE Len(s)
  IN  Total([i \in 1 .. IF from <= last THEN last - from + 1 ELSE 0 |->
               ShiftedUp(s[from + i - 1], ToomLimbBits * (i - 1))])

Piece(s, k, i) == LimbsValue(s, i * k + 1, i * k + k)

\* the even and the odd part of the polynomial of an operand at a point
EvenPart(s, k, parts, point) ==
  Total([j \in 1 .. (parts + 1) \div 2 |->
           LET i == 2 * (j - 1)
           IN  ShiftedUp(Piece(s, k, i),
                         point.shift * (IF point.reversed THEN parts - 1 - i ELSE i))])
OddPart(s, k, parts, point) ==
  Total([j \in 1 .. parts \div 2 |->
           LET i == 2 * j - 1
           IN  ShiftedUp(Piece(s, k, i),
                         point.shift * (IF point.reversed THEN parts - 1 - i ELSE i))])

Distance(x, y) == IF Less(x, y) THEN Minus(y, x) ELSE Minus(x, y)

\* magnitude and sign of the product at the current point; a square at an inverse point of
\* a kernel with more parts in b is shifted to the scale of the general product
ProductAt(kernel, t) ==
  LET point == kernel.points[t.step]
      evenA == EvenPart(t.a, t.k, kernel.partsA, point)
      oddA  == OddPart(t.a, t.k, kernel.partsA, point)
      evenB == EvenPart(t.b, t.k, kernel.partsB, point)
      oddB  == OddPart(t.b, t.k, kernel.partsB, point)
      x == IF point.minus THEN Distance(evenA, oddA) ELSE Plus(evenA, oddA)
      y == IF t.square THEN x
           ELSE IF point.minus THEN Distance(evenB, oddB) ELSE Plus(evenB, oddB)
      scale == IF t.square /\ point.reversed /\ kernel.partsB > kernel.partsA
               THEN point.shift ELSE 0
  IN  [x |-> x, y |-> y, product |-> ShiftedUp(Times(x, y), scale),
       negative |-> ~t.square /\ point.minus /\ Less(evenA, oddA) # Less(evenB, oddB)]

-----------------------------------------------------------------------------
(* Execution of one instruction.                                           *)

Within2k(x, k) == Within(x, (2 * k + 2) * ToomLimbBits)
WithinTmp(x, k) == Within(x, (k + 2) * ToomLimbBits)
\* the precondition of multiply_single_limb and subtract_shifted_unsigned
SpareLimb(x, k) == Within(x, (2 * k + 1) * ToomLimbBits)

Factor(x, factor) == IF factor = 1 THEN x ELSE Times(x, Wide(factor))

\* the instruction's operands: x and y signed, as magnitudes and whether they add up
Summed(t, i) ==
  CASE i.op = "fold" -> i.plus # t.neg[i.y]
    [] i.op = "combine" -> (i.negated # t.neg[i.x]) = (i.minus # t.neg[i.y])

\* What the code asserts of the instruction, and what it needs for an exact result: no
\* carry, no borrow, no remainder, room for every intermediate number.
Exact(t, i) ==
  LET dst == t.buf[i.dst]
  IN CASE i.op = "fold" ->
            LET x == t.buf[i.x]  y == t.buf[i.y]
            IN  /\ ~Summed(t, i) => ~Less(x, y)
                /\ Summed(t, i) => Within2k(Plus(x, y), t.k)
                /\ LowBits(IF Summed(t, i) THEN Plus(x, y) ELSE Minus(x, y), i.n) = 0
       [] i.op = "take" ->
            LET y == ShiftedUp(t.buf[i.y], i.by)
            IN  Within2k(y, t.k) /\ ~Less(dst, y) /\ LowBits(Minus(dst, y), i.n) = 0
       [] i.op = "times" ->
            /\ SpareLimb(t.buf[i.y], t.k)
            /\ ~Less(dst, Factor(t.buf[i.y], i.factor))
       [] i.op = "divide" -> DivideSmall(dst, i.by).remainder = 0
       [] i.op = "up" -> Within2k(ShiftedUp(dst, i.n), t.k)
       [] i.op = "down" -> LowBits(dst, i.n) = 0
       [] i.op = "five" -> Within2k(Factor(dst, 5), t.k)
       [] i.op = "mirror" -> Within2k(Plus(t.buf[i.y], ShiftedUp(dst, i.n)), t.k)
       [] i.op = "combine" ->
            /\ i.a # 1 => SpareLimb(t.buf[i.x], t.k)
            /\ i.b # 1 => SpareLimb(t.buf[i.y], t.k)
            /\ Summed(t, i) =>
                 Within2k(Plus(Factor(t.buf[i.x], i.a), Factor(t.buf[i.y], i.b)), t.k)
       [] i.op = "recover" ->
            LET high == t.buf[i.y]
            IN  /\ Within2k(Plus(high, dst), t.k)
                /\ ~Less(high, dst)
                /\ LowBits(Minus(high, dst), 1) = 0

\* the buffers after the instruction, and the signs of their values
Executed(t, i) ==
  LET dst == t.buf[i.dst]
      Put(v, n) == [t EXCEPT !.buf[i.dst] = v, !.neg[i.dst] = n]
  IN CASE i.op = "fold" ->
            Put(ShiftedDown(IF Summed(t, i) THEN Plus(t.buf[i.x], t.buf[i.y])
                                            ELSE Minus(t.buf[i.x], t.buf[i.y]), i.n), FALSE)
       [] i.op = "take" ->
            Put(ShiftedDown(Minus(dst, ShiftedUp(t.buf[i.y], i.by)), i.n), FALSE)
       [] i.op = "times" -> Put(Minus(dst, Factor(t.buf[i.y], i.factor)), FALSE)
       [] i.op = "divide" -> Put(DivideSmall(dst, i.by).quotient, t.neg[i.dst] # i.flip)
       [] i.op = "up" -> Put(ShiftedUp(dst, i.n), FALSE)
       [] i.op = "down" -> Put(ShiftedDown(dst, i.n), FALSE)
       [] i.op = "five" -> Put(Factor(dst, 5), FALSE)
       [] i.op = "mirror" ->
            LET shifted == ShiftedUp(dst, i.n)
                row     == t.buf[i.y]
            IN  [t EXCEPT !.buf[i.dst] = Plus(row, shifted),
                          !.buf[i.y] = Distance(row, shifted),
                          !.neg[i.y] = Less(row, shifted)]
       [] i.op = "combine" ->
            LET x == Factor(t.buf[i.x], i.a)  y == Factor(t.buf[i.y], i.b)
                sign == i.negated # t.neg[i.x]
            IN  IF Summed(t, i) THEN Put(Plus(x, y), sign)
                ELSE Put(Distance(x, y), sign # Less(x, y))
       [] i.op = "recover" ->
            LET high == ShiftedDown(Plus(t.buf[i.y], dst), 1)
                low  == ShiftedDown(Minus(t.buf[i.y], dst), 1)
            IN  [t EXCEPT !.buf[i.dst] = IF t.neg[i.dst] THEN low ELSE high,
                          !.buf[i.y] = IF t.neg[i.dst] THEN high ELSE low,
                          !.neg[i.dst] = FALSE]

-----------------------------------------------------------------------------
(* Actions.                                                                *)

ToomEnter ==
  /\ toom = ToomIdle
  /\ \E name \in ToomEntries, operands \in ToomOperands, square \in BOOLEAN,
        override \in ToomOverrides :
       /\ square => operands[1] = operands[2]
       /\ toom' = [pc |-> "gate", name |-> name, square |-> square, override |-> override,
                   a |-> operands[1], b |-> operands[2]]

\* the next kernel decides with its own cutoff
ToomFallBack ==
  /\ toom.pc = "gate"
  /\ \E kernel \in {Running(toom)} :
       /\ Refused(kernel, toom)
       /\ toom' = IF kernel.next \in {"karatsuba", "square_karatsuba"} THEN ToomIdle
                  ELSE [toom EXCEPT !.name = kernel.next, !.override = 0]

\* a is the smaller operand where the kernel cuts them differently; the products of the
\* lowest and of the highest pieces go to their places in the result
ToomSplit ==
  /\ toom.pc = "gate"
  /\ \E kernel \in {Running(toom)} :
     LET k    == PieceSize(kernel, toom)
         swap == ~kernel.byLarger /\ Len(toom.a) > Len(toom.b)
         a    == IF swap THEN toom.b ELSE toom.a
         b    == IF swap THEN toom.a ELSE toom.b
         top  == Times(Piece(a, k, kernel.partsA - 1), Piece(b, k, kernel.partsB - 1))
         names == {"c0", "cinf"} \cup {kernel.points[i].at : i \in DOMAIN kernel.points}
     IN  /\ ~Refused(kernel, toom)
         /\ toom' = [pc |-> "evaluate", name |-> toom.name, square |-> toom.square,
                     a |-> a, b |-> b, k |-> k, step |-> 1,
                     neg |-> [x \in names |-> FALSE],
                     buf |-> [x \in names |->
                                CASE x = "c0" -> Times(Piece(a, k, 0), Piece(b, k, 0))
                                  [] x = "cinf" -> top
                                  [] OTHER -> <<>>]]

ToomEvaluate ==
  /\ toom.pc = "evaluate"
  /\ \E kernel \in {Running(toom)} :
     LET at    == kernel.points[toom.step].at
         value == ProductAt(kernel, toom)
         last  == toom.step = Len(kernel.points)
     IN  toom' = [toom EXCEPT !.buf[at] = value.product, !.neg[at] = value.negative,
                              !.pc = IF last THEN "interpolate" ELSE "evaluate",
                              !.step = IF last THEN 1 ELSE toom.step + 1]

ToomInterpolate ==
  /\ toom.pc = "interpolate"
  /\ \E program \in {Running(toom).interpolation} :
     LET last  == toom.step = Len(program)
         after == Executed(toom, program[toom.step])
     IN  toom' = [after EXCEPT !.pc = IF last THEN "recompose" ELSE "interpolate",
                               !.step = IF last THEN 1 ELSE toom.step + 1]

\* Mutant: the highest product is placed as if both operands had the same parts
RecomposedBalanced(kernel, t) ==
  LET At0(i) == ShiftedUp(t.buf[kernel.coefficients[i]], i * t.k * ToomLimbBits)
      top    == (2 * kernel.partsA - 2) * t.k * ToomLimbBits
  IN  Total(<<t.buf["c0"], ShiftedUp(t.buf["cinf"], top)>>
            \o [i \in DOMAIN kernel.coefficients |-> At0(i)])

\* recompose: the coefficients are added to the two that are in place
Recomposed(kernel, t) ==
  LET At0(i) == ShiftedUp(t.buf[kernel.coefficients[i]], i * t.k * ToomLimbBits)
      top    == (kernel.partsA + kernel.partsB - 2) * t.k * ToomLimbBits
  IN  Total(<<t.buf["c0"], ShiftedUp(t.buf["cinf"], top)>>
            \o [i \in DOMAIN kernel.coefficients |-> At0(i)])

ToomRecompose ==
  /\ toom.pc = "recompose"
  /\ toom' = [pc |-> "done", name |-> toom.name, square |-> toom.square,
              a |-> toom.a, b |-> toom.b, out |-> Recomposed(Running(toom), toom)]

ToomReturn == toom.pc = "done" /\ toom' = ToomIdle

ToomStep == \/ ToomFallBack \/ ToomSplit \/ ToomEvaluate \/ ToomInterpolate
            \/ ToomRecompose \/ ToomReturn

-----------------------------------------------------------------------------
(* Properties.                                                             *)

\* No step of an interpolation borrows, leaves a remainder or outgrows its buffer: what
\* DEBUG_ASSERT states line by line, for every sign pattern and for the widest operands.
\* Only exact steps make the in-place program recover the coefficients.
ToomStepsExact ==
  CASE toom.pc = "evaluate" ->
         LET value == ProductAt(Running(toom), toom)
         IN  WithinTmp(value.x, toom.k) /\ WithinTmp(value.y, toom.k)
             /\ Within2k(value.product, toom.k)
    [] toom.pc = "interpolate" ->
         Exact(toom, Running(toom).interpolation[toom.step])
    [] OTHER -> TRUE

\* A kernel that accepts its operands returns their product in the limbs of both operands,
\* whatever the signs of the values at the negative points.
ToomProduct ==
  toom.pc = "done" =>
    toom.out = Times(LimbsValue(toom.a, 1, Len(toom.a)), LimbsValue(toom.b, 1, Len(toom.b)))

=============================================================================
