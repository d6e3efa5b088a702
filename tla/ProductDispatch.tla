--------------------------- MODULE ProductDispatch ---------------------------
(***************************************************************************)
(* The multiplication dispatchers (mul_impl.hpp, mul_dispatch.cpp): which  *)
(* kernel a product goes to, and the slicing of unbalanced products, which *)
(* calls the dispatcher again for its pieces.                              *)
(*                                                                         *)
(* A kernel acts at once. The schoolbook kernels and the FFT overwrite     *)
(* their window; the Karatsuba and Toom kernels add to it, so that it must *)
(* hold zeros. Sizes below the real cutoffs never meet the FFT, so its     *)
(* gate is a free choice here.                                             *)
(***************************************************************************)

EXTENDS UnwrittenMemory, Sequences

CONSTANTS
  DispOperands,        \* pairs of nonzero operands: functions from 0 .. n-1 to limbs
  DispKaratsuba,       \* karatsuba_cutoff
  DispSquareLong,      \* square_long_cutoff
  DispSquareKaratsuba, \* square_karatsuba_cutoff
  DispToom3,           \* toom_cook_3_cutoff
  DispZones            \* mul_slice_zones: a sequence of records [min, num, den]

\* mul_slice_zones_valid; a Toom cutoff of 5 is what "a cut piece always leaves a positive
\* remainder" needs. An operand is trimmed, and a zero is one limb.
ASSUME DispAssumption ==
  /\ DispToom3 \in Nat /\ DispToom3 >= 5
  /\ DispZones \in Seq([min : Nat, num : Nat, den : Nat \ {0}])
  /\ DispZones # <<>> /\ DispZones[1].min = DispKaratsuba
  /\ \A i \in DOMAIN DispZones : DispZones[i].num * 8 >= DispZones[i].den * 9
  /\ \A i, j \in DOMAIN DispZones : i < j => DispZones[i].min < DispZones[j].min
  /\ \A p \in DispOperands : \A x \in {p[1], p[2]} :
       LET n == Cardinality(DOMAIN x)
       IN  n \in Nat \ {0} /\ x \in [0 .. n - 1 -> 0 .. Base - 1]

VARIABLE disp     \* the call that runs, if any

DispIdle == [frames |-> <<>>]
DispInit == disp = DispIdle

\* The areas of memory: 1 and 2 hold the operands, 3 the result, and those from 4 on the heap
\* buffers of nested slicings, one for each frame.
Buffer(depth) == 3 + depth

-----------------------------------------------------------------------------
(* The kernels.                                                            *)

\* multiply_long, row by row: each row starts with the carry limb of the one below it
MultiplyLong(mem, r, a, b) ==
  LET rows[i \in 0 .. a.n] ==
        IF i = 0 THEN mem
        ELSE LET row  == First(Subspan(r, i - 1), b.n)
                 old  == IF i = 1 THEN 0 ELSE Value(rows[i - 1], row)
             IN  Store(rows[i - 1], First(row, b.n + 1),
                       old + Limb(mem, a, i - 1) * Value(mem, b))
  IN  rows[a.n]

\* square_long: the products above the diagonal, doubled, and the squares on it
SquareLong(mem, r, a) ==
  LET n == a.n
      rows[i \in 0 .. n - 1] ==
        IF i = 0 THEN mem
        ELSE LET row == First(Subspan(r, 2 * i - 1), n - i)
             IN  Store(rows[i - 1], First(row, n - i + 1),
                       Value(rows[i - 1], row)
                         + Limb(mem, a, i - 1) * Value(mem, Subspan(a, i)))
      window == First(r, 2 * n)
      squares[i \in 0 .. n] ==
        IF i = 0 THEN 0
        ELSE squares[i - 1] + Limb(mem, a, i - 1) * Limb(mem, a, i - 1) * Power(Base, 2 * (i - 1))
  IN  Store(mem, window, 2 * Value(rows[n - 1], window) + squares[n])

\* a span, trimmed, with one bit set
PowerOfTwo(mem, s) == \E k \in 0 .. s.n * LimbBits - 1 : Value(mem, s) = Power(2, k)

\* multiply_power_of_two: zeros below, the shifted copy, and a zero limb on top if nothing
\* was shifted into it
MultiplyPowerOfTwo(mem, r, a, p2) ==
  LET top == Limb(mem, p2, p2.n - 1)
  IN  Store(Fill(mem, First(r, p2.n - 1)),
            First(Subspan(r, p2.n - 1), a.n + 1), Value(mem, a) * top)

ProductOf(mem, a, b) == Value(mem, a) * Value(mem, b)
Whole(r, a, b) == First(r, a.n + b.n)

\* schoolbook and FFT kernels
Overwrite(mem, r, a, b)  == Store(mem, Whole(r, a, b), ProductOf(mem, a, b))
\* toom_ladder and the squaring tiers
Accumulate(mem, r, a, b) ==
  Store(mem, Whole(r, a, b), Value(mem, Whole(r, a, b)) + ProductOf(mem, a, b))

\* Mutant: the result is not filled with zeros first
AccumulateStale(mem, r, a, b) == Accumulate(mem, r, a, b)
AccumulateFrom0(mem, r, a, b) == Accumulate(Fill(mem, Whole(r, a, b)), r, a, b)

-----------------------------------------------------------------------------
(* The choice of the tier.                                                 *)

ZoneRatio(min) ==
  LET below == {i \in DOMAIN DispZones : DispZones[i].min <= min}
  IN  DispZones[CHOOSE i \in below \cup {1} : \A j \in below : j <= i]

Toom3RefusesShape(min, max) == min <= 2 * ((max + 2) \div 3)

ShouldSlice(min, max) ==
  \/ max * ZoneRatio(min).den >= min * ZoneRatio(min).num
  \/ min >= DispToom3 /\ Toom3RefusesShape(min, max)

DispCall(mem, r, a, b, mode) ==
  [pc |-> "enter", r |-> r, a |-> a, b |-> b, mode |-> mode, square |-> a = b,
   product |-> ProductOf(mem, a, b)]

This == disp.frames[Len(disp.frames)]
DispBecomes(f) == [disp.frames EXCEPT ![Len(disp.frames)] = f]
DispReturned(mem) ==
  [disp EXCEPT !.mem = mem, !.frames = DispBecomes([This EXCEPT !.pc = "return"])]

DispEntered == disp.frames # <<>> /\ This.pc = "enter"
Left == TrimmedSpan(disp.mem, This.a)
Right == TrimmedSpan(disp.mem, This.b)
MinSize == SmallerOf(Left.n, Right.n)
MaxSize == LargerOf(Left.n, Right.n)
SingleLimb == Left.n = 1 \/ Right.n = 1
\* below: neither a single limb, nor constant evaluation
MultiLimb(square) == DispEntered /\ ~SingleLimb /\ This.mode # "constant" /\ This.square = square

-----------------------------------------------------------------------------
(* Actions.                                                                *)

\* The result is not zeroed. x * x passes one span twice.
DispEnter ==
  /\ disp = DispIdle
  /\ \E operands \in DispOperands, square \in BOOLEAN, garbage \in Leftovers,
        mode \in {"constant", "automatic", "forced", "disabled"} :
       LET na  == Cardinality(DOMAIN operands[1])
           nb  == Cardinality(DOMAIN operands[2])
           mem == <<operands[1], operands[2], Leftover(na + nb, garbage)>>
           a   == Span(1, 0, na)
           b   == IF square THEN a ELSE Span(2, 0, nb)
       IN  /\ square => operands[1] = operands[2]
           /\ disp' = [frames |-> <<DispCall(mem, Span(3, 0, na + nb), a, b, mode)>>,
                       mem |-> mem, garbage |-> garbage]

\* widening_mul and multiply_by_limb_full
DispSingleLimb ==
  /\ DispEntered
  /\ SingleLimb
  /\ disp' = DispReturned(Overwrite(disp.mem, This.r, Left, Right))

DispConstant ==
  /\ DispEntered /\ ~SingleLimb /\ This.mode = "constant"
  /\ disp' = DispReturned(
       CASE PowerOfTwo(disp.mem, Right) -> MultiplyPowerOfTwo(disp.mem, This.r, Left, Right)
         [] ~PowerOfTwo(disp.mem, Right) /\ PowerOfTwo(disp.mem, Left) ->
              MultiplyPowerOfTwo(disp.mem, This.r, Right, Left)
         [] OTHER -> IF This.square
                       THEN SquareLong(Fill(disp.mem, Whole(This.r, Left, Left)), This.r, Left)
                       ELSE MultiplyLong(disp.mem, This.r, Left, Right))

\* The schoolbook branch of multiply_runtime_impl, and multiply_basecase_runtime: the
\* header's own limit is at most every Karatsuba cutoff, which a static_assert says.
DispSchoolbook ==
  /\ MultiLimb(FALSE)
  /\ MinSize < DispKaratsuba
  /\ disp' = DispReturned(MultiplyLong(disp.mem, This.r, Left, Right))

DispSquareSchoolbook ==
  /\ MultiLimb(TRUE)
  /\ Left.n < DispSquareKaratsuba
  /\ disp' = DispReturned(
       IF Left.n >= DispSquareLong /\ PowerOfTwo(disp.mem, Left)
         THEN MultiplyPowerOfTwo(disp.mem, This.r, Left, Left)
         ELSE Overwrite(disp.mem, This.r, Left, Left))

\* square_runtime above square_karatsuba_cutoff; its FFT would write the same limbs
DispSquareLarge ==
  /\ MultiLimb(TRUE)
  /\ Left.n >= DispSquareKaratsuba
  /\ \/ /\ PowerOfTwo(disp.mem, Left)
        /\ disp' = DispReturned(MultiplyPowerOfTwo(disp.mem, This.r, Left, Left))
     \/ /\ ~PowerOfTwo(disp.mem, Left)
        /\ disp' = DispReturned(AccumulateFrom0(disp.mem, This.r, Left, Left))

DispPowerOfTwo ==
  /\ MultiLimb(FALSE)
  /\ MinSize >= DispKaratsuba
  /\ PowerOfTwo(disp.mem, Left) \/ PowerOfTwo(disp.mem, Right)
  /\ disp' = DispReturned(IF PowerOfTwo(disp.mem, Right)
                        THEN MultiplyPowerOfTwo(disp.mem, This.r, Left, Right)
                        ELSE MultiplyPowerOfTwo(disp.mem, This.r, Right, Left))

DispGeneral ==
  /\ MultiLimb(FALSE)
  /\ MinSize >= DispKaratsuba
  /\ ~PowerOfTwo(disp.mem, Left) /\ ~PowerOfTwo(disp.mem, Right)

\* multiply_fft, when the cost model takes the sizes
DispTransform ==
  /\ DispGeneral
  /\ This.mode # "forced"
  /\ disp' = DispReturned(Overwrite(disp.mem, This.r, Left, Right))

\* slice_mode
Sliced == CASE This.mode = "forced" -> MaxSize > MinSize
            [] This.mode = "disabled" -> FALSE
            [] OTHER -> ShouldSlice(MinSize, MaxSize)

DispLadder ==
  /\ DispGeneral
  /\ ~Sliced
  /\ disp' = DispReturned(AccumulateFrom0(disp.mem, This.r, Left, Right))

-----------------------------------------------------------------------------
(* multiply_sliced.                                                        *)

\* Mutant: the last piece, shorter than two, is cut once more
LastPieceGreedy(m, n, force) == [cuts |-> n \div m, rem |-> n % m]

\* the number of pieces before the last one, and the limbs of the last
LastPiece(m, n, force) ==
  LET More(rem) == IF force THEN rem > m ELSE rem >= 2 * m \/ ShouldSlice(m, rem)
      cuts == CHOOSE k \in 0 .. n \div m : /\ \A j \in 0 .. k - 1 : More(n - j * m)
                                           /\ ~More(n - k * m)
  IN  [cuts |-> cuts, rem |-> n - cuts * m]

\* the pieces add up in the result; buf holds the product of one piece
DispSlice ==
  /\ DispGeneral
  /\ Sliced
  /\ LET m    == MinSize
         long == IF Left.n >= Right.n THEN Left ELSE Right
         last == LastPiece(m, MaxSize, This.mode = "forced")
         name == Buffer(Len(disp.frames))
         mem  == Fill(disp.mem, Whole(This.r, Left, Right))
         f    == [pc |-> "piece", r |-> This.r, a |-> This.a, b |-> This.b,
                  product |-> This.product, long |-> long,
                  short |-> IF Left.n >= Right.n THEN Right ELSE Left, m |-> m, i |-> 0,
                  cuts |-> last.cuts, rem |-> last.rem, force |-> This.mode = "forced",
                  tmp |-> Span(name, 0, m + LargerOf(m, last.rem))]
         buf  == Leftover(f.tmp.n, disp.garbage)
     IN  disp' = [disp EXCEPT
           !.frames = DispBecomes(f),
           !.mem = [x \in DOMAIN mem \cup {name} |-> IF x = name THEN buf ELSE mem[x]]]

AtPiece == disp.frames # <<>> /\ This.pc = "piece"
PieceLength(f) == IF f.i < f.cuts THEN f.m ELSE f.rem
SlicePiece(f) == TrimmedSpan(disp.mem, First(Subspan(f.long, f.i * f.m), PieceLength(f)))
ZeroPiece(f) == Value(disp.mem, SlicePiece(f)) = 0
\* the first product goes to the result, which is zero, the others to the buffer
Target(f) == First(IF f.i = 0 THEN f.r ELSE f.tmp, SlicePiece(f).n + f.m)
ClearedTarget(mem, f) == IF f.i = 0 THEN mem ELSE Fill(mem, Target(f))

\* the loop goes on with the next piece
NextPiece(f) == [f EXCEPT !.pc = IF f.i = f.cuts THEN "return" ELSE "piece", !.i = f.i + 1]

\* add_shifted at the offset of the piece
Added(mem, f) ==
  LET window == Subspan(First(f.r, f.i * f.m + PieceLength(f) + f.m), f.i * f.m)
  IN  IF f.i = 0 THEN mem
      ELSE Store(mem, window, Value(mem, window) + Value(mem, Target(f)))

DispSkipPiece ==
  /\ AtPiece
  /\ ZeroPiece(This)
  /\ disp' = [disp EXCEPT !.frames = DispBecomes(NextPiece(This))]

\* a piece as long as the short operand, or longer
DispFullPiece ==
  /\ AtPiece
  /\ ~ZeroPiece(This)
  /\ SlicePiece(This).n >= This.m
  /\ LET f   == This
         mem == ClearedTarget(disp.mem, f)
         With(product) == disp' = [disp EXCEPT !.mem = Added(product, f),
                                               !.frames = DispBecomes(NextPiece(f))]
     IN  \/ ~f.force /\ With(Overwrite(mem, Target(f), SlicePiece(f), f.short))
         \/ With(Accumulate(mem, Target(f), SlicePiece(f), f.short))

\* a shorter one is dispatched again, and may be sliced the other way
DispShortPiece ==
  /\ AtPiece
  /\ ~ZeroPiece(This)
  /\ SlicePiece(This).n < This.m
  /\ LET mem == ClearedTarget(disp.mem, This)
     IN  disp' = [disp EXCEPT
           !.mem = mem,
           !.frames = Append(DispBecomes([This EXCEPT !.pc = "add"]),
                             DispCall(mem, Target(This), SlicePiece(This), This.short,
                                      "automatic"))]

DispAddPiece ==
  /\ disp.frames # <<>> /\ This.pc = "add"
  /\ disp' = [disp EXCEPT !.mem = Added(disp.mem, This), !.frames = DispBecomes(NextPiece(This))]

\* Mutant: a piece that came back from the dispatcher is not counted as done
DispReturnAgain ==
  /\ disp.frames # <<>> /\ This.pc = "return"
  /\ disp' = IF Len(disp.frames) = 1 THEN DispIdle
             ELSE [disp EXCEPT
                    !.frames = [SubSeq(@, 1, Len(@) - 1) EXCEPT ![Len(@) - 1].pc = "piece"],
                    !.mem = [x \in DOMAIN @ \ {Buffer(Len(disp.frames))} |-> @[x]]]

\* the heap buffer of a sliced product goes with its frame
DispReturn ==
  /\ disp.frames # <<>> /\ This.pc = "return"
  /\ disp' = IF Len(disp.frames) = 1 THEN DispIdle
             ELSE [disp EXCEPT
                    !.frames = SubSeq(@, 1, Len(@) - 1),
                    !.mem = [x \in DOMAIN @ \ {Buffer(Len(disp.frames))} |-> @[x]]]

DispStep == \/ DispSingleLimb \/ DispConstant \/ DispSchoolbook \/ DispSquareSchoolbook
            \/ DispSquareLarge \/ DispPowerOfTwo \/ DispTransform \/ DispLadder \/ DispSlice
            \/ DispSkipPiece \/ DispFullPiece \/ DispShortPiece \/ DispAddPiece \/ DispReturn

-----------------------------------------------------------------------------
(* Properties.                                                             *)

\* Every dispatched product fills the limbs of its trimmed operands with exactly their
\* product, whatever the destination held: pieces of zeros, pieces that trim below the
\* short operand and go back to the dispatcher, and the reused buffer leave nothing behind.
SlicedProduct ==
  disp.frames # <<>> /\ This.pc = "return" =>
    Value(disp.mem, First(This.r, Left.n + Right.n)) = This.product

\* The last piece is not empty and shorter than two pieces: the buffer and the workspace of
\* a sliced product, sized for it, hold the product of every piece.
LastPieceShort ==
  \A i \in DOMAIN disp.frames :
    disp.frames[i].pc \in {"piece", "add"} =>
      LET f == disp.frames[i] IN
      /\ 0 < f.rem /\ f.rem < 2 * f.m
      /\ disp.frames[i].cuts * f.m + f.rem = f.long.n

=============================================================================
