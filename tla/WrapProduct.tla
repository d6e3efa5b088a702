----------------------------- MODULE WrapProduct -----------------------------
(***************************************************************************)
(* multiply_mod_bnm1 (mulmod_bnm1.cpp): the product modulo B^w - 1, from   *)
(* the products modulo B^h - 1 (recursive) and B^h + 1, h = w / 2. A       *)
(* residue is semi-canonical: all ones, the modulus itself, means zero.    *)
(***************************************************************************)

EXTENDS UnwrittenMemory, Sequences

CONSTANTS
  WrapOperands,      \* records: w limbs of the result, operands a and b of at most w limbs
  WrapCutoff,        \* multiply_mod_bnm1_cutoff
  WrapCyclicSizes,   \* sizes that the cyclic transform takes
  WrapOverrides      \* values of cutoff_override

\* the limb above the halves holds up to three; operands as the function asserts them
ASSUME WrapAssumption ==
  /\ LimbBits >= 2
  /\ WrapCutoff \in Nat /\ WrapCutoff >= 2 /\ WrapOverrides \subseteq Nat
  /\ \A c \in WrapOperands :
       /\ c.w \in Nat \ {0}
       /\ \A x \in {c.a, c.b} : \E n \in 1 .. c.w : x \in [0 .. n - 1 -> 0 .. Base - 1]

VARIABLE wrap

WrapIdle == [frames |-> <<>>]
WrapInit == wrap = WrapIdle

\* multiply_mod_bnm1_storage_size
WrapStorageSize(w) == 3 * w + 16

Modulus(w) == Power(Base, w) - 1

\* x * y modulo m, in two halves: TLC multiplies only up to 2^31
ModularProduct(x, y, m) ==
  LET high == (x * (y \div 256)) % m IN (high * 256 + x * (y % 256)) % m

\* product: what the call has to return, for the properties
WrapCall(mem, r, a, b) ==
  [pc |-> "enter", r |-> r, a |-> a, b |-> b,
   product |-> ModularProduct(Value(mem, a), Value(mem, b), Modulus(r.n))]

WrapFrame == wrap.frames[Len(wrap.frames)]
WrapBecomes(f) == [wrap.frames EXCEPT ![Len(wrap.frames)] = f]

-----------------------------------------------------------------------------
(* Folding.                                                                *)

Zero(s) == Span(s.area, s.at, 0)
LowPart(s, n)  == First(s, SmallerOf(s.n, n))
HighPart(s, n) == IF s.n > n THEN Subspan(s, n) ELSE Zero(s)

\* add_mod_bnm1: the carry out of the top limb is one, and so is the carry after that
AddedMod1(x, y, w) ==
  LET sum == x + y
      one == sum - Power(Base, w) + 1
  IN  IF sum < Power(Base, w) THEN sum ELSE IF one = Power(Base, w) THEN 1 ELSE one

FoldM1(mem, dst, src) ==
  Store(mem, dst, AddedMod1(Value(mem, LowPart(src, dst.n)),
                            Value(mem, HighPart(src, dst.n)), dst.n))

\* canonical: at most B^h, in h + 1 limbs
FoldP1(mem, dst, src) ==
  LET h  == dst.n - 1
      lo == Value(mem, LowPart(src, h))
      hi == Value(mem, HighPart(src, h))
  IN  Store(mem, dst, IF lo >= hi THEN lo - hi ELSE lo - hi + Power(Base, h) + 1)

\* multiply_mod_bnp1: an operand B^h, which is -1, negates the other
MultiplyP1(mem, r, a, b, temporary) ==
  LET h == r.n - 1
      Negated(x) == IF x = 0 THEN 0 ELSE Power(Base, h) + 1 - x
      product == Store(mem, temporary, Value(mem, First(a, h)) * Value(mem, First(b, h)))
  IN  IF Limb(mem, a, h) # 0 THEN Store(mem, r, Negated(Value(mem, b)))
      ELSE IF Limb(mem, b, h) # 0 THEN Store(mem, r, Negated(Value(mem, a)))
      ELSE FoldP1(product, r, temporary)

-----------------------------------------------------------------------------
(* Actions.                                                                *)

WrapEnter ==
  /\ wrap = WrapIdle
  /\ \E operands \in WrapOperands, override \in WrapOverrides, garbage \in Leftovers :
       LET mem == [a |-> operands.a, b |-> operands.b,
                   r |-> Leftover(operands.w, garbage),
                   scratch |-> Leftover(WrapStorageSize(operands.w), garbage)]
           a == Span("a", 0, Cardinality(DOMAIN operands.a))
           b == Span("b", 0, Cardinality(DOMAIN operands.b))
       IN  wrap' = [frames |-> <<WrapCall(mem, Span("r", 0, operands.w), a, b)>>,
                    mem |-> mem, offset |-> 0, override |-> override]

WrapEntered == wrap.frames # <<>> /\ WrapFrame.pc = "enter"

Plain(f) == LET cutoff == IF wrap.override # 0 THEN wrap.override ELSE WrapCutoff
            IN  f.r.n <= cutoff \/ f.r.n % 2 # 0 \/ f.a.n + f.b.n <= f.r.n
Cyclic(f) == wrap.override = 0 /\ f.r.n \in WrapCyclicSizes

WrapReturned == WrapBecomes([WrapFrame EXCEPT !.pc = "return"])
Block(i, n) == Span("scratch", wrap.offset + i * n, n)

\* the plain product, folded
WrapPlain ==
  /\ WrapEntered
  /\ Plain(WrapFrame)
  /\ LET f == WrapFrame
         p == Block(0, f.a.n + f.b.n)
         mem == Store(wrap.mem, p, Value(wrap.mem, f.a) * Value(wrap.mem, f.b))
     IN  wrap' = [wrap EXCEPT !.mem = FoldM1(mem, f.r, p), !.frames = WrapReturned]

\* multiply_fft_cyclic: some representative of the residue
WrapCyclic ==
  /\ WrapEntered
  /\ ~Plain(WrapFrame) /\ Cyclic(WrapFrame)
  /\ LET f == WrapFrame
         zero == Value(wrap.mem, f.a) = 0 \/ Value(wrap.mem, f.b) = 0
     IN  \E v \in {f.product} \cup
                  (IF f.product = 0 /\ ~zero THEN {Modulus(f.r.n)} ELSE {}) :
           wrap' = [wrap EXCEPT !.mem = Store(@, f.r, v), !.frames = WrapReturned]

\* half 1, in the low half of the result
WrapSplit ==
  /\ WrapEntered
  /\ ~Plain(WrapFrame) /\ ~Cyclic(WrapFrame)
  /\ LET f == WrapFrame
         h == f.r.n \div 2
         mem == FoldM1(FoldM1(wrap.mem, Block(0, h), f.a), Block(1, h), f.b)
     IN  wrap' = [wrap EXCEPT
           !.mem = mem,
           !.offset = @ + 2 * h,
           !.frames = Append(WrapBecomes([f EXCEPT !.pc = "half2"]),
                             WrapCall(mem, First(f.r, h), Block(0, h), Block(1, h)))]

\* half 2, in the place of the operands of half 1: blocks ap1, bp1 and rp1
WrapHalf2 ==
  /\ wrap.frames # <<>> /\ WrapFrame.pc = "half2"
  /\ LET f == WrapFrame
         h == f.r.n \div 2
         at == wrap.offset - 2 * h
         P1(i) == Span("scratch", at + i * (h + 1), h + 1)
         mem == FoldP1(FoldP1(wrap.mem, P1(0), f.a), P1(1), f.b)
     IN  wrap' = [wrap EXCEPT
           !.mem = MultiplyP1(mem, P1(2), P1(0), P1(1),
                              Span("scratch", at + 3 * (h + 1), 2 * h)),
           !.offset = at + 3 * (h + 1),
           !.frames = WrapBecomes([f EXCEPT !.pc = "crt"])]

\* Mutant: the difference is halved without being made even
HalvedDifferenceOdd(rm1, rp1, h) ==
  LET difference == IF rm1 < rp1 THEN rm1 + Power(Base, h) + 1 - rp1 ELSE rm1 - rp1
  IN  difference \div 2

\* (rm1 - rp1) / 2 modulo B^h + 1, which is odd: it is added to make the difference
\* positive, and again to make it even
HalvedDifference(rm1, rp1, h) ==
  LET difference == IF rm1 < rp1 THEN rm1 + Power(Base, h) + 1 - rp1 ELSE rm1 - rp1
  IN  (IF difference % 2 = 1 THEN difference + Power(Base, h) + 1 ELSE difference) \div 2

\* r = rm1 + t * (B^h - 1): the low limbs of t go above rm1, its top limb wraps around to
\* one, and so does the borrow of the subtraction
WrapCrt ==
  /\ wrap.frames # <<>> /\ WrapFrame.pc = "crt"
  /\ LET f == WrapFrame
         h == f.r.n \div 2
         w == f.r.n
         at == wrap.offset - 3 * (h + 1)
         rm1 == Value(wrap.mem, First(f.r, h))
         t  == HalvedDifference(rm1, Value(wrap.mem, Span("scratch", at + 2 * (h + 1), h + 1)), h)
         assembled == rm1 + (t % Power(Base, h)) * Power(Base, h)
         carried == IF t < Power(Base, h) THEN assembled
                    ELSE IF assembled + 1 = Power(Base, w) THEN 1 ELSE assembled + 1
         reduced == IF carried >= t THEN carried - t ELSE (carried - t - 1) % Power(Base, w)
     IN  wrap' = [wrap EXCEPT
           !.mem = Store(Store(@, Span("scratch", at, h + 1), t), f.r, reduced),
           !.offset = at,
           !.frames = WrapReturned]

WrapReturn ==
  /\ wrap.frames # <<>> /\ WrapFrame.pc = "return"
  /\ wrap' = IF Len(wrap.frames) = 1 THEN WrapIdle
             ELSE [wrap EXCEPT !.frames = SubSeq(@, 1, Len(@) - 1)]

WrapStep == WrapPlain \/ WrapCyclic \/ WrapSplit \/ WrapHalf2 \/ WrapCrt \/ WrapReturn

-----------------------------------------------------------------------------
(* Properties.                                                             *)

\* the blocks of the call that runs end within the storage of the outermost call
WrapInStorage ==
  wrap.frames # <<>> =>
    LET f == WrapFrame
        capacity == WrapStorageSize(wrap.frames[1].r.n)
    IN  /\ wrap.offset <= capacity
        /\ f.pc = "enter" /\ Plain(f) => wrap.offset + f.a.n + f.b.n <= capacity
        /\ f.pc = "crt" => wrap.offset + 2 * (f.r.n \div 2) <= capacity

\* Every call of the recursion returns the product of its operands modulo B^w - 1, also
\* where a folded operand is -1, a difference of residues is negative or odd, or a carry
\* or a borrow wraps around the top limb; and it does so in the storage the size asks for.
WrappedProduct ==
  /\ wrap.frames # <<>> /\ WrapFrame.pc = "return" =>
       Value(wrap.mem, WrapFrame.r) % Modulus(WrapFrame.r.n) = WrapFrame.product
  /\ WrapInStorage

=============================================================================
