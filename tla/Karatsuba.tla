------------------------------ MODULE Karatsuba ------------------------------
(***************************************************************************)
(* The Karatsuba kernels (karatsuba.cpp), which recurse in place: the low  *)
(* and the high product are built in the two ends of the result, the cross *)
(* product in a bump-allocated temporary, and everything is trimmed and    *)
(* zero-filled in between. A frame of the recursion is a record, a step    *)
(* runs from one recursive call to the next.                               *)
(*                                                                         *)
(* The base case and the span helpers act at once; the base case writes    *)
(* only the limbs of its trimmed operands, which is why the callers need a *)
(* result of zeros.                                                        *)
(***************************************************************************)

EXTENDS UnwrittenMemory, Sequences

CONSTANTS
  KaraOperands,       \* pairs of operands: functions from 0 .. n-1 to limbs
  KaraFallback,       \* karatsuba_fallback
  KaraSquareCutoff,   \* square_karatsuba_cutoff
  KaraOverrides,      \* values of cutoff_override
  KaraPerLimb         \* limbs of workspace for each limb of the longer operand: 5

Size(limbs) == Cardinality(DOMAIN limbs)

\* With four limbs or fewer a half has as many limbs as the whole. The lower the cutoff, the
\* more workspace a limb takes: five limbs suffice from a cutoff of 20 on. An override leaves
\* a half above the lower one.
ASSUME KaraAssumption ==
  /\ KaraPerLimb \in Nat /\ KaraPerLimb >= 5
  /\ \A c \in {KaraFallback, KaraSquareCutoff} :
       c \in Nat /\ c >= 5 /\ (KaraPerLimb - 4) * (c - 2) >= 2 * KaraPerLimb + 8
  /\ \A c \in KaraOverrides : c \in Nat /\ (c = 0 \/ c >= 3)
  /\ \A p \in KaraOperands : \A x \in {p[1], p[2]} :
       Size(x) \in Nat \ {0} /\ x \in [0 .. Size(x) - 1 -> 0 .. Base - 1]

VARIABLE kara     \* the call that runs, if any

KaraIdle == [frames |-> <<>>]
KaraInit == kara = KaraIdle

karatsuba_storage_size(s) == KaraPerLimb * s

\* a call that has not run yet; product is what it has to compute, for the properties
KaraCall(mem, r, a, b, override) ==
  [pc |-> "enter", r |-> r, a |-> a, b |-> b, override |-> override,
   product |-> Value(mem, a) * Value(mem, b)]

KaraFrame == kara.frames[Len(kara.frames)]
KaraReturned == [kara.frames EXCEPT ![Len(kara.frames)].pc = "return"]
\* the current frame becomes f
KaraBecomes(f) == [kara.frames EXCEPT ![Len(kara.frames)] = f]

-----------------------------------------------------------------------------
(* The shape of a call, from the trimmed operands.                         *)

KaraA(f) == TrimmedSpan(kara.mem, f.a)
KaraB(f) == IF kara.square THEN KaraA(f) ELSE TrimmedSpan(kara.mem, f.b)

Cutoff(f) == IF f.override # 0 THEN f.override
             ELSE IF kara.square THEN KaraSquareCutoff ELSE KaraFallback

Half(f) == LargerOf(KaraA(f).n, KaraB(f).n) \div 2 + 1

Low(s, n)  == First(s, SmallerOf(s.n, n))
High(s, n) == IF s.n > n THEN Subspan(s, n) ELSE Span(s.area, s.at + s.n, 0)

\* the block of temporaries: the square needs one sum less
BlockSize(n) == IF kara.square THEN 3 * n + 3 ELSE 4 * n + 4
T1(f) == Span("scratch", f.block, 2 * f.n + 2)
T2(f) == Span("scratch", f.block + 2 * f.n + 2, f.n + 1)
T3(f) == IF kara.square THEN T2(f) ELSE Span("scratch", f.block + 3 * f.n + 3, f.n + 1)

ResultLow(f)  == First(f.r, 2 * f.n)
ResultHigh(f) == Subspan(f.r, 2 * f.n)

-----------------------------------------------------------------------------
(* Actions.                                                                *)

\* from the dispatcher, with a result of zeros; a limb more than needed is allowed
KaraEnter ==
  /\ kara = KaraIdle
  /\ \E operands \in KaraOperands, square \in BOOLEAN, override \in KaraOverrides,
        extra \in {0, 1}, garbage \in Leftovers :
       LET na == Size(operands[1])
           nb == Size(operands[2])
           mem == [a |-> operands[1], b |-> operands[2],
                   result |-> Filled(na + nb + extra, 0),
                   scratch |-> Leftover(karatsuba_storage_size(LargerOf(na, nb)), garbage)]
           a == Span("a", 0, na)
           b == IF square THEN a ELSE Span("b", 0, nb)
       IN  /\ square => operands[1] = operands[2]
           /\ kara' = [frames |-> <<KaraCall(mem, Span("result", 0, na + nb + extra),
                                         a, b, override)>>,
                       mem |-> mem, offset |-> 0, square |-> square]

KaraBase ==
  /\ kara.frames # <<>>
  /\ KaraFrame.pc = "enter"
  /\ KaraA(KaraFrame).n < Cutoff(KaraFrame) \/ KaraB(KaraFrame).n < Cutoff(KaraFrame)
  /\ kara' = [kara EXCEPT
       !.mem = Store(@, First(KaraFrame.r, KaraA(KaraFrame).n + KaraB(KaraFrame).n),
                     Value(@, KaraA(KaraFrame)) * Value(@, KaraB(KaraFrame))),
       !.frames = KaraReturned]

\* allocate, then the product of the low halves
KaraSplit ==
  /\ kara.frames # <<>>
  /\ KaraFrame.pc = "enter"
  /\ KaraA(KaraFrame).n >= Cutoff(KaraFrame) /\ KaraB(KaraFrame).n >= Cutoff(KaraFrame)
  /\ LET n == Half(KaraFrame)
         f == [pc |-> "low", r |-> KaraFrame.r, a |-> KaraA(KaraFrame), b |-> KaraB(KaraFrame),
               n |-> n, block |-> kara.offset, product |-> KaraFrame.product]
     IN  kara' = [kara EXCEPT
           !.offset = @ + BlockSize(n),
           !.frames = Append(KaraBecomes(f),
                             KaraCall(kara.mem, ResultLow(f), Low(f.a, n), Low(f.b, n), 0))]

\* the size of a product in a window, and the window with zeros above it
Settled(window, size) ==
  LET k == Trimmed(kara.mem, First(window, size))
  IN  [size |-> k, mem |-> Fill(kara.mem, Subspan(window, k))]

\* the high product is skipped when an operand has no high half; its limbs keep the
\* zeros of the caller
KaraLow ==
  /\ kara.frames # <<>>
  /\ KaraFrame.pc = "low"
  /\ LET f == KaraFrame
         settled == Settled(ResultLow(f), Low(f.a, f.n).n + Low(f.b, f.n).n)
         high == ResultHigh(f).n > 0 /\ f.a.n > f.n /\ f.b.n > f.n
         after == [pc |-> IF high THEN "high" ELSE "sums", r |-> f.r, a |-> f.a, b |-> f.b,
                   n |-> f.n, block |-> f.block, product |-> f.product,
                   low |-> settled.size, high |-> high]
     IN  kara' = [kara EXCEPT
           !.mem = settled.mem,
           !.frames = IF high
                        THEN Append(KaraBecomes(after), KaraCall(settled.mem, ResultHigh(f),
                                                         High(f.a, f.n), High(f.b, f.n), 0))
                        ELSE KaraBecomes(after)]

KaraHigh ==
  /\ kara.frames # <<>>
  /\ KaraFrame.pc = "high"
  /\ LET f == KaraFrame
     IN  kara' = [kara EXCEPT
           !.mem = Settled(ResultHigh(f), High(f.a, f.n).n + High(f.b, f.n).n).mem,
           !.frames = KaraBecomes([f EXCEPT !.pc = "sums"])]

\* Mutant: the carry of the sum of two halves is dropped
SumOfHalvesNoCarry(mem, s, n, t) ==
  LET size == LargerOf(Low(s, n).n, High(s, n).n)
  IN  [size |-> size,
       mem |-> Store(mem, First(t, size), Value(mem, Low(s, n)) + Value(mem, High(s, n)))]

\* t = s_l + s_h: as long as the longer half, and one limb more if there is a carry
SumOfHalves(mem, s, n, t) ==
  LET sum  == Value(mem, Low(s, n)) + Value(mem, High(s, n))
      long == LargerOf(Low(s, n).n, High(s, n).n)
      size == IF sum >= Power(Base, long) THEN long + 1 ELSE long
  IN  [size |-> size, mem |-> Store(mem, First(t, size), sum)]

KaraSums ==
  /\ kara.frames # <<>>
  /\ KaraFrame.pc = "sums"
  /\ LET f  == KaraFrame
         t2 == SumOfHalves(kara.mem, f.a, f.n, T2(f))
         t3 == IF kara.square THEN t2 ELSE SumOfHalves(t2.mem, f.b, f.n, T3(f))
         mem == Fill(t3.mem, T1(f))
         after == [pc |-> "cross", r |-> f.r, a |-> f.a, b |-> f.b, n |-> f.n,
                   block |-> f.block, product |-> f.product, low |-> f.low, high |-> f.high,
                   sums |-> t2.size + t3.size]
     IN  kara' = [kara EXCEPT
           !.mem = mem,
           !.frames = Append(KaraBecomes(after), KaraCall(mem, T1(f), First(T2(f), t2.size),
                                                  First(T3(f), t3.size), 0))]

\* t1 less both products is the cross term; it is added at limb n, and the block released
KaraCross ==
  /\ kara.frames # <<>>
  /\ KaraFrame.pc = "cross"
  /\ LET f  == KaraFrame
         t1 == TrimmedSpan(kara.mem, First(T1(f), f.sums))
         high == IF f.high
                   THEN Value(kara.mem, First(ResultHigh(f),
                                              High(f.a, f.n).n + High(f.b, f.n).n))
                   ELSE 0
         low  == Value(kara.mem, First(ResultLow(f), f.low))
         mem1 == Store(kara.mem, t1, Value(kara.mem, t1) - high - low)
         up   == Subspan(f.r, f.n)
     IN  kara' = [kara EXCEPT
           !.mem = Store(mem1, up, Value(mem1, up) + Value(mem1, t1)),
           !.offset = @ - BlockSize(f.n),
           !.frames = KaraReturned]

KaraReturn ==
  /\ kara.frames # <<>>
  /\ KaraFrame.pc = "return"
  /\ kara' = IF Len(kara.frames) = 1 THEN KaraIdle
             ELSE [kara EXCEPT !.frames = SubSeq(@, 1, Len(@) - 1)]

KaraStep == \/ KaraBase \/ KaraSplit \/ KaraLow \/ KaraHigh \/ KaraSums
            \/ KaraCross \/ KaraReturn

-----------------------------------------------------------------------------
(* Properties.                                                             *)

\* Every call of the recursion leaves the product of what its operands were when it was
\* called in its whole window, whatever the workspace held before and however many zero
\* limbs the halves have; the temporaries of enclosing calls are intact because they are
\* operands of later ones.
KaratsubaProduct ==
  kara.frames # <<>> /\ KaraFrame.pc = "return" => Value(kara.mem, KaraFrame.r) = KaraFrame.product

=============================================================================
