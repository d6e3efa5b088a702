-------------------------- MODULE DivisionWorkspace --------------------------
(***************************************************************************)
(* The workspaces of division: the gates that choose a tier                *)
(* (div_impl.hpp), the arena that each tier sizes from its operands, and   *)
(* what its functions allocate there (divide.cpp), with the cutoffs of     *)
(* real builds. Only sizes are kept. A call is a sequence of steps: take   *)
(* and give limbs of the innermost arena, open and close an arena, call.   *)
(* What an allocation depends on and sizes do not tell (bits to shift,     *)
(* limbs that trim) is chosen freely.                                      *)
(***************************************************************************)

EXTENDS DivisionSizes, Sequences

CONSTANTS
  DwDivisions,   \* pairs of sizes, dividend and divisor, in limbs
  DwBuilds       \* records of cutoffs

\* A divisor is no larger than its dividend (a smaller one is divided without scratch). The
\* cutoffs are numbers, and halving ends: static_assert, div_impl.hpp
ASSUME DwAssumption ==
  /\ \A p \in DwDivisions : p[1] \in Nat /\ p[2] \in Nat \ {0} /\ p[2] <= p[1]
  /\ \A build \in DwBuilds :
       build.cutoff \in Nat \ {0} /\ build.reciprocal \in Nat /\ build.cyclic \in Nat

LimbWidth == 64
WrapCutoffLimbs == 16      \* multiply_mod_bnm1_cutoff
StackLimbs == 128          \* small_division_stack_limbs

VARIABLE dw

DwIdle == [todo |-> <<>>]
DwInit == dw = DwIdle

Take(k) == <<"take", k>>
Give(k) == <<"give", k>>

\* k limbs while the steps go on
Holding(k, steps) == <<Take(k)>> \o steps \o <<Give(k)>>
WithArena(capacity, steps) == <<<<"open", capacity>>>> \o steps \o <<<<"close">>>>

-----------------------------------------------------------------------------
(* Gates and sizes (div_impl.hpp).                                         *)

TakesBarrett(b, m, s) ==
  \/ s >= b.march /\ m \div 16 >= s
  \/ s >= b.march8 /\ m \div 8 >= s
  \/ m >= b.quarter /\ m \div 4 >= s
  \/ m >= b.balanced /\ m - s >= s

TakesBlocks(b, m, s) == ~TakesBarrett(b, m, s) /\ s >= b.cutoff /\ m - s >= b.offset

Greater(x, y) == IF x < y THEN y ELSE x

\* the cyclic transform has sizes of its own, here up to twice what is asked
WrapOf(n) == IF n < dw.build.cyclic THEN WrapSize(n, WrapCutoffLimbs)
             ELSE IF dw.wide THEN 2 * (n - 1) ELSE n

SchoolbookStorage(m, s) == m + 1 + s
WrapStorage(w) == 3 * w + 16

\* Mutant: the blocks of the quotient are left out
BlockStorageNoQuotient(n, t, threshold) ==
  (t + 1) * n + Greater(n, 6 * threshold + 3) + 8

BlockStorage(n, t, threshold) == 2 * t * n + Greater(n, 6 * threshold + 3) + 8

QuotientStorage(m, s, n, t, threshold) ==
  (m + 1) + (m - s + 3) + (m + 2) + BlockStorage(n, t, threshold) + 8

ReciprocalStorage(n, threshold) == 6 * n + 8 * threshold + 32

MarchStorage(n) == LET w == WrapOf(n + 1) IN 2 * n + 2 * w + WrapStorage(w)

BarrettStorage(n, t, threshold) ==
  (2 * t + 1) * n + Greater(ReciprocalStorage(n, threshold), MarchStorage(n)) + 8

BarrettPreinvStorage(n, t) == (2 * t - 1) * n + MarchStorage(n) + 8

\* the dividend has bits in its top limb, the divisor lacks shift bits
BarrettBlocks(m, bits, n, shift) ==
  BlockCount((m - 1) * LimbWidth + bits + shift, n * LimbWidth)

BlocksOf(m, bits, s, shift, n) ==
  BlockCount((m - 1) * LimbWidth + bits + (n - s) * LimbWidth + shift, n * LimbWidth)

-----------------------------------------------------------------------------
(* Calls.                                                                  *)

Todo(op) == dw.todo # <<>> /\ Head(dw.todo)[1] = op
Args == Head(dw.todo)
Expands(steps) == dw' = [dw EXCEPT !.todo = steps \o Tail(@)]

\* A division by basic_big_int, whose scratch is on the stack if it is small; or one of the
\* divisions by a power that the conversion to digits repeats in one arena.
DwEnter ==
  /\ dw = DwIdle
  /\ \E p \in DwDivisions, build \in DwBuilds, wide \in BOOLEAN,
        bits \in {1, LimbWidth}, shift \in {0, LimbWidth - 1},
        op \in {"div", "rem", "div_rem", "preinv"} :
       LET m == p[1]
           s == p[2]
           q == m - s + 1
           need == SchoolbookStorage(m, s) + m + 1 + (IF op = "rem" THEN q ELSE 0)
           held == CASE op = "rem" -> q + m + 1 [] op = "div_rem" -> m + 1 [] OTHER -> 0
           dispatch == <<<<IF op = "div" THEN "dispatch_q" ELSE "dispatch", m, s>>>>
       IN  dw' = [build |-> build, wide |-> wide /\ s + 1 >= build.cyclic,
                  bits |-> bits, shift |-> shift, arenas |-> <<>>,
                  todo |-> IF op = "preinv" THEN <<<<"preinvs", m, s>>>>
                           ELSE WithArena(Greater(need, StackLimbs),
                                          Holding(held, dispatch))]

\* divide_dispatch and divide_dispatch_q
DwSchoolbook ==
  /\ Todo("dispatch") \/ Todo("dispatch_q")
  /\ LET m == Args[2]
         s == Args[3]
         held == IF Args[1] = "dispatch_q" THEN m + 1 ELSE 0
     IN  /\ ~TakesBarrett(dw.build, m, s)
         /\ ~TakesBlocks(dw.build, m, s)
         /\ Expands(Holding(held, <<<<"unsigned", m, s, dw.shift>>>>))

DwBlocks ==
  /\ Todo("dispatch")
  /\ LET m == Args[2]
         s == Args[3]
         n == PaddedLimbs(s, dw.build.cutoff)
         t == BlocksOf(m, dw.bits, s, dw.shift, n)
     IN  /\ TakesBlocks(dw.build, m, s)
         /\ Expands(WithArena(BlockStorage(n, t, dw.build.cutoff),
                              <<Take(2 * t * n)>> \o [i \in 1 .. t - 1 |-> <<"2n1n", n>>]))

\* divide_quotient: the numerator has a limb more; the product decides the rare case
DwQuotient ==
  /\ Todo("dispatch_q")
  /\ LET m == Args[2]
         s == Args[3]
         n == PaddedLimbs(s, dw.build.cutoff)
         t == BlocksOf(m + 1, dw.bits, s, dw.shift, n)
         windows == [i \in 1 .. t - 1 |-> <<IF i = t - 1 THEN "divappr" ELSE "2n1n", n>>]
     IN  /\ TakesBlocks(dw.build, m, s)
         /\ Expands(WithArena(QuotientStorage(m, s, n, t, dw.build.cutoff),
                              Holding(m + 1 + m - s + 3,
                                      Holding(2 * t * n, windows) \o Holding(m + 2, <<>>))))

DwBarrett ==
  /\ Todo("dispatch") \/ Todo("dispatch_q")
  /\ LET m == Args[2]
         n == Args[3]
         t == BarrettBlocks(m, dw.bits, n, dw.shift)
         normalized == IF dw.shift = 0 THEN 0 ELSE n
         arena == WithArena(BarrettStorage(n, t, dw.build.reciprocal),
                            <<Take(normalized + 2 * t * n), <<"reciprocal", n>>, <<"march", n>>>>)
     IN  /\ TakesBarrett(dw.build, m, n)
         /\ Expands(IF Args[1] = "dispatch" THEN arena ELSE Holding(m + 1, arena))

\* divide_barrett_preinv twice in the same arena
DwPreinv ==
  /\ Todo("preinvs")
  /\ LET n == Args[3]
         t == BarrettBlocks(Args[2], dw.bits, n, dw.shift)
         once == Holding((2 * t - 1) * n, <<<<"march", n>>>>)
     IN  Expands(WithArena(BarrettPreinvStorage(n, t), once \o once))

\* divide_unsigned
DwUnsigned ==
  /\ Todo("unsigned")
  /\ LET normalized == IF Args[4] = 0 THEN 0 ELSE Args[3]
     IN  Expands(Holding(normalized + Args[2] + 1, <<>>))

-----------------------------------------------------------------------------
(* Burnikel-Ziegler.                                                       *)

LeafLimbs(n) == n % 2 # 0 \/ n < dw.build.cutoff

\* divide_dc_basecase: a window whose top limbs may be zero
DwLeaf ==
  /\ \/ Todo("2n1n")
     \/ Todo("divappr") /\ Args[2] < 3
  /\ LET n == Args[2]
     IN  /\ LeafLimbs(n)
         /\ \E size \in {n, n + 1, 2 * n} :
              Expands(Holding(size - n + 1 + size + 1, <<<<"unsigned", size, n, 0>>>>))

DwApproxLeaf ==
  /\ Todo("divappr")
  /\ LET n == Args[2]
     IN  /\ LeafLimbs(n) /\ n >= 3
         /\ \E size \in {n + 1, 2 * n} :
              Expands(Holding(size - n + 1, Holding(size + 1, <<>>)))

Dw2n1n ==
  /\ Todo("2n1n")
  /\ ~LeafLimbs(Args[2])
  /\ Expands(<<<<"3n2n", Args[2] \div 2>>, <<"3n2n", Args[2] \div 2>>>>)

DwApprox ==
  /\ Todo("divappr")
  /\ ~LeafLimbs(Args[2])
  /\ Expands(<<<<"3n2n", Args[2] \div 2>>, <<"divappr", Args[2] \div 2>>>>)

\* the product is allocated after the recursive call
Dw3n2n ==
  /\ Todo("3n2n")
  /\ Expands(<<<<"2n1n", Args[2]>>>> \o Holding(2 * Args[2], <<>>))

-----------------------------------------------------------------------------
(* Barrett.                                                                *)

DwReciprocal ==
  /\ Todo("reciprocal")
  /\ LET n == Args[2]
     IN  IF n <= dw.build.reciprocal
         THEN Expands(Holding(2 * n + n + 1 + 2 * n + 1, <<<<"unsigned", 2 * n, n, 0>>>>))
         ELSE Expands(<<<<"reciprocal", (n + 1) \div 2>>, <<"refine", n>>>>)

\* the error of the seed may be short
DwRefine ==
  /\ Todo("refine")
  /\ LET n == Args[2]
         h == (n + 1) \div 2
         w == WrapOf(n + 1)
     IN  \E error \in {1, n + 1} :
           Expands(Holding(n + h + 1 + error + h + 1, <<>>)
                   \o Holding(2 * w, <<<<"mulmod", w, n>>>>))

DwMarch ==
  /\ Todo("march")
  /\ LET n == Args[2]
         w == WrapOf(n + 1)
     IN  Expands(Holding(2 * n + 2 * w, <<<<"mulmod", w, n>>>>))

\* multiply_mod_bnm1 of operands of n limbs: the plain product, the cyclic transform, which
\* has its own memory, or the halves
DwMulmod ==
  /\ Todo("mulmod")
  /\ LET w == Args[2]
         n == Args[3]
         h == w \div 2
         plain == w <= WrapCutoffLimbs \/ w % 2 # 0 \/ 2 * n <= w
     IN  \/ plain /\ Expands(Holding(2 * n, <<>>))
         \/ ~plain /\ w >= dw.build.cyclic /\ Expands(<<>>)
         \/ ~plain /\ Expands(Holding(2 * h, <<<<"mulmod", h, h>>>>)
                              \o Holding(3 * (h + 1) + 2 * h, <<>>))

-----------------------------------------------------------------------------
(* The arenas.                                                             *)

Innermost == dw.arenas[Len(dw.arenas)]

DwAllocate ==
  /\ Todo("take") \/ Todo("give")
  /\ dw' = [dw EXCEPT !.arenas[Len(dw.arenas)].offset = IF Todo("take") THEN @ + Args[2]
                                                        ELSE @ - Args[2],
                      !.todo = Tail(@)]

DwOpen ==
  /\ Todo("open")
  /\ dw' = [dw EXCEPT !.arenas = Append(@, [offset |-> 0, capacity |-> Args[2]]),
                      !.todo = Tail(@)]

DwClose ==
  /\ Todo("close")
  /\ dw' = IF Len(dw.todo) = 1 THEN DwIdle
           ELSE [dw EXCEPT !.arenas = SubSeq(@, 1, Len(@) - 1), !.todo = Tail(@)]

DwStep == \/ DwSchoolbook \/ DwBlocks \/ DwQuotient \/ DwBarrett \/ DwPreinv \/ DwUnsigned
          \/ DwLeaf \/ DwApproxLeaf \/ Dw2n1n \/ DwApprox \/ Dw3n2n
          \/ DwReciprocal \/ DwRefine \/ DwMarch \/ DwMulmod \/ DwAllocate \/ DwOpen \/ DwClose

-----------------------------------------------------------------------------
(* Properties.                                                             *)

\* No tier allocates more than the arena it was given holds, the caller's stack buffer too,
\* whatever the padding, the levels and the wrap sizes of its operands; and no function
\* gives back more than it took.
DivisionScratchFits ==
  dw # DwIdle => \A i \in DOMAIN dw.arenas : dw.arenas[i].offset \in 0 .. dw.arenas[i].capacity
==============================================================================
