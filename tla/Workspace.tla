------------------------------ MODULE Workspace ------------------------------
(***************************************************************************)
(* The workspace of the recursive kernels: a bump allocator                *)
(* (scratch_allocator.hpp) over a buffer whose size a formula of           *)
(* mul_impl.hpp estimates, and the sizes that the recursion asks for, with *)
(* the cutoffs of a real build. Only the sizes of the operands are kept.   *)
(* A call may make any of its recursive calls, any number of times: what   *)
(* is in use at a time depends on the chain of calls alone.                *)
(***************************************************************************)

EXTENDS Integers, Sequences

CONSTANTS
  WsProducts,      \* pairs of sizes of outermost products, the smaller first
  WsCutoffs,       \* the cutoff of each kernel
  WsSquareCutoffs, \* and of its variant for squares
  WsStack,         \* karatsuba_stack_threshold
  WsTrimmed        \* of these, the ones where one operand of a chain of calls may trim to half

\* The sizes suffice only from some cutoff on: near the base case what a level adds for
\* carries and rounding weighs more. The lowest cutoffs of a build are 40 and 300.
ASSUME WsAssumption ==
  /\ \A c \in {WsCutoffs.fallback, WsSquareCutoffs.karatsuba} : c \in Nat /\ c >= 36
  /\ \A cutoffs \in {WsCutoffs, WsSquareCutoffs} :
       \A kernel \in {"toom3", "toom4", "toom65", "toom85"} :
         cutoffs[kernel] \in Nat /\ cutoffs[kernel] >= 61
  /\ \A sizes \in WsProducts : sizes \in (Nat \ {0}) \X (Nat \ {0}) /\ sizes[1] <= sizes[2]
  /\ WsStack \in Nat

VARIABLE ws

WsIdle == [frames |-> <<>>]
WsInit == ws = WsIdle

WsKernels == <<"karatsuba", "toom3", "toom4", "toom65", "toom85">>

CutoffsOf(square) == IF square THEN WsSquareCutoffs ELSE WsCutoffs

\* toom_ladder: the highest kernel whose cutoff the shorter operand reaches
LadderKernel(min, square) ==
  LET reached == {i \in 2 .. Len(WsKernels) : CutoffsOf(square)[WsKernels[i]] <= min}
  IN  CHOOSE i \in reached \cup {1} : \A j \in reached : j <= i

\* Mutant: only what the recursion needs in the limit
StorageSizeTight(level, s) == 4 * s

\* the *_storage_size functions; s is the size of the longer operand
StorageSize(level, s) == IF level <= 2 THEN 5 * s ELSE 6 * s

\* run_ladder: a small Karatsuba product has its workspace on the stack
Capacity(min, max, square) ==
  LET level == LadderKernel(min, square)
  IN  IF ~square /\ level = 1 /\ StorageSize(level, max) <= WsStack
        THEN WsStack ELSE StorageSize(level, max)

-----------------------------------------------------------------------------
(* One call: kernels by level, 1 is Karatsuba.                             *)

Frames == ws.frames
Current == Frames[Len(Frames)]

PartsOf(level) == <<2, 3, 4, 6, 8>>[level]
LongParts(level) == <<2, 3, 4, 7, 9>>[level]
DividedRoundingUp(x, y) == (x + y - 1) \div y

ShortSize(f) == IF f.a < f.b THEN f.a ELSE f.b
LongSize(f) == IF f.a < f.b THEN f.b ELSE f.a

PieceLimbs(f) ==
  IF f.level = 1 THEN LongSize(f) \div 2 + 1
  ELSE DividedRoundingUp(IF f.level <= 3 THEN LongSize(f) ELSE ShortSize(f), PartsOf(f.level))

\* the gate at the head of every kernel
Gated(f) ==
  \/ ShortSize(f) < IF f.level = 1
                      THEN IF ws.square THEN WsSquareCutoffs.karatsuba ELSE WsCutoffs.fallback
                      ELSE CutoffsOf(ws.square)[WsKernels[f.level]]
  \/ f.level > 1 /\ ShortSize(f) <= (PartsOf(f.level) - 1) * PieceLimbs(f)
  \/ f.level > 1 /\ LongSize(f) > LongParts(f.level) * PieceLimbs(f)

\* the limbs a kernel allocates: evaluated operands of k + 2 limbs, products of 2k + 2
BlockLimbs(f) ==
  LET k == PieceLimbs(f)
      evaluated == IF ws.square /\ f.level # 3 THEN 1 ELSE 2
  IN  IF f.level = 1 THEN 2 * k + 2 + evaluated * (k + 1)
      ELSE evaluated * (k + 2) + <<0, 3, 6, 11, 15>>[f.level] * (2 * k + 2)

\* sizes of the operands of the recursive calls: the lowest and the highest pieces, and
\* the values at the points, with or without a carry limb
ChildSizes(f) ==
  LET k == PieceLimbs(f)
      low(n)  == IF n < k THEN n ELSE k
      top(n, parts) == IF n > (parts - 1) * k THEN n - (parts - 1) * k ELSE 0
      short == top(ShortSize(f), PartsOf(f.level))
      long  == top(LongSize(f), LongParts(f.level))
      low2  == <<low(ShortSize(f)), low(LongSize(f))>>
  IN  {low2, <<short, long>>, <<low2[1] + 1, low2[2] + 1>>} \cap (Nat \ {0}) \X (Nat \ {0})

-----------------------------------------------------------------------------
(* Actions.                                                                *)

WsEnter ==
  /\ ws = WsIdle
  /\ \E sizes \in WsProducts, square \in BOOLEAN :
       /\ square => sizes[1] = sizes[2]
       /\ ws' = [frames |-> <<[level |-> LadderKernel(sizes[1], square),
                               a |-> sizes[1], b |-> sizes[2], block |-> 0]>>,
                 offset |-> 0, square |-> square, trims |-> sizes \in WsTrimmed,
                 capacity |-> Capacity(sizes[1], sizes[2], square)]

Fresh == Frames # <<>> /\ Current.block = 0

\* to the next kernel, or to the base case
WsFallBack ==
  /\ Fresh
  /\ Gated(Current)
  /\ IF Current.level > 1
       THEN ws' = [ws EXCEPT !.frames[Len(Frames)].level = @ - 1]
       ELSE ws' = IF Len(Frames) = 1 THEN WsIdle
                  ELSE [ws EXCEPT !.frames = SubSeq(@, 1, Len(@) - 1)]

\* scratch.allocate
WsAllocate ==
  /\ Fresh
  /\ ~Gated(Current)
  /\ ws' = [ws EXCEPT !.frames[Len(Frames)].block = BlockLimbs(Current),
                      !.offset = @ + BlockLimbs(Current)]

\* every kernel calls itself; an operand that is trimmed may be much shorter
WsCall ==
  /\ Frames # <<>> /\ Current.block > 0
  /\ \E sizes \in ChildSizes(Current) :
       \/ ws' = [ws EXCEPT !.frames = Append(@, [level |-> Current.level, a |-> sizes[1],
                                                 b |-> sizes[2], block |-> 0])]
       \/ /\ ws.trims /\ ~ws.square
          /\ ws' = [ws EXCEPT !.trims = FALSE,
                              !.frames = Append(@, [level |-> Current.level,
                                                    a |-> DividedRoundingUp(sizes[1], 2),
                                                    b |-> sizes[2], block |-> 0])]

\* scratch.deallocate at the end
WsDeallocate ==
  /\ Frames # <<>> /\ Current.block > 0
  /\ ws' = IF Len(Frames) = 1 THEN WsIdle
           ELSE [ws EXCEPT !.offset = @ - Current.block,
                           !.frames = SubSeq(@, 1, Len(@) - 1)]

WsStep == WsFallBack \/ WsAllocate \/ WsCall \/ WsDeallocate

-----------------------------------------------------------------------------
(* Properties.                                                             *)

\* The assertion of scratch_allocator_base::allocate: the estimate that sized the buffer
\* covers every chain of recursive calls, also across the gates where a kernel hands an
\* unbalanced or odd product to a lower one that needs more per limb.
WorkspaceFits == Frames # <<>> => ws.offset <= ws.capacity

=============================================================================
