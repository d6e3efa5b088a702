---------------------------- MODULE BigIntStorage ----------------------------
(***************************************************************************)
(* Storage management of basic_big_int (basic_big_int.hpp).                *)
(*                                                                         *)
(* An object keeps its limbs in place or in one heap block obtained from   *)
(* its allocator: m_capacity is 0 in place, the limb count of the block    *)
(* otherwise, and m_storage is a union of the pointer and the limbs.  This *)
(* module has the constructors, assignments, swap, destructor and capacity *)
(* functions, over allocators that may compare unequal and may throw at    *)
(* any allocation.                                                         *)
(*                                                                         *)
(* The limbs of a magnitude are one token with a limb count; what the      *)
(* properties can tell apart is which magnitude a piece of memory holds    *)
(* and whether it is still intact.                                         *)
(***************************************************************************)

EXTENDS Integers

CONSTANTS
  Objects,          \* names of the objects, alive or not
  Allocators,       \* allocator instances
  Blocks,           \* addresses of heap blocks
  Magnitudes,       \* the magnitudes that occur
  Zero,             \* the magnitude 0
  LimbsOf,          \* limbs in the trimmed form of each magnitude
  ClassOf,          \* a == b for allocators iff ClassOf[a] = ClassOf[b]
  Selected,         \* select_on_container_copy_construction
  AlwaysEqual,      \* allocator_traits::is_always_equal
  POCCA, POCMA, POCS, \* propagate_on_container_{copy_assignment, move_assignment, swap}
  InplaceCapacity,  \* inplace_capacity
  MaxLimbs,         \* max_limbs
  Surplus,          \* allocate_at_least may return up to this many limbs more
  MaxWidth,         \* limbs of the widest integer type that is converted
  NoAlloc, Junk, Absent

ASSUME StorageAssumption ==
  /\ InplaceCapacity \in Nat \ {0}
  /\ MaxLimbs \in Nat /\ InplaceCapacity <= MaxLimbs
  /\ Surplus \in Nat /\ MaxWidth \in Nat
  /\ {AlwaysEqual, POCCA, POCMA, POCS} \subseteq BOOLEAN
  /\ Zero \in Magnitudes /\ Junk \notin Magnitudes
  /\ Blocks \cap (Magnitudes \cup {Junk}) = {}
  /\ LimbsOf \in [Magnitudes -> 1 .. MaxLimbs] /\ LimbsOf[Zero] = 1
  /\ NoAlloc \notin Allocators
  /\ Absent \notin [neg : BOOLEAN, mag : Magnitudes \cup {Junk}]
  /\ Selected \in [Allocators -> Allocators]
  /\ AlwaysEqual => \A a, b \in Allocators : ClassOf[a] = ClassOf[b]

VARIABLES
  obj,     \* obj[o]: the members of o
  block,   \* block[b]: the heap block at address b
  misuse,  \* some deallocate broke the allocator's preconditions
  call     \* the call just made and how it ended

vars == <<obj, block, misuse, call>>

(***************************************************************************)
(* Representation.                                                         *)
(***************************************************************************)

\* m_capacity, m_size_and_sign (neg, count), m_storage and m_alloc
Rep(capacity, neg, count, storage, alloc) ==
  [capacity |-> capacity, neg |-> neg, count |-> count, storage |-> storage, alloc |-> alloc]

Dead == Rep(0, FALSE, 1, Zero, NoAlloc)
HeapBlock(a, n, m) == [owner |-> a, count |-> n, limbs |-> m]
FreeBlock == HeapBlock(NoAlloc, 0, Junk)

Alive(o) == obj[o].alloc # NoAlloc
Live(b) == block[b].owner # NoAlloc

Inplace(o) == obj[o].capacity = 0
EffectiveCapacity(o) == IF Inplace(o) THEN InplaceCapacity ELSE obj[o].capacity
RepresentationCapacity(o) ==
  IF obj[o].capacity > InplaceCapacity THEN obj[o].capacity ELSE InplaceCapacity

\* what limb_ptr() points to
LimbsAt(o) == IF Inplace(o) THEN obj[o].storage ELSE block[obj[o].storage].limbs

Value(neg, m) == [neg |-> neg, mag |-> m]
Values == {v \in [neg : BOOLEAN, mag : Magnitudes] : v.neg => v.mag # Zero}
ValueOf(o) == Value(obj[o].neg, LimbsAt(o))

SameAllocator(a, b) == AlwaysEqual \/ ClassOf[a] = ClassOf[b]

\* Copying n limbs that hold m into room for `room` limbs: a copy that is too
\* short, overruns the room, or reads what is no magnitude leaves junk.
Copied(m, n, room) ==
  IF m \in Magnitudes /\ n <= room THEN (IF LimbsOf[m] = n THEN m ELSE Junk) ELSE Junk

\* new_cap in grow: at least double, clamped to max_limbs
GrownCapacity(o, n) ==
  LET doubled == 2 * EffectiveCapacity(o)
      wanted  == IF n > doubled THEN n ELSE doubled
  IN  IF wanted > MaxLimbs THEN MaxLimbs ELSE wanted

(***************************************************************************)
(* Heap steps.                                                             *)
(***************************************************************************)

HeapUnchanged == UNCHANGED <<block, misuse>>

\* allocate or allocate_at_least of n limbs returns a free address, and this many limbs
FreeBlocks == {b \in Blocks : ~Live(b)}
Returned(n) == n .. n + Surplus

\* allocator a may deallocate block b as an array of n limbs
FreeLegal(a, b, n) == Live(b) /\ SameAllocator(block[b].owner, a) /\ block[b].count = n

\* free_storage of o with its current allocator
FreeStorage(o) ==
  IF Inplace(o)
    THEN HeapUnchanged
    ELSE /\ block' = [block EXCEPT ![obj[o].storage] = FreeBlock]
         /\ misuse' = (misuse \/ ~FreeLegal(obj[o].alloc, obj[o].storage, obj[o].capacity))

NewBlock(b, fresh) ==
  /\ block' = [block EXCEPT ![b] = fresh]
  /\ UNCHANGED misuse

\* the storage of o now holds m (in place, obj' says so)
WriteLimbs(o, m) ==
  IF Inplace(o)
    THEN HeapUnchanged
    ELSE NewBlock(obj[o].storage, [block[obj[o].storage] EXCEPT !.limbs = m])

\* Mutants: the old block is never released; it is released as an array of count limbs
ReplaceStorageLeaking(o, b, fresh) == NewBlock(b, fresh)
ReplaceStorageByCount(o, b, fresh) ==
  IF Inplace(o)
    THEN NewBlock(b, fresh)
    ELSE /\ block' = [block EXCEPT ![b] = fresh, ![obj[o].storage] = FreeBlock]
         /\ misuse' = (misuse \/ ~FreeLegal(obj[o].alloc, obj[o].storage, obj[o].count))

\* a new block for o, then free_storage of the old one
ReplaceStorage(o, b, fresh) ==
  IF Inplace(o)
    THEN NewBlock(b, fresh)
    ELSE /\ block' = [block EXCEPT ![b] = fresh, ![obj[o].storage] = FreeBlock]
         /\ misuse' = (misuse \/ ~FreeLegal(obj[o].alloc, obj[o].storage, obj[o].capacity))

(***************************************************************************)
(* How a call ends.                                                        *)
(***************************************************************************)

Running == call.outcome # "terminated"

Called(name, o, arg, outcome) ==
  call' = [name |-> name, target |-> o, arg |-> arg, outcome |-> outcome]

Ok(name, o, arg) == Called(name, o, arg, "ok")

Fails(name, o, arg, outcome) ==
  /\ Called(name, o, arg, outcome)
  /\ UNCHANGED <<obj, block, misuse>>

\* alloc_limbs(n) throws: length_error before the allocator is asked, else bad_alloc
AllocationFailure(n) == IF n > MaxLimbs THEN "length_error" ELSE "bad_alloc"

(***************************************************************************)
(* Constructors.                                                           *)
(***************************************************************************)

ConstructInplace(name, o, a, v) ==
  /\ obj' = [obj EXCEPT ![o] = Rep(0, v.neg, LimbsOf[v.mag], v.mag, a)]
  /\ HeapUnchanged
  /\ Ok(name, o, v)

\* grow(w) while o is still in place, then the limbs of v are written
ConstructGrown(name, o, a, v, w, failure) ==
  \/ Fails(name, o, v, failure)
  \/ /\ w <= MaxLimbs
     /\ \E b \in FreeBlocks, c \in Returned(GrownCapacity(o, w)) :
          /\ NewBlock(b, HeapBlock(a, c, v.mag))
          /\ obj' = [obj EXCEPT ![o] = Rep(c, v.neg, LimbsOf[v.mag], b, a)]
          /\ Ok(name, o, v)

\* basic_big_int(const T& value, const allocator_type& a) for an integer type of w
\* limbs. assign_magnitude stays in place when the value fits and grows otherwise;
\* it is noexcept, so an allocation failure inside it terminates.
Construct(o, a, v, w) ==
  /\ Running /\ ~Alive(o) /\ LimbsOf[v.mag] <= w
  /\ IF LimbsOf[v.mag] <= InplaceCapacity
       THEN ConstructInplace("construct", o, a, v)
       ELSE ConstructGrown("construct", o, a, v, w, "terminated")

\* the constructors from a big integer of another specialization (w its limb count) and
\* from a sized range of w limbs, trimmed afterwards: grow(w) first, whatever the value
ConstructFromLimbs(o, a, v, w) ==
  /\ Running /\ ~Alive(o) /\ LimbsOf[v.mag] <= w
  /\ v.neg => LimbsOf[v.mag] = w   \* a range has no sign
  /\ IF w <= InplaceCapacity
       THEN ConstructInplace("construct_from_limbs", o, a, v)
       ELSE ConstructGrown("construct_from_limbs", o, a, v, w, AllocationFailure(w))

\* Mutant: a source on the heap is copied to the heap however few limbs it uses
CopyLimbsFromByStorage(name, o, x, a) ==
  LET n == obj[x].count
      m == Copied(LimbsAt(x), n, IF Inplace(x) THEN InplaceCapacity ELSE n)
  IN  \/ /\ Inplace(x)
         /\ obj' = [obj EXCEPT ![o] = Rep(0, obj[x].neg, n, m, a)]
         /\ HeapUnchanged
         /\ Ok(name, o, x)
      \/ /\ ~Inplace(x)
         /\ \/ Fails(name, o, x, AllocationFailure(n))
            \/ \E b \in FreeBlocks, c \in Returned(n) :
                 /\ NewBlock(b, HeapBlock(a, c, m))
                 /\ obj' = [obj EXCEPT ![o] = Rep(c, obj[x].neg, n, b, a)]
                 /\ Ok(name, o, x)

\* copy_limbs_from(x) into a fresh object o with allocator a, as call `name`
CopyLimbsFrom(name, o, x, a) ==
  LET n == obj[x].count
  IN  \/ /\ n <= InplaceCapacity
         /\ obj' = [obj EXCEPT ![o] =
                      Rep(0, obj[x].neg, n, Copied(LimbsAt(x), n, InplaceCapacity), a)]
         /\ HeapUnchanged
         /\ Ok(name, o, x)
      \/ /\ n > InplaceCapacity
         /\ \/ Fails(name, o, x, AllocationFailure(n))
            \/ \E b \in FreeBlocks, c \in Returned(n) :
                 /\ NewBlock(b, HeapBlock(a, c, Copied(LimbsAt(x), n, c)))
                 /\ obj' = [obj EXCEPT ![o] = Rep(c, obj[x].neg, n, b, a)]
                 /\ Ok(name, o, x)

\* allocator-extended copy constructor
CopyConstructWith(o, x, a) ==
  /\ Running /\ ~Alive(o) /\ Alive(x)
  /\ CopyLimbsFrom("copy_construct", o, x, a)

\* copy constructor: delegates with the allocator selected for the copy
CopyConstruct(o, x) ==
  /\ Running /\ ~Alive(o) /\ Alive(x)
  /\ CopyLimbsFrom("copy_construct", o, x, Selected[obj[x].alloc])

\* Mutants: the source keeps its pointer; it keeps its capacity too; it keeps its sign
TakenFromPointerLeft(x) == Rep(0, FALSE, 1, obj[x].storage, obj[x].alloc)
TakenFromUntouched(x) == obj[x]
TakenFromSignLeft(x) == Rep(0, obj[x].neg, 1, Zero, obj[x].alloc)

\* what is left of an object whose buffer was taken: in-place zero
TakenFrom(x) == Rep(0, FALSE, 1, Zero, obj[x].alloc)

\* o takes the buffer of x and has allocator a
TakeOver(name, o, x, a) ==
  /\ obj' = [obj EXCEPT ![o] = Rep(obj[x].capacity, obj[x].neg, obj[x].count, obj[x].storage, a),
                        ![x] = TakenFrom(x)]
  /\ Ok(name, o, x)

\* move constructor: in-place limbs are copied and x keeps its value
MoveConstruct(o, x) ==
  /\ Running /\ ~Alive(o) /\ Alive(x)
  /\ HeapUnchanged
  /\ IF Inplace(x)
       THEN obj' = [obj EXCEPT ![o] = obj[x]] /\ Ok("move_construct", o, x)
       ELSE TakeOver("move_construct", o, x, obj[x].alloc)

\* allocator-extended move constructor
MoveConstructWith(o, x, a) ==
  /\ Running /\ ~Alive(o) /\ Alive(x)
  /\ \/ /\ Inplace(x) \/ ~SameAllocator(a, obj[x].alloc)
        /\ CopyLimbsFrom("move_construct", o, x, a)
     \/ /\ ~Inplace(x) /\ SameAllocator(a, obj[x].alloc)
        /\ TakeOver("move_construct", o, x, a)
        /\ HeapUnchanged

(***************************************************************************)
(* Assignment: assign_value.                                               *)
(***************************************************************************)

\* Mutant: the allocator never propagates
PropagatedNever(o, x, propagate) == obj[o].alloc

\* the allocator of o after an assignment from x
Propagated(o, x, propagate) == IF propagate THEN obj[x].alloc ELSE obj[o].alloc

\* Mutant: a buffer of the old allocator survives the change to one that cannot free it
KeepsBufferAlways(o, x, propagate) == TRUE

\* the buffer of o need not be given back before its allocator is replaced
KeepsBuffer(o, x, propagate) ==
  \/ ~propagate \/ AlwaysEqual
  \/ Inplace(o) \/ SameAllocator(obj[o].alloc, obj[x].alloc)

\* Mutant: the sign of the source is forgotten
AssignInBufferUnsigned(name, o, x, propagate) ==
  LET n    == obj[x].count
      copy == Copied(LimbsAt(x), n, EffectiveCapacity(o))
      held == IF Inplace(o) THEN copy ELSE obj[o].storage
  IN  /\ obj' = [obj EXCEPT ![o] =
                   Rep(obj[o].capacity, obj[o].neg, n, held, Propagated(o, x, propagate))]
      /\ WriteLimbs(o, copy)
      /\ Ok(name, o, x)

\* the current buffer is big enough
AssignInBuffer(name, o, x, propagate) ==
  LET n    == obj[x].count
      copy == Copied(LimbsAt(x), n, EffectiveCapacity(o))
      held == IF Inplace(o) THEN copy ELSE obj[o].storage
  IN  /\ obj' = [obj EXCEPT ![o] =
                   Rep(obj[o].capacity, obj[x].neg, n, held, Propagated(o, x, propagate))]
      /\ WriteLimbs(o, copy)
      /\ Ok(name, o, x)

\* x is in place: release the buffer of o and copy all in-place limbs
AssignInplace(name, o, x, propagate) ==
  /\ FreeStorage(o)
  /\ obj' = [obj EXCEPT ![o] = Rep(0, obj[x].neg, obj[x].count, obj[x].storage,
                                   Propagated(o, x, propagate))]
  /\ Ok(name, o, x)

\* Mutants: the old block is released before the new one is secured; m_capacity records
\* the limbs asked for, not the limbs returned
AssignFreshAfterFree(name, o, x, propagate, failure) ==
  /\ Called(name, o, x, failure)
  /\ FreeStorage(o)
  /\ obj' = [obj EXCEPT ![o] = TakenFrom(o)]
AssignFreshAsAsked(name, o, x, propagate, failure) ==
  LET n == obj[x].count
      a == Propagated(o, x, propagate)
  IN  \/ Fails(name, o, x, failure)
      \/ \E b \in FreeBlocks, c \in Returned(n) :
           /\ ReplaceStorage(o, b, HeapBlock(a, c, Copied(LimbsAt(x), n, c)))
           /\ obj' = [obj EXCEPT ![o] = Rep(n, obj[x].neg, n, b, a)]
           /\ Ok(name, o, x)

\* a fresh block of exactly the limbs x uses, secured before the old one is released
AssignFresh(name, o, x, propagate, failure) ==
  LET n == obj[x].count
      a == Propagated(o, x, propagate)
  IN  \/ Fails(name, o, x, failure)
      \/ \E b \in FreeBlocks, c \in Returned(n) :
           /\ ReplaceStorage(o, b, HeapBlock(a, c, Copied(LimbsAt(x), n, c)))
           /\ obj' = [obj EXCEPT ![o] = Rep(c, obj[x].neg, n, b, a)]
           /\ Ok(name, o, x)

\* the part of assign_value that copies; failure is what a throw becomes
AssignByCopy(name, o, x, propagate, failure) ==
  LET n    == obj[x].count
      fits == KeepsBuffer(o, x, propagate) /\ n <= EffectiveCapacity(o)
  IN  \/ fits /\ AssignInBuffer(name, o, x, propagate)
      \/ /\ ~fits /\ Inplace(x) /\ n <= InplaceCapacity
         /\ AssignInplace(name, o, x, propagate)
      \/ /\ ~fits /\ ~(Inplace(x) /\ n <= InplaceCapacity)
         /\ AssignFresh(name, o, x, propagate, failure)

SelfAssign(name, o) == Ok(name, o, o) /\ UNCHANGED <<obj, block, misuse>>

\* operator=(const basic_big_int&)
CopyAssign(o, x) ==
  /\ Running /\ Alive(o) /\ Alive(x)
  /\ IF o = x
       THEN SelfAssign("copy_assign", o)
       ELSE AssignByCopy("copy_assign", o, x, POCCA, AllocationFailure(obj[x].count))

\* Mutants: a buffer is stolen although our allocator cannot free it; it is stolen only
\* when the trait says so at compile time
StealsAlways(o, x) == ~Inplace(x)
StealsByTrait(o, x) == ~Inplace(x) /\ POCMA

\* a heap source is stolen whenever our allocator can free its buffer
Steals(o, x) ==
  ~Inplace(x) /\ (POCMA \/ SameAllocator(obj[o].alloc, obj[x].alloc))

\* Mutant: no test for self-assignment
MoveAssignUnguarded(o, x) ==
  /\ Running /\ Alive(o) /\ Alive(x)
  /\ \/ /\ Steals(o, x)
        /\ FreeStorage(o)
        /\ TakeOver("move_assign", o, x, Propagated(o, x, POCMA))
     \/ /\ ~Steals(o, x)
        /\ AssignByCopy("move_assign", o, x, POCMA, "terminated")

\* operator=(basic_big_int&&), which is noexcept: a throw terminates
MoveAssign(o, x) ==
  /\ Running /\ Alive(o) /\ Alive(x)
  /\ \/ o = x /\ SelfAssign("move_assign", o)
     \/ /\ o # x /\ Steals(o, x)
        /\ FreeStorage(o)
        /\ TakeOver("move_assign", o, x, Propagated(o, x, POCMA))
     \/ /\ o # x /\ ~Steals(o, x)
        /\ AssignByCopy("move_assign", o, x, POCMA, "terminated")

\* swap. Unless the allocators are swapped too they must compare equal.
Swap(o, x) ==
  LET Exchanged(p, q) ==
        [obj[q] EXCEPT !.alloc = IF POCS THEN obj[q].alloc ELSE obj[p].alloc]
  IN  /\ Running /\ Alive(o) /\ Alive(x)
      /\ POCS \/ SameAllocator(obj[o].alloc, obj[x].alloc)
      /\ obj' = [obj EXCEPT ![o] = Exchanged(o, x), ![x] = Exchanged(x, o)]
      /\ HeapUnchanged
      /\ Ok("swap", o, x)

(***************************************************************************)
(* Capacity and integer assignment.                                        *)
(***************************************************************************)

\* grow(n) past the current capacity: the new block, holding `limbs`, is secured before
\* the old one is released; o ends up with the given sign and limb count
GrowPast(name, o, arg, n, neg, count, limbs) ==
  \/ Fails(name, o, arg, AllocationFailure(n))
  \/ /\ n <= MaxLimbs
     /\ \E b \in FreeBlocks, c \in Returned(GrownCapacity(o, n)) :
          /\ ReplaceStorage(o, b, HeapBlock(obj[o].alloc, c, limbs))
          /\ obj' = [obj EXCEPT ![o] = Rep(c, neg, count, b, obj[o].alloc)]
          /\ Ok(name, o, arg)

\* reserve and reserve_representation: grow, which copies the limbs the count covers
Reserve(o, n) ==
  /\ Running /\ Alive(o)
  /\ \/ /\ n <= EffectiveCapacity(o)
        /\ UNCHANGED <<obj, block, misuse>>
        /\ Ok("reserve", o, Absent)
     \/ /\ n > EffectiveCapacity(o)
        /\ GrowPast("reserve", o, Absent, n, obj[o].neg, obj[o].count,
                    Copied(LimbsAt(o), obj[o].count, GrownCapacity(o, n)))

\* operator=(T&&) from an integer type of w limbs, or from a big integer of another
\* specialization (w its limb count): grow(w) first, then the value is written
AssignInteger(o, v, w) ==
  LET n == LimbsOf[v.mag]
  IN  /\ Running /\ Alive(o) /\ n <= w
      /\ \/ /\ w <= EffectiveCapacity(o)
            /\ obj' = [obj EXCEPT ![o] = Rep(obj[o].capacity, v.neg, n,
                          IF Inplace(o) THEN v.mag ELSE obj[o].storage, obj[o].alloc)]
            /\ WriteLimbs(o, v.mag)
            /\ Ok("assign_integer", o, v)
         \/ /\ w > EffectiveCapacity(o)
            /\ GrowPast("assign_integer", o, v, w, v.neg, n, v.mag)

\* shrink_to_fit
ShrinkToFit(o) ==
  LET n   == obj[o].count
      old == obj[o]
  IN  /\ Running /\ Alive(o)
      /\ \/ /\ Inplace(o) \/ old.capacity <= n
            /\ UNCHANGED <<obj, block, misuse>>
            /\ Ok("shrink_to_fit", o, Absent)
         \/ /\ ~Inplace(o) /\ old.capacity > n /\ n <= InplaceCapacity
            /\ obj' = [obj EXCEPT ![o] =
                         Rep(0, old.neg, n, Copied(LimbsAt(o), n, InplaceCapacity), old.alloc)]
            /\ FreeStorage(o)
            /\ Ok("shrink_to_fit", o, Absent)
         \/ /\ ~Inplace(o) /\ old.capacity > n /\ n > InplaceCapacity
            /\ \/ Fails("shrink_to_fit", o, Absent, AllocationFailure(n))
               \/ \E b \in FreeBlocks, c \in Returned(n) :
                    /\ ReplaceStorage(o, b, HeapBlock(old.alloc, c, Copied(LimbsAt(o), n, c)))
                    /\ obj' = [obj EXCEPT ![o] = Rep(c, old.neg, n, b, old.alloc)]
                    /\ Ok("shrink_to_fit", o, Absent)

\* ~basic_big_int
Destroy(o) ==
  /\ Running /\ Alive(o)
  /\ FreeStorage(o)
  /\ obj' = [obj EXCEPT ![o] = Dead]
  /\ Ok("destroy", o, Absent)

(***************************************************************************)
(* The specification.                                                      *)
(***************************************************************************)

Init ==
  /\ obj = [o \in Objects |-> Dead]
  /\ block = [b \in Blocks |-> FreeBlock]
  /\ misuse = FALSE
  /\ call = [name |-> "none", target |-> Absent, arg |-> Absent, outcome |-> "ok"]

ConstructStep ==
  \E o \in Objects, a \in Allocators :
    \/ \E v \in Values, w \in 1 .. MaxWidth :
         Construct(o, a, v, w) \/ ConstructFromLimbs(o, a, v, w)
    \/ \E x \in Objects : CopyConstructWith(o, x, a) \/ MoveConstructWith(o, x, a)

AssignStep ==
  \E o, x \in Objects :
    \/ CopyConstruct(o, x)
    \/ MoveConstruct(o, x)
    \/ CopyAssign(o, x)
    \/ MoveAssign(o, x)
    \/ Swap(o, x)

UnaryStep ==
  \E o \in Objects :
    \/ \E v \in Values, w \in 1 .. MaxWidth : AssignInteger(o, v, w)
    \/ \E n \in 0 .. MaxLimbs + 1 : Reserve(o, n)
    \/ ShrinkToFit(o)
    \/ Destroy(o)

Next == ConstructStep \/ AssignStep \/ UnaryStep

Spec == Init /\ [][Next]_vars

(***************************************************************************)
(* Properties.                                                             *)
(***************************************************************************)

\* limb counts a block may have, which m_capacity has to hold
BlockCounts == 1 .. MaxLimbs + Surplus

ObjectReps ==
  [capacity : {0} \cup BlockCounts, neg : BOOLEAN, count : 1 .. MaxLimbs,
   storage : Blocks \cup Magnitudes \cup {Junk}, alloc : Allocators \cup {NoAlloc}]

HeapBlocks ==
  [owner : Allocators \cup {NoAlloc}, count : Nat, limbs : Magnitudes \cup {Junk}]

\* Every member has its type, no capacity exceeds max_limbs by more than the allocator's
\* surplus, the union holds a pointer exactly when m_capacity says so, and an object
\* outside its lifetime holds nothing.
TypeOK ==
  /\ obj \in [Objects -> ObjectReps]
  /\ block \in [Blocks -> HeapBlocks]
  /\ misuse \in BOOLEAN
  /\ \A o \in Objects : Inplace(o) <=> obj[o].storage \notin Blocks
  /\ \A o \in Objects : ~Alive(o) => Inplace(o)

\* The block of every heap object is live, has the size m_capacity records, and came
\* from an allocator that compares equal to the one the object will free it with.
Owned ==
  \A o \in Objects : ~Inplace(o) =>
    FreeLegal(obj[o].alloc, obj[o].storage, obj[o].capacity)

\* No two objects share a block: moves and swaps hand a buffer over, never copy the pointer.
Exclusive ==
  \A o, x \in Objects :
    ~Inplace(o) /\ ~Inplace(x) /\ o # x => obj[o].storage # obj[x].storage

\* Every live block belongs to an object: no call leaks its old or its new buffer, whether
\* it returns or throws.
NoLeak ==
  \A b \in Blocks : Live(b) => \E o \in Objects : ~Inplace(o) /\ obj[o].storage = b

Ownership == Owned /\ Exclusive /\ NoLeak

\* No deallocate was ever given a dead block, a wrong size, or an allocator that compares
\* unequal to the one that allocated, not even in the middle of a call.
NoMisuse == ~misuse

\* Every live object holds a whole magnitude, its count is the trimmed limb count and lies
\* within the capacity, and zero is never negative.
Canonical ==
  \A o \in Objects : Alive(o) =>
    /\ LimbsAt(o) \in Magnitudes
    /\ obj[o].count = LimbsOf[LimbsAt(o)]
    /\ obj[o].neg => LimbsAt(o) # Zero
    /\ obj[o].count <= EffectiveCapacity(o)

\* A call that does not return normally leaves every object and every block exactly as
\* it was, capacities and allocators included (strong guarantee).
FailureChangesNothing ==
  [][call'.outcome # "ok" => UNCHANGED <<obj, block>>]_vars

\* Move assignment, which is noexcept, ends the program only in the case its comment
\* names: a heap source whose buffer may not be taken and does not fit.
MoveAssignTerminatesRarely ==
  [][call'.name = "move_assign" /\ call'.outcome # "ok" =>
       LET o == call'.target
           x == call'.arg
       IN  /\ ~Inplace(x) /\ ~POCMA
           /\ ~SameAllocator(obj[o].alloc, obj[x].alloc)
           /\ obj[x].count > EffectiveCapacity(o)]_vars

\* The allocator of an object is replaced by that of the other operand exactly when the
\* propagation trait of the operation says so: a moved-from, stolen-from or grown object
\* keeps its own, and a failed call replaces none.
AllocatorPropagation ==
  [][LET propagates == /\ call'.outcome = "ok"
                       /\ \/ call'.name = "copy_assign" /\ POCCA
                          \/ call'.name = "move_assign" /\ POCMA
                          \/ call'.name = "swap" /\ POCS
         Partner(o) == IF o = call'.target THEN call'.arg
                       ELSE IF call'.name = "swap" /\ o = call'.arg THEN call'.target
                       ELSE o
     IN  \A o \in Objects : Alive(o) /\ Alive(o)' =>
           obj'[o].alloc = IF propagates THEN obj[Partner(o)].alloc ELSE obj[o].alloc]_vars

\* A value that fits in place never fails to be constructed, copied or moved from, however
\* large the storage of the source.
SmallConstructionSucceeds ==
  [][/\ call'.name \in {"construct", "copy_construct", "move_construct"}
     /\ InplaceCapacity >= IF call'.name = "construct" THEN LimbsOf[call'.arg.mag]
                                                       ELSE obj[call'.arg].count
     => call'.outcome = "ok"]_vars

(***************************************************************************)
(* What BigIntStorage implements.                                          *)
(***************************************************************************)

V == INSTANCE BigIntValue WITH
       ZeroValue <- Value(FALSE, Zero),
       value     <- [o \in Objects |-> IF Alive(o) THEN ValueOf(o) ELSE Absent]

\* Whatever the storage does, callers see values only: copies and moves deliver the value
\* of their source, swaps exchange, reserve and shrink_to_fit preserve, failures preserve.
ImplementsValues == V!Spec

(***************************************************************************)
(* Claims of the documentation that the code does not keep (see README).   *)
(***************************************************************************)

\* representation_capacity is the number of limbs that can be held without allocating.
RepresentationCapacityHolds ==
  \A o \in Objects : Alive(o) => RepresentationCapacity(o) <= EffectiveCapacity(o)

\* A converting constructor that cannot get storage throws; it does not end the program.
ConstructionThrows ==
  [][call'.name = "construct" => call'.outcome # "terminated"]_vars
==============================================================================
