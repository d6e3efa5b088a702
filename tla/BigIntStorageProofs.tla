------------------------- MODULE BigIntStorageProofs -------------------------
(***************************************************************************)
(* Proofs about BigIntStorage, for every number of objects, allocators,    *)
(* addresses and magnitudes, every in-place capacity and limit, and every  *)
(* combination of propagation traits.                                      *)
(*                                                                         *)
(* Every call changes the heap in one of five ways (it replaces, releases, *)
(* rewrites, hands over or swaps storage); one lemma per way shows that it *)
(* keeps the invariant, and each action is reduced to those lemmas.        *)
(***************************************************************************)

EXTENDS BigIntStorage, TLAPS

(* Ownership is inductive together with the types and the absence of       *)
(* illegal deallocations: what the next deallocate is given is what the    *)
(* ownership of the state before it says.                                  *)
Inv == TypeOK /\ Ownership /\ NoMisuse

Limbs == Magnitudes \cup {Junk}

(* The initial state, with every object dead and every address free, satisfies Inv. *)
LEMMA InitInv == Init => Inv
<1> SUFFICES ASSUME Init PROVE Inv
  OBVIOUS
<1>1. Dead \in ObjectReps /\ FreeBlock \in HeapBlocks /\ Zero \notin Blocks
  BY StorageAssumption DEF Dead, Rep, ObjectReps, FreeBlock, HeapBlock, HeapBlocks
<1>2. /\ \A o \in Objects : obj[o] = Dead /\ Inplace(o) /\ obj[o].storage = Zero
      /\ \A b \in Blocks : ~Live(b)
  BY DEF Init, Inplace, Live, Dead, Rep, FreeBlock, HeapBlock
<1>3. TypeOK
  BY <1>1, <1>2 DEF Init, TypeOK
<1>4. QED
  BY <1>2, <1>3 DEF Init, Inv, Ownership, Owned, Exclusive, NoLeak, NoMisuse

(* No block is empty, so the capacity of a heap object is never mistaken for "in place". *)
LEMMA BlockCountsPositive == \A c \in BlockCounts : c \in Nat /\ c # 0
  BY StorageAssumption DEF BlockCounts

(* A call that fails, or a self-assignment, changes nothing the invariant is about. *)
LEMMA UnchangedKeepsInv ==
  Inv /\ UNCHANGED <<obj, block, misuse>> => Inv'
  BY DEF Inv, TypeOK, Ownership, Owned, Exclusive, NoLeak, NoMisuse, Inplace, Alive, Live,
         FreeLegal, SameAllocator

(* Securing a new block for o and then freeing its old one (the slow path of assign_value, *)
(* grow, shrink_to_fit, and the constructors, whose object has no old block).              *)
LEMMA ReplaceKeepsInv ==
  ASSUME Inv,
         NEW o \in Objects, NEW b \in FreeBlocks, NEW c \in BlockCounts, NEW a \in Allocators,
         NEW m \in Limbs, NEW neg \in BOOLEAN, NEW n \in 1 .. MaxLimbs,
         ReplaceStorage(o, b, HeapBlock(a, c, m)),
         obj' = [obj EXCEPT ![o] = Rep(c, neg, n, b, a)]
  PROVE  Inv'
<1> DEFINE old == obj[o].storage
<1>1. /\ b \in Blocks /\ ~Live(b) /\ TypeOK /\ Owned /\ Exclusive /\ NoLeak /\ ~misuse
      /\ a # NoAlloc /\ b \notin Limbs /\ c \in Nat /\ c # 0
  BY StorageAssumption, BlockCountsPositive DEF Inv, FreeBlocks, Ownership, NoMisuse, Limbs
<1>2. /\ obj'[o] = Rep(c, neg, n, b, a)
      /\ \A x \in Objects \ {o} : obj'[x] = obj[x]
      /\ obj' \in [Objects -> ObjectReps]
  BY <1>1 DEF TypeOK, ObjectReps, Rep
<1>3. /\ ~misuse' /\ misuse' \in BOOLEAN
      /\ block' = [block EXCEPT ![b] = HeapBlock(a, c, m)]
         \/ /\ ~Inplace(o) /\ old \in Blocks /\ old # b
            /\ block' = [block EXCEPT ![b] = HeapBlock(a, c, m), ![old] = FreeBlock]
      /\ Inplace(o) => block' = [block EXCEPT ![b] = HeapBlock(a, c, m)]
  BY <1>1 DEF ReplaceStorage, NewBlock, Owned, FreeLegal, TypeOK
<1>4. /\ block'[b] = HeapBlock(a, c, m)
      /\ \A d \in Blocks \ {b} :
           block'[d] = IF ~Inplace(o) /\ d = old THEN FreeBlock ELSE block[d]
      /\ block' \in [Blocks -> HeapBlocks]
  <2>1. HeapBlock(a, c, m) \in HeapBlocks /\ FreeBlock \in HeapBlocks
    BY <1>1 DEF HeapBlock, FreeBlock, HeapBlocks, Limbs
  <2>2. block \in [Blocks -> HeapBlocks]
    BY <1>1 DEF TypeOK
  <2>3. CASE Inplace(o)
    BY <1>1, <1>3, <2>1, <2>2, <2>3
  <2>4. CASE ~Inplace(o)
    <3>1. /\ old \in Blocks /\ old # b
          /\ block' = [block EXCEPT ![b] = HeapBlock(a, c, m), ![old] = FreeBlock]
      BY <1>1, <2>4 DEF ReplaceStorage, Owned, FreeLegal, TypeOK
    <3>2. QED
      BY <1>1, <2>1, <2>2, <2>4, <3>1
  <2>5. QED
    BY <2>3, <2>4
<1>5. TypeOK'
  <2>1. \A x \in Objects : Inplace(x)' <=> obj'[x].storage \notin Blocks
    BY <1>1, <1>2 DEF TypeOK, Inplace, Rep
  <2>2. \A x \in Objects : ~Alive(x)' => Inplace(x)'
    BY <1>1, <1>2 DEF TypeOK, Inplace, Alive, Rep
  <2>3. QED
    BY <1>2, <1>3, <1>4, <2>1, <2>2 DEF TypeOK
<1>6. Owned'
  <2>1. SUFFICES ASSUME NEW x \in Objects, ~Inplace(x)'
                 PROVE  FreeLegal(obj[x].alloc, obj[x].storage, obj[x].capacity)'
    BY DEF Owned
  <2>2. CASE x = o
    BY <1>1, <1>2, <1>4, <2>2 DEF FreeLegal, Live, SameAllocator, HeapBlock, Rep
  <2>3. CASE x # o
    <3>1. /\ obj'[x] = obj[x] /\ ~Inplace(x)
          /\ FreeLegal(obj[x].alloc, obj[x].storage, obj[x].capacity)
          /\ obj[x].storage \in Blocks
      BY <1>1, <1>2, <2>1, <2>3 DEF Inplace, Owned, TypeOK
    <3>2. obj[x].storage # b /\ (~Inplace(o) => obj[x].storage # old)
      BY <1>1, <2>3, <3>1 DEF FreeLegal, Exclusive
    <3>3. block'[obj[x].storage] = block[obj[x].storage]
      BY <1>4, <3>1, <3>2
    <3>4. QED
      BY <3>1, <3>3 DEF FreeLegal, Live, SameAllocator
  <2>4. QED
    BY <2>2, <2>3
<1>7. Exclusive'
  <2>1. \A x \in Objects \ {o} : ~Inplace(x) => obj[x].storage # b
    BY <1>1 DEF Owned, FreeLegal
  <2>2. QED
    BY <1>1, <1>2, <2>1 DEF Exclusive, Inplace, Rep
<1>8. NoLeak'
  <2>1. SUFFICES ASSUME NEW d \in Blocks, Live(d)'
                 PROVE  \E x \in Objects : ~Inplace(x)' /\ obj'[x].storage = d
    BY DEF NoLeak
  <2>2. CASE d = b
    BY <1>1, <1>2, <2>2 DEF Inplace, Rep
  <2>3. CASE d # b
    <3>1. Live(d) /\ (~Inplace(o) => d # old)
      BY <1>4, <2>1, <2>3 DEF Live, FreeBlock, HeapBlock
    <3>2. PICK x \in Objects : ~Inplace(x) /\ obj[x].storage = d
      BY <1>1, <3>1 DEF NoLeak
    <3>3. x # o
      BY <3>1, <3>2
    <3>4. QED
      BY <1>2, <3>2, <3>3 DEF Inplace
  <2>4. QED
    BY <2>2, <2>3
<1>9. QED
  BY <1>3, <1>5, <1>6, <1>7, <1>8 DEF Inv, Ownership, NoMisuse

(* Writing limbs into the storage o already has, perhaps under an equal allocator (the  *)
(* fast path of assign_value, and integer assignment within the capacity).              *)
LEMMA RewriteKeepsInv ==
  ASSUME Inv,
         NEW o \in Objects, NEW a \in Allocators, NEW m \in Limbs, NEW neg \in BOOLEAN,
         NEW n \in 1 .. MaxLimbs,
         Inplace(o) \/ SameAllocator(obj[o].alloc, a),
         WriteLimbs(o, m),
         obj' = [obj EXCEPT ![o] = Rep(obj[o].capacity, neg, n,
                                       IF Inplace(o) THEN m ELSE obj[o].storage, a)]
  PROVE  Inv'
<1> DEFINE old == obj[o].storage
<1>1. /\ TypeOK /\ Owned /\ Exclusive /\ NoLeak /\ ~misuse /\ a # NoAlloc
      /\ m \notin Blocks /\ obj[o].capacity \in Nat
      /\ obj[o].storage \in Blocks \cup Magnitudes \cup {Junk}
  BY StorageAssumption, BlockCountsPositive DEF Inv, Ownership, NoMisuse, Limbs, TypeOK, ObjectReps
<1>2. /\ obj'[o].capacity = obj[o].capacity /\ obj'[o].alloc = a
      /\ obj'[o].storage = IF Inplace(o) THEN m ELSE old
      /\ \A x \in Objects \ {o} : obj'[x] = obj[x]
      /\ obj' \in [Objects -> ObjectReps]
  BY <1>1 DEF TypeOK, ObjectReps, Rep, Limbs
<1>3. misuse' = misuse
  BY DEF WriteLimbs, HeapUnchanged, NewBlock
<1>4. /\ \A b \in Blocks : block'[b].owner = block[b].owner /\ block'[b].count = block[b].count
      /\ block' \in [Blocks -> HeapBlocks]
  <2>1. CASE Inplace(o)
    BY <1>1, <2>1 DEF WriteLimbs, HeapUnchanged, TypeOK
  <2>2. CASE ~Inplace(o)
    <3>1. /\ old \in Blocks
          /\ block' = [block EXCEPT ![old] = [block[old] EXCEPT !.limbs = m]]
      BY <1>1, <2>2 DEF WriteLimbs, NewBlock, TypeOK
    <3>2. QED
      BY <1>1, <3>1 DEF TypeOK, HeapBlocks, Limbs
  <2>3. QED
    BY <2>1, <2>2
<1>5. \A x \in Objects : /\ Inplace(x)' <=> Inplace(x)
                         /\ ~Inplace(x) => obj'[x].storage = obj[x].storage
  BY <1>2 DEF Inplace
<1>6. TypeOK'
  <2>1. \A x \in Objects : Inplace(x)' <=> obj'[x].storage \notin Blocks
    BY <1>1, <1>2, <1>5 DEF TypeOK
  <2>2. \A x \in Objects : ~Alive(x)' => Inplace(x)'
    BY <1>1, <1>2, <1>5 DEF TypeOK, Alive
  <2>3. misuse' \in BOOLEAN
    BY <1>1, <1>3 DEF TypeOK
  <2>4. QED
    BY <1>2, <1>4, <2>1, <2>2, <2>3 DEF TypeOK
<1>7. Owned'
  <2>1. SUFFICES ASSUME NEW x \in Objects, ~Inplace(x)'
                 PROVE  FreeLegal(obj[x].alloc, obj[x].storage, obj[x].capacity)'
    BY DEF Owned
  <2>2. /\ ~Inplace(x) /\ obj[x].storage \in Blocks /\ obj'[x].storage = obj[x].storage
        /\ FreeLegal(obj[x].alloc, obj[x].storage, obj[x].capacity)
    BY <1>1, <1>5, <2>1 DEF Owned, TypeOK
  <2>3. obj'[x].capacity = obj[x].capacity /\ SameAllocator(obj[x].alloc, obj'[x].alloc)
    BY <1>2, <2>2 DEF SameAllocator
  <2>4. QED
    BY <1>4, <2>2, <2>3 DEF FreeLegal, Live, SameAllocator
<1>8. Exclusive'
  BY <1>1, <1>5 DEF Exclusive
<1>9. NoLeak'
  <2>1. SUFFICES ASSUME NEW d \in Blocks, Live(d)'
                 PROVE  \E x \in Objects : ~Inplace(x)' /\ obj'[x].storage = d
    BY DEF NoLeak
  <2>2. PICK x \in Objects : ~Inplace(x) /\ obj[x].storage = d
    BY <1>1, <1>4, <2>1 DEF NoLeak, Live
  <2>3. QED
    BY <1>5, <2>2
<1>10. QED
  BY <1>1, <1>3, <1>6, <1>7, <1>8, <1>9 DEF Inv, Ownership, NoMisuse

(* Releasing the storage of o, which ends in place or dead (the slow in-place path of *)
(* assign_value, shrink_to_fit into place, in-place construction, the destructor).    *)
LEMMA ReleaseKeepsInv ==
  ASSUME Inv,
         NEW o \in Objects, NEW a \in Allocators \cup {NoAlloc}, NEW m \in Limbs,
         NEW neg \in BOOLEAN, NEW n \in 1 .. MaxLimbs,
         FreeStorage(o),
         obj' = [obj EXCEPT ![o] = Rep(0, neg, n, m, a)]
  PROVE  Inv'
<1> DEFINE old == obj[o].storage
<1>1. /\ TypeOK /\ Owned /\ Exclusive /\ NoLeak /\ ~misuse /\ m \notin Blocks
  BY StorageAssumption DEF Inv, Ownership, NoMisuse, Limbs
<1>2. /\ obj'[o] = Rep(0, neg, n, m, a)
      /\ \A x \in Objects \ {o} : obj'[x] = obj[x]
      /\ obj' \in [Objects -> ObjectReps]
  BY <1>1 DEF TypeOK, ObjectReps, Rep, Limbs
<1>3. ~misuse' /\ misuse' \in BOOLEAN
  BY <1>1 DEF FreeStorage, HeapUnchanged, Owned, TypeOK
<1>4. /\ \A d \in Blocks : block'[d] = IF ~Inplace(o) /\ d = old THEN FreeBlock ELSE block[d]
      /\ block' \in [Blocks -> HeapBlocks]
  BY <1>1 DEF FreeStorage, HeapUnchanged, TypeOK, HeapBlocks, FreeBlock, HeapBlock
<1>5. Inplace(o)' /\ \A x \in Objects \ {o} : Inplace(x)' <=> Inplace(x)
  BY <1>2 DEF Inplace, Rep
<1>6. TypeOK'
  <2>1. \A x \in Objects : Inplace(x)' <=> obj'[x].storage \notin Blocks
    BY <1>1, <1>2, <1>5 DEF TypeOK, Rep
  <2>2. \A x \in Objects : ~Alive(x)' => Inplace(x)'
    BY <1>1, <1>2, <1>5 DEF TypeOK, Alive
  <2>3. QED
    BY <1>2, <1>3, <1>4, <2>1, <2>2 DEF TypeOK
<1>7. Owned'
  <2>1. SUFFICES ASSUME NEW x \in Objects, ~Inplace(x)'
                 PROVE  FreeLegal(obj[x].alloc, obj[x].storage, obj[x].capacity)'
    BY DEF Owned
  <2>2. x # o /\ obj'[x] = obj[x] /\ ~Inplace(x) /\ obj[x].storage \in Blocks
    BY <1>1, <1>2, <1>5, <2>1 DEF TypeOK
  <2>3. block'[obj[x].storage] = block[obj[x].storage]
    BY <1>1, <1>4, <2>2 DEF Exclusive
  <2>4. QED
    BY <1>1, <2>2, <2>3 DEF Owned, FreeLegal, Live, SameAllocator
<1>8. Exclusive'
  BY <1>1, <1>2, <1>5 DEF Exclusive
<1>9. NoLeak'
  <2>1. SUFFICES ASSUME NEW d \in Blocks, Live(d)'
                 PROVE  \E x \in Objects : ~Inplace(x)' /\ obj'[x].storage = d
    BY DEF NoLeak
  <2>2. Live(d) /\ (~Inplace(o) => d # old)
    BY <1>4, <2>1 DEF Live, FreeBlock, HeapBlock
  <2>3. PICK x \in Objects : ~Inplace(x) /\ obj[x].storage = d
    BY <1>1, <2>2 DEF NoLeak
  <2>4. x # o
    BY <2>2, <2>3
  <2>5. QED
    BY <1>2, <1>5, <2>3, <2>4
<1>10. QED
  BY <1>3, <1>6, <1>7, <1>8, <1>9 DEF Inv, Ownership, NoMisuse

(* o releases its storage and takes the buffer of x, which its allocator a can free; x  *)
(* is left in place (move construction, and the stealing branch of assign_value).       *)
LEMMA HandOverKeepsInv ==
  ASSUME Inv,
         NEW o \in Objects, NEW x \in Objects, o # x, NEW a \in Allocators,
         ~Inplace(x), SameAllocator(obj[x].alloc, a),
         FreeStorage(o),
         obj' = [obj EXCEPT ![o] = Rep(obj[x].capacity, obj[x].neg, obj[x].count,
                                       obj[x].storage, a),
                            ![x] = TakenFrom(x)]
  PROVE  Inv'
<1> DEFINE old == obj[o].storage
<1>1. /\ TypeOK /\ Owned /\ Exclusive /\ NoLeak /\ ~misuse /\ Zero \notin Blocks
      /\ obj[x] \in ObjectReps /\ 1 \in 1 .. MaxLimbs /\ a # NoAlloc /\ Alive(x)
      /\ obj[x].storage \in Blocks
  BY StorageAssumption DEF Inv, Ownership, NoMisuse, TypeOK
<1>2. /\ obj'[o] = Rep(obj[x].capacity, obj[x].neg, obj[x].count, obj[x].storage, a)
      /\ obj'[x] = Rep(0, FALSE, 1, Zero, obj[x].alloc)
      /\ \A y \in Objects \ {o, x} : obj'[y] = obj[y]
      /\ obj' \in [Objects -> ObjectReps]
  BY <1>1, StorageAssumption DEF TypeOK, ObjectReps, Rep, TakenFrom
<1>3. ~misuse' /\ misuse' \in BOOLEAN
  BY <1>1 DEF FreeStorage, HeapUnchanged, Owned, TypeOK
<1>4. /\ \A d \in Blocks : block'[d] = IF ~Inplace(o) /\ d = old THEN FreeBlock ELSE block[d]
      /\ block' \in [Blocks -> HeapBlocks]
  BY <1>1 DEF FreeStorage, HeapUnchanged, TypeOK, HeapBlocks, FreeBlock, HeapBlock
<1>5. /\ ~Inplace(o)' /\ Inplace(x)'
      /\ \A y \in Objects \ {o, x} : Inplace(y)' <=> Inplace(y)
      /\ obj'[o].storage = obj[x].storage
      /\ ~Inplace(o) => obj[x].storage # old
  BY <1>1, <1>2 DEF Inplace, Rep, Exclusive
<1>6. TypeOK'
  <2>1. \A y \in Objects : Inplace(y)' <=> obj'[y].storage \notin Blocks
    BY <1>1, <1>2, <1>5 DEF TypeOK, Rep
  <2>2. \A y \in Objects : ~Alive(y)' => Inplace(y)'
    BY <1>1, <1>2, <1>5 DEF TypeOK, Alive, Rep
  <2>3. QED
    BY <1>2, <1>3, <1>4, <2>1, <2>2 DEF TypeOK
<1>7. Owned'
  <2>1. SUFFICES ASSUME NEW y \in Objects, ~Inplace(y)'
                 PROVE  FreeLegal(obj[y].alloc, obj[y].storage, obj[y].capacity)'
    BY DEF Owned
  <2>2. CASE y = o
    <3>1. block'[obj[x].storage] = block[obj[x].storage]
      BY <1>1, <1>4, <1>5
    <3>2. FreeLegal(obj[x].alloc, obj[x].storage, obj[x].capacity)
      BY <1>1 DEF Owned
    <3>3. QED
      BY <1>2, <2>2, <3>1, <3>2 DEF FreeLegal, Live, SameAllocator, Rep
  <2>3. CASE y # o
    <3>1. y # x /\ obj'[y] = obj[y] /\ ~Inplace(y) /\ obj[y].storage \in Blocks
      BY <1>1, <1>2, <1>5, <2>1, <2>3 DEF TypeOK
    <3>2. block'[obj[y].storage] = block[obj[y].storage]
      BY <1>1, <1>4, <2>3, <3>1 DEF Exclusive
    <3>3. QED
      BY <1>1, <3>1, <3>2 DEF Owned, FreeLegal, Live, SameAllocator
  <2>4. QED
    BY <2>2, <2>3
<1>8. Exclusive'
  <2>1. ASSUME NEW y \in Objects \ {o, x}, ~Inplace(y)'
        PROVE  obj'[y].storage # obj'[o].storage
    <3>1. ~Inplace(y) /\ obj'[y] = obj[y] /\ y \in Objects /\ y # x
      BY <1>2, <1>5, <2>1
    <3>2. obj[y].storage # obj[x].storage
      BY <1>1, <3>1 DEF Exclusive
    <3>3. QED
      BY <1>5, <3>1, <3>2
  <2>2. \A y, z \in Objects \ {o, x} :
          ~Inplace(y)' /\ ~Inplace(z)' /\ y # z => obj'[y].storage # obj'[z].storage
    BY <1>1, <1>2, <1>5 DEF Exclusive
  <2>3. SUFFICES ASSUME NEW y \in Objects, NEW z \in Objects,
                        ~Inplace(y)', ~Inplace(z)', y # z
                 PROVE  obj'[y].storage # obj'[z].storage
    BY DEF Exclusive
  <2>4. y # x /\ z # x
    BY <1>5, <2>3
  <2>5. CASE y = o
    BY <2>1, <2>3, <2>4, <2>5
  <2>6. CASE z = o
    BY <2>1, <2>3, <2>4, <2>6
  <2>7. CASE y # o /\ z # o
    BY <2>2, <2>3, <2>4, <2>7
  <2>8. QED
    BY <2>5, <2>6, <2>7
<1>9. NoLeak'
  <2>1. SUFFICES ASSUME NEW d \in Blocks, Live(d)'
                 PROVE  \E y \in Objects : ~Inplace(y)' /\ obj'[y].storage = d
    BY DEF NoLeak
  <2>2. Live(d) /\ (~Inplace(o) => d # old)
    BY <1>4, <2>1 DEF Live, FreeBlock, HeapBlock
  <2>3. PICK y \in Objects : ~Inplace(y) /\ obj[y].storage = d
    BY <1>1, <2>2 DEF NoLeak
  <2>4. CASE y = x
    BY <1>5, <2>3, <2>4
  <2>5. CASE y # x
    BY <1>2, <1>5, <2>2, <2>3, <2>5
  <2>6. QED
    BY <2>4, <2>5
<1>10. QED
  BY <1>3, <1>6, <1>7, <1>8, <1>9 DEF Inv, Ownership, NoMisuse

(* Swapping storage between two objects whose allocators are swapped too or are equal. *)
LEMMA SwapKeepsInv ==
  ASSUME Inv, NEW o \in Objects, NEW x \in Objects, Swap(o, x)
  PROVE  Inv'
<1> DEFINE Exchanged(p, q) ==
             [obj[q] EXCEPT !.alloc = IF POCS THEN obj[q].alloc ELSE obj[p].alloc]
<1>1. /\ TypeOK /\ Owned /\ Exclusive /\ NoLeak /\ ~misuse
      /\ POCS \/ SameAllocator(obj[o].alloc, obj[x].alloc)
      /\ obj' = [obj EXCEPT ![o] = Exchanged(o, x), ![x] = Exchanged(x, o)]
      /\ block' = block /\ misuse' = misuse /\ Alive(o) /\ Alive(x)
  BY DEF Inv, Ownership, NoMisuse, Swap, HeapUnchanged
<1>2. obj[o] \in ObjectReps /\ obj[x] \in ObjectReps
  BY <1>1 DEF TypeOK
<1> DEFINE Other(y) == IF y = o THEN x ELSE IF y = x THEN o ELSE y
<1>3. \A y \in Objects :
        /\ obj'[y].capacity = obj[Other(y)].capacity
        /\ obj'[y].storage = obj[Other(y)].storage
        /\ Inplace(y)' <=> Inplace(Other(y))
        /\ SameAllocator(obj[Other(y)].alloc, obj'[y].alloc)
        /\ Alive(y)' <=> Alive(Other(y))
        /\ Other(y) \in Objects /\ Other(Other(y)) = y
  BY <1>1, <1>2 DEF TypeOK, ObjectReps, Inplace, SameAllocator, Alive
<1>4. obj' \in [Objects -> ObjectReps]
  BY <1>1, <1>2 DEF TypeOK, ObjectReps
<1>5. TypeOK'
  <2>1. \A y \in Objects : Inplace(y)' <=> obj'[y].storage \notin Blocks
    BY <1>1, <1>3 DEF TypeOK
  <2>2. \A y \in Objects : ~Alive(y)' => Inplace(y)'
    BY <1>1, <1>3 DEF TypeOK
  <2>3. block' \in [Blocks -> HeapBlocks] /\ misuse' \in BOOLEAN
    BY <1>1 DEF TypeOK
  <2>4. QED
    BY <1>4, <2>1, <2>2, <2>3 DEF TypeOK
<1>6. Owned'
  <2>1. SUFFICES ASSUME NEW y \in Objects, ~Inplace(y)'
                 PROVE  FreeLegal(obj[y].alloc, obj[y].storage, obj[y].capacity)'
    BY DEF Owned
  <2>2. ~Inplace(Other(y)) /\ Other(y) \in Objects
    BY <1>3, <2>1
  <2> HIDE DEF Other
  <2>3. FreeLegal(obj[Other(y)].alloc, obj[Other(y)].storage, obj[Other(y)].capacity)
    BY <1>1, <2>2 DEF Owned
  <2>4. QED
    BY <1>1, <1>3, <2>3 DEF FreeLegal, Live, SameAllocator
<1>7. Exclusive'
  <2>1. SUFFICES ASSUME NEW y \in Objects, NEW z \in Objects,
                        ~Inplace(y)', ~Inplace(z)', y # z
                 PROVE  obj'[y].storage # obj'[z].storage
    BY DEF Exclusive
  <2>2. Other(y) # Other(z)
    BY <1>3, <2>1
  <2>3. /\ ~Inplace(Other(y)) /\ ~Inplace(Other(z))
        /\ Other(y) \in Objects /\ Other(z) \in Objects
    BY <1>3, <2>1
  <2>4. obj[Other(y)].storage # obj[Other(z)].storage
    <3> HIDE DEF Other
    <3> QED
      BY <1>1, <2>2, <2>3 DEF Exclusive
  <2>5. QED
    BY <1>3, <2>4
<1>8. NoLeak'
  <2>1. SUFFICES ASSUME NEW d \in Blocks, Live(d)'
                 PROVE  \E y \in Objects : ~Inplace(y)' /\ obj'[y].storage = d
    BY DEF NoLeak
  <2>2. PICK y \in Objects : ~Inplace(y) /\ obj[y].storage = d
    BY <1>1, <2>1 DEF NoLeak, Live
  <2>3. ~Inplace(Other(y))' /\ obj'[Other(y)].storage = d /\ Other(y) \in Objects
    BY <1>3, <2>2
  <2>4. QED
    BY <2>3
<1>9. QED
  BY <1>1, <1>5, <1>6, <1>7, <1>8 DEF Inv, Ownership, NoMisuse

(***************************************************************************)
(* The actions.                                                            *)
(***************************************************************************)

(* What Inv says of one object and the limbs it holds. *)
LEMMA ObjectFacts ==
  ASSUME Inv, NEW x \in Objects
  PROVE  /\ obj[x].capacity \in Nat /\ obj[x].neg \in BOOLEAN
         /\ obj[x].count \in 1 .. MaxLimbs
         /\ Alive(x) => obj[x].alloc \in Allocators
         /\ ~Alive(x) => Inplace(x)
         /\ Inplace(x) => obj[x].storage \in Limbs
         /\ ~Inplace(x) => obj[x].storage \in Blocks
         /\ LimbsAt(x) \in Limbs
<1>1. obj[x] \in ObjectReps /\ TypeOK
  BY DEF Inv, TypeOK
<1>2. Inplace(x) => obj[x].storage \in Limbs
  BY <1>1 DEF TypeOK, ObjectReps, Limbs
<1>3. ~Inplace(x) => obj[x].storage \in Blocks
  BY <1>1 DEF TypeOK
<1>4. ~Inplace(x) => block[obj[x].storage].limbs \in Limbs
  BY <1>1, <1>3 DEF TypeOK, HeapBlocks, Limbs
<1>5. QED
  BY <1>1, <1>2, <1>3, <1>4, BlockCountsPositive DEF TypeOK, ObjectReps, Alive, LimbsAt

(* A copy yields a magnitude or junk, whatever it reads. *)
LEMMA CopiedType ==
  ASSUME NEW m, NEW n, NEW room PROVE Copied(m, n, room) \in Limbs
  BY DEF Copied, Limbs

(* A request within max_limbs is answered with a count the capacity can record. *)
LEMMA ReturnedType ==
  ASSUME NEW n \in 1 .. MaxLimbs, NEW c \in Returned(n) PROVE c \in BlockCounts
  BY StorageAssumption DEF Returned, BlockCounts

(* grow never asks for an empty block, nor for more than max_limbs. *)
LEMMA GrownCapacityType ==
  ASSUME Inv, NEW o \in Objects, NEW n \in Nat PROVE GrownCapacity(o, n) \in 1 .. MaxLimbs
<1>1. EffectiveCapacity(o) \in Nat \ {0}
  BY ObjectFacts, StorageAssumption DEF EffectiveCapacity, Inplace
<1>2. QED
  BY <1>1, StorageAssumption DEF GrownCapacity

(* A constructor from an integer or from limbs keeps the invariant, in place or grown. *)
LEMMA ConstructKeepsInv ==
  ASSUME Inv, NEW o \in Objects, NEW a \in Allocators, NEW v \in Values, NEW w \in Nat,
         Construct(o, a, v, w) \/ ConstructFromLimbs(o, a, v, w)
  PROVE  Inv'
<1> DEFINE n == LimbsOf[v.mag]
<1>1. /\ v.neg \in BOOLEAN /\ v.mag \in Limbs /\ n \in 1 .. MaxLimbs /\ Inplace(o)
  BY StorageAssumption, ObjectFacts DEF Values, Limbs, Construct, ConstructFromLimbs
<1>2. CASE /\ obj' = [obj EXCEPT ![o] = Rep(0, v.neg, n, v.mag, a)]
           /\ HeapUnchanged
  <2>1. FreeStorage(o)
    BY <1>1, <1>2 DEF FreeStorage
  <2>2. QED
    BY <1>1, <1>2, <2>1, ReleaseKeepsInv
<1>3. CASE UNCHANGED <<obj, block, misuse>>
  BY <1>3, UnchangedKeepsInv
<1>4. ASSUME NEW b \in FreeBlocks, NEW c \in Returned(GrownCapacity(o, w)),
             NewBlock(b, HeapBlock(a, c, v.mag)),
             obj' = [obj EXCEPT ![o] = Rep(c, v.neg, n, b, a)]
      PROVE  Inv'
  <2>1. c \in BlockCounts
    BY GrownCapacityType, ReturnedType
  <2>2. ReplaceStorage(o, b, HeapBlock(a, c, v.mag))
    BY <1>1, <1>4 DEF ReplaceStorage
  <2>3. QED
    BY <1>1, <1>4, <2>1, <2>2, ReplaceKeepsInv
<1>5. QED
  BY <1>2, <1>3, <1>4
     DEF Construct, ConstructFromLimbs, ConstructInplace, ConstructGrown, Fails

(* copy_limbs_from into an object that is not alive yet keeps the invariant. *)
LEMMA CopyLimbsFromKeepsInv ==
  ASSUME Inv, NEW o \in Objects, NEW x \in Objects, NEW a \in Allocators, NEW name,
         ~Alive(o), CopyLimbsFrom(name, o, x, a)
  PROVE  Inv'
<1> DEFINE n == obj[x].count
<1>1. obj[x].neg \in BOOLEAN /\ n \in 1 .. MaxLimbs /\ Inplace(o)
  BY ObjectFacts, StorageAssumption
<1>2. CASE /\ obj' = [obj EXCEPT ![o] =
                        Rep(0, obj[x].neg, n, Copied(LimbsAt(x), n, InplaceCapacity), a)]
           /\ HeapUnchanged
  <2>1. FreeStorage(o)
    BY <1>1, <1>2 DEF FreeStorage
  <2>2. QED
    BY <1>1, <1>2, <2>1, CopiedType, ReleaseKeepsInv
<1>3. CASE UNCHANGED <<obj, block, misuse>>
  BY <1>3, UnchangedKeepsInv
<1>4. ASSUME NEW b \in FreeBlocks, NEW c \in Returned(n),
             NewBlock(b, HeapBlock(a, c, Copied(LimbsAt(x), n, c))),
             obj' = [obj EXCEPT ![o] = Rep(c, obj[x].neg, n, b, a)]
      PROVE  Inv'
  <2>1. c \in BlockCounts
    BY <1>1, ReturnedType
  <2>2. ReplaceStorage(o, b, HeapBlock(a, c, Copied(LimbsAt(x), n, c)))
    BY <1>1, <1>4 DEF ReplaceStorage
  <2>3. QED
    BY <1>1, <1>4, <2>1, <2>2, CopiedType, ReplaceKeepsInv
<1>5. QED
  BY <1>2, <1>3, <1>4 DEF CopyLimbsFrom, Fails

(* A move construction hands the block over, leaving the source without one. *)
LEMMA MoveConstructKeepsInv ==
  ASSUME Inv, NEW o \in Objects, NEW x \in Objects, MoveConstruct(o, x)
  PROVE  Inv'
<1>1. /\ Inplace(o) /\ ~Alive(o) /\ Alive(x) /\ o # x /\ obj[x].alloc \in Allocators
      /\ HeapUnchanged /\ FreeStorage(o)
      /\ obj[x] \in ObjectReps
  BY ObjectFacts DEF MoveConstruct, FreeStorage, Inv, TypeOK
<1>2. CASE Inplace(x)
  <2>1. obj[x] = Rep(0, obj[x].neg, obj[x].count, obj[x].storage, obj[x].alloc)
    BY <1>1, <1>2 DEF ObjectReps, Rep, Inplace
  <2>2. obj' = [obj EXCEPT ![o] = obj[x]]
    BY <1>2 DEF MoveConstruct
  <2>3. QED
    BY <1>1, <1>2, <2>1, <2>2, ObjectFacts, ReleaseKeepsInv
<1>3. CASE ~Inplace(x)
  BY <1>1, <1>3, HandOverKeepsInv DEF MoveConstruct, TakeOver, SameAllocator
<1>4. QED
  BY <1>2, <1>3

(* The allocator-extended move hands over only a block the new allocator can free. *)
LEMMA MoveConstructWithKeepsInv ==
  ASSUME Inv, NEW o \in Objects, NEW x \in Objects, NEW a \in Allocators,
         MoveConstructWith(o, x, a)
  PROVE  Inv'
<1>1. Inplace(o) /\ ~Alive(o) /\ Alive(x) /\ o # x
  BY ObjectFacts DEF MoveConstructWith
<1>2. CASE CopyLimbsFrom("move_construct", o, x, a)
  BY <1>1, <1>2, CopyLimbsFromKeepsInv
<1>3. CASE /\ ~Inplace(x) /\ SameAllocator(a, obj[x].alloc)
           /\ TakeOver("move_construct", o, x, a) /\ HeapUnchanged
  BY <1>1, <1>3, HandOverKeepsInv DEF TakeOver, SameAllocator, FreeStorage
<1>4. QED
  BY <1>2, <1>3 DEF MoveConstructWith

(* The three copying paths of assign_value each keep the blocks owned and freeable. *)
LEMMA AssignByCopyKeepsInv ==
  ASSUME Inv, NEW o \in Objects, NEW x \in Objects, NEW name, NEW failure,
         NEW propagate \in BOOLEAN, Alive(o), Alive(x),
         AssignByCopy(name, o, x, propagate, failure)
  PROVE  Inv'
<1> DEFINE n == obj[x].count
           a == Propagated(o, x, propagate)
<1>1. /\ obj[x].neg \in BOOLEAN /\ n \in 1 .. MaxLimbs
      /\ a \in Allocators
  BY ObjectFacts, StorageAssumption DEF Propagated
<1>2. CASE KeepsBuffer(o, x, propagate) /\ AssignInBuffer(name, o, x, propagate)
  <2> DEFINE copy == Copied(LimbsAt(x), n, EffectiveCapacity(o))
  <2>1. Inplace(o) \/ SameAllocator(obj[o].alloc, a)
    BY <1>2 DEF KeepsBuffer, Propagated, SameAllocator
  <2>2. /\ obj' = [obj EXCEPT ![o] = Rep(obj[o].capacity, obj[x].neg, n,
                                        IF Inplace(o) THEN copy ELSE obj[o].storage, a)]
        /\ WriteLimbs(o, copy)
    BY <1>2 DEF AssignInBuffer
  <2>3. QED
    BY <1>1, <2>1, <2>2, CopiedType, RewriteKeepsInv
<1>3. CASE Inplace(x) /\ AssignInplace(name, o, x, propagate)
  BY <1>1, <1>3, ObjectFacts, ReleaseKeepsInv DEF AssignInplace
<1>4. CASE UNCHANGED <<obj, block, misuse>>
  BY <1>4, UnchangedKeepsInv
<1>5. ASSUME NEW b \in FreeBlocks, NEW c \in Returned(n),
             ReplaceStorage(o, b, HeapBlock(a, c, Copied(LimbsAt(x), n, c))),
             obj' = [obj EXCEPT ![o] = Rep(c, obj[x].neg, n, b, a)]
      PROVE  Inv'
  <2>1. c \in BlockCounts
    BY <1>1, ReturnedType
  <2>2. QED
    BY <1>1, <1>5, <2>1, CopiedType, ReplaceKeepsInv
<1>6. QED
  BY <1>2, <1>3, <1>4, <1>5 DEF AssignByCopy, AssignFresh, Fails

(* Copy assignment is the copying part of assign_value, or nothing on itself. *)
LEMMA CopyAssignKeepsInv ==
  ASSUME Inv, NEW o \in Objects, NEW x \in Objects, CopyAssign(o, x)
  PROVE  Inv'
<1>1. POCCA \in BOOLEAN
  BY StorageAssumption
<1>2. QED
  BY <1>1, AssignByCopyKeepsInv, UnchangedKeepsInv DEF CopyAssign, SelfAssign

(* Move assignment releases its own block before it takes that of the source. *)
LEMMA MoveAssignKeepsInv ==
  ASSUME Inv, NEW o \in Objects, NEW x \in Objects, MoveAssign(o, x)
  PROVE  Inv'
<1>1. /\ POCMA \in BOOLEAN /\ Alive(o) /\ Alive(x)
      /\ Propagated(o, x, POCMA) \in Allocators
  BY StorageAssumption, ObjectFacts DEF MoveAssign, Propagated
<1>2. CASE /\ o # x /\ Steals(o, x) /\ FreeStorage(o)
           /\ TakeOver("move_assign", o, x, Propagated(o, x, POCMA))
  <2>1. ~Inplace(x) /\ SameAllocator(obj[x].alloc, Propagated(o, x, POCMA))
    BY <1>2 DEF Steals, Propagated, SameAllocator
  <2>2. QED
    BY <1>1, <1>2, <2>1, HandOverKeepsInv DEF TakeOver
<1>3. CASE AssignByCopy("move_assign", o, x, POCMA, "terminated")
  BY <1>1, <1>3, AssignByCopyKeepsInv
<1>4. QED
  BY <1>2, <1>3, UnchangedKeepsInv DEF MoveAssign, SelfAssign

(* grow secures the new block before it releases the old one, and throws before either. *)
LEMMA GrowPastKeepsInv ==
  ASSUME Inv, NEW o \in Objects, NEW name, NEW arg, NEW n \in Nat, NEW neg \in BOOLEAN,
         NEW count \in 1 .. MaxLimbs, NEW limbs \in Limbs, Alive(o),
         GrowPast(name, o, arg, n, neg, count, limbs)
  PROVE  Inv'
<1>1. obj[o].alloc \in Allocators
  BY ObjectFacts
<1>2. CASE UNCHANGED <<obj, block, misuse>>
  BY <1>2, UnchangedKeepsInv
<1>3. ASSUME NEW b \in FreeBlocks, NEW c \in Returned(GrownCapacity(o, n)),
             ReplaceStorage(o, b, HeapBlock(obj[o].alloc, c, limbs)),
             obj' = [obj EXCEPT ![o] = Rep(c, neg, count, b, obj[o].alloc)]
      PROVE  Inv'
  <2>1. c \in BlockCounts
    BY GrownCapacityType, ReturnedType
  <2>2. QED
    BY <1>1, <1>3, <2>1, ReplaceKeepsInv
<1>4. QED
  BY <1>2, <1>3 DEF GrowPast, Fails

(* reserve does nothing or grows. *)
LEMMA ReserveKeepsInv ==
  ASSUME Inv, NEW o \in Objects, NEW n \in Nat, Reserve(o, n)
  PROVE  Inv'
<1>1. CASE UNCHANGED <<obj, block, misuse>>
  BY <1>1, UnchangedKeepsInv
<1>2. CASE GrowPast("reserve", o, Absent, n, obj[o].neg, obj[o].count,
                    Copied(LimbsAt(o), obj[o].count, GrownCapacity(o, n)))
  BY <1>2, ObjectFacts, CopiedType, GrowPastKeepsInv DEF Reserve
<1>3. QED
  BY <1>1, <1>2 DEF Reserve

(* An integer is written into storage that grow has made large enough. *)
LEMMA AssignIntegerKeepsInv ==
  ASSUME Inv, NEW o \in Objects, NEW v \in Values, NEW w \in Nat, AssignInteger(o, v, w)
  PROVE  Inv'
<1> DEFINE n == LimbsOf[v.mag]
<1>1. /\ v.neg \in BOOLEAN /\ v.mag \in Limbs /\ n \in 1 .. MaxLimbs
      /\ Alive(o) /\ obj[o].alloc \in Allocators
  BY StorageAssumption, ObjectFacts DEF Values, Limbs, AssignInteger
<1>2. CASE /\ obj' = [obj EXCEPT ![o] = Rep(obj[o].capacity, v.neg, n,
                        IF Inplace(o) THEN v.mag ELSE obj[o].storage, obj[o].alloc)]
           /\ WriteLimbs(o, v.mag)
  BY <1>1, <1>2, RewriteKeepsInv DEF SameAllocator
<1>3. CASE GrowPast("assign_integer", o, v, w, v.neg, n, v.mag)
  BY <1>1, <1>3, GrowPastKeepsInv
<1>4. QED
  BY <1>2, <1>3 DEF AssignInteger

(* shrink_to_fit releases the block exactly when it has somewhere else to put the limbs. *)
LEMMA ShrinkToFitKeepsInv ==
  ASSUME Inv, NEW o \in Objects, ShrinkToFit(o)
  PROVE  Inv'
<1> DEFINE n == obj[o].count
<1>1. /\ obj[o].neg \in BOOLEAN /\ n \in 1 .. MaxLimbs
      /\ obj[o].alloc \in Allocators
  BY ObjectFacts, StorageAssumption DEF ShrinkToFit
<1>2. CASE UNCHANGED <<obj, block, misuse>>
  BY <1>2, UnchangedKeepsInv
<1>3. CASE /\ obj' = [obj EXCEPT ![o] =
                        Rep(0, obj[o].neg, n, Copied(LimbsAt(o), n, InplaceCapacity), obj[o].alloc)]
           /\ FreeStorage(o)
  BY <1>1, <1>3, CopiedType, ReleaseKeepsInv
<1>4. ASSUME NEW b \in FreeBlocks, NEW c \in Returned(n),
             ReplaceStorage(o, b, HeapBlock(obj[o].alloc, c, Copied(LimbsAt(o), n, c))),
             obj' = [obj EXCEPT ![o] = Rep(c, obj[o].neg, n, b, obj[o].alloc)]
      PROVE  Inv'
  <2>1. c \in BlockCounts
    BY <1>1, ReturnedType
  <2>2. QED
    BY <1>1, <1>4, <2>1, CopiedType, ReplaceKeepsInv
<1>5. QED
  BY <1>2, <1>3, <1>4 DEF ShrinkToFit, Fails

(* The destructor gives the block back, so nothing leaks with the object. *)
LEMMA DestroyKeepsInv ==
  ASSUME Inv, NEW o \in Objects, Destroy(o)
  PROVE  Inv'
  BY StorageAssumption, ReleaseKeepsInv DEF Destroy, Dead, Limbs

(* Inv is inductive: every step of every call, failed or not, keeps it. *)
LEMMA NextKeepsInv == Inv /\ [Next]_vars => Inv'
<1> SUFFICES ASSUME Inv, [Next]_vars PROVE Inv'
  OBVIOUS
<1>1. ASSUME NEW o \in Objects, NEW a \in Allocators, NEW v \in Values,
             NEW w \in 1 .. MaxWidth,
             Construct(o, a, v, w) \/ ConstructFromLimbs(o, a, v, w)
      PROVE  Inv'
  BY <1>1, ConstructKeepsInv, StorageAssumption
<1>2. ASSUME NEW o \in Objects, NEW a \in Allocators, NEW x \in Objects,
             CopyConstructWith(o, x, a)
      PROVE  Inv'
  BY <1>2, CopyLimbsFromKeepsInv DEF CopyConstructWith
<1>3. ASSUME NEW o \in Objects, NEW x \in Objects, CopyConstruct(o, x)
      PROVE  Inv'
  <2>1. Selected[obj[x].alloc] \in Allocators
    BY <1>3, StorageAssumption, ObjectFacts DEF CopyConstruct
  <2>2. QED
    BY <1>3, <2>1, CopyLimbsFromKeepsInv DEF CopyConstruct
<1>4. ASSUME NEW o \in Objects, NEW v \in Values, NEW w \in 1 .. MaxWidth,
             AssignInteger(o, v, w)
      PROVE  Inv'
  BY <1>4, AssignIntegerKeepsInv, StorageAssumption
<1>5. ASSUME NEW o \in Objects, NEW n \in 0 .. MaxLimbs + 1, Reserve(o, n)
      PROVE  Inv'
  BY <1>5, ReserveKeepsInv, StorageAssumption
<1>6. CASE ConstructStep
  BY <1>1, <1>2, <1>6, MoveConstructWithKeepsInv DEF ConstructStep
<1>7. CASE AssignStep
  BY <1>3, <1>7, MoveConstructKeepsInv, CopyAssignKeepsInv, MoveAssignKeepsInv, SwapKeepsInv
     DEF AssignStep
<1>8. CASE UnaryStep
  BY <1>4, <1>5, <1>8, ShrinkToFitKeepsInv, DestroyKeepsInv DEF UnaryStep
<1>9. CASE UNCHANGED vars
  BY <1>9, UnchangedKeepsInv DEF vars
<1>10. QED
  BY <1>6, <1>7, <1>8, <1>9 DEF Next

(* Inv holds in every reachable state. *)
LEMMA InvAlways == Spec => []Inv
  BY InitInv, NextKeepsInv, PTL DEF Spec

(***************************************************************************)
(* What a call that fails does.                                            *)
(***************************************************************************)

Failed == call'.outcome # "ok"
Intact == UNCHANGED <<obj, block>>

(* assign_value secures its new block before it touches anything. *)
LEMMA AssignByCopyFails ==
  ASSUME NEW name, NEW o, NEW x, NEW propagate, NEW failure,
         AssignByCopy(name, o, x, propagate, failure), Failed
  PROVE  Intact
<1>1. CASE AssignInBuffer(name, o, x, propagate)
  BY <1>1 DEF AssignInBuffer, Ok, Called, Failed
<1>2. CASE AssignInplace(name, o, x, propagate)
  BY <1>2 DEF AssignInplace, Ok, Called, Failed
<1>3. CASE AssignFresh(name, o, x, propagate, failure)
  BY <1>3 DEF AssignFresh, Fails, Ok, Called, Failed, Intact
<1>4. QED
  BY <1>1, <1>2, <1>3 DEF AssignByCopy

(* grow too, so do the paths of the constructors that allocate. *)
LEMMA ConstructorFails ==
  ASSUME NEW o, NEW x, NEW a, NEW name, CopyLimbsFrom(name, o, x, a), Failed
  PROVE  Intact
  BY DEF CopyLimbsFrom, Fails, Ok, Called, Failed, Intact

(* A step whose call does not end normally leaves every object and block as they were. *)
LEMMA FailedStepIntact == [Next]_vars /\ Failed => Intact
<1> SUFFICES ASSUME [Next]_vars, Failed PROVE Intact
  OBVIOUS
<1>1. CASE ConstructStep
  <2>1. ASSUME NEW o, NEW a, NEW v, NEW w, Construct(o, a, v, w) \/ ConstructFromLimbs(o, a, v, w)
        PROVE  Intact
    BY <2>1 DEF Construct, ConstructFromLimbs, ConstructInplace, ConstructGrown, Fails, Ok,
                Called, Failed, Intact
  <2>2. ASSUME NEW o, NEW x, NEW a, CopyConstructWith(o, x, a) \/ MoveConstructWith(o, x, a)
        PROVE  Intact
    BY <2>2, ConstructorFails DEF CopyConstructWith, MoveConstructWith, TakeOver, Ok, Called, Failed
  <2>3. QED
    BY <1>1, <2>1, <2>2 DEF ConstructStep
<1>2. CASE AssignStep
  <2>1. ASSUME NEW o, NEW x, CopyConstruct(o, x) \/ MoveConstruct(o, x) \/ Swap(o, x)
        PROVE  Intact
    BY <2>1, ConstructorFails DEF CopyConstruct, MoveConstruct, Swap, TakeOver, Ok, Called, Failed
  <2>2. ASSUME NEW o, NEW x, CopyAssign(o, x) \/ MoveAssign(o, x)
        PROVE  Intact
    BY <2>2, AssignByCopyFails
       DEF CopyAssign, MoveAssign, SelfAssign, TakeOver, Ok, Called, Failed
  <2>3. QED
    BY <1>2, <2>1, <2>2 DEF AssignStep
<1>3. CASE UnaryStep
  <2>1. ASSUME NEW o, NEW v, NEW w, AssignInteger(o, v, w)
        PROVE  Intact
    BY <2>1 DEF AssignInteger, GrowPast, Fails, Ok, Called, Failed, Intact
  <2>2. ASSUME NEW o, NEW n, Reserve(o, n)
        PROVE  Intact
    BY <2>2 DEF Reserve, GrowPast, Fails, Ok, Called, Failed, Intact
  <2>3. ASSUME NEW o, ShrinkToFit(o) \/ Destroy(o)
        PROVE  Intact
    BY <2>3 DEF ShrinkToFit, Destroy, Fails, Ok, Called, Failed, Intact
  <2>4. QED
    BY <1>3, <2>1, <2>2, <2>3 DEF UnaryStep
<1>4. CASE UNCHANGED vars
  BY <1>4 DEF vars, Intact
<1>5. QED
  BY <1>1, <1>2, <1>3, <1>4 DEF Next

(***************************************************************************)
(* The theorems.                                                           *)
(***************************************************************************)

(* Every member of every object and block keeps its type, and the union    *)
(* holds a pointer exactly when m_capacity is not zero.                    *)
THEOREM TypeCorrect == Spec => []TypeOK
  BY InvAlways, PTL DEF Inv

(* The block of every heap object is live, has the size its capacity       *)
(* records, and came from an allocator that equals the one it is freed by. *)
THEOREM BlocksOwned == Spec => []Owned
  BY InvAlways, PTL DEF Inv, Ownership

(* Moves and swaps hand a buffer over: no block ever has two owners.       *)
THEOREM BlocksExclusive == Spec => []Exclusive
  BY InvAlways, PTL DEF Inv, Ownership

(* No call, whether it returns or throws, loses the last pointer to a      *)
(* block.                                                                  *)
THEOREM NothingLeaks == Spec => []NoLeak
  BY InvAlways, PTL DEF Inv, Ownership

(* Whatever sequence of constructions, copies, moves, swaps, reserves and  *)
(* shrinks runs, and whichever of their allocations throw, every heap      *)
(* block belongs to exactly one object, none leaks, and the object that    *)
(* holds a block can free it.                                              *)
THEOREM OwnershipHolds == Spec => []Ownership
  BY InvAlways, PTL DEF Inv

(* No call, not even between two steps of an assignment that changes the   *)
(* allocator, deallocates a block twice, with the wrong size, or through   *)
(* an allocator that compares unequal to the one that allocated it.        *)
THEOREM DeallocationLegal == Spec => []NoMisuse
  BY InvAlways, PTL DEF Inv

(* The strong guarantee: whichever call fails, in whichever state, every   *)
(* object keeps its value, its storage, its capacity and its allocator.    *)
THEOREM StrongGuarantee == Spec => FailureChangesNothing
<1>1. [Next]_vars => [call'.outcome # "ok" => UNCHANGED <<obj, block>>]_vars
  BY FailedStepIntact DEF Failed, Intact
<1>2. QED
  BY <1>1, PTL DEF Spec, FailureChangesNothing

(***************************************************************************)
(* What the storage holds: every live object keeps a whole, trimmed        *)
(* magnitude with a legal sign.                                            *)
(*                                                                         *)
(* Ownership says whose the blocks are.  From it follows, for each of the  *)
(* five ways a call changes the heap, what the objects it names hold       *)
(* afterwards, and that no other object notices.                           *)
(***************************************************************************)

(* Every object but those in S is as it was, and so are its limbs. *)
Untouched(S) ==
  \A y \in Objects \ S : obj'[y] = obj[y] /\ LimbsAt(y)' = LimbsAt(y)

CanonicalAt(o) ==
  /\ LimbsAt(o) \in Magnitudes
  /\ obj[o].count = LimbsOf[LimbsAt(o)]
  /\ obj[o].neg => LimbsAt(o) # Zero
  /\ obj[o].count <= EffectiveCapacity(o)

CInv == Inv /\ Canonical

(***************************************************************************)
(* The five ways to change the heap.                                       *)
(***************************************************************************)

(* An object whose block is not written to keeps its limbs. *)
LEMMA LimbsKept ==
  ASSUME Inv, NEW y \in Objects, obj'[y] = obj[y],
         ~Inplace(y) => block'[obj[y].storage].limbs = block[obj[y].storage].limbs
  PROVE  LimbsAt(y)' = LimbsAt(y)
  BY DEF LimbsAt, Inplace

(* The block of another object is neither a free one nor that of o. *)
LEMMA BlocksApart ==
  ASSUME Inv, NEW o \in Objects, NEW y \in Objects \ {o}, ~Inplace(y)
  PROVE  /\ obj[y].storage \in Blocks
         /\ obj[y].storage \notin FreeBlocks
         /\ ~Inplace(o) => obj[o].storage # obj[y].storage
  BY DEF Inv, Ownership, Owned, Exclusive, FreeLegal, FreeBlocks, TypeOK

(* A new block: o holds what was written to it. *)
LEMMA ReplaceHolds ==
  ASSUME Inv,
         NEW o \in Objects, NEW b \in FreeBlocks, NEW c \in BlockCounts, NEW a, NEW m,
         NEW neg, NEW n,
         ReplaceStorage(o, b, HeapBlock(a, c, m)),
         obj' = [obj EXCEPT ![o] = Rep(c, neg, n, b, a)]
  PROVE  /\ obj'[o] = Rep(c, neg, n, b, a)
         /\ LimbsAt(o)' = m
         /\ EffectiveCapacity(o)' = c
         /\ Untouched({o})
<1>1. /\ obj'[o] = Rep(c, neg, n, b, a) /\ c # 0 /\ b \in Blocks /\ block \in [Blocks -> HeapBlocks]
      /\ \A y \in Objects \ {o} : obj'[y] = obj[y]
  BY BlockCountsPositive DEF Inv, TypeOK, FreeBlocks
<1>2. ~Inplace(o)'
  BY <1>1 DEF Inplace, Rep
<1>3. ~Inplace(o) => obj[o].storage # b
  BY DEF Inv, Ownership, Owned, FreeLegal, FreeBlocks
<1>4. /\ block'[b] = HeapBlock(a, c, m)
      /\ \A d \in Blocks \ {b} :
           (~Inplace(o) => d # obj[o].storage) => block'[d] = block[d]
  <2>1. CASE Inplace(o)
    BY <1>1, <2>1 DEF ReplaceStorage, NewBlock
  <2>2. CASE ~Inplace(o)
    <3>1. block' = [block EXCEPT ![b] = HeapBlock(a, c, m), ![obj[o].storage] = FreeBlock]
      BY <2>2 DEF ReplaceStorage
    <3>2. QED
      BY <1>1, <1>3, <2>2, <3>1
  <2>3. QED
    BY <2>1, <2>2
<1>5. LimbsAt(o)' = m /\ EffectiveCapacity(o)' = c
  BY <1>1, <1>2, <1>4 DEF LimbsAt, EffectiveCapacity, Rep, HeapBlock
<1>6. ASSUME NEW y \in Objects \ {o} PROVE LimbsAt(y)' = LimbsAt(y)
  <2>1. ~Inplace(y) => block'[obj[y].storage] = block[obj[y].storage]
    BY <1>4, BlocksApart
  <2>2. QED
    BY <1>1, <2>1, LimbsKept
<1>7. QED
  BY <1>1, <1>5, <1>6 DEF Untouched

(* The storage there is: o holds what was written to it. *)
LEMMA RewriteHolds ==
  ASSUME Inv,
         NEW o \in Objects, NEW a, NEW m, NEW neg, NEW n,
         WriteLimbs(o, m),
         obj' = [obj EXCEPT ![o] = Rep(obj[o].capacity, neg, n,
                                       IF Inplace(o) THEN m ELSE obj[o].storage, a)]
  PROVE  /\ obj'[o].neg = neg /\ obj'[o].count = n /\ obj'[o].alloc = a
         /\ LimbsAt(o)' = m
         /\ EffectiveCapacity(o)' = EffectiveCapacity(o)
         /\ Untouched({o})
<1> DEFINE held == IF Inplace(o) THEN m ELSE obj[o].storage
<1>1. /\ obj'[o] = Rep(obj[o].capacity, neg, n, held, a)
      /\ block \in [Blocks -> HeapBlocks]
      /\ ~Inplace(o) => obj[o].storage \in Blocks
      /\ \A y \in Objects \ {o} : obj'[y] = obj[y]
  BY DEF Inv, TypeOK
<1>2. Inplace(o)' <=> Inplace(o)
  BY <1>1 DEF Inplace, Rep
<1>3. LimbsAt(o)' = m
  <2>1. CASE Inplace(o)
    BY <1>1, <1>2, <2>1 DEF LimbsAt, Rep
  <2>2. CASE ~Inplace(o)
    <3>1. block'[obj[o].storage] = [block[obj[o].storage] EXCEPT !.limbs = m]
      BY <1>1, <2>2 DEF WriteLimbs, NewBlock
    <3>2. block[obj[o].storage] \in HeapBlocks
      BY <1>1, <2>2
    <3>3. block'[obj[o].storage].limbs = m
      BY <3>1, <3>2 DEF HeapBlocks
    <3>4. QED
      BY <1>1, <1>2, <2>2, <3>3 DEF LimbsAt, Rep
  <2>3. QED
    BY <2>1, <2>2
<1>4. EffectiveCapacity(o)' = EffectiveCapacity(o)
  BY <1>1, <1>2 DEF EffectiveCapacity, Rep
<1>5. ASSUME NEW y \in Objects \ {o} PROVE LimbsAt(y)' = LimbsAt(y)
  <2>1. ~Inplace(y) => block'[obj[y].storage] = block[obj[y].storage]
    BY <1>1, BlocksApart DEF WriteLimbs, NewBlock, HeapUnchanged
  <2>2. QED
    BY <1>1, <2>1, LimbsKept
<1>6. QED
  BY <1>1, <1>3, <1>4, <1>5 DEF Untouched, Rep

(* In place: o holds what was written there, whatever becomes of its block. *)
LEMMA ReleaseHolds ==
  ASSUME Inv, NEW o \in Objects, NEW a, NEW m, NEW neg, NEW n,
         FreeStorage(o) \/ HeapUnchanged,
         obj' = [obj EXCEPT ![o] = Rep(0, neg, n, m, a)]
  PROVE  /\ obj'[o] = Rep(0, neg, n, m, a)
         /\ LimbsAt(o)' = m
         /\ EffectiveCapacity(o)' = InplaceCapacity
         /\ Untouched({o})
<1>1. /\ obj'[o] = Rep(0, neg, n, m, a) /\ block \in [Blocks -> HeapBlocks]
      /\ \A y \in Objects \ {o} : obj'[y] = obj[y]
  BY DEF Inv, TypeOK
<1>2. LimbsAt(o)' = m /\ EffectiveCapacity(o)' = InplaceCapacity
  BY <1>1 DEF LimbsAt, EffectiveCapacity, Inplace, Rep
<1>3. ASSUME NEW y \in Objects \ {o} PROVE LimbsAt(y)' = LimbsAt(y)
  <2>1. ~Inplace(y) => block'[obj[y].storage] = block[obj[y].storage]
    BY <1>1, BlocksApart DEF FreeStorage, HeapUnchanged
  <2>2. QED
    BY <1>1, <2>1, LimbsKept
<1>4. QED
  BY <1>1, <1>2, <1>3 DEF Untouched

(* A buffer taken over: o holds what x held, and x an in-place zero. *)
LEMMA HandOverHolds ==
  ASSUME Inv, NEW o \in Objects, NEW x \in Objects, o # x, NEW a, ~Inplace(x),
         FreeStorage(o) \/ HeapUnchanged,
         obj' = [obj EXCEPT ![o] = Rep(obj[x].capacity, obj[x].neg, obj[x].count,
                                       obj[x].storage, a),
                            ![x] = TakenFrom(x)]
  PROVE  /\ obj'[o] = Rep(obj[x].capacity, obj[x].neg, obj[x].count, obj[x].storage, a)
         /\ obj'[x] = TakenFrom(x)
         /\ LimbsAt(o)' = LimbsAt(x) /\ LimbsAt(x)' = Zero
         /\ EffectiveCapacity(o)' = EffectiveCapacity(x)
         /\ EffectiveCapacity(x)' = InplaceCapacity
         /\ Untouched({o, x})
<1>1. /\ obj'[o] = Rep(obj[x].capacity, obj[x].neg, obj[x].count, obj[x].storage, a)
      /\ obj'[x] = TakenFrom(x) /\ block \in [Blocks -> HeapBlocks]
      /\ \A y \in Objects \ {o, x} : obj'[y] = obj[y]
  BY DEF Inv, TypeOK
<1>2. \A y \in Objects \ {o} : ~Inplace(y) => block'[obj[y].storage] = block[obj[y].storage]
  BY <1>1, BlocksApart DEF FreeStorage, HeapUnchanged
<1>3. LimbsAt(o)' = LimbsAt(x) /\ EffectiveCapacity(o)' = EffectiveCapacity(x)
  BY <1>1, <1>2 DEF LimbsAt, EffectiveCapacity, Inplace, Rep
<1>4. LimbsAt(x)' = Zero /\ EffectiveCapacity(x)' = InplaceCapacity
  BY <1>1 DEF LimbsAt, EffectiveCapacity, Inplace, TakenFrom, Rep
<1>5. ASSUME NEW y \in Objects \ {o, x} PROVE LimbsAt(y)' = LimbsAt(y)
  BY <1>1, <1>2, LimbsKept
<1>6. QED
  BY <1>1, <1>3, <1>4, <1>5 DEF Untouched

(* A swap exchanges what the two objects hold, and their limits with it. *)
LEMMA SwapHolds ==
  ASSUME Inv, NEW o \in Objects, NEW x \in Objects, Swap(o, x)
  PROVE  /\ obj'[o].neg = obj[x].neg /\ obj'[o].count = obj[x].count
         /\ obj'[x].neg = obj[o].neg /\ obj'[x].count = obj[o].count
         /\ LimbsAt(o)' = LimbsAt(x) /\ LimbsAt(x)' = LimbsAt(o)
         /\ EffectiveCapacity(o)' = EffectiveCapacity(x)
         /\ EffectiveCapacity(x)' = EffectiveCapacity(o)
         /\ Alive(o) /\ Alive(x) /\ Alive(o)' /\ Alive(x)'
         /\ Untouched({o, x})
<1> DEFINE Exchanged(p, q) ==
             [obj[q] EXCEPT !.alloc = IF POCS THEN obj[q].alloc ELSE obj[p].alloc]
<1>1. /\ obj' = [obj EXCEPT ![o] = Exchanged(o, x), ![x] = Exchanged(x, o)]
      /\ block' = block /\ Alive(o) /\ Alive(x)
  BY DEF Swap, HeapUnchanged
<1>2. obj \in [Objects -> ObjectReps] /\ obj[o] \in ObjectReps /\ obj[x] \in ObjectReps
  BY DEF Inv, TypeOK
<1>3. /\ obj'[o] = Exchanged(o, x) /\ obj'[x] = Exchanged(x, o)
      /\ \A y \in Objects \ {o, x} : obj'[y] = obj[y]
  BY <1>1, <1>2
<1>4. /\ obj'[o].neg = obj[x].neg /\ obj'[o].count = obj[x].count
      /\ obj'[o].capacity = obj[x].capacity /\ obj'[o].storage = obj[x].storage
      /\ obj'[x].neg = obj[o].neg /\ obj'[x].count = obj[o].count
      /\ obj'[x].capacity = obj[o].capacity /\ obj'[x].storage = obj[o].storage
      /\ Alive(o)' /\ Alive(x)'
  <2>1. ASSUME NEW p \in Objects, NEW q \in Objects, Alive(p), Alive(q), obj[q] \in ObjectReps
        PROVE  /\ Exchanged(p, q).neg = obj[q].neg /\ Exchanged(p, q).count = obj[q].count
               /\ Exchanged(p, q).capacity = obj[q].capacity
               /\ Exchanged(p, q).storage = obj[q].storage
               /\ Exchanged(p, q).alloc # NoAlloc
    BY <2>1 DEF ObjectReps, Alive
  <2>2. obj'[o] = Exchanged(o, x) /\ obj'[x] = Exchanged(x, o) /\ Alive(o) /\ Alive(x)
    BY <1>1, <1>3
  <2> HIDE DEF Exchanged
  <2>3. QED
    BY <1>2, <2>1, <2>2 DEF Alive
<1>5. /\ LimbsAt(o)' = LimbsAt(x) /\ LimbsAt(x)' = LimbsAt(o)
      /\ EffectiveCapacity(o)' = EffectiveCapacity(x)
      /\ EffectiveCapacity(x)' = EffectiveCapacity(o)
  BY <1>1, <1>4 DEF LimbsAt, EffectiveCapacity, Inplace
<1>6. ASSUME NEW y \in Objects \ {o, x} PROVE LimbsAt(y)' = LimbsAt(y)
  <2>1. obj'[y] = obj[y] /\ block' = block
    BY <1>1, <1>3
  <2>2. QED
    BY <2>1, LimbsKept
<1>7. QED
  BY <1>1, <1>3, <1>4, <1>5, <1>6 DEF Untouched

(***************************************************************************)
(* Canonical objects.                                                      *)
(***************************************************************************)

(* It is enough to look at the objects a call names. *)
LEMMA CanonicalKept ==
  ASSUME Canonical, NEW S, Untouched(S),
         \A o \in S : o \in Objects /\ Alive(o)' => CanonicalAt(o)'
  PROVE  Canonical'
<1> SUFFICES ASSUME NEW y \in Objects, Alive(y)'
             PROVE  CanonicalAt(y)'
  BY DEF Canonical, CanonicalAt
<1>1. CASE y \in S
  BY <1>1
<1>2. CASE y \notin S
  <2>1. obj'[y] = obj[y] /\ LimbsAt(y)' = LimbsAt(y)
    BY <1>2 DEF Untouched
  <2>2. Alive(y)
    BY <2>1 DEF Alive
  <2>3. EffectiveCapacity(y)' = EffectiveCapacity(y)
    BY <2>1 DEF EffectiveCapacity, Inplace
  <2>4. CanonicalAt(y)
    BY <2>2 DEF Canonical, CanonicalAt
  <2>5. QED
    BY <2>1, <2>3, <2>4 DEF CanonicalAt
<1>3. QED
  BY <1>1, <1>2

(* Objects and blocks that stay as they are stay canonical. *)
LEMMA UnchangedKeepsCanonical ==
  Canonical /\ UNCHANGED <<obj, block>> => Canonical'
  BY DEF Canonical, Alive, LimbsAt, EffectiveCapacity, Inplace

(* What Canonical says of one live object. *)
LEMMA CanonicalFacts ==
  ASSUME CInv, NEW x \in Objects, Alive(x)
  PROVE  /\ CanonicalAt(x)
         /\ obj[x].count \in 1 .. MaxLimbs /\ obj[x].neg \in BOOLEAN
         /\ EffectiveCapacity(x) \in Nat
<1>1. CanonicalAt(x)
  BY DEF CInv, Canonical, CanonicalAt
<1>2. QED
  BY <1>1, ObjectFacts, StorageAssumption DEF CInv, EffectiveCapacity

(* A copy with room for all limbs is the magnitude itself. *)
LEMMA CopiedWhole ==
  ASSUME NEW m \in Magnitudes, NEW n, n = LimbsOf[m], NEW room, n <= room
  PROVE  Copied(m, n, room) = m
  BY DEF Copied

(* The allocator returns no less than was asked for, *)
LEMMA ReturnedAtLeast ==
  ASSUME NEW n \in Nat, NEW c \in Returned(n) PROVE c \in Int /\ n <= c
  BY StorageAssumption DEF Returned

(* and grow asks for no less than it needs, nor than there was. *)
LEMMA GrownAtLeast ==
  ASSUME Inv, NEW o \in Objects, NEW n \in 0 .. MaxLimbs
  PROVE  /\ n <= GrownCapacity(o, n)
         /\ EffectiveCapacity(o) < n => EffectiveCapacity(o) <= GrownCapacity(o, n)
         /\ GrownCapacity(o, n) \in Nat
<1>1. EffectiveCapacity(o) \in Nat
  BY ObjectFacts, StorageAssumption DEF EffectiveCapacity
<1>2. QED
  BY <1>1, StorageAssumption DEF GrownCapacity

(* A new block that has room for the magnitude written to it. *)
LEMMA ReplaceKeepsCanonical ==
  ASSUME CInv,
         NEW o \in Objects, NEW b \in FreeBlocks, NEW c \in BlockCounts, NEW a,
         NEW m \in Magnitudes, NEW neg, NEW n, n = LimbsOf[m], neg => m # Zero, n <= c,
         ReplaceStorage(o, b, HeapBlock(a, c, m)),
         obj' = [obj EXCEPT ![o] = Rep(c, neg, n, b, a)]
  PROVE  Canonical'
<1>1. /\ obj'[o] = Rep(c, neg, n, b, a) /\ LimbsAt(o)' = m /\ EffectiveCapacity(o)' = c
      /\ Untouched({o})
  BY ReplaceHolds DEF CInv
<1>2. CanonicalAt(o)'
  BY <1>1 DEF CanonicalAt, Rep
<1>3. QED
  BY <1>1, <1>2, CanonicalKept DEF CInv

(* Storage there is, with room for the magnitude written to it. *)
LEMMA RewriteKeepsCanonical ==
  ASSUME CInv,
         NEW o \in Objects, NEW a, NEW m \in Magnitudes, NEW neg, NEW n,
         n = LimbsOf[m], neg => m # Zero, n <= EffectiveCapacity(o),
         WriteLimbs(o, m),
         obj' = [obj EXCEPT ![o] = Rep(obj[o].capacity, neg, n,
                                       IF Inplace(o) THEN m ELSE obj[o].storage, a)]
  PROVE  Canonical'
<1>1. /\ obj'[o].neg = neg /\ obj'[o].count = n /\ LimbsAt(o)' = m
      /\ EffectiveCapacity(o)' = EffectiveCapacity(o)
      /\ Untouched({o})
  BY RewriteHolds DEF CInv
<1>2. CanonicalAt(o)'
  BY <1>1 DEF CanonicalAt
<1>3. QED
  BY <1>1, <1>2, CanonicalKept DEF CInv

(* A magnitude that fits in place. *)
LEMMA ReleaseKeepsCanonical ==
  ASSUME CInv, NEW o \in Objects, NEW a, NEW m \in Magnitudes, NEW neg, NEW n,
         n = LimbsOf[m], neg => m # Zero, n <= InplaceCapacity,
         FreeStorage(o) \/ HeapUnchanged,
         obj' = [obj EXCEPT ![o] = Rep(0, neg, n, m, a)]
  PROVE  Canonical'
<1>1. /\ obj'[o] = Rep(0, neg, n, m, a) /\ LimbsAt(o)' = m
      /\ EffectiveCapacity(o)' = InplaceCapacity /\ Untouched({o})
  BY ReleaseHolds DEF CInv
<1>2. CanonicalAt(o)'
  BY <1>1 DEF CanonicalAt, Rep
<1>3. QED
  BY <1>1, <1>2, CanonicalKept DEF CInv

(* A buffer of a live source, which ends as zero. *)
LEMMA HandOverKeepsCanonical ==
  ASSUME CInv, NEW o \in Objects, NEW x \in Objects, o # x, NEW a, ~Inplace(x), Alive(x),
         FreeStorage(o) \/ HeapUnchanged,
         obj' = [obj EXCEPT ![o] = Rep(obj[x].capacity, obj[x].neg, obj[x].count,
                                       obj[x].storage, a),
                            ![x] = TakenFrom(x)]
  PROVE  Canonical'
<1>1. /\ obj'[o] = Rep(obj[x].capacity, obj[x].neg, obj[x].count, obj[x].storage, a)
      /\ obj'[x] = TakenFrom(x)
      /\ LimbsAt(o)' = LimbsAt(x) /\ LimbsAt(x)' = Zero
      /\ EffectiveCapacity(o)' = EffectiveCapacity(x)
      /\ EffectiveCapacity(x)' = InplaceCapacity /\ Untouched({o, x})
  BY HandOverHolds DEF CInv
<1>2. CanonicalAt(x)
  BY CanonicalFacts
<1>3. CanonicalAt(o)'
  BY <1>1, <1>2 DEF CanonicalAt, Rep
<1>4. CanonicalAt(x)'
  BY <1>1, StorageAssumption DEF CanonicalAt, TakenFrom, Rep
<1>5. QED
  BY <1>1, <1>3, <1>4, CanonicalKept DEF CInv

(***************************************************************************)
(* The actions.                                                            *)
(***************************************************************************)

(* A value is constructed in place when it fits, else in a block grow made. *)
LEMMA ConstructKeepsCanonical ==
  ASSUME CInv, NEW o \in Objects, NEW a \in Allocators, NEW v \in Values, NEW w \in Nat,
         Construct(o, a, v, w) \/ ConstructFromLimbs(o, a, v, w)
  PROVE  Canonical'
<1> DEFINE n == LimbsOf[v.mag]
<1>1. /\ v.mag \in Magnitudes /\ (v.neg => v.mag # Zero) /\ n \in 1 .. MaxLimbs
      /\ n <= w /\ Inplace(o)
  BY StorageAssumption, ObjectFacts DEF Values, Construct, ConstructFromLimbs, CInv
<1>2. CASE /\ obj' = [obj EXCEPT ![o] = Rep(0, v.neg, n, v.mag, a)]
           /\ HeapUnchanged /\ n <= InplaceCapacity
  BY <1>1, <1>2, ReleaseKeepsCanonical
<1>3. CASE UNCHANGED <<obj, block>>
  BY <1>3, UnchangedKeepsCanonical DEF CInv
<1>4. ASSUME w <= MaxLimbs,
             NEW b \in FreeBlocks, NEW c \in Returned(GrownCapacity(o, w)),
             NewBlock(b, HeapBlock(a, c, v.mag)),
             obj' = [obj EXCEPT ![o] = Rep(c, v.neg, n, b, a)]
      PROVE  Canonical'
  <2>1. c \in BlockCounts
    BY GrownCapacityType, ReturnedType DEF CInv
  <2>2. n <= c
    BY <1>1, <1>4, GrownAtLeast, ReturnedAtLeast DEF CInv
  <2>3. ReplaceStorage(o, b, HeapBlock(a, c, v.mag))
    BY <1>1, <1>4 DEF ReplaceStorage
  <2>4. QED
    BY <1>1, <1>4, <2>1, <2>2, <2>3, ReplaceKeepsCanonical
<1>5. ASSUME NEW name, ConstructInplace(name, o, a, v), n <= InplaceCapacity
      PROVE  Canonical'
  BY <1>2, <1>5 DEF ConstructInplace
<1>6. ASSUME NEW name, NEW failure, ConstructGrown(name, o, a, v, w, failure)
      PROVE  Canonical'
  BY <1>3, <1>4, <1>6 DEF ConstructGrown, Fails
<1>7. CASE Construct(o, a, v, w)
  BY <1>5, <1>6, <1>7 DEF Construct
<1>8. CASE ConstructFromLimbs(o, a, v, w)
  <2>1. w <= InplaceCapacity => n <= InplaceCapacity
    BY <1>1, StorageAssumption
  <2>2. QED
    BY <1>5, <1>6, <1>8, <2>1 DEF ConstructFromLimbs
<1>9. QED
  BY <1>7, <1>8

(* copy_limbs_from copies all limbs, into a place that has room for them. *)
LEMMA CopyLimbsFromKeepsCanonical ==
  ASSUME CInv, NEW o \in Objects, NEW x \in Objects, NEW a \in Allocators, NEW name,
         ~Alive(o), Alive(x), CopyLimbsFrom(name, o, x, a)
  PROVE  Canonical'
<1> DEFINE n == obj[x].count
           m == LimbsAt(x)
<1>1. /\ CanonicalAt(x) /\ n \in 1 .. MaxLimbs /\ Inplace(o)
  BY CanonicalFacts, ObjectFacts DEF CInv
<1>2. m \in Magnitudes /\ n = LimbsOf[m] /\ (obj[x].neg => m # Zero)
  BY <1>1 DEF CanonicalAt
<1>3. CASE /\ n <= InplaceCapacity
           /\ obj' = [obj EXCEPT ![o] =
                        Rep(0, obj[x].neg, n, Copied(m, n, InplaceCapacity), a)]
           /\ HeapUnchanged
  BY <1>2, <1>3, CopiedWhole, ReleaseKeepsCanonical
<1>4. CASE UNCHANGED <<obj, block>>
  BY <1>4, UnchangedKeepsCanonical DEF CInv
<1>5. ASSUME NEW b \in FreeBlocks, NEW c \in Returned(n),
             NewBlock(b, HeapBlock(a, c, Copied(m, n, c))),
             obj' = [obj EXCEPT ![o] = Rep(c, obj[x].neg, n, b, a)]
      PROVE  Canonical'
  <2>1. c \in BlockCounts /\ n <= c
    BY <1>1, ReturnedType, ReturnedAtLeast
  <2>2. ReplaceStorage(o, b, HeapBlock(a, c, m))
    BY <1>1, <1>2, <1>5, <2>1, CopiedWhole DEF ReplaceStorage
  <2>3. QED
    BY <1>2, <1>5, <2>1, <2>2, ReplaceKeepsCanonical
<1>6. QED
  BY <1>3, <1>4, <1>5 DEF CopyLimbsFrom, Fails

(* A move construction copies an in-place value and takes over a block. *)
LEMMA MoveConstructKeepsCanonical ==
  ASSUME CInv, NEW o \in Objects, NEW x \in Objects, MoveConstruct(o, x)
  PROVE  Canonical'
<1>1. ~Alive(o) /\ Alive(x) /\ o # x /\ HeapUnchanged /\ CanonicalAt(x)
  BY CanonicalFacts DEF MoveConstruct
<1>2. CASE Inplace(x)
  <2>1. obj[x] \in ObjectReps
    BY DEF CInv, Inv, TypeOK
  <2>2. obj[x] = Rep(0, obj[x].neg, obj[x].count, obj[x].storage, obj[x].alloc)
    BY <1>2, <2>1 DEF ObjectReps, Rep, Inplace
  <2>3. /\ obj[x].storage \in Magnitudes /\ obj[x].count = LimbsOf[obj[x].storage]
        /\ (obj[x].neg => obj[x].storage # Zero) /\ obj[x].count <= InplaceCapacity
    BY <1>1, <1>2 DEF CanonicalAt, LimbsAt, EffectiveCapacity
  <2>4. obj' = [obj EXCEPT ![o] = obj[x]]
    BY <1>2 DEF MoveConstruct
  <2>5. QED
    BY <1>1, <2>2, <2>3, <2>4, ReleaseKeepsCanonical
<1>3. CASE ~Inplace(x)
  BY <1>1, <1>3, HandOverKeepsCanonical DEF MoveConstruct, TakeOver
<1>4. QED
  BY <1>2, <1>3

(* With an allocator that cannot free the block, the limbs are copied instead. *)
LEMMA MoveConstructWithKeepsCanonical ==
  ASSUME CInv, NEW o \in Objects, NEW x \in Objects, NEW a \in Allocators,
         MoveConstructWith(o, x, a)
  PROVE  Canonical'
<1>1. ~Alive(o) /\ Alive(x) /\ o # x
  BY DEF MoveConstructWith
<1>2. CASE CopyLimbsFrom("move_construct", o, x, a)
  BY <1>1, <1>2, CopyLimbsFromKeepsCanonical
<1>3. CASE ~Inplace(x) /\ TakeOver("move_construct", o, x, a) /\ HeapUnchanged
  BY <1>1, <1>3, HandOverKeepsCanonical DEF TakeOver
<1>4. QED
  BY <1>2, <1>3 DEF MoveConstructWith

(* Each copying path of assign_value has room for all limbs of its source. *)
LEMMA AssignByCopyKeepsCanonical ==
  ASSUME CInv, NEW o \in Objects, NEW x \in Objects, NEW name, NEW failure, NEW propagate,
         Alive(x), AssignByCopy(name, o, x, propagate, failure)
  PROVE  Canonical'
<1> DEFINE n == obj[x].count
           m == LimbsAt(x)
           a == Propagated(o, x, propagate)
<1>1. /\ n \in 1 .. MaxLimbs
      /\ m \in Magnitudes /\ n = LimbsOf[m] /\ (obj[x].neg => m # Zero)
  BY CanonicalFacts DEF CanonicalAt
<1>2. CASE n <= EffectiveCapacity(o) /\ AssignInBuffer(name, o, x, propagate)
  <2>1. Copied(m, n, EffectiveCapacity(o)) = m
    BY <1>1, <1>2, CopiedWhole
  <2>2. /\ obj' = [obj EXCEPT ![o] = Rep(obj[o].capacity, obj[x].neg, n,
                                        IF Inplace(o) THEN m ELSE obj[o].storage, a)]
        /\ WriteLimbs(o, m)
    BY <1>2, <2>1 DEF AssignInBuffer
  <2>3. QED
    BY <1>1, <1>2, <2>2, RewriteKeepsCanonical
<1>3. CASE Inplace(x) /\ n <= InplaceCapacity /\ AssignInplace(name, o, x, propagate)
  <2>1. obj[x].storage = m
    BY <1>3 DEF LimbsAt
  <2>2. FreeStorage(o) /\ obj' = [obj EXCEPT ![o] = Rep(0, obj[x].neg, n, m, a)]
    BY <1>3, <2>1 DEF AssignInplace
  <2>3. QED
    BY <1>1, <1>3, <2>2, ReleaseKeepsCanonical
<1>4. CASE UNCHANGED <<obj, block>>
  BY <1>4, UnchangedKeepsCanonical DEF CInv
<1>5. ASSUME NEW b \in FreeBlocks, NEW c \in Returned(n),
             ReplaceStorage(o, b, HeapBlock(a, c, Copied(m, n, c))),
             obj' = [obj EXCEPT ![o] = Rep(c, obj[x].neg, n, b, a)]
      PROVE  Canonical'
  <2>1. c \in BlockCounts /\ n <= c /\ Copied(m, n, c) = m
    BY <1>1, ReturnedType, ReturnedAtLeast, CopiedWhole
  <2>2. ReplaceStorage(o, b, HeapBlock(a, c, m))
    BY <1>5, <2>1
  <2>3. QED
    BY <1>1, <1>5, <2>1, <2>2, ReplaceKeepsCanonical
<1>6. QED
  BY <1>2, <1>3, <1>4, <1>5 DEF AssignByCopy, AssignFresh, Fails

(* Copy assignment copies, or is a self-assignment. *)
LEMMA CopyAssignKeepsCanonical ==
  ASSUME CInv, NEW o \in Objects, NEW x \in Objects, CopyAssign(o, x)
  PROVE  Canonical'
  BY AssignByCopyKeepsCanonical, UnchangedKeepsCanonical DEF CopyAssign, SelfAssign, CInv

(* Move assignment takes the block of its source over, or copies. *)
LEMMA MoveAssignKeepsCanonical ==
  ASSUME CInv, NEW o \in Objects, NEW x \in Objects, MoveAssign(o, x)
  PROVE  Canonical'
<1>1. Alive(x)
  BY DEF MoveAssign
<1>2. CASE /\ o # x /\ Steals(o, x) /\ FreeStorage(o)
           /\ TakeOver("move_assign", o, x, Propagated(o, x, POCMA))
  BY <1>1, <1>2, HandOverKeepsCanonical DEF TakeOver, Steals
<1>3. CASE AssignByCopy("move_assign", o, x, POCMA, "terminated")
  BY <1>1, <1>3, AssignByCopyKeepsCanonical
<1>4. QED
  BY <1>2, <1>3, UnchangedKeepsCanonical DEF MoveAssign, SelfAssign, CInv

(* Each object ends as canonical as the other was. *)
LEMMA SwapKeepsCanonical ==
  ASSUME CInv, NEW o \in Objects, NEW x \in Objects, Swap(o, x)
  PROVE  Canonical'
<1>1. /\ obj'[o].neg = obj[x].neg /\ obj'[o].count = obj[x].count
      /\ obj'[x].neg = obj[o].neg /\ obj'[x].count = obj[o].count
      /\ LimbsAt(o)' = LimbsAt(x) /\ LimbsAt(x)' = LimbsAt(o)
      /\ EffectiveCapacity(o)' = EffectiveCapacity(x)
      /\ EffectiveCapacity(x)' = EffectiveCapacity(o)
      /\ Alive(o) /\ Alive(x) /\ Untouched({o, x})
  BY SwapHolds DEF CInv
<1>2. CanonicalAt(o) /\ CanonicalAt(x)
  BY <1>1, CanonicalFacts
<1>3. CanonicalAt(o)' /\ CanonicalAt(x)'
  BY <1>1, <1>2 DEF CanonicalAt
<1>4. QED
  BY <1>1, <1>3, CanonicalKept DEF CInv

(* grow copies the limbs that count, and makes room for more. *)
LEMMA GrowPastKeepsCanonical ==
  ASSUME CInv, NEW o \in Objects, NEW name, NEW arg, NEW n \in Nat, NEW neg,
         NEW m \in Magnitudes, NEW count, count = LimbsOf[m], neg => m # Zero,
         n <= MaxLimbs => count <= GrownCapacity(o, n),
         GrowPast(name, o, arg, n, neg, count, m)
  PROVE  Canonical'
<1>1. CASE UNCHANGED <<obj, block>>
  BY <1>1, UnchangedKeepsCanonical DEF CInv
<1>2. ASSUME n <= MaxLimbs,
             NEW b \in FreeBlocks, NEW c \in Returned(GrownCapacity(o, n)),
             ReplaceStorage(o, b, HeapBlock(obj[o].alloc, c, m)),
             obj' = [obj EXCEPT ![o] = Rep(c, neg, count, b, obj[o].alloc)]
      PROVE  Canonical'
  <2>1. c \in BlockCounts /\ GrownCapacity(o, n) <= c /\ GrownCapacity(o, n) \in Nat /\ c \in Int
    BY GrownCapacityType, ReturnedType, ReturnedAtLeast DEF CInv
  <2>2. count \in Nat
    BY StorageAssumption
  <2>3. count <= c
    BY <1>2, <2>1, <2>2
  <2>4. QED
    BY <1>2, <2>1, <2>3, ReplaceKeepsCanonical
<1>3. QED
  BY <1>1, <1>2 DEF GrowPast, Fails

(* reserve moves the limbs that count to a larger block. *)
LEMMA ReserveKeepsCanonical ==
  ASSUME CInv, NEW o \in Objects, NEW n \in Nat, Reserve(o, n)
  PROVE  Canonical'
<1> DEFINE m == LimbsAt(o)
           count == obj[o].count
<1>1. /\ count \in 1 .. MaxLimbs /\ count <= EffectiveCapacity(o)
      /\ EffectiveCapacity(o) \in Nat
      /\ m \in Magnitudes /\ count = LimbsOf[m] /\ (obj[o].neg => m # Zero)
  BY CanonicalFacts DEF CanonicalAt, Reserve
<1>2. CASE UNCHANGED <<obj, block>>
  BY <1>2, UnchangedKeepsCanonical DEF CInv
<1>3. CASE /\ n > EffectiveCapacity(o) /\ n > MaxLimbs
           /\ GrowPast("reserve", o, Absent, n, obj[o].neg, count,
                       Copied(m, count, GrownCapacity(o, n)))
  BY <1>2, <1>3, StorageAssumption DEF GrowPast, Fails
<1>4. CASE /\ n > EffectiveCapacity(o) /\ n <= MaxLimbs
           /\ GrowPast("reserve", o, Absent, n, obj[o].neg, count,
                       Copied(m, count, GrownCapacity(o, n)))
  <2>1. GrownCapacity(o, n) \in Nat /\ EffectiveCapacity(o) <= GrownCapacity(o, n)
    BY <1>1, <1>4, GrownAtLeast, StorageAssumption DEF CInv
  <2>2. count <= GrownCapacity(o, n)
    BY <1>1, <2>1
  <2>3. Copied(m, count, GrownCapacity(o, n)) = m
    BY <1>1, <2>2, CopiedWhole
  <2>4. QED
    BY <1>1, <1>4, <2>2, <2>3, GrowPastKeepsCanonical
<1>5. n > MaxLimbs \/ n <= MaxLimbs
  BY StorageAssumption
<1>6. QED
  BY <1>2, <1>3, <1>4, <1>5 DEF Reserve

(* An integer is written where grow(w) has made room for at least its limbs. *)
LEMMA AssignIntegerKeepsCanonical ==
  ASSUME CInv, NEW o \in Objects, NEW v \in Values, NEW w \in Nat, AssignInteger(o, v, w)
  PROVE  Canonical'
<1> DEFINE n == LimbsOf[v.mag]
<1>1. /\ v.mag \in Magnitudes /\ (v.neg => v.mag # Zero) /\ n \in 1 .. MaxLimbs /\ n <= w
  BY StorageAssumption DEF Values, AssignInteger
<1>2. EffectiveCapacity(o) \in Nat
  BY CanonicalFacts DEF AssignInteger
<1>3. CASE /\ w <= EffectiveCapacity(o)
           /\ obj' = [obj EXCEPT ![o] = Rep(obj[o].capacity, v.neg, n,
                        IF Inplace(o) THEN v.mag ELSE obj[o].storage, obj[o].alloc)]
           /\ WriteLimbs(o, v.mag)
  <2>1. n <= EffectiveCapacity(o)
    BY <1>1, <1>2, <1>3
  <2>2. QED
    BY <1>1, <1>3, <2>1, RewriteKeepsCanonical
<1>4. CASE GrowPast("assign_integer", o, v, w, v.neg, n, v.mag)
  <2>1. w <= MaxLimbs => n <= GrownCapacity(o, w)
    BY <1>1, GrownAtLeast, StorageAssumption DEF CInv
  <2>2. QED
    BY <1>1, <1>4, <2>1, GrowPastKeepsCanonical
<1>5. QED
  BY <1>3, <1>4 DEF AssignInteger

(* shrink_to_fit moves all limbs that count, in place or to a smaller block. *)
LEMMA ShrinkToFitKeepsCanonical ==
  ASSUME CInv, NEW o \in Objects, ShrinkToFit(o)
  PROVE  Canonical'
<1> DEFINE n == obj[o].count
           m == LimbsAt(o)
           a == obj[o].alloc
<1>1. /\ n \in 1 .. MaxLimbs
      /\ m \in Magnitudes /\ n = LimbsOf[m] /\ (obj[o].neg => m # Zero)
  BY CanonicalFacts DEF CanonicalAt, ShrinkToFit
<1>2. CASE UNCHANGED <<obj, block>>
  BY <1>2, UnchangedKeepsCanonical DEF CInv
<1>3. CASE /\ n <= InplaceCapacity
           /\ obj' = [obj EXCEPT ![o] = Rep(0, obj[o].neg, n, Copied(m, n, InplaceCapacity), a)]
           /\ FreeStorage(o)
  BY <1>1, <1>3, CopiedWhole, ReleaseKeepsCanonical
<1>4. ASSUME NEW b \in FreeBlocks, NEW c \in Returned(n),
             ReplaceStorage(o, b, HeapBlock(a, c, Copied(m, n, c))),
             obj' = [obj EXCEPT ![o] = Rep(c, obj[o].neg, n, b, a)]
      PROVE  Canonical'
  <2>1. c \in BlockCounts /\ n <= c /\ Copied(m, n, c) = m
    BY <1>1, ReturnedType, ReturnedAtLeast, CopiedWhole
  <2>2. ReplaceStorage(o, b, HeapBlock(a, c, m))
    BY <1>4, <2>1
  <2>3. QED
    BY <1>1, <1>4, <2>1, <2>2, ReplaceKeepsCanonical
<1>5. QED
  BY <1>2, <1>3, <1>4 DEF ShrinkToFit, Fails

(* A dead object holds an in-place zero. *)
LEMMA DestroyKeepsCanonical ==
  ASSUME CInv, NEW o \in Objects, Destroy(o)
  PROVE  Canonical'
<1>1. Zero \in Magnitudes /\ LimbsOf[Zero] = 1 /\ 1 <= InplaceCapacity
  BY StorageAssumption
<1>2. FreeStorage(o) /\ obj' = [obj EXCEPT ![o] = Rep(0, FALSE, 1, Zero, NoAlloc)]
  BY DEF Destroy, Dead
<1>3. QED
  BY <1>1, <1>2, ReleaseKeepsCanonical

(* Every step keeps every live object canonical. *)
LEMMA NextKeepsCanonical == CInv /\ [Next]_vars => Canonical'
<1> SUFFICES ASSUME CInv, [Next]_vars PROVE Canonical'
  OBVIOUS
<1>1. ASSUME NEW o \in Objects, NEW a \in Allocators, NEW v \in Values,
             NEW w \in 1 .. MaxWidth,
             Construct(o, a, v, w) \/ ConstructFromLimbs(o, a, v, w)
      PROVE  Canonical'
  BY <1>1, ConstructKeepsCanonical, StorageAssumption
<1>2. ASSUME NEW o \in Objects, NEW a \in Allocators, NEW x \in Objects,
             CopyConstructWith(o, x, a)
      PROVE  Canonical'
  BY <1>2, CopyLimbsFromKeepsCanonical DEF CopyConstructWith
<1>3. ASSUME NEW o \in Objects, NEW x \in Objects, CopyConstruct(o, x)
      PROVE  Canonical'
  <2>1. Selected[obj[x].alloc] \in Allocators
    BY <1>3, StorageAssumption, ObjectFacts DEF CopyConstruct, CInv
  <2>2. QED
    BY <1>3, <2>1, CopyLimbsFromKeepsCanonical DEF CopyConstruct
<1>4. ASSUME NEW o \in Objects, NEW v \in Values, NEW w \in 1 .. MaxWidth,
             AssignInteger(o, v, w)
      PROVE  Canonical'
  BY <1>4, AssignIntegerKeepsCanonical, StorageAssumption
<1>5. ASSUME NEW o \in Objects, NEW n \in 0 .. MaxLimbs + 1, Reserve(o, n)
      PROVE  Canonical'
  BY <1>5, ReserveKeepsCanonical, StorageAssumption
<1>6. CASE ConstructStep
  BY <1>1, <1>2, <1>6, MoveConstructWithKeepsCanonical DEF ConstructStep
<1>7. CASE AssignStep
  BY <1>3, <1>7, MoveConstructKeepsCanonical, CopyAssignKeepsCanonical,
     MoveAssignKeepsCanonical, SwapKeepsCanonical DEF AssignStep
<1>8. CASE UnaryStep
  BY <1>4, <1>5, <1>8, ShrinkToFitKeepsCanonical, DestroyKeepsCanonical DEF UnaryStep
<1>9. CASE UNCHANGED vars
  BY <1>9, UnchangedKeepsCanonical DEF vars, CInv
<1>10. QED
  BY <1>6, <1>7, <1>8, <1>9 DEF Next

(***************************************************************************)
(* The theorem.                                                            *)
(***************************************************************************)

(* Whatever calls run and fail, every live object holds one whole magnitude *)
(* in trimmed form within its capacity, and a zero has no sign: no copy is  *)
(* too short or too long, no buffer is changed by a call on another object, *)
(* and no moved-from object keeps parts of what it gave away.               *)
THEOREM StorageCanonical == Spec => []Canonical
<1>1. Init => Canonical
  BY DEF Init, Canonical, Alive, Dead, Rep
<1>2. CInv /\ [Next]_vars => CInv'
  BY NextKeepsInv, NextKeepsCanonical DEF CInv
<1>3. QED
  BY <1>1, <1>2, InitInv, PTL DEF Spec, CInv

(***************************************************************************)
(* Allocators.                                                             *)
(***************************************************************************)

(* A trait of the call that returned makes o's allocator that of its partner. *)
Propagates ==
  /\ call'.outcome = "ok"
  /\ \/ call'.name = "copy_assign" /\ POCCA
     \/ call'.name = "move_assign" /\ POCMA
     \/ call'.name = "swap" /\ POCS

Partner(o) ==
  IF o = call'.target THEN call'.arg
  ELSE IF call'.name = "swap" /\ o = call'.arg THEN call'.target
  ELSE o

AllocatorsFollow ==
  \A o \in Objects : Alive(o) /\ Alive(o)' =>
    obj'[o].alloc = IF Propagates THEN obj[Partner(o)].alloc ELSE obj[o].alloc

(* Calls that are no assignment and no swap leave the allocator of every live object. *)
LEMMA AllocatorsKept ==
  ASSUME call'.name \notin {"copy_assign", "move_assign", "swap"} \/ call'.outcome # "ok",
         \A y \in Objects : Alive(y) /\ Alive(y)' => obj'[y].alloc = obj[y].alloc
  PROVE  AllocatorsFollow
  BY DEF AllocatorsFollow, Propagates

(* A call that gives the object o a new representation leaves the other objects' alone. *)
LEMMA OneRebuilt ==
  ASSUME TypeOK, NEW o \in Objects, NEW r, obj' = [obj EXCEPT ![o] = r]
  PROVE  obj'[o] = r /\ \A y \in Objects \ {o} : obj'[y] = obj[y]
  BY DEF TypeOK

(* A constructor starts the lifetime of one object and leaves the other allocators. *)
LEMMA ConstructorAllocators ==
  ASSUME TypeOK, NEW o \in Objects, ~Alive(o), NEW name, NEW x, NEW a,
         name \notin {"copy_assign", "move_assign", "swap"},
         CopyLimbsFrom(name, o, x, a)
  PROVE  AllocatorsFollow
<1>1. call'.name = name
  BY DEF CopyLimbsFrom, Fails, Ok, Called
<1>2. \A y \in Objects \ {o} : obj'[y] = obj[y]
  BY OneRebuilt DEF CopyLimbsFrom, Fails
<1>3. QED
  BY <1>1, <1>2, AllocatorsKept

(* assign_value by copy: the trait it is given decides about the allocator. *)
LEMMA AssignByCopyAllocators ==
  ASSUME TypeOK, NEW o \in Objects, NEW x \in Objects, NEW name, NEW propagate \in BOOLEAN,
         NEW failure, failure # "ok",
         \/ name = "copy_assign" /\ propagate = POCCA
         \/ name = "move_assign" /\ propagate = POCMA,
         AssignByCopy(name, o, x, propagate, failure)
  PROVE  AllocatorsFollow
<1>1. Fails(name, o, x, failure) => AllocatorsFollow
  BY AllocatorsKept DEF Fails, Called
<1>2. ASSUME Ok(name, o, x),
             obj'[o].alloc = Propagated(o, x, propagate),
             \A y \in Objects \ {o} : obj'[y] = obj[y]
      PROVE  AllocatorsFollow
  <2>1. /\ call'.target = o /\ call'.arg = x /\ call'.name = name /\ call'.outcome = "ok"
        /\ Propagates = propagate
    BY <1>2 DEF Ok, Called, Propagates
  <2>2. \A y \in Objects : Partner(y) = IF y = o THEN x ELSE y
    BY <2>1 DEF Partner
  <2>3. QED
    BY <1>2, <2>1, <2>2 DEF AllocatorsFollow, Propagated
<1>3. ASSUME NEW r, obj' = [obj EXCEPT ![o] = r], r.alloc = Propagated(o, x, propagate),
             Ok(name, o, x)
      PROVE  AllocatorsFollow
  <2>1. obj'[o] = r /\ \A y \in Objects \ {o} : obj'[y] = obj[y]
    BY <1>3, OneRebuilt
  <2>2. QED
    BY <1>2, <1>3, <2>1
<1>4. CASE AssignInBuffer(name, o, x, propagate)
  <2> DEFINE copy == Copied(LimbsAt(x), obj[x].count, EffectiveCapacity(o))
             r    == Rep(obj[o].capacity, obj[x].neg, obj[x].count,
                         IF Inplace(o) THEN copy ELSE obj[o].storage, Propagated(o, x, propagate))
  <2>1. obj' = [obj EXCEPT ![o] = r] /\ Ok(name, o, x)
    BY <1>4 DEF AssignInBuffer
  <2>2. r.alloc = Propagated(o, x, propagate)
    BY DEF Rep
  <2> HIDE DEF r
  <2>3. QED
    BY <1>3, <2>1, <2>2
<1>5. CASE AssignInplace(name, o, x, propagate)
  BY <1>3, <1>5 DEF AssignInplace, Rep
<1>6. CASE AssignFresh(name, o, x, propagate, failure)
  BY <1>1, <1>3, <1>6 DEF AssignFresh, Rep
<1>7. QED
  BY <1>4, <1>5, <1>6 DEF AssignByCopy

(* A buffer that changes hands leaves the source with its allocator. *)
LEMMA TakeOverAllocators ==
  ASSUME TypeOK, NEW o \in Objects, NEW x \in Objects, o # x, NEW a, NEW name,
         TakeOver(name, o, x, a)
  PROVE  /\ obj'[o].alloc = a /\ obj'[x].alloc = obj[x].alloc
         /\ \A y \in Objects \ {o, x} : obj'[y] = obj[y]
         /\ call' = [name |-> name, target |-> o, arg |-> x, outcome |-> "ok"]
  BY DEF TypeOK, TakeOver, TakenFrom, Rep, Ok, Called

(* The trait of move assignment decides, whether the buffer is taken or its limbs copied. *)
LEMMA MoveAssignAllocators ==
  ASSUME TypeOK, NEW o \in Objects, NEW x \in Objects, MoveAssign(o, x)
  PROVE  AllocatorsFollow
<1>1. CASE o = x /\ SelfAssign("move_assign", o)
  BY <1>1 DEF SelfAssign, Ok, Called, AllocatorsFollow, Partner
<1>2. CASE o # x /\ TakeOver("move_assign", o, x, Propagated(o, x, POCMA))
  BY <1>2, TakeOverAllocators DEF AllocatorsFollow, Partner, Propagates, Propagated
<1>3. CASE o # x /\ AssignByCopy("move_assign", o, x, POCMA, "terminated")
  BY <1>3, AssignByCopyAllocators, StorageAssumption
<1>4. QED
  BY <1>1, <1>2, <1>3 DEF MoveAssign

(* The trait of copy assignment decides. *)
LEMMA CopyAssignAllocators ==
  ASSUME TypeOK, NEW o \in Objects, NEW x \in Objects, CopyAssign(o, x)
  PROVE  AllocatorsFollow
<1>1. CASE o = x /\ SelfAssign("copy_assign", o)
  BY <1>1 DEF SelfAssign, Ok, Called, AllocatorsFollow, Partner
<1>2. CASE o # x /\ AssignByCopy("copy_assign", o, x, POCCA, AllocationFailure(obj[x].count))
  BY <1>2, AssignByCopyAllocators, StorageAssumption DEF AllocationFailure
<1>3. QED
  BY <1>1, <1>2 DEF CopyAssign

(* The trait of swap decides. *)
LEMMA SwapAllocators ==
  ASSUME TypeOK, NEW o \in Objects, NEW x \in Objects, Swap(o, x)
  PROVE  AllocatorsFollow
<1>1. /\ call' = [name |-> "swap", target |-> o, arg |-> x, outcome |-> "ok"]
      /\ obj'[o].alloc = IF POCS THEN obj[x].alloc ELSE obj[o].alloc
      /\ obj'[x].alloc = IF POCS THEN obj[o].alloc ELSE obj[x].alloc
      /\ \A y \in Objects \ {o, x} : obj'[y] = obj[y]
  BY DEF TypeOK, ObjectReps, Swap, Ok, Called
<1>2. QED
  BY <1>1 DEF AllocatorsFollow, Partner, Propagates

(* Every call that changes anything. *)
LEMMA StepAllocators == TypeOK /\ [Next]_vars => AllocatorsFollow \/ UNCHANGED vars
<1> SUFFICES ASSUME TypeOK, [Next]_vars, ~UNCHANGED vars PROVE AllocatorsFollow
  OBVIOUS
<1>1. ASSUME NEW o \in Objects, NEW a, NEW v, NEW w,
             Construct(o, a, v, w) \/ ConstructFromLimbs(o, a, v, w)
      PROVE  AllocatorsFollow
  <2>1. call'.name \in {"construct", "construct_from_limbs"} /\ ~Alive(o)
    BY <1>1 DEF Construct, ConstructFromLimbs, ConstructInplace, ConstructGrown, Fails, Ok, Called
  <2>2. \A y \in Objects \ {o} : obj'[y] = obj[y]
    BY <1>1, OneRebuilt DEF Construct, ConstructFromLimbs, ConstructInplace, ConstructGrown, Fails
  <2>3. QED
    BY <2>1, <2>2, AllocatorsKept
<1>2. ASSUME NEW o \in Objects, NEW x \in Objects, NEW a,
             CopyConstructWith(o, x, a) \/ CopyConstruct(o, x)
      PROVE  AllocatorsFollow
  BY <1>2, ConstructorAllocators DEF CopyConstructWith, CopyConstruct
<1>3. ASSUME NEW o \in Objects, NEW x \in Objects, NEW a, MoveConstructWith(o, x, a)
      PROVE  AllocatorsFollow
  <2>1. CASE CopyLimbsFrom("move_construct", o, x, a)
    BY <1>3, <2>1, ConstructorAllocators DEF MoveConstructWith
  <2>2. CASE TakeOver("move_construct", o, x, a)
    BY <1>3, <2>2, TakeOverAllocators, AllocatorsKept DEF MoveConstructWith
  <2>3. QED
    BY <1>3, <2>1, <2>2 DEF MoveConstructWith
<1>4. ASSUME NEW o \in Objects, NEW x \in Objects, MoveConstruct(o, x)
      PROVE  AllocatorsFollow
  <2>1. CASE obj' = [obj EXCEPT ![o] = obj[x]] /\ Ok("move_construct", o, x)
    BY <1>4, <2>1, OneRebuilt, AllocatorsKept DEF MoveConstruct, Ok, Called
  <2>2. CASE TakeOver("move_construct", o, x, obj[x].alloc)
    BY <1>4, <2>2, TakeOverAllocators, AllocatorsKept DEF MoveConstruct
  <2>3. QED
    BY <1>4, <2>1, <2>2 DEF MoveConstruct
<1>5. ASSUME NEW o \in Objects, NEW arg, NEW n, NEW name, NEW neg, NEW count, NEW m,
             name \in {"reserve", "assign_integer"}, GrowPast(name, o, arg, n, neg, count, m)
      PROVE  AllocatorsFollow
  <2>1. call'.name = name
    BY <1>5 DEF GrowPast, Fails, Ok, Called
  <2>2. obj'[o].alloc = obj[o].alloc /\ \A y \in Objects \ {o} : obj'[y] = obj[y]
    BY <1>5, OneRebuilt DEF GrowPast, Fails, Rep
  <2>3. QED
    BY <1>5, <2>1, <2>2, AllocatorsKept
<1>6. ASSUME NEW o \in Objects, NEW v, NEW w, AssignInteger(o, v, w)
      PROVE  AllocatorsFollow
  <2>1. CASE /\ obj' = [obj EXCEPT ![o] = Rep(obj[o].capacity, v.neg, LimbsOf[v.mag],
                          IF Inplace(o) THEN v.mag ELSE obj[o].storage, obj[o].alloc)]
             /\ Ok("assign_integer", o, v)
    <3>1. obj'[o].alloc = obj[o].alloc /\ \A y \in Objects \ {o} : obj'[y] = obj[y]
      BY <2>1, OneRebuilt DEF Rep
    <3>2. QED
      BY <2>1, <3>1, AllocatorsKept DEF Ok, Called
  <2>2. QED
    BY <1>5, <1>6, <2>1 DEF AssignInteger
<1>7. ASSUME NEW o \in Objects, NEW n, Reserve(o, n)
      PROVE  AllocatorsFollow
  BY <1>5, <1>7, AllocatorsKept DEF Reserve, Ok, Called
<1>8. ASSUME NEW o \in Objects, ShrinkToFit(o)
      PROVE  AllocatorsFollow
  <2>1. call'.name = "shrink_to_fit"
    BY <1>8 DEF ShrinkToFit, Fails, Ok, Called
  <2>2. CASE obj' = obj
    BY <2>1, <2>2, AllocatorsKept
  <2>3. ASSUME NEW r, obj' = [obj EXCEPT ![o] = r], r.alloc = obj[o].alloc
        PROVE  AllocatorsFollow
    BY <2>1, <2>3, OneRebuilt, AllocatorsKept
  <2>4. CASE obj' = [obj EXCEPT ![o] = Rep(0, obj[o].neg, obj[o].count,
                       Copied(LimbsAt(o), obj[o].count, InplaceCapacity), obj[o].alloc)]
    BY <2>3, <2>4 DEF Rep
  <2>5. ASSUME NEW b, NEW c,
               obj' = [obj EXCEPT ![o] = Rep(c, obj[o].neg, obj[o].count, b, obj[o].alloc)]
        PROVE  AllocatorsFollow
    BY <2>3, <2>5 DEF Rep
  <2>6. CASE Fails("shrink_to_fit", o, Absent, AllocationFailure(obj[o].count))
    BY <2>2, <2>6 DEF Fails
  <2>7. CASE \E b \in FreeBlocks, c \in Returned(obj[o].count) :
               obj' = [obj EXCEPT ![o] = Rep(c, obj[o].neg, obj[o].count, b, obj[o].alloc)]
    BY <2>5, <2>7
  <2>8. \/ obj' = obj
        \/ obj' = [obj EXCEPT ![o] = Rep(0, obj[o].neg, obj[o].count,
                     Copied(LimbsAt(o), obj[o].count, InplaceCapacity), obj[o].alloc)]
        \/ Fails("shrink_to_fit", o, Absent, AllocationFailure(obj[o].count))
        \/ \E b \in FreeBlocks, c \in Returned(obj[o].count) :
               obj' = [obj EXCEPT ![o] = Rep(c, obj[o].neg, obj[o].count, b, obj[o].alloc)]
    BY <1>8, Zenon DEF ShrinkToFit
  <2>9. QED
    BY <2>2, <2>4, <2>6, <2>7, <2>8
<1>9. ASSUME NEW o \in Objects, Destroy(o)
      PROVE  AllocatorsFollow
  <2>1. call'.name = "destroy" /\ obj' = [obj EXCEPT ![o] = Dead]
    BY <1>9 DEF Destroy, Ok, Called
  <2>2. obj'[o] = Dead /\ \A y \in Objects \ {o} : obj'[y] = obj[y]
    BY <2>1, OneRebuilt
  <2>3. ~Alive(o)'
    BY <2>2 DEF Alive, Dead, Rep
  <2>4. QED
    BY <2>1, <2>2, <2>3, AllocatorsKept
<1>10. CASE ConstructStep
  BY <1>1, <1>2, <1>3, <1>10 DEF ConstructStep
<1>11. CASE AssignStep
  BY <1>2, <1>4, <1>11, CopyAssignAllocators, MoveAssignAllocators, SwapAllocators DEF AssignStep
<1>12. CASE UnaryStep
  BY <1>6, <1>7, <1>8, <1>9, <1>12 DEF UnaryStep
<1>13. QED
  BY <1>10, <1>11, <1>12 DEF Next

(* The allocator of a live object changes exactly as the propagation traits say. *)
THEOREM AllocatorsPropagate == Spec => AllocatorPropagation
<1>1. TypeOK /\ [Next]_vars =>
        [LET propagates == /\ call'.outcome = "ok"
                           /\ \/ call'.name = "copy_assign" /\ POCCA
                              \/ call'.name = "move_assign" /\ POCMA
                              \/ call'.name = "swap" /\ POCS
             Mate(o) == IF o = call'.target THEN call'.arg
                        ELSE IF call'.name = "swap" /\ o = call'.arg THEN call'.target
                        ELSE o
         IN  \A o \in Objects : Alive(o) /\ Alive(o)' =>
               obj'[o].alloc = IF propagates THEN obj[Mate(o)].alloc ELSE obj[o].alloc]_vars
  BY StepAllocators DEF AllocatorsFollow, Propagates, Partner
<1>2. QED
  BY <1>1, TypeCorrect, PTL DEF Spec, AllocatorPropagation

(***************************************************************************)
(* Failures.                                                               *)
(***************************************************************************)

(* Assigning by copy fails only from a heap source for which there is no room. *)
LEMMA CopyAssignmentFails ==
  ASSUME CInv, NEW o \in Objects, NEW x \in Objects, Alive(o), Alive(x),
         NEW name, NEW propagate, NEW failure,
         AssignByCopy(name, o, x, propagate, failure), Failed
  PROVE  /\ ~Inplace(x)
         /\ ~(KeepsBuffer(o, x, propagate) /\ obj[x].count <= EffectiveCapacity(o))
         /\ call'.target = o /\ call'.arg = x
<1>1. obj[x].count <= EffectiveCapacity(x)
  BY DEF CInv, Canonical
<1>2. Inplace(x) => obj[x].count <= InplaceCapacity
  BY <1>1 DEF EffectiveCapacity
<1>3. QED
  BY <1>2 DEF AssignByCopy, AssignInBuffer, AssignInplace, AssignFresh, Fails, Ok, Called, Failed

(* A move assignment fails only where its comment says it may. *)
LEMMA MoveAssignmentFails ==
  ASSUME CInv, NEW o \in Objects, NEW x \in Objects, MoveAssign(o, x), Failed
  PROVE  /\ ~Inplace(x) /\ ~POCMA /\ ~SameAllocator(obj[o].alloc, obj[x].alloc)
         /\ obj[x].count > EffectiveCapacity(o)
         /\ call'.target = o /\ call'.arg = x
<1>1. AssignByCopy("move_assign", o, x, POCMA, "terminated") /\ ~Steals(o, x)
      /\ Alive(o) /\ Alive(x)
  BY DEF MoveAssign, SelfAssign, TakeOver, Ok, Called, Failed
<1>2. /\ ~Inplace(x)
      /\ ~(KeepsBuffer(o, x, POCMA) /\ obj[x].count <= EffectiveCapacity(o))
      /\ call'.target = o /\ call'.arg = x
  BY <1>1, CopyAssignmentFails
<1>3. ~POCMA /\ ~SameAllocator(obj[o].alloc, obj[x].alloc)
  BY <1>1, <1>2 DEF Steals
<1>4. obj[x].count \in Int /\ EffectiveCapacity(o) \in Int
  BY <1>1, StorageAssumption DEF CInv, Inv, TypeOK, ObjectReps, BlockCounts, EffectiveCapacity
<1>5. QED
  BY <1>2, <1>3, <1>4 DEF KeepsBuffer

(* Only a move assignment makes a call of that name. *)
LEMMA MoveAssignOnly ==
  ASSUME Next, call'.name = "move_assign"
  PROVE  \E o, x \in Objects : MoveAssign(o, x)
<1> USE DEF Fails, Ok, Called
<1>1. CASE ConstructStep
  BY <1>1 DEF ConstructStep, Construct, ConstructFromLimbs, ConstructInplace, ConstructGrown,
              CopyConstructWith, MoveConstructWith, CopyLimbsFrom, TakeOver
<1>2. CASE AssignStep
  <2>1. ASSUME NEW o \in Objects, NEW x \in Objects,
               CopyConstruct(o, x) \/ MoveConstruct(o, x) \/ Swap(o, x)
        PROVE  FALSE
    BY <2>1 DEF CopyConstruct, MoveConstruct, CopyLimbsFrom, TakeOver, Swap
  <2>2. ASSUME NEW o \in Objects, NEW x \in Objects, CopyAssign(o, x)
        PROVE  FALSE
    BY <2>2 DEF CopyAssign, SelfAssign, AssignByCopy, AssignInBuffer, AssignInplace, AssignFresh
  <2>3. QED
    BY <1>2, <2>1, <2>2 DEF AssignStep
<1>3. CASE UnaryStep
  BY <1>3 DEF UnaryStep, AssignInteger, Reserve, GrowPast, ShrinkToFit, Destroy
<1>4. QED
  BY <1>1, <1>2, <1>3 DEF Next

(* Move assignment, which is noexcept, ends the program only when the buffer of a heap *)
(* source may not be taken and does not fit. *)
THEOREM MoveAssignRarelyFails == Spec => MoveAssignTerminatesRarely
<1>1. CInv /\ [Next]_vars =>
        [call'.name = "move_assign" /\ call'.outcome # "ok" =>
           LET o == call'.target
               x == call'.arg
           IN  /\ ~Inplace(x) /\ ~POCMA
               /\ ~SameAllocator(obj[o].alloc, obj[x].alloc)
               /\ obj[x].count > EffectiveCapacity(o)]_vars
  BY MoveAssignmentFails, MoveAssignOnly DEF Failed
<1>2. QED
  BY <1>1, InvAlways, StorageCanonical, PTL DEF Spec, CInv, MoveAssignTerminatesRarely

(* A constructor from a source that fits in place does not allocate. *)
LEMMA SmallCopySucceeds ==
  ASSUME TypeOK, NEW o \in Objects, NEW x \in Objects, NEW a, NEW name,
         CopyLimbsFrom(name, o, x, a), call'.outcome # "ok"
  PROVE  call'.name = name /\ call'.arg = x /\ ~(InplaceCapacity >= obj[x].count)
<1>1. obj[x].count \in Int /\ InplaceCapacity \in Int
  BY StorageAssumption DEF TypeOK, ObjectReps
<1>2. QED
  BY <1>1 DEF CopyLimbsFrom, Fails, Ok, Called

(* Only construction proper can fail for a value that fits, and none does. *)
LEMMA SmallConstruction ==
  ASSUME TypeOK, Next, call'.name \in {"construct", "copy_construct", "move_construct"},
         call'.outcome # "ok"
  PROVE  ~(InplaceCapacity >= IF call'.name = "construct" THEN LimbsOf[call'.arg.mag]
                                                          ELSE obj[call'.arg].count)
<1> USE DEF Fails, Ok, Called
<1>1. CASE ConstructStep
  <2>1. ASSUME NEW o \in Objects, NEW a, NEW v \in Values, NEW w, Construct(o, a, v, w)
        PROVE  call'.name = "construct" /\ ~(InplaceCapacity >= LimbsOf[call'.arg.mag])
    <3>1. LimbsOf[v.mag] \in Int /\ InplaceCapacity \in Int
      BY StorageAssumption DEF Values
    <3>2. QED
      BY <2>1, <3>1 DEF Construct, ConstructInplace, ConstructGrown
  <2>2. ASSUME NEW o, NEW a, NEW v, NEW w, ConstructFromLimbs(o, a, v, w)
        PROVE  FALSE
    BY <2>2 DEF ConstructFromLimbs, ConstructInplace, ConstructGrown
  <2>3. ASSUME NEW o \in Objects, NEW x \in Objects, NEW a,
               CopyConstructWith(o, x, a) \/ MoveConstructWith(o, x, a)
        PROVE  call'.name # "construct" /\ ~(InplaceCapacity >= obj[call'.arg].count)
    BY <2>3, SmallCopySucceeds DEF CopyConstructWith, MoveConstructWith, TakeOver
  <2>4. QED
    BY <1>1, <2>1, <2>2, <2>3 DEF ConstructStep
<1>2. CASE AssignStep
  <2>1. ASSUME NEW o \in Objects, NEW x \in Objects, CopyConstruct(o, x) \/ MoveConstruct(o, x)
        PROVE  call'.name # "construct" /\ ~(InplaceCapacity >= obj[call'.arg].count)
    BY <2>1, SmallCopySucceeds DEF CopyConstruct, MoveConstruct, TakeOver
  <2>2. ASSUME NEW o \in Objects, NEW x \in Objects,
               CopyAssign(o, x) \/ MoveAssign(o, x) \/ Swap(o, x)
        PROVE  FALSE
    BY <2>2 DEF CopyAssign, MoveAssign, Swap, SelfAssign, TakeOver, AssignByCopy, AssignInBuffer,
                AssignInplace, AssignFresh
  <2>3. QED
    BY <1>2, <2>1, <2>2 DEF AssignStep
<1>3. CASE UnaryStep
  BY <1>3 DEF UnaryStep, AssignInteger, Reserve, GrowPast, ShrinkToFit, Destroy
<1>4. QED
  BY <1>1, <1>2, <1>3 DEF Next

(* A value that fits in place is constructed, copied and moved from without fail, however *)
(* large the storage of its source. *)
THEOREM SmallConstructionHolds == Spec => SmallConstructionSucceeds
<1>1. TypeOK /\ [Next]_vars =>
        [/\ call'.name \in {"construct", "copy_construct", "move_construct"}
         /\ InplaceCapacity >= IF call'.name = "construct" THEN LimbsOf[call'.arg.mag]
                                                           ELSE obj[call'.arg].count
         => call'.outcome = "ok"]_vars
  BY SmallConstruction
<1>2. QED
  BY <1>1, TypeCorrect, PTL DEF Spec, SmallConstructionSucceeds
-----------------------------------------------------------------------------
(* BigIntStorage implements BigIntValue: under the mapping of its instance *)
(* V, every call of the storage is a call of the abstract specification,   *)
(* and a failing call changes no value. Every successful call either       *)
(* delivers one value to one object, moves a value out of another one, or  *)
(* exchanges two.                                                          *)

(* The value BigIntValue sees in each object. *)
Held(o) == IF Alive(o) THEN ValueOf(o) ELSE Absent

value == [o \in Objects |-> Held(o)]

Failures == {"bad_alloc", "length_error", "terminated"}

(* The call failed and changed nothing. *)
Refused == call'.outcome \in Failures /\ UNCHANGED <<obj, block>>

(* The call succeeded; o now holds v, and no other object noticed. *)
Delivered(name, o, arg, v) ==
  Ok(name, o, arg) /\ Held(o)' = v /\ Untouched({o})

(***************************************************************************)
(* From what objects hold to the abstract state.                           *)
(***************************************************************************)

(* A live object holds a value, never Absent. *)
LEMMA HeldFacts ==
  ASSUME CInv, NEW o \in Objects
  PROVE  /\ Alive(o) => Held(o) = ValueOf(o) /\ Held(o) # Absent
         /\ ~Alive(o) => Held(o) = Absent
<1>1. ASSUME Alive(o) PROVE ValueOf(o) # Absent
  <2>1. LimbsAt(o) \in Magnitudes /\ obj[o].neg \in BOOLEAN
    BY <1>1, CanonicalFacts DEF CanonicalAt
  <2>2. ValueOf(o) \in [neg : BOOLEAN, mag : Magnitudes \cup {Junk}]
    BY <2>1 DEF ValueOf, Value
  <2>3. QED
    BY <2>2, StorageAssumption
<1>2. QED
  BY <1>1 DEF Held

(* An object that is not touched holds what it held. *)
LEMMA HeldKept ==
  ASSUME NEW S, Untouched(S), NEW y \in Objects \ S
  PROVE  Held(y)' = Held(y)
  BY DEF Untouched, Held, Alive, ValueOf

(* The abstract state after one object was given a value, *)
LEMMA OneChanged ==
  ASSUME NEW o \in Objects, Untouched({o})
  PROVE  value' = [value EXCEPT ![o] = Held(o)']
<1>1. \A y \in Objects \ {o} : Held(y)' = Held(y)
  BY HeldKept
<1> HIDE DEF Held
<1>2. QED
  BY <1>1 DEF value

(* and after two were. *)
LEMMA TwoChanged ==
  ASSUME NEW o \in Objects, NEW x \in Objects, Untouched({o, x})
  PROVE  value' = [value EXCEPT ![x] = Held(x)', ![o] = Held(o)']
<1>1. \A y \in Objects \ {o, x} : Held(y)' = Held(y)
  BY HeldKept
<1>2. QED
  BY <1>1 DEF value

(* A refused call is a failure of the abstract specification. *)
LEMMA RefusedFails == Refused => V!Fail
<1> SUFFICES ASSUME Refused PROVE V!Fail
  OBVIOUS
<1>1. \A o \in Objects : Held(o)' = Held(o)
  BY DEF Refused, Held, Alive, ValueOf, LimbsAt, Inplace
<1>2. value' = value
  BY <1>1 DEF value
<1>3. QED
  BY <1>2 DEF V!Fail, Refused, Failures, value, Held

(***************************************************************************)
(* From what objects hold to the abstract actions.                         *)
(***************************************************************************)

(* An object was given the value that is the argument of the call, *)
LEMMA SetStep ==
  ASSUME CInv, NEW o \in Objects, NEW v \in Values, NEW name,
         Delivered(name, o, v, v),
         name \in IF Alive(o) THEN {"assign_integer"} ELSE {"construct", "construct_from_limbs"}
  PROVE  V!Next
<1>1. value' = [value EXCEPT ![o] = v]
  BY OneChanged DEF Delivered
<1>2. call' = [name |-> name, target |-> o, arg |-> v, outcome |-> "ok"]
  BY DEF Delivered, Ok, Called
<1>3. value[o] # Absent <=> Alive(o)
  BY HeldFacts DEF value
<1>4. V!Set(o)
  BY <1>1, <1>2, <1>3 DEF V!Set, V!Exists, value, Held
<1>5. QED
  BY <1>2, <1>4 DEF V!Next

(* the value of another object, which keeps it, *)
LEMMA CopyStep ==
  ASSUME CInv, NEW o \in Objects, NEW x \in Objects, Alive(x), NEW name,
         Delivered(name, o, x, Held(x)),
         name = IF Alive(o) THEN "copy_assign" ELSE "copy_construct"
  PROVE  V!Next
<1>1. value' = [value EXCEPT ![o] = value[x]]
  BY OneChanged DEF Delivered, value
<1>2. call' = [name |-> name, target |-> o, arg |-> x, outcome |-> "ok"]
  BY DEF Delivered, Ok, Called
<1>3. (value[o] # Absent <=> Alive(o)) /\ value[x] # Absent
  BY HeldFacts DEF value
<1>4. V!Copy(o, x)
  BY <1>1, <1>2, <1>3 DEF V!Copy, V!Exists, value, Held
<1>5. QED
  BY <1>2, <1>4 DEF V!Next

(* or the value of another object, which keeps it or is zero. *)
LEMMA MoveStep ==
  ASSUME CInv, NEW o \in Objects, NEW x \in Objects, Alive(x), NEW name,
         Ok(name, o, x), Untouched({o, x}),
         Held(x)' \in {Held(x), Value(FALSE, Zero)}, Held(o)' = Held(x),
         name = IF Alive(o) THEN "move_assign" ELSE "move_construct"
  PROVE  V!Next
<1>1. value' = [value EXCEPT ![x] = Held(x)', ![o] = value[x]]
  BY TwoChanged DEF value
<1>2. call' = [name |-> name, target |-> o, arg |-> x, outcome |-> "ok"]
  BY DEF Ok, Called
<1>3. (value[o] # Absent <=> Alive(o)) /\ value[x] # Absent
  BY HeldFacts DEF value
<1>4. Held(x)' \in {value[x], Value(FALSE, Zero)}
  BY DEF value
<1>5. V!Move(o, x)
  BY <1>1, <1>2, <1>3, <1>4 DEF V!Move, V!Exists, value, Held
<1>6. QED
  BY <1>2, <1>5 DEF V!Next

(* Two objects exchanged their values. *)
LEMMA SwapStep ==
  ASSUME CInv, NEW o \in Objects, NEW x \in Objects, Alive(o), Alive(x),
         Ok("swap", o, x), Untouched({o, x}), Held(o)' = Held(x), Held(x)' = Held(o)
  PROVE  V!Next
<1>1. value' = [value EXCEPT ![o] = value[x], ![x] = value[o]]
  <2>1. value' = [value EXCEPT ![x] = Held(o), ![o] = Held(x)]
    BY TwoChanged
  <2> HIDE DEF Held
  <2>2. QED
    BY <2>1 DEF value
<1>2. call' = [name |-> "swap", target |-> o, arg |-> x, outcome |-> "ok"]
  BY DEF Ok, Called
<1>3. value[o] # Absent /\ value[x] # Absent
  BY HeldFacts DEF value
<1>4. V!Swap(o, x)
  BY <1>1, <1>2, <1>3 DEF V!Swap, V!Exists, value, Held
<1>5. QED
  BY <1>2, <1>4 DEF V!Next

(* A change of the storage alone. *)
LEMMA ResizeStep ==
  ASSUME CInv, NEW o \in Objects, Alive(o), NEW name \in {"reserve", "shrink_to_fit"},
         Delivered(name, o, Absent, Held(o))
  PROVE  V!Next
<1>1. value' = value
  <2>1. value' = [value EXCEPT ![o] = Held(o)]
    BY OneChanged DEF Delivered
  <2> HIDE DEF Held
  <2>2. QED
    BY <2>1 DEF value
<1>2. call' = [name |-> name, target |-> o, arg |-> Absent, outcome |-> "ok"]
  BY DEF Delivered, Ok, Called
<1>3. value[o] # Absent
  BY HeldFacts DEF value
<1>4. V!Resize(o)
  BY <1>1, <1>2, <1>3 DEF V!Resize, V!Exists, value, Held
<1>5. QED
  BY <1>2, <1>4 DEF V!Next

(* The end of a lifetime. *)
LEMMA DestroyStep ==
  ASSUME CInv, NEW o \in Objects, Alive(o), Delivered("destroy", o, Absent, Absent)
  PROVE  V!Next
<1>1. value' = [value EXCEPT ![o] = Absent]
  BY OneChanged DEF Delivered
<1>2. call' = [name |-> "destroy", target |-> o, arg |-> Absent, outcome |-> "ok"]
  BY DEF Delivered, Ok, Called
<1>3. value[o] # Absent
  BY HeldFacts DEF value
<1>4. V!Destroy(o)
  BY <1>1, <1>2, <1>3 DEF V!Destroy, V!Exists, value, Held
<1>5. QED
  BY <1>2, <1>4 DEF V!Next

(***************************************************************************)
(* What each way of changing the heap delivers.                            *)
(***************************************************************************)

(* A new block delivers what was written to it, *)
LEMMA ReplaceDelivers ==
  ASSUME CInv,
         NEW o \in Objects, NEW b \in FreeBlocks, NEW c \in BlockCounts, NEW a \in Allocators,
         NEW m, NEW neg, NEW n,
         ReplaceStorage(o, b, HeapBlock(a, c, m)),
         obj' = [obj EXCEPT ![o] = Rep(c, neg, n, b, a)]
  PROVE  Held(o)' = Value(neg, m) /\ Untouched({o})
<1>1. obj'[o] = Rep(c, neg, n, b, a) /\ LimbsAt(o)' = m /\ Untouched({o})
  BY ReplaceHolds DEF CInv
<1>2. QED
  BY <1>1, StorageAssumption DEF Held, ValueOf, Alive, Rep

(* so does the storage there is, *)
LEMMA RewriteDelivers ==
  ASSUME CInv, NEW o \in Objects, NEW a \in Allocators, NEW m, NEW neg, NEW n,
         WriteLimbs(o, m),
         obj' = [obj EXCEPT ![o] = Rep(obj[o].capacity, neg, n,
                                       IF Inplace(o) THEN m ELSE obj[o].storage, a)]
  PROVE  Held(o)' = Value(neg, m) /\ Untouched({o})
<1>1. obj'[o].neg = neg /\ obj'[o].alloc = a /\ LimbsAt(o)' = m /\ Untouched({o})
  BY RewriteHolds DEF CInv
<1>2. QED
  BY <1>1, StorageAssumption DEF Held, ValueOf, Alive

(* and so does the in-place storage. *)
LEMMA ReleaseDelivers ==
  ASSUME CInv, NEW o \in Objects, NEW a \in Allocators, NEW m, NEW neg, NEW n,
         FreeStorage(o) \/ HeapUnchanged,
         obj' = [obj EXCEPT ![o] = Rep(0, neg, n, m, a)]
  PROVE  Held(o)' = Value(neg, m) /\ Untouched({o})
<1>1. obj'[o] = Rep(0, neg, n, m, a) /\ LimbsAt(o)' = m /\ Untouched({o})
  BY ReleaseHolds DEF CInv
<1>2. QED
  BY <1>1, StorageAssumption DEF Held, ValueOf, Alive, Rep

(* A buffer taken over delivers the value of its old owner, which is left with zero. *)
LEMMA HandOverDelivers ==
  ASSUME CInv, NEW o \in Objects, NEW x \in Objects, o # x, NEW a \in Allocators,
         ~Inplace(x), Alive(x), NEW name,
         FreeStorage(o) \/ HeapUnchanged, TakeOver(name, o, x, a)
  PROVE  /\ Ok(name, o, x) /\ Untouched({o, x})
         /\ Held(o)' = Held(x) /\ Held(x)' = Value(FALSE, Zero)
<1>1. /\ Ok(name, o, x)
      /\ obj'[o] = Rep(obj[x].capacity, obj[x].neg, obj[x].count, obj[x].storage, a)
      /\ obj'[x] = TakenFrom(x)
      /\ LimbsAt(o)' = LimbsAt(x) /\ LimbsAt(x)' = Zero /\ Untouched({o, x})
  BY HandOverHolds DEF CInv, TakeOver
<1>2. QED
  BY <1>1, StorageAssumption DEF Held, ValueOf, Alive, TakenFrom, Rep

(* An object nothing happened to still holds its value. *)
LEMMA UnchangedDelivers ==
  ASSUME UNCHANGED <<obj, block>>
  PROVE  Untouched({}) /\ \A y \in Objects : Untouched({y}) /\ Held(y)' = Held(y)
  BY DEF Untouched, Held, ValueOf, Alive, LimbsAt, Inplace

(***************************************************************************)
(* What each action delivers.                                              *)
(***************************************************************************)

(* A value is its sign and its magnitude. *)
LEMMA ValueParts ==
  ASSUME NEW v \in Values PROVE v = Value(v.neg, v.mag)
  BY DEF Values, Value

(* A limit or the allocator refuses. *)
LEMMA AllocationFails ==
  ASSUME NEW n PROVE AllocationFailure(n) \in Failures
  BY DEF AllocationFailure, Failures

(* What CInv says of a live object that is copied. *)
LEMMA SourceFacts ==
  ASSUME CInv, NEW x \in Objects, Alive(x)
  PROVE  /\ obj[x].count \in 1 .. MaxLimbs
         /\ LimbsAt(x) \in Magnitudes /\ obj[x].count = LimbsOf[LimbsAt(x)]
         /\ Held(x) = Value(obj[x].neg, LimbsAt(x))
         /\ obj[x].alloc \in Allocators
<1>1. CanonicalAt(x) /\ obj[x].count \in 1 .. MaxLimbs
  BY CanonicalFacts
<1>2. obj[x].alloc \in Allocators
  BY ObjectFacts DEF CInv
<1>3. QED
  BY <1>1, <1>2 DEF CanonicalAt, Held, ValueOf

(* A copy with room for what the allocator returns is whole. *)
LEMMA FreshCopy ==
  ASSUME CInv, NEW x \in Objects, Alive(x), NEW c \in Returned(obj[x].count)
  PROVE  c \in BlockCounts /\ Copied(LimbsAt(x), obj[x].count, c) = LimbsAt(x)
<1>1. /\ obj[x].count \in 1 .. MaxLimbs /\ obj[x].count \in Nat
      /\ LimbsAt(x) \in Magnitudes /\ obj[x].count = LimbsOf[LimbsAt(x)]
  BY SourceFacts, StorageAssumption
<1>2. c \in BlockCounts
  BY <1>1, ReturnedType
<1>3. obj[x].count <= c
  BY <1>1, ReturnedAtLeast
<1>4. QED
  BY <1>1, <1>2, <1>3, CopiedWhole

(* A constructor delivers its argument, *)
LEMMA ConstructDelivers ==
  ASSUME CInv, NEW o \in Objects, NEW a \in Allocators, NEW v \in Values, NEW w \in Nat,
         NEW name \in {"construct", "construct_from_limbs"},
         \/ name = "construct" /\ Construct(o, a, v, w)
         \/ name = "construct_from_limbs" /\ ConstructFromLimbs(o, a, v, w)
  PROVE  ~Alive(o) /\ (Refused \/ Delivered(name, o, v, v))
<1> DEFINE n == LimbsOf[v.mag]
<1>1. ~Alive(o) /\ Inplace(o)
  BY ObjectFacts DEF Construct, ConstructFromLimbs, CInv
<1>2. ASSUME ConstructInplace(name, o, a, v)
      PROVE  Delivered(name, o, v, v)
  <2>1. /\ Ok(name, o, v) /\ HeapUnchanged
        /\ obj' = [obj EXCEPT ![o] = Rep(0, v.neg, n, v.mag, a)]
    BY <1>2 DEF ConstructInplace
  <2>2. Held(o)' = Value(v.neg, v.mag) /\ Untouched({o})
    BY <2>1, ReleaseDelivers
  <2>3. QED
    BY <2>1, <2>2, ValueParts DEF Delivered
<1>3. ASSUME NEW b \in FreeBlocks, NEW c \in Returned(GrownCapacity(o, w)),
             NewBlock(b, HeapBlock(a, c, v.mag)), Ok(name, o, v),
             obj' = [obj EXCEPT ![o] = Rep(c, v.neg, n, b, a)]
      PROVE  Delivered(name, o, v, v)
  <2>1. c \in BlockCounts
    BY GrownCapacityType, ReturnedType DEF CInv
  <2>2. ReplaceStorage(o, b, HeapBlock(a, c, v.mag))
    BY <1>1, <1>3 DEF ReplaceStorage
  <2>3. Held(o)' = Value(v.neg, v.mag) /\ Untouched({o})
    BY <1>3, <2>1, <2>2, ReplaceDelivers
  <2>4. QED
    BY <1>3, <2>3, ValueParts DEF Delivered
<1>4. ASSUME NEW failure \in Failures, ConstructGrown(name, o, a, v, w, failure)
      PROVE  Refused \/ Delivered(name, o, v, v)
  <2>1. CASE Fails(name, o, v, failure)
    BY <2>1 DEF Fails, Called, Refused
  <2>2. QED
    BY <1>3, <1>4, <2>1 DEF ConstructGrown
<1>5. "terminated" \in Failures /\ AllocationFailure(w) \in Failures
  BY AllocationFails DEF Failures
<1>6. QED
  BY <1>1, <1>2, <1>4, <1>5 DEF Construct, ConstructFromLimbs

(* copy_limbs_from the value of its source, *)
LEMMA CopyLimbsFromDelivers ==
  ASSUME CInv, NEW o \in Objects, NEW x \in Objects, NEW a \in Allocators, NEW name,
         ~Alive(o), Alive(x), CopyLimbsFrom(name, o, x, a)
  PROVE  Refused \/ Delivered(name, o, x, Held(x))
<1> DEFINE n == obj[x].count
           m == LimbsAt(x)
<1>1. CASE /\ n <= InplaceCapacity
           /\ obj' = [obj EXCEPT ![o] = Rep(0, obj[x].neg, n, Copied(m, n, InplaceCapacity), a)]
           /\ HeapUnchanged /\ Ok(name, o, x)
  <2>1. Copied(m, n, InplaceCapacity) = m
    BY <1>1, SourceFacts, CopiedWhole
  <2>2. Held(o)' = Value(obj[x].neg, m) /\ Untouched({o})
    BY <1>1, <2>1, ReleaseDelivers
  <2>3. QED
    BY <1>1, <2>2, SourceFacts DEF Delivered
<1>2. CASE Fails(name, o, x, AllocationFailure(n))
  BY <1>2, AllocationFails DEF Fails, Called, Refused
<1>3. ASSUME NEW b \in FreeBlocks, NEW c \in Returned(n), Ok(name, o, x),
             NewBlock(b, HeapBlock(a, c, Copied(m, n, c))),
             obj' = [obj EXCEPT ![o] = Rep(c, obj[x].neg, n, b, a)]
      PROVE  Delivered(name, o, x, Held(x))
  <2>1. c \in BlockCounts /\ Copied(m, n, c) = m
    BY FreshCopy
  <2>2. Inplace(o)
    BY ObjectFacts DEF CInv
  <2>3. ReplaceStorage(o, b, HeapBlock(a, c, m))
    BY <1>3, <2>1, <2>2 DEF ReplaceStorage
  <2>4. Held(o)' = Value(obj[x].neg, m) /\ Untouched({o})
    BY <1>3, <2>1, <2>3, ReplaceDelivers
  <2>5. QED
    BY <1>3, <2>4, SourceFacts DEF Delivered
<1>4. QED
  BY <1>1, <1>2, <1>3 DEF CopyLimbsFrom

(* and so do the three copying paths of assign_value. *)
LEMMA AssignByCopyDelivers ==
  ASSUME CInv, NEW o \in Objects, NEW x \in Objects, NEW name, NEW failure \in Failures,
         NEW propagate, Alive(o), Alive(x), AssignByCopy(name, o, x, propagate, failure)
  PROVE  Refused \/ Delivered(name, o, x, Held(x))
<1> DEFINE n == obj[x].count
           m == LimbsAt(x)
           a == Propagated(o, x, propagate)
<1>1. a \in Allocators
  BY SourceFacts DEF Propagated
<1>2. CASE n <= EffectiveCapacity(o) /\ AssignInBuffer(name, o, x, propagate)
  <2>1. Copied(m, n, EffectiveCapacity(o)) = m
    BY <1>2, SourceFacts, CopiedWhole
  <2>2. /\ obj' = [obj EXCEPT ![o] = Rep(obj[o].capacity, obj[x].neg, n,
                                        IF Inplace(o) THEN m ELSE obj[o].storage, a)]
        /\ WriteLimbs(o, m) /\ Ok(name, o, x)
    BY <1>2, <2>1 DEF AssignInBuffer
  <2>3. Held(o)' = Value(obj[x].neg, m) /\ Untouched({o})
    BY <1>1, <2>2, RewriteDelivers
  <2>4. QED
    BY <2>2, <2>3, SourceFacts DEF Delivered
<1>3. CASE Inplace(x) /\ AssignInplace(name, o, x, propagate)
  <2>1. obj[x].storage = m
    BY <1>3 DEF LimbsAt
  <2>2. FreeStorage(o) /\ obj' = [obj EXCEPT ![o] = Rep(0, obj[x].neg, n, m, a)]
        /\ Ok(name, o, x)
    BY <1>3, <2>1 DEF AssignInplace
  <2>3. Held(o)' = Value(obj[x].neg, m) /\ Untouched({o})
    BY <1>1, <2>2, ReleaseDelivers
  <2>4. QED
    BY <2>2, <2>3, SourceFacts DEF Delivered
<1>4. CASE Fails(name, o, x, failure)
  BY <1>4 DEF Fails, Called, Refused
<1>5. ASSUME NEW b \in FreeBlocks, NEW c \in Returned(n), Ok(name, o, x),
             ReplaceStorage(o, b, HeapBlock(a, c, Copied(m, n, c))),
             obj' = [obj EXCEPT ![o] = Rep(c, obj[x].neg, n, b, a)]
      PROVE  Delivered(name, o, x, Held(x))
  <2>1. c \in BlockCounts /\ Copied(m, n, c) = m
    BY FreshCopy
  <2>2. ReplaceStorage(o, b, HeapBlock(a, c, m))
    BY <1>5, <2>1
  <2>3. Held(o)' = Value(obj[x].neg, m) /\ Untouched({o})
    BY <1>1, <1>5, <2>1, <2>2, ReplaceDelivers
  <2>4. QED
    BY <1>5, <2>3, SourceFacts DEF Delivered
<1>6. QED
  BY <1>2, <1>3, <1>4, <1>5 DEF AssignByCopy, AssignFresh

(* grow delivers what is written to the new block. *)
LEMMA GrowPastDelivers ==
  ASSUME CInv, NEW o \in Objects, NEW name, NEW arg, NEW n \in Nat, NEW neg, NEW count,
         NEW m, Alive(o), GrowPast(name, o, arg, n, neg, count, m)
  PROVE  Refused \/ Delivered(name, o, arg, Value(neg, m))
<1>1. CASE Fails(name, o, arg, AllocationFailure(n))
  BY <1>1, AllocationFails DEF Fails, Called, Refused
<1>2. ASSUME NEW b \in FreeBlocks, NEW c \in Returned(GrownCapacity(o, n)), Ok(name, o, arg),
             ReplaceStorage(o, b, HeapBlock(obj[o].alloc, c, m)),
             obj' = [obj EXCEPT ![o] = Rep(c, neg, count, b, obj[o].alloc)]
      PROVE  Delivered(name, o, arg, Value(neg, m))
  <2>1. c \in BlockCounts
    BY GrownCapacityType, ReturnedType DEF CInv
  <2>2. obj[o].alloc \in Allocators
    BY SourceFacts
  <2>3. Held(o)' = Value(neg, m) /\ Untouched({o})
    BY <1>2, <2>1, <2>2, ReplaceDelivers
  <2>4. QED
    BY <1>2, <2>3 DEF Delivered
<1>3. QED
  BY <1>1, <1>2 DEF GrowPast

(***************************************************************************)
(* Each action is a call of the abstract specification.                    *)
(***************************************************************************)

(* A refused call is a step of the abstract specification. *)
LEMMA RefusedNext == Refused => V!Next
  BY RefusedFails DEF V!Next

(* Both constructors from a value. *)
LEMMA ConstructSteps ==
  ASSUME CInv, NEW o \in Objects, NEW a \in Allocators, NEW v \in Values, NEW w \in Nat,
         Construct(o, a, v, w) \/ ConstructFromLimbs(o, a, v, w)
  PROVE  V!Next
<1>1. ASSUME NEW name \in {"construct", "construct_from_limbs"}, ~Alive(o),
             Refused \/ Delivered(name, o, v, v)
      PROVE  V!Next
  BY <1>1, SetStep, RefusedNext
<1>2. CASE Construct(o, a, v, w)
  <2>1. ~Alive(o) /\ (Refused \/ Delivered("construct", o, v, v))
    BY <1>2, ConstructDelivers
  <2>2. QED
    BY <1>1, <2>1
<1>3. CASE ConstructFromLimbs(o, a, v, w)
  <2>1. ~Alive(o) /\ (Refused \/ Delivered("construct_from_limbs", o, v, v))
    BY <1>3, ConstructDelivers
  <2>2. QED
    BY <1>1, <2>1
<1>4. QED
  BY <1>2, <1>3

(* A constructor that copies is a copy, or a move that leaves its source alone. *)
LEMMA CopyLimbsFromSteps ==
  ASSUME CInv, NEW o \in Objects, NEW x \in Objects, NEW a \in Allocators,
         NEW name \in {"copy_construct", "move_construct"},
         ~Alive(o), Alive(x), CopyLimbsFrom(name, o, x, a)
  PROVE  V!Next
<1>1. Refused \/ Delivered(name, o, x, Held(x))
  BY CopyLimbsFromDelivers
<1>2. CASE name = "copy_construct" /\ Delivered(name, o, x, Held(x))
  BY <1>2, CopyStep
<1>3. CASE name = "move_construct" /\ Delivered(name, o, x, Held(x))
  <2>1. Held(x)' = Held(x) /\ Untouched({o, x})
    BY <1>3, HeldKept DEF Delivered, Untouched
  <2>2. QED
    BY <1>3, <2>1, MoveStep DEF Delivered
<1>4. QED
  BY <1>1, <1>2, <1>3, RefusedNext

(* A move construction leaves an in-place source alone, and zero in place of a block. *)
LEMMA MoveConstructSteps ==
  ASSUME CInv, NEW o \in Objects, NEW x \in Objects, MoveConstruct(o, x)
  PROVE  V!Next
<1>1. ~Alive(o) /\ Alive(x) /\ o # x /\ HeapUnchanged /\ obj[x].alloc \in Allocators
  BY ObjectFacts DEF MoveConstruct, CInv
<1>2. CASE Inplace(x)
  <2>1. obj[x] \in ObjectReps
    BY DEF CInv, Inv, TypeOK
  <2>2. obj[x] = Rep(0, obj[x].neg, obj[x].count, LimbsAt(x), obj[x].alloc)
    BY <1>2, <2>1 DEF ObjectReps, Rep, Inplace, LimbsAt
  <2>3. obj' = [obj EXCEPT ![o] = obj[x]] /\ Ok("move_construct", o, x)
    BY <1>2 DEF MoveConstruct
  <2>4. obj' = [obj EXCEPT ![o] = Rep(0, obj[x].neg, obj[x].count, LimbsAt(x), obj[x].alloc)]
    BY <2>2, <2>3
  <2>5. Held(o)' = Value(obj[x].neg, LimbsAt(x)) /\ Untouched({o})
    BY <1>1, <2>4, ReleaseDelivers
  <2>6. Held(o)' = Held(x)
    BY <1>1, <2>5, SourceFacts
  <2>7. Held(x)' = Held(x) /\ Untouched({o, x})
    BY <1>1, <2>5, HeldKept DEF Untouched
  <2>8. QED
    BY <1>1, <2>3, <2>6, <2>7, MoveStep
<1>3. CASE ~Inplace(x)
  <2>1. TakeOver("move_construct", o, x, obj[x].alloc)
    BY <1>3 DEF MoveConstruct
  <2>2. /\ Ok("move_construct", o, x) /\ Untouched({o, x})
        /\ Held(o)' = Held(x) /\ Held(x)' = Value(FALSE, Zero)
    BY <1>1, <1>3, <2>1, HandOverDelivers
  <2>3. QED
    BY <1>1, <2>2, MoveStep
<1>4. QED
  BY <1>2, <1>3

(* With an allocator of its own, it may have to copy. *)
LEMMA MoveConstructWithSteps ==
  ASSUME CInv, NEW o \in Objects, NEW x \in Objects, NEW a \in Allocators,
         MoveConstructWith(o, x, a)
  PROVE  V!Next
<1>1. ~Alive(o) /\ Alive(x) /\ o # x
  BY DEF MoveConstructWith
<1>2. CASE CopyLimbsFrom("move_construct", o, x, a)
  BY <1>1, <1>2, CopyLimbsFromSteps
<1>3. CASE ~Inplace(x) /\ TakeOver("move_construct", o, x, a) /\ HeapUnchanged
  <2>1. /\ Ok("move_construct", o, x) /\ Untouched({o, x})
        /\ Held(o)' = Held(x) /\ Held(x)' = Value(FALSE, Zero)
    BY <1>1, <1>3, HandOverDelivers
  <2>2. QED
    BY <1>1, <2>1, MoveStep
<1>4. QED
  BY <1>2, <1>3 DEF MoveConstructWith

(* A self-assignment is an assignment: the object holds what it held. *)
LEMMA SelfAssignDelivers ==
  ASSUME CInv, NEW o \in Objects, NEW name, SelfAssign(name, o)
  PROVE  Delivered(name, o, o, Held(o))
<1>1. Untouched({o}) /\ Held(o)' = Held(o)
  BY UnchangedDelivers DEF SelfAssign
<1>2. QED
  BY <1>1 DEF SelfAssign, Delivered

(* A copy assignment delivers the value of its source, itself included. *)
LEMMA CopyAssignSteps ==
  ASSUME CInv, NEW o \in Objects, NEW x \in Objects, CopyAssign(o, x)
  PROVE  V!Next
<1>1. Alive(o) /\ Alive(x)
  BY DEF CopyAssign
<1>2. Refused \/ Delivered("copy_assign", o, x, Held(x))
  <2>1. CASE o = x
    <3>1. SelfAssign("copy_assign", o)
      BY <2>1 DEF CopyAssign
    <3>2. QED
      BY <2>1, <3>1, SelfAssignDelivers
  <2>2. CASE o # x
    <3>1. AssignByCopy("copy_assign", o, x, POCCA, AllocationFailure(obj[x].count))
      BY <2>2 DEF CopyAssign
    <3>2. AllocationFailure(obj[x].count) \in Failures
      BY AllocationFails
    <3>3. QED
      BY <1>1, <3>1, <3>2, AssignByCopyDelivers
  <2>3. QED
    BY <2>1, <2>2
<1>3. QED
  BY <1>1, <1>2, CopyStep, RefusedNext

(* A move assignment too; its source is zero only if its block was taken. *)
LEMMA MoveAssignSteps ==
  ASSUME CInv, NEW o \in Objects, NEW x \in Objects, MoveAssign(o, x)
  PROVE  V!Next
<1>1. Alive(o) /\ Alive(x) /\ Propagated(o, x, POCMA) \in Allocators
  BY SourceFacts DEF MoveAssign, Propagated
<1>2. CASE o = x /\ SelfAssign("move_assign", o)
  <2>1. Ok("move_assign", o, x) /\ Held(o)' = Held(x) /\ Held(x)' = Held(x)
    BY <1>2, UnchangedDelivers DEF SelfAssign
  <2>2. Untouched({o, x})
    BY <1>2, UnchangedDelivers DEF SelfAssign, Untouched
  <2>3. QED
    BY <1>1, <2>1, <2>2, MoveStep
<1>3. CASE /\ o # x /\ Steals(o, x) /\ FreeStorage(o)
           /\ TakeOver("move_assign", o, x, Propagated(o, x, POCMA))
  <2>1. ~Inplace(x)
    BY <1>3 DEF Steals
  <2>2. /\ Ok("move_assign", o, x) /\ Untouched({o, x})
        /\ Held(o)' = Held(x) /\ Held(x)' = Value(FALSE, Zero)
    BY <1>1, <1>3, <2>1, HandOverDelivers
  <2>3. QED
    BY <1>1, <2>2, MoveStep
<1>4. CASE o # x /\ AssignByCopy("move_assign", o, x, POCMA, "terminated")
  <2>1. "terminated" \in Failures
    BY DEF Failures
  <2>2. Refused \/ Delivered("move_assign", o, x, Held(x))
    BY <1>1, <1>4, <2>1, AssignByCopyDelivers
  <2>3. CASE Delivered("move_assign", o, x, Held(x))
    <3>1. Held(x)' = Held(x) /\ Untouched({o, x})
      BY <1>4, <2>3, HeldKept DEF Delivered, Untouched
    <3>2. QED
      BY <1>1, <2>3, <3>1, MoveStep DEF Delivered
  <2>4. QED
    BY <2>2, <2>3, RefusedNext
<1>5. QED
  BY <1>2, <1>3, <1>4 DEF MoveAssign

(* A swap exchanges two values, whether or not the allocators go with them. *)
LEMMA SwapSteps ==
  ASSUME CInv, NEW o \in Objects, NEW x \in Objects, Swap(o, x)
  PROVE  V!Next
<1>1. /\ obj'[o].neg = obj[x].neg /\ obj'[x].neg = obj[o].neg
      /\ LimbsAt(o)' = LimbsAt(x) /\ LimbsAt(x)' = LimbsAt(o)
      /\ Alive(o) /\ Alive(x) /\ Alive(o)' /\ Alive(x)' /\ Untouched({o, x})
  BY SwapHolds DEF CInv
<1>2. Held(o)' = Held(x) /\ Held(x)' = Held(o)
  BY <1>1 DEF Held, ValueOf
<1>3. Ok("swap", o, x)
  BY DEF Swap
<1>4. QED
  BY <1>1, <1>2, <1>3, SwapStep

(* An integer assigned replaces the value, wherever it is written. *)
LEMMA AssignIntegerSteps ==
  ASSUME CInv, NEW o \in Objects, NEW v \in Values, NEW w \in Nat, AssignInteger(o, v, w)
  PROVE  V!Next
<1> DEFINE n == LimbsOf[v.mag]
           a == obj[o].alloc
<1>1. Alive(o) /\ a \in Allocators /\ v = Value(v.neg, v.mag)
  BY SourceFacts, ValueParts DEF AssignInteger
<1>2. CASE /\ obj' = [obj EXCEPT ![o] = Rep(obj[o].capacity, v.neg, n,
                        IF Inplace(o) THEN v.mag ELSE obj[o].storage, a)]
           /\ WriteLimbs(o, v.mag) /\ Ok("assign_integer", o, v)
  <2>1. Held(o)' = Value(v.neg, v.mag) /\ Untouched({o})
    BY <1>1, <1>2, RewriteDelivers
  <2>2. Delivered("assign_integer", o, v, v)
    BY <1>1, <1>2, <2>1 DEF Delivered
  <2>3. QED
    BY <1>1, <2>2, SetStep
<1>3. CASE GrowPast("assign_integer", o, v, w, v.neg, n, v.mag)
  <2>1. Refused \/ Delivered("assign_integer", o, v, Value(v.neg, v.mag))
    BY <1>1, <1>3, GrowPastDelivers
  <2>2. QED
    BY <1>1, <2>1, SetStep, RefusedNext
<1>4. QED
  BY <1>2, <1>3 DEF AssignInteger

(* A call that finds nothing to do to the storage. *)
LEMMA NothingToResize ==
  ASSUME CInv, NEW o \in Objects, Alive(o), NEW name \in {"reserve", "shrink_to_fit"},
         UNCHANGED <<obj, block>>, Ok(name, o, Absent)
  PROVE  V!Next
<1>1. Untouched({o}) /\ Held(o)' = Held(o)
  BY UnchangedDelivers
<1>2. Delivered(name, o, Absent, Held(o))
  BY <1>1 DEF Delivered
<1>3. QED
  BY <1>2, ResizeStep

(* reserve changes no value. *)
LEMMA ReserveSteps ==
  ASSUME CInv, NEW o \in Objects, NEW n \in Nat, Reserve(o, n)
  PROVE  V!Next
<1> DEFINE m == LimbsAt(o)
           count == obj[o].count
<1>1. /\ Alive(o) /\ count \in 1 .. MaxLimbs /\ count <= EffectiveCapacity(o)
      /\ EffectiveCapacity(o) \in Nat
      /\ m \in Magnitudes /\ count = LimbsOf[m] /\ Held(o) = Value(obj[o].neg, m)
  BY CanonicalFacts, SourceFacts DEF CanonicalAt, Reserve
<1>2. CASE UNCHANGED <<obj, block>> /\ Ok("reserve", o, Absent)
  BY <1>1, <1>2, NothingToResize
<1>3. CASE /\ n > EffectiveCapacity(o) /\ n > MaxLimbs
           /\ GrowPast("reserve", o, Absent, n, obj[o].neg, count,
                       Copied(m, count, GrownCapacity(o, n)))
  <2>1. Fails("reserve", o, Absent, AllocationFailure(n))
    BY <1>3, StorageAssumption DEF GrowPast
  <2>2. Refused
    BY <2>1, AllocationFails DEF Fails, Called, Refused
  <2>3. QED
    BY <2>2, RefusedNext
<1>4. CASE /\ n > EffectiveCapacity(o) /\ n <= MaxLimbs
           /\ GrowPast("reserve", o, Absent, n, obj[o].neg, count,
                       Copied(m, count, GrownCapacity(o, n)))
  <2>1. GrownCapacity(o, n) \in Nat /\ EffectiveCapacity(o) <= GrownCapacity(o, n)
    BY <1>1, <1>4, GrownAtLeast, StorageAssumption DEF CInv
  <2>2. count <= GrownCapacity(o, n)
    BY <1>1, <2>1
  <2>3. Copied(m, count, GrownCapacity(o, n)) = m
    BY <1>1, <2>2, CopiedWhole
  <2>4. Refused \/ Delivered("reserve", o, Absent, Value(obj[o].neg, m))
    BY <1>1, <1>4, <2>3, GrowPastDelivers
  <2>5. QED
    BY <1>1, <2>4, ResizeStep, RefusedNext
<1>5. n > MaxLimbs \/ n <= MaxLimbs
  BY StorageAssumption
<1>6. QED
  BY <1>2, <1>3, <1>4, <1>5 DEF Reserve

(* shrink_to_fit changes no value. *)
LEMMA ShrinkToFitSteps ==
  ASSUME CInv, NEW o \in Objects, ShrinkToFit(o)
  PROVE  V!Next
<1> DEFINE n == obj[o].count
           m == LimbsAt(o)
           a == obj[o].alloc
<1>1. /\ Alive(o) /\ a \in Allocators
      /\ m \in Magnitudes /\ n = LimbsOf[m] /\ Held(o) = Value(obj[o].neg, m)
  BY SourceFacts DEF ShrinkToFit
<1>2. ASSUME Held(o)' = Value(obj[o].neg, m), Untouched({o}), Ok("shrink_to_fit", o, Absent)
      PROVE  V!Next
  <2>1. Delivered("shrink_to_fit", o, Absent, Held(o))
    BY <1>1, <1>2 DEF Delivered
  <2>2. QED
    BY <1>1, <2>1, ResizeStep
<1>3. CASE UNCHANGED <<obj, block>> /\ Ok("shrink_to_fit", o, Absent)
  BY <1>1, <1>3, NothingToResize
<1>4. CASE /\ n <= InplaceCapacity /\ FreeStorage(o) /\ Ok("shrink_to_fit", o, Absent)
           /\ obj' = [obj EXCEPT ![o] = Rep(0, obj[o].neg, n, Copied(m, n, InplaceCapacity), a)]
  <2>1. Copied(m, n, InplaceCapacity) = m
    BY <1>1, <1>4, CopiedWhole
  <2>2. Held(o)' = Value(obj[o].neg, m) /\ Untouched({o})
    BY <1>1, <1>4, <2>1, ReleaseDelivers
  <2>3. QED
    BY <1>2, <1>4, <2>2
<1>5. CASE Fails("shrink_to_fit", o, Absent, AllocationFailure(n))
  <2>1. Refused
    BY <1>5, AllocationFails DEF Fails, Called, Refused
  <2>2. QED
    BY <2>1, RefusedNext
<1>6. ASSUME NEW b \in FreeBlocks, NEW c \in Returned(n), Ok("shrink_to_fit", o, Absent),
             ReplaceStorage(o, b, HeapBlock(a, c, Copied(m, n, c))),
             obj' = [obj EXCEPT ![o] = Rep(c, obj[o].neg, n, b, a)]
      PROVE  V!Next
  <2>1. c \in BlockCounts /\ Copied(m, n, c) = m
    BY <1>1, FreshCopy
  <2>2. ReplaceStorage(o, b, HeapBlock(a, c, m))
    BY <1>6, <2>1
  <2>3. Held(o)' = Value(obj[o].neg, m) /\ Untouched({o})
    BY <1>1, <1>6, <2>1, <2>2, ReplaceDelivers
  <2>4. QED
    BY <1>2, <1>6, <2>3
<1>7. QED
  BY <1>3, <1>4, <1>5, <1>6 DEF ShrinkToFit

(* A destroyed object holds nothing. *)
LEMMA DestroySteps ==
  ASSUME CInv, NEW o \in Objects, Destroy(o)
  PROVE  V!Next
<1>1. /\ Alive(o) /\ FreeStorage(o) /\ Ok("destroy", o, Absent)
      /\ obj' = [obj EXCEPT ![o] = Rep(0, FALSE, 1, Zero, NoAlloc)]
  BY DEF Destroy, Dead
<1>2. obj'[o] = Rep(0, FALSE, 1, Zero, NoAlloc) /\ Untouched({o})
  BY <1>1, ReleaseHolds DEF CInv
<1>3. Held(o)' = Absent
  BY <1>2 DEF Held, Alive, Rep
<1>4. Delivered("destroy", o, Absent, Absent)
  BY <1>1, <1>2, <1>3 DEF Delivered
<1>5. QED
  BY <1>1, <1>4, DestroyStep

(* Every step is a call of the abstract specification or changes nothing it can see. *)
LEMMA NextImplements == CInv /\ [Next]_vars => [V!Next]_(V!vars)
<1> SUFFICES ASSUME CInv, [Next]_vars PROVE V!Next \/ UNCHANGED V!vars
  OBVIOUS
<1>1. ASSUME NEW o \in Objects, NEW a \in Allocators, NEW v \in Values,
             NEW w \in 1 .. MaxWidth,
             Construct(o, a, v, w) \/ ConstructFromLimbs(o, a, v, w)
      PROVE  V!Next
  BY <1>1, ConstructSteps, StorageAssumption
<1>2. ASSUME NEW o \in Objects, NEW a \in Allocators, NEW x \in Objects,
             CopyConstructWith(o, x, a)
      PROVE  V!Next
  BY <1>2, CopyLimbsFromSteps DEF CopyConstructWith
<1>3. ASSUME NEW o \in Objects, NEW x \in Objects, CopyConstruct(o, x)
      PROVE  V!Next
  <2>1. Selected[obj[x].alloc] \in Allocators
    BY <1>3, StorageAssumption, ObjectFacts DEF CopyConstruct, CInv
  <2>2. QED
    BY <1>3, <2>1, CopyLimbsFromSteps DEF CopyConstruct
<1>4. ASSUME NEW o \in Objects, NEW v \in Values, NEW w \in 1 .. MaxWidth,
             AssignInteger(o, v, w)
      PROVE  V!Next
  BY <1>4, AssignIntegerSteps, StorageAssumption
<1>5. ASSUME NEW o \in Objects, NEW n \in 0 .. MaxLimbs + 1, Reserve(o, n)
      PROVE  V!Next
  BY <1>5, ReserveSteps, StorageAssumption
<1>6. CASE ConstructStep
  BY <1>1, <1>2, <1>6, MoveConstructWithSteps DEF ConstructStep
<1>7. CASE AssignStep
  BY <1>3, <1>7, MoveConstructSteps, CopyAssignSteps, MoveAssignSteps, SwapSteps DEF AssignStep
<1>8. CASE UnaryStep
  BY <1>4, <1>5, <1>8, ShrinkToFitSteps, DestroySteps DEF UnaryStep
<1>9. CASE UNCHANGED vars
  <2>1. \A o \in Objects : Held(o)' = Held(o)
    BY <1>9, UnchangedDelivers DEF vars
  <2>2. value' = value /\ call' = call
    BY <1>9, <2>1 DEF value, vars
  <2>3. QED
    BY <2>2 DEF V!vars, value, Held
<1>10. QED
  BY <1>6, <1>7, <1>8, <1>9 DEF Next

(***************************************************************************)
(* The theorem.                                                            *)
(***************************************************************************)

(* Whatever the storage does, callers see integers only: a copy and a move  *)
(* deliver the value of their source, a swap exchanges two, reserve and     *)
(* shrink_to_fit change none, and a call that fails changes none.           *)
THEOREM StorageImplementsValues == Spec => ImplementsValues
<1>1. Init => V!Init
  BY DEF Init, V!Init, Alive, Dead, Rep
<1>2. Init => Canonical
  BY DEF Init, Canonical, Alive, Dead, Rep
<1>3. CInv /\ [Next]_vars => CInv'
  BY NextKeepsInv, NextKeepsCanonical DEF CInv
<1>4. QED
  BY <1>1, <1>2, <1>3, InitInv, NextImplements, PTL DEF Spec, CInv, ImplementsValues, V!Spec
=============================================================================
