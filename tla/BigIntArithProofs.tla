-------------------------- MODULE BigIntArithProofs --------------------------
(***************************************************************************)
(* Proofs about BigIntArith, for every width of a limb, every capacity and *)
(* threshold, and every set of operands.                                   *)
(*                                                                         *)
(* The small steps on storage that the operators are made of are           *)
(* characterised first, each by what the object stores afterwards and how  *)
(* far its tail is zero.  The operators are then composed from those facts *)
(* alone: one lemma per action shows that it is a GoodStep, which is       *)
(* everything the properties ask of a step.                                *)
(***************************************************************************)

EXTENDS BigIntArith, LimbArithProofs

(***************************************************************************)
(* What an object stores.                                                  *)
(***************************************************************************)

Capacities == {0} \cup (InplaceCapacity + 1) .. MaxLimbs

(* r is an object, perhaps with limbs that were never written. *)
IsObject(r) ==
  /\ r = [capacity |-> r.capacity, neg |-> r.neg, count |-> r.count, limbs |-> r.limbs]
  /\ r.capacity \in Capacities
  /\ r.neg \in BOOLEAN
  /\ r.count \in 1 .. Room(r)
  /\ IsArray(r.limbs, Room(r))

(* r stores this sign and this magnitude in n limbs of storage of this capacity. *)
Stores(r, capacity, neg, n, mag) ==
  /\ IsObject(r) /\ IsWritten(r.limbs, n)
  /\ r.capacity = capacity /\ r.neg = neg /\ r.count = n
  /\ MagnitudeOf(r) = mag

(* The in-place limbs from limb n on are zero. *)
ZeroFrom(r, n) == r.capacity = 0 => \A i \in n .. InplaceCapacity - 1 : r.limbs[i] = 0

(* r stores the canonical form of an integer. *)
Settles(r, neg, mag) ==
  /\ Stores(r, r.capacity, neg, LimbsNeeded(mag), mag)
  /\ neg => mag # 0

(* The constants. *)
LEMMA Constants ==
  /\ InplaceCapacity \in Nat \ {0} /\ MaxLimbs \in Nat /\ InplaceCapacity <= MaxLimbs
  /\ StackLimbs \in Nat /\ InplaceCapacity < StackLimbs
  /\ LimbBits \in Nat \ {0}
  BY ArithAssumption, LimbAssumption

(* The room of an object, and what its fields are. *)
LEMMA RoomFacts ==
  ASSUME NEW r, r.capacity \in Capacities
  PROVE  /\ Room(r) \in 1 .. MaxLimbs
         /\ InplaceCapacity <= Room(r)
         /\ r.capacity = 0 => Room(r) = InplaceCapacity
         /\ r.capacity # 0 => Room(r) = r.capacity
  BY Constants DEF Capacities, Room

LEMMA ObjectFacts ==
  ASSUME NEW r, IsObject(r)
  PROVE  /\ Room(r) \in 1 .. MaxLimbs
         /\ r.count \in 1 .. Room(r)
         /\ r.neg \in BOOLEAN
         /\ IsArray(r.limbs, Room(r))
         /\ MagnitudeOf(r) \in Nat
         /\ IsWritten(r.limbs, r.count) => MagnitudeOf(r) < Power(Base, r.count)
<1>1. Room(r) \in 1 .. MaxLimbs /\ r.count \in 1 .. Room(r) /\ IsArray(r.limbs, Room(r))
      /\ r.neg \in BOOLEAN
  BY RoomFacts DEF IsObject
<1>2. Room(r) \in Nat /\ r.count \in 0 .. Room(r)
  BY <1>1, Constants
<1>3. QED
  BY <1>1, <1>2, MagnitudeType DEF MagnitudeOf

(* An object is put together from its parts. *)
LEMMA ObjectOf ==
  ASSUME NEW c \in Capacities, NEW neg \in BOOLEAN, NEW limbs, NEW size \in Nat,
         size = (IF c = 0 THEN InplaceCapacity ELSE c), IsArray(limbs, size),
         NEW n \in 1 .. size
  PROVE  LET r == [capacity |-> c, neg |-> neg, count |-> n, limbs |-> limbs]
         IN  IsObject(r) /\ Room(r) = size
  BY DEF IsObject, Room

(***************************************************************************)
(* The small steps.                                                        *)
(***************************************************************************)

(* The lowest n limbs overwritten with those of v. *)
LEMMA WithLimbsFacts ==
  ASSUME NEW r, IsObject(r), NEW n \in 1 .. Room(r), NEW v \in Nat
  PROVE  LET s == WithLimbs(r, n, v)
         IN  /\ Stores(s, r.capacity, r.neg, n, v % Power(Base, n))
             /\ v < Power(Base, n) => Stores(s, r.capacity, r.neg, n, v)
             /\ Room(s) = Room(r)
             /\ \A i \in 0 .. n - 1 : s.limbs[i] = Digit(v, i)
             /\ \A k \in Nat : n <= k /\ ZeroFrom(r, k) => ZeroFrom(s, k)
<1> DEFINE w == Written(r.limbs, n, v)
           s == WithLimbs(r, n, v)
<1>1. Room(r) \in Nat /\ IsArray(r.limbs, Room(r)) /\ n \in 0 .. Room(r) /\ v \in Int
  BY ObjectFacts, Constants
<1>2. /\ IsArray(w, Room(r)) /\ IsWritten(w, n) /\ Magnitude(w, n) = v % Power(Base, n)
      /\ \A i \in 0 .. n - 1 : w[i] = Digit(v, i)
      /\ \A i \in n .. Room(r) - 1 : w[i] = r.limbs[i]
  <2> HIDE DEF s
  <2>1. ASSUME NEW size \in Nat, size = Room(r), NEW limbs, limbs = r.limbs
        PROVE  /\ IsArray(w, size) /\ IsWritten(w, n) /\ Magnitude(w, n) = v % Power(Base, n)
               /\ \A i \in 0 .. n - 1 : w[i] = Digit(v, i)
               /\ \A i \in n .. size - 1 : w[i] = limbs[i]
    <3>1. IsArray(limbs, size) /\ n \in 0 .. size /\ v \in Int /\ w = Written(limbs, n, v)
      BY <1>1, <2>1
    <3> HIDE DEF w
    <3>2. QED
      BY <3>1, WrittenFacts
  <2>2. QED
    BY <1>1, <2>1
<1>3. s = [capacity |-> r.capacity, neg |-> r.neg, count |-> n, limbs |-> w]
  <2>1. r = [capacity |-> r.capacity, neg |-> r.neg, count |-> r.count, limbs |-> r.limbs]
    BY DEF IsObject
  <2> HIDE DEF w
  <2>2. WithLimbs(r, n, v) = [r EXCEPT !.limbs = w, !.count = n]
    BY DEF WithLimbs, w
  <2>3. QED
    BY <2>1, <2>2
<1> HIDE DEF w, s
<1>4. s.capacity = r.capacity /\ s.neg = r.neg /\ s.count = n /\ s.limbs = w
  BY <1>3
<1>5. IsObject(s) /\ Room(s) = Room(r)
  BY <1>1, <1>2, <1>3, ObjectOf DEF IsObject, Room
<1>6. Stores(s, r.capacity, r.neg, n, v % Power(Base, n))
  BY <1>2, <1>4, <1>5 DEF Stores, MagnitudeOf
<1>7. ASSUME v < Power(Base, n) PROVE v % Power(Base, n) = v
  <2>1. PICK p \in Nat \ {0} : p = Power(Base, n)
    BY <1>1, BasePower
  <2>2. QED
    BY <1>7, <2>1, DivSmall
<1>8. ASSUME NEW k \in Nat, n <= k, ZeroFrom(r, k) PROVE ZeroFrom(s, k)
  <2> SUFFICES ASSUME r.capacity = 0, NEW i \in k .. InplaceCapacity - 1 PROVE w[i] = 0
    BY <1>4 DEF ZeroFrom
  <2>1. r.limbs[i] = 0 /\ i \in n .. Room(r) - 1
    BY <1>8, Constants DEF ZeroFrom, Room
  <2>2. QED
    BY <1>2, <2>1
<1>9. QED
  BY <1>2, <1>4, <1>5, <1>6, <1>7, <1>8 DEF s

(* Trimming leaves the canonical count. *)
LEMMA TrimmedStores ==
  ASSUME NEW r, NEW c, NEW neg, NEW n, NEW mag, Stores(r, c, neg, n, mag)
  PROVE  LET s == Trimmed(r)
         IN  /\ Stores(s, c, neg, LimbsNeeded(mag), mag)
             /\ \A k : ZeroFrom(r, k) => ZeroFrom(s, k)
             /\ ZeroFrom(r, n) => ZeroFrom(s, LimbsNeeded(mag))
<1> DEFINE t == TrimmedSize(r.limbs, r.count)
           s == Trimmed(r)
<1>1. /\ IsObject(r) /\ IsWritten(r.limbs, n) /\ r.capacity = c /\ r.neg = neg /\ r.count = n
      /\ Magnitude(r.limbs, n) = mag
  BY DEF Stores, MagnitudeOf
<1>2. /\ Room(r) \in Nat /\ IsArray(r.limbs, Room(r)) /\ n \in 1 .. Room(r)
  BY <1>1, ObjectFacts
<1>3. /\ t \in 1 .. n /\ t = LimbsNeeded(mag) /\ Magnitude(r.limbs, t) = mag
      /\ \A i \in t .. n - 1 : r.limbs[i] = 0
  BY <1>1, <1>2, TrimmedFacts
<1>4. s = [capacity |-> c, neg |-> neg, count |-> t, limbs |-> r.limbs]
  BY <1>1 DEF IsObject, Trimmed
<1> HIDE DEF t, s
<1>5. s.capacity = c /\ s.neg = neg /\ s.count = t /\ s.limbs = r.limbs
  BY <1>4
<1>6. IsObject(s)
  <2>1. t \in 1 .. Room(r)
    BY <1>2, <1>3
  <2>2. QED
    BY <1>1, <1>2, <1>4, <2>1, ObjectOf DEF IsObject, Room
<1>7. IsWritten(s.limbs, t)
  BY <1>1, <1>2, <1>3, <1>5 DEF IsWritten
<1>8. Stores(s, c, neg, LimbsNeeded(mag), mag)
  BY <1>3, <1>5, <1>6, <1>7 DEF Stores, MagnitudeOf
<1>9. \A k : ZeroFrom(r, k) => ZeroFrom(s, k)
  BY <1>1, <1>5 DEF ZeroFrom
<1>10. ASSUME ZeroFrom(r, n) PROVE ZeroFrom(s, t)
  <2> SUFFICES ASSUME c = 0, NEW i \in t .. InplaceCapacity - 1 PROVE r.limbs[i] = 0
    BY <1>5 DEF ZeroFrom
  <2>1. i \in t .. n - 1 \/ i \in n .. InplaceCapacity - 1
    BY <1>2, <1>3, Constants
  <2>2. QED
    BY <1>1, <1>3, <1>10, <2>1 DEF ZeroFrom
<1>11. QED
  BY <1>3, <1>8, <1>9, <1>10 DEF s

(* The sign bit alone changes. *)
LEMMA SignedStores ==
  ASSUME NEW r, NEW c, NEW neg, NEW n, NEW mag, Stores(r, c, neg, n, mag), NEW b \in BOOLEAN
  PROVE  LET s == Signed(r, b)
         IN  Stores(s, c, b, n, mag) /\ \A k : ZeroFrom(r, k) => ZeroFrom(s, k)
<1> DEFINE s == Signed(r, b)
<1>1. s = [capacity |-> r.capacity, neg |-> b, count |-> r.count, limbs |-> r.limbs]
  BY DEF Stores, IsObject, Signed
<1> HIDE DEF s
<1>2. s.capacity = r.capacity /\ s.neg = b /\ s.count = r.count /\ s.limbs = r.limbs
  BY <1>1
<1>3. IsObject(s)
  <2>1. /\ r.capacity \in Capacities /\ r.count \in 1 .. Room(r) /\ IsArray(r.limbs, Room(r))
        /\ Room(r) \in Nat /\ Room(r) = IF r.capacity = 0 THEN InplaceCapacity ELSE r.capacity
    BY ObjectFacts DEF Stores, IsObject, Room
  <2>2. QED
    BY <1>1, <2>1, ObjectOf
<1>4. QED
  BY <1>2, <1>3 DEF Stores, ZeroFrom, MagnitudeOf, s

(* A zero is never signed. *)
LEMMA SignedUnlessZeroStores ==
  ASSUME NEW r, NEW c, NEW neg, NEW n, NEW mag, Stores(r, c, neg, n, mag),
         NEW b \in BOOLEAN, NEW sign \in BOOLEAN, sign <=> b /\ mag # 0
  PROVE  LET s == SignedUnlessZero(r, b)
         IN  Stores(s, c, sign, n, mag) /\ \A k : ZeroFrom(r, k) => ZeroFrom(s, k)
<1>1. SignedUnlessZero(r, b) = Signed(r, sign)
  <2>1. sign = (b /\ mag # 0) /\ MagnitudeOf(r) = mag
    BY DEF Stores
  <2>2. QED
    BY <2>1 DEF SignedUnlessZero, Signed
<1>2. QED
  BY <1>1, SignedStores

(* Limbs from the count to an old count are cleared: the tail is zero from the count, if it *)
(* was from one of the two.                                                                 *)
LEMMA ClearedStores ==
  ASSUME NEW r, NEW c, NEW neg, NEW n, NEW mag, Stores(r, c, neg, n, mag), NEW old \in Nat
  PROVE  LET s == [r EXCEPT !.limbs = Cleared(@, r.count, old)]
         IN  /\ Stores(s, c, neg, n, mag)
             /\ \A k \in Nat : (k <= n \/ k <= old) /\ ZeroFrom(r, k) => ZeroFrom(s, n)
<1> DEFINE l == Cleared(r.limbs, n, old)
           s == [r EXCEPT !.limbs = Cleared(@, r.count, old)]
<1>1. /\ IsObject(r) /\ IsWritten(r.limbs, n) /\ r.capacity = c /\ r.neg = neg /\ r.count = n
      /\ Magnitude(r.limbs, n) = mag
  BY DEF Stores, MagnitudeOf
<1>2. /\ Room(r) \in Nat /\ IsArray(r.limbs, Room(r)) /\ n \in 1 .. Room(r) /\ n \in Nat
      /\ n \in 0 .. Room(r)
  BY <1>1, ObjectFacts
<1>3. PICK size \in Nat : size = Room(r) /\ (c = 0 => size = InplaceCapacity)
  BY <1>1, <1>2 DEF Room
<1>4. /\ IsArray(l, size)
      /\ \A i \in 0 .. size - 1 :
           /\ n <= i /\ i < old => l[i] = 0
           /\ ~(n <= i /\ i < old) => l[i] = r.limbs[i]
  <2> PICK limbs : limbs = r.limbs
    OBVIOUS
  <2> PICK first \in Nat : first = n
    BY <1>2
  <2>1. IsArray(limbs, size) /\ l = Cleared(limbs, first, old)
    BY <1>2, <1>3
  <2> HIDE DEF l
  <2>2. l = [i \in 0 .. size - 1 |-> IF first <= i /\ i < old THEN 0 ELSE limbs[i]]
    BY <2>1 DEF Cleared, IsArray
  <2>3. \A i \in 0 .. size - 1 : limbs[i] \in 0 .. Base /\ 0 \in 0 .. Base
    BY <2>1, BaseType DEF IsArray
  <2>4. IsArray(l, size)
    BY <2>2, <2>3 DEF IsArray
  <2>5. QED
    BY <2>2, <2>4
<1> HIDE DEF l
<1>5. s = [capacity |-> c, neg |-> neg, count |-> n, limbs |-> l]
  BY <1>1 DEF IsObject, l
<1> HIDE DEF s
<1>6. s.capacity = c /\ s.neg = neg /\ s.count = n /\ s.limbs = l
  BY <1>5
<1>7. IsObject(s)
  <2>1. c \in Capacities /\ neg \in BOOLEAN /\ n \in 1 .. size
        /\ size = IF c = 0 THEN InplaceCapacity ELSE c
    BY <1>1, <1>2, <1>3 DEF IsObject, Room
  <2>2. QED
    BY <1>4, <1>5, <2>1, ObjectOf
<1>8. \A i \in 0 .. n - 1 : l[i] = r.limbs[i]
  BY <1>2, <1>3, <1>4
<1>9. IsWritten(l, n)
  BY <1>1, <1>8 DEF IsWritten
<1>10. Magnitude(l, n) = mag
  BY <1>1, <1>2, <1>8, MagnitudeFrame
<1>11. Stores(s, c, neg, n, mag)
  BY <1>6, <1>7, <1>9, <1>10 DEF Stores, MagnitudeOf
<1>12. ASSUME NEW k \in Nat, k <= n \/ k <= old, ZeroFrom(r, k) PROVE ZeroFrom(s, n)
  <2> SUFFICES ASSUME c = 0, NEW i \in n .. InplaceCapacity - 1 PROVE l[i] = 0
    BY <1>6 DEF ZeroFrom
  <2>1. i \in 0 .. size - 1 /\ n <= i
    BY <1>2, <1>3
  <2>2. ~(i < old) => i \in k .. InplaceCapacity - 1
    BY <1>2, <1>12
  <2>3. ASSUME ~(i < old) PROVE r.limbs[i] = 0
    BY <1>1, <1>12, <2>2, <2>3 DEF ZeroFrom
  <2>4. (n <= i /\ i < old => l[i] = 0) /\ (~(n <= i /\ i < old) => l[i] = r.limbs[i])
    BY <1>4, <2>1
  <2>5. QED
    BY <2>1, <2>3, <2>4
<1>13. QED
  BY <1>11, <1>12 DEF s

(* clear_inline_tail. *)
LEMMA TailClearedStores ==
  ASSUME NEW r, NEW c, NEW neg, NEW n, NEW mag, Stores(r, c, neg, n, mag), NEW old \in Nat
  PROVE  LET s == TailCleared(r, old)
         IN  /\ Stores(s, c, neg, n, mag)
             /\ \A k \in Nat : (k <= n \/ k <= old) /\ ZeroFrom(r, k) => ZeroFrom(s, n)
<1>1. CASE r.capacity = 0
  <2>1. TailCleared(r, old) = [r EXCEPT !.limbs = Cleared(@, r.count, old)]
    BY <1>1 DEF TailCleared
  <2>2. QED
    BY <2>1, ClearedStores
<1>2. CASE r.capacity # 0
  BY <1>2 DEF TailCleared, ZeroFrom
<1>3. QED
  BY <1>1, <1>2

(* A new block is larger than the old one and within the limit. *)
LEMMA GrownCapacityFacts ==
  ASSUME NEW r, r.capacity \in Capacities, NEW n \in Nat, n > Room(r), n <= MaxLimbs
  PROVE  /\ GrownCapacity(r, n) \in Capacities /\ GrownCapacity(r, n) # 0
         /\ GrownCapacity(r, n) \in Nat /\ n <= GrownCapacity(r, n)
  BY RoomFacts, Constants DEF Capacities, GrownCapacity

(* Room that is attainable lies within the limit. *)
LEMMA AttainableFacts ==
  ASSUME NEW r, r.capacity \in Capacities, NEW n \in Nat, Attainable(r, n)
  PROVE  n <= MaxLimbs
  BY RoomFacts, Constants DEF Attainable

(* Growing keeps what is stored. *)
LEMMA GrownStores ==
  ASSUME NEW r, NEW c, NEW neg, NEW m, NEW mag, Stores(r, c, neg, m, mag),
         NEW n \in Nat, Attainable(r, n)
  PROVE  LET s == Grown(r, n)
         IN  /\ Stores(s, s.capacity, neg, m, mag)
             /\ n <= Room(s) /\ Room(r) <= Room(s)
             /\ n <= Room(r) => s = r
             /\ \A k : ZeroFrom(r, k) => ZeroFrom(s, k)
<1>1. /\ IsObject(r) /\ IsWritten(r.limbs, m) /\ r.capacity = c /\ r.neg = neg /\ r.count = m
      /\ Magnitude(r.limbs, m) = mag /\ n <= MaxLimbs /\ c \in Capacities
  BY AttainableFacts DEF Stores, MagnitudeOf, IsObject
<1>2. /\ Room(r) \in Nat /\ IsArray(r.limbs, Room(r)) /\ m \in 1 .. Room(r) /\ m \in Nat
      /\ m \in 0 .. Room(r) /\ neg \in BOOLEAN
  BY <1>1, ObjectFacts
<1>3. CASE n <= Room(r)
  BY <1>1, <1>2, <1>3 DEF Grown, Stores
<1>4. CASE n > Room(r)
  <2> DEFINE g == GrownCapacity(r, n)
             l == [i \in 0 .. g - 1 |-> IF i < r.count THEN r.limbs[i] ELSE 0]
             s == Grown(r, n)
  <2>1. g \in Capacities /\ g # 0 /\ g \in Nat /\ n <= g
    BY <1>1, <1>4, GrownCapacityFacts
  <2>2. s = [capacity |-> g, neg |-> neg, count |-> m, limbs |-> l]
    <3>1. s = [r EXCEPT !.capacity = g, !.limbs = l]
      BY <1>1, <1>2, <1>4 DEF Grown
    <3> HIDE DEF l
    <3>2. r = [capacity |-> r.capacity, neg |-> r.neg, count |-> r.count, limbs |-> r.limbs]
      BY <1>1 DEF IsObject
    <3>3. s = [capacity |-> g, neg |-> r.neg, count |-> r.count, limbs |-> l]
      BY <3>1, <3>2
    <3>4. QED
      BY <1>1, <3>3
  <2> HIDE DEF g, s
  <2>3. \A i \in 0 .. g - 1 : l[i] = IF i < m THEN r.limbs[i] ELSE 0
    BY <1>1
  <2>4. IsArray(l, g)
    BY <1>1, <1>2, <2>1, BaseType DEF IsArray
  <2> HIDE DEF l
  <2>5. s.capacity = g /\ s.neg = neg /\ s.count = m /\ s.limbs = l
    BY <2>2
  <2>6. m \in 1 .. g
    BY <1>2, <1>4, <2>1
  <2>7. IsObject(s) /\ Room(s) = g
    BY <1>2, <2>1, <2>2, <2>4, <2>6, ObjectOf
  <2>8. \A i \in 0 .. m - 1 : l[i] = r.limbs[i]
    BY <1>2, <2>1, <2>3, <2>6
  <2>9. IsWritten(l, m)
    BY <1>1, <2>8 DEF IsWritten
  <2>10. Magnitude(l, m) = mag
    BY <1>1, <1>2, <2>8, MagnitudeFrame
  <2>11. Stores(s, s.capacity, neg, m, mag)
    BY <2>5, <2>7, <2>9, <2>10 DEF Stores, MagnitudeOf
  <2>12. \A k : ZeroFrom(s, k)
    BY <2>1, <2>5 DEF ZeroFrom
  <2>13. n <= Room(s) /\ Room(r) <= Room(s)
    BY <1>2, <1>4, <2>1, <2>7
  <2>14. QED
    BY <1>2, <1>4, <2>11, <2>12, <2>13 DEF s
<1>5. QED
  BY <1>2, <1>3, <1>4

(* Storage to be overwritten keeps the sign, but a new block holds nothing yet. *)
LEMMA OverwritableFacts ==
  ASSUME NEW r, IsObject(r), NEW n \in Nat, Attainable(r, n)
  PROVE  LET s == Overwritable(r, n)
         IN  /\ IsObject(s) /\ s.neg = r.neg /\ s.count = r.count
             /\ n <= Room(s) /\ Room(r) <= Room(s)
             /\ n <= Room(r) => s = r
             /\ n > Room(r) => s.capacity # 0
             /\ \A k : ZeroFrom(r, k) => ZeroFrom(s, k)
<1>1. n <= MaxLimbs /\ r.capacity \in Capacities /\ Room(r) \in Nat /\ r.neg \in BOOLEAN
      /\ r.count \in 1 .. Room(r)
  BY AttainableFacts, ObjectFacts DEF IsObject
<1>2. CASE n <= Room(r)
  BY <1>1, <1>2 DEF Overwritable
<1>3. CASE n > Room(r)
  <2> DEFINE g == GrownCapacity(r, n)
             l == [i \in 0 .. g - 1 |-> Uninitialized]
             s == Overwritable(r, n)
  <2>1. g \in Capacities /\ g # 0 /\ g \in Nat /\ n <= g
    BY <1>1, <1>3, GrownCapacityFacts
  <2>2. s = [capacity |-> g, neg |-> r.neg, count |-> r.count, limbs |-> l]
    <3>1. s = [r EXCEPT !.capacity = g, !.limbs = l]
      BY <1>1, <1>3 DEF Overwritable
    <3> HIDE DEF l
    <3>2. r = [capacity |-> r.capacity, neg |-> r.neg, count |-> r.count, limbs |-> r.limbs]
      BY DEF IsObject
    <3>3. QED
      BY <3>1, <3>2
  <2> HIDE DEF g, s
  <2>3. IsArray(l, g)
    BY <2>1, BaseType DEF IsArray, Uninitialized
  <2> HIDE DEF l
  <2>4. s.capacity = g /\ s.neg = r.neg /\ s.count = r.count /\ r.count \in 1 .. g
    BY <1>1, <1>3, <2>1, <2>2
  <2>5. IsObject(s) /\ Room(s) = g
    BY <1>1, <2>1, <2>2, <2>3, <2>4, ObjectOf
  <2>6. \A k : ZeroFrom(s, k)
    BY <2>1, <2>4 DEF ZeroFrom
  <2>7. QED
    BY <1>1, <1>3, <2>1, <2>4, <2>5, <2>6 DEF s
<1>4. QED
  BY <1>1, <1>2, <1>3

(* A single limb. *)
LEMMA OneLimb ==
  ASSUME NEW size \in Nat \ {0}, NEW limbs, IsArray(limbs, size), limbs[0] = 0
  PROVE  Magnitude(limbs, 1) = 0 /\ IsWritten(limbs, 1)
<1>1. PICK one \in Nat, none \in Nat : one = 1 /\ none = 0
  OBVIOUS
<1>2. one \in 0 .. size /\ none \in 0 .. one /\ \A i \in none .. one - 1 : limbs[i] = 0
  BY <1>1
<1>3. Magnitude(limbs, one) = Magnitude(limbs, none)
  BY <1>2, MagnitudeZeros
<1>4. DigitsUpTo(limbs, none)
  BY <1>1 DEF DigitsUpTo
<1>5. FromDigits(Base, limbs, 0) = 0
  BY <1>1, <1>4, BaseType, FromDigitsType
<1>6. IsWritten(limbs, 1)
  BY BaseType DEF IsWritten
<1>7. QED
  BY <1>1, <1>3, <1>5, <1>6 DEF Magnitude

(* set_zero. *)
LEMMA ZeroedStores ==
  ASSUME NEW r, IsObject(r)
  PROVE  LET s == Zeroed(r)
         IN  /\ Stores(s, r.capacity, FALSE, 1, 0) /\ Room(s) = Room(r)
             /\ ZeroFrom(s, 1)
<1> DEFINE last == IF r.capacity = 0 THEN InplaceCapacity ELSE 1
           l == Cleared(r.limbs, 0, last)
           s == Zeroed(r)
<1>1. r.capacity \in Capacities /\ IsArray(r.limbs, Room(r)) /\ last \in Nat \ {0}
  BY Constants DEF IsObject
<1>2. PICK size \in Nat \ {0} : size = Room(r)
  BY ObjectFacts
<1>3. s = [capacity |-> r.capacity, neg |-> FALSE, count |-> 1, limbs |-> l]
  <2>1. s = [r EXCEPT !.limbs = l, !.count = 1, !.neg = FALSE]
    BY DEF Zeroed
  <2> HIDE DEF l, s
  <2>2. r = [capacity |-> r.capacity, neg |-> r.neg, count |-> r.count, limbs |-> r.limbs]
    BY DEF IsObject
  <2>3. QED
    BY <2>1, <2>2
<1> HIDE DEF s
<1>4. /\ IsArray(l, size)
      /\ \A i \in 0 .. size - 1 : i < last => l[i] = 0
  <2>1. PICK limbs : limbs = r.limbs
    OBVIOUS
  <2> PICK zero \in Nat : zero = 0
    OBVIOUS
  <2>2. IsArray(limbs, size) /\ l = Cleared(limbs, zero, last)
    BY <1>1, <1>2, <2>1
  <2>3. zero \in Nat /\ size \in Nat /\ \A i \in 0 .. size - 1 : zero <= i
    BY <1>2
  <2> HIDE DEF l
  <2>4. l = [i \in 0 .. size - 1 |-> IF zero <= i /\ i < last THEN 0 ELSE limbs[i]]
    BY <2>2 DEF Cleared, IsArray
  <2>5. \A i \in 0 .. size - 1 : limbs[i] \in 0 .. Base /\ 0 \in 0 .. Base
    BY <2>2, BaseType DEF IsArray
  <2>6. IsArray(l, size)
    BY <2>4, <2>5 DEF IsArray
  <2>7. QED
    BY <2>3, <2>4, <2>6
<1>5. l[0] = 0 /\ (r.capacity = 0 => \A i \in 1 .. InplaceCapacity - 1 : l[i] = 0)
  BY <1>1, <1>2, <1>4, Constants DEF Room
<1> HIDE DEF l
<1>6. s.capacity = r.capacity /\ s.neg = FALSE /\ s.count = 1 /\ s.limbs = l
  BY <1>3
<1>7. IsObject(s) /\ Room(s) = size
  <2>1. 1 \in 1 .. size /\ size = IF r.capacity = 0 THEN InplaceCapacity ELSE r.capacity
    BY <1>2 DEF Room
  <2>2. PICK one \in 1 .. size, no \in BOOLEAN : one = 1 /\ no = FALSE
    BY <2>1
  <2>3. s = [capacity |-> r.capacity, neg |-> no, count |-> one, limbs |-> l]
    BY <1>3, <2>2
  <2>4. QED
    BY <1>1, <1>4, <2>1, <2>3, ObjectOf
<1>8. IsWritten(l, 1) /\ Magnitude(l, 1) = 0
  BY <1>2, <1>4, <1>5, OneLimb
<1>9. QED
  BY <1>2, <1>5, <1>6, <1>7, <1>8 DEF Stores, ZeroFrom, MagnitudeOf, s

(***************************************************************************)
(* What the properties ask of a step.                                      *)
(***************************************************************************)

Bitwise == {"&=", "|=", "^="}

(* the object in its invariant state, before a call *)
Canonical(r) == IsObject(r) /\ Settles(r, r.neg, MagnitudeOf(r))

(* the call that throws costs no more than FailureCost says *)
CostsLittle ==
  \/ acc' = acc
  \/ /\ call'.op \in {"+=", "-=", "++", "--", "*="}
     /\ LET exact == Abs(Meaning(call'.op, ValueOf(acc), call'.rhs))
        IN  /\ exact >= Power(Base, acc'.count)
            /\ MagnitudeOf(acc') = exact % Power(Base, acc'.count)
     /\ acc'.count = Room(acc')
  \/ /\ call'.op \in {"/=", "%="}
     /\ acc'.count = 1 /\ ~acc'.neg
     /\ acc'.limbs[0] # 0 => call'.op = "/=" /\ acc'.capacity # 0

(* operators that have all the room they need *)
StaysInPlace(op, rhs) == op \in {">>=", "negate"} \/ (op \in {"/=", "%="} /\ rhs.mag < Base)

GoodStep ==
  /\ IsObject(acc')
  /\ call'.outcome = "ok" =>
       /\ Canonical(acc')
       /\ ValueOf(acc') = Meaning(call'.op, ValueOf(acc), call'.rhs)
       /\ call'.op \notin Bitwise /\ ZeroFrom(acc, acc.count) => ZeroFrom(acc', acc'.count)
  /\ call'.outcome # "ok" => CostsLittle
  /\ StaysInPlace(call'.op, call'.rhs) => call'.outcome = "ok" /\ acc'.capacity = acc.capacity
  /\ call'.op \in {"<<=", "++", "--"} /\ call'.outcome # "ok" =>
       LimbsNeeded(Abs(Meaning(call'.op, ValueOf(acc), call'.rhs))) > Room(acc)

(* A call that returns is good when what it leaves is the canonical form of its meaning. *)
LEMMA ReturnsGood ==
  ASSUME NEW op, NEW rhs, NEW s, Returns(op, rhs, s),
         NEW neg, NEW mag, Settles(s, neg, mag),
         IntegerOf(neg, mag) = Meaning(op, ValueOf(acc), rhs),
         op \in Bitwise \/ (ZeroFrom(acc, acc.count) => ZeroFrom(s, s.count)),
         StaysInPlace(op, rhs) => s.capacity = acc.capacity
  PROVE  GoodStep
<1>1. acc' = s /\ call' = [op |-> op, rhs |-> rhs, outcome |-> "ok"]
  BY DEF Returns, Ends
<1>2. call'.op = op /\ call'.rhs = rhs /\ call'.outcome = "ok"
  BY <1>1
<1>3. IsObject(s) /\ s.neg = neg /\ MagnitudeOf(s) = mag
  BY DEF Settles, Stores
<1>4. Canonical(s) /\ ValueOf(s) = IntegerOf(neg, mag)
  BY <1>3 DEF Canonical, ValueOf
<1>5. QED
  BY <1>1, <1>2, <1>3, <1>4 DEF GoodStep

(* A call that throws before it has changed anything is good, if it may throw. *)
LEMMA ThrowsGood ==
  ASSUME NEW op, NEW rhs, NEW outcome, Ends(op, rhs, outcome, acc), outcome # "ok",
         IsObject(acc), ~StaysInPlace(op, rhs),
         op \in {"<<=", "++", "--"} =>
           LimbsNeeded(Abs(Meaning(op, ValueOf(acc), rhs))) > Room(acc)
  PROVE  GoodStep
<1>1. acc' = acc /\ call' = [op |-> op, rhs |-> rhs, outcome |-> outcome]
  BY DEF Ends
<1>2. call'.op = op /\ call'.rhs = rhs /\ call'.outcome # "ok"
  BY <1>1
<1>3. QED
  BY <1>1, <1>2 DEF GoodStep, CostsLittle

(* A request for room, of the object before the call, that is then completed. *)
LEMMA RequestsGood ==
  ASSUME NEW op, NEW rhs, NEW n \in Nat, NEW s, Requests(op, rhs, acc, n, s),
         IsObject(acc), ~StaysInPlace(op, rhs),
         op \in {"<<=", "++", "--"} =>
           n = LimbsNeeded(Abs(Meaning(op, ValueOf(acc), rhs))),
         NEW neg, NEW mag, Attainable(acc, n) => Settles(s, neg, mag),
         IntegerOf(neg, mag) = Meaning(op, ValueOf(acc), rhs),
         Attainable(acc, n) => op \in Bitwise \/ (ZeroFrom(acc, acc.count) => ZeroFrom(s, s.count))
  PROVE  GoodStep
<1>1. CASE Throws(op, rhs, acc, n)
  <2>1. PICK outcome : outcome # "ok" /\ n > Room(acc) /\ Ends(op, rhs, outcome, acc)
    BY <1>1 DEF Throws
  <2>2. QED
    BY <2>1, ThrowsGood
<1>2. CASE Attainable(acc, n) /\ Returns(op, rhs, s)
  BY <1>2, ReturnsGood
<1>3. QED
  BY <1>1, <1>2 DEF Requests

(***************************************************************************)
(* Operators that carry.                                                   *)
(***************************************************************************)

(* Carries leaves v, or loses its carry limb. *)
LEMMA CarriesFacts ==
  ASSUME NEW op, NEW rhs, NEW r, NEW c, NEW rneg, NEW m, NEW mag, Stores(r, c, rneg, m, mag),
         NEW n \in 1 .. Room(r), NEW v \in Nat, v < Power(Base, n + 1),
         n = 1 \/ Power(Base, n - 1) <= v,
         NEW neg \in BOOLEAN, neg => v # 0,
         Carries(op, rhs, r, n, v, neg)
  PROVE  \/ /\ \E s : /\ Returns(op, rhs, s) /\ Settles(s, neg, v)
                      /\ ZeroFrom(r, n) => ZeroFrom(s, s.count)
                      /\ v < Power(Base, n) \/ n < Room(r) => s.capacity = c
         \/ /\ v >= Power(Base, n) /\ n = Room(r)
            /\ \E s, outcome : /\ outcome # "ok" /\ Ends(op, rhs, outcome, s)
                               /\ Stores(s, c, rneg, n, v % Power(Base, n)) /\ Room(s) = n
<1> DEFINE low == WithLimbs(r, n, v)
           grown == Grown(low, n + 1)
           high == WithLimbs(grown, n + 1, v)
<1>1. IsObject(r) /\ r.capacity = c /\ r.neg = rneg /\ Room(r) \in 1 .. MaxLimbs /\ MaxLimbs \in Nat
  BY ObjectFacts, Constants DEF Stores
<1>2. /\ Stores(low, c, rneg, n, v % Power(Base, n))
      /\ v < Power(Base, n) => Stores(low, c, rneg, n, v)
      /\ Room(low) = Room(r)
      /\ \A k \in Nat : n <= k /\ ZeroFrom(r, k) => ZeroFrom(low, k)
  BY <1>1, WithLimbsFacts
<1> HIDE DEF low
<1>3. n \in Nat /\ n \in Nat \ {0} /\ n + 1 \in Nat \ {0} /\ (n + 1) - 1 = n
  BY <1>1
<1>4. CASE v < Power(Base, n) /\ Returns(op, rhs, Signed(low, neg))
  <2> DEFINE s == Signed(low, neg)
  <2>1. Stores(s, c, neg, n, v) /\ \A k : ZeroFrom(low, k) => ZeroFrom(s, k)
    BY <1>2, <1>4, SignedStores
  <2>2. n = LimbsNeeded(v)
    BY <1>3, <1>4, HasLimbsUnique DEF HasLimbs
  <2>3. s.capacity = c /\ s.count = n
    BY <2>1 DEF Stores
  <2>4. Settles(s, neg, v)
    BY <2>1, <2>2, <2>3 DEF Settles
  <2>5. ZeroFrom(r, n) => ZeroFrom(s, s.count)
    BY <1>2, <1>3, <2>1, <2>3
  <2>6. QED
    BY <1>4, <2>3, <2>4, <2>5
<1>5. ASSUME v >= Power(Base, n), Throws(op, rhs, low, n + 1)
      PROVE  /\ n = Room(r)
             /\ \E s, outcome : /\ outcome # "ok" /\ Ends(op, rhs, outcome, s)
                                /\ Stores(s, c, rneg, n, v % Power(Base, n)) /\ Room(s) = n
  <2>1. n = Room(r)
    BY <1>1, <1>2, <1>3, <1>5 DEF Throws
  <2>2. PICK outcome : outcome # "ok" /\ Ends(op, rhs, outcome, low)
    BY <1>5 DEF Throws
  <2>3. QED
    BY <1>2, <2>1, <2>2
<1>6. CASE /\ v >= Power(Base, n) /\ Attainable(low, n + 1)
           /\ Returns(op, rhs, Signed(high, neg))
  <2> DEFINE s == Signed(high, neg)
  <2>1. /\ Stores(grown, grown.capacity, rneg, n, v % Power(Base, n))
        /\ n + 1 <= Room(grown) /\ Room(low) <= Room(grown)
        /\ n + 1 <= Room(low) => grown = low
        /\ \A k : ZeroFrom(low, k) => ZeroFrom(grown, k)
    BY <1>2, <1>3, <1>6, GrownStores
  <2> HIDE DEF grown
  <2>2. IsObject(grown) /\ Room(grown) \in Nat /\ n + 1 \in 1 .. Room(grown) /\ grown.neg = rneg
    BY <1>3, <2>1, ObjectFacts DEF Stores
  <2>3. /\ Stores(high, grown.capacity, rneg, n + 1, v)
        /\ \A k \in Nat : n + 1 <= k /\ ZeroFrom(grown, k) => ZeroFrom(high, k)
    BY <2>2, WithLimbsFacts
  <2> HIDE DEF high
  <2>4. Stores(s, grown.capacity, neg, n + 1, v) /\ \A k : ZeroFrom(high, k) => ZeroFrom(s, k)
    BY <2>3, SignedStores
  <2>5. n + 1 = LimbsNeeded(v)
    BY <1>3, <1>6, HasLimbsUnique DEF HasLimbs
  <2>6. s.capacity = grown.capacity /\ s.count = n + 1
    BY <2>4 DEF Stores
  <2>7. Settles(s, neg, v)
    BY <2>4, <2>5, <2>6 DEF Settles
  <2>8. ZeroFrom(r, n) => ZeroFrom(s, s.count)
    <3>1. ASSUME ZeroFrom(r, n) PROVE ZeroFrom(low, n)
      BY <1>2, <1>3, <3>1
    <3>2. ZeroFrom(low, n) => ZeroFrom(low, n + 1)
      BY <1>3, Constants DEF ZeroFrom
    <3>3. QED
      BY <1>3, <2>1, <2>3, <2>4, <2>6, <3>1, <3>2
  <2>9. ASSUME v < Power(Base, n) \/ n < Room(r) PROVE s.capacity = c
    <3>1. n + 1 <= Room(low)
      <4>1. Power(Base, n) \in Nat
        BY <1>3, BasePower
      <4>2. QED
        BY <1>1, <1>2, <1>3, <1>6, <2>9, <4>1
    <3>2. QED
      BY <1>2, <2>1, <2>6, <3>1 DEF Stores
  <2>10. QED
    BY <1>6, <2>6, <2>7, <2>8, <2>9
<1>7. QED
  BY <1>4, <1>5, <1>6 DEF Carries, Requests, low

(* An integer of a sign and a magnitude. *)
LEMMA IntegerFacts ==
  ASSUME NEW neg \in BOOLEAN, NEW mag \in Nat
  PROVE  /\ IntegerOf(neg, mag) \in Int
         /\ Abs(IntegerOf(neg, mag)) = mag
         /\ IntegerOf(neg, mag) < 0 <=> neg /\ mag # 0
         /\ IntegerOf(neg /\ mag # 0, mag) = IntegerOf(neg, mag)
  BY DEF IntegerOf, Abs

(* An operator that carries is good when it is given the magnitude of its meaning. *)
LEMMA CarriesGood ==
  ASSUME NEW op \in {"+=", "-=", "++", "--", "*="}, NEW rhs,
         NEW r, NEW c, NEW rneg, NEW m, NEW mag, Stores(r, c, rneg, m, mag),
         NEW n \in 1 .. Room(r), NEW v \in Nat, v < Power(Base, n + 1),
         n = 1 \/ Power(Base, n - 1) <= v,
         NEW neg \in BOOLEAN, neg => v # 0,
         Carries(op, rhs, r, n, v, neg),
         IntegerOf(neg, v) = Meaning(op, ValueOf(acc), rhs),
         ZeroFrom(acc, acc.count) => ZeroFrom(r, n),
         op \in {"++", "--"} => Room(r) = Room(acc)
  PROVE  GoodStep
<1>1. op \notin Bitwise /\ ~StaysInPlace(op, rhs) /\ op # "<<="
  BY DEF Bitwise, StaysInPlace
<1>2. v = Abs(Meaning(op, ValueOf(acc), rhs))
  BY IntegerFacts
<1>3. n \in Nat \ {0} /\ n \in Nat
  BY ObjectFacts, Constants DEF Stores
<1>4. CASE \E s : /\ Returns(op, rhs, s) /\ Settles(s, neg, v)
                  /\ ZeroFrom(r, n) => ZeroFrom(s, s.count)
                  /\ v < Power(Base, n) \/ n < Room(r) => s.capacity = c
  BY <1>1, <1>4, ReturnsGood
<1>5. ASSUME v >= Power(Base, n), n = Room(r),
             NEW s, NEW outcome, outcome # "ok", Ends(op, rhs, outcome, s),
             Stores(s, c, rneg, n, v % Power(Base, n)), Room(s) = n
      PROVE  GoodStep
  <2>1. acc' = s /\ call' = [op |-> op, rhs |-> rhs, outcome |-> outcome]
    BY <1>5 DEF Ends
  <2>2. call'.op = op /\ call'.rhs = rhs /\ call'.outcome # "ok"
    BY <1>5, <2>1
  <2>3. IsObject(s) /\ s.count = n /\ MagnitudeOf(s) = v % Power(Base, n)
    BY <1>5 DEF Stores
  <2>4. LimbsNeeded(v) > n
    <3>1. PICK p \in Nat : p = Power(Base, n)
      BY <1>3, BasePower
    <3>2. LimbsNeeded(v) \in Nat
      BY LimbsNeededHas DEF HasLimbs
    <3>3. QED
      BY <1>3, <1>5, <3>1, <3>2, LimbsNeededBelow
  <2>5. CostsLittle
    BY <1>2, <1>5, <2>1, <2>2, <2>3 DEF CostsLittle
  <2>6. QED
    BY <1>1, <1>2, <1>5, <2>1, <2>2, <2>3, <2>4, <2>5 DEF GoodStep
<1>6. CASE /\ v >= Power(Base, n) /\ n = Room(r)
           /\ \E s, outcome : /\ outcome # "ok" /\ Ends(op, rhs, outcome, s)
                              /\ Stores(s, c, rneg, n, v % Power(Base, n)) /\ Room(s) = n
  BY <1>5, <1>6
<1>7. QED
  BY <1>4, <1>6, CarriesFacts

(* The other operand: a big integer, an integer, or the object itself. *)
IsOperand(rhs) ==
  /\ rhs.neg \in BOOLEAN /\ rhs.mag \in Nat /\ rhs.size \in 1 .. MaxLimbs
  /\ rhs.neg => rhs.mag # 0
  /\ rhs.mag < Power(Base, rhs.size)

LEMMA OperandsAreOperands == \A rhs \in Operands : IsOperand(rhs)
<1> SUFFICES ASSUME NEW rhs \in Operands PROVE IsOperand(rhs)
  OBVIOUS
<1>1. /\ rhs.neg \in BOOLEAN /\ rhs.mag \in Nat /\ rhs.size \in 1 .. MaxLimbs
      /\ rhs.neg => rhs.mag # 0
      /\ rhs.size = LimbsNeeded(rhs.mag) \/ rhs.mag < Power(Base, rhs.size)
  BY ArithAssumption DEF Operands
<1>2. rhs.mag < Power(Base, LimbsNeeded(rhs.mag))
  BY <1>1, LimbsNeededHas DEF HasLimbs
<1>3. QED
  BY <1>1, <1>2 DEF IsOperand

(* A canonical object, in arithmetic terms. *)
LEMMA CanonicalFacts ==
  ASSUME NEW r, Canonical(r)
  PROVE  /\ IsObject(r) /\ Room(r) \in 1 .. MaxLimbs /\ r.count \in 1 .. Room(r)
         /\ Stores(r, r.capacity, r.neg, r.count, MagnitudeOf(r))
         /\ r.neg \in BOOLEAN /\ MagnitudeOf(r) \in Nat
         /\ MagnitudeOf(r) < Power(Base, r.count)
         /\ r.count = 1 \/ Power(Base, r.count - 1) <= MagnitudeOf(r)
         /\ r.count = LimbsNeeded(MagnitudeOf(r))
         /\ r.neg => MagnitudeOf(r) # 0
         /\ r.count \in Nat /\ MaxLimbs \in Nat
<1>1. IsObject(r) /\ r.count = LimbsNeeded(MagnitudeOf(r)) /\ (r.neg => MagnitudeOf(r) # 0)
      /\ Stores(r, r.capacity, r.neg, r.count, MagnitudeOf(r))
  BY DEF Canonical, Settles, Stores
<1>2. HasLimbs(MagnitudeOf(r), r.count)
  BY <1>1, ObjectFacts, LimbsNeededHas
<1>3. QED
  BY <1>1, <1>2, ObjectFacts, Constants DEF HasLimbs

LEMMA SelfIsOperand ==
  ASSUME Canonical(acc)
  PROVE  IsOperand(Self) /\ Self.mag = MagnitudeOf(acc) /\ Self.neg = acc.neg
<1>1. Self.mag = MagnitudeOf(acc) /\ Self.neg = acc.neg /\ Self.size = acc.count
  BY DEF Self
<1>2. QED
  BY <1>1, CanonicalFacts DEF IsOperand

(* The limbs an operand needs. *)
LEMMA OperandFacts ==
  ASSUME NEW rhs, IsOperand(rhs)
  PROVE  /\ rhs.mag \in Nat /\ rhs.neg \in BOOLEAN /\ rhs.size \in Nat \ {0}
         /\ LimbsNeeded(rhs.mag) \in 1 .. MaxLimbs /\ LimbsNeeded(rhs.mag) \in Nat
         /\ rhs.mag < Power(Base, LimbsNeeded(rhs.mag))
         /\ LimbsNeeded(rhs.mag) = 1 \/ Power(Base, LimbsNeeded(rhs.mag) - 1) <= rhs.mag
         /\ IntegerOf(rhs.neg, rhs.mag) \in Int
<1>1. rhs.mag \in Nat /\ rhs.neg \in BOOLEAN /\ rhs.size \in Nat \ {0} /\ rhs.size <= MaxLimbs
      /\ MaxLimbs \in Nat /\ rhs.mag < Power(Base, rhs.size)
  BY Constants DEF IsOperand
<1>2. HasLimbs(rhs.mag, LimbsNeeded(rhs.mag))
  BY <1>1, LimbsNeededHas
<1>3. LimbsNeeded(rhs.mag) <= rhs.size
  BY <1>1, LimbsNeededBelow
<1>4. QED
  BY <1>1, <1>2, <1>3, IntegerFacts DEF HasLimbs

(* What each operator means. *)
LEMMA MeaningOf ==
  ASSUME NEW x, NEW rhs
  PROVE  /\ Meaning("++", x, rhs) = x + 1
         /\ Meaning("--", x, rhs) = x - 1
         /\ Meaning("negate", x, rhs) = -x
         /\ Meaning("reserve", x, rhs) = x
         /\ Meaning("<<=", x, rhs) = x * Power(2, rhs.mag)
         /\ Meaning(">>=", x, rhs) = x \div Power(2, rhs.mag)
  BY DEF Meaning

LEMMA OperandMeaning ==
  ASSUME NEW x, NEW rhs, NEW y, y = IntegerOf(rhs.neg, rhs.mag),
         NEW bits, bits = LimbBits * MaxLimbs + 1
  PROVE  /\ Meaning("=", x, rhs) = y
         /\ Meaning("+=", x, rhs) = x + y
         /\ Meaning("-=", x, rhs) = x - y
         /\ Meaning("*=", x, rhs) = x * y
         /\ Meaning("/=", x, rhs) = Truncated(x, y)
         /\ Meaning("%=", x, rhs) = x - y * Truncated(x, y)
         /\ Meaning("&=", x, rhs) = BitwiseMeaning("and", x, y, bits)
         /\ Meaning("|=", x, rhs) = BitwiseMeaning("or", x, y, bits)
         /\ Meaning("^=", x, rhs) = BitwiseMeaning("xor", x, y, bits)
  BY DEF Meaning

(***************************************************************************)
(* Addition and subtraction.                                               *)
(***************************************************************************)

(* One more limb at least doubles the numbers there are. *)
LEMMA PowerDoubles ==
  ASSUME NEW n \in Nat
  PROVE  Power(Base, n + 1) = Base * Power(Base, n) /\ 2 * Power(Base, n) <= Power(Base, n + 1)
<1>1. PICK p \in Nat, b \in Nat : p = Power(Base, n) /\ b = Base /\ 2 <= b
  BY BaseType, BasePower
<1>2. Power(Base, n + 1) = b * p
  BY <1>1, BaseType, PowerStep
<1>3. 2 * p <= b * p
  BY <1>1, MulPos
<1>4. QED
  BY <1>1, <1>2, <1>3

(* A result that is written to n limbs and trimmed. *)
LEMMA TrimmedResult ==
  ASSUME NEW r, IsObject(r), NEW n \in 1 .. Room(r), NEW v \in Nat, v < Power(Base, n)
  PROVE  LET s == Trimmed(WithLimbs(r, n, v))
         IN  /\ Stores(s, r.capacity, r.neg, LimbsNeeded(v), v)
             /\ ZeroFrom(r, n) => ZeroFrom(s, LimbsNeeded(v))
             /\ \A k \in Nat : n <= k /\ ZeroFrom(r, k) => ZeroFrom(s, k)
             /\ s = [WithLimbs(r, n, v) EXCEPT !.count = LimbsNeeded(v)]
<1> DEFINE w == WithLimbs(r, n, v)
<1>1. n \in Nat
  BY ObjectFacts
<1>2. /\ Stores(w, r.capacity, r.neg, n, v)
      /\ \A k \in Nat : n <= k /\ ZeroFrom(r, k) => ZeroFrom(w, k)
  BY <1>1, WithLimbsFacts
<1> HIDE DEF w
<1>3. /\ Stores(Trimmed(w), r.capacity, r.neg, LimbsNeeded(v), v)
      /\ ZeroFrom(w, n) => ZeroFrom(Trimmed(w), LimbsNeeded(v))
      /\ \A k : ZeroFrom(w, k) => ZeroFrom(Trimmed(w), k)
  BY <1>2, TrimmedStores
<1>4. Trimmed(w) = [w EXCEPT !.count = LimbsNeeded(v)]
  <2>1. w = [capacity |-> w.capacity, neg |-> w.neg, count |-> w.count, limbs |-> w.limbs]
    BY <1>2 DEF Stores, IsObject
  <2>2. Trimmed(w).count = LimbsNeeded(v)
    BY <1>3 DEF Stores
  <2>3. Trimmed(w) = [w EXCEPT !.count = TrimmedSize(w.limbs, w.count)]
    BY DEF Trimmed
  <2>4. TrimmedSize(w.limbs, w.count) = LimbsNeeded(v)
    BY <2>1, <2>2, <2>3
  <2>5. QED
    BY <2>3, <2>4
<1>5. QED
  BY <1>1, <1>2, <1>3, <1>4 DEF w

(* An object that stores the canonical form settles. *)
LEMMA StoresSettles ==
  ASSUME NEW s, NEW c, NEW neg, NEW n, NEW mag, Stores(s, c, neg, n, mag),
         n = LimbsNeeded(mag), neg => mag # 0
  PROVE  Settles(s, neg, mag) /\ s.count = n /\ s.capacity = c
  BY DEF Settles, Stores

LEMMA AddInPlaceGood ==
  ASSUME Canonical(acc), NEW op \in {"+=", "-="}, NEW rhs, IsOperand(rhs), NEW neg \in BOOLEAN,
         neg = IF op = "+=" THEN rhs.neg ELSE ~rhs.neg,
         AddInPlace(op, rhs, neg)
  PROVE  GoodStep
<1> DEFINE n == acc.count
           m == LimbsNeeded(rhs.mag)
           v == MagnitudeOf(acc)
           w == rhs.mag
<1>1. /\ IsObject(acc) /\ n \in 1 .. Room(acc) /\ Room(acc) \in 1 .. MaxLimbs /\ MaxLimbs \in Nat
      /\ Stores(acc, acc.capacity, acc.neg, n, v)
      /\ acc.neg \in BOOLEAN /\ v \in Nat /\ v < Power(Base, n)
      /\ n = 1 \/ Power(Base, n - 1) <= v
      /\ n = LimbsNeeded(v)
      /\ acc.neg => v # 0
      /\ n \in Nat /\ n \in Nat \ {0} /\ n + 1 \in Nat
  BY CanonicalFacts
<1>2. /\ w \in Nat /\ rhs.neg \in BOOLEAN /\ m \in 1 .. MaxLimbs /\ m \in Nat /\ m \in Nat \ {0}
      /\ w < Power(Base, m)
      /\ m = 1 \/ Power(Base, m - 1) <= w
  BY OperandFacts
<1>3. PICK z \in Int : /\ z = Meaning(op, ValueOf(acc), rhs)
                       /\ z = IntegerOf(acc.neg, v) + IntegerOf(neg, w)
  <2>1. PICK y \in Int : y = IntegerOf(rhs.neg, rhs.mag)
    BY <1>2, IntegerFacts
  <2>2. PICK x \in Int : x = ValueOf(acc) /\ x = IntegerOf(acc.neg, v)
    BY <1>1, IntegerFacts DEF ValueOf
  <2>3. Meaning(op, x, rhs) = IF op = "+=" THEN x + y ELSE x - y
    BY <2>1, OperandMeaning
  <2>4. IntegerOf(neg, w) = IF op = "+=" THEN y ELSE -y
    BY <1>2, <2>1 DEF IntegerOf
  <2>5. QED
    BY <2>1, <2>2, <2>3, <2>4
<1>4. op \notin Bitwise /\ ~StaysInPlace(op, rhs) /\ op \notin {"<<=", "++", "--"}
      /\ op \in {"+=", "-=", "++", "--", "*="}
  BY DEF Bitwise, StaysInPlace
<1>5. PICK pn \in Nat, pm \in Nat : pn = Power(Base, n) /\ pm = Power(Base, m)
  BY <1>1, <1>2, BasePower
<1>6. m <= n => pm <= pn
  BY <1>1, <1>2, <1>5, BaseType, PowerGrows
<1>7. n <= m => pn <= pm
  BY <1>1, <1>2, <1>5, BaseType, PowerGrows
<1> HIDE DEF n, m, v, w
<1>8. CASE acc.neg = neg /\ m <= n /\ Carries(op, rhs, acc, n, v + w, neg)
  <2>1. v + w \in Nat /\ v + w < Power(Base, n + 1) /\ (neg => v + w # 0)
        /\ (n = 1 \/ Power(Base, n - 1) <= v + w)
    <3>1. n = 1 \/ Power(Base, n - 1) \in Nat
      BY <1>1, BasePower
    <3>2. Power(Base, n + 1) \in Nat /\ 2 * pn <= Power(Base, n + 1)
      BY <1>1, <1>5, BasePower, PowerDoubles
    <3>3. QED
      BY <1>1, <1>2, <1>5, <1>6, <1>8, <3>1, <3>2
  <2>2. IntegerOf(neg, v + w) = Meaning(op, ValueOf(acc), rhs)
    BY <1>1, <1>2, <1>3, <1>8 DEF IntegerOf
  <2>3. QED
    BY <1>1, <1>4, <1>8, <2>1, <2>2, CarriesGood DEF n
<1>9. CASE acc.neg = neg /\ m > n /\ Throws(op, rhs, acc, m)
  BY <1>1, <1>4, <1>9, ThrowsGood DEF Throws
<1>10. CASE /\ acc.neg = neg /\ m > n
            /\ Attainable(acc, m) /\ Carries(op, rhs, Grown(acc, m), m, v + w, neg)
  <2> DEFINE g == Grown(acc, m)
  <2>1. /\ Stores(g, g.capacity, acc.neg, n, v) /\ m <= Room(g)
        /\ \A k : ZeroFrom(acc, k) => ZeroFrom(g, k)
    BY <1>1, <1>2, <1>10, GrownStores
  <2> HIDE DEF g
  <2>2. v + w \in Nat /\ v + w < Power(Base, m + 1) /\ (neg => v + w # 0)
        /\ (m = 1 \/ Power(Base, m - 1) <= v + w)
    <3>1. m = 1 \/ Power(Base, m - 1) \in Nat
      BY <1>2, BasePower
    <3>2. Power(Base, m + 1) \in Nat /\ 2 * pm <= Power(Base, m + 1)
      BY <1>2, <1>5, BasePower, PowerDoubles
    <3>3. QED
      BY <1>1, <1>2, <1>5, <1>7, <1>10, <3>1, <3>2
  <2>3. IntegerOf(neg, v + w) = Meaning(op, ValueOf(acc), rhs)
    BY <1>1, <1>2, <1>3, <1>10 DEF IntegerOf
  <2>4. ZeroFrom(acc, n) => ZeroFrom(g, m)
    <3>1. ZeroFrom(acc, n) => ZeroFrom(acc, m)
      BY <1>1, <1>2, <1>10, Constants DEF ZeroFrom
    <3>2. QED
      BY <2>1, <3>1
  <2>5. m \in 1 .. Room(g)
    BY <1>2, <2>1, ObjectFacts DEF Stores
  <2>6. Carries(op, rhs, g, m, v + w, neg)
    BY <1>10 DEF g
  <2>7. QED
    BY <1>4, <2>1, <2>2, <2>3, <2>4, <2>5, <2>6, CarriesGood DEF n
<1>11. CASE acc.neg # neg /\ v = w /\ Returns(op, rhs, Zeroed(acc))
  <2>1. Stores(Zeroed(acc), acc.capacity, FALSE, 1, 0) /\ ZeroFrom(Zeroed(acc), 1)
    BY <1>1, ZeroedStores
  <2>2. LimbsNeeded(0) = 1
    BY BaseType, LimbsOfSmall
  <2>3. /\ Settles(Zeroed(acc), FALSE, 0) /\ Zeroed(acc).count = 1
    BY <2>1, <2>2, StoresSettles
  <2>4. IntegerOf(FALSE, 0) = Meaning(op, ValueOf(acc), rhs)
    BY <1>1, <1>2, <1>3, <1>11 DEF IntegerOf
  <2>5. QED
    BY <1>4, <1>11, <2>1, <2>3, <2>4, ReturnsGood
<1>12. CASE acc.neg # neg /\ v > w /\ Returns(op, rhs, Trimmed(WithLimbs(acc, n, v - w)))
  <2> DEFINE s == Trimmed(WithLimbs(acc, n, v - w))
  <2>1. v - w \in Nat /\ v - w < Power(Base, n) /\ v - w # 0
    BY <1>1, <1>2, <1>5, <1>12
  <2>2. /\ Stores(s, acc.capacity, acc.neg, LimbsNeeded(v - w), v - w)
        /\ ZeroFrom(acc, n) => ZeroFrom(s, LimbsNeeded(v - w))
    BY <1>1, <2>1, TrimmedResult
  <2>3. Returns(op, rhs, s)
    BY <1>12
  <2> HIDE DEF s
  <2>4. Settles(s, acc.neg, v - w) /\ s.count = LimbsNeeded(v - w)
    BY <2>1, <2>2, StoresSettles
  <2>5. IntegerOf(acc.neg, v - w) = Meaning(op, ValueOf(acc), rhs)
    BY <1>1, <1>2, <1>3, <1>12 DEF IntegerOf
  <2>6. QED
    BY <1>4, <2>2, <2>3, <2>4, <2>5, ReturnsGood DEF n
<1>13. CASE /\ acc.neg # neg /\ v < w
            /\ Requests(op, rhs, acc, m, Signed(Trimmed(WithLimbs(Grown(acc, m), m, w - v)), neg))
  <2> DEFINE g == Grown(acc, m)
             t == Trimmed(WithLimbs(g, m, w - v))
             s == Signed(t, neg)
  <2>1. w - v \in Nat /\ w - v < Power(Base, m) /\ w - v # 0
    BY <1>1, <1>2, <1>5, <1>13
  <2>2. Requests(op, rhs, acc, m, s)
    BY <1>13
  <2> HIDE DEF s
  <2>3. ASSUME Attainable(acc, m)
        PROVE  Settles(s, neg, w - v) /\ (ZeroFrom(acc, n) => ZeroFrom(s, s.count))
    <3>1. /\ Stores(g, g.capacity, acc.neg, n, v) /\ m <= Room(g)
          /\ \A k : ZeroFrom(acc, k) => ZeroFrom(g, k)
      BY <1>1, <1>2, <2>3, GrownStores
    <3> HIDE DEF g
    <3>2. IsObject(g) /\ m \in 1 .. Room(g)
      BY <1>2, <3>1, ObjectFacts DEF Stores
    <3>3. /\ Stores(t, g.capacity, g.neg, LimbsNeeded(w - v), w - v)
          /\ ZeroFrom(g, m) => ZeroFrom(t, LimbsNeeded(w - v))
      BY <2>1, <3>2, TrimmedResult
    <3> HIDE DEF t
    <3>4. /\ Stores(s, g.capacity, neg, LimbsNeeded(w - v), w - v)
          /\ \A k : ZeroFrom(t, k) => ZeroFrom(s, k)
      BY <3>3, SignedStores DEF s
    <3>5. Settles(s, neg, w - v) /\ s.count = LimbsNeeded(w - v)
      BY <2>1, <3>4, StoresSettles
    <3>6. n <= m
      BY <1>1, <1>2, <1>5, <1>13, LimbsNeededBelow DEF n
    <3>7. ZeroFrom(acc, n) => ZeroFrom(acc, m)
      BY <1>1, <1>2, <3>6, Constants DEF ZeroFrom
    <3>8. QED
      BY <3>1, <3>3, <3>4, <3>5, <3>7
  <2>4. IntegerOf(neg, w - v) = Meaning(op, ValueOf(acc), rhs)
    BY <1>1, <1>2, <1>3, <1>13 DEF IntegerOf
  <2>5. QED
    BY <1>1, <1>2, <1>4, <2>2, <2>3, <2>4, RequestsGood DEF n
<1>14. QED
  BY <1>8, <1>9, <1>10, <1>11, <1>12, <1>13 DEF AddInPlace, n, m, v, w

LEMMA AddAssignGood ==
  ASSUME Canonical(acc), NEW rhs, IsOperand(rhs), AddAssign(rhs) \/ SubAssign(rhs)
  PROVE  GoodStep
<1>1. rhs.neg \in BOOLEAN /\ (~rhs.neg) \in BOOLEAN
  BY OperandFacts
<1>2. CASE AddAssign(rhs)
  BY <1>1, <1>2, AddInPlaceGood DEF AddAssign
<1>3. CASE SubAssign(rhs)
  BY <1>1, <1>3, AddInPlaceGood DEF SubAssign
<1>4. QED
  BY <1>2, <1>3

(* An object set to zero is good when zero is meant. *)
LEMMA ZeroedGood ==
  ASSUME IsObject(acc), NEW op, NEW rhs, Returns(op, rhs, Zeroed(acc)),
         Meaning(op, ValueOf(acc), rhs) = 0
  PROVE  GoodStep
<1>1. Stores(Zeroed(acc), acc.capacity, FALSE, 1, 0) /\ ZeroFrom(Zeroed(acc), 1)
  BY ZeroedStores
<1>2. LimbsNeeded(0) = 1
  BY BaseType, LimbsOfSmall
<1>3. Settles(Zeroed(acc), FALSE, 0) /\ Zeroed(acc).count = 1
      /\ Zeroed(acc).capacity = acc.capacity
  BY <1>1, <1>2, StoresSettles
<1>4. IntegerOf(FALSE, 0) = 0
  BY DEF IntegerOf
<1>5. QED
  BY <1>1, <1>3, <1>4, ReturnsGood

LEMMA SubAssignSelfGood == ASSUME Canonical(acc), SubAssignSelf PROVE GoodStep
<1>1. PICK x \in Int : x = ValueOf(acc) /\ x = IntegerOf(Self.neg, Self.mag)
  BY CanonicalFacts, SelfIsOperand, IntegerFacts DEF ValueOf
<1>2. Meaning("-=", x, Self) = x - x
  BY <1>1, OperandMeaning
<1>3. Meaning("-=", ValueOf(acc), Self) = 0
  BY <1>1, <1>2
<1>4. QED
  BY <1>3, CanonicalFacts, ZeroedGood DEF SubAssignSelf

(* The magnitude plus one, of the object itself or with the sign of a rounded quotient. *)
LEMMA OneMore ==
  ASSUME NEW n \in Nat \ {0}, NEW v \in Nat, v < Power(Base, n),
         n = 1 \/ Power(Base, n - 1) <= v
  PROVE  /\ v + 1 \in Nat /\ v + 1 # 0 /\ v + 1 < Power(Base, n + 1)
         /\ n = 1 \/ Power(Base, n - 1) <= v + 1
<1>1. n \in Nat /\ n - 1 \in Nat
  OBVIOUS
<1>2. PICK p \in Nat, q \in Nat, o \in Nat :
        p = Power(Base, n) /\ q = Power(Base, n + 1) /\ o = Power(Base, n - 1)
  BY <1>1, BasePower
<1>3. 2 * p <= q
  BY <1>1, <1>2, PowerDoubles
<1>4. QED
  BY <1>2, <1>3

(* The magnitude less one, trimmed. *)
LEMMA OneLess ==
  ASSUME Canonical(acc), MagnitudeOf(acc) # 0
  PROVE  LET v == MagnitudeOf(acc)
             s == Trimmed(WithLimbs(acc, acc.count, v - 1))
         IN  /\ Stores(s, acc.capacity, acc.neg, LimbsNeeded(v - 1), v - 1)
             /\ ZeroFrom(acc, acc.count) => ZeroFrom(s, LimbsNeeded(v - 1))
             /\ v - 1 \in Nat /\ v \in Nat
<1> DEFINE v == MagnitudeOf(acc)
<1>1. /\ v \in Nat /\ v # 0 /\ v < Power(Base, acc.count) /\ acc.count \in Nat
      /\ IsObject(acc) /\ acc.count \in 1 .. Room(acc)
  BY CanonicalFacts
<1>2. Power(Base, acc.count) \in Nat
  BY <1>1, BasePower
<1> HIDE DEF v
<1>3. v - 1 \in Nat /\ v - 1 < Power(Base, acc.count)
  BY <1>1, <1>2
<1>4. QED
  BY <1>1, <1>3, TrimmedResult DEF v

LEMMA IncrementGood == ASSUME Canonical(acc), Increment PROVE GoodStep
<1> DEFINE n == acc.count
           v == MagnitudeOf(acc)
<1>1. /\ Stores(acc, acc.capacity, acc.neg, n, v) /\ n \in 1 .. Room(acc) /\ acc.neg \in BOOLEAN
      /\ n \in Nat \ {0} /\ v \in Nat /\ v < Power(Base, n)
      /\ n = 1 \/ Power(Base, n - 1) <= v
      /\ acc.neg => v # 0
  BY CanonicalFacts
<1>2. Meaning("++", ValueOf(acc), Number(0)) = IntegerOf(acc.neg, v) + 1
  BY MeaningOf DEF ValueOf
<1>3. "++" \notin Bitwise /\ ~StaysInPlace("++", Number(0))
  BY DEF Bitwise, StaysInPlace
<1>4. CASE acc.neg
  <2> DEFINE t == Trimmed(WithLimbs(acc, n, v - 1))
             s == SignedUnlessZero(t, TRUE)
  <2>1. /\ Stores(t, acc.capacity, acc.neg, LimbsNeeded(v - 1), v - 1)
        /\ ZeroFrom(acc, n) => ZeroFrom(t, LimbsNeeded(v - 1))
        /\ v - 1 \in Nat
    BY <1>1, <1>4, OneLess
  <2>2. Returns("++", Number(0), s)
    BY <1>4 DEF Increment
  <2> HIDE DEF t
  <2>3. PICK sign \in BOOLEAN : sign <=> v - 1 # 0
    OBVIOUS
  <2>4. /\ Stores(s, acc.capacity, sign, LimbsNeeded(v - 1), v - 1)
        /\ \A k : ZeroFrom(t, k) => ZeroFrom(s, k)
    BY <2>1, <2>3, SignedUnlessZeroStores
  <2> HIDE DEF s, n, v
  <2>5. Settles(s, sign, v - 1) /\ s.count = LimbsNeeded(v - 1)
    BY <2>3, <2>4 DEF Settles, Stores
  <2>6. IntegerOf(sign, v - 1) = Meaning("++", ValueOf(acc), Number(0))
    BY <1>1, <1>2, <1>4, <2>3 DEF IntegerOf
  <2>7. QED
    BY <1>3, <2>1, <2>2, <2>4, <2>5, <2>6, ReturnsGood DEF n
<1>5. CASE ~acc.neg
  <2>1. Carries("++", Number(0), acc, n, v + 1, acc.neg)
    BY <1>5 DEF Increment, IncrementMagnitude
  <2> HIDE DEF n, v
  <2>2. /\ v + 1 \in Nat /\ v + 1 # 0 /\ v + 1 < Power(Base, n + 1)
        /\ n = 1 \/ Power(Base, n - 1) <= v + 1
    BY <1>1, OneMore
  <2>3. IntegerOf(acc.neg, v + 1) = Meaning("++", ValueOf(acc), Number(0))
    BY <1>1, <1>2, <1>5 DEF IntegerOf
  <2>4. QED
    BY <1>1, <2>1, <2>2, <2>3, CarriesGood DEF n
<1>6. QED
  BY <1>4, <1>5

LEMMA DecrementGood == ASSUME Canonical(acc), Decrement PROVE GoodStep
<1> DEFINE n == acc.count
           v == MagnitudeOf(acc)
<1>1. /\ Stores(acc, acc.capacity, acc.neg, n, v) /\ n \in 1 .. Room(acc) /\ acc.neg \in BOOLEAN
      /\ n \in Nat \ {0} /\ v \in Nat /\ v < Power(Base, n)
      /\ n = 1 \/ Power(Base, n - 1) <= v
      /\ (acc.neg => v # 0) /\ n = LimbsNeeded(v) /\ IsObject(acc)
  BY CanonicalFacts
<1>2. Meaning("--", ValueOf(acc), Number(0)) = IntegerOf(acc.neg, v) - 1
  BY MeaningOf DEF ValueOf
<1>3. "--" \notin Bitwise /\ ~StaysInPlace("--", Number(0))
  BY DEF Bitwise, StaysInPlace
<1>4. CASE acc.neg /\ IncrementMagnitude("--", Number(0), acc)
  <2>1. Carries("--", Number(0), acc, n, v + 1, acc.neg)
    BY <1>4 DEF IncrementMagnitude
  <2> HIDE DEF n, v
  <2>2. /\ v + 1 \in Nat /\ v + 1 # 0 /\ v + 1 < Power(Base, n + 1)
        /\ n = 1 \/ Power(Base, n - 1) <= v + 1
    BY <1>1, OneMore
  <2>3. IntegerOf(acc.neg, v + 1) = Meaning("--", ValueOf(acc), Number(0))
    BY <1>1, <1>2, <1>4 DEF IntegerOf
  <2>4. QED
    BY <1>1, <2>1, <2>2, <2>3, CarriesGood DEF n
<1>5. CASE ~acc.neg /\ v > 0 /\ Returns("--", Number(0), Trimmed(WithLimbs(acc, n, v - 1)))
  <2> DEFINE s == Trimmed(WithLimbs(acc, n, v - 1))
  <2>1. /\ Stores(s, acc.capacity, acc.neg, LimbsNeeded(v - 1), v - 1)
        /\ ZeroFrom(acc, n) => ZeroFrom(s, LimbsNeeded(v - 1))
        /\ v - 1 \in Nat
    BY <1>1, <1>5, OneLess
  <2>2. Returns("--", Number(0), s)
    BY <1>5
  <2> HIDE DEF s, n, v
  <2>3. Settles(s, acc.neg, v - 1) /\ s.count = LimbsNeeded(v - 1)
    BY <1>5, <2>1, StoresSettles
  <2>4. IntegerOf(acc.neg, v - 1) = Meaning("--", ValueOf(acc), Number(0))
    BY <1>1, <1>2, <1>5 DEF IntegerOf
  <2>5. QED
    BY <1>3, <2>1, <2>2, <2>3, <2>4, ReturnsGood DEF n
<1>6. CASE ~acc.neg /\ v = 0 /\ Returns("--", Number(0), Signed(WithLimbs(acc, 1, 1), TRUE))
  <2> DEFINE w == WithLimbs(acc, 1, 1)
             s == Signed(w, TRUE)
  <2>1. LimbsNeeded(1) = 1 /\ 1 < Power(Base, 1) /\ n = 1
    BY <1>1, <1>6, BaseType, PowerOne, LimbsOfSmall
  <2>2. 1 \in 1 .. Room(acc)
    BY <1>1, <2>1
  <2>3. /\ Stores(w, acc.capacity, acc.neg, 1, 1)
        /\ \A k \in Nat : 1 <= k /\ ZeroFrom(acc, k) => ZeroFrom(w, k)
    BY <1>1, <2>1, <2>2, WithLimbsFacts
  <2>4. Returns("--", Number(0), s)
    BY <1>6
  <2> HIDE DEF w
  <2>5. /\ Stores(s, acc.capacity, TRUE, 1, 1)
        /\ \A k : ZeroFrom(w, k) => ZeroFrom(s, k)
    BY <2>3, SignedStores
  <2> HIDE DEF s
  <2>6. Settles(s, TRUE, 1) /\ s.count = 1
    BY <2>1, <2>5 DEF Settles, Stores
  <2>7. IntegerOf(TRUE, 1) = Meaning("--", ValueOf(acc), Number(0))
    BY <1>2, <1>6 DEF IntegerOf
  <2>8. ZeroFrom(acc, n) => ZeroFrom(s, 1)
    BY <2>1, <2>3, <2>5
  <2>9. QED
    BY <1>3, <2>4, <2>6, <2>7, <2>8, ReturnsGood
<1>7. QED
  BY <1>4, <1>5, <1>6 DEF Decrement

LEMMA NegateGood == ASSUME Canonical(acc), Negate PROVE GoodStep
<1> DEFINE v == MagnitudeOf(acc)
           s == SignedUnlessZero(acc, ~acc.neg)
<1>1. /\ Stores(acc, acc.capacity, acc.neg, acc.count, v) /\ acc.neg \in BOOLEAN /\ v \in Nat
      /\ acc.neg => v # 0
      /\ acc.count = LimbsNeeded(v)
  BY CanonicalFacts
<1>2. PICK sign \in BOOLEAN : sign <=> ~acc.neg /\ v # 0
  OBVIOUS
<1>3. /\ Stores(s, acc.capacity, sign, acc.count, v)
      /\ \A k : ZeroFrom(acc, k) => ZeroFrom(s, k)
  BY <1>1, <1>2, SignedUnlessZeroStores
<1>4. Returns("negate", Number(0), s)
  BY DEF Negate
<1> HIDE DEF s, v
<1>5. Settles(s, sign, v) /\ s.count = acc.count /\ s.capacity = acc.capacity
  BY <1>1, <1>2, <1>3, StoresSettles
<1>6. IntegerOf(sign, v) = Meaning("negate", ValueOf(acc), Number(0))
  BY <1>1, <1>2, MeaningOf DEF IntegerOf, ValueOf, v
<1>7. QED
  BY <1>3, <1>4, <1>5, <1>6, ReturnsGood

(***************************************************************************)
(* Storage that is overwritten.                                            *)
(***************************************************************************)

(* The tail is zero from any later limb on, too. *)
LEMMA ZeroFromLater ==
  ASSUME NEW r, NEW k \in Nat, NEW n \in Nat, k <= n, ZeroFrom(r, k)
  PROVE  ZeroFrom(r, n)
  BY Constants DEF ZeroFrom

(* What Overwrites leaves when there is room. *)
LEMMA OverwrittenFacts ==
  ASSUME NEW r, IsObject(r), NEW v \in Nat, NEW n, n = LimbsNeeded(v), Attainable(r, n),
         NEW neg \in BOOLEAN, NEW sign \in BOOLEAN, sign <=> neg /\ v # 0
  PROVE  LET s == SignedUnlessZero(TailCleared(WithLimbs(Overwritable(r, n), n, v), r.count), neg)
         IN  /\ Settles(s, sign, v)
             /\ ZeroFrom(r, r.count) => ZeroFrom(s, s.count)
             /\ n <= Room(r) => s.capacity = r.capacity
<1> DEFINE o == Overwritable(r, n)
           w == WithLimbs(o, n, v)
           t == TailCleared(w, r.count)
           s == SignedUnlessZero(t, neg)
<1>1. n \in Nat /\ 1 <= n /\ v < Power(Base, n) /\ r.count \in Nat
  BY LimbsNeededHas, ObjectFacts DEF HasLimbs
<1>2. /\ IsObject(o) /\ n <= Room(o) /\ (n <= Room(r) => o = r)
      /\ \A k : ZeroFrom(r, k) => ZeroFrom(o, k)
  BY <1>1, OverwritableFacts
<1> HIDE DEF o
<1>3. n \in 1 .. Room(o)
  BY <1>1, <1>2, ObjectFacts
<1>4. /\ Stores(w, o.capacity, o.neg, n, v)
      /\ \A k \in Nat : n <= k /\ ZeroFrom(o, k) => ZeroFrom(w, k)
  BY <1>1, <1>2, <1>3, WithLimbsFacts
<1> HIDE DEF w
<1>5. /\ Stores(t, o.capacity, o.neg, n, v)
      /\ \A k \in Nat : (k <= n \/ k <= r.count) /\ ZeroFrom(w, k) => ZeroFrom(t, n)
  BY <1>1, <1>4, TailClearedStores
<1> HIDE DEF t
<1>6. Stores(s, o.capacity, sign, n, v) /\ \A k : ZeroFrom(t, k) => ZeroFrom(s, k)
  BY <1>5, SignedUnlessZeroStores
<1> HIDE DEF s
<1>7. Settles(s, sign, v) /\ s.count = n /\ s.capacity = o.capacity
  BY <1>6 DEF Settles, Stores
<1>8. ASSUME ZeroFrom(r, r.count) PROVE ZeroFrom(s, n)
  <2>1. CASE n <= r.count
    <3>1. ZeroFrom(w, r.count)
      BY <1>1, <1>2, <1>4, <1>8, <2>1
    <3>2. QED
      BY <1>1, <1>5, <1>6, <3>1
  <2>2. CASE r.count <= n
    <3>1. ZeroFrom(r, n)
      BY <1>1, <1>8, <2>2, ZeroFromLater
    <3>2. ZeroFrom(w, n)
      BY <1>1, <1>2, <1>4, <3>1
    <3>3. QED
      BY <1>1, <1>5, <1>6, <3>2
  <2>3. QED
    BY <1>1, <2>1, <2>2
<1>9. QED
  BY <1>2, <1>7, <1>8 DEF o, w, t, s

(* Overwriting the object itself is good when the result is meant. *)
LEMMA OverwritesGood ==
  ASSUME IsObject(acc), NEW op, NEW rhs, NEW v \in Nat, NEW neg \in BOOLEAN,
         NEW sign \in BOOLEAN, sign <=> neg /\ v # 0,
         Overwrites(op, rhs, acc, LimbsNeeded(v), v, neg),
         ~StaysInPlace(op, rhs), op \notin {"<<=", "++", "--"},
         IntegerOf(sign, v) = Meaning(op, ValueOf(acc), rhs)
  PROVE  GoodStep
<1> DEFINE n == LimbsNeeded(v)
           s == SignedUnlessZero(TailCleared(WithLimbs(Overwritable(acc, n), n, v), acc.count), neg)
<1>1. n \in Nat
  BY LimbsNeededHas DEF HasLimbs
<1>2. ASSUME Attainable(acc, n)
      PROVE  Settles(s, sign, v) /\ (ZeroFrom(acc, acc.count) => ZeroFrom(s, s.count))
  BY <1>2, OverwrittenFacts
<1>3. Requests(op, rhs, acc, n, s)
  BY DEF Overwrites
<1> HIDE DEF n, s
<1>4. QED
  BY <1>1, <1>2, <1>3, RequestsGood

(***************************************************************************)
(* Assignment from an integer, and capacity.                               *)
(***************************************************************************)

LEMMA AssignIntegerGood ==
  ASSUME Canonical(acc), NEW rhs, IsOperand(rhs), AssignInteger(rhs)
  PROVE  GoodStep
<1> DEFINE n == rhs.size
           v == rhs.mag
           g == Grown(acc, n)
           w == Trimmed(WithLimbs(g, n, v))
           t == [w EXCEPT !.limbs = Cleared(@, w.count, acc.count)]
           s == Signed(t, rhs.neg)
<1>1. n \in Nat /\ 1 <= n /\ v \in Nat /\ v < Power(Base, n) /\ rhs.neg \in BOOLEAN
      /\ (rhs.neg => v # 0)
  BY Constants DEF IsOperand
<1>2. /\ IsObject(acc) /\ acc.count \in 1 .. Room(acc) /\ Room(acc) \in Nat /\ acc.count \in Nat
      /\ Stores(acc, acc.capacity, acc.neg, acc.count, MagnitudeOf(acc))
  BY CanonicalFacts, ObjectFacts
<1>3. Requests("=", rhs, acc, n, s)
  BY DEF AssignInteger
<1> HIDE DEF s
<1>4. ASSUME Attainable(acc, n)
      PROVE  Settles(s, rhs.neg, v) /\ (ZeroFrom(acc, acc.count) => ZeroFrom(s, s.count))
  <2>1. /\ Stores(g, g.capacity, acc.neg, acc.count, MagnitudeOf(acc))
        /\ n <= Room(g) /\ Room(acc) <= Room(g)
        /\ \A k : ZeroFrom(acc, k) => ZeroFrom(g, k)
    BY <1>1, <1>2, <1>4, GrownStores
  <2> HIDE DEF g
  <2>2. IsObject(g) /\ n \in 1 .. Room(g) /\ g.count = acc.count
    BY <1>1, <2>1, ObjectFacts DEF Stores
  <2>3. /\ Stores(w, g.capacity, g.neg, LimbsNeeded(v), v)
        /\ ZeroFrom(g, n) => ZeroFrom(w, LimbsNeeded(v))
    BY <1>1, <2>2, TrimmedResult
  <2>4. \A k \in Nat : n <= k /\ ZeroFrom(g, k) => ZeroFrom(w, k)
    <3> DEFINE low == WithLimbs(g, n, v)
    <3>1. /\ Stores(low, g.capacity, g.neg, n, v)
          /\ \A k \in Nat : n <= k /\ ZeroFrom(g, k) => ZeroFrom(low, k)
      BY <1>1, <2>2, WithLimbsFacts
    <3> HIDE DEF low
    <3>2. \A k : ZeroFrom(low, k) => ZeroFrom(Trimmed(low), k)
      BY <3>1, TrimmedStores
    <3>3. QED
      BY <3>1, <3>2 DEF low
  <2> HIDE DEF w
  <2>5. /\ Stores(t, g.capacity, g.neg, LimbsNeeded(v), v)
        /\ \A k \in Nat : (k <= LimbsNeeded(v) \/ k <= acc.count) /\ ZeroFrom(w, k)
                             => ZeroFrom(t, LimbsNeeded(v))
    BY <1>2, <2>3, ClearedStores
  <2> HIDE DEF t
  <2>6. /\ Stores(s, g.capacity, rhs.neg, LimbsNeeded(v), v)
        /\ \A k : ZeroFrom(t, k) => ZeroFrom(s, k)
    BY <1>1, <2>5, SignedStores DEF s
  <2>7. Settles(s, rhs.neg, v) /\ s.count = LimbsNeeded(v)
    BY <1>1, <2>6 DEF Settles, Stores
  <2>8. ASSUME ZeroFrom(acc, acc.count) PROVE ZeroFrom(s, LimbsNeeded(v))
    <3>1. LimbsNeeded(v) \in Nat
      BY <1>1, LimbsNeededHas DEF HasLimbs
    <3>2. CASE n <= acc.count
      BY <1>2, <2>1, <2>4, <2>5, <2>6, <2>8, <3>2
    <3>3. CASE acc.count <= n
      <4>1. ZeroFrom(acc, n)
        BY <1>1, <1>2, <2>8, <3>3, ZeroFromLater
      <4>2. ZeroFrom(w, LimbsNeeded(v))
        BY <2>1, <2>3, <4>1
      <4>3. QED
        BY <2>5, <2>6, <3>1, <4>2
    <3>4. QED
      BY <1>1, <1>2, <3>2, <3>3
  <2>9. QED
    BY <2>7, <2>8
<1>5. IntegerOf(rhs.neg, v) = Meaning("=", ValueOf(acc), rhs)
  BY OperandMeaning
<1>6. "=" \notin Bitwise /\ ~StaysInPlace("=", rhs)
  BY DEF Bitwise, StaysInPlace
<1> HIDE DEF n, v
<1>7. QED
  BY <1>1, <1>2, <1>3, <1>4, <1>5, <1>6, RequestsGood

LEMMA ReserveGood ==
  ASSUME Canonical(acc), NEW n \in 0 .. MaxLimbs + 1, Reserve(n)
  PROVE  GoodStep
<1> DEFINE v == MagnitudeOf(acc)
           g == Grown(acc, n)
<1>1. /\ Stores(acc, acc.capacity, acc.neg, acc.count, v) /\ IsObject(acc) /\ n \in Nat
      /\ acc.count = LimbsNeeded(v) /\ (acc.neg => v # 0)
  BY CanonicalFacts, Constants
<1>2. Requests("reserve", Number(n), acc, n, g)
  BY DEF Reserve
<1> HIDE DEF v
<1>3. ASSUME Attainable(acc, n)
      PROVE  Settles(g, acc.neg, v) /\ (ZeroFrom(acc, acc.count) => ZeroFrom(g, g.count))
  <2>1. /\ Stores(g, g.capacity, acc.neg, acc.count, v)
        /\ \A k : ZeroFrom(acc, k) => ZeroFrom(g, k)
    BY <1>1, <1>3, GrownStores
  <2> HIDE DEF g
  <2>2. Settles(g, acc.neg, v) /\ g.count = acc.count
    BY <1>1, <2>1 DEF Settles, Stores
  <2>3. QED
    BY <2>1, <2>2
<1> HIDE DEF g
<1>4. IntegerOf(acc.neg, v) = Meaning("reserve", ValueOf(acc), Number(n))
  BY MeaningOf DEF ValueOf, v
<1>5. "reserve" \notin Bitwise /\ ~StaysInPlace("reserve", Number(n))
  BY DEF Bitwise, StaysInPlace
<1>6. QED
  BY <1>1, <1>2, <1>3, <1>4, <1>5, RequestsGood

(***************************************************************************)
(* Multiplication.                                                         *)
(***************************************************************************)

(* Products grow with their factors. *)
LEMMA ProductBounds ==
  ASSUME NEW v \in Nat, NEW w \in Nat, NEW p \in Nat, NEW q \in Nat
  PROVE  /\ v * w \in Nat
         /\ v < p /\ w < q => v * w < p * q
         /\ w # 0 => v <= v * w
         /\ v # 0 /\ w # 0 => v * w # 0
<1>1. v * w \in Nat /\ w * v = v * w
  OBVIOUS
<1>2. ASSUME v < p, w < q PROVE v * w < p * q
  <2>1. w * v <= q * v
    BY <1>2, MulPos
  <2>2. v * q <= (p - 1) * q
    BY <1>2, MulPos
  <2>3. (p - 1) * q = p * q - q /\ q * v = v * q
    OBVIOUS
  <2>4. v * q \in Nat /\ p * q \in Nat
    OBVIOUS
  <2>5. QED
    BY <1>1, <1>2, <2>1, <2>2, <2>3, <2>4
<1>3. ASSUME w # 0 PROVE v <= v * w
  <2>1. 1 * v <= w * v
    BY <1>3, MulPos
  <2>2. QED
    BY <1>1, <2>1
<1>4. ASSUME v # 0, w # 0 PROVE v * w # 0
  BY <1>1, <1>3, <1>4
<1>5. QED
  BY <1>1, <1>2, <1>3, <1>4

(* A product of n and m limbs has n + m limbs at most. *)
LEMMA ProductFits ==
  ASSUME NEW n \in Nat \ {0}, NEW m \in Nat \ {0}, NEW v \in Nat, NEW w \in Nat,
         v < Power(Base, n), w < Power(Base, m)
  PROVE  /\ v * w \in Nat /\ v * w < Power(Base, n + m)
         /\ LimbsNeeded(v * w) <= n + m
<1>1. PICK p \in Nat, q \in Nat : p = Power(Base, n) /\ q = Power(Base, m)
  BY BasePower
<1>2. p * q = Power(Base, n + m) /\ n + m \in Nat \ {0}
  BY <1>1, BaseType, PowerSum
<1>3. v * w \in Nat /\ v * w < p * q
  BY <1>1, ProductBounds
<1>4. QED
  BY <1>2, <1>3, LimbsNeededBelow

(* A fresh object. *)
LEMMA InplaceZeroFacts ==
  /\ IsObject(InplaceZero) /\ InplaceZero.capacity = 0 /\ InplaceZero.neg = FALSE
  /\ InplaceZero.count = 1 /\ InplaceZero.limbs[0] = 0
  /\ Room(InplaceZero) = InplaceCapacity
  /\ ZeroFrom(InplaceZero, 1)
<1> DEFINE l == [i \in 0 .. InplaceCapacity - 1 |-> 0]
           z == [capacity |-> 0, neg |-> FALSE, count |-> 1, limbs |-> l]
<1>1. IsArray(l, InplaceCapacity) /\ l[0] = 0 /\ \A i \in 1 .. InplaceCapacity - 1 : l[i] = 0
  BY Constants, BaseType DEF IsArray
<1> HIDE DEF l
<1>2. z.capacity = 0 /\ z.neg = FALSE /\ z.count = 1 /\ z.limbs = l
      /\ z = [capacity |-> z.capacity, neg |-> z.neg, count |-> z.count, limbs |-> z.limbs]
  OBVIOUS
<1>3. Room(z) = InplaceCapacity
  BY <1>2 DEF Room
<1>4. InplaceZero = z
  BY DEF InplaceZero, l
<1> HIDE DEF z
<1>5. IsObject(z)
  <2>1. 0 \in Capacities /\ 1 \in 1 .. InplaceCapacity /\ FALSE \in BOOLEAN
    BY Constants DEF Capacities
  <2>2. QED
    BY <1>1, <1>2, <1>3, <2>1 DEF IsObject
<1>6. ZeroFrom(z, 1)
  BY <1>1, <1>2 DEF ZeroFrom
<1>7. QED
  BY <1>1, <1>2, <1>3, <1>4, <1>5, <1>6

LEMMA InplaceZeroMagnitude ==
  MagnitudeOf(InplaceZero) = 0 /\ IsWritten(InplaceZero.limbs, 1)
<1>1. IsArray(InplaceZero.limbs, InplaceCapacity) /\ InplaceCapacity \in Nat \ {0}
  BY InplaceZeroFacts, Constants DEF IsObject
<1>2. QED
  BY <1>1, InplaceZeroFacts, OneLimb DEF MagnitudeOf

LEMMA MultiplyGood ==
  ASSUME Canonical(acc), NEW rhs, IsOperand(rhs), MultiplyInPlace(rhs)
  PROVE  GoodStep
<1> DEFINE v == MagnitudeOf(acc)
           w == rhs.mag
           la == acc.count
           lb == LimbsNeeded(w)
           sig == LimbsNeeded(v * w)
           fresh == Overwritable(InplaceZero, la + lb)
           product == [WithLimbs(fresh, la + lb, v * w) EXCEPT !.count = sig]
<1> PICK neg \in BOOLEAN : neg = (acc.neg # rhs.neg)
  OBVIOUS
<1>1. /\ IsObject(acc) /\ la \in 1 .. Room(acc) /\ la \in Nat \ {0}
      /\ Stores(acc, acc.capacity, acc.neg, la, v)
      /\ acc.neg \in BOOLEAN /\ v \in Nat /\ v < Power(Base, la)
      /\ la = 1 \/ Power(Base, la - 1) <= v
  BY CanonicalFacts
<1>2. /\ w \in Nat /\ rhs.neg \in BOOLEAN /\ lb \in Nat \ {0} /\ w < Power(Base, lb)
  BY OperandFacts
<1>3. "*=" \notin Bitwise /\ ~StaysInPlace("*=", rhs) /\ "*=" \notin {"<<=", "++", "--"}
      /\ "*=" \in {"+=", "-=", "++", "--", "*="}
  BY DEF Bitwise, StaysInPlace
<1>4. PICK x \in Int, y \in Int : /\ x = ValueOf(acc) /\ x = IntegerOf(acc.neg, v)
                                /\ y = IntegerOf(rhs.neg, w)
  BY <1>1, <1>2, IntegerFacts DEF ValueOf
<1>5. Meaning("*=", ValueOf(acc), rhs) = x * y
  BY <1>4, OperandMeaning
<1>6. v * w \in Nat /\ v * w < Power(Base, la + lb) /\ sig <= la + lb
  BY <1>1, <1>2, ProductFits
<1> HIDE DEF v, w, la, lb
<1>7. IntegerOf(neg, v * w) = x * y
  <2>1. /\ v * w = v * w /\ (-v) * (-w) = v * w
        /\ (-v) * w = -(v * w) /\ v * (-w) = -(v * w)
    BY <1>1, <1>2
  <2>2. x = (IF acc.neg THEN -v ELSE v) /\ y = (IF rhs.neg THEN -w ELSE w)
    BY <1>4 DEF IntegerOf
  <2>3. neg <=> (acc.neg # rhs.neg)
    OBVIOUS
  <2>4. CASE acc.neg = rhs.neg
    BY <1>1, <1>2, <2>1, <2>2, <2>3, <2>4 DEF IntegerOf
  <2>5. CASE acc.neg # rhs.neg
    BY <1>1, <1>2, <2>1, <2>2, <2>3, <2>5 DEF IntegerOf
  <2>6. QED
    BY <2>4, <2>5
<1>8. CASE (v = 0 \/ w = 0) /\ Returns("*=", rhs, Zeroed(acc))
  <2>1. x * y = 0
    BY <1>1, <1>2, <1>4, <1>8 DEF IntegerOf
  <2>2. QED
    BY <1>1, <1>5, <1>8, <2>1, ZeroedGood
<1>9. CASE v # 0 /\ w # 0 /\ lb = 1 /\ Carries("*=", rhs, acc, la, v * w, neg)
  <2>1. v * w # 0 /\ v <= v * w /\ v * w < Power(Base, la + 1)
    BY <1>1, <1>2, <1>6, <1>9, ProductBounds
  <2>2. la = 1 \/ Power(Base, la - 1) <= v * w
    <3>1. la = 1 \/ Power(Base, la - 1) \in Nat
      BY <1>1, BasePower
    <3>2. QED
      BY <1>1, <1>6, <2>1, <3>1
  <2>3. IntegerOf(neg, v * w) = Meaning("*=", ValueOf(acc), rhs)
    BY <1>5, <1>7
  <2>4. QED
    BY <1>1, <1>3, <1>6, <1>9, <2>1, <2>2, <2>3, CarriesGood DEF la
<1>10. ASSUME v # 0, lb # 1 PROVE w # 0 /\ v * w # 0
  <2>1. w # 0
    BY <1>2, <1>10, BaseType, LimbsOfSmall DEF lb
  <2>2. QED
    BY <1>1, <1>2, <1>10, <2>1, ProductBounds
<1>11. CASE v # 0 /\ lb # 1 /\ Overwrites("*=", rhs, acc, sig, v * w, neg)
  <2>1. neg <=> neg /\ v * w # 0
    BY <1>10, <1>11
  <2>2. IntegerOf(neg, v * w) = Meaning("*=", ValueOf(acc), rhs)
    BY <1>5, <1>7
  <2>3. QED
    BY <1>1, <1>3, <1>6, <1>11, <2>1, <2>2, OverwritesGood
<1>12. CASE v # 0 /\ lb # 1 /\ la + lb > StackLimbs /\ la + lb <= MaxLimbs
            /\ Returns("*=", rhs, Signed(product, neg))
  <2> DEFINE s == Signed(product, neg)
  <2>1. la + lb \in Nat /\ la + lb > Room(InplaceZero) /\ Attainable(InplaceZero, la + lb)
    BY <1>1, <1>2, <1>12, Constants, InplaceZeroFacts DEF Attainable
  <2>2. IsObject(fresh) /\ la + lb <= Room(fresh) /\ fresh.capacity # 0
    BY <2>1, InplaceZeroFacts, OverwritableFacts
  <2> HIDE DEF fresh
  <2>3. la + lb \in 1 .. Room(fresh)
    BY <1>1, <1>2, <2>1, <2>2, ObjectFacts
  <2>4. Stores(product, fresh.capacity, fresh.neg, sig, v * w)
    BY <1>6, <2>2, <2>3, TrimmedResult
  <2> HIDE DEF product
  <2>5. Stores(s, fresh.capacity, neg, sig, v * w)
    BY <2>4, SignedStores
  <2> HIDE DEF s
  <2>6. Settles(s, neg, v * w)
    BY <1>10, <1>12, <2>5 DEF Settles, Stores
  <2>7. ZeroFrom(s, s.count)
    BY <2>2, <2>5 DEF Stores, ZeroFrom
  <2>8. IntegerOf(neg, v * w) = Meaning("*=", ValueOf(acc), rhs)
    BY <1>5, <1>7
  <2>9. QED
    BY <1>3, <1>12, <2>6, <2>7, <2>8, ReturnsGood DEF s
<1>13. CASE Ends("*=", rhs, IF la + lb > MaxLimbs THEN "length_error" ELSE "bad_alloc", acc)
  <2>1. PICK outcome : outcome # "ok" /\ Ends("*=", rhs, outcome, acc)
    BY <1>13
  <2>2. QED
    BY <1>1, <1>3, <2>1, ThrowsGood
<1>14. QED
  BY <1>8, <1>9, <1>11, <1>12, <1>13 DEF MultiplyInPlace, v, w, la, lb

(***************************************************************************)
(* Division.                                                               *)
(***************************************************************************)

(* A quotient of an n-limb by an m-limb number has n - m + 1 limbs at most. *)
LEMMA QuotientFits ==
  ASSUME NEW n \in Nat \ {0}, NEW m \in Nat \ {0}, m <= n,
         NEW v \in Nat, NEW w \in Nat \ {0}, v < Power(Base, n),
         m = 1 \/ Power(Base, m - 1) <= w
  PROVE  v \div w < Power(Base, n - m + 1)
<1>1. n - m + 1 \in Nat /\ m - 1 \in Nat /\ (n - m + 1) + (m - 1) = n
  OBVIOUS
<1>2. PICK p \in Nat, q \in Nat : p = Power(Base, n - m + 1) /\ q = Power(Base, m - 1)
  BY <1>1, BasePower
<1>3. Power(Base, n) = p * q
  BY <1>1, <1>2, BaseType, PowerSum
<1>4. q <= w
  <2>1. CASE m = 1
    BY <1>2, <2>1, BaseType, PowerOne
  <2>2. CASE m # 1
    BY <1>2, <2>2
  <2>3. QED
    BY <2>1, <2>2
<1>5. q * p <= w * p
  BY <1>2, <1>4, MulPos
<1>6. v < w * p
  <2>1. q * p = p * q /\ p * q \in Nat /\ w * p \in Nat
    BY <1>2
  <2>2. QED
    BY <1>3, <1>5, <2>1
<1>7. QED
  BY <1>2, <1>6, DivBelow

(* What truncating division means for signs and magnitudes. *)
LEMMA DivisionMeans ==
  ASSUME NEW nx \in BOOLEAN, NEW ny \in BOOLEAN, NEW v \in Nat, NEW w \in Nat \ {0},
         nx => v # 0,
         NEW sign \in BOOLEAN, sign <=> (nx # ny) /\ v \div w # 0,
         NEW x \in Int, NEW y \in Int, x = IntegerOf(nx, v), y = IntegerOf(ny, w)
  PROVE  /\ v \div w \in Nat /\ v % w \in Nat /\ v % w < w /\ v \div w <= v
         /\ v < w => v \div w = 0 /\ v % w = v
         /\ Truncated(x, y) = IntegerOf(sign, v \div w)
         /\ x - y * Truncated(x, y) = IntegerOf(nx, v % w)
<1>1. v \div w \in Nat /\ v \div w <= v /\ v % w \in 0 .. w - 1 /\ v = w * (v \div w) + (v % w)
  <2>1. v \in Int
    OBVIOUS
  <2>2. v \div w \in Nat /\ v \div w <= v
    BY DivNat
  <2>3. v % w \in 0 .. w - 1 /\ v = w * (v \div w) + (v % w)
    BY <2>1, DivMod
  <2>4. QED
    BY <2>2, <2>3
<1>2. ASSUME v < w PROVE v \div w = 0 /\ v % w = v
  <2>1. v \in 0 .. w - 1
    BY <1>2
  <2>2. QED
    BY <2>1, DivSmall
<1>3. PICK q \in Nat, r \in 0 .. w - 1 : q = v \div w /\ r = v % w /\ v = w * q + r
  BY <1>1
<1>4. /\ x = (IF nx THEN -v ELSE v) /\ y = (IF ny THEN -w ELSE w)
      /\ Abs(x) = v /\ Abs(y) = w
  BY DEF IntegerOf, Abs
<1>5. Truncated(x, y) = IF nx = ny THEN q ELSE -q
  <2>1. (x < 0) <=> nx
    BY <1>4
  <2>2. (y < 0) <=> ny
    BY <1>4
  <2>3. CASE nx = ny
    BY <1>3, <1>4, <2>1, <2>2, <2>3 DEF Truncated
  <2>4. CASE nx # ny
    BY <1>3, <1>4, <2>1, <2>2, <2>4 DEF Truncated
  <2>5. QED
    BY <2>3, <2>4
<1>6. Truncated(x, y) = IntegerOf(sign, q)
  BY <1>3, <1>5 DEF IntegerOf
<1>7. x - y * Truncated(x, y) = IntegerOf(nx, r)
  <2>1. PICK p \in Nat : p = w * q /\ v = p + r /\ (-w) * q = -p /\ w * (-q) = -p
                         /\ (-w) * (-q) = p
    BY <1>3
  <2>2. y * Truncated(x, y) = IF nx THEN -p ELSE p
    <3>1. CASE nx = ny
      <4>1. y * q = IF nx THEN -p ELSE p
        BY <1>3, <1>4, <2>1, <3>1
      <4>2. QED
        BY <1>5, <3>1, <4>1
    <3>2. CASE nx # ny
      <4>1. y * (-q) = IF nx THEN -p ELSE p
        BY <1>3, <1>4, <2>1, <3>2
      <4>2. QED
        BY <1>5, <3>2, <4>1
    <3>3. QED
      BY <3>1, <3>2
  <2>3. QED
    BY <1>3, <1>4, <2>1, <2>2 DEF IntegerOf
<1>8. QED
  BY <1>1, <1>2, <1>3, <1>6, <1>7

(* The object and the divisor of a division, and what the quotient and remainder mean. *)
LEMMA DivisionSetting ==
  ASSUME Canonical(acc), NEW rhs, IsOperand(rhs), rhs.mag # 0, NEW op \in {"/=", "%="},
         NEW neg \in BOOLEAN, NEW sign \in BOOLEAN,
         neg = (acc.neg # rhs.neg), sign <=> neg /\ MagnitudeOf(acc) \div rhs.mag # 0
  PROVE  LET v == MagnitudeOf(acc)
             w == rhs.mag
         IN  /\ v \div w \in Nat /\ v % w \in Nat /\ v % w < w /\ v \div w <= v
             /\ v < w => v \div w = 0 /\ v % w = v
             /\ Meaning(op, ValueOf(acc), rhs) =
                  IF op = "/=" THEN IntegerOf(sign, v \div w) ELSE IntegerOf(acc.neg, v % w)
<1> DEFINE v == MagnitudeOf(acc)
           w == rhs.mag
<1>1. /\ acc.neg \in BOOLEAN /\ v \in Nat /\ (acc.neg => v # 0)
      /\ w \in Nat \ {0} /\ rhs.neg \in BOOLEAN
  BY CanonicalFacts, OperandFacts
<1>2. PICK x \in Int, y \in Int : /\ x = ValueOf(acc) /\ x = IntegerOf(acc.neg, v)
                                /\ y = IntegerOf(rhs.neg, w)
  BY <1>1, IntegerFacts DEF ValueOf
<1>3. Meaning(op, ValueOf(acc), rhs)
        = IF op = "/=" THEN Truncated(x, y) ELSE x - y * Truncated(x, y)
  BY <1>2, OperandMeaning
<1> HIDE DEF v, w
<1>4. sign <=> (acc.neg # rhs.neg) /\ v \div w # 0
  BY DEF v, w
<1>5. /\ v \div w \in Nat /\ v % w \in Nat /\ v % w < w /\ v \div w <= v
      /\ v < w => v \div w = 0 /\ v % w = v
      /\ Truncated(x, y) = IntegerOf(sign, v \div w)
      /\ x - y * Truncated(x, y) = IntegerOf(acc.neg, v % w)
  <2>1. PICK nx \in BOOLEAN, ny \in BOOLEAN : nx = acc.neg /\ ny = rhs.neg
    BY <1>1
  <2>2. /\ nx => v # 0
        /\ sign <=> (nx # ny) /\ v \div w # 0
        /\ x = IntegerOf(nx, v) /\ y = IntegerOf(ny, w)
    BY <1>1, <1>2, <1>4, <2>1
  <2>3. /\ v \div w \in Nat /\ v % w \in Nat /\ v % w < w /\ v \div w <= v
        /\ v < w => v \div w = 0 /\ v % w = v
    BY <1>1, <2>2, DivisionMeans
  <2>4. /\ Truncated(x, y) = IntegerOf(sign, v \div w)
        /\ x - y * Truncated(x, y) = IntegerOf(nx, v % w)
    BY <1>1, <2>2, DivisionMeans
  <2>5. QED
    BY <2>1, <2>3, <2>4
<1>6. QED
  BY <1>3, <1>5 DEF v, w

(* A division that throws after the value was moved out leaves one limb. *)
LEMMA LostGood ==
  ASSUME NEW op \in {"/=", "%="}, NEW rhs, NEW outcome, NEW s, Ends(op, rhs, outcome, s),
         outcome # "ok", ~StaysInPlace(op, rhs),
         IsObject(s), s.count = 1, ~s.neg,
         s.limbs[0] # 0 => op = "/=" /\ s.capacity # 0
  PROVE  GoodStep
<1>1. acc' = s /\ call' = [op |-> op, rhs |-> rhs, outcome |-> outcome]
  BY DEF Ends
<1>2. call'.op = op /\ call'.rhs = rhs /\ call'.outcome # "ok" /\ op \notin {"<<=", "++", "--"}
  BY <1>1
<1>3. QED
  BY <1>1, <1>2 DEF GoodStep, CostsLittle

(* Room requested of the fresh object, for the result of a division. *)
LEMMA FreshRequestsGood ==
  ASSUME NEW op \in {"/=", "%="}, NEW rhs, NEW n \in Nat, NEW s,
         Requests(op, rhs, InplaceZero, n, s),
         ~StaysInPlace(op, rhs),
         NEW neg, NEW mag,
         Attainable(InplaceZero, n) => Settles(s, neg, mag) /\ ZeroFrom(s, s.count),
         IntegerOf(neg, mag) = Meaning(op, ValueOf(acc), rhs)
  PROVE  GoodStep
<1>1. CASE Throws(op, rhs, InplaceZero, n)
  <2>1. PICK outcome : outcome # "ok" /\ Ends(op, rhs, outcome, InplaceZero)
    BY <1>1 DEF Throws
  <2>2. QED
    BY <2>1, InplaceZeroFacts, LostGood
<1>2. CASE Attainable(InplaceZero, n) /\ Returns(op, rhs, s)
  BY <1>2, ReturnsGood
<1>3. QED
  BY <1>1, <1>2 DEF Requests

LEMMA DivideGeneralGood ==
  ASSUME Canonical(acc), NEW rhs, IsOperand(rhs), rhs.mag # 0, LimbsNeeded(rhs.mag) # 1,
         NEW op \in {"/=", "%="}, DivideGeneral(op, rhs)
  PROVE  GoodStep
<1> DEFINE v == MagnitudeOf(acc)
           w == rhs.mag
           n == acc.count
           m == LimbsNeeded(w)
           q == v \div w
           t == v % w
           qcap == n - m + 1
           fresh == Overwritable(InplaceZero, qcap)
           quot == [WithLimbs(fresh, qcap, q) EXCEPT !.count = LimbsNeeded(q)]
<1> PICK neg \in BOOLEAN : neg = (acc.neg # rhs.neg)
  OBVIOUS
<1> PICK sign \in BOOLEAN : sign <=> neg /\ q # 0
  OBVIOUS
<1>1. /\ IsObject(acc) /\ n \in Nat \ {0} /\ v \in Nat /\ v < Power(Base, n) /\ n = LimbsNeeded(v)
      /\ acc.neg \in BOOLEAN /\ (acc.neg => v # 0)
      /\ Room(acc) \in 1 .. MaxLimbs /\ n \in 1 .. Room(acc) /\ MaxLimbs \in Nat
  BY CanonicalFacts
<1>2. /\ w \in Nat \ {0} /\ m \in Nat \ {0} /\ w < Power(Base, m)
      /\ m = 1 \/ Power(Base, m - 1) <= w
  BY OperandFacts
<1>3. /\ q \in Nat /\ t \in Nat /\ t < w /\ q <= v
      /\ v < w => q = 0 /\ t = v
      /\ Meaning(op, ValueOf(acc), rhs)
           = IF op = "/=" THEN IntegerOf(sign, q) ELSE IntegerOf(acc.neg, t)
  BY DivisionSetting
<1>4. ~StaysInPlace(op, rhs) /\ op \notin Bitwise
  BY <1>2, BaseType, LimbsOfSmall DEF StaysInPlace, Bitwise
<1> HIDE DEF v, w, n, m, q, t
<1>5. CASE (v = 0 \/ (v < w /\ op = "/=")) /\ Returns(op, rhs, InplaceZero)
  <2>1. Meaning(op, ValueOf(acc), rhs) = 0
    BY <1>1, <1>2, <1>3, <1>5 DEF IntegerOf
  <2>2. LimbsNeeded(0) = 1
    BY BaseType, LimbsOfSmall
  <2>3. Settles(InplaceZero, FALSE, 0)
    <3>1. MagnitudeOf(InplaceZero) = 0 /\ IsWritten(InplaceZero.limbs, 1)
      BY InplaceZeroMagnitude
    <3>2. QED
      BY <2>2, <3>1, InplaceZeroFacts DEF Settles, Stores
  <2>4. IntegerOf(FALSE, 0) = 0
    BY DEF IntegerOf
  <2>5. QED
    BY <1>4, <1>5, <2>1, <2>3, <2>4, InplaceZeroFacts, ReturnsGood
<1>6. CASE v # 0 /\ v < w /\ op = "%=" /\ Overwrites(op, rhs, InplaceZero, n, v, acc.neg)
  <2> DEFINE s == SignedUnlessZero(TailCleared(WithLimbs(Overwritable(InplaceZero, n), n, v),
                                              InplaceZero.count), acc.neg)
  <2>1. ASSUME Attainable(InplaceZero, n) PROVE Settles(s, acc.neg, v) /\ ZeroFrom(s, s.count)
    <3>1. acc.neg <=> acc.neg /\ v # 0
      BY <1>1
    <3>2. Settles(s, acc.neg, v)
          /\ (ZeroFrom(InplaceZero, InplaceZero.count) => ZeroFrom(s, s.count))
      BY <1>1, <2>1, <3>1, InplaceZeroFacts, OverwrittenFacts
    <3>3. QED
      BY <3>2, InplaceZeroFacts
  <2>2. Requests(op, rhs, InplaceZero, n, s)
    BY <1>6 DEF Overwrites
  <2> HIDE DEF s
  <2>3. n \in Nat
    BY <1>1
  <2>4. IntegerOf(acc.neg, v) = Meaning(op, ValueOf(acc), rhs)
    BY <1>3, <1>6
  <2>5. QED
    BY <1>4, <2>1, <2>2, <2>3, <2>4, FreshRequestsGood
<1>7. ASSUME v >= w
      PROVE  /\ m <= n /\ qcap \in Nat \ {0} /\ q < Power(Base, qcap)
             /\ Attainable(InplaceZero, qcap)
  <2>1. m <= n
    <3>1. PICK p \in Nat : p = Power(Base, n)
      BY <1>1, BasePower
    <3>2. w < Power(Base, n)
      BY <1>1, <1>2, <1>7, <3>1
    <3>3. QED
      BY <1>1, <1>2, <3>2, LimbsNeededBelow DEF m
  <2>2. q < Power(Base, qcap)
    BY <1>1, <1>2, <2>1, QuotientFits DEF q
  <2>3. qcap \in Nat \ {0} /\ qcap <= MaxLimbs
    BY <1>1, <1>2, <2>1
  <2>4. QED
    BY <2>1, <2>2, <2>3 DEF Attainable
<1>8. ASSUME v >= w, Attainable(InplaceZero, qcap)
      PROVE  /\ IsObject(fresh) /\ fresh.count = 1 /\ ~fresh.neg
             /\ fresh.limbs[0] # 0 => fresh.capacity # 0
             /\ LET s == SignedUnlessZero(quot, neg)
                IN  Settles(s, sign, q) /\ ZeroFrom(s, s.count)
  <2>1. qcap \in Nat /\ 1 <= qcap /\ q < Power(Base, qcap)
    BY <1>7, <1>8
  <2>2. /\ IsObject(fresh) /\ fresh.neg = FALSE /\ fresh.count = 1
        /\ qcap <= Room(fresh)
        /\ qcap <= Room(InplaceZero) => fresh = InplaceZero
        /\ qcap > Room(InplaceZero) => fresh.capacity # 0
        /\ \A k : ZeroFrom(InplaceZero, k) => ZeroFrom(fresh, k)
    BY <1>8, <2>1, InplaceZeroFacts, OverwritableFacts
  <2>3. fresh.limbs[0] # 0 => fresh.capacity # 0
    BY <2>1, <2>2, InplaceZeroFacts, Constants
  <2>4. ZeroFrom(fresh, qcap)
    BY <2>1, <2>2, InplaceZeroFacts, ZeroFromLater
  <2> HIDE DEF fresh, qcap
  <2>5. qcap \in 1 .. Room(fresh)
    BY <2>1, <2>2, ObjectFacts
  <2>6. /\ Stores(quot, fresh.capacity, fresh.neg, LimbsNeeded(q), q)
        /\ ZeroFrom(fresh, qcap) => ZeroFrom(quot, LimbsNeeded(q))
    BY <1>3, <2>1, <2>2, <2>5, TrimmedResult
  <2> HIDE DEF quot
  <2>7. /\ Stores(SignedUnlessZero(quot, neg), fresh.capacity, sign, LimbsNeeded(q), q)
        /\ \A k : ZeroFrom(quot, k) => ZeroFrom(SignedUnlessZero(quot, neg), k)
    BY <2>6, SignedUnlessZeroStores
  <2>8. QED
    BY <2>2, <2>3, <2>4, <2>6, <2>7 DEF Settles, Stores
<1>9. CASE v >= w /\ Ends(op, rhs, "bad_alloc", InplaceZero)
  BY <1>4, <1>9, InplaceZeroFacts, LostGood
<1>10. CASE v >= w /\ op = "/=" /\ Ends(op, rhs, "bad_alloc", fresh)
  <2> HIDE DEF fresh, qcap
  <2>1. QED
    BY <1>4, <1>7, <1>8, <1>10, LostGood
<1>11. CASE v >= w /\ op = "/=" /\ Requests(op, rhs, InplaceZero, qcap, SignedUnlessZero(quot, neg))
  <2>1. qcap \in Nat
    BY <1>7, <1>11
  <2> HIDE DEF quot, qcap
  <2>2. IntegerOf(sign, q) = Meaning(op, ValueOf(acc), rhs)
    BY <1>3, <1>11
  <2>3. QED
    BY <1>4, <1>8, <1>11, <2>1, <2>2, FreshRequestsGood
<1>12. CASE v >= w /\ op = "%=" /\ Overwrites(op, rhs, InplaceZero, LimbsNeeded(t), t, acc.neg)
  <2> DEFINE l == LimbsNeeded(t)
             s == SignedUnlessZero(TailCleared(WithLimbs(Overwritable(InplaceZero, l), l, t),
                                              InplaceZero.count), acc.neg)
  <2>1. PICK b \in BOOLEAN : b <=> acc.neg /\ t # 0
    OBVIOUS
  <2>2. ASSUME Attainable(InplaceZero, l) PROVE Settles(s, b, t) /\ ZeroFrom(s, s.count)
    <3>1. Settles(s, b, t) /\ (ZeroFrom(InplaceZero, InplaceZero.count) => ZeroFrom(s, s.count))
      BY <1>1, <1>3, <2>1, <2>2, InplaceZeroFacts, OverwrittenFacts
    <3>2. QED
      BY <3>1, InplaceZeroFacts
  <2>3. Requests(op, rhs, InplaceZero, l, s)
    BY <1>12 DEF Overwrites
  <2>4. l \in Nat
    BY <1>3, LimbsNeededHas DEF HasLimbs
  <2> HIDE DEF s, l
  <2>5. IntegerOf(b, t) = Meaning(op, ValueOf(acc), rhs)
    BY <1>3, <1>12, <2>1 DEF IntegerOf
  <2>6. QED
    BY <1>4, <2>2, <2>3, <2>4, <2>5, FreshRequestsGood
<1>13. QED
  BY <1>5, <1>6, <1>9, <1>10, <1>11, <1>12 DEF DivideGeneral, v, w, n, m, q, t

LEMMA DivideShortGood ==
  ASSUME Canonical(acc), NEW rhs, IsOperand(rhs), rhs.mag # 0, LimbsNeeded(rhs.mag) = 1,
         NEW op \in {"/=", "%="}, DivideShort(op, rhs)
  PROVE  GoodStep
<1> DEFINE v == MagnitudeOf(acc)
           w == rhs.mag
           n == acc.count
           q == v \div w
           t == v % w
           quot == WithLimbs(acc, n, q)
<1> PICK neg \in BOOLEAN : neg = (acc.neg # rhs.neg)
  OBVIOUS
<1> PICK sign \in BOOLEAN : sign <=> neg /\ q # 0
  OBVIOUS
<1>1. /\ IsObject(acc) /\ n \in Nat \ {0} /\ v \in Nat /\ v < Power(Base, n)
      /\ acc.neg \in BOOLEAN /\ n \in 1 .. Room(acc)
  BY CanonicalFacts
<1>2. w \in Nat \ {0} /\ w < Base
  <2>1. w \in Nat \ {0} /\ w < Power(Base, 1)
    BY OperandFacts
  <2>2. QED
    BY <2>1, BaseType, PowerOne
<1>3. /\ q \in Nat /\ t \in Nat /\ t < w /\ q <= v
      /\ Meaning(op, ValueOf(acc), rhs)
           = IF op = "/=" THEN IntegerOf(sign, q) ELSE IntegerOf(acc.neg, t)
  BY DivisionSetting
<1>4. op \notin Bitwise
  BY DEF Bitwise
<1> HIDE DEF v, w, n, q, t
<1>5. q < Power(Base, n)
  BY <1>1, <1>3, BasePower
<1>6. CASE op = "/=" /\ Returns(op, rhs, SignedUnlessZero(Trimmed(quot), neg))
  <2> DEFINE s == SignedUnlessZero(Trimmed(quot), neg)
  <2>1. /\ Stores(Trimmed(quot), acc.capacity, acc.neg, LimbsNeeded(q), q)
        /\ ZeroFrom(acc, n) => ZeroFrom(Trimmed(quot), LimbsNeeded(q))
    BY <1>1, <1>3, <1>5, TrimmedResult
  <2> HIDE DEF quot
  <2>2. /\ Stores(s, acc.capacity, sign, LimbsNeeded(q), q)
        /\ \A k : ZeroFrom(Trimmed(quot), k) => ZeroFrom(s, k)
    BY <2>1, SignedUnlessZeroStores
  <2> HIDE DEF s
  <2>3. Settles(s, sign, q) /\ s.count = LimbsNeeded(q) /\ s.capacity = acc.capacity
    BY <2>2 DEF Settles, Stores
  <2>4. IntegerOf(sign, q) = Meaning(op, ValueOf(acc), rhs)
    BY <1>3, <1>6
  <2>5. QED
    BY <1>6, <2>1, <2>2, <2>3, <2>4, ReturnsGood DEF s, n
<1>7. CASE op # "/=" /\ Returns(op, rhs, SignedUnlessZero(
                                 TailCleared(WithLimbs(quot, 1, t), n), acc.neg))
  <2> DEFINE r == WithLimbs(quot, 1, t)
             c == TailCleared(r, n)
             s == SignedUnlessZero(c, acc.neg)
  <2>1. PICK b \in BOOLEAN : b <=> acc.neg /\ t # 0
    OBVIOUS
  <2>2. LimbsNeeded(t) = 1 /\ t < Power(Base, 1)
    BY <1>2, <1>3, BaseType, LimbsOfSmall, PowerOne
  <2>3. /\ Stores(quot, acc.capacity, acc.neg, n, q)
        /\ Room(quot) = Room(acc)
        /\ \A k \in Nat : n <= k /\ ZeroFrom(acc, k) => ZeroFrom(quot, k)
    BY <1>1, <1>3, <1>5, WithLimbsFacts
  <2> HIDE DEF quot
  <2>4. IsObject(quot) /\ quot.capacity = acc.capacity /\ 1 \in 1 .. Room(quot)
    BY <1>1, <2>3, ObjectFacts DEF Stores
  <2>5. /\ Stores(r, acc.capacity, quot.neg, 1, t)
        /\ \A k \in Nat : 1 <= k /\ ZeroFrom(quot, k) => ZeroFrom(r, k)
    BY <1>3, <2>2, <2>4, WithLimbsFacts
  <2> HIDE DEF r
  <2>6. /\ Stores(c, acc.capacity, quot.neg, 1, t)
        /\ \A k \in Nat : (k <= 1 \/ k <= n) /\ ZeroFrom(r, k) => ZeroFrom(c, 1)
    BY <1>1, <2>5, TailClearedStores
  <2> HIDE DEF c
  <2>7. Stores(s, acc.capacity, b, 1, t) /\ \A k : ZeroFrom(c, k) => ZeroFrom(s, k)
    BY <1>1, <2>1, <2>6, SignedUnlessZeroStores
  <2> HIDE DEF s
  <2>8. Settles(s, b, t) /\ s.count = 1 /\ s.capacity = acc.capacity
    BY <2>1, <2>2, <2>7 DEF Settles, Stores
  <2>9. ZeroFrom(acc, n) => ZeroFrom(s, 1)
    BY <1>1, <2>3, <2>5, <2>6, <2>7
  <2>10. IntegerOf(b, t) = Meaning(op, ValueOf(acc), rhs)
    BY <1>3, <1>7, <2>1 DEF IntegerOf
  <2>11. Returns(op, rhs, s)
    BY <1>7 DEF s, c, r
  <2>12. QED
    BY <2>8, <2>9, <2>10, <2>11, ReturnsGood DEF n
<1>8. QED
  BY <1>6, <1>7 DEF DivideShort, v, w, n, q, t

LEMMA DivideSmallGood ==
  ASSUME Canonical(acc), NEW rhs, IsOperand(rhs), rhs.mag # 0, LimbsNeeded(rhs.mag) # 1,
         LimbsNeeded(rhs.mag) <= acc.count,
         NEW op \in {"/=", "%="}, DivideSmall(op, rhs)
  PROVE  GoodStep
<1> DEFINE v == MagnitudeOf(acc)
           w == rhs.mag
           n == acc.count
           m == LimbsNeeded(w)
           q == v \div w
           t == v % w
           qcap == n - m + 1
           quot == [WithLimbs(acc, qcap, q) EXCEPT !.count = LimbsNeeded(q)]
           l == LimbsNeeded(t)
           rem == WithLimbs(acc, l, t)
<1> PICK neg \in BOOLEAN : neg = (acc.neg # rhs.neg)
  OBVIOUS
<1> PICK sign \in BOOLEAN : sign <=> neg /\ q # 0
  OBVIOUS
<1>1. /\ IsObject(acc) /\ n \in Nat \ {0} /\ v \in Nat /\ v < Power(Base, n)
      /\ acc.neg \in BOOLEAN /\ n \in 1 .. Room(acc) /\ Room(acc) \in Nat
  BY CanonicalFacts, ObjectFacts
<1>2. /\ w \in Nat \ {0} /\ m \in Nat \ {0} /\ w < Power(Base, m) /\ m <= n
      /\ m = 1 \/ Power(Base, m - 1) <= w
  BY OperandFacts
<1>3. /\ q \in Nat /\ t \in Nat /\ t < w /\ q <= v
      /\ Meaning(op, ValueOf(acc), rhs)
           = IF op = "/=" THEN IntegerOf(sign, q) ELSE IntegerOf(acc.neg, t)
  BY DivisionSetting
<1>4. ~StaysInPlace(op, rhs) /\ op \notin Bitwise
  BY <1>2, BaseType, LimbsOfSmall DEF StaysInPlace, Bitwise
<1> HIDE DEF v, w, n, m, q, t
<1>5. qcap \in 1 .. Room(acc) /\ qcap \in Nat /\ qcap <= n /\ q < Power(Base, qcap)
  <2>1. q < Power(Base, qcap)
    BY <1>1, <1>2, QuotientFits DEF q
  <2>2. QED
    BY <1>1, <1>2, <2>1
<1>6. CASE op = "/=" /\ Returns(op, rhs, SignedUnlessZero(TailCleared(quot, n), neg))
  <2> DEFINE c == TailCleared(quot, n)
             s == SignedUnlessZero(c, neg)
  <2> HIDE DEF qcap
  <2>1. /\ Stores(quot, acc.capacity, acc.neg, LimbsNeeded(q), q)
        /\ \A k \in Nat : qcap <= k /\ ZeroFrom(acc, k) => ZeroFrom(quot, k)
    BY <1>1, <1>3, <1>5, TrimmedResult
  <2> HIDE DEF quot
  <2>2. /\ Stores(c, acc.capacity, acc.neg, LimbsNeeded(q), q)
        /\ \A k \in Nat : (k <= LimbsNeeded(q) \/ k <= n) /\ ZeroFrom(quot, k)
                             => ZeroFrom(c, LimbsNeeded(q))
    BY <1>1, <2>1, TailClearedStores
  <2> HIDE DEF c
  <2>3. /\ Stores(s, acc.capacity, sign, LimbsNeeded(q), q)
        /\ \A k : ZeroFrom(c, k) => ZeroFrom(s, k)
    BY <2>2, SignedUnlessZeroStores
  <2> HIDE DEF s
  <2>4. Settles(s, sign, q) /\ s.count = LimbsNeeded(q)
    BY <2>3 DEF Settles, Stores
  <2>5. ZeroFrom(acc, n) => ZeroFrom(s, LimbsNeeded(q))
    BY <1>1, <1>5, <2>1, <2>2, <2>3
  <2>6. IntegerOf(sign, q) = Meaning(op, ValueOf(acc), rhs)
    BY <1>3, <1>6
  <2>7. Returns(op, rhs, s)
    BY <1>6 DEF s, c
  <2>8. QED
    BY <1>4, <2>4, <2>5, <2>6, <2>7, ReturnsGood DEF n
<1>7. CASE op # "/=" /\ Returns(op, rhs, SignedUnlessZero(TailCleared(rem, n), acc.neg))
  <2> DEFINE c == TailCleared(rem, n)
             s == SignedUnlessZero(c, acc.neg)
  <2>1. PICK b \in BOOLEAN : b <=> acc.neg /\ t # 0
    OBVIOUS
  <2>2. l \in Nat /\ 1 <= l /\ l <= n /\ t < Power(Base, l)
    <3>1. l \in Nat /\ 1 <= l /\ t < Power(Base, l)
      BY <1>3, LimbsNeededHas DEF HasLimbs
    <3>2. t < Power(Base, m)
      <4>1. PICK p \in Nat : p = Power(Base, m)
        BY <1>2, BasePower
      <4>2. QED
        BY <1>2, <1>3, <4>1
    <3>3. l <= m
      BY <1>2, <1>3, <3>2, LimbsNeededBelow
    <3>4. QED
      BY <1>1, <1>2, <3>1, <3>3
  <2>3. l \in 1 .. Room(acc)
    BY <1>1, <2>2
  <2>4. /\ Stores(rem, acc.capacity, acc.neg, l, t)
        /\ \A k \in Nat : l <= k /\ ZeroFrom(acc, k) => ZeroFrom(rem, k)
    BY <1>1, <1>3, <2>2, <2>3, WithLimbsFacts
  <2> HIDE DEF rem
  <2>5. /\ Stores(c, acc.capacity, acc.neg, l, t)
        /\ \A k \in Nat : (k <= l \/ k <= n) /\ ZeroFrom(rem, k) => ZeroFrom(c, l)
    BY <1>1, <2>4, TailClearedStores
  <2> HIDE DEF c
  <2>6. Stores(s, acc.capacity, b, l, t) /\ \A k : ZeroFrom(c, k) => ZeroFrom(s, k)
    BY <1>1, <2>1, <2>5, SignedUnlessZeroStores
  <2> HIDE DEF s
  <2>7. Settles(s, b, t) /\ s.count = l
    BY <2>1, <2>6 DEF Settles, Stores
  <2>8. ZeroFrom(acc, n) => ZeroFrom(s, l)
    BY <1>1, <2>2, <2>4, <2>5, <2>6
  <2>9. IntegerOf(b, t) = Meaning(op, ValueOf(acc), rhs)
    BY <1>3, <1>7, <2>1 DEF IntegerOf
  <2>10. Returns(op, rhs, s)
    BY <1>7 DEF s, c
  <2> HIDE DEF l
  <2>11. QED
    BY <1>4, <2>7, <2>8, <2>9, <2>10, ReturnsGood DEF n
<1>8. QED
  BY <1>6, <1>7 DEF DivideSmall, v, w, n, m, q, t

LEMMA DivideAssignGood ==
  ASSUME Canonical(acc), NEW rhs, IsOperand(rhs), NEW op \in {"/=", "%="}, DivideAssign(op, rhs)
  PROVE  GoodStep
  BY DivideShortGood, DivideSmallGood, DivideGeneralGood DEF DivideAssign

LEMMA DivideAssignSelfGood ==
  ASSUME Canonical(acc), NEW op \in {"/=", "%="}, DivideAssignSelf(op)
  PROVE  GoodStep
<1> DEFINE v == MagnitudeOf(acc)
<1>1. v \in Nat \ {0} /\ acc.neg \in BOOLEAN /\ IsObject(acc) /\ Room(acc) \in Nat \ {0}
      /\ Self.mag = v /\ Self.neg = acc.neg
  BY CanonicalFacts, ObjectFacts, SelfIsOperand DEF DivideAssignSelf
<1>2. PICK x \in Int : x = ValueOf(acc) /\ x = IntegerOf(Self.neg, Self.mag)
                       /\ x = IntegerOf(acc.neg, v)
  BY <1>1, IntegerFacts DEF ValueOf
<1>3. Truncated(x, x) = 1
  <2>1. Abs(x) = v
    BY <1>1, <1>2, IntegerFacts
  <2>2. PICK one \in Int, zero \in 0 .. v - 1 : one = 1 /\ zero = 0 /\ v = v * one + zero
    BY <1>1
  <2>3. v \div v = one
    BY <1>1, <2>2, DivUnique
  <2>4. QED
    BY <2>1, <2>2, <2>3 DEF Truncated
<1>4. Meaning("/=", ValueOf(acc), Self) = 1 /\ Meaning("%=", ValueOf(acc), Self) = 0
  <2>1. Meaning("/=", x, Self) = Truncated(x, x) /\ Meaning("%=", x, Self) = x - x * Truncated(x, x)
    <3>1. PICK rhs : rhs = Self
      OBVIOUS
    <3>2. PICK y \in Int : y = x /\ y = IntegerOf(rhs.neg, rhs.mag)
      BY <1>2, <3>1
    <3>3. Meaning("/=", x, rhs) = Truncated(x, y) /\ Meaning("%=", x, rhs) = x - y * Truncated(x, y)
      BY <3>2, OperandMeaning
    <3>4. QED
      BY <3>1, <3>2, <3>3
  <2>2. QED
    BY <1>2, <1>3, <2>1
<1>5. CASE op = "%="
  BY <1>1, <1>4, <1>5, ZeroedGood DEF DivideAssignSelf
<1>6. CASE op = "/="
  <2> DEFINE z == Zeroed(acc)
             s == WithLimbs(z, 1, 1)
  <2>1. Stores(z, acc.capacity, FALSE, 1, 0) /\ Room(z) = Room(acc) /\ ZeroFrom(z, 1)
    BY <1>1, ZeroedStores
  <2> HIDE DEF z
  <2>2. IsObject(z) /\ z.capacity = acc.capacity /\ z.neg = FALSE /\ 1 \in 1 .. Room(z)
    BY <1>1, <2>1 DEF Stores
  <2>3. LimbsNeeded(1) = 1 /\ 1 < Power(Base, 1)
    BY BaseType, PowerOne, LimbsOfSmall
  <2>4. /\ Stores(s, z.capacity, z.neg, 1, 1)
        /\ \A k \in Nat : 1 <= k /\ ZeroFrom(z, k) => ZeroFrom(s, k)
    BY <2>2, <2>3, WithLimbsFacts
  <2> HIDE DEF s
  <2>5. Settles(s, FALSE, 1) /\ s.count = 1 /\ s.capacity = acc.capacity /\ ZeroFrom(s, 1)
    BY <2>1, <2>2, <2>3, <2>4 DEF Settles, Stores
  <2>6. Returns(op, Self, s)
    BY <1>6 DEF DivideAssignSelf, s, z
  <2>7. IntegerOf(FALSE, 1) = Meaning(op, ValueOf(acc), Self)
    BY <1>4, <1>6 DEF IntegerOf
  <2>8. QED
    BY <2>5, <2>6, <2>7, ReturnsGood
<1>7. QED
  BY <1>5, <1>6

(***************************************************************************)
(* Shifts.                                                                 *)
(***************************************************************************)

LEMMA NumberMag == ASSUME NEW s PROVE Number(s).mag = s
  BY DEF Number

(* A shift by whole limbs and a shift within a limb. *)
LEMMA ShiftSplit ==
  ASSUME NEW s \in Nat
  PROVE  /\ s \div LimbBits \in Nat /\ s % LimbBits \in 0 .. LimbBits - 1
         /\ Power(2, s) = Power(Base, s \div LimbBits) * Power(2, s % LimbBits)
         /\ Base = Power(2, s % LimbBits) * Power(2, LimbBits - (s % LimbBits))
<1>1. PICK b \in Nat \ {0} : b = LimbBits
  BY Constants
<1>2. s \div b \in Nat /\ s % b \in 0 .. b - 1 /\ s = b * (s \div b) + (s % b)
  <2>1. s \in Int
    OBVIOUS
  <2>2. s \div b \in Nat
    BY DivNat
  <2>3. QED
    BY <2>1, <2>2, DivMod
<1>3. PICK k \in Nat, t \in 0 .. b - 1 : k = s \div b /\ t = s % b /\ s = b * k + t
  BY <1>2
<1>4. Power(2, b * k) = Power(Base, k)
  BY <1>1, PowerPower, BaseIsPower
<1>5. b * k \in Nat /\ t \in Nat
  OBVIOUS
<1>6. Power(2, b * k + t) = Power(2, b * k) * Power(2, t)
  BY <1>5, PowerSum
<1>7. b - t \in Nat /\ t + (b - t) = b
  OBVIOUS
<1>8. Power(2, t + (b - t)) = Power(2, t) * Power(2, b - t)
  BY <1>5, <1>7, PowerSum
<1>9. QED
  BY <1>1, <1>3, <1>4, <1>6, <1>7, <1>8, BaseIsPower

(* Whole limbs below a number add to its size. *)
LEMMA HasLimbsScaled ==
  ASSUME NEW v \in Nat \ {0}, NEW n \in Nat, HasLimbs(v, n), NEW k \in Nat
  PROVE  v * Power(Base, k) \in Nat /\ HasLimbs(v * Power(Base, k), n + k)
<1>1. n \in Nat \ {0} /\ v < Power(Base, n) /\ (n = 1 \/ Power(Base, n - 1) <= v)
  BY DEF HasLimbs
<1>2. n - 1 \in Nat /\ n + k \in Nat \ {0} /\ (n + k) - 1 = (n - 1) + k
  BY <1>1
<1>3. PICK p \in Nat \ {0}, q \in Nat, o \in Nat :
        p = Power(Base, k) /\ q = Power(Base, n) /\ o = Power(Base, n - 1)
  BY <1>2, BasePower
<1>4. Power(Base, n + k) = q * p /\ Power(Base, (n + k) - 1) = o * p
  BY <1>2, <1>3, BaseType, PowerSum
<1>5. v * p \in Nat /\ v * p < q * p
  <2>1. v + 1 <= q
    BY <1>1, <1>3
  <2>2. (v + 1) * p <= q * p
    BY <1>3, <2>1, MulPos
  <2>3. (v + 1) * p = v * p + p /\ v * p \in Nat /\ q * p \in Nat
    BY <1>3
  <2>4. QED
    BY <1>3, <2>2, <2>3
<1>6. o <= v
  <2>1. CASE n = 1
    BY <1>3, <2>1, BaseType, PowerOne
  <2>2. CASE n # 1
    BY <1>1, <1>3, <2>2
  <2>3. QED
    BY <2>1, <2>2
<1>7. o * p <= v * p
  BY <1>3, <1>6, MulPos
<1>8. QED
  BY <1>2, <1>3, <1>4, <1>5, <1>7 DEF HasLimbs

(* The top limb of a canonical object is zero for zero only. *)
LEMMA TopLimb ==
  ASSUME Canonical(acc)
  PROVE  acc.limbs[acc.count - 1] = 0 <=> MagnitudeOf(acc) = 0
<1> DEFINE n == acc.count
           v == MagnitudeOf(acc)
           top == acc.limbs[n - 1]
<1>1. /\ n \in 1 .. Room(acc) /\ Room(acc) \in Nat /\ IsArray(acc.limbs, Room(acc))
      /\ IsWritten(acc.limbs, n) /\ v = Magnitude(acc.limbs, n)
      /\ v \in Nat /\ n \in Nat \ {0} /\ n = LimbsNeeded(v)
      /\ n = 1 \/ Power(Base, n - 1) <= v
  BY CanonicalFacts, ObjectFacts DEF Stores, MagnitudeOf
<1>2. PICK low \in Nat : /\ low < Power(Base, n - 1) /\ v = low + top * Power(Base, n - 1)
                         /\ top \in Nat
  BY <1>1, MagnitudeSplit
<1>3. n - 1 \in Nat
  BY <1>1
<1>4. PICK p \in Nat \ {0} : p = Power(Base, n - 1)
  BY <1>3, BasePower
<1> HIDE DEF n, v, top
<1>5. ASSUME top = 0 PROVE v = 0
  <2>1. 0 * p = 0
    OBVIOUS
  <2>2. v = low /\ low < p
    BY <1>2, <1>4, <1>5, <2>1
  <2>3. n = 1
    BY <1>1, <1>4, <2>2
  <2>4. p = 1
    BY <1>4, <2>3, BaseType, PowerOne
  <2>5. QED
    BY <2>2, <2>4
<1>6. ASSUME top # 0 PROVE v # 0
  <2>1. 1 * p <= top * p
    BY <1>2, <1>6, MulPos
  <2>2. QED
    BY <1>2, <1>4, <2>1
<1>7. QED
  BY <1>5, <1>6 DEF n, v, top

(* shift_left asks for exactly the limbs of the result. *)
LEMMA ShiftedSizeExact ==
  ASSUME Canonical(acc), MagnitudeOf(acc) # 0, NEW s \in Nat
  PROVE  /\ MagnitudeOf(acc) * Power(2, s) \in Nat
         /\ HasLimbs(MagnitudeOf(acc) * Power(2, s), ShiftedSize(acc, s))
<1> DEFINE n == acc.count
           v == MagnitudeOf(acc)
           top == acc.limbs[n - 1]
           k == s \div LimbBits
           t == s % LimbBits
<1>1. /\ n \in 1 .. Room(acc) /\ Room(acc) \in Nat /\ IsArray(acc.limbs, Room(acc))
      /\ IsWritten(acc.limbs, n) /\ v = Magnitude(acc.limbs, n)
      /\ v \in Nat \ {0} /\ n \in Nat \ {0} /\ v < Power(Base, n)
  BY CanonicalFacts, ObjectFacts DEF Stores, MagnitudeOf
<1>2. PICK low \in Nat : /\ low < Power(Base, n - 1) /\ v = low + top * Power(Base, n - 1)
                         /\ top \in Nat
  BY <1>1, MagnitudeSplit
<1>3. top # 0
  BY TopLimb
<1>4. /\ k \in Nat /\ t \in 0 .. LimbBits - 1 /\ LimbBits - t \in Nat /\ t \in Nat
      /\ Power(2, s) = Power(Base, k) * Power(2, t)
      /\ Base = Power(2, t) * Power(2, LimbBits - t)
  <2>1. /\ k \in Nat /\ t \in 0 .. LimbBits - 1
        /\ Power(2, s) = Power(Base, k) * Power(2, t)
        /\ Base = Power(2, t) * Power(2, LimbBits - t)
    BY ShiftSplit
  <2> HIDE DEF k, t
  <2>2. LimbBits - t \in Nat /\ t \in Nat
    BY <2>1, Constants
  <2>3. QED
    BY <2>1, <2>2
<1>5. ShiftedSize(acc, s) = n + k + (IF top * Power(2, t) >= Base THEN 1 ELSE 0)
  BY DEF ShiftedSize
<1> HIDE DEF n, v, top, k, t
<1>6. n - 1 \in Nat /\ n + 1 \in Nat \ {0} /\ (n + 1) - 1 = n /\ (n - 1) + 1 = n /\ n \in Nat
  BY <1>1
<1>7. PICK p \in Nat \ {0}, pn \in Nat, pm \in Nat, b \in Nat, u \in Nat \ {0}, g \in Nat :
        /\ p = Power(Base, n - 1) /\ pn = Power(Base, n) /\ pm = Power(Base, n + 1)
        /\ b = Base /\ u = Power(2, t) /\ g = Power(2, LimbBits - t)
  <2>1. Power(2, t) \in Nat \ {0} /\ Power(2, LimbBits - t) \in Nat
    BY <1>4, PowerPositive
  <2>2. Power(Base, n - 1) \in Nat \ {0} /\ Power(Base, n) \in Nat /\ Power(Base, n + 1) \in Nat
    BY <1>6, BasePower
  <2>3. QED
    BY <2>1, <2>2, BaseType
<1>8. pn = b * p /\ pm = b * pn /\ b = u * g
  <2>1. Power(Base, (n - 1) + 1) = Base * Power(Base, n - 1)
        /\ Power(Base, n + 1) = Base * Power(Base, n)
    BY <1>6, BaseType, PowerStep
  <2>2. QED
    BY <1>4, <1>6, <1>7, <2>1
<1>9. v = low + top * p /\ low < p /\ top \in Nat \ {0} /\ v < pn
  BY <1>1, <1>2, <1>3, <1>7
<1>10. v * u \in Nat \ {0} /\ v <= v * u /\ p <= v
  <2>1. v * u \in Nat /\ v <= v * u /\ v * u # 0
    BY <1>1, ProductBounds
  <2>2. 1 * p <= top * p
    BY <1>9, MulPos
  <2>3. QED
    BY <1>9, <2>1, <2>2
<1>11. ASSUME top * u >= b PROVE HasLimbs(v * u, n + 1)
  <2>1. b * p <= (top * u) * p
    BY <1>9, <1>11, MulPos
  <2>2. (top * p) * u <= v * u
    BY <1>9, MulPos
  <2>3. (top * u) * p = (top * p) * u
    BY <1>9
  <2>4. pn <= v * u
    BY <1>8, <1>9, <1>10, <2>1, <2>2, <2>3
  <2>5. v * u < pm
    <3>1. u <= b
      <4>1. g # 0
        BY <1>7, BaseType, <1>8
      <4>2. 1 * u <= g * u
        BY <4>1, MulPos
      <4>3. g * u = u * g
        OBVIOUS
      <4>4. QED
        BY <1>8, <4>2, <4>3
    <3>2. u * v <= b * v
      BY <1>1, <3>1, MulPos
    <3>3. (v + 1) * b <= pn * b
      BY <1>1, <1>9, MulPos
    <3>4. (v + 1) * b = b * v + b /\ u * v = v * u /\ pn * b = b * pn /\ b >= 2
      BY <1>1, <1>7, BaseType
    <3>5. b * v \in Nat /\ b * pn \in Nat
      BY <1>1
    <3>6. QED
      BY <1>8, <1>10, <3>2, <3>3, <3>4, <3>5
  <2>6. QED
    BY <1>6, <1>7, <2>4, <2>5 DEF HasLimbs
<1>12. ASSUME top * u < b PROVE HasLimbs(v * u, n)
  <2>1. top + 1 <= g
    <3> SUFFICES ASSUME g <= top PROVE FALSE
      BY <1>9
    <3>1. g * u <= top * u
      BY <1>9, MulPos
    <3>2. g * u = u * g /\ top * u \in Nat
      BY <1>9
    <3>3. QED
      BY <1>8, <1>12, <3>1, <3>2
  <2>2. (top + 1) * u <= g * u
    BY <1>9, <2>1, MulPos
  <2>3. ((top + 1) * u) * p <= (g * u) * p
    BY <1>9, <2>2, MulPos
  <2>4. v + 1 <= (top + 1) * p
    <3>1. (top + 1) * p = top * p + p /\ top * p \in Nat
      BY <1>9
    <3>2. QED
      BY <1>9, <3>1
  <2>5. (v + 1) * u <= ((top + 1) * p) * u
    BY <1>1, <1>9, <2>4, MulPos
  <2>6. ((top + 1) * u) * p = ((top + 1) * p) * u /\ (g * u) * p = b * p
    BY <1>8, <1>9
  <2>7. (v + 1) * u = v * u + u
    BY <1>1
  <2>8. v * u < pn
    <3>1. (v + 1) * u \in Nat /\ ((top + 1) * p) * u \in Nat /\ b * p \in Nat
      BY <1>1, <1>9
    <3>2. QED
      BY <1>8, <1>10, <2>3, <2>5, <2>6, <2>7, <3>1
  <2>9. n = 1 \/ p <= v * u
    BY <1>1, <1>10
  <2>10. QED
    BY <1>1, <1>7, <2>8, <2>9 DEF HasLimbs
<1>13. PICK j \in Nat : HasLimbs(v * u, j) /\ ShiftedSize(acc, s) = j + k
  <2>1. CASE top * u >= b
    <3>1. ShiftedSize(acc, s) = n + k + 1
      BY <1>5, <1>7, <2>1
    <3>2. n + 1 \in Nat /\ n + k + 1 = (n + 1) + k
      BY <1>4, <1>6
    <3>3. QED
      BY <1>11, <2>1, <3>1, <3>2
  <2>2. CASE top * u < b
    <3>1. ShiftedSize(acc, s) = n + k + 0
      BY <1>5, <1>7, <1>9, <2>2
    <3>2. n + k + 0 = n + k
      BY <1>4, <1>6
    <3>3. QED
      BY <1>6, <1>12, <2>2, <3>1, <3>2
  <2>3. top * u \in Nat
    BY <1>9
  <2>4. QED
    BY <2>1, <2>2, <2>3
<1>14. v * Power(2, s) = (v * u) * Power(Base, k)
  <2>1. PICK pk \in Nat : pk = Power(Base, k)
    BY <1>4, BasePower
  <2>2. v * (pk * u) = (v * u) * pk
    BY <1>1
  <2>3. QED
    BY <1>4, <1>7, <2>1, <2>2
<1>15. QED
  BY <1>4, <1>10, <1>13, <1>14, HasLimbsScaled DEF v

(* A left shift asks for the limbs of its result and has nothing to give back. *)
LEMMA ShiftLeftGood ==
  ASSUME Canonical(acc), NEW s \in Nat, ShiftLeft(s)
  PROVE  GoodStep
<1> DEFINE v == MagnitudeOf(acc)
<1>1. /\ IsObject(acc) /\ v \in Nat /\ acc.neg \in BOOLEAN /\ acc.count \in Nat
      /\ Stores(acc, acc.capacity, acc.neg, acc.count, v) /\ Settles(acc, acc.neg, v)
      /\ (acc.neg => v # 0) /\ acc.count = LimbsNeeded(v) /\ acc.count \in 1 .. Room(acc)
  BY CanonicalFacts DEF Settles
<1>2. PICK p \in Nat \ {0} : p = Power(2, s)
  BY PowerPositive
<1>3. v * p \in Nat
  BY <1>1
<1>4. Meaning("<<=", ValueOf(acc), Number(s)) = IntegerOf(acc.neg, v * p)
  <2>1. Meaning("<<=", ValueOf(acc), Number(s)) = ValueOf(acc) * p
    BY <1>2, MeaningOf, NumberMag
  <2>2. ValueOf(acc) = IntegerOf(acc.neg, v)
    BY DEF ValueOf
  <2> HIDE DEF v
  <2>3. IntegerOf(acc.neg, v) * p = IntegerOf(acc.neg, v * p)
    BY <1>1 DEF IntegerOf
  <2>4. QED
    BY <2>1, <2>2, <2>3
<1>5. ~StaysInPlace("<<=", Number(s))
  BY DEF StaysInPlace
<1> HIDE DEF v
<1>6. CASE (s = 0 \/ acc.limbs[acc.count - 1] = 0) /\ Returns("<<=", Number(s), acc)
  <2>1. s = 0 => p = 1
    BY <1>2, PowerOne
  <2>2. v = 0 \/ p = 1
    BY <1>6, <2>1, TopLimb DEF v
  <2>3. v * p = v
    BY <1>1, <1>2, <2>2
  <2>4. IntegerOf(acc.neg, v) = Meaning("<<=", ValueOf(acc), Number(s))
    BY <1>4, <2>3
  <2>5. QED
    BY <1>1, <1>5, <1>6, <2>4, ReturnsGood
<1>7. CASE s # 0 /\ acc.limbs[acc.count - 1] # 0
  <2>1. v # 0
    BY <1>7, TopLimb DEF v
  <2>2. PICK n \in Nat : n = ShiftedSize(acc, s) /\ HasLimbs(v * p, n)
    <3>1. HasLimbs(v * p, ShiftedSize(acc, s))
      BY <1>2, <2>1, ShiftedSizeExact DEF v
    <3>2. ShiftedSize(acc, s) \in Nat
      BY <3>1 DEF HasLimbs
    <3>3. QED
      BY <3>1, <3>2
  <2>3. n = LimbsNeeded(v * p) /\ n \in Nat \ {0} /\ v * p < Power(Base, n)
    <3>1. n = LimbsNeeded(v * p)
      BY <1>3, <2>2, HasLimbsUnique
    <3>2. QED
      BY <2>2, <3>1 DEF HasLimbs
  <2> DEFINE g == Grown(acc, n)
             r == WithLimbs(g, n, v * p)
  <2>4. Requests("<<=", Number(s), acc, n, r)
    BY <1>2, <1>7, <2>2 DEF ShiftLeft, v
  <2>5. n = LimbsNeeded(Abs(Meaning("<<=", ValueOf(acc), Number(s))))
    BY <1>1, <1>3, <1>4, <2>3, IntegerFacts
  <2>6. ASSUME Attainable(acc, n)
        PROVE  Settles(r, acc.neg, v * p) /\ (ZeroFrom(acc, acc.count) => ZeroFrom(r, r.count))
    <3>1. /\ Stores(g, g.capacity, acc.neg, acc.count, v) /\ n <= Room(g)
          /\ \A k : ZeroFrom(acc, k) => ZeroFrom(g, k)
      BY <1>1, <2>6, GrownStores
    <3> HIDE DEF g
    <3>2. IsObject(g) /\ g.neg = acc.neg /\ n \in 1 .. Room(g)
      <4>1. IsObject(g) /\ g.neg = acc.neg
        BY <3>1 DEF Stores
      <4>2. Room(g) \in Nat
        BY <4>1, ObjectFacts, Constants
      <4>3. QED
        BY <2>3, <3>1, <4>1, <4>2
    <3>3. /\ Stores(r, g.capacity, g.neg, n, v * p)
          /\ \A k \in Nat : n <= k /\ ZeroFrom(g, k) => ZeroFrom(r, k)
      BY <1>3, <2>3, <3>2, WithLimbsFacts
    <3>4. Settles(r, acc.neg, v * p) /\ r.count = n
      <4>1. v * p # 0
        BY <1>1, <1>2, <2>1, ProductBounds
      <4>2. QED
        BY <2>3, <3>2, <3>3, <4>1 DEF Settles, Stores
    <3>5. acc.count <= n
      <4>1. v <= v * p
        BY <1>1, <1>2, ProductBounds
      <4>2. v < Power(Base, n)
        <5>1. Power(Base, n) \in Nat
          BY <2>3, BasePower
        <5>2. QED
          BY <1>1, <1>3, <2>3, <4>1, <5>1
      <4>3. QED
        BY <1>1, <2>3, <4>2, LimbsNeededBelow
    <3>6. ASSUME ZeroFrom(acc, acc.count) PROVE ZeroFrom(r, n)
      BY <1>1, <3>1, <3>3, <3>5, <3>6, ZeroFromLater
    <3>7. QED
      BY <3>4, <3>6
  <2> HIDE DEF r
  <2>7. QED
    BY <1>1, <1>4, <1>5, <2>4, <2>5, <2>6, RequestsGood
<1>8. QED
  BY <1>6, <1>7 DEF ShiftLeft

(* The quotient of a right shift: how large it is, and how it rounds. *)
LEMMA RightShiftFits ==
  ASSUME NEW m \in Nat \ {0}, NEW v \in Nat, v < Power(Base, m), NEW s \in Nat, s # 0,
         NEW k \in Nat, k = s \div LimbBits
  PROVE  /\ v \div Power(2, s) \in Nat
         /\ m <= k => v \div Power(2, s) = 0 /\ v % Power(2, s) = v
         /\ k < m => v \div Power(2, s) < Power(Base, m - k)
         /\ v \div Power(2, s) + 1 < Power(Base, m)
         /\ v \div Power(2, s) <= v
<1>1. PICK t \in Nat : Power(2, s) = Power(Base, k) * Power(2, t)
  <2>1. s % LimbBits \in Nat /\ Power(2, s) = Power(Base, k) * Power(2, s % LimbBits)
    BY ShiftSplit, Constants
  <2>2. QED
    BY <2>1
<1>2. PICK p \in Nat \ {0} : p = Power(2, s)
  BY PowerPositive
<1>3. PICK b \in Nat \ {0}, c \in Nat \ {0}, u \in Nat \ {0} :
        b = Power(Base, m) /\ c = Power(Base, k) /\ u = Power(2, t)
  <2>1. Power(Base, m) \in Nat \ {0} /\ Power(Base, k) \in Nat \ {0}
    BY BasePower
  <2>2. Power(2, t) \in Nat \ {0}
    BY PowerPositive
  <2>3. QED
    BY <2>1, <2>2
<1>4. p = c * u /\ c <= p
  <2>1. p = c * u
    BY <1>1, <1>2, <1>3
  <2>2. 1 * c <= u * c
    BY <1>3, MulPos
  <2>3. QED
    BY <2>1, <2>2
<1>5. PICK q \in Nat, r \in 0 .. p - 1 :
        q = v \div p /\ r = v % p /\ v = p * q + r /\ q <= v
  <2>1. v \div p \in Nat /\ v \div p <= v
    BY DivNat
  <2>2. v \in Int
    OBVIOUS
  <2>3. v % p \in 0 .. p - 1 /\ v = p * (v \div p) + (v % p)
    BY <2>2, DivMod
  <2>4. QED
    BY <2>1, <2>3
<1>6. ASSUME m <= k PROVE q = 0 /\ r = v
  <2>1. b <= c
    BY <1>3, <1>6, BaseType, PowerGrows
  <2>2. v \in 0 .. p - 1
    BY <1>3, <1>4, <2>1
  <2>3. QED
    BY <1>5, <2>2, DivSmall
<1>7. ASSUME k < m PROVE q < Power(Base, m - k)
  <2>1. m - k \in Nat /\ (m - k) + k = m
    BY <1>7
  <2>2. PICK d \in Nat : d = Power(Base, m - k)
    BY <2>1, BasePower
  <2>3. b = d * c
    <3>1. Power(Base, (m - k) + k) = Power(Base, m - k) * Power(Base, k)
      BY <2>1, BaseType, PowerSum
    <3>2. QED
      BY <1>3, <2>1, <2>2, <3>1
  <2>4. c * d <= p * d
    BY <1>4, MulPos
  <2>5. v < p * d
    BY <1>3, <2>3, <2>4
  <2>6. QED
    BY <1>5, <2>2, <2>5, DivBelow
<1>8. q + 1 < b
  <2>1. 2 <= p
    <3>1. Power(2, 1) <= Power(2, s)
      BY PowerGrows
    <3>2. QED
      BY <1>2, <3>1, PowerOne
  <2>2. 2 * q <= p * q
    BY <2>1, MulPos
  <2>3. 2 <= b
    <3>1. Power(Base, 1) <= Power(Base, m)
      BY BaseType, PowerGrows
    <3>2. QED
      BY <1>3, <3>1, BaseType, PowerOne
  <2>4. p * q \in Nat
    OBVIOUS
  <2>5. QED
    BY <1>3, <1>5, <2>2, <2>3, <2>4
<1>9. QED
  BY <1>2, <1>3, <1>5, <1>6, <1>7, <1>8

LEMMA RightShiftMeans ==
  ASSUME NEW v \in Nat, NEW neg \in BOOLEAN, neg => v # 0, NEW s \in Nat
  PROVE  LET p == Power(2, s)
         IN  /\ ~RoundsDown(v, s, neg) => /\ IntegerOf(neg, v) \div p = IntegerOf(neg, v \div p)
                                          /\ neg => v \div p # 0
             /\ RoundsDown(v, s, neg) => /\ IntegerOf(neg, v) \div p = IntegerOf(neg, v \div p + 1)
                                         /\ neg
<1>1. PICK p \in Nat \ {0} : p = Power(2, s)
  BY PowerPositive
<1>2. PICK q \in Nat, r \in 0 .. p - 1 : q = v \div p /\ r = v % p /\ v = p * q + r
  <2>1. v \div p \in Nat
    BY DivNat
  <2>2. v % p \in 0 .. p - 1 /\ v = p * (v \div p) + (v % p)
    BY DivMod
  <2>3. QED
    BY <2>1, <2>2
<1>3. RoundsDown(v, s, neg) <=> neg /\ r # 0
  BY <1>1, <1>2 DEF RoundsDown
<1>4. ASSUME neg, r = 0 PROVE (-v) \div p = -q /\ q # 0
  <2>1. -v \in Int /\ -q \in Int /\ 0 \in 0 .. p - 1
    OBVIOUS
  <2>2. -v = p * (-q) + 0 /\ (q = 0 => p * q = 0)
    BY <1>2, <1>4
  <2>3. (-v) \div p = -q
    BY <2>1, <2>2, DivUnique
  <2>4. QED
    BY <1>2, <1>4, <2>2, <2>3
<1>5. ASSUME neg, r # 0 PROVE (-v) \div p = -(q + 1)
  <2>1. -v \in Int /\ -(q + 1) \in Int /\ p - r \in 0 .. p - 1
    BY <1>5
  <2>2. p * (-(q + 1)) = -(p * q) - p
    OBVIOUS
  <2>3. -v = p * (-(q + 1)) + (p - r)
    BY <1>2, <2>2
  <2>4. QED
    BY <2>1, <2>3, DivUnique
<1>6. QED
  BY <1>1, <1>2, <1>3, <1>4, <1>5 DEF IntegerOf

(* A right shift stays in its storage, also when rounding carries. *)
LEMMA ShiftRightGood ==
  ASSUME Canonical(acc), NEW s \in Nat, ShiftRight(s)
  PROVE  GoodStep
<1> DEFINE v == MagnitudeOf(acc)
           p == Power(2, s)
           k == s \div LimbBits
           n == acc.count - k
           q == v \div p
           kept == TailCleared(Trimmed(WithLimbs(acc, n, q)), acc.count)
           mean == Meaning(">>=", ValueOf(acc), Number(s))
<1>1. /\ IsObject(acc) /\ v \in Nat /\ acc.neg \in BOOLEAN /\ acc.count \in Nat \ {0}
      /\ Stores(acc, acc.capacity, acc.neg, acc.count, v) /\ Settles(acc, acc.neg, v)
      /\ (acc.neg => v # 0) /\ acc.count = LimbsNeeded(v) /\ acc.count \in 1 .. Room(acc)
      /\ v < Power(Base, acc.count) /\ Room(acc) \in Nat
  BY CanonicalFacts DEF Settles
<1>2. k \in Nat
  BY ShiftSplit
<1>3. mean = IntegerOf(acc.neg, v) \div p
  BY MeaningOf, NumberMag DEF ValueOf
<1>4. /\ ~RoundsDown(v, s, acc.neg) => mean = IntegerOf(acc.neg, q) /\ (acc.neg => q # 0)
      /\ RoundsDown(v, s, acc.neg) => mean = IntegerOf(acc.neg, q + 1) /\ acc.neg
  <2> HIDE DEF v
  <2>1. QED
    BY <1>1, <1>3, RightShiftMeans
<1>5. RoundsDown(v, s, acc.neg) <=> acc.neg /\ v % p # 0
  BY DEF RoundsDown
<1>5a. \/ s = 0 /\ Returns(">>=", Number(s), acc)
       \/ /\ s # 0 /\ n <= 0
          /\ Returns(">>=", Number(s),
               IF acc.neg THEN Signed(WithLimbs(Zeroed(acc), 1, 1), TRUE) ELSE Zeroed(acc))
       \/ s # 0 /\ n > 0 /\ ~RoundsDown(v, s, acc.neg) /\ Returns(">>=", Number(s), kept)
       \/ /\ s # 0 /\ n > 0 /\ RoundsDown(v, s, acc.neg)
          /\ IncrementMagnitude(">>=", Number(s), kept)
  BY DEF ShiftRight
<1>5b. n \in Int
  BY <1>1, <1>2
<1> HIDE DEF v, p, k, mean
<1>6. CASE s = 0 /\ Returns(">>=", Number(s), acc)
  <2>1. p = 1
    BY <1>6, PowerOne DEF p
  <2>2. q = v /\ v % p = 0
    BY <1>1, <2>1
  <2>3. IntegerOf(acc.neg, v) = mean
    BY <1>4, <1>5, <2>2
  <2>4. QED
    BY <1>1, <1>6, <2>3, ReturnsGood DEF mean
<1>7. ASSUME s # 0
      PROVE  /\ q \in Nat /\ q + 1 < Power(Base, acc.count) /\ q <= v
             /\ acc.count <= k => q = 0 /\ v % p = v
             /\ k < acc.count => q < Power(Base, n)
  BY <1>1, <1>2, <1>7, RightShiftFits DEF p, k
<1>8. CASE s # 0 /\ n <= 0
  <2>1. q = 0 /\ v % p = v /\ acc.count <= k
    BY <1>1, <1>2, <1>7, <1>8
  <2>2. CASE ~acc.neg
    <3>1. mean = 0
      BY <1>4, <1>5, <2>1, <2>2 DEF IntegerOf
    <3>2. Returns(">>=", Number(s), Zeroed(acc))
      BY <1>8, <1>5a, <1>5b, <2>2
    <3>3. QED
      BY <1>1, <3>1, <3>2, ZeroedGood DEF mean
  <2>3. CASE acc.neg
    <3> DEFINE z == Zeroed(acc)
               one == WithLimbs(z, 1, 1)
               r == Signed(one, TRUE)
    <3>1. Stores(z, acc.capacity, FALSE, 1, 0) /\ Room(z) = Room(acc) /\ ZeroFrom(z, 1)
      BY <1>1, ZeroedStores
    <3> HIDE DEF z
    <3>2. IsObject(z) /\ z.capacity = acc.capacity /\ z.neg = FALSE /\ 1 \in 1 .. Room(z)
      BY <1>1, <3>1 DEF Stores
    <3>3. LimbsNeeded(1) = 1 /\ 1 < Power(Base, 1)
      BY BaseType, PowerOne, LimbsOfSmall
    <3>4. /\ Stores(one, z.capacity, z.neg, 1, 1)
          /\ \A j \in Nat : 1 <= j /\ ZeroFrom(z, j) => ZeroFrom(one, j)
      BY <3>2, <3>3, WithLimbsFacts
    <3> HIDE DEF one
    <3>5. Stores(r, z.capacity, TRUE, 1, 1) /\ ZeroFrom(r, 1)
      <4>1. ZeroFrom(one, 1)
        BY <3>1, <3>4
      <4>2. TRUE \in BOOLEAN
        OBVIOUS
      <4>3. QED
        BY <3>4, <4>1, <4>2, SignedStores
    <3>6. Returns(">>=", Number(s), r)
      <4>1. s # 0 /\ ~(n > 0)
        BY <1>8, <1>5b
      <4>2. Returns(">>=", Number(s), Signed(WithLimbs(Zeroed(acc), 1, 1), TRUE))
        <5> HIDE DEF n, kept, r
        <5>1. QED
          BY <1>5a, <2>3, <4>1
      <4>3. QED
        BY <4>2 DEF r, one, z
    <3> HIDE DEF r
    <3>7. Settles(r, TRUE, 1) /\ r.count = 1 /\ r.capacity = acc.capacity
      BY <3>2, <3>3, <3>5 DEF Settles, Stores
    <3>8. RoundsDown(v, s, acc.neg)
      BY <1>1, <1>5, <2>1, <2>3
    <3>9. IntegerOf(TRUE, 1) = mean
      BY <1>4, <2>1, <2>3, <3>8 DEF IntegerOf
    <3>10. QED
      BY <3>5, <3>6, <3>7, <3>9, ReturnsGood DEF mean
  <2>4. QED
    BY <1>1, <2>2, <2>3
<1>9. CASE s # 0 /\ n > 0
  <2>1. /\ q \in Nat /\ q < Power(Base, n) /\ n \in 1 .. Room(acc) /\ n <= acc.count
        /\ q + 1 < Power(Base, acc.count)
    BY <1>1, <1>2, <1>7, <1>9
  <2> DEFINE t == Trimmed(WithLimbs(acc, n, q))
             m == LimbsNeeded(q)
  <2>2. /\ Stores(t, acc.capacity, acc.neg, m, q)
        /\ \A j \in Nat : n <= j /\ ZeroFrom(acc, j) => ZeroFrom(t, j)
    <3>1. PICK w \in Nat : w = q
      BY <2>1
    <3>2. w < Power(Base, n) /\ n \in 1 .. Room(acc)
      BY <2>1, <3>1
    <3> HIDE DEF n
    <3>3. QED
      BY <1>1, <3>1, <3>2, TrimmedResult
  <2>3. ZeroFrom(acc, acc.count) => ZeroFrom(t, acc.count)
    BY <1>1, <2>1, <2>2
  <2> HIDE DEF t
  <2>4. /\ Stores(kept, acc.capacity, acc.neg, m, q)
        /\ ZeroFrom(acc, acc.count) => ZeroFrom(kept, m)
    <3>1. kept = TailCleared(t, acc.count)
      BY DEF t
    <3>2. /\ Stores(TailCleared(t, acc.count), acc.capacity, acc.neg, m, q)
          /\ \A j \in Nat : (j <= m \/ j <= acc.count) /\ ZeroFrom(t, j)
                              => ZeroFrom(TailCleared(t, acc.count), m)
      BY <1>1, <2>2, TailClearedStores
    <3>3. QED
      BY <1>1, <2>3, <3>1, <3>2
  <2>5. kept.neg = acc.neg /\ kept.capacity = acc.capacity /\ kept.count = m /\ IsObject(kept)
        /\ MagnitudeOf(kept) = q /\ Room(kept) = Room(acc) /\ m \in 1 .. Room(kept)
    BY <2>4 DEF Stores, Room, IsObject
  <2>6. CASE ~RoundsDown(v, s, acc.neg)
    <3>1. Returns(">>=", Number(s), kept)
      <4>1. s # 0 /\ ~(n <= 0)
        BY <1>9, <1>5b
      <4> HIDE DEF kept, n, q
      <4>2. QED
        BY <1>5a, <2>6, <4>1, Zenon
    <3>2. Settles(kept, acc.neg, q) /\ IntegerOf(acc.neg, q) = mean
      BY <1>4, <2>4, <2>5, <2>6 DEF Settles
    <3> HIDE DEF kept, q
    <3>3. QED
      BY <2>4, <2>5, <3>1, <3>2, ReturnsGood DEF mean
  <2>7. CASE RoundsDown(v, s, acc.neg)
    <3>1. IncrementMagnitude(">>=", Number(s), kept)
      <4>1. s # 0 /\ ~(n <= 0)
        BY <1>9, <1>5b
      <4> HIDE DEF kept, n, q
      <4>2. QED
        BY <1>5a, <2>7, <4>1, Zenon
    <3>2. Carries(">>=", Number(s), kept, m, q + 1, acc.neg)
      BY <2>5, <3>1 DEF IncrementMagnitude
    <3>3. acc.neg /\ mean = IntegerOf(acc.neg, q + 1)
      BY <1>4, <2>7
    <3> HIDE DEF kept, q, m, n
    <3>4. /\ q + 1 \in Nat /\ q + 1 # 0 /\ q + 1 < Power(Base, m + 1)
          /\ m = 1 \/ Power(Base, m - 1) <= q + 1
      <4>1. m \in Nat \ {0} /\ q < Power(Base, m) /\ (m = 1 \/ Power(Base, m - 1) <= q)
        BY <2>1, LimbsNeededHas DEF HasLimbs, m
      <4>2. QED
        BY <2>1, <4>1, OneMore
    <3>5. m < Room(kept) \/ q + 1 < Power(Base, m)
      <4>1. m <= acc.count
        <5>1. q < Power(Base, acc.count)
          <6>1. Power(Base, acc.count) \in Nat
            BY <1>1, BasePower
          <6>2. QED
            BY <2>1, <6>1
        <5>2. QED
          BY <1>1, <2>1, <5>1, LimbsNeededBelow DEF m
      <4>2. m < Room(acc) \/ m = acc.count
        BY <1>1, <2>5, <4>1
      <4>3. QED
        BY <2>1, <2>5, <4>2
    <3>6. \E r : /\ Returns(">>=", Number(s), r) /\ Settles(r, acc.neg, q + 1)
                 /\ ZeroFrom(kept, m) => ZeroFrom(r, r.count)
                 /\ r.capacity = acc.capacity
      <4>1. PICK w \in Nat : w = q + 1
        BY <3>4
      <4>2. PICK j \in 1 .. Room(kept) : j = m
        BY <2>5
      <4>3. /\ w < Power(Base, j + 1) /\ (j = 1 \/ Power(Base, j - 1) <= w) /\ w # 0
            /\ Carries(">>=", Number(s), kept, j, w, acc.neg)
            /\ Stores(kept, acc.capacity, acc.neg, j, q)
        BY <2>4, <3>2, <3>4, <4>1, <4>2
      <4>4. ~(w >= Power(Base, j) /\ j = Room(kept)) /\ (w < Power(Base, j) \/ j < Room(kept))
        <5>1. j \in Nat /\ Power(Base, j) \in Nat /\ Room(kept) \in Nat
          BY <1>1, <2>5, BasePower
        <5>2. QED
          BY <3>5, <4>1, <4>2, <5>1
      <4>5. QED
        BY <1>1, <4>1, <4>2, <4>3, <4>4, CarriesFacts
    <3>7. PICK r : /\ Returns(">>=", Number(s), r) /\ Settles(r, acc.neg, q + 1)
                   /\ ZeroFrom(kept, m) => ZeroFrom(r, r.count)
                   /\ r.capacity = acc.capacity
      BY <3>6
    <3>8. QED
      BY <2>4, <3>3, <3>7, ReturnsGood DEF mean
  <2>8. QED
    BY <2>6, <2>7
<1>10. QED
  BY <1>6, <1>8, <1>9, <1>5a, <1>5b

(***************************************************************************)
(* Bitwise operations.                                                     *)
(***************************************************************************)

(* The limbs a bitwise operation leaves, and what they amount to. *)
LEMMA BitwiseMagnitude ==
  ASSUME NEW size \in Nat, NEW limbs, IsArray(limbs, size), NEW n \in 1 .. size,
         NEW f \in 0 .. Power(Base, n) - 1, NEW negout \in BOOLEAN,
         NEW c \in Nat, c = n + (IF negout /\ f = 0 THEN 1 ELSE 0), c <= size,
         \A i \in 0 .. n - 1 : limbs[i] = Digit(SignedValue(negout, f), i),
         negout /\ f = 0 => limbs[n] = 1
  PROVE  /\ c \in 1 .. size /\ IsWritten(limbs, c)
         /\ Magnitude(limbs, c) = IF negout THEN Power(Base, n) - f ELSE f
<1>1. PICK u \in Int : u = SignedValue(negout, f)
  <2>1. SignedValue(negout, f) \in Int
    BY DEF SignedValue
  <2>2. QED
    BY <2>1
<1>2. PICK p \in Nat \ {0} : p = Power(Base, n)
  BY BasePower
<1>3. n \in Nat /\ n + 1 \in Nat /\ f \in Nat /\ f < p
  BY <1>2
<1>4. PICK b \in Nat \ {0} : b = Base
  BY BaseType
<1>5. DigitsBelow(b, limbs, n) /\ FromDigits(b, limbs, n) = u % Power(b, n)
  <2>1. \A i \in 0 .. n - 1 : limbs[i] = (u \div Power(b, i)) % b
    BY <1>1, <1>4 DEF Digit
  <2>2. QED
    BY <1>3, <2>1, DigitsOfNumber
<1>6. Magnitude(limbs, n) = u % p
  BY <1>2, <1>4, <1>5 DEF Magnitude
<1>7. IsWritten(limbs, n)
  BY <1>4, <1>5 DEF DigitsBelow, IsWritten
<1>8. CASE negout /\ f = 0
  <2>1. c = n + 1 /\ limbs[n] = 1
    BY <1>8
  <2>2. u % p = 0
    BY <1>1, <1>8 DEF SignedValue
  <2>3. DigitsUpTo(limbs, n + 1)
    BY <2>1, ArrayDigits
  <2>4. FromDigits(Base, limbs, n + 1) = FromDigits(Base, limbs, n) + limbs[n] * p
    BY <1>2, <1>3, <2>3, BaseType, FromDigitsStep
  <2>5. IsWritten(limbs, n + 1)
    BY <1>3, <1>7, <2>1, BaseType DEF IsWritten
  <2>6. Magnitude(limbs, n + 1) = p
    BY <1>2, <1>6, <2>1, <2>2, <2>4 DEF Magnitude
  <2>7. QED
    BY <1>2, <1>8, <2>1, <2>5, <2>6
<1>9. CASE ~(negout /\ f = 0)
  <2>1. c = n
    BY <1>3, <1>9
  <2>2. u % p = IF negout THEN p - f ELSE f
    <3>1. CASE negout
      <4>1. u = p * (-1) + (p - f) /\ p - f \in 0 .. p - 1 /\ -1 \in Int
        BY <1>1, <1>3, <1>9, <3>1 DEF SignedValue
      <4>2. QED
        BY <3>1, <4>1, DivUnique
    <3>2. CASE ~negout
      <4>1. u = f /\ u \in 0 .. p - 1
        BY <1>1, <1>3, <3>2 DEF SignedValue
      <4>2. QED
        BY <3>2, <4>1, DivSmall
    <3>3. QED
      BY <3>1, <3>2
  <2>3. QED
    BY <1>2, <1>3, <1>6, <1>7, <2>1, <2>2
<1>10. QED
  BY <1>8, <1>9

(* The object a bitwise operation leaves before it is trimmed and signed. *)
BitwiseResult(g, old, room, e) ==
  LET zeroed == [g EXCEPT !.limbs = Cleared(@, old, room)]
      extra  == IF e.extra THEN 1 ELSE 0
  IN  [zeroed EXCEPT !.count = e.size + extra,
         !.limbs = [i \in DOMAIN @ |-> IF i < e.size THEN e.limbs[i]
                      ELSE IF e.extra /\ i = e.size THEN 1 ELSE @[i]]]

LEMMA BitwiseResultStores ==
  ASSUME NEW g, IsObject(g), NEW old \in Nat, NEW n \in Nat \ {0}, NEW room \in Nat,
         room <= Room(g), NEW negout \in BOOLEAN, n + (IF negout THEN 1 ELSE 0) <= room,
         NEW f \in 0 .. Power(Base, n) - 1, NEW e,
         e = [limbs |-> [i \in 0 .. n - 1 |-> Digit(SignedValue(negout, f), i)], size |-> n,
              extra |-> negout /\ f = 0]
  PROVE  \E c \in Nat : Stores(BitwiseResult(g, old, room, e), g.capacity, g.neg, c,
                               IF negout THEN Power(Base, n) - f ELSE f)
<1> DEFINE z == Cleared(g.limbs, old, room)
           c == n + (IF negout /\ f = 0 THEN 1 ELSE 0)
           l == [i \in 0 .. Room(g) - 1 |-> IF i < n THEN Digit(SignedValue(negout, f), i)
                   ELSE IF negout /\ f = 0 /\ i = n THEN 1 ELSE z[i]]
           r == [capacity |-> g.capacity, neg |-> g.neg, count |-> c, limbs |-> l]
<1>1. /\ IsArray(g.limbs, Room(g)) /\ Room(g) \in Nat /\ g.neg \in BOOLEAN
      /\ g = [capacity |-> g.capacity, neg |-> g.neg, count |-> g.count, limbs |-> g.limbs]
      /\ g.capacity \in Capacities
  BY ObjectFacts, Constants DEF IsObject
<1>2. PICK size \in Nat : size = Room(g)
  BY <1>1
<1>3. IsArray(z, size)
  <2>1. PICK limbs : limbs = g.limbs
    OBVIOUS
  <2>2. IsArray(Cleared(limbs, old, room), size)
    BY <1>1, <1>2, <2>1, ClearedFacts
  <2>3. QED
    BY <2>1, <2>2
<1>4. DOMAIN z = 0 .. size - 1
  BY <1>3 DEF IsArray
<1>5. e.size = n /\ e.extra = (negout /\ f = 0)
      /\ \A i \in 0 .. n - 1 : e.limbs[i] = Digit(SignedValue(negout, f), i)
  OBVIOUS
<1>6. BitwiseResult(g, old, room, e) = r
  <2> DEFINE zeroed == [g EXCEPT !.limbs = z]
             m == [i \in DOMAIN z |-> IF i < e.size THEN e.limbs[i]
                     ELSE IF e.extra /\ i = e.size THEN 1 ELSE z[i]]
  <2>1. zeroed = [capacity |-> g.capacity, neg |-> g.neg, count |-> g.count, limbs |-> z]
    <3> HIDE DEF z
    <3>1. QED
      BY <1>1
  <2>2. m = l
    <3> HIDE DEF z
    <3>1. ASSUME NEW i \in 0 .. size - 1
          PROVE  (IF i < e.size THEN e.limbs[i] ELSE IF e.extra /\ i = e.size THEN 1 ELSE z[i])
                   = (IF i < n THEN Digit(SignedValue(negout, f), i)
                      ELSE IF negout /\ f = 0 /\ i = n THEN 1 ELSE z[i])
      <4>1. i < n => i \in 0 .. n - 1
        OBVIOUS
      <4> HIDE DEF m, l, r, c
      <4>2. QED
        BY <1>5, <4>1
    <3>2. QED
      BY <1>2, <1>4, <3>1
  <2>3. e.size + (IF e.extra THEN 1 ELSE 0) = c
    BY <1>5
  <2>4. BitwiseResult(g, old, room, e)
          = [zeroed EXCEPT !.count = e.size + (IF e.extra THEN 1 ELSE 0), !.limbs = m]
    <3> HIDE DEF l, c, r
    <3>1. zeroed.limbs = z
      <4> HIDE DEF z
      <4>1. QED
        BY <2>1
    <3>2. QED
      BY <3>1 DEF BitwiseResult
  <2> HIDE DEF zeroed, m, l, c
  <2>5. QED
    BY <2>1, <2>2, <2>3, <2>4
<1> HIDE DEF z
<1>7. c \in Nat /\ c <= size /\ n \in 1 .. size /\ (negout /\ f = 0 => n < size)
  BY <1>2
<1>8. IsArray(l, size)
  <2>1. ASSUME NEW i \in 0 .. size - 1 PROVE l[i] \in 0 .. Base
    <3>1. z[i] \in 0 .. Base
      BY <1>3 DEF IsArray
    <3>2. Digit(SignedValue(negout, f), i) \in 0 .. Base
      <4>1. SignedValue(negout, f) \in Int /\ i \in Nat
        BY DEF SignedValue
      <4>2. Digit(SignedValue(negout, f), i) \in 0 .. Base - 1
        BY <4>1, DigitType
      <4>3. QED
        BY <4>2, BaseType
    <3>3. 1 \in 0 .. Base
      BY BaseType
    <3>4. QED
      BY <1>2, <3>1, <3>2, <3>3
  <2>2. QED
    BY <1>2, <2>1 DEF IsArray
<1>9. /\ \A i \in 0 .. n - 1 : l[i] = Digit(SignedValue(negout, f), i)
      /\ negout /\ f = 0 => l[n] = 1
  BY <1>2, <1>7
<1> HIDE DEF l
<1>10. /\ c \in 1 .. size /\ IsWritten(l, c)
       /\ Magnitude(l, c) = IF negout THEN Power(Base, n) - f ELSE f
  <2>1. PICK k \in Nat : k = c
    BY <1>7
  <2> HIDE DEF c
  <2>2. k = n + (IF negout /\ f = 0 THEN 1 ELSE 0)
    BY <2>1 DEF c
  <2>3. k \in 1 .. size /\ IsWritten(l, k)
        /\ Magnitude(l, k) = IF negout THEN Power(Base, n) - f ELSE f
    BY <1>7, <1>8, <1>9, <2>1, <2>2, BitwiseMagnitude
  <2>4. QED
    BY <2>1, <2>3
<1> HIDE DEF c
<1>11. IsObject(r)
  <2>1. size = IF g.capacity = 0 THEN InplaceCapacity ELSE g.capacity
    BY <1>2 DEF Room
  <2>2. QED
    BY <1>1, <1>8, <1>10, <2>1, ObjectOf
<1>12. Stores(r, g.capacity, g.neg, c, IF negout THEN Power(Base, n) - f ELSE f)
  BY <1>10, <1>11 DEF Stores, MagnitudeOf
<1>13. QED
  BY <1>6, <1>7, <1>12

(* The limb count of the result, which never passes that of both operands. *)
LEMMA ResultSizeFacts ==
  ASSUME NEW op, NEW negl, NEW negr, NEW m, NEW k
  PROVE  ResultSize(op, negl, negr, m, k) \in {m, k}
  BY DEF ResultSize

LEMMA BitwiseNames ==
  ASSUME NEW op \in DOMAIN BitwiseOps
  PROVE  /\ op \in Ops /\ BitwiseOps[op] \in Bitwise
         /\ \A x, rhs, y, bits : y = IntegerOf(rhs.neg, rhs.mag) /\ bits = LimbBits * MaxLimbs + 1
              => Meaning(BitwiseOps[op], x, rhs) = BitwiseMeaning(op, x, y, bits)
<1>1. op \in Ops /\ BitwiseOps["and"] = "&=" /\ BitwiseOps["or"] = "|=" /\ BitwiseOps["xor"] = "^="
  BY DEF BitwiseOps, Ops
<1>2. CASE op = "and"
  BY <1>1, <1>2, OperandMeaning DEF Bitwise
<1>3. CASE op = "or"
  BY <1>1, <1>3, OperandMeaning DEF Bitwise
<1>4. CASE op = "xor"
  BY <1>1, <1>4, OperandMeaning DEF Bitwise
<1>5. QED
  BY <1>1, <1>2, <1>3, <1>4 DEF Ops

(* Enough bits for limbs of every object. *)
LEMMA EnoughBits ==
  ASSUME NEW n \in Nat, n <= MaxLimbs
  PROVE  LimbBits * MaxLimbs + 1 \in Nat /\ LimbBits * n <= LimbBits * MaxLimbs + 1
<1>1. PICK b \in Nat, m \in Nat : b = LimbBits /\ m = MaxLimbs
  BY Constants
<1>2. n * b <= m * b
  BY <1>1, MulPos
<1>3. n * b = b * n /\ m * b = b * m /\ b * m \in Nat
  OBVIOUS
<1>4. QED
  BY <1>1, <1>2, <1>3

LEMMA BitwiseAssignGood ==
  ASSUME Canonical(acc), NEW rhs, IsOperand(rhs), NEW op \in DOMAIN BitwiseOps,
         BitwiseAssign(op, rhs)
  PROVE  GoodStep
<1> DEFINE v == MagnitudeOf(acc)
           w == rhs.mag
           old == acc.count
           name == BitwiseOps[op]
           rlimbs == [i \in 0 .. rhs.size - 1 |-> Digit(w, i)]
           eval == EvalBitwise(op, acc.limbs, old, acc.neg, rlimbs, rhs.size, rhs.neg)
           n == ResultSize(op, acc.neg, rhs.neg, old, rhs.size)
           negout == ResultNegative(op, acc.neg, rhs.neg)
           x == SignedValue(acc.neg, v)
           y == SignedValue(rhs.neg, w)
           f == BitsOp(op, x, y, LimbBits * n)
           room == n + (IF negout THEN 1 ELSE 0)
           bits == LimbBits * MaxLimbs + 1
           mag == IF negout THEN Power(Base, n) - f ELSE f
           result(g) == SignedUnlessZero(Trimmed(BitwiseResult(g, old, room, eval)), negout)
<1>1. /\ IsObject(acc) /\ v \in Nat /\ acc.neg \in BOOLEAN /\ old \in Nat \ {0}
      /\ Stores(acc, acc.capacity, acc.neg, old, v) /\ (acc.neg => v # 0)
      /\ old \in 1 .. Room(acc) /\ Room(acc) \in 1 .. MaxLimbs /\ MaxLimbs \in Nat
      /\ v < Power(Base, old)
  BY CanonicalFacts
<1>2. /\ w \in Nat /\ rhs.neg \in BOOLEAN /\ rhs.size \in Nat \ {0} /\ rhs.size <= MaxLimbs
      /\ (rhs.neg => w # 0) /\ w < Power(Base, rhs.size)
  BY <1>1 DEF IsOperand
<1>3. op \in Ops /\ name \in Bitwise /\ negout \in BOOLEAN
  <2>1. op \in Ops /\ name \in Bitwise
    BY BitwiseNames
  <2>2. QED
    BY <1>1, <1>2, <2>1, BitOpFacts
<1>4. n \in Nat \ {0} /\ n <= MaxLimbs /\ room \in Nat
  <2>1. n \in {old, rhs.size}
    BY ResultSizeFacts
  <2> HIDE DEF n, negout
  <2>2. QED
    BY <1>1, <1>2, <2>1
<1>5. x \in Int /\ y \in Int
  BY <1>1, <1>2 DEF SignedValue
<1>6. bits \in Nat /\ LimbBits * n <= bits
  BY <1>4, EnoughBits
<1>7. f \in 0 .. Power(Base, n) - 1
      /\ BitwiseMeaning(op, x, y, bits) = f - (IF negout THEN Power(Base, n) ELSE 0)
  <2> HIDE DEF x, y, bits, v, w, old, n, negout
  <2>1. QED
    BY <1>1, <1>2, <1>3, <1>4, <1>5, <1>6, BitwiseMeans, SMTT(60)
       DEF x, y, n, negout
<1>8. Shows(acc.limbs, old, v) /\ Shows(rlimbs, rhs.size, w)
  <2>1. PICK size, limbs : size \in Nat /\ size = Room(acc) /\ limbs = acc.limbs
    BY <1>1
  <2>2. IsArray(limbs, size) /\ old \in 0 .. size /\ IsWritten(limbs, old)
    BY <1>1, <2>1, ObjectFacts DEF Stores
  <2>3. Shows(limbs, old, Magnitude(limbs, old))
    BY <2>1, <2>2, ShowsMagnitude
  <2>4. Shows(rlimbs, rhs.size, w)
    BY <1>2, ShowsDigits
  <2>5. QED
    BY <2>1, <2>3, <2>4 DEF MagnitudeOf
<1>9. f \in Nat
  <2>1. Power(Base, n) \in Nat
    BY <1>4, BasePower
  <2> HIDE DEF f, n
  <2>2. QED
    BY <1>7, <2>1
<1>10. eval = [limbs |-> [i \in 0 .. n - 1 |-> Digit(SignedValue(negout, f), i)], size |-> n,
               extra |-> negout /\ f = 0]
  <2>1. /\ n = ResultSize(op, acc.neg, rhs.neg, old, rhs.size)
        /\ negout = ResultNegative(op, acc.neg, rhs.neg)
        /\ f = BitsOp(op, SignedValue(acc.neg, v), SignedValue(rhs.neg, w), LimbBits * n)
        /\ eval = EvalBitwise(op, acc.limbs, old, acc.neg, rlimbs, rhs.size, rhs.neg)
    OBVIOUS
  <2>2. n \in Nat
    BY <1>4
  <2> HIDE DEF v, w, old, rlimbs, n, negout, f, x, y, eval
  <2>3. EvalBitwise(op, acc.limbs, old, acc.neg, rlimbs, rhs.size, rhs.neg)
          = [limbs |-> [i \in 0 .. n - 1 |-> Digit(SignedValue(negout, f), i)], size |-> n,
             extra |-> negout /\ f = 0]
    BY <1>1, <1>2, <1>3, <1>8, <1>9, <2>1, <2>2, EvalBitwiseFacts, SMTT(60)
  <2>4. QED
    BY <2>1, <2>3
<1>11. Requests(name, rhs, acc, room, result(Grown(acc, room)))
  <2>1. eval.size = n
    BY <1>10
  <2>2. BitwiseInPlace(op, rhs)
    BY DEF BitwiseAssign
  <2>3. Requests(name, rhs, acc, eval.size + (IF negout THEN 1 ELSE 0),
                 SignedUnlessZero(Trimmed(BitwiseResult(
                   Grown(acc, eval.size + (IF negout THEN 1 ELSE 0)), old,
                   eval.size + (IF negout THEN 1 ELSE 0), eval)), negout))
    BY <2>2 DEF BitwiseInPlace, BitwiseResult
  <2> HIDE DEF eval, negout, n, old, name
  <2>4. QED
    BY <2>1, <2>3
<1> HIDE DEF v, w, old, rlimbs, eval, n, negout, x, y, f, room, bits, name
<1>12. IntegerOf(negout, mag) = Meaning(name, ValueOf(acc), rhs)
  <2>1. ValueOf(acc) = x /\ y = IntegerOf(rhs.neg, rhs.mag)
    BY DEF ValueOf, IntegerOf, SignedValue, x, y, v, w
  <2>2. Meaning(name, x, rhs) = BitwiseMeaning(op, x, y, bits)
    BY <2>1, BitwiseNames DEF name, bits
  <2>3. Power(Base, n) \in Nat
    BY <1>4, BasePower
  <2>4. IntegerOf(negout, mag) = f - (IF negout THEN Power(Base, n) ELSE 0)
    BY <1>3, <1>9, <2>3 DEF IntegerOf
  <2>5. QED
    BY <1>7, <2>1, <2>2, <2>4
<1>13. ~StaysInPlace(name, rhs) /\ name \notin {"<<=", "++", "--"}
  BY <1>3 DEF StaysInPlace, Bitwise
<1>14. ASSUME Attainable(acc, room)
       PROVE  Settles(result(Grown(acc, room)), negout, mag)
  <2> DEFINE g == Grown(acc, room)
             r == BitwiseResult(g, old, room, eval)
             t == Trimmed(r)
  <2>1. Stores(g, g.capacity, acc.neg, old, v) /\ room <= Room(g)
    BY <1>1, <1>4, <1>14, GrownStores
  <2> HIDE DEF g
  <2>2. IsObject(g)
    BY <2>1 DEF Stores
  <2>3. PICK c \in Nat : Stores(r, g.capacity, g.neg, c, mag)
    <3>1. n + (IF negout THEN 1 ELSE 0) <= room
      BY <1>3, <1>4 DEF room
    <3>2. QED
      BY <1>1, <1>3, <1>4, <1>7, <1>10, <2>1, <2>2, <3>1, BitwiseResultStores
  <2>4. mag \in Nat /\ (negout => mag # 0)
    <3>1. Power(Base, n) \in Nat
      BY <1>4, BasePower
    <3>2. QED
      BY <1>3, <1>7, <3>1
  <2> HIDE DEF r, mag
  <2>5. Stores(t, g.capacity, g.neg, LimbsNeeded(mag), mag)
    BY <2>3, TrimmedStores
  <2> HIDE DEF t
  <2>6. PICK sign \in BOOLEAN : sign = negout /\ (sign <=> negout /\ mag # 0)
    BY <1>3, <2>4
  <2>7. Stores(SignedUnlessZero(t, negout), g.capacity, sign, LimbsNeeded(mag), mag)
    BY <1>3, <2>5, <2>6, SignedUnlessZeroStores
  <2>8. Settles(SignedUnlessZero(t, negout), negout, mag)
    BY <2>4, <2>6, <2>7 DEF Settles, Stores
  <2>9. QED
    BY <2>8 DEF t, r, g
<1> HIDE DEF mag, result
<1>15. QED
  <2>1. PICK s : s = result(Grown(acc, room))
    OBVIOUS
  <2>2. Requests(name, rhs, acc, room, s) /\ (Attainable(acc, room) => Settles(s, negout, mag))
    BY <1>11, <1>14, <2>1
  <2>3. QED
    BY <1>1, <1>3, <1>4, <1>12, <1>13, <2>2, RequestsGood

(* An object with itself: nothing but the exclusive or changes anything. *)
LEMMA BitwiseAssignSelfGood ==
  ASSUME Canonical(acc), NEW op \in DOMAIN BitwiseOps, BitwiseAssignSelf(op)
  PROVE  GoodStep
<1> DEFINE v == MagnitudeOf(acc)
           name == BitwiseOps[op]
           bits == LimbBits * MaxLimbs + 1
<1>1. /\ IsObject(acc) /\ v \in Nat /\ acc.neg \in BOOLEAN /\ Settles(acc, acc.neg, v)
      /\ acc.count \in 1 .. Room(acc) /\ Room(acc) \in 1 .. MaxLimbs /\ MaxLimbs \in Nat
      /\ v < Power(Base, acc.count)
  BY CanonicalFacts DEF Settles
<1>2. op \in Ops /\ name \in Bitwise
  BY BitwiseNames
<1>3. PICK rhs : rhs = Self
  OBVIOUS
<1>4. PICK x \in Int : x = IntegerOf(acc.neg, v)
  BY <1>1, IntegerFacts
<1>5. ValueOf(acc) = x /\ x = IntegerOf(rhs.neg, rhs.mag)
  BY <1>3, <1>4 DEF Self, ValueOf
<1>6. -Power(2, bits) <= x /\ x < Power(2, bits) /\ bits \in Nat
  <2>1. bits \in Nat /\ LimbBits * acc.count <= bits /\ LimbBits * acc.count \in Nat
    BY <1>1, Constants, EnoughBits
  <2>2. Power(2, LimbBits * acc.count) <= Power(2, bits)
    BY <2>1, PowerGrows
  <2>3. Power(2, LimbBits * acc.count) = Power(Base, acc.count)
    <3>1. LimbBits \in Nat /\ acc.count \in Nat
      BY <1>1, Constants
    <3>2. QED
      BY <3>1, PowerPower, BaseIsPower
  <2>4. Power(Base, acc.count) \in Nat /\ Power(2, bits) \in Nat
    <3>1. acc.count \in Nat
      BY <1>1
    <3>2. Power(Base, acc.count) \in Nat
      BY <3>1, BasePower
    <3>3. Power(2, bits) \in Nat
      BY <2>1, PowerPositive
    <3>4. QED
      BY <3>2, <3>3
  <2> HIDE DEF bits, v
  <2>5. v < Power(2, bits)
    BY <1>1, <2>2, <2>3, <2>4
  <2>6. QED
    BY <1>1, <1>4, <2>1, <2>4, <2>5 DEF IntegerOf
<1>7. Meaning(name, x, rhs) = IF op = "xor" THEN 0 ELSE x
  <2>1. Meaning(name, x, rhs) = BitwiseMeaning(op, x, x, bits)
    BY <1>5, BitwiseNames
  <2>2. QED
    BY <1>2, <1>6, <2>1, BitwiseSame
<1>8. CASE op = "xor"
  <2>1. Returns(name, rhs, Zeroed(acc))
    BY <1>3, <1>8 DEF BitwiseAssignSelf
  <2>2. QED
    BY <1>1, <1>5, <1>7, <1>8, <2>1, ZeroedGood
<1>9. CASE op # "xor"
  <2>1. Returns(name, rhs, acc)
    BY <1>3, <1>9 DEF BitwiseAssignSelf
  <2>2. IntegerOf(acc.neg, v) = Meaning(name, ValueOf(acc), rhs)
    BY <1>4, <1>5, <1>7, <1>9
  <2>3. QED
    BY <1>1, <1>2, <2>1, <2>2, ReturnsGood
<1>10. QED
  BY <1>8, <1>9

(***************************************************************************)
(* The theorems.                                                           *)
(***************************************************************************)

(* acc is always an object, and a canonical one until a call throws. *)
Inv ==
  /\ IsObject(acc)
  /\ Running => Canonical(acc)

LEMMA InitCanonical == Init => Inv
<1> SUFFICES ASSUME acc = InplaceZero PROVE Canonical(InplaceZero)
  BY DEF Inv, Init, Canonical
<1>1. IsObject(InplaceZero) /\ InplaceZero.count = 1 /\ InplaceZero.neg = FALSE
  BY InplaceZeroFacts
<1>2. MagnitudeOf(InplaceZero) = 0 /\ IsWritten(InplaceZero.limbs, 1)
  BY InplaceZeroMagnitude
<1>3. LimbsNeeded(0) = 1
  BY BaseType, LimbsOfSmall
<1>4. QED
  BY <1>1, <1>2, <1>3 DEF Canonical, Settles, Stores

(* Every step is good: one fact for every action. *)
LEMMA NextGood == ASSUME Inv, Next PROVE GoodStep
<1>1. CASE OperandStep
  <2>1. PICK rhs \in Operands :
          \/ AssignInteger(rhs)
          \/ AddAssign(rhs)
          \/ SubAssign(rhs)
          \/ MulAssign(rhs)
          \/ \E op \in {"/=", "%="} : DivideAssign(op, rhs)
          \/ \E op \in DOMAIN BitwiseOps : BitwiseAssign(op, rhs)
    BY <1>1 DEF OperandStep
  <2>2. IsOperand(rhs)
    BY OperandsAreOperands
  <2>3. Canonical(acc)
    BY <2>1 DEF Inv, AssignInteger, AddAssign, SubAssign, MulAssign, DivideAssign, BitwiseAssign
  <2>4. CASE AssignInteger(rhs)
    BY <2>2, <2>3, <2>4, AssignIntegerGood
  <2>5. CASE AddAssign(rhs) \/ SubAssign(rhs)
    BY <2>2, <2>3, <2>5, AddAssignGood
  <2>6. CASE MulAssign(rhs)
    BY <2>2, <2>3, <2>6, MultiplyGood DEF MulAssign
  <2>7. ASSUME NEW op \in {"/=", "%="}, DivideAssign(op, rhs) PROVE GoodStep
    BY <2>2, <2>3, <2>7, DivideAssignGood
  <2>8. ASSUME NEW op \in DOMAIN BitwiseOps, BitwiseAssign(op, rhs) PROVE GoodStep
    BY <2>2, <2>3, <2>8, BitwiseAssignGood
  <2>9. QED
    BY <2>1, <2>4, <2>5, <2>6, <2>7, <2>8
<1>2. CASE SelfStep
  <2>1. Canonical(acc)
    BY <1>2 DEF Inv, SelfStep, AddAssignSelf, AddAssign, SubAssignSelf, MulAssignSelf, MulAssign,
                DivideAssignSelf, BitwiseAssignSelf
  <2>2. PICK rhs : rhs = Self /\ IsOperand(rhs)
    BY <2>1, SelfIsOperand
  <2>3. CASE AddAssignSelf
    BY <2>1, <2>2, <2>3, AddAssignGood DEF AddAssignSelf
  <2>4. CASE SubAssignSelf
    BY <2>1, <2>4, SubAssignSelfGood
  <2>5. CASE MulAssignSelf
    BY <2>1, <2>2, <2>5, MultiplyGood DEF MulAssignSelf, MulAssign
  <2>6. ASSUME NEW op \in {"/=", "%="}, DivideAssignSelf(op) PROVE GoodStep
    BY <2>1, <2>6, DivideAssignSelfGood
  <2>7. ASSUME NEW op \in DOMAIN BitwiseOps, BitwiseAssignSelf(op) PROVE GoodStep
    BY <2>1, <2>7, BitwiseAssignSelfGood
  <2>8. QED
    BY <1>2, <2>3, <2>4, <2>5, <2>6, <2>7 DEF SelfStep
<1>3. CASE UnaryStep
  <2>1. Canonical(acc)
    BY <1>3 DEF Inv, UnaryStep, Increment, Decrement, Negate, ShiftLeft, ShiftRight, Reserve
  <2>2. CASE Increment
    BY <2>1, <2>2, IncrementGood
  <2>3. CASE Decrement
    BY <2>1, <2>3, DecrementGood
  <2>4. CASE Negate
    BY <2>1, <2>4, NegateGood
  <2>5. ASSUME NEW s \in 0 .. MaxShift, ShiftLeft(s) \/ ShiftRight(s) PROVE GoodStep
    <3>1. s \in Nat
      OBVIOUS
    <3>2. QED
      BY <2>1, <2>5, <3>1, ShiftLeftGood, ShiftRightGood
  <2>6. ASSUME NEW n \in 0 .. MaxLimbs + 1, Reserve(n) PROVE GoodStep
    BY <2>1, <2>6, ReserveGood
  <2>7. QED
    BY <1>3, <2>2, <2>3, <2>4, <2>5, <2>6 DEF UnaryStep
<1>4. QED
  BY <1>1, <1>2, <1>3 DEF Next

LEMMA StepsCanonical == Inv /\ [Next]_vars => Inv'
<1>1. ASSUME Inv, Next PROVE Inv'
  <2>1. GoodStep
    BY <1>1, NextGood
  <2>2. IsObject(acc') /\ (call'.outcome = "ok" => Canonical(acc'))
    BY <2>1 DEF GoodStep
  <2>3. QED
    BY <2>2 DEF Inv, Running, Canonical, IsObject, Settles, Stores, MagnitudeOf, Room
<1>2. ASSUME Inv, UNCHANGED vars PROVE Inv'
  BY <1>2 DEF vars, Inv, Running, Canonical, IsObject, Settles, Stores, MagnitudeOf, Room
<1>3. QED
  BY <1>1, <1>2

(* The object is canonical whenever no call has thrown, and always an object. *)
THEOREM StaysObject == Spec => []Inv
  BY InitCanonical, StepsCanonical, PTL DEF Spec

(* The count lies within the storage and, unless a call threw, its limbs were written. *)
THEOREM TypeCorrect == Spec => []TypeOK
<1>1. Inv => TypeOK
  BY ObjectFacts DEF Inv, TypeOK, IsObject, Capacities, IsArray, Canonical, Settles, Stores,
                     IsWritten, CountedLimbsWritten
<1>2. QED
  BY <1>1, StaysObject, PTL

(* No path forgets to trim the limbs or to clear the sign of zero. *)
THEOREM StaysCanonical == Spec => []CanonicalForm
<1>1. Inv => CanonicalForm
  BY DEF Inv, CanonicalForm, Canonical, Settles, Stores
<1>2. QED
  BY <1>1, StaysObject, PTL

(* A call that returns leaves exactly the integer its operator means. *)
THEOREM ResultsExact == Spec => ExactResult
<1>1. Inv /\ [Next]_vars =>
        [call'.outcome = "ok" => ValueOf(acc') = Meaning(call'.op, ValueOf(acc), call'.rhs)]_vars
  BY NextGood DEF GoodStep
<1>2. QED
  BY <1>1, StaysObject, PTL DEF Spec, ExactResult

(* Every call but the bitwise ones keeps the in-place tail zero. *)
THEOREM TailStaysZero == Spec => TailKept
<1>1. Inv /\ [Next]_vars =>
        [TailZero /\ call'.outcome = "ok" /\ call'.op \notin {"&=", "|=", "^="} => TailZero']_vars
  BY NextGood DEF GoodStep, TailZero, ZeroFrom, Bitwise
<1>2. QED
  BY <1>1, StaysObject, PTL DEF Spec, TailKept

(* A throw is harmless, or costs what the order of the steps makes it cost. *)
THEOREM FailuresCost == Spec => FailureCost
<1>1. Inv /\ [Next]_vars =>
        [call'.outcome # "ok" =>
           \/ acc' = acc
           \/ /\ call'.op \in {"+=", "-=", "++", "--", "*="}
              /\ LET exact == Abs(Meaning(call'.op, ValueOf(acc), call'.rhs))
                 IN  /\ exact >= Power(Base, acc'.count)
                     /\ MagnitudeOf(acc') = exact % Power(Base, acc'.count)
              /\ acc'.count = Room(acc')
           \/ /\ call'.op \in {"/=", "%="}
              /\ acc'.count = 1 /\ ~acc'.neg
              /\ acc'.limbs[0] # 0 => call'.op = "/=" /\ acc'.capacity # 0]_vars
  BY NextGood DEF GoodStep, CostsLittle
<1>2. QED
  BY <1>1, StaysObject, PTL DEF Spec, FailureCost

(* Right shifts, negation and division by one limb never allocate, so never throw. *)
THEOREM NeverThrowing == Spec => NeverThrows
<1>1. Inv /\ [Next]_vars =>
        [\/ call'.op \in {">>=", "negate"}
         \/ call'.op \in {"/=", "%="} /\ call'.rhs.mag < Base
         => call'.outcome = "ok" /\ acc'.capacity = acc.capacity]_vars
  BY NextGood DEF GoodStep, StaysInPlace
<1>2. QED
  BY <1>1, StaysObject, PTL DEF Spec, NeverThrows

(* Left shifts and steps by one throw only when the result does not fit the storage. *)
THEOREM ThrowsWhenFull == Spec => ThrowsOnlyWhenFull
<1>1. Inv /\ [Next]_vars =>
        [call'.op \in {"<<=", "++", "--"} /\ call'.outcome # "ok" =>
           LET exact == Meaning(call'.op, ValueOf(acc), call'.rhs)
           IN  LimbsNeeded(Abs(exact)) > Room(acc)]_vars
  BY NextGood DEF GoodStep
<1>2. QED
  BY <1>1, StaysObject, PTL DEF Spec, ThrowsOnlyWhenFull

=============================================================================
