--------------------------- MODULE LimbMemoryProofs ---------------------------
(***************************************************************************)
(* Proofs about LimbMemory: what is stored through one span, and what      *)
(* other spans show.                                                       *)
(***************************************************************************)

EXTENDS LimbMemory, LimbArithProofs, Sequences

(* A memory whose arrays have these sizes, and a span inside one of them. *)
Memory(mem, size) ==
  /\ mem = [x \in DOMAIN size |-> mem[x]]
  /\ \A x \in DOMAIN size : size[x] \in Nat /\ mem[x] \in [0 .. size[x] - 1 -> 0 .. Base - 1]

In(s, size) ==
  /\ s \in [area : DOMAIN size, at : Nat, n : Nat]
  /\ size[s.area] \in Nat /\ s.at + s.n <= size[s.area]

(* The limbs under a span. *)
Under(mem, s) == [i \in 0 .. s.n - 1 |-> Limb(mem, s, i)]

LEMMA UnderFacts ==
  ASSUME NEW mem, NEW size, Memory(mem, size), NEW s, In(s, size)
  PROVE  /\ IsArray(Under(mem, s), s.n) /\ IsWritten(Under(mem, s), s.n)
         /\ \A i \in 0 .. s.n - 1 : Under(mem, s)[i] = Limb(mem, s, i)
         /\ Value(mem, s) = Magnitude(Under(mem, s), s.n) /\ s.n \in Nat
<1>1. \A i \in 0 .. s.n - 1 : Limb(mem, s, i) \in 0 .. Base - 1
  <2>1. mem[s.area] \in [0 .. size[s.area] - 1 -> 0 .. Base - 1] /\ size[s.area] \in Nat
    BY DEF Memory, In
  <2>2. \A i \in 0 .. s.n - 1 : s.at + i \in 0 .. size[s.area] - 1
    BY <2>1 DEF In
  <2>3. QED
    BY <2>1, <2>2 DEF Limb
<1>2. \A i \in 0 .. s.n - 1 : Under(mem, s)[i] = Limb(mem, s, i)
  BY DEF Under
<1>3. Base \in Nat /\ s.n \in Nat
  BY BaseType DEF In
<1>4. IsArray(Under(mem, s), s.n)
  BY <1>1, <1>3 DEF IsArray, Under
<1>5. IsWritten(Under(mem, s), s.n)
  BY <1>1, <1>2, <1>3 DEF IsWritten
<1>6. QED
  BY <1>2, <1>3, <1>4, <1>5 DEF Value, Under

(* A span of n limbs shows a number of n limbs. *)
LEMMA ValueType ==
  ASSUME NEW mem, NEW size, Memory(mem, size), NEW s, In(s, size)
  PROVE  /\ Value(mem, s) \in Nat /\ Value(mem, s) < Power(Base, s.n)
         /\ Power(Base, s.n) \in Nat \ {0}
<1>1. s.n \in 0 .. s.n /\ s.n \in Nat
  BY DEF In
<1>2. Value(mem, s) \in Nat /\ Value(mem, s) < Power(Base, s.n)
  BY <1>1, UnderFacts, MagnitudeType
<1>3. QED
  BY <1>1, <1>2, BasePower

(* What a store leaves in its own array, limb by limb, and in the others. *)
LEMMA StoreLimbs ==
  ASSUME NEW mem, NEW size, Memory(mem, size), NEW s, In(s, size), NEW v \in Int
  PROVE  /\ Memory(Store(mem, s, v), size)
         /\ \A x \in DOMAIN size : x # s.area => Store(mem, s, v)[x] = mem[x]
         /\ \A i \in 0 .. size[s.area] - 1 :
              Store(mem, s, v)[s.area][i]
                = IF s.at <= i /\ i < s.at + s.n THEN Digit(v, i - s.at) ELSE mem[s.area][i]
<1> DEFINE array == [i \in DOMAIN mem[s.area] |->
                       IF s.at <= i /\ i < s.at + s.n THEN Digit(v, i - s.at)
                                                      ELSE mem[s.area][i]]
<1>1. s.area \in DOMAIN size /\ s.at \in Nat /\ s.n \in Nat
  BY DEF In
<1>2. mem[s.area] \in [0 .. size[s.area] - 1 -> 0 .. Base - 1] /\ size[s.area] \in Nat
  BY <1>1 DEF Memory
<1>3. DOMAIN mem[s.area] = 0 .. size[s.area] - 1
  BY <1>2
<1>4. \A i \in 0 .. size[s.area] - 1 :
        (IF s.at <= i /\ i < s.at + s.n THEN Digit(v, i - s.at) ELSE mem[s.area][i])
          \in 0 .. Base - 1
  <2> TAKE i \in 0 .. size[s.area] - 1
  <2>1. CASE s.at <= i /\ i < s.at + s.n
    <3>1. i - s.at \in Nat
      BY <1>1, <1>2, <2>1
    <3>2. QED
      BY <2>1, <3>1, DigitType
  <2>2. CASE ~(s.at <= i /\ i < s.at + s.n)
    BY <1>2, <2>2
  <2>3. QED
    BY <2>1, <2>2
<1>5. array \in [0 .. size[s.area] - 1 -> 0 .. Base - 1]
  BY <1>3, <1>4
<1>6. \A i \in 0 .. size[s.area] - 1 :
        array[i] = IF s.at <= i /\ i < s.at + s.n THEN Digit(v, i - s.at) ELSE mem[s.area][i]
  BY <1>3
<1>7. Store(mem, s, v) = [mem EXCEPT ![s.area] = array]
  BY DEF Store
<1> HIDE DEF array
<1>8. DOMAIN mem = DOMAIN size
  BY DEF Memory
<1>9. /\ Store(mem, s, v) = [x \in DOMAIN size |-> IF x = s.area THEN array ELSE mem[x]]
      /\ Store(mem, s, v)[s.area] = array
      /\ \A x \in DOMAIN size : x # s.area => Store(mem, s, v)[x] = mem[x]
  BY <1>1, <1>7, <1>8
<1>10. Memory(Store(mem, s, v), size)
  BY <1>2, <1>5, <1>9 DEF Memory
<1>11. QED
  BY <1>6, <1>9, <1>10

(* A store keeps what is apart from it. *)
Apart(t, s) == t.area # s.area \/ t.at + t.n <= s.at \/ s.at + s.n <= t.at

LEMMA StoreApart ==
  ASSUME NEW mem, NEW size, Memory(mem, size), NEW s, In(s, size), NEW v \in Int,
         NEW t, In(t, size), Apart(t, s)
  PROVE  Value(Store(mem, s, v), t) = Value(mem, t)
<1>1. /\ t.area \in DOMAIN size /\ t.at \in Nat /\ t.n \in Nat /\ t.at + t.n <= size[t.area]
      /\ s.at \in Nat /\ s.n \in Nat
  BY DEF In
<1>2. \A i \in 0 .. t.n - 1 : Limb(Store(mem, s, v), t, i) = Limb(mem, t, i)
  <2>1. CASE t.area # s.area
    <3>1. \A x \in DOMAIN size : x # s.area => Store(mem, s, v)[x] = mem[x]
      BY StoreLimbs
    <3>2. QED
      BY <1>1, <2>1, <3>1 DEF Limb
  <2>2. CASE t.area = s.area
    <3> TAKE i \in 0 .. t.n - 1
    <3>1. t.at + i \in 0 .. size[s.area] - 1
      <4>1. size[s.area] \in Nat
        BY <1>1, <2>2 DEF Memory
      <4>2. QED
        BY <1>1, <2>2, <4>1
    <3>2. ~(s.at <= t.at + i /\ t.at + i < s.at + s.n)
      BY <1>1, <2>2 DEF Apart
    <3>3. Store(mem, s, v)[s.area][t.at + i] = mem[s.area][t.at + i]
      <4>1. \A j \in 0 .. size[s.area] - 1 :
              Store(mem, s, v)[s.area][j]
                = IF s.at <= j /\ j < s.at + s.n THEN Digit(v, j - s.at) ELSE mem[s.area][j]
        BY StoreLimbs
      <4>2. QED
        BY <3>1, <3>2, <4>1
    <3>4. QED
      BY <2>2, <3>3 DEF Limb
  <2>3. QED
    BY <2>1, <2>2
<1>3. [i \in 0 .. t.n - 1 |-> Limb(Store(mem, s, v), t, i)]
        = [i \in 0 .. t.n - 1 |-> Limb(mem, t, i)]
  BY <1>2
<1>4. QED
  BY <1>3 DEF Value

(* A part of a span. *)
PartOf(s, t) == s.area = t.area /\ t.at <= s.at /\ s.at + s.n <= t.at + t.n

(* A span shows what was stored through it, modulo its width. *)
LEMMA StoreValue ==
  ASSUME NEW mem, NEW size, Memory(mem, size), NEW s, In(s, size), NEW v \in Int
  PROVE  /\ Value(Store(mem, s, v), s) = v % Power(Base, s.n)
         /\ \A i \in 0 .. s.n - 1 : Limb(Store(mem, s, v), s, i) = Digit(v, i)
<1>1. s.area \in DOMAIN size /\ s.at \in Nat /\ s.n \in Nat /\ s.at + s.n <= size[s.area]
      /\ size[s.area] \in Nat
  BY DEF In, Memory
<1>2. \A i \in 0 .. s.n - 1 : Limb(Store(mem, s, v), s, i) = Digit(v, i)
  <2> TAKE i \in 0 .. s.n - 1
  <2>1. s.at + i \in 0 .. size[s.area] - 1
    BY <1>1
  <2>3. \A j \in 0 .. size[s.area] - 1 :
          Store(mem, s, v)[s.area][j]
            = IF s.at <= j /\ j < s.at + s.n THEN Digit(v, j - s.at) ELSE mem[s.area][j]
    BY StoreLimbs
  <2>4. PICK j \in 0 .. size[s.area] - 1 : j = s.at + i
    BY <2>1
  <2>5. j - s.at = i /\ s.at <= j /\ j < s.at + s.n
    BY <1>1, <2>4
  <2>6. Store(mem, s, v)[s.area][j] = Digit(v, i)
    BY <2>3, <2>5
  <2>7. QED
    BY <2>4, <2>6 DEF Limb
<1>3. \A i \in 0 .. s.n - 1 : Under(Store(mem, s, v), s)[i] = (v \div Power(Base, i)) % Base
  BY <1>2 DEF Under, Digit
<1>4. FromDigits(Base, Under(Store(mem, s, v), s), s.n) = v % Power(Base, s.n)
  <2>1. PICK n \in Nat : n = s.n
    BY <1>1
  <2>5. PICK d : d = Under(Store(mem, s, v), s)
    OBVIOUS
  <2>2. \A i \in 0 .. n - 1 : d[i] = (v \div Power(Base, i)) % Base
    BY <1>3, <2>1, <2>5
  <2>3. FromDigits(Base, d, n) = v % Power(Base, n)
    <3>1. Base \in Nat \ {0} /\ n \in Nat /\ v \in Int
      BY BaseType
    <3>2. QED
      BY <2>2, <3>1, DigitsOfNumber
  <2>4. QED
    BY <2>1, <2>3, <2>5
<1>5. QED
  BY <1>2, <1>4 DEF Value, Under, Magnitude

(* and all of it when it is not too long. *)
LEMMA StoreFits ==
  ASSUME NEW mem, NEW size, Memory(mem, size), NEW s, In(s, size),
         NEW v \in Nat, v < Power(Base, s.n)
  PROVE  Value(Store(mem, s, v), s) = v
<1>1. Power(Base, s.n) \in Nat \ {0}
  BY ValueType
<1>2. v \in 0 .. Power(Base, s.n) - 1
  BY <1>1
<1>3. v % Power(Base, s.n) = v
  BY <1>1, <1>2, DivSmall
<1>4. QED
  BY <1>3, StoreValue

(* Parts of spans. *)
LEMMA PartsIn ==
  ASSUME NEW size, NEW s, In(s, size), NEW k \in Nat, k <= s.n
  PROVE  /\ In(First(s, k), size) /\ In(Subspan(s, k), size)
         /\ First(s, k).area = s.area /\ First(s, k).at = s.at /\ First(s, k).n = k
         /\ Subspan(s, k).area = s.area /\ Subspan(s, k).at = s.at + k
         /\ Subspan(s, k).n = s.n - k
<1>1. PICK x \in DOMAIN size, p \in Nat, n \in Nat :
        s = [area |-> x, at |-> p, n |-> n] /\ size[x] \in Nat /\ p + n <= size[x]
  BY DEF In
<1>2. First(s, k) = [area |-> x, at |-> p, n |-> k]
  BY <1>1 DEF First
<1>3. Subspan(s, k) = [area |-> x, at |-> p + k, n |-> n - k]
  <2>1. s.at = p /\ s.n = n
    BY <1>1
  <2>2. Subspan(s, k) = [s EXCEPT !.at = p + k, !.n = n - k]
    BY <2>1 DEF Subspan
  <2>3. [s EXCEPT !.at = p + k] = [area |-> x, at |-> p + k, n |-> n]
    BY <1>1
  <2>4. QED
    BY <2>2, <2>3
<1>4. k <= n /\ p + k \in Nat /\ n - k \in Nat /\ (p + k) + (n - k) = p + n /\ p + k <= size[x]
  BY <1>1
<1>5. QED
  BY <1>1, <1>2, <1>3, <1>4 DEF In

(* A span in two parts. *)
LEMMA ValueSplit ==
  ASSUME NEW mem, NEW size, Memory(mem, size), NEW s, In(s, size), NEW k \in Nat, k <= s.n
  PROVE  Value(mem, s) = Value(mem, First(s, k)) + Power(Base, k) * Value(mem, Subspan(s, k))
<1>1. PICK m \in Nat : s.n = k + m
  <2>1. s.n - k \in Nat /\ s.n = k + (s.n - k)
    BY DEF In
  <2>2. QED
    BY <2>1
<1>2. /\ In(First(s, k), size) /\ In(Subspan(s, k), size) /\ s.at \in Nat
      /\ First(s, k).area = s.area /\ First(s, k).at = s.at /\ First(s, k).n = k
      /\ Subspan(s, k).area = s.area /\ Subspan(s, k).at = s.at + k /\ Subspan(s, k).n = m
  <2>1. s.n - k = m
    BY <1>1
  <2>2. QED
    BY <2>1, PartsIn DEF In
<1>3. \A i \in 0 .. k + m - 1 : Under(mem, s)[i] = mem[s.area][s.at + i]
  BY <1>1 DEF Under, Limb
<1>4. \A i \in 0 .. k - 1 : Under(mem, First(s, k))[i] = Under(mem, s)[i]
  BY <1>2, <1>3 DEF Under, Limb
<1>5. \A i \in 0 .. m - 1 : Under(mem, Subspan(s, k))[i] = Under(mem, s)[k + i]
  <2> TAKE i \in 0 .. m - 1
  <2>1. k + i \in 0 .. k + m - 1 /\ s.at + (k + i) = (s.at + k) + i
    BY <1>2
  <2>2. Under(mem, Subspan(s, k))[i] = mem[s.area][(s.at + k) + i]
    BY <1>2 DEF Under, Limb
  <2>3. QED
    BY <1>3, <2>1, <2>2
<1>6. DigitsUpTo(Under(mem, s), k + m)
  <2>1. IsArray(Under(mem, s), k + m)
    BY <1>1, UnderFacts
  <2>2. k + m \in Nat /\ k + m \in 0 .. k + m
    OBVIOUS
  <2>3. QED
    BY <2>1, <2>2, ArrayDigits
<1>7. DigitsUpTo(Under(mem, s), k)
  BY <1>6 DEF DigitsUpTo
<1>8. FromDigits(Base, Under(mem, s), k + m)
        = FromDigits(Base, Under(mem, s), k)
            + Power(Base, k) * FromDigits(Base, Under(mem, Subspan(s, k)), m)
  BY <1>5, <1>6, BaseType, FromDigitsSplit
<1>9. FromDigits(Base, Under(mem, First(s, k)), k) = FromDigits(Base, Under(mem, s), k)
  BY <1>4, <1>7, BaseType, FromDigitsFrame
<1>10. /\ Value(mem, s) = FromDigits(Base, Under(mem, s), k + m)
       /\ Value(mem, First(s, k)) = FromDigits(Base, Under(mem, First(s, k)), k)
       /\ Value(mem, Subspan(s, k)) = FromDigits(Base, Under(mem, Subspan(s, k)), m)
  BY <1>1, <1>2 DEF Value, Under, Magnitude
<1>11. QED
  BY <1>8, <1>9, <1>10

(* An empty span shows zero. *)
LEMMA ValueEmpty ==
  ASSUME NEW mem, NEW size, Memory(mem, size), NEW s, In(s, size), s.n = 0
  PROVE  Value(mem, s) = 0
<1>1. Power(Base, s.n) = 1
  BY BaseType, PowerOne
<1>2. Value(mem, s) \in Nat /\ Value(mem, s) < Power(Base, s.n)
  BY ValueType
<1>3. QED
  BY <1>1, <1>2

(* A trimmed span shows what the span shows, in as many limbs as that needs. *)
LEMMA TrimmedIs ==
  ASSUME NEW mem, NEW size, Memory(mem, size), NEW s, In(s, size), s.n # 0
  PROVE  LET t == TrimmedSpan(mem, s)
         IN  /\ In(t, size) /\ t.area = s.area /\ t.at = s.at /\ t.n \in 1 .. s.n
             /\ Value(mem, t) = Value(mem, s) /\ HasLimbs(Value(mem, t), t.n)
<1>1. PICK n \in Nat \ {0} : n = s.n /\ n \in 1 .. n
  BY DEF In
<1>2. PICK k : k = TrimmedSize(Under(mem, s), n)
  OBVIOUS
<1>3. IsArray(Under(mem, s), n) /\ IsWritten(Under(mem, s), n)
      /\ Value(mem, s) = Magnitude(Under(mem, s), n)
  BY <1>1, UnderFacts
<1>4. /\ k \in 1 .. n /\ Magnitude(Under(mem, s), k) = Magnitude(Under(mem, s), n)
      /\ k = LimbsNeeded(Magnitude(Under(mem, s), n))
  BY <1>1, <1>2, <1>3, TrimmedFacts
<1>5. TrimmedSpan(mem, s) = First(s, k)
  BY <1>1, <1>2 DEF TrimmedSpan, Trimmed, Under
<1>6. /\ In(First(s, k), size) /\ First(s, k).area = s.area /\ First(s, k).at = s.at
      /\ First(s, k).n = k
  BY <1>1, <1>4, PartsIn
<1>7. Value(mem, First(s, k)) = Value(mem, s)
  <2>1. \A i \in 0 .. k - 1 : Under(mem, First(s, k))[i] = Under(mem, s)[i]
    <3> TAKE i \in 0 .. k - 1
    <3>1. i \in 0 .. n - 1
      BY <1>4
    <3>2. Under(mem, s)[i] = mem[s.area][s.at + i]
      BY <1>1, <3>1 DEF Under, Limb
    <3>3. Under(mem, First(s, k))[i] = mem[s.area][s.at + i]
      BY <1>6 DEF Under, Limb
    <3>4. QED
      BY <3>2, <3>3
  <2>2. k \in 0 .. n /\ n \in Nat
    BY <1>4
  <2>3. Magnitude(Under(mem, First(s, k)), k) = Magnitude(Under(mem, s), k)
    BY <1>3, <2>1, <2>2, MagnitudeFrame
  <2>4. Value(mem, First(s, k)) = Magnitude(Under(mem, First(s, k)), k)
    BY <1>6, UnderFacts
  <2>5. QED
    BY <1>3, <1>4, <2>3, <2>4
<1>8. HasLimbs(Value(mem, s), k)
  BY <1>3, <1>4, ValueType, LimbsNeededHas
<1>9. QED
  BY <1>1, <1>4, <1>5, <1>6, <1>7, <1>8

-----------------------------------------------------------------------------
(* The frames of a recursion: one more, and one less.                      *)

LEMMA AppendIs ==
  ASSUME NEW n \in Nat, NEW fr, fr = [i \in 1 .. n |-> fr[i]], NEW g
  PROVE  /\ Append(fr, g) = [i \in 1 .. n + 1 |-> Append(fr, g)[i]]
         /\ Append(fr, g)[n + 1] = g /\ \A i \in 1 .. n : Append(fr, g)[i] = fr[i]
<1>1. PICK R : R = {fr[i] : i \in 1 .. n}
  OBVIOUS
<1>2. fr \in Seq(R \cup {g}) /\ Len(fr) = n
  BY <1>1
<1>3. PICK gr : gr = Append(fr, g)
  OBVIOUS
<1>4. Len(gr) = n + 1 /\ gr = [i \in 1 .. n + 1 |-> gr[i]]
      /\ \A i \in 1 .. n + 1 : gr[i] = IF i = n + 1 THEN g ELSE fr[i]
  BY <1>2, <1>3
<1>5. gr[n + 1] = g /\ \A i \in 1 .. n : gr[i] = fr[i]
  <2>1. n + 1 \in 1 .. n + 1 /\ \A i \in 1 .. n : i \in 1 .. n + 1 /\ i # n + 1
    OBVIOUS
  <2>2. QED
    BY <1>4, <2>1
<1>6. QED
  BY <1>3, <1>4, <1>5

LEMMA FramesBut ==
  ASSUME NEW n \in Nat \ {0}, NEW fr, fr = [i \in 1 .. n |-> fr[i]]
  PROVE  SubSeq(fr, 1, n - 1) = [i \in 1 .. n - 1 |-> fr[i]]
<1>1. PICK m \in Nat : m = n - 1
  OBVIOUS
<1>2. SubSeq(fr, 1, m) = [i \in 1 .. m |-> fr[i]]
  BY <1>1
<1>3. QED
  BY <1>1, <1>2
===============================================================================
