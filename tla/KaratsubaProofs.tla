---------------------------- MODULE KaratsubaProofs ----------------------------
(***************************************************************************)
(* Proofs about the Karatsuba kernels, for every width of a limb, all      *)
(* operands and any depth of their recursion.                              *)
(*                                                                         *)
(* The region of a frame is its window and the scratch from its block on.  *)
(* The regions of the frames are nested, the workspace of each holds the   *)
(* blocks of all that it may still call, and what a frame waits for is the *)
(* product in a part of its own.                                           *)
(***************************************************************************)

EXTENDS MultiplicationProofs

-----------------------------------------------------------------------------
(* A region: the span r, and scratch from o on. What a call may write.     *)

Inside(s, r, o) ==
  \/ s.area = r.area /\ r.at <= s.at /\ s.at + s.n <= r.at + r.n
  \/ s.area = "scratch" /\ o <= s.at

Clear(s, r, o) == Apart(s, r) /\ (s.area = "scratch" => s.at + s.n <= o)

Confined(mem, new, size, r, o) ==
  \A x \in DOMAIN size : \A i \in 0 .. size[x] - 1 :
    ~(x = r.area /\ r.at <= i /\ i < r.at + r.n) /\ ~(x = "scratch" /\ o <= i)
      => new[x][i] = mem[x][i]

(* The region of s and p within that of r and o. *)
Nested(r, o, s, p) == o <= p /\ Inside(s, r, o)

LEMMA InsideIs ==
  ASSUME NEW size, NEW s, In(s, size)
  PROVE  /\ s.at \in Nat /\ s.n \in Nat /\ size[s.area] \in Nat /\ s.area \in DOMAIN size
         /\ s.at + s.n <= size[s.area]
BY DEF In

LEMMA ConfinedKeeps ==
  ASSUME NEW mem, NEW new, NEW size, NEW r, NEW o \in Nat, In(r, size),
         Confined(mem, new, size, r, o), NEW s, In(s, size), Clear(s, r, o)
  PROVE  /\ Value(new, s) = Value(mem, s) /\ Trimmed(new, s) = Trimmed(mem, s)
         /\ TrimmedSpan(new, s) = TrimmedSpan(mem, s)
<1>1. PICK x \in DOMAIN size, p \in Nat, n \in Nat, c \in Nat :
        x = s.area /\ p = s.at /\ n = s.n /\ c = size[x] /\ p + n <= c /\ x \in DOMAIN size
  BY InsideIs
<1>2. PICK y \in DOMAIN size, q \in Nat, m \in Nat : y = r.area /\ q = r.at /\ m = r.n
  BY InsideIs
<1>3. (x # y \/ p + n <= q \/ q + m <= p) /\ (x = "scratch" => p + n <= o)
  BY <1>1, <1>2 DEF Clear, Apart
<1>4. \A i \in 0 .. n - 1 : Limb(new, s, i) = Limb(mem, s, i)
  <2> TAKE i \in 0 .. n - 1
  <2>1. p + i \in 0 .. c - 1 /\ p + i < p + n /\ p <= p + i
    BY <1>1
  <2>2. ~(x = y /\ q <= p + i /\ p + i < q + m) /\ ~(x = "scratch" /\ o <= p + i)
    BY <1>3, <2>1
  <2>3. new[x][p + i] = mem[x][p + i]
    BY <1>1, <1>2, <2>1, <2>2 DEF Confined
  <2>4. QED
    BY <1>1, <2>3 DEF Limb
<1>5. QED
  BY <1>1, <1>4, SameLimbs

LEMMA ConfinedChanges ==
  ASSUME NEW mem, NEW new, NEW size, NEW r, NEW o \in Nat, In(r, size), NEW s, In(s, size),
         Inside(s, r, o), Changes(mem, new, size, s)
  PROVE  Confined(mem, new, size, r, o)
<1>1. PICK x \in DOMAIN size, p \in Nat, n \in Nat :
        x = s.area /\ p = s.at /\ n = s.n /\ size[x] \in Nat /\ x \in DOMAIN size
  BY InsideIs
<1>2. PICK y \in DOMAIN size, q \in Nat, m \in Nat : y = r.area /\ q = r.at /\ m = r.n
  BY InsideIs
<1>3. (x = y /\ q <= p /\ p + n <= q + m) \/ (x = "scratch" /\ o <= p)
  BY <1>1, <1>2 DEF Inside
<1> SUFFICES ASSUME NEW z \in DOMAIN size, NEW i \in 0 .. size[z] - 1,
                    ~(z = y /\ q <= i /\ i < q + m), ~(z = "scratch" /\ o <= i)
             PROVE  new[z][i] = mem[z][i]
  BY <1>2, Zenon DEF Confined
<1>4. CASE z # x
  BY <1>1, <1>4 DEF Changes
<1>5. CASE z = x
  <2>1. i < p \/ p + n <= i
    BY <1>1, <1>3, <1>5
  <2>2. QED
    BY <1>1, <1>5, <2>1 DEF Changes
<1>6. QED
  BY <1>4, <1>5

LEMMA ConfinedBoth ==
  ASSUME NEW mem, NEW new, NEW last, NEW size, NEW r, NEW o, Confined(mem, new, size, r, o),
         Confined(new, last, size, r, o)
  PROVE  Confined(mem, last, size, r, o)
BY DEF Confined

LEMMA ConfinedNested ==
  ASSUME NEW mem, NEW new, NEW size, NEW r, NEW o \in Nat, In(r, size), NEW s, NEW p \in Nat,
         In(s, size), Nested(r, o, s, p), Confined(mem, new, size, s, p)
  PROVE  Confined(mem, new, size, r, o)
<1>1. PICK x \in DOMAIN size, k \in Nat, n \in Nat : x = s.area /\ k = s.at /\ n = s.n
  BY InsideIs
<1>2. PICK y \in DOMAIN size, q \in Nat, m \in Nat : y = r.area /\ q = r.at /\ m = r.n
  BY InsideIs
<1>3. ((x = y /\ q <= k /\ k + n <= q + m) \/ (x = "scratch" /\ o <= k)) /\ o <= p
  BY <1>1, <1>2 DEF Inside, Nested
<1> SUFFICES ASSUME NEW z \in DOMAIN size, NEW i \in 0 .. size[z] - 1,
                    ~(z = y /\ q <= i /\ i < q + m), ~(z = "scratch" /\ o <= i)
             PROVE  new[z][i] = mem[z][i]
  BY <1>2, Zenon DEF Confined
<1>4. ~(z = x /\ k <= i /\ i < k + n) /\ ~(z = "scratch" /\ p <= i)
  BY <1>3
<1>5. QED
  BY <1>1, <1>4 DEF Confined

LEMMA NestedTransitive ==
  ASSUME NEW size, NEW r, NEW o \in Nat, NEW s, NEW p \in Nat, NEW t, NEW q \in Nat,
         In(r, size), In(s, size), In(t, size), Nested(r, o, s, p), Nested(s, p, t, q)
  PROVE  Nested(r, o, t, q)
<1>1. PICK x \in DOMAIN size, k \in Nat, n \in Nat : x = s.area /\ k = s.at /\ n = s.n
  BY InsideIs
<1>2. PICK y \in DOMAIN size, c \in Nat, m \in Nat : y = r.area /\ c = r.at /\ m = r.n
  BY InsideIs
<1>3. PICK z \in DOMAIN size, g \in Nat, h \in Nat : z = t.area /\ g = t.at /\ h = t.n
  BY InsideIs
<1>4. ((x = y /\ c <= k /\ k + n <= c + m) \/ (x = "scratch" /\ o <= k)) /\ o <= p
  BY <1>1, <1>2 DEF Inside, Nested
<1>5. ((z = x /\ k <= g /\ g + h <= k + n) \/ (z = "scratch" /\ p <= g)) /\ p <= q
  BY <1>1, <1>3 DEF Inside, Nested
<1>6. o <= q /\ ((z = y /\ c <= g /\ g + h <= c + m) \/ (z = "scratch" /\ o <= g))
  BY <1>4, <1>5
<1>7. QED
  BY <1>2, <1>3, <1>6 DEF Inside, Nested

LEMMA ClearWithin ==
  ASSUME NEW size, NEW s, NEW t, NEW r, NEW o \in Nat, In(s, size), In(t, size), In(r, size),
         PartOf(s, t), Clear(t, r, o)
  PROVE  Clear(s, r, o)
<1>1. PICK x \in DOMAIN size, k \in Nat, n \in Nat : x = s.area /\ k = s.at /\ n = s.n
  BY InsideIs
<1>2. PICK y \in DOMAIN size, c \in Nat, m \in Nat : y = r.area /\ c = r.at /\ m = r.n
  BY InsideIs
<1>3. PICK g \in Nat, h \in Nat : x = t.area /\ g = t.at /\ h = t.n /\ g <= k /\ k + n <= g + h
  BY <1>1, InsideIs DEF PartOf
<1>4. (x # y \/ g + h <= c \/ c + m <= g) /\ (x = "scratch" => g + h <= o)
  BY <1>2, <1>3 DEF Clear, Apart
<1>5. (x # y \/ k + n <= c \/ c + m <= k) /\ (x = "scratch" => k + n <= o)
  BY <1>3, <1>4
<1>6. QED
  BY <1>1, <1>2, <1>5 DEF Clear, Apart

(* What is clear of a region is clear of one within it. *)
LEMMA ClearNested ==
  ASSUME NEW size, NEW r, NEW o \in Nat, NEW s, NEW p \in Nat, NEW t,
         In(r, size), In(s, size), In(t, size), Nested(r, o, s, p), Clear(t, r, o)
  PROVE  Clear(t, s, p)
<1>1. PICK x \in DOMAIN size, k \in Nat, n \in Nat : x = s.area /\ k = s.at /\ n = s.n
  BY InsideIs
<1>2. PICK y \in DOMAIN size, c \in Nat, m \in Nat : y = r.area /\ c = r.at /\ m = r.n
  BY InsideIs
<1>3. PICK z \in DOMAIN size, g \in Nat, h \in Nat : z = t.area /\ g = t.at /\ h = t.n
  BY InsideIs
<1>4. ((x = y /\ c <= k /\ k + n <= c + m) \/ (x = "scratch" /\ o <= k)) /\ o <= p
  BY <1>1, <1>2 DEF Inside, Nested
<1>5. (z # y \/ g + h <= c \/ c + m <= g) /\ (z = "scratch" => g + h <= o)
  BY <1>2, <1>3 DEF Clear, Apart
<1>6. (z # x \/ g + h <= k \/ k + n <= g) /\ (z = "scratch" => g + h <= p)
  BY <1>4, <1>5
<1>7. QED
  BY <1>1, <1>3, <1>6 DEF Clear, Apart

LEMMA SmallerIs ==
  ASSUME NEW x \in Nat, NEW y \in Nat
  PROVE  /\ SmallerOf(x, y) \in Nat /\ SmallerOf(x, y) <= x /\ SmallerOf(x, y) <= y
         /\ x <= y => SmallerOf(x, y) = x
         /\ y <= x => SmallerOf(x, y) = y
BY DEF SmallerOf

LEMMA LargerIs ==
  ASSUME NEW x \in Nat, NEW y \in Nat
  PROVE  /\ LargerOf(x, y) \in Nat /\ x <= LargerOf(x, y) /\ y <= LargerOf(x, y)
         /\ LargerOf(x, y) = x \/ LargerOf(x, y) = y
BY DEF LargerOf

(* The halves of a span at limb n: the span is made up of them. *)
LEMMA HalvesAre ==
  ASSUME NEW size, NEW s, In(s, size), NEW n \in Nat
  PROVE  /\ In(Low(s, n), size) /\ PartOf(Low(s, n), s) /\ Low(s, n).n <= n
         /\ In(High(s, n), size) /\ PartOf(High(s, n), s)
         /\ s.n <= n => Low(s, n).n = s.n /\ High(s, n).n = 0
         /\ n < s.n => Low(s, n).n = n /\ High(s, n).n = s.n - n
         /\ Low(s, n).n + High(s, n).n = s.n
<1>1. s.n \in Nat /\ s.at \in Nat /\ size[s.area] \in Nat /\ s.area \in DOMAIN size
      /\ s.at + s.n <= size[s.area]
  BY InsideIs
<1>2. PICK k \in Nat : k = SmallerOf(s.n, n) /\ k <= s.n /\ k <= n
                       /\ (s.n <= n => k = s.n) /\ (n < s.n => k = n)
  <2>1. PICK c \in Nat : c = s.n
    BY <1>1
  <2>2. /\ SmallerOf(c, n) \in Nat /\ SmallerOf(c, n) <= c /\ SmallerOf(c, n) <= n
        /\ (c <= n => SmallerOf(c, n) = c) /\ (n < c => SmallerOf(c, n) = n)
    BY SmallerIs
  <2>3. QED
    BY <2>1, <2>2
<1>3. PICK l : l = Low(s, n) /\ In(l, size) /\ l.area = s.area /\ l.at = s.at /\ l.n = k
  <2>1. Low(s, n) = First(s, k)
    BY <1>2 DEF Low
  <2>2. QED
    BY <1>2, <2>1, PartsIn
<1>4. CASE s.n <= n
  <2>1. High(s, n) = Span(s.area, s.at + s.n, 0)
    BY <1>1, <1>4 DEF High
  <2>2. PICK h : h = High(s, n) /\ h = [area |-> s.area, at |-> s.at + s.n, n |-> 0]
    BY <2>1 DEF Span
  <2>3. In(h, size) /\ h.area = s.area /\ h.at = s.at + s.n /\ h.n = 0
    BY <1>1, <2>2 DEF In
  <2>4. QED
    BY <1>1, <1>2, <1>3, <1>4, <2>2, <2>3 DEF PartOf
<1>5. CASE n < s.n
  <2>1. High(s, n) = Subspan(s, n)
    BY <1>5 DEF High
  <2>2. PICK h : h = High(s, n) /\ In(h, size) /\ h.area = s.area /\ h.at = s.at + n
                 /\ h.n = s.n - n
    BY <1>1, <1>5, <2>1, PartsIn
  <2>3. QED
    BY <1>1, <1>2, <1>3, <1>5, <2>2 DEF PartOf
<1>6. QED
  BY <1>1, <1>4, <1>5

LEMMA HalvesMakeUp ==
  ASSUME NEW mem, NEW size, Memory(mem, size), NEW s, In(s, size), NEW n \in Nat
  PROVE  /\ Value(mem, s) = Value(mem, Low(s, n)) + Power(Base, n) * Value(mem, High(s, n))
         /\ s.n <= n => Value(mem, High(s, n)) = 0
<1>1. s.n \in Nat /\ Power(Base, n) \in Nat
  BY InsideIs, BasePower
<1>2. CASE s.n <= n
  <2>1. Low(s, n) = s
    <3>1. SmallerOf(s.n, n) = s.n
      BY <1>1, <1>2, SmallerIs
    <3>2. s = [area |-> s.area, at |-> s.at, n |-> s.n]
      BY DEF In
    <3>3. QED
      BY <3>1, <3>2 DEF Low, First
  <2>2. Value(mem, High(s, n)) = 0
    BY <1>2, HalvesAre, ValueEmpty
  <2>3. Value(mem, s) \in Nat
    BY ValueType
  <2>4. QED
    BY <1>1, <2>1, <2>2, <2>3
<1>3. CASE n < s.n
  <2>1. Low(s, n) = First(s, n) /\ High(s, n) = Subspan(s, n)
    BY <1>1, <1>3, SmallerIs DEF Low, High
  <2>2. n <= s.n
    BY <1>1, <1>3
  <2>3. Value(mem, s) = Value(mem, First(s, n)) + Power(Base, n) * Value(mem, Subspan(s, n))
    BY <2>2, ValueSplit
  <2>4. QED
    BY <1>1, <1>3, <2>1, <2>3
<1>4. QED
  BY <1>1, <1>2, <1>3

(* The sum of the halves of an operand, which takes a limb more if there is a carry. *)
LEMMA SumOfHalvesIs ==
  ASSUME NEW mem, NEW size, Memory(mem, size), NEW s, In(s, size), s.n # 0, NEW n \in Nat \ {0},
         s.n <= 2 * n, NEW t, In(t, size), t.n = n + 1, NEW h, h = SumOfHalves(mem, s, n, t)
  PROVE  /\ h.size \in 1 .. n + 1
         /\ Value(mem, Low(s, n)) + Value(mem, High(s, n)) < Power(Base, h.size)
         /\ Fills(mem, h.mem, size, First(t, h.size),
                  Value(mem, Low(s, n)) + Value(mem, High(s, n)))
<1>1. PICK k \in Nat, l \in Nat :
        k = Low(s, n).n /\ l = High(s, n).n /\ 1 <= k /\ k <= n /\ l <= n
  <2>1. PICK c \in Nat \ {0} : c = s.n /\ c <= 2 * n
    BY InsideIs
  <2>2. /\ c <= n => Low(s, n).n = c /\ High(s, n).n = 0
        /\ n < c => Low(s, n).n = n /\ High(s, n).n = c - n
    <3>1. n \in Nat
      OBVIOUS
    <3>2. /\ s.n <= n => Low(s, n).n = s.n /\ High(s, n).n = 0
          /\ n < s.n => Low(s, n).n = n /\ High(s, n).n = s.n - n
      BY <3>1, HalvesAre
    <3>3. QED
      BY <2>1, <3>2
  <2>3. CASE c <= n
    BY <2>1, <2>2, <2>3
  <2>4. CASE n < c
    BY <2>1, <2>2, <2>4
  <2>5. QED
    BY <2>1, <2>3, <2>4
<1>2. PICK x \in Nat, y \in Nat :
        /\ x = Value(mem, Low(s, n)) /\ y = Value(mem, High(s, n))
        /\ x < Power(Base, k) /\ y < Power(Base, l)
  BY <1>1, HalvesAre, ValueType
<1>3. PICK long \in Nat : long = LargerOf(k, l) /\ k <= long /\ l <= long /\ 1 <= long /\ long <= n
  <2>1. /\ LargerOf(k, l) \in Nat /\ k <= LargerOf(k, l) /\ l <= LargerOf(k, l)
        /\ LargerOf(k, l) = k \/ LargerOf(k, l) = l
    BY <1>1, LargerIs
  <2>2. QED
    BY <1>1, <2>1
<1>4. PICK p \in Nat : p = Power(Base, long) /\ x < p /\ y < p
  <2>1. Power(Base, k) <= Power(Base, long) /\ Power(Base, l) <= Power(Base, long)
    BY <1>3, BaseType, PowerGrows
  <2>2. Power(Base, k) \in Nat /\ Power(Base, l) \in Nat /\ Power(Base, long) \in Nat
    BY BasePower
  <2>3. QED
    BY <1>2, <2>1, <2>2
<1>5. x + y < Power(Base, long + 1)
  <2>1. Power(Base, long + 1) = Base * p
    BY <1>4, BaseType, PowerStep
  <2>2. 2 * p <= Base * p
    BY BaseType, MulPos
  <2>3. Base * p \in Nat
    BY BaseType
  <2>4. QED
    BY <1>4, <2>1, <2>2, <2>3
<1>6. PICK m \in 1 .. n + 1 : m = (IF x + y >= p THEN long + 1 ELSE long) /\ x + y < Power(Base, m)
  <2>1. CASE x + y >= p
    BY <1>3, <1>5, <2>1
  <2>2. CASE x + y < p
    BY <1>3, <1>4, <2>2
  <2>3. QED
    BY <1>4, <2>1, <2>2
<1>7. SumOfHalves(mem, s, n, t) = [size |-> m, mem |-> Store(mem, First(t, m), x + y)]
  BY <1>1, <1>2, <1>3, <1>4, <1>6, Zenon DEF SumOfHalves
<1>8. h.size = m /\ h.mem = Store(mem, First(t, m), x + y)
  BY <1>7
<1>9. In(First(t, m), size) /\ First(t, m).n = m
  BY <1>6, PartsIn
<1>10. Fills(mem, h.mem, size, First(t, m), x + y)
  BY <1>2, <1>6, <1>8, <1>9, StoreFills
<1>11. QED
  BY <1>2, <1>6, <1>8, <1>10

(* A number that fits the lowest k limbs of a span. *)
LEMMA LowLimbsHold ==
  ASSUME NEW mem, NEW size, Memory(mem, size), NEW s, In(s, size), NEW k \in Nat, k <= s.n,
         Value(mem, s) < Power(Base, k)
  PROVE  Value(mem, First(s, k)) = Value(mem, s) /\ Value(mem, Subspan(s, k)) = 0
<1>1. PICK x \in Nat, y \in Nat, p \in Nat \ {0} :
        /\ x = Value(mem, First(s, k)) /\ y = Value(mem, Subspan(s, k)) /\ p = Power(Base, k)
        /\ Value(mem, s) = x + p * y
  BY PartsIn, ValueType, ValueSplit, BasePower
<1>2. y = 0
  <2>1. x + p * y < p
    BY <1>1
  <2>2. y >= 1 => p * y >= p
    BY <1>1
  <2>3. p * y \in Nat
    BY <1>1
  <2>4. QED
    BY <1>1, <2>1, <2>2, <2>3
<1>3. p * y = 0
  BY <1>1, <1>2
<1>4. QED
  BY <1>1, <1>2, <1>3

(* A window whose lowest limbs hold a product, settled. *)
LEMMA SettledIs ==
  ASSUME NEW size, Memory(kara.mem, size), NEW w, In(w, size), NEW k \in Nat \ {0}, k <= w.n,
         Value(kara.mem, w) < Power(Base, k), NEW g, g = Settled(w, k)
  PROVE  /\ g.size \in 1 .. k
         /\ Fills(kara.mem, g.mem, size, w, Value(kara.mem, w))
         /\ Value(g.mem, First(w, g.size)) = Value(kara.mem, w)
<1>1. PICK mem : mem = kara.mem /\ Memory(mem, size)
  OBVIOUS
<1>2. In(First(w, k), size) /\ First(w, k).n = k /\ Value(mem, First(w, k)) = Value(mem, w)
  BY <1>1, PartsIn, LowLimbsHold
<1>3. PICK t : t = Trimmed(mem, First(w, k))
  OBVIOUS
<1>4. /\ t \in 1 .. k /\ Value(mem, First(First(w, k), t)) = Value(mem, w)
      /\ HasLimbs(Value(mem, w), t)
  <2>1. First(w, k).n # 0
    BY <1>2
  <2>2. TrimmedSpan(mem, First(w, k)) = First(First(w, k), t)
    BY <1>3 DEF TrimmedSpan
  <2>3. First(First(w, k), t).n = t
    BY <1>2 DEF First, In
  <2>4. QED
    BY <1>1, <1>2, <2>1, <2>2, <2>3, TrimmedIs
<1>5. First(First(w, k), t) = First(w, t)
  BY DEF First
<1>6. g.size = t /\ g.mem = Fill(mem, Subspan(w, t))
  BY <1>1, <1>3 DEF Settled
<1>7. t \in Nat /\ t <= w.n /\ w.n \in Nat
  BY <1>4, InsideIs
<1>8. /\ In(First(w, t), size) /\ In(Subspan(w, t), size)
      /\ First(w, t).area = w.area /\ First(w, t).at = w.at /\ First(w, t).n = t
      /\ Subspan(w, t).area = w.area /\ Subspan(w, t).at = w.at + t /\ Subspan(w, t).n = w.n - t
  BY <1>7, PartsIn
<1>9. Fills(mem, g.mem, size, Subspan(w, t), 0)
  BY <1>1, <1>6, <1>8, FillFills
<1>10. Memory(g.mem, size) /\ Changes(mem, g.mem, size, Subspan(w, t))
       /\ Value(g.mem, Subspan(w, t)) = 0
  BY <1>9 DEF Fills
<1>11. Value(g.mem, First(w, t)) = Value(mem, w)
  <2>1. Apart(First(w, t), Subspan(w, t))
    <3>1. w.at \in Nat
      BY InsideIs
    <3>2. QED
      BY <1>7, <1>8, <3>1 DEF Apart
  <2>2. Value(g.mem, First(w, t)) = Value(mem, First(w, t))
    BY <1>8, <1>10, <2>1, ChangesKeep
  <2>3. QED
    BY <1>4, <1>5, <2>2
<1>12. Value(g.mem, w) = Value(mem, w)
  <2>1. Value(g.mem, w) = Value(g.mem, First(w, t)) + Power(Base, t) * Value(g.mem, Subspan(w, t))
    BY <1>7, <1>10, ValueSplit
  <2>2. Power(Base, t) \in Nat /\ Value(mem, w) \in Nat
    BY <1>1, <1>7, BasePower, ValueType
  <2>3. QED
    BY <1>10, <1>11, <2>1, <2>2
<1>13. Changes(mem, g.mem, size, w)
  <2>1. PICK p \in Nat, n \in Nat : p = w.at /\ n = w.n /\ t <= n /\ size[w.area] \in Nat
    BY <1>7, InsideIs
  <2>2. \A i \in 0 .. size[w.area] - 1 : i < p \/ p + n <= i => i < p + t \/ p + t + (n - t) <= i
    BY <1>7, <2>1
  <2>3. QED
    BY <1>8, <1>10, <2>1, <2>2 DEF Changes
<1>14. QED
  BY <1>1, <1>4, <1>6, <1>10, <1>11, <1>12, <1>13 DEF Fills

(* The three products of the halves of a frame. *)
LowLow(f, mem) == Value(mem, Low(f.a, f.n)) * Value(mem, Low(f.b, f.n))
HighHigh(f, mem) == Value(mem, High(f.a, f.n)) * Value(mem, High(f.b, f.n))
SumSum(f, mem) == (Value(mem, Low(f.a, f.n)) + Value(mem, High(f.a, f.n)))
                    * (Value(mem, Low(f.b, f.n)) + Value(mem, High(f.b, f.n)))

BlockOf(n, square) == IF square THEN 3 * n + 3 ELSE 4 * n + 4
CutoffOf(square) == IF square THEN KaraSquareCutoff ELSE KaraFallback

(* A frame whose blocks begin at o: what it multiplies, and where to. *)
KaraTask(f, o, mem, size, square) ==
  /\ {"pc", "r", "a", "b", "product"} \subseteq DOMAIN f /\ o \in Nat
  /\ In(f.r, size) /\ (f.r.area = "scratch" => f.r.at + f.r.n <= o)
  /\ In(f.a, size) /\ f.a.n # 0 /\ Clear(f.a, f.r, o)
  /\ In(f.b, size) /\ f.b.n # 0 /\ Clear(f.b, f.r, o)
  /\ f.a.n + f.b.n <= f.r.n
  /\ f.product = Value(mem, f.a) * Value(mem, f.b)
  /\ square => f.a = f.b

(* A frame that is split, its own block included. *)
SplitWell(f, o, size, square) ==
  /\ {"n", "block"} \subseteq DOMAIN f /\ f.block = o /\ f.n \in Nat \ {0}
  /\ f.a.n <= 2 * f.n /\ f.b.n <= 2 * f.n /\ 2 * f.n <= f.r.n
  /\ o + BlockOf(f.n, square) <= size["scratch"]
  /\ CutoffOf(square) <= f.n + 1 =>
       o + BlockOf(f.n, square) + KaraPerLimb * (f.n + 1) <= size["scratch"]

LowDone(f, mem) ==
  /\ "low" \in DOMAIN f /\ f.low \in 0 .. 2 * f.n
  /\ Value(mem, ResultLow(f)) = LowLow(f, mem)
  /\ Value(mem, First(ResultLow(f), f.low)) = LowLow(f, mem)

HighDone(f, mem) ==
  /\ "high" \in DOMAIN f
  /\ f.high => f.n < f.a.n /\ f.n < f.b.n
  /\ ~f.high => HighHigh(f, mem) = 0
  /\ Value(mem, ResultHigh(f)) = HighHigh(f, mem)

(* What stays while the product of the halves is formed in r. *)
WaitsFor(f, r, product, mem) ==
  /\ f.pc \in {"low", "high", "cross"}
  /\ f.pc = "low" => /\ r = ResultLow(f) /\ product = LowLow(f, mem)
                     /\ Value(mem, ResultHigh(f)) = 0
  /\ f.pc = "high" => /\ r = ResultHigh(f) /\ product = HighHigh(f, mem) /\ LowDone(f, mem)
                      /\ "high" \in DOMAIN f /\ f.high /\ f.n < f.a.n /\ f.n < f.b.n
  /\ f.pc = "cross" => /\ r = T1(f) /\ product = SumSum(f, mem)
                       /\ LowDone(f, mem) /\ HighDone(f, mem)
                       /\ "sums" \in DOMAIN f /\ f.sums \in 1 .. 2 * f.n + 2
                       /\ SumSum(f, mem) < Power(Base, f.sums)

(* The places a split frame works in. *)
LEMMA SplitPlaces ==
  ASSUME NEW f, NEW o, NEW mem, NEW size, NEW square \in BOOLEAN,
         KaraTask(f, o, mem, size, square), SplitWell(f, o, size, square),
         "scratch" \in DOMAIN size, size["scratch"] \in Nat,
         NEW p, p = o + BlockOf(f.n, square)
  PROVE  /\ p \in Nat /\ o \in Nat /\ f.n \in Nat \ {0}
         /\ In(ResultLow(f), size) /\ ResultLow(f).n = 2 * f.n /\ ResultLow(f).area = f.r.area
         /\ ResultLow(f).at = f.r.at
         /\ In(ResultHigh(f), size) /\ ResultHigh(f).n = f.r.n - 2 * f.n
         /\ ResultHigh(f).area = f.r.area /\ ResultHigh(f).at = f.r.at + 2 * f.n
         /\ In(T1(f), size) /\ T1(f).n = 2 * f.n + 2 /\ T1(f).area = "scratch" /\ T1(f).at = o
         /\ In(T2(f), size) /\ T2(f).n = f.n + 1 /\ T2(f).area = "scratch"
         /\ T2(f).at = o + (2 * f.n + 2)
         /\ o + (2 * f.n + 2) + (f.n + 1) <= p
<1>1. PICK n \in Nat \ {0} : n = f.n /\ 2 * n <= f.r.n /\ f.block = o
  BY DEF SplitWell
<1>2. o \in Nat /\ In(f.r, size) /\ f.r.n \in Nat /\ f.r.at \in Nat
  BY InsideIs DEF KaraTask
<1>3. p \in Nat /\ p <= size["scratch"] /\ o + (2 * n + 2) + (n + 1) <= p
  <2>1. p = o + BlockOf(n, square) /\ p <= size["scratch"]
    BY <1>1 DEF SplitWell
  <2>2. BlockOf(n, square) = 3 * n + 3 \/ BlockOf(n, square) = 4 * n + 4
    BY DEF BlockOf
  <2>3. QED
    BY <1>2, <2>1, <2>2
<1>4. /\ In(ResultLow(f), size) /\ ResultLow(f).n = 2 * n /\ ResultLow(f).area = f.r.area
      /\ ResultLow(f).at = f.r.at
      /\ In(ResultHigh(f), size) /\ ResultHigh(f).n = f.r.n - 2 * n
      /\ ResultHigh(f).area = f.r.area /\ ResultHigh(f).at = f.r.at + 2 * n
  <2>1. 2 * n \in Nat /\ 2 * n <= f.r.n
    BY <1>1
  <2>2. ResultLow(f) = First(f.r, 2 * n) /\ ResultHigh(f) = Subspan(f.r, 2 * n)
    BY <1>1 DEF ResultLow, ResultHigh
  <2>3. QED
    BY <1>2, <2>1, <2>2, PartsIn
<1>5. T1(f) = [area |-> "scratch", at |-> o, n |-> 2 * n + 2]
      /\ T2(f) = [area |-> "scratch", at |-> o + 2 * n + 2, n |-> n + 1]
  BY <1>1 DEF T1, T2, Span
<1>6. In(T1(f), size) /\ In(T2(f), size)
  <2>1. o + (2 * n + 2) <= size["scratch"] /\ (o + 2 * n + 2) + (n + 1) <= size["scratch"]
        /\ o + 2 * n + 2 \in Nat /\ 2 * n + 2 \in Nat /\ n + 1 \in Nat
    BY <1>2, <1>3
  <2>2. QED
    BY <1>2, <1>5, <2>1 DEF In
<1>7. o + 2 * n + 2 = o + (2 * n + 2)
  BY <1>2
<1>8. QED
  BY <1>1, <1>2, <1>3, <1>4, <1>5, <1>6, <1>7

LEMMA SplitApart ==
  ASSUME NEW f, NEW o, NEW mem, NEW size, NEW square \in BOOLEAN,
         KaraTask(f, o, mem, size, square), SplitWell(f, o, size, square),
         "scratch" \in DOMAIN size, size["scratch"] \in Nat,
         NEW p, p = o + BlockOf(f.n, square)
  PROVE  /\ Clear(ResultHigh(f), ResultLow(f), p) /\ Clear(ResultLow(f), ResultHigh(f), p)
         /\ Clear(ResultLow(f), T1(f), p) /\ Clear(ResultHigh(f), T1(f), p)
         /\ Nested(f.r, o, ResultLow(f), p) /\ Nested(f.r, o, ResultHigh(f), p)
         /\ Nested(f.r, o, T1(f), p) /\ Nested(f.r, o, f.r, o)
         /\ Clear(T2(f), T1(f), p)
         /\ T1(f).at + T1(f).n <= p
         /\ f.r.area = "scratch" => /\ ResultLow(f).at + ResultLow(f).n <= p
                                    /\ ResultHigh(f).at + ResultHigh(f).n <= p
<1>1. PICK n \in Nat \ {0} : n = f.n /\ 2 * n <= f.r.n
  BY DEF SplitWell
<1>2. PICK c \in Nat, m \in Nat : c = f.r.at /\ m = f.r.n /\ 2 * n <= m
                                  /\ (f.r.area = "scratch" => c + m <= o)
  BY <1>1, InsideIs DEF KaraTask
<1>3. PICK y : y = f.r.area
  OBVIOUS
<1>4. /\ p \in Nat /\ o \in Nat
      /\ ResultLow(f).n = 2 * n /\ ResultLow(f).area = y /\ ResultLow(f).at = c
      /\ ResultHigh(f).n = m - 2 * n /\ ResultHigh(f).area = y /\ ResultHigh(f).at = c + 2 * n
      /\ T1(f).n = 2 * n + 2 /\ T1(f).area = "scratch" /\ T1(f).at = o
      /\ T2(f).n = n + 1 /\ T2(f).area = "scratch" /\ T2(f).at = o + (2 * n + 2)
      /\ o + (2 * n + 2) + (n + 1) <= p
  BY <1>1, <1>2, <1>3, SplitPlaces
<1>5. y = "scratch" => c + m <= o
  BY <1>2, <1>3
<1>6. /\ c + 2 * n <= c + 2 * n /\ (c + 2 * n) + (m - 2 * n) = c + m
      /\ o <= p /\ o + (2 * n + 2) <= p /\ c <= c + 2 * n /\ c + 2 * n <= c + m
      /\ y = "scratch" => /\ c + 2 * n <= p /\ c + m <= p /\ c + 2 * n <= o /\ c + m <= o
  BY <1>2, <1>4, <1>5
<1>7. Clear(ResultHigh(f), ResultLow(f), p) /\ Clear(ResultLow(f), ResultHigh(f), p)
  BY <1>4, <1>6 DEF Clear, Apart
<1>8. Clear(ResultLow(f), T1(f), p) /\ Clear(ResultHigh(f), T1(f), p)
  BY <1>4, <1>6 DEF Clear, Apart
<1>9. Nested(f.r, o, ResultLow(f), p) /\ Nested(f.r, o, ResultHigh(f), p)
      /\ Nested(f.r, o, T1(f), p) /\ Nested(f.r, o, f.r, o)
  <2>1. Inside(ResultLow(f), f.r, o) /\ Inside(ResultHigh(f), f.r, o) /\ Inside(f.r, f.r, o)
    BY <1>2, <1>3, <1>4, <1>6 DEF Inside
  <2>2. Inside(T1(f), f.r, o)
    BY <1>4 DEF Inside
  <2>3. QED
    BY <1>4, <1>6, <2>1, <2>2 DEF Nested
<1>10. Clear(T2(f), T1(f), p)
  BY <1>4, <1>6 DEF Clear, Apart
<1>11. QED
  BY <1>3, <1>4, <1>6, <1>7, <1>8, <1>9, <1>10

(* Operands of a frame outlast what is written in a region within its own. *)
LEMMA TaskStays ==
  ASSUME NEW f, NEW o, NEW mem, NEW new, NEW size, NEW square,
         KaraTask(f, o, mem, size, square), NEW s, In(s, size), NEW p \in Nat,
         Nested(f.r, o, s, p), Confined(mem, new, size, s, p)
  PROVE  KaraTask(f, o, new, size, square)
<1>1. /\ o \in Nat /\ In(f.r, size) /\ In(f.a, size) /\ In(f.b, size)
      /\ Clear(f.a, f.r, o) /\ Clear(f.b, f.r, o)
  BY DEF KaraTask
<1>2. Clear(f.a, s, p) /\ Clear(f.b, s, p)
  BY <1>1, ClearNested
<1>3. Value(new, f.a) = Value(mem, f.a) /\ Value(new, f.b) = Value(mem, f.b)
  BY <1>1, <1>2, ConfinedKeeps
<1>4. QED
  BY <1>3 DEF KaraTask

LEMMA HalvesStay ==
  ASSUME NEW f, NEW o, NEW mem, NEW new, NEW size, NEW square,
         KaraTask(f, o, mem, size, square), SplitWell(f, o, size, square),
         NEW s, In(s, size), NEW p \in Nat,
         Nested(f.r, o, s, p), Confined(mem, new, size, s, p)
  PROVE  /\ Value(new, Low(f.a, f.n)) = Value(mem, Low(f.a, f.n))
         /\ Value(new, High(f.a, f.n)) = Value(mem, High(f.a, f.n))
         /\ Value(new, Low(f.b, f.n)) = Value(mem, Low(f.b, f.n))
         /\ Value(new, High(f.b, f.n)) = Value(mem, High(f.b, f.n))
         /\ LowLow(f, new) = LowLow(f, mem) /\ HighHigh(f, new) = HighHigh(f, mem)
         /\ SumSum(f, new) = SumSum(f, mem)
<1>1. /\ o \in Nat /\ In(f.r, size) /\ In(f.a, size) /\ In(f.b, size)
      /\ Clear(f.a, f.r, o) /\ Clear(f.b, f.r, o)
  BY DEF KaraTask
<1>2. Clear(f.a, s, p) /\ Clear(f.b, s, p)
  BY <1>1, ClearNested
<1>3. f.n \in Nat
  BY DEF SplitWell
<1>4. ASSUME NEW t, In(t, size), Clear(t, s, p)
      PROVE  /\ Value(new, Low(t, f.n)) = Value(mem, Low(t, f.n))
             /\ Value(new, High(t, f.n)) = Value(mem, High(t, f.n))
  <2>1. /\ In(Low(t, f.n), size) /\ PartOf(Low(t, f.n), t)
        /\ In(High(t, f.n), size) /\ PartOf(High(t, f.n), t)
    BY <1>3, <1>4, HalvesAre
  <2>2. Clear(Low(t, f.n), s, p) /\ Clear(High(t, f.n), s, p)
    BY <1>4, <2>1, ClearWithin
  <2>3. QED
    BY <2>1, <2>2, ConfinedKeeps
<1>5. /\ Value(new, Low(f.a, f.n)) = Value(mem, Low(f.a, f.n))
      /\ Value(new, High(f.a, f.n)) = Value(mem, High(f.a, f.n))
      /\ Value(new, Low(f.b, f.n)) = Value(mem, Low(f.b, f.n))
      /\ Value(new, High(f.b, f.n)) = Value(mem, High(f.b, f.n))
  BY <1>1, <1>2, <1>4
<1>6. QED
  BY <1>5 DEF LowLow, HighHigh, SumSum

LEMMA LowDoneStays ==
  ASSUME NEW f, NEW mem, NEW new, NEW size, NEW s, In(s, size), NEW p \in Nat,
         Confined(mem, new, size, s, p), In(ResultLow(f), size), Clear(ResultLow(f), s, p),
         ResultLow(f).n = 2 * f.n, f.n \in Nat,
         LowDone(f, mem), LowLow(f, new) = LowLow(f, mem)
  PROVE  LowDone(f, new)
<1>1. PICK k \in Nat : k = f.low /\ k <= ResultLow(f).n /\ f.low \in 0 .. 2 * f.n
  BY DEF LowDone
<1>2. PICK t : t = First(ResultLow(f), k) /\ In(t, size) /\ PartOf(t, ResultLow(f))
  <2>1. /\ In(First(ResultLow(f), k), size) /\ First(ResultLow(f), k).n = k
        /\ First(ResultLow(f), k).area = ResultLow(f).area
        /\ First(ResultLow(f), k).at = ResultLow(f).at
    BY <1>1, PartsIn
  <2>2. ResultLow(f).at \in Nat /\ ResultLow(f).n \in Nat
    BY InsideIs
  <2>3. PartOf(First(ResultLow(f), k), ResultLow(f))
    BY <1>1, <2>1, <2>2 DEF PartOf
  <2>4. QED
    BY <2>1, <2>3
<1>3. Clear(t, s, p)
  BY <1>2, ClearWithin
<1>4. Value(new, t) = Value(mem, t) /\ Value(new, ResultLow(f)) = Value(mem, ResultLow(f))
  BY <1>2, <1>3, ConfinedKeeps
<1>5. QED
  BY <1>1, <1>2, <1>4 DEF LowDone

LEMMA HighDoneStays ==
  ASSUME NEW f, NEW mem, NEW new, NEW size, NEW s, In(s, size), NEW p \in Nat,
         Confined(mem, new, size, s, p), In(ResultHigh(f), size), Clear(ResultHigh(f), s, p),
         HighDone(f, mem), HighHigh(f, new) = HighHigh(f, mem)
  PROVE  HighDone(f, new)
<1>1. Value(new, ResultHigh(f)) = Value(mem, ResultHigh(f))
  BY ConfinedKeeps
<1>2. QED
  BY <1>1 DEF HighDone

(* What a frame relies on while the call above it writes its own region. *)
LEMMA WaitingStays ==
  ASSUME NEW f, NEW o, NEW mem, NEW new, NEW size, NEW square \in BOOLEAN,
         KaraTask(f, o, mem, size, square), SplitWell(f, o, size, square),
         "scratch" \in DOMAIN size, size["scratch"] \in Nat,
         NEW p, p = o + BlockOf(f.n, square),
         NEW r, NEW product, WaitsFor(f, r, product, mem), Confined(mem, new, size, r, p)
  PROVE  WaitsFor(f, r, product, new) /\ KaraTask(f, o, new, size, square)
<1>1. /\ p \in Nat /\ o \in Nat /\ f.n \in Nat /\ In(ResultLow(f), size) /\ In(ResultHigh(f), size)
      /\ ResultLow(f).n = 2 * f.n /\ In(T1(f), size)
  BY SplitPlaces
<1>2. /\ Clear(ResultHigh(f), ResultLow(f), p) /\ Clear(ResultLow(f), ResultHigh(f), p)
      /\ Clear(ResultLow(f), T1(f), p) /\ Clear(ResultHigh(f), T1(f), p)
      /\ Nested(f.r, o, ResultLow(f), p) /\ Nested(f.r, o, ResultHigh(f), p)
      /\ Nested(f.r, o, T1(f), p)
  BY SplitApart
<1>3. In(r, size) /\ Nested(f.r, o, r, p)
  BY <1>1, <1>2 DEF WaitsFor
<1>4. KaraTask(f, o, new, size, square)
  BY <1>1, <1>3, TaskStays
<1>5. /\ LowLow(f, new) = LowLow(f, mem) /\ HighHigh(f, new) = HighHigh(f, mem)
      /\ SumSum(f, new) = SumSum(f, mem)
  BY <1>1, <1>3, HalvesStay
<1>6. CASE f.pc = "low"
  <2>1. r = ResultLow(f) /\ product = LowLow(f, mem) /\ Value(mem, ResultHigh(f)) = 0
    BY <1>6 DEF WaitsFor
  <2>2. Value(new, ResultHigh(f)) = 0
    BY <1>1, <1>2, <2>1, ConfinedKeeps
  <2>3. QED
    BY <1>4, <1>5, <1>6, <2>1, <2>2 DEF WaitsFor
<1>7. CASE f.pc = "high"
  <2>1. /\ r = ResultHigh(f) /\ product = HighHigh(f, mem) /\ LowDone(f, mem)
        /\ "high" \in DOMAIN f /\ f.high /\ f.n < f.a.n /\ f.n < f.b.n
    BY <1>7 DEF WaitsFor
  <2>2. LowDone(f, new)
    BY <1>1, <1>2, <1>5, <2>1, LowDoneStays
  <2>3. QED
    BY <1>4, <1>5, <1>7, <2>1, <2>2 DEF WaitsFor
<1>8. CASE f.pc = "cross"
  <2>1. /\ r = T1(f) /\ product = SumSum(f, mem)
        /\ LowDone(f, mem) /\ HighDone(f, mem)
        /\ "sums" \in DOMAIN f /\ f.sums \in 1 .. 2 * f.n + 2
        /\ SumSum(f, mem) < Power(Base, f.sums)
    BY <1>8 DEF WaitsFor
  <2>2. LowDone(f, new)
    BY <1>1, <1>2, <1>5, <2>1, LowDoneStays
  <2>3. HighDone(f, new)
    BY <1>1, <1>2, <1>5, <2>1, HighDoneStays
  <2>4. QED
    BY <1>4, <1>5, <1>8, <2>1, <2>2, <2>3 DEF WaitsFor
<1>9. QED
  BY <1>6, <1>7, <1>8 DEF WaitsFor

(* The stack of frames. The blocks of each begin where those of the one    *)
(* below end.                                                              *)

BeginsAt(fr, k, square) == IF k = 1 THEN 0 ELSE fr[k - 1].block + BlockOf(fr[k - 1].n, square)

(* The frame that runs; its blocks begin at o. *)
KaraTop(f, o, mem, size, square, offset) ==
  /\ f.pc \in {"enter", "low", "high", "sums", "cross", "return"}
  /\ f.pc \in {"enter", "return"} => offset = o
  /\ f.pc \in {"low", "high", "sums", "cross"} =>
       SplitWell(f, o, size, square) /\ offset = o + BlockOf(f.n, square)
  /\ f.pc = "enter" =>
       /\ Value(mem, f.r) = 0
       /\ "override" \in DOMAIN f /\ f.override \in Nat /\ (f.override = 0 \/ f.override >= 3)
       /\ f.override # 0 \/ CutoffOf(square) <= LargerOf(f.a.n, f.b.n) =>
            o + KaraPerLimb * LargerOf(f.a.n, f.b.n) <= size["scratch"]
  /\ f.pc = "return" => Value(mem, f.r) = f.product
  /\ f.pc = "low" => Value(mem, ResultLow(f)) = LowLow(f, mem) /\ Value(mem, ResultHigh(f)) = 0
  /\ f.pc = "high" => /\ LowDone(f, mem) /\ Value(mem, ResultHigh(f)) = HighHigh(f, mem)
                      /\ "high" \in DOMAIN f /\ f.high /\ f.n < f.a.n /\ f.n < f.b.n
  /\ f.pc \in {"sums", "cross"} => LowDone(f, mem) /\ HighDone(f, mem)
  /\ f.pc = "cross" => /\ "sums" \in DOMAIN f /\ f.sums \in 1 .. 2 * f.n + 2
                       /\ Value(mem, T1(f)) = SumSum(f, mem)
                       /\ SumSum(f, mem) < Power(Base, f.sums)

KaraBelow(fr, d, mem, size, square) ==
  /\ \A k \in 1 .. d - 1 : /\ KaraTask(fr[k], BeginsAt(fr, k, square), mem, size, square)
                           /\ SplitWell(fr[k], BeginsAt(fr, k, square), size, square)
                           /\ WaitsFor(fr[k], fr[k + 1].r, fr[k + 1].product, mem)
  /\ \A j, k \in 1 .. d : j < k => Nested(fr[j].r, BeginsAt(fr, j, square),
                                          fr[k].r, BeginsAt(fr, k, square))

KaraRunWell(x, d, size) ==
  /\ {"frames", "mem", "offset", "square"} \subseteq DOMAIN x
  /\ x.frames = [k \in 1 .. d |-> x.frames[k]] /\ x.square \in BOOLEAN
  /\ Memory(x.mem, size) /\ "scratch" \in DOMAIN size /\ size["scratch"] \in Nat
  /\ KaraBelow(x.frames, d, x.mem, size, x.square)
  /\ KaraTask(x.frames[d], BeginsAt(x.frames, d, x.square), x.mem, size, x.square)
  /\ KaraTop(x.frames[d], BeginsAt(x.frames, d, x.square), x.mem, size, x.square, x.offset)

KaraWell(x) == x = KaraIdle \/ \E d \in Nat \ {0} : \E size : KaraRunWell(x, d, size)

LEMMA KaraTopIs ==
  ASSUME NEW d \in Nat \ {0}, NEW size, KaraRunWell(kara, d, size)
  PROVE  /\ Len(kara.frames) = d /\ kara.frames # <<>> /\ KaraFrame = kara.frames[d]
         /\ \A g : /\ KaraBecomes(g) = [k \in 1 .. d |-> IF k = d THEN g ELSE kara.frames[k]]
                   /\ KaraBecomes(g)[d] = g
                   /\ \A k \in 1 .. d - 1 : KaraBecomes(g)[k] = kara.frames[k]
         /\ KaraReturned = KaraBecomes([kara.frames[d] EXCEPT !.pc = "return"])
<1>1. PICK fr : fr = kara.frames /\ fr = [k \in 1 .. d |-> fr[k]]
  BY DEF KaraRunWell
<1>2. Len(fr) = d /\ fr # <<>>
  <2>1. Len(fr) = d
    BY <1>1
  <2>2. QED
    BY <2>1
<1>3. ASSUME NEW g PROVE [fr EXCEPT ![d] = g] = [k \in 1 .. d |-> IF k = d THEN g ELSE fr[k]]
  BY <1>1, Zenon
<1>4. ASSUME NEW g
      PROVE  /\ [k \in 1 .. d |-> IF k = d THEN g ELSE fr[k]][d] = g
             /\ \A j \in 1 .. d - 1 : [k \in 1 .. d |-> IF k = d THEN g ELSE fr[k]][j] = fr[j]
  OBVIOUS
<1>5. \A g : KaraBecomes(g) = [fr EXCEPT ![d] = g]
  BY <1>1, <1>2 DEF KaraBecomes
<1>6. ASSUME NEW g
      PROVE  /\ KaraBecomes(g) = [k \in 1 .. d |-> IF k = d THEN g ELSE fr[k]]
             /\ KaraBecomes(g)[d] = g
             /\ \A k \in 1 .. d - 1 : KaraBecomes(g)[k] = fr[k]
  <2>1. KaraBecomes(g) = [k \in 1 .. d |-> IF k = d THEN g ELSE fr[k]]
    BY <1>3, <1>5, Zenon
  <2>2. QED
    BY <1>4, <2>1
<1>7. KaraFrame = kara.frames[d]
  BY <1>1, <1>2 DEF KaraFrame
<1>8. KaraReturned = KaraBecomes([kara.frames[d] EXCEPT !.pc = "return"])
  <2>1. KaraReturned = [fr EXCEPT ![d] = [fr[d] EXCEPT !.pc = "return"]]
    BY <1>1, <1>2, Zenon DEF KaraReturned
  <2>2. QED
    BY <1>1, <1>5, <2>1
<1>9. \A g : /\ KaraBecomes(g) = [k \in 1 .. d |-> IF k = d THEN g ELSE kara.frames[k]]
             /\ KaraBecomes(g)[d] = g
             /\ \A k \in 1 .. d - 1 : KaraBecomes(g)[k] = kara.frames[k]
  BY <1>1, <1>6
<1>10. Len(kara.frames) = d /\ kara.frames # <<>>
  BY <1>1, <1>2
<1>11. QED
  BY <1>7, <1>8, <1>9, <1>10, Zenon

LEMMA KaraBecomesIs ==
  ASSUME NEW d \in Nat \ {0}, NEW size, KaraRunWell(kara, d, size), NEW g
  PROVE  /\ KaraBecomes(g) = [k \in 1 .. d |-> IF k = d THEN g ELSE kara.frames[k]]
         /\ KaraBecomes(g)[d] = g
         /\ \A k \in 1 .. d - 1 : KaraBecomes(g)[k] = kara.frames[k]
<1>1. PICK fr : fr = kara.frames
  OBVIOUS
<1>2. KaraBecomes(g) = [k \in 1 .. d |-> IF k = d THEN g ELSE kara.frames[k]]
  BY KaraTopIs, Zenon
<1>3. KaraBecomes(g)[d] = g
  BY KaraTopIs, Zenon
<1>4. \A k \in 1 .. d - 1 : KaraBecomes(g)[k] = kara.frames[k]
  <2>1. KaraBecomes(g) = [k \in 1 .. d |-> IF k = d THEN g ELSE fr[k]]
    BY <1>1, <1>2
  <2>2. \A k \in 1 .. d - 1 : KaraBecomes(g)[k] = fr[k]
    BY <2>1
  <2>3. QED
    BY <1>1, <2>2
<1>5. QED
  BY <1>2, <1>3, <1>4

LEMMA NestedItself ==
  ASSUME NEW size, NEW r, In(r, size), NEW o \in Nat
  PROVE  Nested(r, o, r, o)
<1>1. r.at \in Nat /\ r.n \in Nat
  BY InsideIs
<1>2. QED
  BY <1>1 DEF Nested, Inside

(* The frames below d after a step of frame d within its region. *)
LEMMA KaraBelowStays ==
  ASSUME NEW d \in Nat \ {0}, NEW fr, NEW mem, NEW new, NEW size, NEW square \in BOOLEAN,
         KaraBelow(fr, d, mem, size, square), NEW o, o = BeginsAt(fr, d, square),
         KaraTask(fr[d], o, mem, size, square), "scratch" \in DOMAIN size, size["scratch"] \in Nat,
         Confined(mem, new, size, fr[d].r, o)
  PROVE  \A k \in 1 .. d - 1 : /\ KaraTask(fr[k], BeginsAt(fr, k, square), new, size, square)
                               /\ SplitWell(fr[k], BeginsAt(fr, k, square), size, square)
                               /\ WaitsFor(fr[k], fr[k + 1].r, fr[k + 1].product, new)
<1> TAKE k \in 1 .. d - 1
<1>1. k \in Nat /\ k < d /\ d \in Nat /\ k \in 1 .. d /\ d \in 1 .. d /\ k + 1 \in 1 .. d
      /\ (k + 1 < d \/ k + 1 = d) /\ (k + 1) - 1 = k /\ k + 1 # 1
  OBVIOUS
<1>2. PICK b : b = BeginsAt(fr, k, square)
  OBVIOUS
<1>3. /\ KaraTask(fr[k], b, mem, size, square) /\ SplitWell(fr[k], b, size, square)
      /\ WaitsFor(fr[k], fr[k + 1].r, fr[k + 1].product, mem)
  BY <1>2 DEF KaraBelow
<1>4. PICK p : p = b + BlockOf(fr[k].n, square)
  OBVIOUS
<1>5. BeginsAt(fr, k + 1, square) = p
  <2>1. fr[k].block = b
    BY <1>3 DEF SplitWell
  <2>2. BeginsAt(fr, k + 1, square) = fr[(k + 1) - 1].block + BlockOf(fr[(k + 1) - 1].n, square)
    BY <1>1 DEF BeginsAt
  <2>3. QED
    BY <1>1, <1>4, <2>1, <2>2
<1>6. p \in Nat
  BY <1>3, <1>4, SplitPlaces
<1>7. In(fr[k + 1].r, size)
  <2>1. CASE k + 1 = d
    BY <2>1 DEF KaraTask
  <2>2. CASE k + 1 < d
    <3>1. k + 1 \in 1 .. d - 1
      BY <1>1, <2>2
    <3>2. KaraTask(fr[k + 1], BeginsAt(fr, k + 1, square), mem, size, square)
      BY <3>1 DEF KaraBelow
    <3>3. QED
      BY <3>2 DEF KaraTask
  <2>3. QED
    BY <1>1, <2>1, <2>2
<1>8. o \in Nat /\ In(fr[d].r, size)
  BY DEF KaraTask
<1>9. Nested(fr[k + 1].r, p, fr[d].r, o)
  <2>1. CASE k + 1 < d
    BY <1>1, <1>5, <2>1 DEF KaraBelow
  <2>2. CASE k + 1 = d
    BY <1>5, <1>8, <2>2, NestedItself
  <2>3. QED
    BY <1>1, <2>1, <2>2
<1>10. Confined(mem, new, size, fr[k + 1].r, p)
  BY <1>6, <1>7, <1>8, <1>9, ConfinedNested
<1>11. WaitsFor(fr[k], fr[k + 1].r, fr[k + 1].product, new) /\ KaraTask(fr[k], b, new, size, square)
  BY <1>3, <1>4, <1>10, WaitingStays
<1>12. QED
  BY <1>2, <1>3, <1>11

KaraIs(x, fr, mem, o, square) ==
  /\ {"frames", "mem", "offset", "square"} \subseteq DOMAIN x
  /\ x.frames = fr /\ x.mem = mem /\ x.offset = o /\ x.square = square

LEMMA KaraRecord ==
  ASSUME NEW x, {"frames", "mem", "offset", "square"} \subseteq DOMAIN x,
         NEW fr, NEW mem, NEW o
  PROVE  /\ KaraIs([x EXCEPT !.mem = mem, !.frames = fr], fr, mem, x.offset, x.square)
         /\ KaraIs([x EXCEPT !.mem = mem, !.offset = o, !.frames = fr], fr, mem, o, x.square)
         /\ KaraIs([x EXCEPT !.offset = o, !.frames = fr], fr, x.mem, o, x.square)
         /\ KaraIs([x EXCEPT !.frames = fr], fr, x.mem, x.offset, x.square)
BY DEF KaraIs

(* The frame that runs goes on. *)
LEMMA KaraGoesOn ==
  ASSUME NEW d \in Nat \ {0}, NEW size, KaraRunWell(kara, d, size), NEW f, f = kara.frames[d],
         NEW o, o = BeginsAt(kara.frames, d, kara.square), NEW new, Memory(new, size),
         Confined(kara.mem, new, size, f.r, o), NEW offset,
         NEW g, g.r = f.r, g.product = f.product, KaraTask(g, o, new, size, kara.square),
         KaraTop(g, o, new, size, kara.square, offset),
         KaraIs(kara', KaraBecomes(g), new, offset, kara.square)
  PROVE  KaraRunWell(kara', d, size)
<1>1. PICK fr, mem, square : fr = kara.frames /\ mem = kara.mem /\ square = kara.square
  OBVIOUS
<1>2. PICK gr : /\ gr = KaraBecomes(g) /\ gr = [k \in 1 .. d |-> IF k = d THEN g ELSE fr[k]]
                /\ gr[d] = g /\ \A k \in 1 .. d - 1 : gr[k] = fr[k]
  <2>1. /\ KaraBecomes(g) = [k \in 1 .. d |-> IF k = d THEN g ELSE kara.frames[k]]
        /\ KaraBecomes(g)[d] = g
        /\ \A k \in 1 .. d - 1 : KaraBecomes(g)[k] = kara.frames[k]
    BY KaraBecomesIs
  <2>2. QED
    BY <1>1, <2>1
<1>3. /\ square \in BOOLEAN /\ "scratch" \in DOMAIN size /\ size["scratch"] \in Nat
      /\ KaraBelow(fr, d, mem, size, square) /\ KaraTask(fr[d], o, mem, size, square)
  BY <1>1 DEF KaraRunWell
<1>4. gr = [k \in 1 .. d |-> gr[k]]
  BY <1>2
<1>5. \A k \in 1 .. d - 1 : /\ KaraTask(fr[k], BeginsAt(fr, k, square), new, size, square)
                            /\ SplitWell(fr[k], BeginsAt(fr, k, square), size, square)
                            /\ WaitsFor(fr[k], fr[k + 1].r, fr[k + 1].product, new)
  <2>1. o = BeginsAt(fr, d, square) /\ Confined(mem, new, size, fr[d].r, o)
    BY <1>1
  <2>2. QED
    BY <1>3, <2>1, KaraBelowStays
<1>6. \A k \in 1 .. d : /\ gr[k].r = fr[k].r /\ gr[k].product = fr[k].product
                        /\ BeginsAt(gr, k, square) = BeginsAt(fr, k, square)
  <2> TAKE k \in 1 .. d
  <2>1. gr[k].r = fr[k].r /\ gr[k].product = fr[k].product
    BY <1>1, <1>2
  <2>2. CASE k = 1
    BY <2>1, <2>2 DEF BeginsAt
  <2>3. CASE k # 1
    <3>1. k - 1 \in 1 .. d - 1
      BY <2>3
    <3>2. gr[k - 1] = fr[k - 1]
      BY <1>2, <3>1
    <3>3. QED
      BY <2>1, <2>3, <3>2 DEF BeginsAt
  <2>4. QED
    BY <2>2, <2>3
<1>7. KaraBelow(gr, d, new, size, square)
  <2>1. ASSUME NEW k \in 1 .. d - 1
        PROVE  /\ KaraTask(gr[k], BeginsAt(gr, k, square), new, size, square)
               /\ SplitWell(gr[k], BeginsAt(gr, k, square), size, square)
               /\ WaitsFor(gr[k], gr[k + 1].r, gr[k + 1].product, new)
    <3>1. k \in 1 .. d /\ k + 1 \in 1 .. d
      OBVIOUS
    <3>2. gr[k] = fr[k] /\ gr[k + 1].r = fr[k + 1].r /\ gr[k + 1].product = fr[k + 1].product
          /\ BeginsAt(gr, k, square) = BeginsAt(fr, k, square)
      BY <1>2, <1>6, <3>1
    <3>3. QED
      BY <1>5, <3>2
  <2>2. \A j, k \in 1 .. d : j < k => Nested(gr[j].r, BeginsAt(gr, j, square),
                                             gr[k].r, BeginsAt(gr, k, square))
    <3>1. \A j, k \in 1 .. d : j < k => Nested(fr[j].r, BeginsAt(fr, j, square),
                                               fr[k].r, BeginsAt(fr, k, square))
      BY <1>3 DEF KaraBelow
    <3>2. QED
      BY <1>6, <3>1
  <2>3. QED
    BY <2>1, <2>2 DEF KaraBelow
<1>8. KaraIs(kara', gr, new, offset, square)
  BY <1>1, <1>2
<1>9. o = BeginsAt(gr, d, square)
  <2>1. d \in 1 .. d
    OBVIOUS
  <2>2. QED
    BY <1>1, <1>6, <2>1
<1>10. KaraTask(g, o, new, size, square) /\ KaraTop(g, o, new, size, square, offset)
  BY <1>1
<1>11. QED
  BY <1>2, <1>3, <1>4, <1>7, <1>8, <1>9, <1>10 DEF KaraRunWell, KaraIs

(* The frame that runs calls the kernel for a product of its halves. *)
LEMMA KaraCalls ==
  ASSUME NEW d \in Nat \ {0}, NEW size, KaraRunWell(kara, d, size), NEW f, f = kara.frames[d],
         NEW o, o = BeginsAt(kara.frames, d, kara.square), NEW new, Memory(new, size),
         Confined(kara.mem, new, size, f.r, o), NEW offset,
         NEW g, g.r = f.r, g.product = f.product, KaraTask(g, o, new, size, kara.square),
         SplitWell(g, o, size, kara.square), NEW p, p = o + BlockOf(g.n, kara.square),
         NEW h, WaitsFor(g, h.r, h.product, new), Nested(g.r, o, h.r, p),
         KaraTask(h, p, new, size, kara.square), KaraTop(h, p, new, size, kara.square, offset),
         KaraIs(kara', Append(KaraBecomes(g), h), new, offset, kara.square)
  PROVE  KaraRunWell(kara', d + 1, size)
<1>1. PICK fr, mem, square : fr = kara.frames /\ mem = kara.mem /\ square = kara.square
  OBVIOUS
<1>2. PICK gr : /\ gr = KaraBecomes(g) /\ gr = [k \in 1 .. d |-> IF k = d THEN g ELSE fr[k]]
                /\ gr[d] = g /\ \A k \in 1 .. d - 1 : gr[k] = fr[k]
  <2>1. /\ KaraBecomes(g) = [k \in 1 .. d |-> IF k = d THEN g ELSE kara.frames[k]]
        /\ KaraBecomes(g)[d] = g
        /\ \A k \in 1 .. d - 1 : KaraBecomes(g)[k] = kara.frames[k]
    BY KaraBecomesIs
  <2>2. QED
    BY <1>1, <2>1
<1>3. PICK hr : /\ hr = Append(gr, h) /\ hr = [k \in 1 .. d + 1 |-> hr[k]]
                /\ hr[d + 1] = h /\ \A k \in 1 .. d : hr[k] = gr[k]
  <2>1. gr = [k \in 1 .. d |-> gr[k]]
    BY <1>2
  <2>2. d \in Nat
    OBVIOUS
  <2>3. /\ Append(gr, h) = [k \in 1 .. d + 1 |-> Append(gr, h)[k]]
        /\ Append(gr, h)[d + 1] = h /\ \A k \in 1 .. d : Append(gr, h)[k] = gr[k]
    BY <2>1, <2>2, AppendIs
  <2>4. QED
    BY <2>3, Zenon
<1>4. /\ square \in BOOLEAN /\ "scratch" \in DOMAIN size /\ size["scratch"] \in Nat
      /\ KaraBelow(fr, d, mem, size, square) /\ KaraTask(fr[d], o, mem, size, square)
  BY <1>1 DEF KaraRunWell
<1>5. \A k \in 1 .. d - 1 : /\ KaraTask(fr[k], BeginsAt(fr, k, square), new, size, square)
                            /\ SplitWell(fr[k], BeginsAt(fr, k, square), size, square)
                            /\ WaitsFor(fr[k], fr[k + 1].r, fr[k + 1].product, new)
  <2>1. o = BeginsAt(fr, d, square) /\ Confined(mem, new, size, fr[d].r, o)
    BY <1>1
  <2>2. QED
    BY <1>4, <2>1, KaraBelowStays
<1>6. hr[d] = g /\ hr[d + 1] = h /\ \A k \in 1 .. d - 1 : hr[k] = fr[k]
  <2>1. d \in 1 .. d /\ \A k \in 1 .. d - 1 : k \in 1 .. d
    OBVIOUS
  <2>2. QED
    BY <1>2, <1>3, <2>1
<1>7. \A k \in 1 .. d : /\ hr[k].r = fr[k].r /\ hr[k].product = fr[k].product
                        /\ BeginsAt(hr, k, square) = BeginsAt(fr, k, square)
  <2> TAKE k \in 1 .. d
  <2>1. hr[k].r = fr[k].r /\ hr[k].product = fr[k].product
    <3>1. CASE k = d
      BY <1>1, <1>6, <3>1
    <3>2. CASE k # d
      BY <1>6, <3>2
    <3>3. QED
      BY <3>1, <3>2
  <2>2. CASE k = 1
    BY <2>1, <2>2 DEF BeginsAt
  <2>3. CASE k # 1
    <3>1. k - 1 \in 1 .. d - 1
      BY <2>3
    <3>2. hr[k - 1] = fr[k - 1]
      BY <1>6, <3>1
    <3>3. QED
      BY <2>1, <2>3, <3>2 DEF BeginsAt
  <2>4. QED
    BY <2>2, <2>3
<1>8. BeginsAt(hr, d, square) = o /\ BeginsAt(hr, d + 1, square) = p
  <2>1. BeginsAt(hr, d, square) = o
    <3>1. d \in 1 .. d
      OBVIOUS
    <3>2. QED
      BY <1>1, <1>7, <3>1
  <2>2. d + 1 # 1 /\ (d + 1) - 1 = d
    OBVIOUS
  <2>3. BeginsAt(hr, d + 1, square) = hr[(d + 1) - 1].block + BlockOf(hr[(d + 1) - 1].n, square)
    BY <2>2, Zenon DEF BeginsAt
  <2>4. BeginsAt(hr, d + 1, square) = g.block + BlockOf(g.n, square)
    BY <1>6, <2>2, <2>3
  <2>5. g.block = o
    BY DEF SplitWell
  <2>6. QED
    BY <1>1, <2>1, <2>4, <2>5
<1>9. ASSUME NEW k \in 1 .. d
      PROVE  /\ KaraTask(hr[k], BeginsAt(hr, k, square), new, size, square)
             /\ SplitWell(hr[k], BeginsAt(hr, k, square), size, square)
             /\ WaitsFor(hr[k], hr[k + 1].r, hr[k + 1].product, new)
  <2>1. CASE k = d
    <3>1. hr[k] = g /\ hr[k + 1] = h /\ BeginsAt(hr, k, square) = o
      BY <1>6, <1>8, <2>1
    <3>2. QED
      BY <1>1, <3>1
  <2>2. CASE k # d
    <3>1. k \in 1 .. d - 1 /\ k + 1 \in 1 .. d
      BY <2>2
    <3>2. hr[k] = fr[k] /\ hr[k + 1].r = fr[k + 1].r /\ hr[k + 1].product = fr[k + 1].product
          /\ BeginsAt(hr, k, square) = BeginsAt(fr, k, square)
      BY <1>6, <1>7, <3>1
    <3>3. QED
      BY <1>5, <3>1, <3>2
  <2>3. QED
    BY <2>1, <2>2
<1>10. \A j, k \in 1 .. d : j < k => Nested(hr[j].r, BeginsAt(hr, j, square),
                                            hr[k].r, BeginsAt(hr, k, square))
  <2>1. \A j, k \in 1 .. d : j < k => Nested(fr[j].r, BeginsAt(fr, j, square),
                                             fr[k].r, BeginsAt(fr, k, square))
    BY <1>4 DEF KaraBelow
  <2>2. QED
    BY <1>7, <2>1
<1>11. ASSUME NEW j \in 1 .. d
       PROVE  Nested(hr[j].r, BeginsAt(hr, j, square), hr[d + 1].r, BeginsAt(hr, d + 1, square))
  <2>1. CASE j = d
    BY <1>6, <1>8, <2>1
  <2>2. CASE j # d
    <3>1. j < d /\ d \in 1 .. d
      BY <2>2
    <3>2. Nested(hr[j].r, BeginsAt(hr, j, square), g.r, o)
      BY <1>6, <1>8, <1>10, <3>1
    <3>3. In(hr[j].r, size) /\ BeginsAt(hr, j, square) \in Nat
      BY <1>9 DEF KaraTask
    <3>4. In(g.r, size) /\ o \in Nat /\ In(h.r, size) /\ p \in Nat
      BY DEF KaraTask
    <3>5. Nested(hr[j].r, BeginsAt(hr, j, square), h.r, p)
      BY <3>2, <3>3, <3>4, NestedTransitive
    <3>6. QED
      BY <1>6, <1>8, <3>5
  <2>3. QED
    BY <2>1, <2>2
<1>12. KaraBelow(hr, d + 1, new, size, square)
  <2>1. (d + 1) - 1 = d /\ \A k \in 1 .. d + 1 : k \in 1 .. d \/ k = d + 1
    OBVIOUS
  <2>2. \A j, k \in 1 .. d + 1 : j < k => Nested(hr[j].r, BeginsAt(hr, j, square),
                                                 hr[k].r, BeginsAt(hr, k, square))
    <3> TAKE j, k \in 1 .. d + 1
    <3>1. CASE k = d + 1 /\ j < k
      <4>1. j \in 1 .. d
        BY <3>1
      <4>2. QED
        BY <1>11, <3>1, <4>1
    <3>2. CASE k # d + 1 /\ j < k
      <4>1. j \in 1 .. d /\ k \in 1 .. d
        BY <3>2
      <4>2. QED
        BY <1>10, <3>2, <4>1
    <3>3. QED
      BY <3>1, <3>2
  <2>3. QED
    BY <1>9, <2>1, <2>2 DEF KaraBelow
<1>13. KaraIs(kara', hr, new, offset, square)
  BY <1>1, <1>2, <1>3
<1>14. KaraTask(h, p, new, size, square) /\ KaraTop(h, p, new, size, square, offset)
  BY <1>1
<1>15. QED
  BY <1>3, <1>4, <1>8, <1>12, <1>13, <1>14 DEF KaraRunWell, KaraIs

(* The frame that runs has its product: the one below goes on with it. *)
LEMMA KaraPops ==
  ASSUME NEW d \in Nat \ {0}, d # 1, NEW size, KaraRunWell(kara, d, size),
         kara.frames[d].pc = "return",
         KaraIs(kara', SubSeq(kara.frames, 1, d - 1), kara.mem, kara.offset, kara.square)
  PROVE  d - 1 \in Nat \ {0} /\ KaraRunWell(kara', d - 1, size)
<1>1. PICK fr, mem, square, offset : fr = kara.frames /\ mem = kara.mem /\ square = kara.square
                                     /\ offset = kara.offset
  OBVIOUS
<1>2. PICK m \in Nat \ {0} : m = d - 1 /\ m + 1 = d
  OBVIOUS
<1>3. PICK gr : gr = SubSeq(fr, 1, m) /\ gr = [k \in 1 .. m |-> fr[k]]
                /\ \A k \in 1 .. m : gr[k] = fr[k]
  <2>1. fr = [k \in 1 .. d |-> fr[k]]
    BY <1>1 DEF KaraRunWell
  <2>2. SubSeq(fr, 1, d - 1) = [k \in 1 .. d - 1 |-> fr[k]]
    BY <2>1, FramesBut
  <2>3. QED
    BY <1>2, <2>2
<1>4. /\ square \in BOOLEAN /\ "scratch" \in DOMAIN size /\ size["scratch"] \in Nat
      /\ KaraBelow(fr, d, mem, size, square) /\ Memory(mem, size)
      /\ KaraTop(fr[d], BeginsAt(fr, d, square), mem, size, square, offset)
  BY <1>1 DEF KaraRunWell
<1>5. gr = [k \in 1 .. m |-> gr[k]]
  BY <1>3
<1>6. \A k \in 1 .. m : gr[k] = fr[k] /\ BeginsAt(gr, k, square) = BeginsAt(fr, k, square)
  <2> TAKE k \in 1 .. m
  <2>1. CASE k = 1
    BY <1>3, <2>1 DEF BeginsAt
  <2>2. CASE k # 1
    <3>1. k - 1 \in 1 .. m
      BY <2>2
    <3>2. QED
      BY <1>3, <2>2, <3>1 DEF BeginsAt
  <2>3. QED
    BY <2>1, <2>2
<1>7. \A k \in 1 .. m : /\ KaraTask(fr[k], BeginsAt(fr, k, square), mem, size, square)
                        /\ SplitWell(fr[k], BeginsAt(fr, k, square), size, square)
                        /\ WaitsFor(fr[k], fr[k + 1].r, fr[k + 1].product, mem)
  BY <1>2, <1>4 DEF KaraBelow
<1>8. KaraBelow(gr, m, mem, size, square)
  <2>1. ASSUME NEW k \in 1 .. m - 1
        PROVE  /\ KaraTask(gr[k], BeginsAt(gr, k, square), mem, size, square)
               /\ SplitWell(gr[k], BeginsAt(gr, k, square), size, square)
               /\ WaitsFor(gr[k], gr[k + 1].r, gr[k + 1].product, mem)
    <3>1. k \in 1 .. m /\ k + 1 \in 1 .. m
      OBVIOUS
    <3>2. QED
      BY <1>6, <1>7, <3>1
  <2>2. \A j, k \in 1 .. m : j < k => Nested(gr[j].r, BeginsAt(gr, j, square),
                                             gr[k].r, BeginsAt(gr, k, square))
    <3>1. \A j, k \in 1 .. d : j < k => Nested(fr[j].r, BeginsAt(fr, j, square),
                                               fr[k].r, BeginsAt(fr, k, square))
      BY <1>4 DEF KaraBelow
    <3>2. \A k \in 1 .. m : k \in 1 .. d
      BY <1>2
    <3>3. QED
      BY <1>6, <3>1, <3>2
  <2>3. QED
    BY <2>1, <2>2 DEF KaraBelow
<1>9. PICK g, b : g = fr[m] /\ b = BeginsAt(fr, m, square)
  OBVIOUS
<1>10. /\ m \in 1 .. m /\ KaraTask(g, b, mem, size, square) /\ SplitWell(g, b, size, square)
       /\ WaitsFor(g, fr[d].r, fr[d].product, mem)
  <2>1. m \in 1 .. m
    OBVIOUS
  <2>2. QED
    BY <1>2, <1>7, <1>9, <2>1
<1>11. Value(mem, fr[d].r) = fr[d].product /\ offset = BeginsAt(fr, d, square)
  BY <1>1, <1>4 DEF KaraTop
<1>12. offset = b + BlockOf(g.n, square)
  <2>1. BeginsAt(fr, d, square) = fr[d - 1].block + BlockOf(fr[d - 1].n, square)
    BY DEF BeginsAt
  <2>2. g.block = b
    BY <1>10 DEF SplitWell
  <2>3. QED
    BY <1>2, <1>9, <1>11, <2>1, <2>2
<1>13. KaraTop(g, b, mem, size, square, offset)
  <2>1. CASE g.pc = "low"
    BY <1>10, <1>11, <1>12, <2>1 DEF WaitsFor, KaraTop
  <2>2. CASE g.pc = "high"
    BY <1>10, <1>11, <1>12, <2>2 DEF WaitsFor, KaraTop
  <2>3. CASE g.pc = "cross"
    BY <1>10, <1>11, <1>12, <2>3 DEF WaitsFor, KaraTop
  <2>4. QED
    BY <1>10, <2>1, <2>2, <2>3 DEF WaitsFor
<1>14. gr[m] = g /\ BeginsAt(gr, m, square) = b
  BY <1>6, <1>9, <1>10
<1>15. KaraIs(kara', gr, mem, offset, square)
  BY <1>1, <1>2, <1>3
<1>16. KaraRunWell(kara', m, size)
  BY <1>4, <1>5, <1>8, <1>10, <1>13, <1>14, <1>15 DEF KaraRunWell, KaraIs
<1>17. QED
  BY <1>2, <1>16

(* What a store within the region of a frame does. *)
LEMMA FillsConfined ==
  ASSUME NEW mem, NEW new, NEW size, NEW r, NEW o \in Nat, In(r, size), NEW s, In(s, size),
         Inside(s, r, o), NEW v, Fills(mem, new, size, s, v)
  PROVE  Memory(new, size) /\ Confined(mem, new, size, r, o) /\ Value(new, s) = v
<1>1. Memory(new, size) /\ Changes(mem, new, size, s) /\ Value(new, s) = v
  BY DEF Fills
<1>2. Confined(mem, new, size, r, o)
  BY <1>1, ConfinedChanges
<1>3. QED
  BY <1>1, <1>2

LEMMA InsideItself ==
  ASSUME NEW size, NEW r, In(r, size), NEW o, NEW k \in Nat, k <= r.n
  PROVE  Inside(r, r, o) /\ Inside(First(r, k), r, o) /\ Inside(Subspan(r, k), r, o)
<1>1. PICK c \in Nat, m \in Nat : c = r.at /\ m = r.n /\ k <= m
  BY InsideIs
<1>2. /\ First(r, k).area = r.area /\ First(r, k).at = c /\ First(r, k).n = k
      /\ Subspan(r, k).area = r.area /\ Subspan(r, k).at = c + k /\ Subspan(r, k).n = m - k
  BY <1>1, PartsIn
<1>3. QED
  BY <1>1, <1>2 DEF Inside

(* The lowest limbs are written, those above have been zeros. *)
LEMMA FilledLow ==
  ASSUME NEW mem, NEW new, NEW size, Memory(mem, size), NEW r, In(r, size), NEW k \in Nat,
         k <= r.n, NEW v \in Nat, Fills(mem, new, size, First(r, k), v),
         Value(mem, Subspan(r, k)) = 0
  PROVE  Value(new, r) = v
<1>1. /\ In(First(r, k), size) /\ In(Subspan(r, k), size)
      /\ First(r, k).area = r.area /\ First(r, k).at = r.at /\ First(r, k).n = k
      /\ Subspan(r, k).area = r.area /\ Subspan(r, k).at = r.at + k
  BY PartsIn
<1>2. Apart(Subspan(r, k), First(r, k))
  <2>1. r.at \in Nat
    BY InsideIs
  <2>2. QED
    BY <1>1, <2>1 DEF Apart
<1>3. Memory(new, size) /\ Changes(mem, new, size, First(r, k)) /\ Value(new, First(r, k)) = v
  BY DEF Fills
<1>4. Value(new, Subspan(r, k)) = 0
  BY <1>1, <1>2, <1>3, ChangesKeep
<1>5. Value(new, r) = Value(new, First(r, k)) + Power(Base, k) * Value(new, Subspan(r, k))
  BY <1>3, ValueSplit
<1>6. QED
  BY <1>3, <1>4, <1>5, BasePower

LEMMA RestZero ==
  ASSUME NEW mem, NEW size, Memory(mem, size), NEW r, In(r, size), NEW k \in Nat, k <= r.n,
         Value(mem, r) = 0
  PROVE  Value(mem, First(r, k)) = 0 /\ Value(mem, Subspan(r, k)) = 0
<1>1. 0 < Power(Base, k)
  BY BasePower
<1>2. QED
  BY <1>1, LowLimbsHold

(* The frame that runs. *)
LEMMA KaraNow ==
  ASSUME NEW d \in Nat \ {0}, NEW size, KaraRunWell(kara, d, size),
         NEW f, f = KaraFrame, NEW o, o = BeginsAt(kara.frames, d, kara.square)
  PROVE  /\ f = kara.frames[d] /\ o \in Nat /\ Memory(kara.mem, size) /\ kara.square \in BOOLEAN
         /\ "scratch" \in DOMAIN size /\ size["scratch"] \in Nat
         /\ KaraTask(f, o, kara.mem, size, kara.square)
         /\ KaraTop(f, o, kara.mem, size, kara.square, kara.offset)
         /\ In(f.r, size) /\ Nested(f.r, o, f.r, o)
         /\ {"frames", "mem", "offset", "square"} \subseteq DOMAIN kara
<1>1. f = kara.frames[d]
  BY KaraTopIs
<1>2. /\ o \in Nat /\ Memory(kara.mem, size) /\ kara.square \in BOOLEAN
      /\ "scratch" \in DOMAIN size /\ size["scratch"] \in Nat
      /\ KaraTask(f, o, kara.mem, size, kara.square)
      /\ KaraTop(f, o, kara.mem, size, kara.square, kara.offset) /\ In(f.r, size)
      /\ {"frames", "mem", "offset", "square"} \subseteq DOMAIN kara
  BY <1>1 DEF KaraRunWell, KaraTask
<1>3. QED
  BY <1>1, <1>2, NestedItself

LEMMA KaraReturns ==
  ASSUME NEW d \in Nat \ {0}, NEW size, KaraRunWell(kara, d, size),
         NEW f, f = KaraFrame, NEW o, o = BeginsAt(kara.frames, d, kara.square),
         NEW new, Memory(new, size), Confined(kara.mem, new, size, f.r, o),
         Value(new, f.r) = f.product,
         KaraIs(kara', KaraReturned, new, o, kara.square)
  PROVE  KaraRunWell(kara', d, size)
<1>1. PICK g : g = [f EXCEPT !.pc = "return"]
  OBVIOUS
<1>2. /\ f = kara.frames[d] /\ o \in Nat /\ In(f.r, size) /\ Nested(f.r, o, f.r, o)
      /\ KaraTask(f, o, kara.mem, size, kara.square)
  BY KaraNow
<1>3. KaraTask(f, o, new, size, kara.square)
  BY <1>2, TaskStays
<1>4. "pc" \in DOMAIN f
  BY <1>2 DEF KaraTask
<1>5. /\ g.pc = "return" /\ g.r = f.r /\ g.a = f.a /\ g.b = f.b /\ g.product = f.product
      /\ DOMAIN g = DOMAIN f
  BY <1>1, <1>4
<1>6. KaraTask(g, o, new, size, kara.square)
  BY <1>3, <1>5 DEF KaraTask
<1>7. KaraTop(g, o, new, size, kara.square, o)
  BY <1>5 DEF KaraTop
<1>8. KaraReturned = KaraBecomes(g)
  BY <1>1, <1>2, KaraTopIs
<1>9. KaraIs(kara', KaraBecomes(g), new, o, kara.square)
  BY <1>8
<1>10. QED
  BY <1>2, <1>5, <1>6, <1>7, <1>9, KaraGoesOn

(* The trimmed operands of the frame that runs. *)
LEMMA KaraOperandsAre ==
  ASSUME NEW d \in Nat \ {0}, NEW size, KaraRunWell(kara, d, size),
         NEW f, f = KaraFrame, NEW o, o = BeginsAt(kara.frames, d, kara.square)
  PROVE  /\ In(KaraA(f), size) /\ KaraA(f).n \in 1 .. f.a.n
         /\ Value(kara.mem, KaraA(f)) = Value(kara.mem, f.a) /\ Clear(KaraA(f), f.r, o)
         /\ In(KaraB(f), size) /\ KaraB(f).n \in 1 .. f.b.n
         /\ Value(kara.mem, KaraB(f)) = Value(kara.mem, f.b) /\ Clear(KaraB(f), f.r, o)
         /\ kara.square => KaraA(f) = KaraB(f)
         /\ KaraA(f).n + KaraB(f).n <= f.r.n /\ f.a.n \in Nat /\ f.b.n \in Nat /\ f.r.n \in Nat
<1>1. PICK mem : mem = kara.mem /\ Memory(mem, size) /\ KaraTask(f, o, mem, size, kara.square)
                 /\ In(f.r, size) /\ o \in Nat /\ kara.square \in BOOLEAN
  BY KaraNow
<1>2. ASSUME NEW s, In(s, size), s.n # 0, Clear(s, f.r, o)
      PROVE  /\ In(TrimmedSpan(mem, s), size) /\ TrimmedSpan(mem, s).n \in 1 .. s.n
             /\ Value(mem, TrimmedSpan(mem, s)) = Value(mem, s)
             /\ Clear(TrimmedSpan(mem, s), f.r, o)
  <2>1. PICK t : t = TrimmedSpan(mem, s) /\ In(t, size) /\ t.area = s.area /\ t.at = s.at
                 /\ t.n \in 1 .. s.n /\ Value(mem, t) = Value(mem, s)
    BY <1>1, <1>2, TrimmedIs
  <2>2. s.n \in Nat /\ s.at \in Nat /\ t.n \in Nat
    BY <1>2, <2>1, InsideIs
  <2>3. PartOf(t, s)
    BY <2>1, <2>2 DEF PartOf
  <2>4. Clear(t, f.r, o)
    BY <1>1, <1>2, <2>1, <2>3, ClearWithin
  <2>5. QED
    BY <2>1, <2>4
<1>3. /\ In(f.a, size) /\ f.a.n # 0 /\ Clear(f.a, f.r, o)
      /\ In(f.b, size) /\ f.b.n # 0 /\ Clear(f.b, f.r, o)
      /\ f.a.n + f.b.n <= f.r.n /\ (kara.square => f.a = f.b)
  BY <1>1 DEF KaraTask
<1>4. KaraA(f) = TrimmedSpan(mem, f.a) /\ KaraB(f) = TrimmedSpan(mem, f.b)
      /\ (kara.square => KaraA(f) = KaraB(f))
  BY <1>1, <1>3 DEF KaraA, KaraB
<1>5. /\ In(KaraA(f), size) /\ KaraA(f).n \in 1 .. f.a.n
      /\ Value(mem, KaraA(f)) = Value(mem, f.a) /\ Clear(KaraA(f), f.r, o)
  BY <1>2, <1>3, <1>4
<1>6. /\ In(KaraB(f), size) /\ KaraB(f).n \in 1 .. f.b.n
      /\ Value(mem, KaraB(f)) = Value(mem, f.b) /\ Clear(KaraB(f), f.r, o)
  BY <1>2, <1>3, <1>4
<1>7. f.a.n \in Nat /\ f.b.n \in Nat /\ f.r.n \in Nat
  BY <1>1, <1>3, InsideIs
<1>8. KaraA(f).n + KaraB(f).n <= f.r.n
  BY <1>3, <1>5, <1>6, <1>7
<1>9. QED
  BY <1>1, <1>4, <1>5, <1>6, <1>7, <1>8

LEMMA KaraBaseWell ==
  ASSUME NEW d \in Nat \ {0}, NEW size, KaraRunWell(kara, d, size), KaraBase
  PROVE  KaraRunWell(kara', d, size)
<1>1. PICK f, o, mem : f = KaraFrame /\ o = BeginsAt(kara.frames, d, kara.square)
                       /\ mem = kara.mem
  OBVIOUS
<1>2. /\ f = kara.frames[d] /\ o \in Nat /\ Memory(mem, size) /\ In(f.r, size)
      /\ KaraTask(f, o, mem, size, kara.square) /\ f.pc = "enter"
      /\ KaraTop(f, o, mem, size, kara.square, kara.offset)
      /\ {"frames", "mem", "offset", "square"} \subseteq DOMAIN kara
  BY <1>1, KaraNow DEF KaraBase
<1>3. PICK a, b : a = KaraA(f) /\ b = KaraB(f)
  OBVIOUS
<1>4. PICK m \in Nat, n \in Nat, k \in Nat :
        /\ m = a.n /\ n = b.n /\ k = m + n /\ k <= f.r.n /\ In(a, size) /\ In(b, size)
        /\ Value(mem, a) = Value(mem, f.a) /\ Value(mem, b) = Value(mem, f.b)
  <2>1. /\ In(a, size) /\ a.n \in 1 .. f.a.n /\ Value(mem, a) = Value(mem, f.a)
        /\ In(b, size) /\ b.n \in 1 .. f.b.n /\ Value(mem, b) = Value(mem, f.b)
        /\ a.n + b.n <= f.r.n
    BY <1>1, <1>3, KaraOperandsAre
  <2>2. a.n \in Nat /\ b.n \in Nat
    BY <2>1, InsideIs
  <2>3. QED
    BY <2>1, <2>2
<1>5. PICK v \in Nat : v = Value(mem, a) * Value(mem, b) /\ v < Power(Base, k) /\ v = f.product
  <2>1. /\ Value(mem, a) \in Nat /\ Value(mem, a) < Power(Base, m)
        /\ Value(mem, b) \in Nat /\ Value(mem, b) < Power(Base, n)
    BY <1>2, <1>4, ValueType
  <2>2. Value(mem, a) * Value(mem, b) \in Nat /\ Value(mem, a) * Value(mem, b) < Power(Base, m + n)
    BY <2>1, ProductFits
  <2>3. f.product = Value(mem, f.a) * Value(mem, f.b)
    BY <1>2 DEF KaraTask
  <2>4. QED
    BY <1>4, <2>2, <2>3
<1>6. PICK new : new = Store(mem, First(f.r, k), v)
  OBVIOUS
<1>7. kara' = [kara EXCEPT !.mem = new, !.frames = KaraReturned]
  BY <1>1, <1>3, <1>4, <1>5, <1>6, Zenon DEF KaraBase
<1>8. In(First(f.r, k), size) /\ First(f.r, k).n = k
  BY <1>2, <1>4, PartsIn
<1>9. Fills(mem, new, size, First(f.r, k), v)
  BY <1>2, <1>5, <1>6, <1>8, StoreFills
<1>10. Inside(First(f.r, k), f.r, o)
  BY <1>2, <1>4, InsideItself
<1>11. Memory(new, size) /\ Confined(mem, new, size, f.r, o)
  BY <1>2, <1>8, <1>9, <1>10, FillsConfined
<1>12. Value(new, f.r) = v
  <2>1. Value(mem, f.r) = 0
    BY <1>2 DEF KaraTop
  <2>2. Value(mem, Subspan(f.r, k)) = 0
    BY <1>2, <1>4, <2>1, RestZero
  <2>3. QED
    BY <1>2, <1>4, <1>9, <2>2, FilledLow
<1>13. kara.offset = o
  BY <1>2 DEF KaraTop
<1>14. KaraIs(kara', KaraReturned, new, o, kara.square)
  BY <1>2, <1>7, <1>13, KaraRecord
<1>15. Value(new, f.r) = f.product
  BY <1>5, <1>12
<1>16. QED
  BY <1>1, <1>11, <1>14, <1>15, KaraReturns

(* The workspace of a call of s limbs has room for its block and for that of the halves. *)
LEMMA SplitRoom ==
  ASSUME NEW P \in Nat, P >= 5, NEW c \in Nat, c >= 5, (P - 4) * (c - 2) >= 2 * P + 8,
         NEW s \in Nat, s >= 3, NEW h \in Nat, 2 * h <= s
  PROVE  /\ P * s \in Nat /\ 4 * h + 8 <= P * s
         /\ c <= h + 2 => 4 * h + 8 + P * (h + 2) <= P * s
<1>1. P * s \in Nat /\ 5 * s <= P * s
  BY MulPos
<1>2. 4 * h + 8 <= P * s
  BY <1>1
<1>3. ASSUME c <= h + 2 PROVE 4 * h + 8 + P * (h + 2) <= P * s
  <2>1. PICK e \in Nat, k \in Nat, x \in Nat : e = P - 4 /\ k = c - 2 /\ x = h - k
    <3>1. P - 4 \in Nat /\ c - 2 \in Nat /\ h - (c - 2) \in Nat
      BY <1>3
    <3>2. QED
      BY <3>1
  <2>2. e * k >= 2 * P + 8 /\ h = k + x
    BY <2>1
  <2>3. e * h = e * k + e * x /\ e * x \in Nat /\ e * k \in Nat /\ e * h \in Nat
    BY <2>2
  <2>4. P * h = e * h + 4 * h
    <3>1. P = e + 4
      BY <2>1
    <3>2. QED
      BY <3>1
  <2>5. P * (h + 2) = P * h + 2 * P /\ P * h \in Nat
    OBVIOUS
  <2>6. P * (2 * h) <= P * s /\ P * (2 * h) = P * h + P * h
    <3>1. (2 * h) * P <= s * P
      BY MulPos
    <3>2. QED
      BY <3>1
  <2>7. QED
    BY <1>1, <2>2, <2>3, <2>4, <2>5, <2>6
<1>4. QED
  BY <1>1, <1>2, <1>3

(* A call for a product that lies in w, of parts no longer than a half and one limb. *)
LEMMA ChildWell ==
  ASSUME NEW g, NEW o, NEW mem, NEW size, NEW square \in BOOLEAN, Memory(mem, size),
         KaraTask(g, o, mem, size, square), SplitWell(g, o, size, square),
         "scratch" \in DOMAIN size, size["scratch"] \in Nat,
         NEW p, p = o + BlockOf(g.n, square), p \in Nat,
         NEW w, In(w, size), w.area = "scratch" => w.at + w.n <= p, Value(mem, w) = 0,
         NEW x, In(x, size), x.n # 0, x.n <= g.n + 1, Clear(x, w, p),
         NEW y, In(y, size), y.n # 0, y.n <= g.n + 1, Clear(y, w, p),
         x.n + y.n <= w.n, square => x = y,
         NEW h, h = KaraCall(mem, w, x, y, 0)
  PROVE  /\ h.r = w /\ h.product = Value(mem, x) * Value(mem, y)
         /\ KaraTask(h, p, mem, size, square) /\ KaraTop(h, p, mem, size, square, p)
<1>1. h = [pc |-> "enter", r |-> w, a |-> x, b |-> y, override |-> 0,
           product |-> Value(mem, x) * Value(mem, y)]
  BY DEF KaraCall
<1>2. /\ {"pc", "r", "a", "b", "product", "override"} \subseteq DOMAIN h
      /\ h.pc = "enter" /\ h.r = w /\ h.a = x /\ h.b = y /\ h.override = 0
      /\ h.product = Value(mem, x) * Value(mem, y)
  BY <1>1
<1>3. KaraTask(h, p, mem, size, square)
  BY <1>2 DEF KaraTask
<1>4. PICK l \in Nat, n \in Nat : l = LargerOf(x.n, y.n) /\ n = g.n /\ l <= n + 1
  <2>1. PICK j \in Nat, k \in Nat : j = x.n /\ k = y.n
    BY InsideIs
  <2>2. LargerOf(j, k) \in Nat /\ (LargerOf(j, k) = j \/ LargerOf(j, k) = k)
    BY LargerIs
  <2>3. QED
    BY <2>1, <2>2 DEF SplitWell
<1>5. ASSUME CutoffOf(square) <= l PROVE p + KaraPerLimb * l <= size["scratch"]
  <2>1. KaraPerLimb \in Nat /\ CutoffOf(square) \in Nat
    BY KaraAssumption DEF CutoffOf
  <2>2. CutoffOf(square) <= n + 1
    BY <1>4, <1>5, <2>1
  <2>3. p + KaraPerLimb * (n + 1) <= size["scratch"]
    BY <1>4, <2>2 DEF SplitWell
  <2>4. PICK s \in Nat, t \in Nat : s = KaraPerLimb * l /\ t = KaraPerLimb * (n + 1) /\ s <= t
    <3>1. l * KaraPerLimb <= (n + 1) * KaraPerLimb
      BY <1>4, <2>1, MulPos
    <3>2. KaraPerLimb * l \in Nat /\ KaraPerLimb * (n + 1) \in Nat
      BY <2>1
    <3>3. KaraPerLimb * l <= KaraPerLimb * (n + 1)
      BY <2>1, <3>1
    <3>4. QED
      BY <3>2, <3>3
  <2>5. QED
    BY <2>3, <2>4
<1>6. KaraTop(h, p, mem, size, square, p)
  BY <1>2, <1>4, <1>5 DEF KaraTop
<1>7. QED
  BY <1>2, <1>3, <1>6

(* The halves of the operands and a window of the frame. *)
LEMMA HalvesClear ==
  ASSUME NEW g, NEW o, NEW mem, NEW size, NEW square,
         KaraTask(g, o, mem, size, square), g.n \in Nat,
         NEW w, In(w, size), NEW p \in Nat, Nested(g.r, o, w, p)
  PROVE  /\ Clear(Low(g.a, g.n), w, p) /\ Clear(High(g.a, g.n), w, p)
         /\ Clear(Low(g.b, g.n), w, p) /\ Clear(High(g.b, g.n), w, p)
<1>1. /\ o \in Nat /\ In(g.r, size) /\ In(g.a, size) /\ In(g.b, size)
      /\ Clear(g.a, g.r, o) /\ Clear(g.b, g.r, o)
  BY DEF KaraTask
<1>2. Clear(g.a, w, p) /\ Clear(g.b, w, p)
  BY <1>1, ClearNested
<1>3. ASSUME NEW t, In(t, size), Clear(t, w, p)
      PROVE  Clear(Low(t, g.n), w, p) /\ Clear(High(t, g.n), w, p)
  <2>1. /\ In(Low(t, g.n), size) /\ PartOf(Low(t, g.n), t)
        /\ In(High(t, g.n), size) /\ PartOf(High(t, g.n), t)
    BY <1>3, HalvesAre
  <2>2. QED
    BY <1>3, <2>1, ClearWithin
<1>4. QED
  BY <1>1, <1>2, <1>3

LEMMA KaraSplitWell ==
  ASSUME NEW d \in Nat \ {0}, NEW size, KaraRunWell(kara, d, size), KaraSplit
  PROVE  KaraRunWell(kara', d + 1, size)
<1>1. PICK f, o, mem, square :
        f = KaraFrame /\ o = BeginsAt(kara.frames, d, kara.square) /\ mem = kara.mem
        /\ square = kara.square
  OBVIOUS
<1>2. /\ f = kara.frames[d] /\ o \in Nat /\ Memory(mem, size) /\ In(f.r, size)
      /\ KaraTask(f, o, mem, size, square) /\ f.pc = "enter" /\ square \in BOOLEAN
      /\ "scratch" \in DOMAIN size /\ size["scratch"] \in Nat /\ Nested(f.r, o, f.r, o)
      /\ KaraTop(f, o, mem, size, square, kara.offset)
      /\ {"frames", "mem", "offset", "square"} \subseteq DOMAIN kara
  BY <1>1, KaraNow DEF KaraSplit
<1>3. PICK a, b : a = KaraA(f) /\ b = KaraB(f)
  OBVIOUS
<1>4. /\ In(a, size) /\ a.n \in 1 .. f.a.n /\ Value(mem, a) = Value(mem, f.a)
      /\ Clear(a, f.r, o)
      /\ In(b, size) /\ b.n \in 1 .. f.b.n /\ Value(mem, b) = Value(mem, f.b)
      /\ Clear(b, f.r, o) /\ (square => a = b)
      /\ a.n + b.n <= f.r.n /\ f.a.n \in Nat /\ f.b.n \in Nat /\ f.r.n \in Nat
  BY <1>1, <1>3, KaraOperandsAre
<1>5. PICK i \in Nat, j \in Nat, c \in Nat :
        /\ i = a.n /\ j = b.n /\ c = Cutoff(f) /\ i >= c /\ j >= c /\ c >= 3
        /\ (f.override # 0 \/ c = CutoffOf(square))
  <2>1. a.n >= Cutoff(f) /\ b.n >= Cutoff(f)
    BY <1>1, <1>3 DEF KaraSplit
  <2>2. f.override \in Nat /\ (f.override = 0 \/ f.override >= 3)
    BY <1>2 DEF KaraTop
  <2>3. Cutoff(f) \in Nat /\ Cutoff(f) >= 3 /\ (f.override # 0 \/ Cutoff(f) = CutoffOf(square))
    BY <1>1, <2>2, KaraAssumption DEF Cutoff, CutoffOf
  <2>4. QED
    BY <1>4, <2>1, <2>3
<1>6. PICK s \in Nat, h \in Nat, n \in Nat \ {0} :
        /\ s = LargerOf(i, j) /\ i <= s /\ j <= s /\ (s = i \/ s = j) /\ s >= 3
        /\ h = s \div 2 /\ 2 * h <= s /\ s <= 2 * h + 1 /\ n = h + 1 /\ n = Half(f)
  <2>1. PICK s \in Nat : s = LargerOf(i, j) /\ i <= s /\ j <= s /\ (s = i \/ s = j)
    BY LargerIs
  <2>2. PICK h \in Nat : h = s \div 2 /\ 2 * h <= s /\ s <= 2 * h + 1
    OBVIOUS
  <2>3. Half(f) = h + 1
    BY <1>3, <1>5, <2>1, <2>2 DEF Half
  <2>4. QED
    BY <1>5, <2>1, <2>2, <2>3
<1>7. PICK g : g = [pc |-> "low", r |-> f.r, a |-> a, b |-> b, n |-> n, block |-> kara.offset,
                    product |-> f.product]
  OBVIOUS
<1>8. kara.offset = o
  BY <1>2 DEF KaraTop
<1>9. /\ {"pc", "r", "a", "b", "product", "n", "block"} \subseteq DOMAIN g
      /\ g.pc = "low" /\ g.r = f.r /\ g.a = a /\ g.b = b /\ g.n = n /\ g.block = o
      /\ g.product = f.product
  BY <1>7, <1>8
<1>10. KaraTask(g, o, mem, size, square)
  BY <1>2, <1>4, <1>9 DEF KaraTask
<1>11. o + KaraPerLimb * s <= size["scratch"]
  <2>1. PICK t \in Nat : t = LargerOf(f.a.n, f.b.n) /\ f.a.n <= t /\ f.b.n <= t
    <3>1. PICK x \in Nat, y \in Nat : x = f.a.n /\ y = f.b.n
      BY <1>4
    <3>2. LargerOf(x, y) \in Nat /\ x <= LargerOf(x, y) /\ y <= LargerOf(x, y)
      BY LargerIs
    <3>3. QED
      BY <3>1, <3>2
  <2>2. s <= t
    BY <1>4, <1>5, <1>6, <2>1
  <2>3. f.override # 0 \/ CutoffOf(square) <= t
    BY <1>5, <1>6, <2>2
  <2>4. o + KaraPerLimb * t <= size["scratch"]
    BY <1>2, <2>1, <2>3 DEF KaraTop
  <2>5. PICK P \in Nat : P = KaraPerLimb
    BY KaraAssumption
  <2>6. P * s \in Nat /\ P * t \in Nat /\ P * s <= P * t
    <3>1. s * P <= t * P
      BY <2>2, MulPos
    <3>2. QED
      BY <3>1
  <2>7. QED
    BY <1>2, <2>4, <2>5, <2>6
<1>12. SplitWell(g, o, size, square)
  <2>1. a.n <= 2 * n /\ b.n <= 2 * n /\ 2 * n <= f.r.n
    BY <1>4, <1>5, <1>6
  <2>2. PICK P \in Nat, e \in Nat, q \in Nat :
          /\ P = KaraPerLimb /\ e = CutoffOf(square) /\ P >= 5 /\ e >= 5
          /\ (P - 4) * (e - 2) >= 2 * P + 8 /\ q = P * s /\ o + q <= size["scratch"]
    <3>1. KaraPerLimb \in Nat /\ KaraPerLimb >= 5 /\ CutoffOf(square) \in Nat
          /\ CutoffOf(square) >= 5
          /\ (KaraPerLimb - 4) * (CutoffOf(square) - 2) >= 2 * KaraPerLimb + 8
      BY KaraAssumption DEF CutoffOf
    <3>2. KaraPerLimb * s \in Nat
      BY <3>1
    <3>3. QED
      BY <1>11, <3>1, <3>2
  <2>3. 4 * h + 8 <= q /\ (e <= h + 2 => 4 * h + 8 + P * (h + 2) <= q)
    BY <1>6, <2>2, SplitRoom
  <2>4. BlockOf(n, square) \in Nat /\ BlockOf(n, square) <= 4 * h + 8
    BY <1>6 DEF BlockOf
  <2>5. o + BlockOf(n, square) <= size["scratch"]
    BY <1>2, <2>2, <2>3, <2>4
  <2>6. ASSUME e <= n + 1 PROVE o + BlockOf(n, square) + P * (n + 1) <= size["scratch"]
    <3>1. n + 1 = h + 2
      BY <1>6
    <3>2. PICK u \in Nat : u = P * (n + 1)
      BY <2>2
    <3>3. 4 * h + 8 + u <= q
      BY <2>3, <2>6, <3>1, <3>2
    <3>4. QED
      BY <1>2, <2>2, <2>4, <3>2, <3>3
  <2>7. QED
    BY <1>9, <2>1, <2>2, <2>5, <2>6 DEF SplitWell
<1>13. PICK p \in Nat : p = o + BlockOf(g.n, square)
  BY <1>2, <1>10, <1>12, SplitPlaces
<1>14. PICK w : w = ResultLow(g) /\ In(w, size) /\ w.n = 2 * n /\ Nested(g.r, o, w, p)
                /\ (w.area = "scratch" => w.at + w.n <= p)
  <2>1. In(ResultLow(g), size) /\ ResultLow(g).n = 2 * g.n /\ ResultLow(g).area = g.r.area
    BY <1>2, <1>10, <1>12, <1>13, SplitPlaces
  <2>2. Nested(g.r, o, ResultLow(g), p)
        /\ (g.r.area = "scratch" => ResultLow(g).at + ResultLow(g).n <= p)
    BY <1>2, <1>10, <1>12, <1>13, SplitApart
  <2>3. QED
    BY <1>9, <2>1, <2>2
<1>15. PICK x, y : x = Low(a, n) /\ y = Low(b, n)
  OBVIOUS
<1>16. /\ In(x, size) /\ x.n # 0 /\ x.n <= n /\ In(y, size) /\ y.n # 0 /\ y.n <= n
       /\ x.n \in Nat /\ y.n \in Nat
  <2>1. ASSUME NEW t, In(t, size), t.n # 0
        PROVE  In(Low(t, n), size) /\ Low(t, n).n # 0 /\ Low(t, n).n <= n /\ Low(t, n).n \in Nat
    <3>1. /\ In(Low(t, n), size) /\ Low(t, n).n <= n
          /\ t.n <= n => Low(t, n).n = t.n
          /\ n < t.n => Low(t, n).n = n
      <4>1. In(t, size) /\ n \in Nat
        BY <2>1
      <4>2. /\ In(Low(t, n), size) /\ PartOf(Low(t, n), t) /\ Low(t, n).n <= n
            /\ In(High(t, n), size) /\ PartOf(High(t, n), t)
            /\ t.n <= n => Low(t, n).n = t.n /\ High(t, n).n = 0
            /\ n < t.n => Low(t, n).n = n /\ High(t, n).n = t.n - n
            /\ Low(t, n).n + High(t, n).n = t.n
        BY <4>1, HalvesAre
      <4>3. QED
        BY <4>2
    <3>2. t.n \in Nat /\ Low(t, n).n \in Nat
      BY <2>1, <3>1, InsideIs
    <3>3. QED
      BY <2>1, <3>1, <3>2
  <2>2. QED
    BY <1>4, <1>15, <2>1
<1>17. Clear(x, w, p) /\ Clear(y, w, p)
  BY <1>9, <1>10, <1>14, <1>15, HalvesClear
<1>18. Value(mem, w) = 0 /\ Value(mem, ResultHigh(g)) = 0
  <2>1. Value(mem, f.r) = 0
    BY <1>2 DEF KaraTop
  <2>2. 2 * n \in Nat /\ 2 * n <= f.r.n
    BY <1>9, <1>12 DEF SplitWell
  <2>3. Value(mem, First(f.r, 2 * n)) = 0 /\ Value(mem, Subspan(f.r, 2 * n)) = 0
    BY <1>2, <2>1, <2>2, RestZero
  <2>4. QED
    BY <1>9, <1>14, <2>3 DEF ResultLow, ResultHigh
<1>19. PICK c2 : c2 = KaraCall(mem, w, x, y, 0)
  OBVIOUS
<1>20. /\ c2.r = w /\ c2.product = Value(mem, x) * Value(mem, y)
       /\ KaraTask(c2, p, mem, size, square) /\ KaraTop(c2, p, mem, size, square, p)
  <2>1. x.n <= g.n + 1 /\ y.n <= g.n + 1 /\ x.n + y.n <= w.n /\ (square => x = y)
    BY <1>4, <1>9, <1>14, <1>15, <1>16
  <2>2. QED
    BY <1>2, <1>10, <1>12, <1>13, <1>14, <1>16, <1>17, <1>18, <1>19, <2>1, ChildWell
<1>21. WaitsFor(g, c2.r, c2.product, mem)
  <2>1. LowLow(g, mem) = Value(mem, x) * Value(mem, y)
    BY <1>9, <1>15 DEF LowLow
  <2>2. QED
    BY <1>9, <1>14, <1>18, <1>20, <2>1 DEF WaitsFor
<1>22. kara' = [kara EXCEPT !.offset = p, !.frames = Append(KaraBecomes(g), c2)]
  <2>1. BlockSize(n) = BlockOf(g.n, square)
    BY <1>1, <1>9 DEF BlockSize, BlockOf
  <2>2. kara' = [kara EXCEPT !.offset = kara.offset + BlockSize(n),
                             !.frames = Append(KaraBecomes(g), c2)]
    <3>1. ResultLow(g) = w /\ Low(g.a, n) = x /\ Low(g.b, n) = y
      BY <1>9, <1>14, <1>15
    <3>2. KaraFrame = f /\ Half(KaraFrame) = n /\ KaraA(KaraFrame) = a /\ KaraB(KaraFrame) = b
      BY <1>1, <1>3, <1>6
    <3>3. QED
      BY <1>1, <1>7, <1>19, <3>1, <3>2, Zenon DEF KaraSplit
  <2>3. QED
    BY <1>8, <1>13, <2>1, <2>2
<1>23. KaraIs(kara', Append(KaraBecomes(g), c2), mem, p, square)
  BY <1>1, <1>2, <1>22, KaraRecord
<1>24. Confined(mem, mem, size, f.r, o)
  BY DEF Confined
<1>25. QED
  <2>1. Nested(g.r, o, c2.r, p) /\ p = o + BlockOf(g.n, square)
    BY <1>13, <1>14, <1>20
  <2>2. /\ KaraTask(c2, p, mem, size, kara.square) /\ KaraTop(c2, p, mem, size, kara.square, p)
        /\ KaraIs(kara', Append(KaraBecomes(g), c2), mem, p, kara.square)
        /\ KaraTask(g, o, mem, size, kara.square) /\ SplitWell(g, o, size, kara.square)
        /\ p = o + BlockOf(g.n, kara.square) /\ Confined(kara.mem, mem, size, f.r, o)
        /\ o = BeginsAt(kara.frames, d, kara.square)
    BY <1>1, <1>10, <1>12, <1>20, <1>23, <1>24, <2>1
  <2>3. Memory(mem, size) /\ f = kara.frames[d] /\ g.r = f.r /\ g.product = f.product
    BY <1>2, <1>9
  <2>4. QED
    BY <1>21, <2>1, <2>2, <2>3, KaraCalls

(* A frame as it was but for what it has done. *)
Continues(g, f) ==
  /\ {"pc", "r", "a", "b", "product", "n", "block"} \subseteq DOMAIN g
  /\ g.r = f.r /\ g.a = f.a /\ g.b = f.b /\ g.product = f.product /\ g.n = f.n
  /\ g.block = f.block

LEMMA SameShape ==
  ASSUME NEW f, NEW g, Continues(g, f), NEW mem
  PROVE  /\ ResultLow(g) = ResultLow(f) /\ ResultHigh(g) = ResultHigh(f) /\ T1(g) = T1(f)
         /\ LowLow(g, mem) = LowLow(f, mem) /\ HighHigh(g, mem) = HighHigh(f, mem)
         /\ SumSum(g, mem) = SumSum(f, mem)
BY DEF Continues, ResultLow, ResultHigh, T1, LowLow, HighHigh, SumSum

LEMMA Continued ==
  ASSUME NEW f, NEW g, Continues(g, f), NEW o, NEW mem, NEW size, NEW square,
         KaraTask(f, o, mem, size, square), SplitWell(f, o, size, square)
  PROVE  KaraTask(g, o, mem, size, square) /\ SplitWell(g, o, size, square)
BY DEF Continues, KaraTask, SplitWell

(* The halves of an operand of a split frame. *)
LEMMA HalvesOf ==
  ASSUME NEW mem, NEW size, Memory(mem, size), NEW s, In(s, size), s.n # 0,
         NEW n \in Nat \ {0}, s.n <= 2 * n
  PROVE  /\ In(Low(s, n), size) /\ Low(s, n).n \in 1 .. n
         /\ Value(mem, Low(s, n)) \in Nat /\ Value(mem, Low(s, n)) < Power(Base, Low(s, n).n)
         /\ In(High(s, n), size) /\ High(s, n).n \in 0 .. n
         /\ Value(mem, High(s, n)) \in Nat /\ Value(mem, High(s, n)) < Power(Base, High(s, n).n)
         /\ n < s.n => High(s, n).n \in 1 .. n
         /\ s.n <= n => Value(mem, High(s, n)) = 0
         /\ Low(s, n).n + High(s, n).n = s.n /\ (n < s.n => Low(s, n).n = n)
<1>1. PICK c \in Nat \ {0} : c = s.n /\ c <= 2 * n
  BY InsideIs
<1>2. n \in Nat
  OBVIOUS
<1>3. /\ In(Low(s, n), size) /\ In(High(s, n), size)
      /\ c <= n => Low(s, n).n = c /\ High(s, n).n = 0
      /\ n < c => Low(s, n).n = n /\ High(s, n).n = c - n
  <2>1. /\ In(Low(s, n), size) /\ In(High(s, n), size)
        /\ s.n <= n => Low(s, n).n = s.n /\ High(s, n).n = 0
        /\ n < s.n => Low(s, n).n = n /\ High(s, n).n = s.n - n
    BY <1>2, HalvesAre
  <2>2. QED
    BY <1>1, <2>1
<1>4. /\ Value(mem, Low(s, n)) \in Nat /\ Value(mem, Low(s, n)) < Power(Base, Low(s, n).n)
      /\ Value(mem, High(s, n)) \in Nat /\ Value(mem, High(s, n)) < Power(Base, High(s, n).n)
  BY <1>3, ValueType
<1>5. s.n <= n => Value(mem, High(s, n)) = 0
  BY <1>2, HalvesMakeUp
<1>6. CASE c <= n
  <2>1. Low(s, n).n = c /\ High(s, n).n = 0
    BY <1>3, <1>6
  <2>2. QED
    BY <1>1, <1>3, <1>4, <1>5, <1>6, <2>1
<1>7. CASE n < c
  <2>1. Low(s, n).n = n /\ High(s, n).n = c - n
    BY <1>3, <1>7
  <2>2. QED
    BY <1>1, <1>3, <1>4, <1>7, <2>1
<1>8. QED
  BY <1>1, <1>6, <1>7

LEMMA KaraLowWell ==
  ASSUME NEW d \in Nat \ {0}, NEW size, KaraRunWell(kara, d, size), KaraLow
  PROVE  KaraRunWell(kara', d, size) \/ KaraRunWell(kara', d + 1, size)
<1>1. PICK f, o, mem, square :
        f = KaraFrame /\ o = BeginsAt(kara.frames, d, kara.square) /\ mem = kara.mem
        /\ square = kara.square
  OBVIOUS
<1>2. /\ f = kara.frames[d] /\ o \in Nat /\ Memory(mem, size) /\ In(f.r, size)
      /\ KaraTask(f, o, mem, size, square) /\ f.pc = "low" /\ square \in BOOLEAN
      /\ "scratch" \in DOMAIN size /\ size["scratch"] \in Nat /\ Nested(f.r, o, f.r, o)
      /\ KaraTop(f, o, mem, size, square, kara.offset)
      /\ {"frames", "mem", "offset", "square"} \subseteq DOMAIN kara
  BY <1>1, KaraNow DEF KaraLow
<1>3. /\ SplitWell(f, o, size, square) /\ kara.offset = o + BlockOf(f.n, square)
      /\ Value(mem, ResultLow(f)) = LowLow(f, mem) /\ Value(mem, ResultHigh(f)) = 0
  BY <1>2 DEF KaraTop
<1>4. PICK p \in Nat, n \in Nat \ {0} : p = o + BlockOf(f.n, square) /\ p = kara.offset /\ n = f.n
  BY <1>2, <1>3, SplitPlaces
<1>5. /\ In(ResultLow(f), size) /\ ResultLow(f).n = 2 * n
      /\ In(ResultHigh(f), size) /\ ResultHigh(f).n = f.r.n - 2 * n
      /\ ResultHigh(f).area = f.r.area
  BY <1>2, <1>3, <1>4, SplitPlaces
<1>6. /\ Clear(ResultHigh(f), ResultLow(f), p)
      /\ Nested(f.r, o, ResultLow(f), p) /\ Nested(f.r, o, ResultHigh(f), p)
      /\ (f.r.area = "scratch" => ResultHigh(f).at + ResultHigh(f).n <= p)
  BY <1>2, <1>3, <1>4, SplitApart
<1>7. /\ In(f.a, size) /\ f.a.n # 0 /\ f.a.n <= 2 * n /\ f.a.n \in Nat
      /\ In(f.b, size) /\ f.b.n # 0 /\ f.b.n <= 2 * n /\ f.b.n \in Nat
      /\ f.a.n + f.b.n <= f.r.n /\ f.r.n \in Nat /\ 2 * n <= f.r.n /\ (square => f.a = f.b)
  BY <1>2, <1>3, <1>4, InsideIs DEF KaraTask, SplitWell
<1>8. PICK k \in Nat \ {0} : k = Low(f.a, n).n + Low(f.b, n).n /\ k <= 2 * n
                             /\ LowLow(f, mem) \in Nat /\ LowLow(f, mem) < Power(Base, k)
  <2>1. /\ Low(f.a, n).n \in 1 .. n /\ Low(f.b, n).n \in 1 .. n
        /\ Value(mem, Low(f.a, n)) \in Nat
        /\ Value(mem, Low(f.a, n)) < Power(Base, Low(f.a, n).n)
        /\ Value(mem, Low(f.b, n)) \in Nat
        /\ Value(mem, Low(f.b, n)) < Power(Base, Low(f.b, n).n)
    BY <1>2, <1>7, HalvesOf
  <2>2. PICK i \in 1 .. n, j \in 1 .. n : i = Low(f.a, n).n /\ j = Low(f.b, n).n
    BY <2>1
  <2>3. PICK x \in Nat, y \in Nat : x = Value(mem, Low(f.a, n)) /\ y = Value(mem, Low(f.b, n))
                                    /\ x < Power(Base, i) /\ y < Power(Base, j)
    BY <2>1, <2>2
  <2>4. x * y \in Nat /\ x * y < Power(Base, i + j)
    BY <2>3, ProductFits
  <2>5. LowLow(f, mem) = x * y
    BY <1>4, <2>3 DEF LowLow
  <2>6. QED
    BY <2>2, <2>4, <2>5
<1>9. PICK settled, new, l : settled = Settled(ResultLow(f), k) /\ new = settled.mem
                             /\ l = settled.size
  OBVIOUS
<1>10. /\ l \in 1 .. k /\ Fills(mem, new, size, ResultLow(f), LowLow(f, mem))
       /\ Value(new, First(ResultLow(f), l)) = LowLow(f, mem)
  <2>1. k <= ResultLow(f).n /\ Value(kara.mem, ResultLow(f)) < Power(Base, k)
    BY <1>1, <1>3, <1>5, <1>8
  <2>2. Memory(kara.mem, size)
    BY <1>1, <1>2
  <2>3. /\ settled.size \in 1 .. k
        /\ Fills(kara.mem, settled.mem, size, ResultLow(f), Value(kara.mem, ResultLow(f)))
        /\ Value(settled.mem, First(ResultLow(f), settled.size)) = Value(kara.mem, ResultLow(f))
    BY <1>5, <1>9, <2>1, <2>2, SettledIs
  <2>4. QED
    BY <1>1, <1>3, <1>9, <2>3
<1>11. /\ Memory(new, size) /\ Confined(mem, new, size, f.r, o)
       /\ Value(new, ResultLow(f)) = LowLow(f, mem)
  BY <1>2, <1>5, <1>6, <1>10, FillsConfined DEF Nested
<1>12. /\ LowLow(f, new) = LowLow(f, mem) /\ HighHigh(f, new) = HighHigh(f, mem)
       /\ KaraTask(f, o, new, size, square)
  BY <1>2, <1>3, <1>11, HalvesStay, TaskStays
<1>13. Value(new, ResultHigh(f)) = 0
  <2>1. Changes(mem, new, size, ResultLow(f)) /\ Apart(ResultHigh(f), ResultLow(f))
    BY <1>6, <1>10 DEF Fills, Clear
  <2>2. QED
    BY <1>3, <1>5, <2>1, ChangesKeep
<1>14. PICK high \in BOOLEAN : high <=> ResultHigh(f).n > 0 /\ f.a.n > n /\ f.b.n > n
  OBVIOUS
<1>15. PICK g : g = [pc |-> IF high THEN "high" ELSE "sums", r |-> f.r, a |-> f.a, b |-> f.b,
                     n |-> f.n, block |-> f.block, product |-> f.product, low |-> l,
                     high |-> high]
  OBVIOUS
<1>16. Continues(g, f) /\ {"low", "high"} \subseteq DOMAIN g /\ g.low = l /\ g.high = high
       /\ g.pc = IF high THEN "high" ELSE "sums"
  BY <1>15 DEF Continues
<1>17. KaraTask(g, o, new, size, square) /\ SplitWell(g, o, size, square)
  BY <1>3, <1>12, <1>16, Continued
<1>18. /\ ResultLow(g) = ResultLow(f) /\ ResultHigh(g) = ResultHigh(f)
       /\ LowLow(g, new) = LowLow(f, mem) /\ HighHigh(g, new) = HighHigh(f, mem)
  BY <1>12, <1>16, SameShape
<1>19. LowDone(g, new)
  <2>1. l \in 0 .. 2 * g.n
    BY <1>4, <1>8, <1>10, <1>16 DEF Continues
  <2>2. QED
    BY <1>10, <1>11, <1>16, <1>18, <2>1 DEF LowDone
<1>20. PICK x, y : x = High(f.a, n) /\ y = High(f.b, n)
  OBVIOUS
<1>21. PICK h : h = KaraCall(new, ResultHigh(f), x, y, 0)
  OBVIOUS
<1>22. kara' = [kara EXCEPT !.mem = new,
                            !.frames = IF high THEN Append(KaraBecomes(g), h)
                                               ELSE KaraBecomes(g)]
  <2>1. KaraFrame = f /\ f.n = n /\ Low(f.a, n).n + Low(f.b, n).n = k
        /\ Settled(ResultLow(f), k).mem = new /\ Settled(ResultLow(f), k).size = l
        /\ High(f.a, n) = x /\ High(f.b, n) = y
        /\ (ResultHigh(f).n > 0 /\ f.a.n > n /\ f.b.n > n) = high
    BY <1>1, <1>4, <1>8, <1>9, <1>14, <1>20
  <2>2. QED
    BY <1>15, <1>21, <2>1, Zenon DEF KaraLow
<1>23. CASE high
  <2>1. n < f.a.n /\ n < f.b.n
    BY <1>7, <1>14, <1>23
  <2>2. /\ In(x, size) /\ x.n \in 1 .. n /\ In(y, size) /\ y.n \in 1 .. n
        /\ x.n = f.a.n - n /\ y.n = f.b.n - n
    <3>1. /\ In(x, size) /\ x.n \in 1 .. n /\ Low(f.a, n).n + x.n = f.a.n /\ Low(f.a, n).n = n
      BY <1>2, <1>7, <1>20, <2>1, HalvesOf
    <3>2. /\ In(y, size) /\ y.n \in 1 .. n /\ Low(f.b, n).n + y.n = f.b.n /\ Low(f.b, n).n = n
      BY <1>2, <1>7, <1>20, <2>1, HalvesOf
    <3>3. QED
      BY <1>7, <3>1, <3>2
  <2>3. Clear(x, ResultHigh(f), p) /\ Clear(y, ResultHigh(f), p)
    BY <1>4, <1>5, <1>6, <1>12, <1>20, HalvesClear
  <2>4. /\ g.n = n /\ g.r = f.r /\ g.product = f.product /\ g.a = f.a /\ g.b = f.b
    BY <1>4, <1>16 DEF Continues
  <2>5. /\ x.n # 0 /\ x.n <= g.n + 1 /\ y.n # 0 /\ y.n <= g.n + 1
        /\ x.n + y.n <= ResultHigh(f).n /\ (square => x = y)
    BY <1>5, <1>7, <1>20, <2>2, <2>4
  <2>6. p = o + BlockOf(g.n, square) /\ (ResultHigh(f).area = "scratch" =>
                                           ResultHigh(f).at + ResultHigh(f).n <= p)
    BY <1>4, <1>5, <1>6, <2>4
  <2>7. /\ h.r = ResultHigh(f) /\ h.product = Value(new, x) * Value(new, y)
        /\ KaraTask(h, p, new, size, square) /\ KaraTop(h, p, new, size, square, p)
    BY <1>2, <1>5, <1>11, <1>13, <1>17, <1>21, <2>2, <2>3, <2>5, <2>6, ChildWell
  <2>8. WaitsFor(g, h.r, h.product, new)
    <3>1. HighHigh(g, new) = Value(new, x) * Value(new, y)
      BY <1>20, <2>4 DEF HighHigh
    <3>2. g.pc = "high" /\ g.high /\ g.n < g.a.n /\ g.n < g.b.n
      BY <1>16, <1>23, <2>1, <2>4
    <3>3. QED
      BY <1>16, <1>18, <1>19, <2>7, <3>1, <3>2 DEF WaitsFor
  <2>9. KaraIs(kara', Append(KaraBecomes(g), h), new, p, square)
    <3>1. kara' = [kara EXCEPT !.mem = new, !.frames = Append(KaraBecomes(g), h)]
      BY <1>22, <1>23
    <3>2. QED
      BY <1>1, <1>2, <1>4, <3>1, KaraRecord
  <2>10. Nested(g.r, o, h.r, p)
    BY <1>6, <2>4, <2>7
  <2>11. /\ KaraTask(h, p, new, size, kara.square) /\ KaraTop(h, p, new, size, kara.square, p)
         /\ KaraIs(kara', Append(KaraBecomes(g), h), new, p, kara.square)
         /\ KaraTask(g, o, new, size, kara.square) /\ SplitWell(g, o, size, kara.square)
         /\ p = o + BlockOf(g.n, kara.square) /\ Confined(kara.mem, new, size, f.r, o)
         /\ o = BeginsAt(kara.frames, d, kara.square)
    BY <1>1, <1>11, <1>17, <2>6, <2>7, <2>9
  <2>12. KaraRunWell(kara', d + 1, size)
    BY <1>2, <1>11, <2>4, <2>8, <2>10, <2>11, KaraCalls
  <2>13. QED
    BY <2>12
<1>24. CASE ~high
  <2>1. HighHigh(f, mem) = 0
    <3>1. f.a.n <= n \/ f.b.n <= n
      BY <1>5, <1>7, <1>14, <1>24
    <3>2. Value(mem, High(f.a, n)) \in Nat /\ (f.a.n <= n => Value(mem, High(f.a, n)) = 0)
      BY <1>2, <1>7, HalvesOf
    <3>3. Value(mem, High(f.b, n)) \in Nat /\ (f.b.n <= n => Value(mem, High(f.b, n)) = 0)
      BY <1>2, <1>7, HalvesOf
    <3>4. QED
      BY <1>4, <3>1, <3>2, <3>3 DEF HighHigh
  <2>2. HighDone(g, new)
    BY <1>13, <1>16, <1>18, <1>24, <2>1 DEF HighDone
  <2>3. g.pc = "sums" /\ p = o + BlockOf(g.n, square)
    BY <1>4, <1>16, <1>24 DEF Continues
  <2>4. KaraTop(g, o, new, size, square, p)
    BY <1>17, <1>19, <2>2, <2>3 DEF KaraTop
  <2>5. KaraIs(kara', KaraBecomes(g), new, p, square)
    <3>1. kara' = [kara EXCEPT !.mem = new, !.frames = KaraBecomes(g)]
      BY <1>22, <1>24
    <3>2. QED
      BY <1>1, <1>2, <1>4, <3>1, KaraRecord
  <2>6. /\ KaraTop(g, o, new, size, kara.square, p) /\ KaraTask(g, o, new, size, kara.square)
        /\ KaraIs(kara', KaraBecomes(g), new, p, kara.square)
        /\ Confined(kara.mem, new, size, f.r, o) /\ o = BeginsAt(kara.frames, d, kara.square)
    BY <1>1, <1>11, <1>17, <2>4, <2>5
  <2>7. g.r = f.r /\ g.product = f.product
    BY <1>16 DEF Continues
  <2>8. KaraRunWell(kara', d, size)
    BY <1>2, <1>11, <2>6, <2>7, KaraGoesOn
  <2>9. QED
    BY <2>8
<1>25. QED
  BY <1>23, <1>24

(* The product of the high halves fits as many limbs as these have. *)
LEMMA HighFits ==
  ASSUME NEW f, NEW o, NEW mem, NEW size, Memory(mem, size), NEW square \in BOOLEAN,
         KaraTask(f, o, mem, size, square), SplitWell(f, o, size, square),
         "scratch" \in DOMAIN size, size["scratch"] \in Nat, f.n < f.a.n, f.n < f.b.n
  PROVE  /\ High(f.a, f.n).n + High(f.b, f.n).n \in Nat \ {0}
         /\ High(f.a, f.n).n + High(f.b, f.n).n <= ResultHigh(f).n
         /\ HighHigh(f, mem) \in Nat
         /\ HighHigh(f, mem) < Power(Base, High(f.a, f.n).n + High(f.b, f.n).n)
<1>1. PICK n \in Nat \ {0} : n = f.n
  BY DEF SplitWell
<1>2. /\ In(f.a, size) /\ f.a.n # 0 /\ f.a.n <= 2 * n /\ f.a.n \in Nat /\ n < f.a.n
      /\ In(f.b, size) /\ f.b.n # 0 /\ f.b.n <= 2 * n /\ f.b.n \in Nat /\ n < f.b.n
      /\ f.a.n + f.b.n <= f.r.n /\ f.r.n \in Nat
  BY <1>1, InsideIs DEF KaraTask, SplitWell
<1>3. ResultHigh(f).n = f.r.n - 2 * n
  BY <1>1, SplitPlaces
<1>4. /\ High(f.a, n).n \in 1 .. n /\ Low(f.a, n).n + High(f.a, n).n = f.a.n
      /\ Low(f.a, n).n = n
      /\ Value(mem, High(f.a, n)) \in Nat
      /\ Value(mem, High(f.a, n)) < Power(Base, High(f.a, n).n)
  BY <1>2, HalvesOf
<1>5. /\ High(f.b, n).n \in 1 .. n /\ Low(f.b, n).n + High(f.b, n).n = f.b.n
      /\ Low(f.b, n).n = n
      /\ Value(mem, High(f.b, n)) \in Nat
      /\ Value(mem, High(f.b, n)) < Power(Base, High(f.b, n).n)
  BY <1>2, HalvesOf
<1>6. PICK i \in 1 .. n, j \in 1 .. n : i = High(f.a, n).n /\ j = High(f.b, n).n
  BY <1>4, <1>5
<1>7. PICK x \in Nat, y \in Nat : x = Value(mem, High(f.a, n)) /\ y = Value(mem, High(f.b, n))
                                  /\ x < Power(Base, i) /\ y < Power(Base, j)
  BY <1>4, <1>5, <1>6
<1>8. x * y \in Nat /\ x * y < Power(Base, i + j)
  <2>1. i \in Nat /\ j \in Nat
    BY <1>6
  <2>2. QED
    BY <1>7, <2>1, ProductFits
<1>9. HighHigh(f, mem) = x * y
  BY <1>1, <1>7 DEF HighHigh
<1>10. i + j <= ResultHigh(f).n
  BY <1>2, <1>3, <1>4, <1>5, <1>6
<1>11. QED
  BY <1>1, <1>6, <1>8, <1>9, <1>10

LEMMA KaraHighWell ==
  ASSUME NEW d \in Nat \ {0}, NEW size, KaraRunWell(kara, d, size), KaraHigh
  PROVE  KaraRunWell(kara', d, size)
<1>1. PICK f, o, mem, square :
        f = KaraFrame /\ o = BeginsAt(kara.frames, d, kara.square) /\ mem = kara.mem
        /\ square = kara.square
  OBVIOUS
<1>2. /\ f = kara.frames[d] /\ o \in Nat /\ Memory(mem, size) /\ In(f.r, size)
      /\ KaraTask(f, o, mem, size, square) /\ f.pc = "high" /\ square \in BOOLEAN
      /\ "scratch" \in DOMAIN size /\ size["scratch"] \in Nat /\ Nested(f.r, o, f.r, o)
      /\ KaraTop(f, o, mem, size, square, kara.offset)
      /\ {"frames", "mem", "offset", "square"} \subseteq DOMAIN kara
  BY <1>1, KaraNow DEF KaraHigh
<1>3. /\ SplitWell(f, o, size, square) /\ kara.offset = o + BlockOf(f.n, square)
      /\ LowDone(f, mem) /\ Value(mem, ResultHigh(f)) = HighHigh(f, mem)
      /\ "high" \in DOMAIN f /\ f.high /\ f.n < f.a.n /\ f.n < f.b.n
  BY <1>2 DEF KaraTop
<1>4. PICK p \in Nat, n \in Nat \ {0} : p = o + BlockOf(f.n, square) /\ p = kara.offset /\ n = f.n
  BY <1>2, <1>3, SplitPlaces
<1>5. /\ In(ResultLow(f), size) /\ ResultLow(f).n = 2 * n
      /\ In(ResultHigh(f), size) /\ ResultHigh(f).n = f.r.n - 2 * n
  BY <1>2, <1>3, <1>4, SplitPlaces
<1>6. /\ Clear(ResultLow(f), ResultHigh(f), p) /\ Nested(f.r, o, ResultHigh(f), p)
  BY <1>2, <1>3, <1>4, SplitApart
<1>7. /\ In(f.a, size) /\ f.a.n # 0 /\ f.a.n <= 2 * n /\ f.a.n \in Nat /\ n < f.a.n
      /\ In(f.b, size) /\ f.b.n # 0 /\ f.b.n <= 2 * n /\ f.b.n \in Nat /\ n < f.b.n
      /\ f.a.n + f.b.n <= f.r.n /\ f.r.n \in Nat
  BY <1>2, <1>3, <1>4, InsideIs DEF KaraTask, SplitWell
<1>8. PICK k \in Nat \ {0} : k = High(f.a, n).n + High(f.b, n).n /\ k <= ResultHigh(f).n
                             /\ HighHigh(f, mem) \in Nat /\ HighHigh(f, mem) < Power(Base, k)
  <2>1. /\ High(f.a, f.n).n + High(f.b, f.n).n \in Nat \ {0}
        /\ High(f.a, f.n).n + High(f.b, f.n).n <= ResultHigh(f).n
        /\ HighHigh(f, mem) \in Nat
        /\ HighHigh(f, mem) < Power(Base, High(f.a, f.n).n + High(f.b, f.n).n)
    BY <1>2, <1>3, HighFits
  <2>2. QED
    BY <1>4, <2>1
<1>9. PICK settled, new : settled = Settled(ResultHigh(f), k) /\ new = settled.mem
  OBVIOUS
<1>10. Fills(mem, new, size, ResultHigh(f), HighHigh(f, mem))
  <2>1. k <= ResultHigh(f).n /\ Value(kara.mem, ResultHigh(f)) < Power(Base, k)
    BY <1>1, <1>3, <1>8
  <2>2. Memory(kara.mem, size)
    BY <1>1, <1>2
  <2>3. Fills(kara.mem, settled.mem, size, ResultHigh(f), Value(kara.mem, ResultHigh(f)))
    BY <1>5, <1>9, <2>1, <2>2, SettledIs
  <2>4. QED
    BY <1>1, <1>3, <1>9, <2>3
<1>11. /\ Memory(new, size) /\ Confined(mem, new, size, f.r, o)
       /\ Confined(mem, new, size, ResultHigh(f), p)
       /\ Value(new, ResultHigh(f)) = HighHigh(f, mem)
  <2>1. /\ Memory(new, size) /\ Confined(mem, new, size, f.r, o)
        /\ Value(new, ResultHigh(f)) = HighHigh(f, mem)
    BY <1>2, <1>5, <1>6, <1>10, FillsConfined DEF Nested
  <2>2. Inside(ResultHigh(f), ResultHigh(f), p)
    BY <1>4, <1>5, NestedItself DEF Nested
  <2>3. Confined(mem, new, size, ResultHigh(f), p)
    BY <1>5, <1>10, <2>2, FillsConfined
  <2>4. QED
    BY <2>1, <2>3
<1>12. /\ LowLow(f, new) = LowLow(f, mem) /\ HighHigh(f, new) = HighHigh(f, mem)
       /\ KaraTask(f, o, new, size, square)
  BY <1>2, <1>3, <1>11, HalvesStay, TaskStays
<1>13. LowDone(f, new)
  <2>1. f.n \in Nat /\ ResultLow(f).n = 2 * f.n
    BY <1>4, <1>5
  <2>2. QED
    BY <1>3, <1>5, <1>6, <1>11, <1>12, <2>1, LowDoneStays
<1>14. PICK g : g = [f EXCEPT !.pc = "sums"]
  OBVIOUS
<1>15. {"pc", "r", "a", "b", "product", "n", "block", "low", "high"} \subseteq DOMAIN f
  BY <1>2, <1>3 DEF KaraTask, SplitWell, LowDone
<1>16. /\ g.pc = "sums" /\ DOMAIN g = DOMAIN f /\ g.low = f.low /\ g.high = f.high
       /\ g.r = f.r /\ g.a = f.a /\ g.b = f.b /\ g.product = f.product /\ g.n = f.n
       /\ g.block = f.block
  BY <1>14, <1>15
<1>17. Continues(g, f)
  BY <1>15, <1>16 DEF Continues
<1>18. KaraTask(g, o, new, size, square) /\ SplitWell(g, o, size, square)
  BY <1>3, <1>12, <1>17, Continued
<1>19. /\ ResultLow(g) = ResultLow(f) /\ ResultHigh(g) = ResultHigh(f)
       /\ LowLow(g, new) = LowLow(f, new) /\ HighHigh(g, new) = HighHigh(f, mem)
  BY <1>12, <1>17, SameShape
<1>20. LowDone(g, new) /\ HighDone(g, new)
  <2>1. LowDone(g, new)
    BY <1>13, <1>16, <1>19 DEF LowDone
  <2>2. HighDone(g, new)
    BY <1>3, <1>11, <1>15, <1>16, <1>19 DEF HighDone
  <2>3. QED
    BY <2>1, <2>2
<1>21. p = o + BlockOf(g.n, square)
  BY <1>4, <1>16
<1>22. KaraTop(g, o, new, size, square, p)
  BY <1>16, <1>18, <1>20, <1>21 DEF KaraTop
<1>23. kara' = [kara EXCEPT !.mem = new, !.frames = KaraBecomes(g)]
  <2>1. KaraFrame = f /\ f.n = n /\ High(f.a, n).n + High(f.b, n).n = k
        /\ Settled(ResultHigh(f), k).mem = new
    BY <1>1, <1>4, <1>8, <1>9
  <2>2. QED
    BY <1>14, <2>1, Zenon DEF KaraHigh
<1>24. KaraIs(kara', KaraBecomes(g), new, p, square)
  BY <1>1, <1>2, <1>4, <1>23, KaraRecord
<1>25. /\ KaraTop(g, o, new, size, kara.square, p) /\ KaraTask(g, o, new, size, kara.square)
       /\ KaraIs(kara', KaraBecomes(g), new, p, kara.square)
       /\ Confined(kara.mem, new, size, f.r, o) /\ o = BeginsAt(kara.frames, d, kara.square)
  BY <1>1, <1>11, <1>18, <1>22, <1>24
<1>26. QED
  BY <1>2, <1>11, <1>16, <1>25, KaraGoesOn

(* The block of a frame, where the sums of halves go. *)
LEMMA BlockPlaces ==
  ASSUME NEW f, NEW o, NEW mem, NEW size, kara.square \in BOOLEAN,
         KaraTask(f, o, mem, size, kara.square), SplitWell(f, o, size, kara.square),
         "scratch" \in DOMAIN size, size["scratch"] \in Nat,
         NEW p, p = o + BlockOf(f.n, kara.square)
  PROVE  /\ In(T1(f), size) /\ In(T2(f), size) /\ In(T3(f), size) /\ p \in Nat /\ o \in Nat
         /\ T1(f).n = 2 * f.n + 2 /\ T2(f).n = f.n + 1 /\ T3(f).n = f.n + 1
         /\ T2(f).area = "scratch" /\ o <= T2(f).at /\ T2(f).at + T2(f).n <= p
         /\ T3(f).area = "scratch" /\ o <= T3(f).at /\ T3(f).at + T3(f).n <= p
         /\ Clear(T2(f), T1(f), p) /\ Clear(T3(f), T1(f), p)
         /\ ~kara.square => T2(f).at + T2(f).n <= T3(f).at
         /\ kara.square => T3(f) = T2(f)
         /\ Inside(T1(f), T1(f), o) /\ Nested(f.r, o, T1(f), o)
         /\ Clear(ResultLow(f), T1(f), o) /\ Clear(ResultHigh(f), T1(f), o)
<1>1. PICK n \in Nat \ {0} : n = f.n
  BY DEF SplitWell
<1>2. /\ p \in Nat /\ o \in Nat
      /\ In(ResultLow(f), size) /\ ResultLow(f).n = 2 * n /\ ResultLow(f).area = f.r.area
      /\ ResultLow(f).at = f.r.at
      /\ In(ResultHigh(f), size) /\ ResultHigh(f).n = f.r.n - 2 * n
      /\ ResultHigh(f).area = f.r.area /\ ResultHigh(f).at = f.r.at + 2 * n
      /\ In(T1(f), size) /\ T1(f).n = 2 * n + 2 /\ T1(f).area = "scratch" /\ T1(f).at = o
      /\ In(T2(f), size) /\ T2(f).n = n + 1 /\ T2(f).area = "scratch"
      /\ T2(f).at = o + (2 * n + 2) /\ o + (2 * n + 2) + (n + 1) <= p
  BY <1>1, SplitPlaces
<1>3. Clear(T2(f), T1(f), p)
  BY SplitApart
<1>4. Inside(T1(f), T1(f), o) /\ Nested(f.r, o, T1(f), o)
  BY <1>2 DEF Inside, Nested
<1>5. Clear(ResultLow(f), T1(f), o) /\ Clear(ResultHigh(f), T1(f), o)
  <2>1. PICK c \in Nat, m \in Nat : c = f.r.at /\ m = f.r.n /\ 2 * n <= m
                                    /\ (f.r.area = "scratch" => c + m <= o)
    BY <1>1, InsideIs DEF KaraTask, SplitWell
  <2>2. PICK y : y = f.r.area
    OBVIOUS
  <2>3. y = "scratch" => c + 2 * n <= o /\ (c + 2 * n) + (m - 2 * n) <= o
    BY <1>2, <2>1, <2>2
  <2>4. QED
    BY <1>2, <2>1, <2>2, <2>3 DEF Clear, Apart
<1>6. CASE kara.square
  <2>1. T3(f) = T2(f)
    BY <1>6 DEF T3
  <2>2. o <= T2(f).at /\ T2(f).at + T2(f).n <= p
    BY <1>2
  <2>3. /\ In(T3(f), size) /\ T3(f).n = f.n + 1 /\ T3(f).area = "scratch" /\ o <= T3(f).at
        /\ T3(f).at + T3(f).n <= p /\ Clear(T3(f), T1(f), p)
    BY <1>1, <1>2, <1>3, <2>1, <2>2
  <2>4. QED
    BY <1>1, <1>2, <1>3, <1>4, <1>5, <1>6, <2>1, <2>2, <2>3
<1>7. CASE ~kara.square
  <2>1. p = o + (4 * n + 4) /\ p <= size["scratch"] /\ f.block = o
    BY <1>1, <1>7 DEF SplitWell, BlockOf
  <2>2. T3(f) = [area |-> "scratch", at |-> o + 3 * n + 3, n |-> n + 1]
    BY <1>1, <1>7, <2>1 DEF T3, Span
  <2>3. T3(f).area = "scratch" /\ T3(f).at = o + 3 * n + 3 /\ T3(f).n = n + 1
    BY <2>2
  <2>4. In(T3(f), size)
    <3>1. o + 3 * n + 3 \in Nat /\ n + 1 \in Nat /\ o + 3 * n + 3 + (n + 1) <= size["scratch"]
      BY <1>2, <2>1
    <3>2. QED
      BY <2>2, <3>1 DEF In
  <2>5. o <= o + 3 * n + 3 /\ o + 3 * n + 3 + (n + 1) <= p /\ o + (2 * n + 2) <= o + 3 * n + 3
        /\ o + (2 * n + 2) + (n + 1) <= o + 3 * n + 3
    BY <1>2, <2>1
  <2>6. Clear(T3(f), T1(f), p)
    BY <1>2, <2>3, <2>5 DEF Clear, Apart
  <2>7. QED
    BY <1>1, <1>2, <1>3, <1>4, <1>5, <1>7, <2>3, <2>4, <2>5, <2>6
<1>8. QED
  BY <1>6, <1>7

LEMMA FirstPart ==
  ASSUME NEW size, NEW t, In(t, size), NEW k \in Nat, k <= t.n
  PROVE  In(First(t, k), size) /\ PartOf(First(t, k), t) /\ First(t, k).n = k
<1>1. t.at \in Nat /\ t.n \in Nat
  BY InsideIs
<1>2. In(First(t, k), size) /\ First(t, k).n = k /\ First(t, k).area = t.area
      /\ First(t, k).at = t.at
  BY PartsIn
<1>3. QED
  BY <1>1, <1>2 DEF PartOf

(* The sum of the halves of one operand is stored in its temporary. *)
LEMMA SumStored ==
  ASSUME NEW mem, NEW size, Memory(mem, size), NEW s, In(s, size), s.n # 0, NEW n \in Nat \ {0},
         s.n <= 2 * n, NEW t, In(t, size), t.n = n + 1, t.area = "scratch",
         NEW r, In(r, size), NEW o \in Nat, o <= t.at, NEW p \in Nat, Clear(t, r, p),
         NEW h, h = SumOfHalves(mem, s, n, t), NEW x, x = First(t, h.size)
  PROVE  /\ Memory(h.mem, size) /\ Confined(mem, h.mem, size, r, o)
         /\ In(x, size) /\ PartOf(x, t) /\ h.size \in 1 .. n + 1 /\ x.n = h.size
         /\ Clear(x, r, p) /\ Changes(mem, h.mem, size, x)
         /\ Value(h.mem, x) = Value(mem, Low(s, n)) + Value(mem, High(s, n))
         /\ Value(mem, Low(s, n)) + Value(mem, High(s, n)) < Power(Base, h.size)
<1>1. /\ h.size \in 1 .. n + 1
      /\ Value(mem, Low(s, n)) + Value(mem, High(s, n)) < Power(Base, h.size)
      /\ Fills(mem, h.mem, size, x, Value(mem, Low(s, n)) + Value(mem, High(s, n)))
  BY SumOfHalvesIs
<1>2. PICK k \in Nat : k = h.size /\ k <= t.n
  BY <1>1
<1>3. In(x, size) /\ PartOf(x, t) /\ x.n = h.size
  BY <1>2, FirstPart
<1>4. Clear(x, r, p)
  BY <1>3, ClearWithin
<1>5. Inside(x, r, o)
  <2>1. x.area = "scratch" /\ x.at = t.at
    BY <1>2, PartsIn
  <2>2. QED
    BY <2>1 DEF Inside
<1>6. /\ Memory(h.mem, size) /\ Confined(mem, h.mem, size, r, o)
      /\ Value(h.mem, x) = Value(mem, Low(s, n)) + Value(mem, High(s, n))
  BY <1>1, <1>3, <1>5, FillsConfined
<1>7. Changes(mem, h.mem, size, x)
  BY <1>1 DEF Fills
<1>8. QED
  BY <1>1, <1>3, <1>4, <1>6, <1>7

LEMMA SumsForm ==
  ASSUME NEW f, NEW o, NEW mem, NEW size, Memory(mem, size), kara.square \in BOOLEAN,
         KaraTask(f, o, mem, size, kara.square), SplitWell(f, o, size, kara.square),
         "scratch" \in DOMAIN size, size["scratch"] \in Nat,
         NEW p, p = o + BlockOf(f.n, kara.square),
         NEW t2, t2 = SumOfHalves(mem, f.a, f.n, T2(f)),
         NEW t3, kara.square => t3 = t2,
         ~kara.square => t3 = SumOfHalves(t2.mem, f.b, f.n, T3(f)),
         NEW new, new = Fill(t3.mem, T1(f)),
         NEW x, x = First(T2(f), t2.size), NEW y, y = First(T3(f), t3.size)
  PROVE  /\ Memory(new, size) /\ Confined(mem, new, size, T1(f), o) /\ Value(new, T1(f)) = 0
         /\ In(x, size) /\ t2.size \in 1 .. f.n + 1 /\ x.n = t2.size /\ Clear(x, T1(f), p)
         /\ In(y, size) /\ t3.size \in 1 .. f.n + 1 /\ y.n = t3.size /\ Clear(y, T1(f), p)
         /\ Value(new, x) = Value(mem, Low(f.a, f.n)) + Value(mem, High(f.a, f.n))
         /\ Value(new, y) = Value(mem, Low(f.b, f.n)) + Value(mem, High(f.b, f.n))
         /\ kara.square => x = y
<1>1. /\ In(T1(f), size) /\ In(T2(f), size) /\ In(T3(f), size) /\ p \in Nat /\ o \in Nat
      /\ T2(f).n = f.n + 1 /\ T3(f).n = f.n + 1
      /\ T2(f).area = "scratch" /\ o <= T2(f).at
      /\ T3(f).area = "scratch" /\ o <= T3(f).at
      /\ Clear(T2(f), T1(f), p) /\ Clear(T3(f), T1(f), p)
      /\ ~kara.square => T2(f).at + T2(f).n <= T3(f).at
      /\ kara.square => T3(f) = T2(f)
      /\ Inside(T1(f), T1(f), o) /\ Nested(f.r, o, T1(f), o)
  BY BlockPlaces
<1>2. /\ In(f.a, size) /\ f.a.n # 0 /\ In(f.b, size) /\ f.b.n # 0
      /\ (kara.square => f.a = f.b)
  BY DEF KaraTask
<1>3. PICK n \in Nat \ {0} : n = f.n /\ f.a.n <= 2 * n /\ f.b.n <= 2 * n
  BY DEF SplitWell
<1>4. PICK va, vb : /\ va = Value(mem, Low(f.a, n)) + Value(mem, High(f.a, n))
                    /\ vb = Value(mem, Low(f.b, n)) + Value(mem, High(f.b, n))
  OBVIOUS
<1>5. PICK mem1 : mem1 = t2.mem
  OBVIOUS
<1>6. /\ Memory(mem1, size) /\ Confined(mem, mem1, size, T1(f), o)
      /\ In(x, size) /\ PartOf(x, T2(f)) /\ t2.size \in 1 .. n + 1 /\ x.n = t2.size
      /\ Clear(x, T1(f), p) /\ Value(mem1, x) = va
  <2>1. T2(f).n = n + 1 /\ t2 = SumOfHalves(mem, f.a, n, T2(f))
    BY <1>1, <1>3
  <2>2. /\ Memory(t2.mem, size) /\ Confined(mem, t2.mem, size, T1(f), o)
        /\ In(x, size) /\ PartOf(x, T2(f)) /\ t2.size \in 1 .. n + 1 /\ x.n = t2.size
        /\ Clear(x, T1(f), p)
        /\ Value(t2.mem, x) = Value(mem, Low(f.a, n)) + Value(mem, High(f.a, n))
    BY <1>1, <1>2, <1>3, <2>1, SumStored
  <2>3. QED
    BY <1>4, <1>5, <2>2
<1>7. PICK mem2 : mem2 = t3.mem
  OBVIOUS
<1>8. /\ Memory(mem2, size) /\ Confined(mem, mem2, size, T1(f), o)
      /\ In(y, size) /\ t3.size \in 1 .. n + 1 /\ y.n = t3.size
      /\ Clear(y, T1(f), p) /\ Value(mem2, y) = vb /\ Value(mem2, x) = va
      /\ (kara.square => x = y)
  <2>1. CASE kara.square
    <3>1. t3 = t2 /\ T3(f) = T2(f) /\ va = vb
      BY <1>1, <1>2, <1>4, <2>1
    <3>2. x = y /\ mem2 = mem1
      BY <1>5, <1>7, <3>1
    <3>3. QED
      BY <1>6, <3>1, <3>2
  <2>2. CASE ~kara.square
    <3>1. T3(f).n = n + 1 /\ t3 = SumOfHalves(mem1, f.b, n, T3(f))
      BY <1>1, <1>3, <1>5, <2>2
    <3>2. /\ Memory(t3.mem, size) /\ Confined(mem1, t3.mem, size, T1(f), o)
          /\ In(y, size) /\ PartOf(y, T3(f)) /\ t3.size \in 1 .. n + 1 /\ y.n = t3.size
          /\ Clear(y, T1(f), p) /\ Changes(mem1, t3.mem, size, y)
          /\ Value(t3.mem, y) = Value(mem1, Low(f.b, n)) + Value(mem1, High(f.b, n))
      BY <1>1, <1>2, <1>3, <1>6, <3>1, SumStored
    <3>3. Value(mem1, Low(f.b, n)) + Value(mem1, High(f.b, n)) = vb
      <4>1. /\ Value(mem1, Low(f.b, f.n)) = Value(mem, Low(f.b, f.n))
            /\ Value(mem1, High(f.b, f.n)) = Value(mem, High(f.b, f.n))
        <5>1. /\ Nested(f.r, o, T1(f), o) /\ In(T1(f), size) /\ o \in Nat
              /\ Confined(mem, mem1, size, T1(f), o)
          BY <1>1, <1>6
        <5>2. PICK square : square = kara.square
          OBVIOUS
        <5>3. KaraTask(f, o, mem, size, square) /\ SplitWell(f, o, size, square)
          BY <5>2
        <5>4. QED
          BY <5>1, <5>3, HalvesStay
      <4>2. QED
        BY <1>3, <1>4, <4>1
    <3>4. Confined(mem, mem2, size, T1(f), o)
      BY <1>6, <1>7, <3>2, ConfinedBoth
    <3>5. Apart(x, y)
      <4>1. PICK c \in Nat, m \in Nat : c = T3(f).at /\ m = T2(f).at /\ m + (n + 1) <= c
        BY <1>1, <1>3, <2>2, InsideIs
      <4>2. PICK i \in Nat, j \in Nat : i = x.at /\ j = x.n /\ i + j <= m + (n + 1)
        BY <1>1, <1>3, <1>6, <4>1, InsideIs DEF PartOf
      <4>3. PICK k \in Nat : k = y.at /\ c <= k
        BY <3>2, <4>1, InsideIs DEF PartOf
      <4>4. QED
        BY <4>1, <4>2, <4>3 DEF Apart
    <3>6. Value(mem2, x) = va
      BY <1>6, <1>7, <3>2, <3>5, ChangesKeep
    <3>7. QED
      BY <1>7, <2>2, <3>2, <3>3, <3>4, <3>6
  <2>3. QED
    BY <2>1, <2>2
<1>9. Fills(mem2, new, size, T1(f), 0)
  BY <1>1, <1>7, <1>8, FillFills
<1>10. Memory(new, size) /\ Confined(mem2, new, size, T1(f), o) /\ Value(new, T1(f)) = 0
  BY <1>1, <1>9, FillsConfined
<1>11. Confined(mem, new, size, T1(f), o)
  BY <1>8, <1>10, ConfinedBoth
<1>12. Value(new, x) = va /\ Value(new, y) = vb
  <2>1. Changes(mem2, new, size, T1(f)) /\ Apart(x, T1(f)) /\ Apart(y, T1(f))
    BY <1>6, <1>8, <1>9 DEF Fills, Clear
  <2>2. QED
    BY <1>1, <1>6, <1>8, <2>1, ChangesKeep
<1>13. QED
  BY <1>3, <1>4, <1>6, <1>8, <1>10, <1>11, <1>12

LEMMA KaraSumsWell ==
  ASSUME NEW d \in Nat \ {0}, NEW size, KaraRunWell(kara, d, size), KaraSums
  PROVE  KaraRunWell(kara', d + 1, size)
<1>1. PICK f, o, mem, square :
        f = KaraFrame /\ o = BeginsAt(kara.frames, d, kara.square) /\ mem = kara.mem
        /\ square = kara.square
  OBVIOUS
<1>2. /\ f = kara.frames[d] /\ o \in Nat /\ Memory(mem, size) /\ In(f.r, size)
      /\ KaraTask(f, o, mem, size, square) /\ f.pc = "sums" /\ square \in BOOLEAN
      /\ "scratch" \in DOMAIN size /\ size["scratch"] \in Nat /\ Nested(f.r, o, f.r, o)
      /\ KaraTop(f, o, mem, size, square, kara.offset)
      /\ {"frames", "mem", "offset", "square"} \subseteq DOMAIN kara
  BY <1>1, KaraNow DEF KaraSums
<1>3. /\ SplitWell(f, o, size, square) /\ kara.offset = o + BlockOf(f.n, square)
      /\ LowDone(f, mem) /\ HighDone(f, mem)
  BY <1>2 DEF KaraTop
<1>4. PICK p \in Nat, n \in Nat \ {0} : p = o + BlockOf(f.n, square) /\ p = kara.offset /\ n = f.n
  BY <1>2, <1>3, SplitPlaces
<1>5. PICK t2, t3, new, x, y :
        /\ t2 = SumOfHalves(mem, f.a, f.n, T2(f))
        /\ t3 = (IF kara.square THEN t2 ELSE SumOfHalves(t2.mem, f.b, f.n, T3(f)))
        /\ new = Fill(t3.mem, T1(f)) /\ x = First(T2(f), t2.size) /\ y = First(T3(f), t3.size)
  OBVIOUS
<1>6. PICK va, vb : /\ va = Value(mem, Low(f.a, n)) + Value(mem, High(f.a, n))
                    /\ vb = Value(mem, Low(f.b, n)) + Value(mem, High(f.b, n))
  OBVIOUS
<1>7. /\ Memory(new, size) /\ Confined(mem, new, size, T1(f), o) /\ Value(new, T1(f)) = 0
      /\ In(x, size) /\ t2.size \in 1 .. n + 1 /\ x.n = t2.size /\ Clear(x, T1(f), p)
      /\ In(y, size) /\ t3.size \in 1 .. n + 1 /\ y.n = t3.size /\ Clear(y, T1(f), p)
      /\ Value(new, x) = va /\ Value(new, y) = vb /\ (square => x = y)
  <2>1. (kara.square => t3 = t2) /\ (~kara.square => t3 = SumOfHalves(t2.mem, f.b, f.n, T3(f)))
    BY <1>5
  <2>2. KaraTask(f, o, mem, size, kara.square) /\ SplitWell(f, o, size, kara.square)
        /\ p = o + BlockOf(f.n, kara.square) /\ kara.square \in BOOLEAN
    BY <1>1, <1>2, <1>3, <1>4
  <2>3. /\ t2 = SumOfHalves(mem, f.a, f.n, T2(f)) /\ new = Fill(t3.mem, T1(f))
        /\ x = First(T2(f), t2.size) /\ y = First(T3(f), t3.size)
    BY <1>5
  <2>4. /\ Memory(new, size) /\ Confined(mem, new, size, T1(f), o) /\ Value(new, T1(f)) = 0
        /\ In(x, size) /\ t2.size \in 1 .. f.n + 1 /\ x.n = t2.size /\ Clear(x, T1(f), p)
        /\ In(y, size) /\ t3.size \in 1 .. f.n + 1 /\ y.n = t3.size /\ Clear(y, T1(f), p)
        /\ Value(new, x) = Value(mem, Low(f.a, f.n)) + Value(mem, High(f.a, f.n))
        /\ Value(new, y) = Value(mem, Low(f.b, f.n)) + Value(mem, High(f.b, f.n))
        /\ kara.square => x = y
    BY <1>2, <2>1, <2>2, <2>3, SumsForm
  <2>5. QED
    BY <1>1, <1>4, <1>6, <2>4
<1>8. /\ In(T1(f), size) /\ T1(f).n = 2 * n + 2
      /\ In(ResultLow(f), size) /\ ResultLow(f).n = 2 * f.n /\ In(ResultHigh(f), size)
      /\ T1(f).area = "scratch"
  BY <1>2, <1>3, <1>4, SplitPlaces
<1>9. Nested(f.r, o, T1(f), p) /\ T1(f).at + T1(f).n <= p
  BY <1>2, <1>3, <1>4, SplitApart
<1>10. /\ Nested(f.r, o, T1(f), o) /\ Clear(ResultLow(f), T1(f), o)
       /\ Clear(ResultHigh(f), T1(f), o)
  <2>1. KaraTask(f, o, mem, size, kara.square) /\ SplitWell(f, o, size, kara.square)
        /\ p = o + BlockOf(f.n, kara.square) /\ kara.square \in BOOLEAN
    BY <1>1, <1>2, <1>3, <1>4
  <2>2. QED
    BY <1>2, <2>1, BlockPlaces
<1>11. Confined(mem, new, size, f.r, o)
  BY <1>2, <1>7, <1>8, <1>10, ConfinedNested
<1>12. /\ LowLow(f, new) = LowLow(f, mem) /\ HighHigh(f, new) = HighHigh(f, mem)
       /\ SumSum(f, new) = SumSum(f, mem) /\ KaraTask(f, o, new, size, square)
  <2>1. KaraTask(f, o, new, size, square)
    BY <1>2, <1>11, TaskStays
  <2>2. /\ LowLow(f, new) = LowLow(f, mem) /\ HighHigh(f, new) = HighHigh(f, mem)
        /\ SumSum(f, new) = SumSum(f, mem)
    BY <1>2, <1>3, <1>11, HalvesStay
  <2>3. QED
    BY <2>1, <2>2
<1>13. LowDone(f, new) /\ HighDone(f, new)
  <2>1. f.n \in Nat
    BY <1>4
  <2>2. LowDone(f, new)
    BY <1>2, <1>3, <1>7, <1>8, <1>10, <1>12, <2>1, LowDoneStays
  <2>3. HighDone(f, new)
    BY <1>2, <1>3, <1>7, <1>8, <1>10, <1>12, HighDoneStays
  <2>4. QED
    BY <2>2, <2>3
<1>14. SumSum(f, mem) = va * vb
  BY <1>4, <1>6 DEF SumSum
<1>15. PICK k \in Nat, l \in Nat : k = x.n /\ l = y.n /\ k \in 1 .. n + 1 /\ l \in 1 .. n + 1
  BY <1>7
<1>16. va * vb < Power(Base, k + l)
  <2>1. va \in Nat /\ va < Power(Base, k) /\ vb \in Nat /\ vb < Power(Base, l)
    BY <1>7, <1>15, ValueType
  <2>2. QED
    BY <2>1, ProductFits
<1>17. PICK g : g = [pc |-> "cross", r |-> f.r, a |-> f.a, b |-> f.b, n |-> f.n,
                     block |-> f.block, product |-> f.product, low |-> f.low, high |-> f.high,
                     sums |-> t2.size + t3.size]
  OBVIOUS
<1>18. Continues(g, f) /\ {"low", "high", "sums"} \subseteq DOMAIN g /\ g.low = f.low
       /\ g.high = f.high /\ g.pc = "cross" /\ g.sums = k + l
  BY <1>7, <1>15, <1>17 DEF Continues
<1>19. /\ g.n = n /\ g.r = f.r /\ g.product = f.product /\ g.a = f.a /\ g.b = f.b
  BY <1>4, <1>18 DEF Continues
<1>20. KaraTask(g, o, new, size, square) /\ SplitWell(g, o, size, square)
  BY <1>3, <1>12, <1>18, Continued
<1>21. /\ ResultLow(g) = ResultLow(f) /\ ResultHigh(g) = ResultHigh(f) /\ T1(g) = T1(f)
       /\ LowLow(g, new) = LowLow(f, new) /\ HighHigh(g, new) = HighHigh(f, new)
       /\ SumSum(g, new) = SumSum(f, mem)
  BY <1>12, <1>18, SameShape
<1>22. LowDone(g, new) /\ HighDone(g, new)
  <2>1. LowDone(g, new)
    BY <1>4, <1>13, <1>18, <1>19, <1>21 DEF LowDone
  <2>2. HighDone(g, new)
    BY <1>4, <1>13, <1>18, <1>19, <1>21 DEF HighDone
  <2>3. QED
    BY <2>1, <2>2
<1>23. PICK h : h = KaraCall(new, T1(f), x, y, 0)
  OBVIOUS
<1>24. /\ h.r = T1(f) /\ h.product = va * vb
       /\ KaraTask(h, p, new, size, square) /\ KaraTop(h, p, new, size, square, p)
  <2>1. /\ x.n # 0 /\ x.n <= g.n + 1 /\ y.n # 0 /\ y.n <= g.n + 1
        /\ x.n + y.n <= T1(f).n /\ (square => x = y)
    BY <1>7, <1>8, <1>15, <1>19
  <2>2. p = o + BlockOf(g.n, square) /\ (T1(f).area = "scratch" => T1(f).at + T1(f).n <= p)
    BY <1>4, <1>9, <1>19
  <2>3. /\ h.r = T1(f) /\ h.product = Value(new, x) * Value(new, y)
        /\ KaraTask(h, p, new, size, square) /\ KaraTop(h, p, new, size, square, p)
    BY <1>2, <1>7, <1>8, <1>20, <1>23, <2>1, <2>2, ChildWell
  <2>4. QED
    BY <1>7, <2>3
<1>25. WaitsFor(g, h.r, h.product, new)
  <2>1. g.sums \in 1 .. 2 * g.n + 2
    BY <1>15, <1>18, <1>19
  <2>2. SumSum(g, new) = va * vb /\ SumSum(g, new) < Power(Base, g.sums)
    BY <1>14, <1>16, <1>18, <1>21
  <2>3. QED
    BY <1>18, <1>21, <1>22, <1>24, <2>1, <2>2 DEF WaitsFor
<1>26. kara' = [kara EXCEPT !.mem = new, !.frames = Append(KaraBecomes(g), h)]
  <2>1. KaraFrame = f /\ kara.mem = mem
    BY <1>1
  <2>2. QED
    BY <1>5, <1>17, <1>23, <2>1, Zenon DEF KaraSums
<1>27. KaraIs(kara', Append(KaraBecomes(g), h), new, p, square)
  BY <1>1, <1>2, <1>4, <1>26, KaraRecord
<1>28. Nested(g.r, o, h.r, p) /\ p = o + BlockOf(g.n, square)
  BY <1>4, <1>9, <1>19, <1>24
<1>29. /\ KaraTask(h, p, new, size, kara.square) /\ KaraTop(h, p, new, size, kara.square, p)
       /\ KaraIs(kara', Append(KaraBecomes(g), h), new, p, kara.square)
       /\ KaraTask(g, o, new, size, kara.square) /\ SplitWell(g, o, size, kara.square)
       /\ p = o + BlockOf(g.n, kara.square) /\ Confined(kara.mem, new, size, f.r, o)
       /\ o = BeginsAt(kara.frames, d, kara.square)
  BY <1>1, <1>11, <1>20, <1>24, <1>27, <1>28
<1>30. QED
  BY <1>2, <1>7, <1>19, <1>25, <1>28, <1>29, KaraCalls

(* The product from those of the halves and that of their sums. *)
LEMMA CrossSum ==
  ASSUME NEW al \in Nat, NEW ah \in Nat, NEW bl \in Nat, NEW bh \in Nat, NEW w \in Nat
  PROVE  /\ al * bl \in Nat /\ ah * bh \in Nat /\ al * bh + ah * bl \in Nat
         /\ (al + ah) * (bl + bh) = al * bl + ah * bh + (al * bh + ah * bl)
         /\ (al + w * ah) * (bl + w * bh)
              = (al * bl + (w * w) * (ah * bh)) + w * (al * bh + ah * bl)
<1>1. PICK p \in Nat, q \in Nat, r \in Nat, s \in Nat :
        p = al * bl /\ q = al * bh /\ r = ah * bl /\ s = ah * bh
  OBVIOUS
<1>2. (al + ah) * (bl + bh) = p + q + (r + s)
  <2>1. (al + ah) * (bl + bh) = al * (bl + bh) + ah * (bl + bh)
    OBVIOUS
  <2>2. al * (bl + bh) = p + q /\ ah * (bl + bh) = r + s
    BY <1>1
  <2>3. QED
    BY <2>1, <2>2
<1>3. (al + w * ah) * (bl + w * bh) = (p + w * q) + (w * r + (w * w) * s)
  <2>1. PICK x \in Nat, y \in Nat : x = w * ah /\ y = w * bh
    OBVIOUS
  <2>2. (al + x) * (bl + y) = (al * bl + al * y) + (x * bl + x * y)
    <3>1. (al + x) * (bl + y) = al * (bl + y) + x * (bl + y)
      OBVIOUS
    <3>2. al * (bl + y) = al * bl + al * y /\ x * (bl + y) = x * bl + x * y
      OBVIOUS
    <3>3. QED
      BY <3>1, <3>2
  <2>3. al * y = w * q
    <3>1. al * (w * bh) = w * (al * bh)
      OBVIOUS
    <3>2. QED
      BY <1>1, <2>1, <3>1
  <2>4. x * bl = w * r
    <3>1. (w * ah) * bl = w * (ah * bl)
      OBVIOUS
    <3>2. QED
      BY <1>1, <2>1, <3>1
  <2>5. x * y = (w * w) * s
    <3>1. (w * ah) * (w * bh) = (w * w) * (ah * bh)
      OBVIOUS
    <3>2. QED
      BY <1>1, <2>1, <3>1
  <2>6. QED
    BY <1>1, <2>1, <2>2, <2>3, <2>4, <2>5
<1>4. w * (q + r) = w * q + w * r
  OBVIOUS
<1>5. w * q \in Nat /\ w * r \in Nat /\ (w * w) * s \in Nat
  OBVIOUS
<1>6. QED
  BY <1>1, <1>2, <1>3, <1>4, <1>5

(* A number added at limb n of a span that has room for the sum. *)
LEMMA AddedAt ==
  ASSUME NEW mem, NEW size, Memory(mem, size), NEW r, In(r, size), NEW n \in Nat, n <= r.n,
         NEW c \in Nat, Value(mem, r) + Power(Base, n) * c < Power(Base, r.n),
         NEW up, up = Subspan(r, n), NEW new, new = Store(mem, up, Value(mem, up) + c)
  PROVE  /\ Memory(new, size) /\ Value(new, r) = Value(mem, r) + Power(Base, n) * c
         /\ \A o \in Nat : Confined(mem, new, size, r, o)
<1>1. PICK w \in Nat \ {0}, m \in Nat, k \in Nat :
        w = Power(Base, n) /\ m = r.n /\ k = m - n
  <2>1. r.n \in Nat /\ r.n - n \in Nat
    BY InsideIs
  <2>2. QED
    BY <2>1, BasePower
<1>2. /\ In(up, size) /\ up.n = k /\ In(First(r, n), size) /\ First(r, n).n = n
      /\ up.area = r.area /\ up.at = r.at + n /\ First(r, n).area = r.area
      /\ First(r, n).at = r.at
  BY <1>1, PartsIn
<1>3. PICK x \in Nat, y \in Nat : x = Value(mem, First(r, n)) /\ y = Value(mem, up)
  BY <1>2, ValueType
<1>4. Value(mem, r) = x + w * y
  BY <1>1, <1>3, ValueSplit
<1>5. PICK h \in Nat : h = Power(Base, k) /\ Power(Base, m) = w * h
  <2>1. n + k = m
    BY <1>1
  <2>2. QED
    <3>1. Base \in Nat /\ Power(Base, k) \in Nat
      BY BaseType, BasePower
    <3>2. Power(Base, n + k) = Power(Base, n) * Power(Base, k)
      BY <3>1, PowerSum
    <3>3. QED
      BY <1>1, <2>1, <3>1, <3>2
<1>6. y + c < h
  <2>1. x + w * y + w * c < w * h
    BY <1>1, <1>4, <1>5
  <2>2. w * (y + c) = w * y + w * c
    OBVIOUS
  <2>3. PICK u \in Nat, v \in Nat : u = w * (y + c) /\ v = w * h /\ u < v
    BY <2>1, <2>2
  <2>4. h <= y + c => h * w <= (y + c) * w
    BY MulPos
  <2>5. h <= y + c => v <= u
    BY <2>3, <2>4
  <2>6. QED
    BY <2>3, <2>5
<1>7. Fills(mem, new, size, up, y + c)
  BY <1>2, <1>3, <1>5, <1>6, StoreFills
<1>8. Memory(new, size) /\ Value(new, up) = y + c /\ Changes(mem, new, size, up)
  BY <1>7 DEF Fills
<1>9. Value(new, First(r, n)) = x
  <2>1. Apart(First(r, n), up)
    <3>1. r.at \in Nat
      BY InsideIs
    <3>2. QED
      BY <1>2, <3>1 DEF Apart
  <2>2. QED
    BY <1>2, <1>3, <1>8, <2>1, ChangesKeep
<1>10. Value(new, r) = x + w * (y + c)
  BY <1>1, <1>8, <1>9, ValueSplit
<1>11. w * (y + c) = w * y + w * c /\ w * y \in Nat /\ w * c \in Nat
  OBVIOUS
<1>12. ASSUME NEW o \in Nat PROVE Confined(mem, new, size, r, o)
  <2>1. Inside(up, r, o)
    BY InsideItself
  <2>2. QED
    BY <1>2, <1>7, <2>1, FillsConfined
<1>13. QED
  BY <1>1, <1>4, <1>8, <1>10, <1>11, <1>12

(* The cross term, where the product of the sums was. *)
LEMMA CrossStored ==
  ASSUME NEW mem, NEW size, Memory(mem, size), NEW s, In(s, size), NEW k \in Nat \ {0}, k <= s.n,
         Value(mem, s) < Power(Base, k), NEW c \in Nat, c <= Value(mem, s),
         NEW t, t = TrimmedSpan(mem, First(s, k)),
         NEW new, new = Store(mem, t, c)
  PROVE  /\ Value(mem, t) = Value(mem, s) /\ Memory(new, size) /\ Value(new, t) = c
         /\ \A o \in Nat : Confined(mem, new, size, s, o)
<1>1. In(First(s, k), size) /\ First(s, k).n = k /\ Value(mem, First(s, k)) = Value(mem, s)
      /\ First(s, k).area = s.area /\ First(s, k).at = s.at
  BY PartsIn, LowLimbsHold
<1>2. /\ In(t, size) /\ t.area = s.area /\ t.at = s.at /\ t.n \in 1 .. k
      /\ Value(mem, t) = Value(mem, s)
  <2>1. First(s, k).n # 0
    BY <1>1
  <2>2. QED
    BY <1>1, <2>1, TrimmedIs
<1>3. Value(mem, s) \in Nat /\ Value(mem, t) < Power(Base, t.n) /\ Power(Base, t.n) \in Nat
  BY <1>2, ValueType
<1>4. c < Power(Base, t.n)
  BY <1>2, <1>3
<1>5. Fills(mem, new, size, t, c)
  BY <1>2, <1>4, StoreFills
<1>6. Memory(new, size) /\ Value(new, t) = c
  BY <1>5 DEF Fills
<1>7. ASSUME NEW o \in Nat PROVE Confined(mem, new, size, s, o)
  <2>1. Inside(t, s, o)
    <3>1. s.at \in Nat /\ s.n \in Nat
      BY InsideIs
    <3>2. QED
      BY <1>2, <3>1 DEF Inside
  <2>2. QED
    BY <1>2, <1>5, <2>1, FillsConfined
<1>8. QED
  BY <1>2, <1>6, <1>7

(* What the cross term is, and the product that it makes up. *)
LEMMA CrossTerm ==
  ASSUME NEW f, NEW o, NEW mem, NEW size, Memory(mem, size), NEW square \in BOOLEAN,
         KaraTask(f, o, mem, size, square), SplitWell(f, o, size, square),
         "scratch" \in DOMAIN size, size["scratch"] \in Nat,
         LowDone(f, mem), HighDone(f, mem)
  PROVE  \E c \in Nat : /\ c = SumSum(f, mem) - HighHigh(f, mem) - LowLow(f, mem)
                        /\ c <= SumSum(f, mem)
                        /\ Value(mem, f.r) + Power(Base, f.n) * c = f.product
                        /\ f.product < Power(Base, f.r.n)
<1>1. PICK n \in Nat \ {0} : n = f.n /\ f.a.n <= 2 * n /\ f.b.n <= 2 * n /\ 2 * n <= f.r.n
  BY DEF SplitWell
<1>2. /\ In(f.a, size) /\ f.a.n # 0 /\ f.a.n \in Nat
      /\ In(f.b, size) /\ f.b.n # 0 /\ f.b.n \in Nat
      /\ f.a.n + f.b.n <= f.r.n /\ f.r.n \in Nat /\ In(f.r, size)
      /\ f.product = Value(mem, f.a) * Value(mem, f.b)
  BY InsideIs DEF KaraTask
<1>3. PICK al \in Nat, ah \in Nat, bl \in Nat, bh \in Nat :
        /\ al = Value(mem, Low(f.a, n)) /\ ah = Value(mem, High(f.a, n))
        /\ bl = Value(mem, Low(f.b, n)) /\ bh = Value(mem, High(f.b, n))
  <2>1. Value(mem, Low(f.a, n)) \in Nat /\ Value(mem, High(f.a, n)) \in Nat
    BY <1>1, <1>2, HalvesOf
  <2>2. Value(mem, Low(f.b, n)) \in Nat /\ Value(mem, High(f.b, n)) \in Nat
    BY <1>1, <1>2, HalvesOf
  <2>3. QED
    BY <2>1, <2>2
<1>4. PICK w \in Nat \ {0} : w = Power(Base, n)
  BY BasePower
<1>5. Value(mem, f.a) = al + w * ah /\ Value(mem, f.b) = bl + w * bh
  <2>1. n \in Nat
    OBVIOUS
  <2>2. Value(mem, f.a) = Value(mem, Low(f.a, n)) + Power(Base, n) * Value(mem, High(f.a, n))
    BY <1>2, <2>1, HalvesMakeUp
  <2>3. Value(mem, f.b) = Value(mem, Low(f.b, n)) + Power(Base, n) * Value(mem, High(f.b, n))
    BY <1>2, <2>1, HalvesMakeUp
  <2>4. QED
    BY <1>3, <1>4, <2>2, <2>3
<1>6. PICK l \in Nat, h \in Nat, c \in Nat :
        /\ l = al * bl /\ h = ah * bh /\ c = al * bh + ah * bl
        /\ (al + ah) * (bl + bh) = l + h + c
        /\ (al + w * ah) * (bl + w * bh) = (l + (w * w) * h) + w * c
  BY CrossSum
<1>7. LowLow(f, mem) = l /\ HighHigh(f, mem) = h /\ SumSum(f, mem) = l + h + c
  BY <1>1, <1>3, <1>6 DEF LowLow, HighHigh, SumSum
<1>8. Value(mem, f.r) = l + (w * w) * h
  <2>1. 2 * n \in Nat
    OBVIOUS
  <2>2. Value(mem, f.r) = Value(mem, First(f.r, 2 * n))
                            + Power(Base, 2 * n) * Value(mem, Subspan(f.r, 2 * n))
    BY <1>1, <1>2, <2>1, ValueSplit
  <2>3. Value(mem, First(f.r, 2 * n)) = l
    BY <1>1, <1>7 DEF LowDone, ResultLow
  <2>4. Value(mem, Subspan(f.r, 2 * n)) = h
    BY <1>1, <1>7 DEF HighDone, ResultHigh
  <2>5. Power(Base, 2 * n) = w * w
    <3>1. Power(Base, n + n) = Power(Base, n) * Power(Base, n)
      BY BaseType, PowerSum
    <3>2. n + n = 2 * n
      OBVIOUS
    <3>3. QED
      BY <1>4, <3>1, <3>2
  <2>6. QED
    BY <2>2, <2>3, <2>4, <2>5
<1>9. Value(mem, f.r) + Power(Base, f.n) * c = f.product
  BY <1>1, <1>2, <1>4, <1>5, <1>6, <1>8
<1>10. f.product < Power(Base, f.r.n)
  <2>1. PICK i \in Nat, j \in Nat, m \in Nat : i = f.a.n /\ j = f.b.n /\ m = f.r.n /\ i + j <= m
    BY <1>2
  <2>2. /\ Value(mem, f.a) \in Nat /\ Value(mem, f.a) < Power(Base, i)
        /\ Value(mem, f.b) \in Nat /\ Value(mem, f.b) < Power(Base, j)
    BY <1>2, <2>1, ValueType
  <2>3. f.product \in Nat /\ f.product < Power(Base, i + j)
    BY <1>2, <2>2, ProductFits
  <2>4. Power(Base, i + j) <= Power(Base, m)
    BY <2>1, BaseType, PowerGrows
  <2>5. Power(Base, i + j) \in Nat /\ Power(Base, m) \in Nat
    BY BasePower
  <2>6. QED
    BY <2>1, <2>3, <2>4, <2>5
<1>11. c = SumSum(f, mem) - HighHigh(f, mem) - LowLow(f, mem) /\ c <= SumSum(f, mem)
  BY <1>7
<1>12. QED
  BY <1>9, <1>10, <1>11

LEMMA KaraCrossWell ==
  ASSUME NEW d \in Nat \ {0}, NEW size, KaraRunWell(kara, d, size), KaraCross
  PROVE  KaraRunWell(kara', d, size)
<1>1. PICK f, o, mem, square :
        f = KaraFrame /\ o = BeginsAt(kara.frames, d, kara.square) /\ mem = kara.mem
        /\ square = kara.square
  OBVIOUS
<1>2. /\ f = kara.frames[d] /\ o \in Nat /\ Memory(mem, size) /\ In(f.r, size)
      /\ KaraTask(f, o, mem, size, square) /\ f.pc = "cross" /\ square \in BOOLEAN
      /\ "scratch" \in DOMAIN size /\ size["scratch"] \in Nat /\ Nested(f.r, o, f.r, o)
      /\ KaraTop(f, o, mem, size, square, kara.offset)
      /\ {"frames", "mem", "offset", "square"} \subseteq DOMAIN kara
  BY <1>1, KaraNow DEF KaraCross
<1>3. /\ SplitWell(f, o, size, square) /\ kara.offset = o + BlockOf(f.n, square)
      /\ LowDone(f, mem) /\ HighDone(f, mem)
      /\ "sums" \in DOMAIN f /\ f.sums \in 1 .. 2 * f.n + 2
      /\ Value(mem, T1(f)) = SumSum(f, mem)
      /\ SumSum(f, mem) < Power(Base, f.sums)
  BY <1>2 DEF KaraTop
<1>4. PICK n \in Nat \ {0}, k \in Nat \ {0} : n = f.n /\ k = f.sums /\ k <= 2 * n + 2
  BY <1>3 DEF SplitWell
<1>5. PICK c \in Nat : /\ c = SumSum(f, mem) - HighHigh(f, mem) - LowLow(f, mem)
                       /\ c <= SumSum(f, mem)
                       /\ Value(mem, f.r) + Power(Base, n) * c = f.product
                       /\ f.product < Power(Base, f.r.n)
  <2>1. \E c \in Nat : /\ c = SumSum(f, mem) - HighHigh(f, mem) - LowLow(f, mem)
                       /\ c <= SumSum(f, mem)
                       /\ Value(mem, f.r) + Power(Base, f.n) * c = f.product
                       /\ f.product < Power(Base, f.r.n)
    BY <1>2, <1>3, CrossTerm
  <2>2. QED
    BY <1>4, <2>1
<1>6. /\ In(T1(f), size) /\ T1(f).n = 2 * n + 2
      /\ In(ResultHigh(f), size) /\ In(ResultLow(f), size)
  BY <1>2, <1>3, <1>4, SplitPlaces
<1>7. /\ Nested(f.r, o, T1(f), o) /\ Inside(T1(f), T1(f), o)
      /\ Clear(ResultLow(f), T1(f), o) /\ Clear(ResultHigh(f), T1(f), o)
  <2>1. KaraTask(f, o, mem, size, kara.square) /\ SplitWell(f, o, size, kara.square)
        /\ kara.square \in BOOLEAN
    BY <1>1, <1>2, <1>3
  <2>2. QED
    BY <1>2, <2>1, BlockPlaces
<1>8. PICK t1, mem1, up, new :
        /\ t1 = TrimmedSpan(mem, First(T1(f), k)) /\ mem1 = Store(mem, t1, c)
        /\ up = Subspan(f.r, n) /\ new = Store(mem1, up, Value(mem1, up) + c)
  OBVIOUS
<1>9. /\ Value(mem, t1) = SumSum(f, mem) /\ Memory(mem1, size) /\ Value(mem1, t1) = c
      /\ Confined(mem, mem1, size, T1(f), o)
  <2>1. k <= T1(f).n /\ Value(mem, T1(f)) < Power(Base, k) /\ c <= Value(mem, T1(f))
    BY <1>3, <1>4, <1>5, <1>6
  <2>2. /\ Value(mem, t1) = Value(mem, T1(f)) /\ Memory(mem1, size) /\ Value(mem1, t1) = c
        /\ \A q \in Nat : Confined(mem, mem1, size, T1(f), q)
    BY <1>2, <1>6, <1>8, <2>1, CrossStored
  <2>3. QED
    BY <1>2, <1>3, <2>2
<1>10. Value(mem1, f.r) = Value(mem, f.r)
  <2>1. Clear(f.r, T1(f), o)
    <3>1. T1(f).area = "scratch" /\ T1(f).at = o
      BY <1>2, <1>3, SplitPlaces
    <3>2. f.r.area = "scratch" => f.r.at + f.r.n <= o
      BY <1>2 DEF KaraTask
    <3>3. QED
      BY <3>1, <3>2 DEF Clear, Apart
  <2>2. QED
    BY <1>2, <1>6, <1>9, <2>1, ConfinedKeeps
<1>11. Memory(new, size) /\ Value(new, f.r) = f.product /\ Confined(mem1, new, size, f.r, o)
  <2>1. n \in Nat /\ n <= f.r.n
    <3>1. 2 * n <= f.r.n /\ f.r.n \in Nat
      BY <1>2, <1>3, <1>4, InsideIs DEF SplitWell
    <3>2. QED
      BY <3>1
  <2>2. Value(mem1, f.r) + Power(Base, n) * c < Power(Base, f.r.n)
    BY <1>5, <1>10
  <2>3. /\ Memory(new, size) /\ Value(new, f.r) = Value(mem1, f.r) + Power(Base, n) * c
        /\ \A q \in Nat : Confined(mem1, new, size, f.r, q)
    BY <1>2, <1>8, <1>9, <2>1, <2>2, AddedAt
  <2>4. QED
    BY <1>2, <1>5, <1>10, <2>3
<1>12. Confined(mem, new, size, f.r, o)
  <2>1. Confined(mem, mem1, size, f.r, o)
    BY <1>2, <1>6, <1>7, <1>9, ConfinedNested
  <2>2. QED
    BY <1>11, <2>1, ConfinedBoth
<1>13. PICK high, low :
         /\ high = (IF f.high THEN Value(mem, First(ResultHigh(f),
                                                   High(f.a, n).n + High(f.b, n).n)) ELSE 0)
         /\ low = Value(mem, First(ResultLow(f), f.low))
  OBVIOUS
<1>14. high = HighHigh(f, mem) /\ low = LowLow(f, mem)
  <2>1. low = LowLow(f, mem)
    BY <1>3, <1>13 DEF LowDone
  <2>2. CASE f.high
    <3>1. f.n < f.a.n /\ f.n < f.b.n /\ Value(mem, ResultHigh(f)) = HighHigh(f, mem)
      BY <1>3, <2>2 DEF HighDone
    <3>2. PICK j \in Nat : /\ j = High(f.a, n).n + High(f.b, n).n /\ j <= ResultHigh(f).n
                           /\ HighHigh(f, mem) < Power(Base, j)
      <4>1. /\ High(f.a, f.n).n + High(f.b, f.n).n \in Nat \ {0}
            /\ High(f.a, f.n).n + High(f.b, f.n).n <= ResultHigh(f).n
            /\ HighHigh(f, mem) < Power(Base, High(f.a, f.n).n + High(f.b, f.n).n)
        BY <1>2, <1>3, <3>1, HighFits
      <4>2. QED
        BY <1>4, <4>1
    <3>3. Value(mem, First(ResultHigh(f), j)) = HighHigh(f, mem)
      BY <1>2, <1>6, <3>1, <3>2, LowLimbsHold
    <3>4. QED
      BY <1>13, <2>1, <2>2, <3>2, <3>3
  <2>3. CASE ~f.high
    <3>1. HighHigh(f, mem) = 0
      BY <1>3, <2>3 DEF HighDone
    <3>2. QED
      BY <1>13, <2>1, <2>3, <3>1
  <2>4. QED
    BY <2>2, <2>3
<1>15. Value(mem, t1) - high - low = c
  BY <1>5, <1>9, <1>14
<1>16. kara' = [kara EXCEPT !.mem = new, !.offset = kara.offset - BlockSize(n),
                            !.frames = KaraReturned]
  <2>1. KaraFrame = f /\ kara.mem = mem /\ f.n = n /\ f.sums = k
    BY <1>1, <1>4
  <2>2. kara' = [kara EXCEPT
           !.mem = Store(Store(mem, t1, Value(mem, t1) - high - low), up,
                         Value(Store(mem, t1, Value(mem, t1) - high - low), up)
                           + Value(Store(mem, t1, Value(mem, t1) - high - low), t1)),
           !.offset = kara.offset - BlockSize(n),
           !.frames = KaraReturned]
    BY <1>8, <1>13, <2>1, Zenon DEF KaraCross
  <2>3. /\ Store(mem, t1, Value(mem, t1) - high - low) = mem1 /\ Value(mem1, t1) = c
        /\ Store(mem1, up, Value(mem1, up) + c) = new
    BY <1>8, <1>9, <1>15
  <2>4. QED
    BY <2>2, <2>3, Zenon
<1>17. kara.offset - BlockSize(n) = o
  <2>1. BlockSize(n) = BlockOf(f.n, square) /\ BlockSize(n) \in Nat
    BY <1>1, <1>4 DEF BlockSize, BlockOf
  <2>2. QED
    BY <1>2, <1>3, <2>1
<1>18. KaraIs(kara', KaraReturned, new, o, kara.square)
  BY <1>2, <1>16, <1>17, KaraRecord
<1>19. Confined(kara.mem, new, size, f.r, o)
  BY <1>1, <1>12
<1>20. QED
  BY <1>1, <1>11, <1>18, <1>19, KaraReturns

LEMMA KaraReturnWell ==
  ASSUME NEW d \in Nat \ {0}, NEW size, KaraRunWell(kara, d, size), KaraReturn
  PROVE  kara' = KaraIdle \/ (d - 1 \in Nat \ {0} /\ KaraRunWell(kara', d - 1, size))
<1>1. Len(kara.frames) = d /\ KaraFrame = kara.frames[d] /\ kara.frames[d].pc = "return"
      /\ {"frames", "mem", "offset", "square"} \subseteq DOMAIN kara
  BY KaraTopIs DEF KaraReturn, KaraRunWell
<1>2. CASE d = 1
  BY <1>1, <1>2 DEF KaraReturn
<1>3. CASE d # 1
  <2>1. kara' = [kara EXCEPT !.frames = SubSeq(kara.frames, 1, d - 1)]
    BY <1>1, <1>3, Zenon DEF KaraReturn
  <2>2. KaraIs(kara', SubSeq(kara.frames, 1, d - 1), kara.mem, kara.offset, kara.square)
    BY <1>1, <2>1, KaraRecord
  <2>3. QED
    BY <1>1, <1>3, <2>2, KaraPops
<1>4. QED
  BY <1>2, <1>3

(* A span of zeros. *)
LEMMA ZerosShow ==
  ASSUME NEW mem, NEW size, Memory(mem, size), NEW s, In(s, size),
         \A i \in 0 .. s.n - 1 : Limb(mem, s, i) = 0
  PROVE  Value(mem, s) = 0
<1>1. PICK n \in Nat : n = s.n
  BY InsideIs
<1>2. /\ IsArray(Under(mem, s), n) /\ \A i \in 0 .. n - 1 : Under(mem, s)[i] = 0
      /\ Value(mem, s) = Magnitude(Under(mem, s), n) /\ IsWritten(Under(mem, s), n)
  BY <1>1, UnderFacts
<1>3. n \in 0 .. n /\ 0 \in 0 .. n
  OBVIOUS
<1>4. Magnitude(Under(mem, s), n) = Magnitude(Under(mem, s), 0)
  BY <1>2, <1>3, MagnitudeZeros
<1>5. Magnitude(Under(mem, s), 0) = 0
  <2>1. IsWritten(Under(mem, s), 0)
    BY DEF IsWritten
  <2>2. Magnitude(Under(mem, s), 0) \in Nat /\ Magnitude(Under(mem, s), 0) < Power(Base, 0)
    BY <1>2, <1>3, <2>1, MagnitudeType
  <2>3. Power(Base, 0) = 1
    BY BaseType, PowerOne
  <2>4. QED
    BY <2>2, <2>3
<1>6. QED
  BY <1>2, <1>4, <1>5

LEMMA KaraEnterWell ==
  ASSUME KaraEnter
  PROVE  KaraWell(kara')
<1> DEFINE SizeOf(p) == LargerOf(Size(p[1]), Size(p[2]))
           Started(p, square, override, extra, m, aa) ==
             [frames |-> <<KaraCall(m, Span("result", 0, Size(p[1]) + Size(p[2]) + extra), aa,
                                    IF square THEN aa ELSE Span("b", 0, Size(p[2])), override)>>,
              mem |-> m, offset |-> 0, square |-> square]
<1>1. PICK p \in KaraOperands, square \in BOOLEAN, override \in KaraOverrides, extra \in {0, 1},
           garbage \in Leftovers :
        /\ square => p[1] = p[2]
        /\ kara' = Started(p, square, override, extra,
                     [a |-> p[1], b |-> p[2],
                      result |-> Filled(Size(p[1]) + Size(p[2]) + extra, 0),
                      scratch |-> Leftover(karatsuba_storage_size(SizeOf(p)), garbage)],
                     Span("a", 0, Size(p[1])))
  BY DEF KaraEnter
<1>2. PICK na \in Nat \ {0}, nb \in Nat \ {0} :
        /\ na = Size(p[1]) /\ nb = Size(p[2]) /\ (square => na = nb)
        /\ p[1] \in [0 .. na - 1 -> 0 .. Base - 1] /\ p[2] \in [0 .. nb - 1 -> 0 .. Base - 1]
  BY <1>1, KaraAssumption
<1>3. PICK l \in Nat, s \in Nat, nr \in Nat :
        l = LargerOf(na, nb) /\ s = karatsuba_storage_size(l) /\ s = KaraPerLimb * l
        /\ nr = na + nb + extra /\ na + nb <= nr
  <2>1. LargerOf(na, nb) \in Nat
    BY LargerIs
  <2>2. KaraPerLimb \in Nat
    BY KaraAssumption
  <2>3. KaraPerLimb * LargerOf(na, nb) \in Nat
    BY <2>1, <2>2
  <2>4. karatsuba_storage_size(LargerOf(na, nb)) = KaraPerLimb * LargerOf(na, nb)
    BY DEF karatsuba_storage_size
  <2>5. na + nb + extra \in Nat /\ na + nb <= na + nb + extra
    OBVIOUS
  <2>6. QED
    BY <2>1, <2>3, <2>4, <2>5
<1>4. PICK mem, r, a, b :
        /\ mem = [a |-> p[1], b |-> p[2], result |-> Filled(nr, 0),
                  scratch |-> Leftover(s, garbage)]
        /\ r = Span("result", 0, nr) /\ a = Span("a", 0, na)
        /\ b = IF square THEN a ELSE Span("b", 0, nb)
  OBVIOUS
<1>5. kara' = [frames |-> <<KaraCall(mem, r, a, b, override)>>, mem |-> mem, offset |-> 0,
               square |-> square]
  BY <1>1, <1>2, <1>3, <1>4
<1>6. PICK size : size = [a |-> na, b |-> nb, result |-> nr, scratch |-> s]
  OBVIOUS
<1>7. /\ DOMAIN size = {"a", "b", "result", "scratch"}
      /\ size["a"] = na /\ size["b"] = nb /\ size["result"] = nr /\ size["scratch"] = s
  BY <1>6
<1>8. Memory(mem, size)
  <2>1. /\ mem["a"] = p[1] /\ mem["b"] = p[2] /\ mem["result"] = Filled(nr, 0)
        /\ mem["scratch"] = Leftover(s, garbage)
        /\ mem = [x \in {"a", "b", "result", "scratch"} |-> mem[x]]
    BY <1>4
  <2>2. Filled(nr, 0) \in [0 .. nr - 1 -> 0 .. Base - 1]
        /\ Leftover(s, garbage) \in [0 .. s - 1 -> 0 .. Base - 1]
    <3>1. 0 \in 0 .. Base - 1
      BY BaseType
    <3>2. Filled(nr, 0) \in [0 .. nr - 1 -> 0 .. Base - 1]
      BY <3>1 DEF Filled
    <3>3. QED
      BY <3>2, LeftoverLimbs
  <2>3. \A x \in {"a", "b", "result", "scratch"} :
          size[x] \in Nat /\ mem[x] \in [0 .. size[x] - 1 -> 0 .. Base - 1]
    <3> TAKE x \in {"a", "b", "result", "scratch"}
    <3>1. CASE x = "a"
      BY <1>2, <1>7, <2>1, <3>1
    <3>2. CASE x = "b"
      BY <1>2, <1>7, <2>1, <3>2
    <3>3. CASE x = "result"
      BY <1>7, <2>1, <2>2, <3>3
    <3>4. CASE x = "scratch"
      BY <1>7, <2>1, <2>2, <3>4
    <3>5. QED
      BY <3>1, <3>2, <3>3, <3>4
  <2>4. QED
    BY <1>7, <2>1, <2>3 DEF Memory
<1>9. In(r, size) /\ r.area = "result" /\ r.at = 0 /\ r.n = nr
  BY <1>4, <1>7 DEF In, Span
<1>10. In(a, size) /\ a.area = "a" /\ a.at = 0 /\ a.n = na
  BY <1>4, <1>7 DEF In, Span
<1>11. In(b, size) /\ b.area \in {"a", "b"} /\ b.n = nb /\ (square => a = b)
  <2>1. CASE square
    BY <1>2, <1>4, <1>10, <2>1
  <2>2. CASE ~square
    <3>1. b = Span("b", 0, nb)
      BY <1>4, <2>2
    <3>2. In(b, size) /\ b.area = "b" /\ b.n = nb
      BY <1>7, <3>1 DEF In, Span
    <3>3. QED
      BY <2>2, <3>2
  <2>3. QED
    BY <2>1, <2>2
<1>12. PICK h : h = KaraCall(mem, r, a, b, override)
  OBVIOUS
<1>13. /\ {"pc", "r", "a", "b", "override", "product"} \subseteq DOMAIN h
       /\ h.pc = "enter" /\ h.r = r /\ h.a = a /\ h.b = b /\ h.override = override
       /\ h.product = Value(mem, a) * Value(mem, b)
  BY <1>12 DEF KaraCall
<1>14. KaraTask(h, 0, mem, size, square)
  <2>1. Clear(a, r, 0) /\ Clear(b, r, 0)
    BY <1>9, <1>10, <1>11 DEF Clear, Apart
  <2>2. a.n # 0 /\ b.n # 0 /\ a.n + b.n <= r.n
    BY <1>3, <1>9, <1>10, <1>11
  <2>3. 0 \in Nat /\ r.area # "scratch"
    BY <1>9
  <2>4. QED
    BY <1>9, <1>10, <1>11, <1>13, <2>1, <2>2, <2>3 DEF KaraTask
<1>15. KaraTop(h, 0, mem, size, square, 0)
  <2>1. Value(mem, r) = 0
    <3>1. \A i \in 0 .. r.n - 1 : Limb(mem, r, i) = 0
      <4> TAKE i \in 0 .. r.n - 1
      <4>1. mem["result"] = Filled(nr, 0)
        BY <1>4
      <4>2. Limb(mem, r, i) = mem["result"][0 + i]
        BY <1>9 DEF Limb
      <4>3. 0 + i \in 0 .. nr - 1
        BY <1>9
      <4>4. QED
        BY <4>1, <4>2, <4>3 DEF Filled
    <3>2. QED
      BY <1>8, <1>9, <3>1, ZerosShow
  <2>2. override \in Nat /\ (override = 0 \/ override >= 3)
    BY KaraAssumption
  <2>3. LargerOf(a.n, b.n) = l
    BY <1>3, <1>10, <1>11
  <2>4. 0 + KaraPerLimb * LargerOf(a.n, b.n) <= size["scratch"]
    <3>1. 0 + s <= s
      OBVIOUS
    <3>2. QED
      BY <1>3, <1>7, <2>3, <3>1
  <2>5. QED
    BY <1>13, <2>1, <2>2, <2>4 DEF KaraTop
<1>16. PICK fr : fr = <<h>> /\ fr = [k \in 1 .. 1 |-> fr[k]] /\ fr[1] = h
  <2>1. <<h>> = [k \in 1 .. 1 |-> <<h>>[k]] /\ <<h>>[1] = h
    OBVIOUS
  <2>2. QED
    BY <2>1
<1>17. KaraBelow(fr, 1, mem, size, square)
  <2>1. 1 .. 1 - 1 = {} /\ \A j, k \in 1 .. 1 : ~(j < k)
    OBVIOUS
  <2>2. QED
    BY <2>1 DEF KaraBelow
<1>18. KaraIs(kara', fr, mem, 0, square)
  BY <1>5, <1>12, <1>16 DEF KaraIs
<1>19. BeginsAt(fr, 1, square) = 0
  BY DEF BeginsAt
<1>20. KaraRunWell(kara', 1, size)
  BY <1>7, <1>8, <1>14, <1>15, <1>16, <1>17, <1>18, <1>19 DEF KaraRunWell, KaraIs
<1>21. QED
  <2>1. 1 \in Nat \ {0}
    OBVIOUS
  <2>2. QED
    BY <1>20, <2>1 DEF KaraWell

(* Every step of the kernel keeps the stack of its frames well. *)
LEMMA KaraStepWell ==
  ASSUME KaraWell(kara), KaraStep
  PROVE  KaraWell(kara')
<1>1. kara.frames # <<>>
  BY DEF KaraStep, KaraBase, KaraSplit, KaraLow, KaraHigh, KaraSums, KaraCross, KaraReturn
<1>2. kara # KaraIdle
  BY <1>1 DEF KaraIdle
<1>3. PICK d \in Nat \ {0} : \E size : KaraRunWell(kara, d, size)
  BY <1>2 DEF KaraWell
<1>4. PICK size : KaraRunWell(kara, d, size)
  BY <1>3
<1>5. d + 1 \in Nat \ {0}
  OBVIOUS
<1>6. CASE KaraBase
  BY <1>4, <1>6, KaraBaseWell DEF KaraWell
<1>7. CASE KaraSplit
  BY <1>4, <1>5, <1>7, KaraSplitWell DEF KaraWell
<1>8. CASE KaraLow
  BY <1>4, <1>5, <1>8, KaraLowWell DEF KaraWell
<1>9. CASE KaraHigh
  BY <1>4, <1>9, KaraHighWell DEF KaraWell
<1>10. CASE KaraSums
  BY <1>4, <1>5, <1>10, KaraSumsWell DEF KaraWell
<1>11. CASE KaraCross
  BY <1>4, <1>11, KaraCrossWell DEF KaraWell
<1>12. CASE KaraReturn
  BY <1>4, <1>12, KaraReturnWell DEF KaraWell
<1>13. QED
  BY <1>6, <1>7, <1>8, <1>9, <1>10, <1>11, <1>12 DEF KaraStep

LEMMA KaraHasProduct ==
  ASSUME KaraWell(kara)
  PROVE  KaratsubaProduct
<1>1. CASE kara = KaraIdle
  BY <1>1 DEF KaraIdle, KaratsubaProduct
<1>2. CASE kara # KaraIdle
  <2>1. PICK d \in Nat \ {0} : \E size : KaraRunWell(kara, d, size)
    BY <1>2 DEF KaraWell
  <2>2. PICK size : KaraRunWell(kara, d, size)
    BY <2>1
  <2>3. PICK f, o : f = KaraFrame /\ o = BeginsAt(kara.frames, d, kara.square)
    OBVIOUS
  <2>4. KaraTop(f, o, kara.mem, size, kara.square, kara.offset)
    BY <2>2, <2>3, KaraNow
  <2>5. QED
    BY <2>3, <2>4 DEF KaratsubaProduct, KaraTop
<1>3. QED
  BY <1>1, <1>2

(* Every call of the Karatsuba kernels, at any depth of the recursion, leaves the product of what
   its operands were in its whole window: for every width of a limb, all operands, any limbs in
   the workspace, and every table of cutoffs that KaraAssumption admits. *)
THEOREM KaratsubaProductIsRight == Spec => []KaratsubaProduct
<1>1. Init => KaraWell(kara)
  BY DEF Init, KaraInit, KaraWell
<1>2. KaraWell(kara) /\ [Next]_vars => KaraWell(kara)'
  <2> SUFFICES ASSUME KaraWell(kara), [Next]_vars PROVE KaraWell(kara')
    BY DEF KaraWell, KaraRunWell
  <2>1. CASE kara' = kara
    BY <2>1
  <2>2. CASE KaraEnter
    BY <2>2, KaraEnterWell
  <2>3. CASE KaraStep
    BY <2>3, KaraStepWell
  <2>4. QED
    BY <2>1, <2>2, <2>3 DEF Next, Enter, KaraRuns, DispRuns, WrapRuns, ToomRuns, WsRuns, vars
<1>3. KaraWell(kara) => KaratsubaProduct
  BY KaraHasProduct
<1>4. QED
  BY <1>1, <1>2, <1>3, PTL DEF Spec

==============================================================================
