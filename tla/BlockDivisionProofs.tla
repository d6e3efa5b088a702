-------------------------- MODULE BlockDivisionProofs --------------------------
(***************************************************************************)
(* Proofs about block-wise division (BlockDivision), for every width of a  *)
(* limb, all operands and thresholds: that the recursion of D_2n/n and     *)
(* D_3n/2n divides, and how far its approximate form misses the quotient.  *)
(*                                                                         *)
(* A call changes the limbs of its window and of its quotient only, and    *)
(* those of the calls above it lie within, so what a call has finished     *)
(* stays (BzKeeps). Stands says of the call that runs how far it has come, *)
(* Waits of every other one what is left once the call above it returns.   *)
(* The last part is about the workspaces of division (DivisionWorkspace):  *)
(* the steps that are left find at every call the room it needs (Leads).   *)
(***************************************************************************)

EXTENDS KnuthDivisionProofs, LimbMemoryProofs

-----------------------------------------------------------------------------
(* Numbers.                                                                *)

(* The upper half of a number with its top bit set has its top bit set. *)
LEMMA UpperNormalized ==
  ASSUME NEW e \in Nat \ {0}, NEW p \in Nat, p = 2 * e, NEW u \in Nat, NEW l \in 0 .. p - 1,
         p * p <= 2 * (l + p * u)
  PROVE  p <= 2 * u
<1>1. ASSUME 2 * u < p PROVE FALSE
  <2>1. u + 1 <= e
    BY <1>1
  <2>2. (u + 1) * p <= e * p
    BY <2>1, MulPos
  <2>3. 2 * (e * p) = p * p /\ 2 * ((u + 1) * p) = 2 * (p * u) + 2 * p
    OBVIOUS
  <2>4. QED
    BY <2>2, <2>3
<1>2. QED
  BY <1>1

(* The quotient of a window of which the top is below the divisor fits. *)
LEMMA QuotientFits ==
  ASSUME NEW p \in Nat \ {0}, NEW b \in Nat \ {0}, NEW low \in 0 .. p - 1, NEW top \in Nat,
         top < b
  PROVE  (low + p * top) \div b < p /\ (low + p * top) \div b \in Nat
<1>1. low + p * top \in Nat
  OBVIOUS
<1>2. (top + 1) * p <= b * p
  BY MulPos
<1>3. low + p * top < b * p
  BY <1>2
<1>4. QED
  BY <1>1, <1>3, DivBelow, DivNat

(* D_3n/2n with an estimate q of the quotient of the upper part hi by the upper half u of the
   divisor: what is left, and its bounds once the lower half l is taken off. *)
LEMMA EstimateLeaves ==
  ASSUME NEW p \in Nat \ {0}, NEW u \in Nat, NEW l \in 0 .. p - 1, NEW q \in Nat, NEW r \in Nat,
         r < u, NEW low \in 0 .. p - 1
  PROVE  /\ (q * u + r) * p + low = q * u * p + (r * p + low)
         /\ (r * p + low) - q * l < l + p * u
<1>1. (r + 1) * p <= u * p
  BY MulPos
<1>2. 0 <= q * l
  OBVIOUS
<1>3. u * p = p * u /\ (r + 1) * p = r * p + p /\ q * l \in Nat /\ p * u \in Nat /\ r * p \in Nat
  OBVIOUS
<1>4. (r * p + low) - q * l < l + p * u
  BY <1>1, <1>2, <1>3
<1>5. QED
  BY <1>4

(* The same with the largest quotient, when the top of the window is u. *)
LEMMA LargestLeaves ==
  ASSUME NEW p \in Nat \ {0}, NEW u \in Nat, NEW l \in 0 .. p - 1, NEW mid \in Nat, mid < l,
         NEW low \in 0 .. p - 1
  PROVE  /\ (u * p + mid) * p + low = (p - 1) * u * p + ((mid + u) * p + low)
         /\ ((mid + u) * p + low) - (p - 1) * l < l + p * u
<1>1. (mid + 1) * p <= l * p
  BY MulPos
<1>2. (mid + u) * p = mid * p + u * p /\ (p - 1) * l = p * l - l /\ (mid + 1) * p = mid * p + p
  OBVIOUS
<1>3. mid * p \in Nat /\ u * p \in Nat /\ p * l \in Nat /\ p * u = u * p /\ l * p = p * l
  OBVIOUS
<1>4. ((mid + u) * p + low) - (p - 1) * l < l + p * u
  BY <1>1, <1>2, <1>3
<1>5. (p - 1) * u * p = (u * p) * p - u * p
  OBVIOUS
<1>6. (u * p + mid) * p = (u * p) * p + mid * p
  OBVIOUS
<1>7. (u * p + mid) * p + low = (p - 1) * u * p + ((mid + u) * p + low)
  BY <1>2, <1>3, <1>5, <1>6
<1>8. QED
  BY <1>4, <1>7

(* The lower half of the divisor takes off less than the divisor twice. *)
LEMMA TakenBelow ==
  ASSUME NEW p \in Nat \ {0}, NEW b \in Nat, p * p <= 2 * b, NEW q \in 0 .. p - 1,
         NEW l \in 0 .. p - 1
  PROVE  q * l < 2 * b /\ q * l < p * p
<1>1. q * l <= (p - 1) * l /\ (p - 1) * l <= (p - 1) * p
  BY MulPos
<1>2. (p - 1) * p = p * p - p
  OBVIOUS
<1>3. QED
  BY <1>1, <1>2

(* The quotient of a window in two halves. *)
LEMMA HalvesDivide ==
  ASSUME NEW p \in Nat, NEW b \in Nat, NEW q1 \in Nat, NEW q0 \in Nat, NEW r1 \in Nat,
         NEW r0 \in Nat, NEW low \in Nat, q0 * b + r0 = r1 * p + low
  PROVE  (q1 * b + r1) * p + low = (q0 + p * q1) * b + r0
<1>1. (q1 * b + r1) * p = (p * q1) * b + r1 * p
  OBVIOUS
<1>2. (q0 + p * q1) * b = q0 * b + (p * q1) * b
  OBVIOUS
<1>3. QED
  BY <1>1, <1>2

-----------------------------------------------------------------------------
(* The approximate quotient.                                               *)

(* v is the number divided, q its quotient by b or up to lift / b more. *)
Approximates(q, b, v, lift) == v < (q + 1) * b /\ q * b <= v + lift

(* A half approximated by the upper half of the divisor alone: the error is once more the power
   that the lower half of the quotient may take of the lower half of the divisor. *)
LEMMA HalfApproximates ==
  ASSUME NEW p \in Nat \ {0}, NEW u \in Nat, NEW l \in 0 .. p - 1, NEW q1 \in Nat,
         NEW q0 \in 0 .. p - 1, NEW r \in Nat, NEW low \in 0 .. p - 1, NEW levels \in Nat,
         Approximates(q0, u, r, levels * p + u)
  PROVE  Approximates(q0 + p * q1, l + p * u, (q1 * (l + p * u) + r) * p + low,
                      (levels + 1) * (p * p) + (l + p * u))
<1> DEFINE b == l + p * u
           v == (q1 * b + r) * p + low
<1>1. b \in Nat /\ v \in Nat
  OBVIOUS
<1>2. v = (p * q1) * b + r * p + low
  OBVIOUS
<1>3. (q0 + p * q1) * b = q0 * b + (p * q1) * b
  BY <1>1
<1>4. q0 * b = q0 * l + (q0 * u) * p
  OBVIOUS
<1>5. (q0 + 1) * u <= r + (levels * p + u) + u /\ r + 1 <= (q0 + 1) * u
      /\ q0 * u <= r + (levels * p + u)
  <2>1. (q0 + 1) * u = q0 * u + u
    OBVIOUS
  <2>2. QED
    BY <2>1 DEF Approximates
<1> HIDE DEF b, v
<1>6. v < (q0 + p * q1 + 1) * b
  <2>1. (r + 1) * p <= ((q0 + 1) * u) * p
    BY <1>5, MulPos
  <2>2. ((q0 + 1) * u) * p = (q0 * u) * p + u * p /\ (r + 1) * p = r * p + p
    OBVIOUS
  <2>3. (q0 + p * q1 + 1) * b = (q0 + p * q1) * b + b
    BY <1>1
  <2>4. b = l + u * p /\ 0 <= q0 * l
    BY DEF b
  <2>5. r * p \in Nat /\ (q0 * u) * p \in Nat /\ u * p \in Nat /\ (p * q1) * b \in Nat
        /\ q0 * l \in Nat /\ q0 * b \in Nat /\ (q0 + p * q1) * b \in Nat
    BY <1>1
  <2>6. QED
    BY <1>1, <1>2, <1>3, <1>4, <2>1, <2>2, <2>3, <2>4, <2>5
<1>7. (q0 + p * q1) * b <= v + ((levels + 1) * (p * p) + b)
  <2>1. (q0 * u) * p <= (r + (levels * p + u)) * p
    BY <1>5, MulPos
  <2>2. (r + (levels * p + u)) * p = r * p + levels * (p * p) + u * p
    OBVIOUS
  <2>3. q0 * l <= p * l /\ p * l <= p * p
    <3>1. q0 * l <= p * l /\ l * p <= p * p
      BY MulPos
    <3>2. QED
      BY <3>1
  <2>4. (levels + 1) * (p * p) = levels * (p * p) + p * p
    OBVIOUS
  <2>5. b = l + u * p
    BY DEF b
  <2>6. r * p \in Nat /\ (q0 * u) * p \in Nat /\ u * p \in Nat /\ (p * q1) * b \in Nat
        /\ q0 * l \in Nat /\ q0 * b \in Nat /\ (q0 + p * q1) * b \in Nat
        /\ levels * (p * p) \in Nat /\ p * p \in Nat
    BY <1>1
  <2>7. QED
    BY <1>1, <1>2, <1>3, <1>4, <2>1, <2>2, <2>3, <2>4, <2>5, <2>6
<1>8. QED
  BY <1>6, <1>7 DEF Approximates, b, v

(* A lower half of all ones, when the top of the remainder is that of the divisor. *)
LEMMA SaturatedApproximates ==
  ASSUME NEW p \in Nat \ {0}, NEW u \in Nat, NEW l \in 0 .. p - 1, NEW q1 \in Nat,
         NEW r \in Nat, r < l + p * u, p * u <= r, NEW low \in 0 .. p - 1, NEW levels \in Nat
  PROVE  Approximates((p - 1) + p * q1, l + p * u, (q1 * (l + p * u) + r) * p + low,
                      (levels + 1) * (p * p) + (l + p * u))
<1> DEFINE b == l + p * u
<1>1. b \in Nat /\ b - r \in 1 .. p - 1
  OBVIOUS
<1>2. PICK d \in 1 .. p - 1 : r = b - d
  BY <1>1
<1>3. (q1 * b + r) * p = (p * q1) * b + b * p - d * p
  BY <1>1, <1>2
<1>4. ((p - 1) + p * q1) * b = (p * q1) * b + b * p - b
  BY <1>1
<1>5. ((p - 1) + p * q1 + 1) * b = (p * q1) * b + b * p
  BY <1>1
<1>6. p <= d * p /\ d * p <= p * p
  <2>1. 1 * p <= d * p /\ d * p <= p * p
    BY MulPos
  <2>2. QED
    BY <2>1
<1>7. (levels + 1) * (p * p) = levels * (p * p) + p * p /\ levels * (p * p) \in Nat
  OBVIOUS
<1>8. (p * q1) * b \in Nat /\ b * p \in Nat /\ d * p \in Nat /\ p * p \in Nat
  BY <1>1
<1> HIDE DEF b
<1>9. (q1 * b + r) * p + low < ((p - 1) + p * q1 + 1) * b
  BY <1>1, <1>3, <1>5, <1>6, <1>8
<1>10. ((p - 1) + p * q1) * b <= (q1 * b + r) * p + low + ((levels + 1) * (p * p) + b)
  BY <1>1, <1>3, <1>4, <1>6, <1>7, <1>8
<1>11. QED
  BY <1>9, <1>10 DEF Approximates, b

(* How many units that is. *)
LEMMA ApproximationWithin ==
  ASSUME NEW m \in Nat, NEW b \in Nat \ {0}, m <= 2 * b, NEW q \in Nat, NEW v \in Nat,
         NEW levels \in Nat, Approximates(q, b, v, levels * m + b)
  PROVE  q - (v \div b) \in 0 .. 2 * levels + 1
<1>1. PICK z \in Nat, s \in 0 .. b - 1 : z = v \div b /\ v = b * z + s
  <2>1. v \div b \in Nat /\ v % b \in 0 .. b - 1 /\ v = b * (v \div b) + (v % b)
    <3>1. v \in Int
      OBVIOUS
    <3>2. QED
      BY <3>1, DivMod, DivNat
  <2>2. QED
    BY <2>1
<1>2. ASSUME q + 1 <= z PROVE FALSE
  <2>1. (q + 1) * b <= z * b
    BY <1>2, MulPos
  <2>2. QED
    BY <1>1, <2>1 DEF Approximates
<1>3. ASSUME z + 2 * levels + 2 <= q PROVE FALSE
  <2>1. (z + 2 * levels + 2) * b <= q * b
    BY <1>3, MulPos
  <2>2. (z + 2 * levels + 2) * b = b * z + levels * (2 * b) + 2 * b
    OBVIOUS
  <2>3. m * levels <= (2 * b) * levels
    BY MulPos
  <2>4. levels * m = m * levels /\ levels * (2 * b) = (2 * b) * levels
    OBVIOUS
  <2>5. q * b <= v + (levels * m + b)
    BY DEF Approximates
  <2>6. levels * m \in Nat /\ levels * (2 * b) \in Nat /\ b * z \in Nat /\ q * b \in Nat
    OBVIOUS
  <2>7. QED
    BY <1>1, <2>1, <2>2, <2>3, <2>4, <2>5, <2>6
<1>4. QED
  BY <1>1, <1>2, <1>3
-----------------------------------------------------------------------------
(* What a call may change.                                                 *)

(* Only the spans a and q changed. *)
BzKeeps(mem, new, size, a, q) ==
  /\ Memory(new, size)
  /\ \A s : In(s, size) /\ Apart(s, a) /\ Apart(s, q) => Value(new, s) = Value(mem, s)

(* A span without its limbs. *)
LEMMA SpanIs ==
  ASSUME NEW size, NEW s, In(s, size)
  PROVE  /\ s.area \in DOMAIN size /\ s.at \in Nat /\ s.n \in Nat /\ size[s.area] \in Nat
         /\ s.at + s.n <= size[s.area]
         /\ s = [area |-> s.area, at |-> s.at, n |-> s.n]
  BY DEF In

(* What is apart from a span is apart from its parts. *)
LEMMA ApartFromPart ==
  ASSUME NEW size, NEW s, In(s, size), NEW t, In(t, size), NEW a, In(a, size), PartOf(t, a),
         Apart(s, a)
  PROVE  Apart(s, t)
<1>1. PICK i \in Nat, k \in Nat : i = s.at /\ k = s.n
  BY SpanIs
<1>2. PICK j \in Nat, m \in Nat : j = t.at /\ m = t.n
  BY SpanIs
<1>3. PICK h \in Nat, n \in Nat : h = a.at /\ n = a.n
  BY SpanIs
<1>4. t.area = a.area /\ h <= j /\ j + m <= h + n
  BY <1>2, <1>3 DEF PartOf
<1>5. s.area # a.area \/ i + k <= h \/ h + n <= i
  BY <1>1, <1>3 DEF Apart
<1>6. s.area # t.area \/ i + k <= j \/ j + m <= i
  BY <1>4, <1>5
<1>7. QED
  BY <1>1, <1>2, <1>6 DEF Apart

LEMMA PartTransitive ==
  ASSUME NEW size, NEW s, In(s, size), NEW t, In(t, size), NEW a, In(a, size), PartOf(s, t),
         PartOf(t, a)
  PROVE  PartOf(s, a)
<1>1. PICK i \in Nat, k \in Nat : i = s.at /\ k = s.n
  BY SpanIs
<1>2. PICK j \in Nat, m \in Nat : j = t.at /\ m = t.n
  BY SpanIs
<1>3. PICK h \in Nat, n \in Nat : h = a.at /\ n = a.n
  BY SpanIs
<1>4. QED
  BY <1>1, <1>2, <1>3 DEF PartOf

LEMMA PartItself == ASSUME NEW size, NEW s, In(s, size) PROVE PartOf(s, s)
  BY SpanIs DEF PartOf

(* A store into a part of what may change, *)
LEMMA KeepsStore ==
  ASSUME NEW mem, NEW size, Memory(mem, size), NEW a, In(a, size), NEW q, In(q, size),
         NEW t, In(t, size), PartOf(t, a) \/ PartOf(t, q), NEW v \in Int
  PROVE  BzKeeps(mem, Store(mem, t, v), size, a, q)
<1>1. ASSUME NEW s, In(s, size), Apart(s, a), Apart(s, q)
      PROVE  Value(Store(mem, t, v), s) = Value(mem, s)
  <2>1. Apart(s, t)
    BY <1>1, ApartFromPart
  <2>2. QED
    BY <1>1, <2>1, StoreApart
<1>2. Memory(Store(mem, t, v), size)
  BY StoreLimbs
<1>3. QED
  BY <1>1, <1>2 DEF BzKeeps

(* one change after another, *)
LEMMA KeepsTwice ==
  ASSUME NEW mem, NEW mid, NEW new, NEW size, NEW a, NEW q, BzKeeps(mem, mid, size, a, q),
         BzKeeps(mid, new, size, a, q)
  PROVE  BzKeeps(mem, new, size, a, q)
  BY DEF BzKeeps

(* and changes within. *)
LEMMA KeepsWithin ==
  ASSUME NEW mem, NEW new, NEW size, NEW a, In(a, size), NEW q, In(q, size), NEW t, In(t, size),
         NEW r, In(r, size), PartOf(t, a), PartOf(r, q), BzKeeps(mem, new, size, t, r)
  PROVE  BzKeeps(mem, new, size, a, q)
<1>1. ASSUME NEW s, In(s, size), Apart(s, a), Apart(s, q)
      PROVE  Value(new, s) = Value(mem, s)
  <2>1. Apart(s, t) /\ Apart(s, r)
    BY <1>1, ApartFromPart
  <2>2. QED
    BY <1>1, <2>1 DEF BzKeeps
<1>2. QED
  BY <1>1 DEF BzKeeps

-----------------------------------------------------------------------------
(* The halves and quarters of a window.                                    *)

(* m limbs of a span, from the k-th on. *)
Cut(s, k, m) == Span(s.area, s.at + k, m)

LEMMA CutIs ==
  ASSUME NEW size, NEW s, In(s, size), NEW k \in Nat, NEW m \in Nat, k + m <= s.n
  PROVE  /\ In(Cut(s, k, m), size) /\ PartOf(Cut(s, k, m), s) /\ Cut(s, k, m).n = m
         /\ Cut(s, k, m).area = s.area /\ Cut(s, k, m).at = s.at + k
<1>1. PICK x \in DOMAIN size, i \in Nat, n \in Nat :
        x = s.area /\ i = s.at /\ n = s.n /\ i + n <= size[x] /\ size[x] \in Nat
  BY SpanIs
<1>2. Cut(s, k, m) = [area |-> x, at |-> i + k, n |-> m]
  BY <1>1 DEF Cut, Span
<1>3. k + m <= n
  BY <1>1
<1>4. In(Cut(s, k, m), size)
  BY <1>1, <1>2, <1>3 DEF In
<1>5. PartOf(Cut(s, k, m), s)
  BY <1>1, <1>2, <1>3 DEF PartOf
<1>6. QED
  BY <1>1, <1>2, <1>4, <1>5

(* The spans of the model are such parts, *)
LEMMA FirstCut ==
  ASSUME NEW size, NEW s, In(s, size), NEW k \in Nat
  PROVE  First(s, k) = Cut(s, 0, k) /\ Subspan(s, k) = Cut(s, k, s.n - k)
<1>1. PICK x, i, n :
        /\ x = s.area /\ i = s.at /\ n = s.n /\ i \in Nat /\ n \in Nat
        /\ s = [area |-> x, at |-> i, n |-> n]
  <2>1. s.at \in Nat /\ s.n \in Nat /\ s = [area |-> s.area, at |-> s.at, n |-> s.n]
    BY SpanIs
  <2>2. PICK x, i, n : x = s.area /\ i = s.at /\ n = s.n
    OBVIOUS
  <2>3. QED
    BY <2>1, <2>2
<1>2. First(s, k) = [area |-> x, at |-> i, n |-> k]
  BY <1>1 DEF First
<1>3. Subspan(s, k) = [area |-> x, at |-> i + k, n |-> n - k]
  <2>1. Subspan(s, k) = [s EXCEPT !.at = i + k, !.n = n - k]
    BY <1>1 DEF Subspan
  <2>2. [s EXCEPT !.at = i + k] = [area |-> x, at |-> i + k, n |-> n]
    BY <1>1
  <2>3. QED
    BY <2>1, <2>2
<1>4. i + 0 = i
  BY <1>1
<1>5. QED
  BY <1>1, <1>2, <1>3, <1>4 DEF Cut, Span

(* and so are their parts. *)
LEMMA CutCut ==
  ASSUME NEW size, NEW s, In(s, size), NEW i \in Nat, NEW j, NEW k \in Nat, NEW m
  PROVE  Cut(Cut(s, i, j), k, m) = Cut(s, i + k, m)
<1>1. s.at \in Nat
  BY SpanIs
<1>2. (s.at + i) + k = s.at + (i + k)
  BY <1>1
<1>3. QED
  BY <1>2 DEF Cut, Span

LEMMA CutWhole ==
  ASSUME NEW size, NEW s, In(s, size)
  PROVE  Cut(s, 0, s.n) = s
<1>1. s.at \in Nat /\ s = [area |-> s.area, at |-> s.at, n |-> s.n]
  BY SpanIs
<1>2. s.at + 0 = s.at
  BY <1>1
<1>3. QED
  BY <1>1, <1>2 DEF Cut, Span

(* Two that follow one another make up one number. *)
LEMMA CutValue ==
  ASSUME NEW mem, NEW size, Memory(mem, size), NEW s, In(s, size), NEW k \in Nat, NEW m \in Nat,
         NEW l \in Nat, k + m + l <= s.n
  PROVE  Value(mem, Cut(s, k, m + l))
           = Value(mem, Cut(s, k, m)) + Power(Base, m) * Value(mem, Cut(s, k + m, l))
<1>1. PICK t : t = Cut(s, k, m + l) /\ In(t, size) /\ t.n = m + l
  <2>1. m + l \in Nat /\ k + (m + l) <= s.n
    BY SpanIs
  <2>2. QED
    BY <2>1, CutIs
<1>2. First(t, m) = Cut(t, 0, m) /\ Subspan(t, m) = Cut(t, m, t.n - m)
  BY <1>1, FirstCut
<1>3. t.n - m = l /\ m <= t.n
  BY <1>1
<1>4. Cut(t, 0, m) = Cut(s, k + 0, m) /\ Cut(t, m, l) = Cut(s, k + m, l) /\ k + 0 = k
  BY <1>1, CutCut
<1>5. Value(mem, t) = Value(mem, First(t, m)) + Power(Base, m) * Value(mem, Subspan(t, m))
  BY <1>1, <1>3, ValueSplit
<1>6. QED
  BY <1>1, <1>2, <1>3, <1>4, <1>5

(* Parts that do not overlap, and spans of different arrays, are apart. *)
LEMMA CutsApart ==
  ASSUME NEW size, NEW s, In(s, size), NEW k \in Nat, NEW m \in Nat, NEW i \in Nat,
         NEW j \in Nat, k + m <= i \/ i + j <= k
  PROVE  Apart(Cut(s, k, m), Cut(s, i, j))
<1>1. PICK p \in Nat : p = s.at
  BY SpanIs
<1>2. Cut(s, k, m).at = p + k /\ Cut(s, k, m).n = m /\ Cut(s, i, j).at = p + i /\ Cut(s, i, j).n = j
  BY <1>1 DEF Cut, Span
<1>3. QED
  BY <1>1, <1>2 DEF Apart

LEMMA AreasApart ==
  ASSUME NEW s, NEW t, s.area # t.area
  PROVE  Apart(s, t)
  BY DEF Apart

-----------------------------------------------------------------------------
(* How often a size is halved.                                             *)

(* levels is the function the recursion of HalvingLevels describes. *)
HalvesTo(levels, n, threshold) ==
  \A k \in 0 .. n : levels[k] = IF k >= threshold /\ k % 2 = 0 THEN 1 + levels[k \div 2] ELSE 0
Halves(levels, n, threshold) == levels \in [0 .. n -> Nat] /\ HalvesTo(levels, n, threshold)

(* There is such a function, *)
LEMMA HalvesExist ==
  ASSUME NEW n \in Nat, NEW threshold \in Nat \ {0}
  PROVE  \E levels : Halves(levels, n, threshold)
<1> DEFINE S == {k \in Nat : \E levels : Halves(levels, k, threshold)}
<1>1. 0 \in S
  <2>1. Halves([w \in 0 .. 0 |-> 0], 0, threshold)
    BY DEF Halves, HalvesTo
  <2>2. QED
    BY <2>1
<1>2. ASSUME NEW k \in S PROVE k + 1 \in S
  <2>1. PICK f : Halves(f, k, threshold)
    OBVIOUS
  <2>2. (k + 1) \div 2 \in 0 .. k
    OBVIOUS
  <2> DEFINE next == IF k + 1 >= threshold /\ (k + 1) % 2 = 0 THEN 1 + f[(k + 1) \div 2] ELSE 0
             g == [w \in 0 .. k + 1 |-> IF w = k + 1 THEN next ELSE f[w]]
  <2>3. next \in Nat
    BY <2>1, <2>2 DEF Halves, HalvesTo
  <2>4. /\ g \in [0 .. k + 1 -> Nat] /\ g[k + 1] = next
        /\ \A w \in 0 .. k : g[w] = f[w]
    BY <2>1, <2>3 DEF Halves, HalvesTo
  <2> HIDE DEF g
  <2>5. ASSUME NEW w \in 0 .. k + 1
        PROVE  g[w] = IF w >= threshold /\ w % 2 = 0 THEN 1 + g[w \div 2] ELSE 0
    <3>1. CASE w = k + 1
      BY <2>2, <2>4, <3>1
    <3>2. CASE w # k + 1
      <4>1. w \in 0 .. k /\ w \div 2 \in 0 .. k
        BY <3>2
      <4>2. QED
        BY <2>1, <2>4, <4>1 DEF Halves, HalvesTo
    <3>3. QED
      BY <3>1, <3>2
  <2>6. Halves(g, k + 1, threshold)
    BY <2>4, <2>5 DEF Halves, HalvesTo
  <2>7. QED
    BY <2>6
<1> HIDE DEF S
<1>3. QED
  BY <1>1, <1>2, Induction DEF S

(* and only one. *)
LEMMA HalvesUnique ==
  ASSUME NEW n \in Nat, NEW threshold \in Nat \ {0}, NEW m \in 0 .. n, NEW f, NEW q,
         HalvesTo(f, n, threshold), HalvesTo(q, m, threshold)
  PROVE  \A k \in 0 .. m : q[k] = f[k]
<1> DEFINE S == {k \in Nat : \A w \in 0 .. k : w <= m => q[w] = f[w]}
<1>1. 0 \in S
  <2>1. 0 \in 0 .. n /\ 0 \in 0 .. m
    OBVIOUS
  <2>2. QED
    BY <2>1 DEF HalvesTo
<1>2. ASSUME NEW k \in S PROVE k + 1 \in S
  <2> SUFFICES ASSUME k + 1 <= m PROVE q[k + 1] = f[k + 1]
    OBVIOUS
  <2>1. (k + 1) \div 2 \in 0 .. k /\ k + 1 \in 0 .. m /\ k + 1 \in 0 .. n
    OBVIOUS
  <2>2. q[(k + 1) \div 2] = f[(k + 1) \div 2]
    BY <2>1
  <2>3. QED
    BY <2>1, <2>2 DEF HalvesTo
<1> HIDE DEF S
<1>3. m \in S
  <2>1. S \in SUBSET Nat /\ m \in Nat
    BY DEF S
  <2>2. QED
    BY <1>1, <1>2, <2>1, Induction
<1>4. QED
  BY <1>3 DEF S

(* HalvingLevels is its value at the size itself, whatever larger size it is computed for. *)
LEMMA HalvingLevelsIs ==
  ASSUME NEW n \in Nat, NEW threshold \in Nat \ {0}, NEW f, Halves(f, n, threshold),
         NEW m \in 0 .. n
  PROVE  HalvingLevels(m, threshold) = f[m]
<1> DEFINE Is(x) == x = [k \in 0 .. m |-> IF k >= threshold /\ k % 2 = 0
                                          THEN 1 + x[k \div 2] ELSE 0]
           q == CHOOSE x : Is(x)
<1>1. PICK x : Halves(x, m, threshold)
  BY HalvesExist
<1>2. Is(x)
  BY <1>1 DEF Halves, HalvesTo
<1>3. Is(q) /\ HalvingLevels(m, threshold) = q[m]
  BY <1>2 DEF HalvingLevels
<1> HIDE DEF q
<1>4. HalvesTo(q, m, threshold)
  BY <1>3 DEF HalvesTo
<1>5. HalvesTo(f, n, threshold)
  BY DEF Halves
<1>6. \A k \in 0 .. m : q[k] = f[k]
  BY <1>4, <1>5, HalvesUnique
<1>7. QED
  BY <1>3, <1>6

(* Half the limbs are halved once less. *)
LEMMA HalvingStep ==
  ASSUME NEW n \in Nat, NEW threshold \in Nat \ {0}
  PROVE  /\ HalvingLevels(n, threshold) \in Nat
         /\ n >= threshold /\ n % 2 = 0 =>
              HalvingLevels(n, threshold) = HalvingLevels(n \div 2, threshold) + 1
<1>1. PICK f : Halves(f, n, threshold)
  BY HalvesExist
<1>2. n \in 0 .. n /\ n \div 2 \in 0 .. n
  OBVIOUS
<1>3. HalvingLevels(n, threshold) = f[n] /\ HalvingLevels(n \div 2, threshold) = f[n \div 2]
  BY <1>1, <1>2, HalvingLevelsIs
<1>4. QED
  BY <1>1, <1>2, <1>3 DEF Halves, HalvesTo
-----------------------------------------------------------------------------
(* The frames. plan, the shifted dividend and the shifted divisor stay.    *)

Areas == {"b", "q", "w"}
BzSize(plan) ==
  [x \in Areas |-> CASE x = "b" -> plan.n
                     [] x = "q" -> (plan.t - 1) * plan.n
                     [] x = "w" -> plan.t * plan.n]
PlanFits(plan) == /\ plan.n \in Nat \ {0} /\ plan.t \in Nat /\ plan.t >= 2
                  /\ plan.threshold \in Nat \ {0}

Divisor(plan) == Span("b", 0, plan.n)
BzSpan(area, plan, i, k) == Span(area, i * plan.n, k * plan.n)

CallFields(f) ==
  f = [op |-> f.op, pc |-> f.pc, a |-> f.a, b |-> f.b, q |-> f.q, value |-> f.value,
       carry |-> f.carry, corrections |-> f.corrections, sound |-> f.sound]

(* A call on a window a, a divisor b with its top bit set, and a quotient q. *)
IsCall(f, mem, size) ==
  /\ CallFields(f) /\ f.op \in {"2n1n", "3n2n", "divappr"}
  /\ f.pc \in {"enter", "lower", "product", "correct", "return"}
  /\ In(f.a, size) /\ In(f.b, size) /\ In(f.q, size)
  /\ f.a.area = "w" /\ f.b.area = "b" /\ f.q.area = "q"
  /\ f.q.n \in Nat \ {0} /\ f.a.n = f.b.n + f.q.n
  /\ f.b.n = IF f.op = "3n2n" THEN 2 * f.q.n ELSE f.q.n
  /\ Power(Base, f.b.n) <= 2 * Value(mem, f.b)
  /\ f.value \in Nat /\ f.sound = TRUE
  /\ f.corrections \in 0 .. 2 /\ f.carry \in Int
  /\ f.pc \in {"enter", "lower", "product"} => f.corrections = 0
  /\ f.pc = "enter" => f.carry = 0

IsDriver(f, mem, plan, d) ==
  /\ f = [op |-> "driver", pc |-> "march", approx |-> f.approx, left |-> f.left]
  /\ f.approx \in BOOLEAN /\ f.left \in 0 .. plan.t - 1
  /\ Value(mem, Divisor(plan)) = d /\ Power(Base, plan.n) <= 2 * d

(* D_2n/n in halves. *)
Halved(f, plan) ==
  f.op # "3n2n" /\ f.q.n >= plan.threshold /\ f.q.n = 2 * (f.q.n \div 2)

(* How far the call that runs has come. *)
Entered(f, mem) ==
  f.value = Value(mem, f.a) /\ Value(mem, Cut(f.a, f.q.n, f.b.n)) < Value(mem, f.b)

HalfDone(f, mem) ==
  LET h == f.q.n \div 2
      r == Value(mem, Cut(f.a, h, f.q.n))
  IN  /\ f.value = (Value(mem, Cut(f.q, h, h)) * Value(mem, f.b) + r) * Power(Base, h)
                     + Value(mem, Cut(f.a, 0, h))
      /\ r < Value(mem, f.b) /\ Value(mem, Cut(f.a, h + f.q.n, h)) = 0

(* what is left in the window of a D_3n/2n, with the carry above it *)
Left(f, mem) == f.carry * Power(Base, f.b.n) + Value(mem, Cut(f.a, 0, f.b.n))

HasEstimate(f, mem) ==
  LET h == f.q.n
      q == Value(mem, f.q)
  IN  /\ f.value = (q * Value(mem, Cut(f.b, h, h))) * Power(Base, h) + Left(f, mem)
      /\ Left(f, mem) - q * Value(mem, Cut(f.b, 0, h)) < Value(mem, f.b)
      /\ f.carry \in Nat /\ Value(mem, Cut(f.a, f.b.n, h)) = 0

Corrected(f, mem) ==
  /\ f.value = Value(mem, f.q) * Value(mem, f.b) + Left(f, mem)
  /\ -((2 - f.corrections) * Value(mem, f.b)) <= Left(f, mem)
  /\ f.carry < 0 /\ f.corrections \in 0 .. 1 /\ Value(mem, Cut(f.a, f.b.n, f.q.n)) = 0

Divided(f, mem) ==
  /\ Value(mem, f.q) * Value(mem, f.b) + Value(mem, Cut(f.a, 0, f.b.n)) = f.value
  /\ Value(mem, Cut(f.a, 0, f.b.n)) < Value(mem, f.b)
  /\ Value(mem, Cut(f.a, f.b.n, f.q.n)) = 0

(* each halving may add a power of the base, and the last rounding a divisor *)
Lift(n, b, plan) == HalvingLevels(n, plan.threshold) * Power(Base, n) + b

Approximated(f, mem, plan) ==
  Approximates(Value(mem, f.q), Value(mem, f.b), f.value, Lift(f.b.n, Value(mem, f.b), plan))

Stands(f, mem, plan) ==
  CASE f.pc = "enter"   -> Entered(f, mem)
    [] f.pc = "lower"   -> Halved(f, plan) /\ HalfDone(f, mem)
    [] f.pc = "product" -> f.op = "3n2n" /\ HasEstimate(f, mem)
    [] f.pc = "correct" -> f.op = "3n2n" /\ Corrected(f, mem)
    [] f.pc = "return"  -> IF f.op = "divappr" THEN Approximated(f, mem, plan) ELSE Divided(f, mem)

(* The march, with i blocks to go. *)
Marches(f, mem, plan, n, d) ==
  LET i == f.left
      done == Value(mem, BzSpan("q", plan, i, plan.t - 1 - i))
      r == Value(mem, BzSpan("w", plan, i, 1))
  IN  IF f.approx /\ i = 0
      THEN Approximates(done, d, n, Lift(plan.n, d, plan))
      ELSE /\ n = (done * d + r) * Power(Base, i * plan.n) + Value(mem, BzSpan("w", plan, 0, i))
           /\ r < d

(* What f waits for the call g to do. *)
WaitsWindow(f, g, mem, plan, n, d) ==
  LET i == f.left
  IN  /\ f.op = "driver" /\ i + 2 <= plan.t /\ g.b = Divisor(plan)
      /\ g.a = BzSpan("w", plan, i, 2) /\ g.q = BzSpan("q", plan, i, 1)
      /\ g.op = IF f.approx /\ i = 0 THEN "divappr" ELSE "2n1n"
      /\ n = (Value(mem, BzSpan("q", plan, i + 1, plan.t - 2 - i)) * d
               * Power(Base, plan.n) + g.value)
               * Power(Base, i * plan.n) + Value(mem, BzSpan("w", plan, 0, i))

WaitsUpper(f, g, mem, plan) ==
  LET h == f.q.n \div 2
  IN  /\ Halved(f, plan) /\ f.pc = "lower" /\ g.op = "3n2n" /\ g.b = f.b
      /\ g.a = Cut(f.a, h, h + f.q.n) /\ g.q = Cut(f.q, h, h)
      /\ f.value = g.value * Power(Base, h) + Value(mem, Cut(f.a, 0, h))

WaitsLower(f, g, mem, plan) ==
  LET h == f.q.n \div 2
  IN  /\ Halved(f, plan) /\ f.op = "2n1n" /\ f.pc = "return" /\ g.op = "3n2n" /\ g.b = f.b
      /\ g.a = Cut(f.a, 0, h + f.q.n) /\ g.q = Cut(f.q, 0, h)
      /\ f.value = (Value(mem, Cut(f.q, h, h)) * Value(mem, f.b)) * Power(Base, h) + g.value
      /\ Value(mem, Cut(f.a, h + f.q.n, h)) = 0

WaitsEstimate(f, g, mem) ==
  LET h == f.q.n
  IN  /\ f.op = "3n2n" /\ f.pc = "product" /\ f.carry = 0 /\ g.op = "2n1n"
      /\ g.b = Cut(f.b, h, h) /\ g.a = Cut(f.a, h, 2 * h) /\ g.q = f.q
      /\ f.value = g.value * Power(Base, h) + Value(mem, Cut(f.a, 0, h))

WaitsApprox(f, g, mem, plan) ==
  LET h == f.q.n \div 2
  IN  /\ Halved(f, plan) /\ f.op = "divappr" /\ f.pc = "return" /\ g.op = "divappr"
      /\ g.b = Cut(f.b, h, h) /\ g.a = Cut(f.a, h, f.q.n) /\ g.q = Cut(f.q, 0, h)
      /\ f.value = (Value(mem, Cut(f.q, h, h)) * Value(mem, f.b) + g.value) * Power(Base, h)
                     + Value(mem, Cut(f.a, 0, h))

Waits(f, g, mem, plan, n, d) ==
  \/ WaitsWindow(f, g, mem, plan, n, d)
  \/ WaitsUpper(f, g, mem, plan)
  \/ WaitsLower(f, g, mem, plan)
  \/ WaitsEstimate(f, g, mem)
  \/ WaitsApprox(f, g, mem, plan)

(* The stack of d frames, of which the one at c is the driver; an approximate one was called by
   divide_quotient, which verifies. *)
Nested(g, f) == PartOf(g.a, f.a) /\ PartOf(g.q, f.q)
Verifies == [op |-> "quotient", pc |-> "verify"]
CalledBy(fr, c) == fr[c].approx = (c # 1) /\ \A k \in 1 .. c - 1 : fr[k] = Verifies

BzStack(fr, d, c, mem, plan, n, m) ==
  /\ PlanFits(plan) /\ Memory(mem, BzSize(plan)) /\ n \in Nat /\ m \in Nat
  /\ d \in Nat \ {0} /\ c \in 1 .. d /\ fr = [k \in 1 .. d |-> fr[k]]
  /\ IsDriver(fr[c], mem, plan, m) /\ CalledBy(fr, c)
  /\ \A k \in c + 1 .. d : IsCall(fr[k], mem, BzSize(plan))
  /\ \A k \in c .. d - 1 : Waits(fr[k], fr[k + 1], mem, plan, n, m)
  /\ \A j, k \in c + 1 .. d : j <= k => Nested(fr[k], fr[j])
  /\ IF c = d THEN Marches(fr[d], mem, plan, n, m) ELSE Stands(fr[d], mem, plan)

(* Sizes and spans of the workspace. *)
LEMMA SizeIs ==
  ASSUME NEW plan, PlanFits(plan)
  PROVE  /\ DOMAIN BzSize(plan) = Areas
         /\ BzSize(plan)["b"] = plan.n /\ BzSize(plan)["q"] = (plan.t - 1) * plan.n
         /\ BzSize(plan)["w"] = plan.t * plan.n
         /\ (plan.t - 1) * plan.n \in Nat /\ plan.t * plan.n \in Nat
<1>1. PICK n \in Nat \ {0}, t \in Nat : n = plan.n /\ t = plan.t /\ t >= 2
  BY DEF PlanFits
<1>2. (t - 1) * n \in Nat /\ t * n \in Nat
  <2>1. t - 1 \in Nat
    BY <1>1
  <2>2. QED
    BY <2>1
<1>3. DOMAIN BzSize(plan) = Areas /\ "b" \in Areas /\ "q" \in Areas /\ "w" \in Areas
  BY DEF BzSize, Areas
<1>4. BzSize(plan)["b"] = plan.n /\ BzSize(plan)["q"] = (plan.t - 1) * plan.n
      /\ BzSize(plan)["w"] = plan.t * plan.n
  BY <1>3 DEF BzSize
<1>5. QED
  BY <1>1, <1>2, <1>3, <1>4

LEMMA BlocksIn ==
  ASSUME NEW plan, PlanFits(plan), NEW area \in {"q", "w"}, NEW i \in Nat, NEW k \in Nat,
         i + k <= plan.t, area = "q" => i + k <= plan.t - 1
  PROVE  /\ In(BzSpan(area, plan, i, k), BzSize(plan)) /\ i * plan.n \in Nat /\ k * plan.n \in Nat
         /\ BzSpan(area, plan, i, k).area = area /\ BzSpan(area, plan, i, k).n = k * plan.n
         /\ BzSpan(area, plan, i, k).at = i * plan.n
<1>1. PICK n \in Nat \ {0}, t \in Nat : n = plan.n /\ t = plan.t /\ t >= 2
  BY DEF PlanFits
<1>2. PICK c \in Nat : /\ c = (IF area = "q" THEN plan.t - 1 ELSE plan.t) /\ i + k <= c
                       /\ BzSize(plan)[area] = c * n
  <2>1. (IF area = "q" THEN plan.t - 1 ELSE plan.t) \in Nat
    BY <1>1
  <2>2. QED
    BY <1>1, <2>1, SizeIs
<1>3. i * n \in Nat /\ k * n \in Nat /\ c * n \in Nat /\ i * n + k * n <= c * n
  <2>1. (i + k) * n <= c * n
    BY <1>2, MulPos
  <2>2. (i + k) * n = i * n + k * n
    OBVIOUS
  <2>3. QED
    BY <2>1, <2>2
<1>4. area \in DOMAIN BzSize(plan)
  BY SizeIs DEF Areas
<1>5. QED
  BY <1>1, <1>2, <1>3, <1>4 DEF In, BzSpan, Span

LEMMA DivisorIn ==
  ASSUME NEW plan, PlanFits(plan)
  PROVE  /\ In(Divisor(plan), BzSize(plan)) /\ Divisor(plan).n = plan.n
         /\ Divisor(plan).area = "b" /\ Divisor(plan).at = 0
<1>1. plan.n \in Nat /\ BzSize(plan)["b"] = plan.n /\ "b" \in DOMAIN BzSize(plan)
  BY SizeIs DEF PlanFits, Areas
<1>2. 0 + plan.n = plan.n
  BY <1>1
<1>3. QED
  BY <1>1, <1>2 DEF In, Divisor, Span

(* What the frames below say stays when a call changes its window and quotient. *)
LEMMA DivisorStays ==
  ASSUME NEW mem, NEW new, NEW size, NEW a, a.area = "w", NEW q, q.area = "q",
         BzKeeps(mem, new, size, a, q), NEW s, In(s, size), s.area = "b"
  PROVE  Value(new, s) = Value(mem, s)
<1>1. Apart(s, a) /\ Apart(s, q)
  BY DEF Apart
<1>2. QED
  BY <1>1 DEF BzKeeps

LEMMA CallStays ==
  ASSUME NEW mem, NEW new, NEW size, NEW a, a.area = "w", NEW q, q.area = "q",
         BzKeeps(mem, new, size, a, q), NEW f, IsCall(f, mem, size)
  PROVE  IsCall(f, new, size) /\ Value(new, f.b) = Value(mem, f.b)
<1>1. In(f.b, size) /\ f.b.area = "b"
  BY DEF IsCall
<1>2. Value(new, f.b) = Value(mem, f.b)
  BY <1>1, DivisorStays
<1>3. QED
  BY <1>2 DEF IsCall

LEMMA DriverStays ==
  ASSUME NEW mem, NEW new, NEW plan, PlanFits(plan), NEW a, a.area = "w", NEW q, q.area = "q",
         BzKeeps(mem, new, BzSize(plan), a, q), NEW f, NEW m, IsDriver(f, mem, plan, m)
  PROVE  IsDriver(f, new, plan, m)
<1>1. In(Divisor(plan), BzSize(plan)) /\ Divisor(plan).area = "b"
  BY DivisorIn
<1>2. Value(new, Divisor(plan)) = Value(mem, Divisor(plan))
  BY <1>1, DivisorStays
<1>3. QED
  BY <1>2 DEF IsDriver

(* A part of the window that the call leaves alone, and one of the quotient. *)
LEMMA WindowStays ==
  ASSUME NEW mem, NEW new, NEW size, NEW s, In(s, size), NEW k \in Nat, NEW m \in Nat,
         k + m <= s.n, NEW i \in Nat, NEW j \in Nat, k + m <= i \/ i + j <= k,
         NEW q, q.area # s.area, BzKeeps(mem, new, size, Cut(s, i, j), q)
  PROVE  Value(new, Cut(s, k, m)) = Value(mem, Cut(s, k, m))
<1>1. In(Cut(s, k, m), size) /\ Cut(s, k, m).area = s.area
  <2>1. In(Cut(s, k, m), size)
    BY CutIs, Zenon
  <2>2. QED
    BY <2>1 DEF Cut, Span
<1>2. Apart(Cut(s, k, m), Cut(s, i, j))
  BY CutsApart
<1>3. Apart(Cut(s, k, m), q)
  BY <1>1 DEF Apart
<1>4. QED
  BY <1>1, <1>2, <1>3 DEF BzKeeps

LEMMA QuotientStays ==
  ASSUME NEW mem, NEW new, NEW size, NEW s, In(s, size), NEW k \in Nat, NEW m \in Nat,
         k + m <= s.n, NEW i \in Nat, NEW j \in Nat, k + m <= i \/ i + j <= k,
         NEW a, a.area # s.area, BzKeeps(mem, new, size, a, Cut(s, i, j))
  PROVE  Value(new, Cut(s, k, m)) = Value(mem, Cut(s, k, m))
<1>1. BzKeeps(mem, new, size, Cut(s, i, j), a)
  BY DEF BzKeeps
<1>2. QED
  BY <1>1, WindowStays

(* The halves of the sizes of a call. *)
LEMMA HalvedSizes ==
  ASSUME NEW mem, NEW size, NEW f, IsCall(f, mem, size), NEW plan, PlanFits(plan), Halved(f, plan)
  PROVE  \E h \in Nat \ {0} : /\ h = f.q.n \div 2 /\ f.q.n = 2 * h /\ f.b.n = 2 * h
                             /\ f.a.n = 4 * h /\ f.op # "3n2n"
<1>1. PICK n \in Nat \ {0} : n = f.q.n /\ f.b.n = n /\ f.a.n = n + n /\ f.op # "3n2n"
  BY DEF IsCall, Halved
<1>2. n \div 2 \in Nat /\ n = 2 * (n \div 2)
  BY <1>1 DEF Halved
<1>3. n \div 2 # 0
  BY <1>2
<1>4. QED
  BY <1>1, <1>2, <1>3

LEMMA WaitsStay ==
  ASSUME NEW mem, NEW new, NEW plan, PlanFits(plan), NEW n, NEW m, NEW f,
         NEW g, IsCall(g, mem, BzSize(plan)), BzKeeps(mem, new, BzSize(plan), g.a, g.q),
         IsDriver(f, mem, plan, m) \/ IsCall(f, mem, BzSize(plan)),
         Waits(f, g, mem, plan, n, m)
  PROVE  Waits(f, g, new, plan, n, m)
<1> DEFINE size == BzSize(plan)
<1>1. g.a.area = "w" /\ g.q.area = "q"
  BY DEF IsCall
<1>2. CASE WaitsWindow(f, g, mem, plan, n, m)
  <2>1. IsDriver(f, mem, plan, m)
    BY <1>2 DEF WaitsWindow, IsCall
  <2>2. PICK i \in Nat, t \in Nat : i = f.left /\ t = plan.t /\ i + 2 <= t
    BY <1>2, <2>1 DEF WaitsWindow, IsDriver, PlanFits
  <2>3. PICK k \in Nat : k = t - 2 - i
    BY <2>2
  <2>4. PICK p \in Nat \ {0} : p = plan.n
    BY DEF PlanFits
  <2>5. /\ In(BzSpan("q", plan, i + 1, k), size) /\ BzSpan("q", plan, i + 1, k).area = "q"
        /\ BzSpan("q", plan, i + 1, k).at = (i + 1) * p
    <3>1. i + 1 \in Nat /\ (i + 1) + k <= plan.t /\ (i + 1) + k <= plan.t - 1
      BY <2>2, <2>3
    <3>2. QED
      BY <2>4, <3>1, BlocksIn
  <2>6. /\ In(BzSpan("w", plan, 0, i), size) /\ BzSpan("w", plan, 0, i).area = "w"
        /\ BzSpan("w", plan, 0, i).at = 0 * p /\ BzSpan("w", plan, 0, i).n = i * p
    BY <2>2, <2>4, BlocksIn
  <2>7. g.q.at = i * p /\ g.q.n = 1 * p /\ g.a.at = i * p
    BY <1>2, <2>2, <2>4 DEF WaitsWindow, BzSpan, Span
  <2>8. (i + 1) * p = i * p + 1 * p /\ 0 * p + i * p = i * p
    OBVIOUS
  <2>9. Apart(BzSpan("q", plan, i + 1, k), g.q) /\ Apart(BzSpan("q", plan, i + 1, k), g.a)
    BY <1>1, <2>5, <2>7, <2>8 DEF Apart
  <2>10. Apart(BzSpan("w", plan, 0, i), g.q) /\ Apart(BzSpan("w", plan, 0, i), g.a)
    BY <1>1, <2>6, <2>7, <2>8 DEF Apart
  <2>11. /\ Value(new, BzSpan("q", plan, i + 1, k)) = Value(mem, BzSpan("q", plan, i + 1, k))
         /\ Value(new, BzSpan("w", plan, 0, i)) = Value(mem, BzSpan("w", plan, 0, i))
    BY <2>5, <2>6, <2>9, <2>10 DEF BzKeeps
  <2>12. WaitsWindow(f, g, new, plan, n, m)
    BY <1>2, <2>2, <2>3, <2>11 DEF WaitsWindow
  <2>13. QED
    BY <2>12 DEF Waits
<1>3. ASSUME ~WaitsWindow(f, g, mem, plan, n, m)
      PROVE  IsCall(f, mem, size) /\ Value(new, f.b) = Value(mem, f.b)
  <2>1. ~IsDriver(f, mem, plan, m)
    BY <1>3 DEF Waits, WaitsUpper, WaitsLower, WaitsEstimate, WaitsApprox, IsDriver
  <2>2. QED
    BY <1>1, <2>1, CallStays
<1>4. ASSUME WaitsUpper(f, g, mem, plan), IsCall(f, mem, size)
      PROVE  WaitsUpper(f, g, new, plan)
  <2>1. Halved(f, plan)
    BY <1>4 DEF WaitsUpper
  <2>2. PICK h \in Nat \ {0} : h = f.q.n \div 2 /\ f.q.n = 2 * h /\ f.a.n = 4 * h
    BY <1>4, <2>1, HalvedSizes
  <2>3. In(f.a, size) /\ f.a.area = "w"
    BY <1>4 DEF IsCall
  <2>4. g.a = Cut(f.a, h, h + f.q.n)
    BY <1>4, <2>2 DEF WaitsUpper
  <2>5. 0 + h <= f.a.n /\ 0 + h <= h /\ h + f.q.n \in Nat
    <3>1. f.q.n = 2 * h /\ f.a.n = 4 * h
      BY <2>2
    <3>2. QED
      BY <3>1
  <2>6. Value(new, Cut(f.a, 0, h)) = Value(mem, Cut(f.a, 0, h))
    BY <1>1, <2>3, <2>4, <2>5, WindowStays
  <2>7. QED
    BY <1>4, <2>2, <2>6 DEF WaitsUpper
<1>5. ASSUME WaitsLower(f, g, mem, plan), IsCall(f, mem, size), Value(new, f.b) = Value(mem, f.b)
      PROVE  WaitsLower(f, g, new, plan)
  <2>1. Halved(f, plan)
    BY <1>5 DEF WaitsLower
  <2>2. PICK h \in Nat \ {0} : h = f.q.n \div 2 /\ f.q.n = 2 * h /\ f.a.n = 4 * h
    BY <1>5, <2>1, HalvedSizes
  <2>3. In(f.a, size) /\ f.a.area = "w" /\ In(f.q, size) /\ f.q.area = "q"
    BY <1>5 DEF IsCall
  <2>4. g.a = Cut(f.a, 0, h + f.q.n) /\ g.q = Cut(f.q, 0, h)
    BY <1>5, <2>2 DEF WaitsLower
  <2>5. /\ h + f.q.n \in Nat /\ (h + f.q.n) + h <= f.a.n /\ 0 + (h + f.q.n) <= h + f.q.n
        /\ h + h <= f.q.n /\ 0 + h <= h
    <3>1. f.q.n = 2 * h /\ f.a.n = 4 * h
      BY <2>2
    <3>2. QED
      BY <3>1
  <2>6. Value(new, Cut(f.a, h + f.q.n, h)) = Value(mem, Cut(f.a, h + f.q.n, h))
    BY <1>1, <2>3, <2>4, <2>5, WindowStays
  <2>7. Value(new, Cut(f.q, h, h)) = Value(mem, Cut(f.q, h, h))
    <3>1. g.a.area # f.q.area /\ h \in Nat /\ 0 \in Nat
      BY <1>1, <2>3
    <3>2. BzKeeps(mem, new, size, g.a, g.q)
      OBVIOUS
    <3>3. QED
      BY <2>3, <2>4, <2>5, <3>1, <3>2, QuotientStays
  <2>8. QED
    BY <1>5, <2>2, <2>6, <2>7 DEF WaitsLower
<1>6. ASSUME WaitsEstimate(f, g, mem), IsCall(f, mem, size)
      PROVE  WaitsEstimate(f, g, new)
  <2>1. PICK h \in Nat \ {0} : h = f.q.n /\ f.a.n = 2 * h + h
    BY <1>6 DEF WaitsEstimate, IsCall
  <2>2. In(f.a, size) /\ f.a.area = "w"
    BY <1>6 DEF IsCall
  <2>3. g.a = Cut(f.a, h, 2 * h)
    BY <1>6, <2>1 DEF WaitsEstimate
  <2>4. 0 + h <= f.a.n /\ 0 + h <= h /\ 2 * h \in Nat
    BY <2>1
  <2>5. Value(new, Cut(f.a, 0, h)) = Value(mem, Cut(f.a, 0, h))
    BY <1>1, <2>2, <2>3, <2>4, WindowStays
  <2>6. QED
    BY <1>6, <2>1, <2>5 DEF WaitsEstimate
<1>7. ASSUME WaitsApprox(f, g, mem, plan), IsCall(f, mem, size), Value(new, f.b) = Value(mem, f.b)
      PROVE  WaitsApprox(f, g, new, plan)
  <2>1. Halved(f, plan)
    BY <1>7 DEF WaitsApprox
  <2>2. PICK h \in Nat \ {0} : h = f.q.n \div 2 /\ f.q.n = 2 * h /\ f.a.n = 4 * h
    BY <1>7, <2>1, HalvedSizes
  <2>3. In(f.a, size) /\ f.a.area = "w" /\ In(f.q, size) /\ f.q.area = "q"
    BY <1>7 DEF IsCall
  <2>4. g.a = Cut(f.a, h, f.q.n) /\ g.q = Cut(f.q, 0, h)
    BY <1>7, <2>2 DEF WaitsApprox
  <2>5. 0 + h <= f.a.n /\ 0 + h <= h /\ f.q.n \in Nat /\ h + h <= f.q.n
    <3>1. f.q.n = 2 * h /\ f.a.n = 4 * h
      BY <2>2
    <3>2. QED
      BY <3>1
  <2>6. Value(new, Cut(f.a, 0, h)) = Value(mem, Cut(f.a, 0, h))
    BY <1>1, <2>3, <2>4, <2>5, WindowStays
  <2>7. Value(new, Cut(f.q, h, h)) = Value(mem, Cut(f.q, h, h))
    <3>1. g.a.area # f.q.area /\ h \in Nat /\ 0 \in Nat
      BY <1>1, <2>3
    <3>2. BzKeeps(mem, new, size, g.a, g.q)
      OBVIOUS
    <3>3. QED
      BY <2>3, <2>4, <2>5, <3>1, <3>2, QuotientStays
  <2>8. QED
    BY <1>7, <2>2, <2>6, <2>7 DEF WaitsApprox
<1>8. QED
  BY <1>2, <1>3, <1>4, <1>5, <1>6, <1>7 DEF Waits

(* fr with g in the place of its top frame. *)
HasTop(gr, fr, d, g) ==
  gr = [k \in 1 .. d |-> gr[k]] /\ gr[d] = g /\ \A k \in 1 .. d - 1 : gr[k] = fr[k]

LEMMA FramesTop ==
  ASSUME NEW d \in Nat \ {0}, NEW fr, fr = [k \in 1 .. d |-> fr[k]], NEW g
  PROVE  Len(fr) = d /\ fr # <<>> /\ HasTop([fr EXCEPT ![Len(fr)] = g], fr, d, g)
<1>1. Len(fr) = d
  OBVIOUS
<1>2. fr # <<>>
  BY <1>1
<1>3. PICK gr : gr = [fr EXCEPT ![d] = g]
  OBVIOUS
<1>4. gr = [k \in 1 .. d |-> IF k = d THEN g ELSE fr[k]]
  BY <1>3, Zenon
<1>5. HasTop(gr, fr, d, g)
  BY <1>4 DEF HasTop
<1>6. [fr EXCEPT ![Len(fr)] = g] = gr
  BY <1>1, <1>3, Zenon
<1>7. QED
  BY <1>1, <1>2, <1>5, <1>6

LEMMA RunsAbove ==
  ASSUME NEW fr, NEW d, NEW c, NEW mem, NEW plan, NEW n, NEW m,
         BzStack(fr, d, c, mem, plan, n, m), c # d
  PROVE  c \in 1 .. d - 1 /\ c \in 1 .. d /\ d \in c + 1 .. d /\ d - 1 \in Nat \ {0} /\ d \in Nat
<1>1. d \in Nat \ {0} /\ c \in 1 .. d
  BY DEF BzStack
<1>2. QED
  BY <1>1

(* The frames below the one that runs, after a step of it. *)
LEMMA BelowStays ==
  ASSUME NEW fr, NEW d, NEW c, NEW mem, NEW new, NEW plan, NEW n, NEW m,
         BzStack(fr, d, c, mem, plan, n, m), c # d,
         BzKeeps(mem, new, BzSize(plan), fr[d].a, fr[d].q)
  PROVE  /\ Memory(new, BzSize(plan)) /\ IsDriver(fr[c], new, plan, m)
         /\ \A k \in c + 1 .. d : IsCall(fr[k], new, BzSize(plan))
         /\ \A k \in c .. d - 1 : Waits(fr[k], fr[k + 1], new, plan, n, m)
<1>1. PICK size : size = BzSize(plan)
  OBVIOUS
<1>2. /\ PlanFits(plan) /\ Memory(mem, size) /\ d \in Nat /\ c \in 1 .. d - 1 /\ d \in c + 1 .. d
      /\ IsDriver(fr[c], mem, plan, m)
      /\ \A k \in c + 1 .. d : IsCall(fr[k], mem, size)
      /\ \A k \in c .. d - 1 : Waits(fr[k], fr[k + 1], mem, plan, n, m)
      /\ \A j, k \in c + 1 .. d : j <= k => Nested(fr[k], fr[j])
  <2>1. c \in 1 .. d - 1 /\ d \in c + 1 .. d
    BY RunsAbove
  <2>2. QED
    BY <1>1, <2>1 DEF BzStack
<1>3. fr[d].a.area = "w" /\ fr[d].q.area = "q" /\ In(fr[d].a, size) /\ In(fr[d].q, size)
  BY <1>2 DEF IsCall
<1>4. Memory(new, size) /\ IsDriver(fr[c], new, plan, m)
  BY <1>1, <1>2, <1>3, DriverStays DEF BzKeeps
<1>5. \A k \in c + 1 .. d : IsCall(fr[k], new, size)
  BY <1>1, <1>2, <1>3, CallStays
<1>6. ASSUME NEW k \in c .. d - 1
      PROVE  Waits(fr[k], fr[k + 1], new, plan, n, m)
  <2>1. k + 1 \in c + 1 .. d /\ k + 1 <= d
    BY <1>2
  <2>2. IsCall(fr[k + 1], mem, size) /\ Nested(fr[d], fr[k + 1])
    BY <1>2, <2>1
  <2>3. In(fr[k + 1].a, size) /\ In(fr[k + 1].q, size)
    BY <2>2 DEF IsCall
  <2>4. BzKeeps(mem, new, size, fr[k + 1].a, fr[k + 1].q)
    BY <1>1, <1>3, <2>2, <2>3, KeepsWithin DEF Nested
  <2>5. IsDriver(fr[k], mem, plan, m) \/ IsCall(fr[k], mem, size)
    <3>1. CASE k = c
      BY <1>2, <3>1
    <3>2. CASE k # c
      <4>1. k \in c + 1 .. d
        BY <1>2, <3>2
      <4>2. QED
        BY <1>2, <4>1
    <3>3. QED
      BY <3>1, <3>2
  <2>6. QED
    BY <1>1, <1>2, <2>2, <2>4, <2>5, WaitsStay
<1>7. QED
  BY <1>1, <1>4, <1>5, <1>6

(* A frame with the same task. *)
SameTask(g, f) == g.op = f.op /\ g.a = f.a /\ g.b = f.b /\ g.q = f.q /\ g.value = f.value

LEMMA WaitsForSame ==
  ASSUME NEW f, NEW g, NEW h, NEW mem, NEW plan, NEW n, NEW m, Waits(f, g, mem, plan, n, m),
         SameTask(h, g)
  PROVE  Waits(f, h, mem, plan, n, m)
  BY DEF Waits, WaitsWindow, WaitsUpper, WaitsLower, WaitsEstimate, WaitsApprox, SameTask

(* The call that runs goes on. *)
LEMMA BzGoesOn ==
  ASSUME NEW fr, NEW d, NEW c, NEW mem, NEW new, NEW plan, NEW n, NEW m,
         BzStack(fr, d, c, mem, plan, n, m), c # d,
         BzKeeps(mem, new, BzSize(plan), fr[d].a, fr[d].q),
         NEW g, SameTask(g, fr[d]), IsCall(g, new, BzSize(plan)), Stands(g, new, plan)
  PROVE  BzStack([fr EXCEPT ![Len(fr)] = g], d, c, new, plan, n, m)
<1>1. PICK size : size = BzSize(plan)
  OBVIOUS
<1>2. /\ PlanFits(plan) /\ n \in Nat /\ m \in Nat /\ fr = [k \in 1 .. d |-> fr[k]]
      /\ d \in Nat \ {0} /\ c \in 1 .. d - 1 /\ c \in 1 .. d
      /\ \A j, k \in c + 1 .. d : j <= k => Nested(fr[k], fr[j])
  <2>1. c \in 1 .. d - 1 /\ c \in 1 .. d
    BY RunsAbove
  <2>2. QED
    BY <2>1 DEF BzStack
<1>3. PICK gr : gr = [fr EXCEPT ![Len(fr)] = g] /\ HasTop(gr, fr, d, g)
  BY <1>2, FramesTop
<1>4. /\ Memory(new, size) /\ IsDriver(fr[c], new, plan, m)
      /\ \A k \in c + 1 .. d : IsCall(fr[k], new, size)
      /\ \A k \in c .. d - 1 : Waits(fr[k], fr[k + 1], new, plan, n, m)
  BY <1>1, BelowStays
<1>5. ASSUME NEW k \in c + 1 .. d
      PROVE  IsCall(gr[k], new, size) /\ SameTask(gr[k], fr[k])
  <2>1. CASE k = d
    BY <1>1, <1>3, <2>1 DEF HasTop
  <2>2. CASE k # d
    <3>1. k \in 1 .. d - 1
      BY <1>2, <2>2
    <3>2. QED
      BY <1>3, <1>4, <3>1 DEF SameTask, HasTop
  <2>3. QED
    BY <2>1, <2>2
<1>6. ASSUME NEW k \in c .. d - 1
      PROVE  Waits(gr[k], gr[k + 1], new, plan, n, m)
  <2>1. k \in 1 .. d - 1 /\ k + 1 \in c + 1 .. d
    BY <1>2
  <2>2. gr[k] = fr[k] /\ SameTask(gr[k + 1], fr[k + 1])
    BY <1>3, <1>5, <2>1 DEF HasTop
  <2>3. QED
    BY <1>4, <2>2, WaitsForSame
<1>7. \A j, k \in c + 1 .. d : j <= k => Nested(gr[k], gr[j])
  BY <1>2, <1>5 DEF SameTask, Nested
<1>8. IsDriver(gr[c], new, plan, m)
  BY <1>2, <1>3, <1>4 DEF HasTop
<1>9. CalledBy(gr, c)
  <2>1. CalledBy(fr, c) /\ \A k \in 1 .. c - 1 : k \in 1 .. d - 1
    BY <1>2 DEF BzStack
  <2>2. gr[c] = fr[c] /\ \A k \in 1 .. d - 1 : gr[k] = fr[k]
    BY <1>2, <1>3 DEF HasTop
  <2>3. QED
    BY <2>1, <2>2 DEF CalledBy
<1>10. BzStack(gr, d, c, new, plan, n, m)
  BY <1>1, <1>2, <1>3, <1>4, <1>5, <1>6, <1>7, <1>8, <1>9 DEF BzStack, HasTop
<1>11. QED
  BY <1>3, <1>10

LEMMA NestedIsTransitive ==
  ASSUME NEW mem, NEW size, NEW f, IsCall(f, mem, size), NEW g, IsCall(g, mem, size),
         NEW h, IsCall(h, mem, size), Nested(h, g), Nested(g, f)
  PROVE  Nested(h, f)
<1>1. /\ In(f.a, size) /\ In(g.a, size) /\ In(h.a, size)
      /\ In(f.q, size) /\ In(g.q, size) /\ In(h.q, size)
  BY DEF IsCall
<1>2. PartOf(h.a, f.a)
  BY <1>1, PartTransitive DEF Nested
<1>3. PartOf(h.q, f.q)
  BY <1>1, PartTransitive DEF Nested
<1>4. QED
  BY <1>2, <1>3 DEF Nested

LEMMA NestedInItself ==
  ASSUME NEW mem, NEW size, NEW f, IsCall(f, mem, size)
  PROVE  Nested(f, f)
<1>1. In(f.a, size) /\ In(f.q, size)
  BY DEF IsCall
<1>2. QED
  BY <1>1, PartItself DEF Nested

(* The frame that runs, g from now on, waits for the call h. *)
LEMMA BzPushes ==
  ASSUME NEW fr, NEW d, NEW c, NEW mem, NEW plan, NEW n, NEW m,
         BzStack(fr, d, c, mem, plan, n, m),
         NEW g, c = d => IsDriver(g, mem, plan, m) /\ g.approx = fr[d].approx,
         NEW h, IsCall(h, mem, BzSize(plan)),
         c # d => IsCall(g, mem, BzSize(plan)) /\ SameTask(g, fr[d]) /\ Nested(h, g),
         Waits(g, h, mem, plan, n, m), Stands(h, mem, plan)
  PROVE  BzStack(Append([fr EXCEPT ![Len(fr)] = g], h), d + 1, c, mem, plan, n, m)
<1>1. PICK size : size = BzSize(plan)
  OBVIOUS
<1>2. /\ PlanFits(plan) /\ n \in Nat /\ m \in Nat /\ fr = [k \in 1 .. d |-> fr[k]]
      /\ d \in Nat \ {0} /\ c \in 1 .. d /\ Memory(mem, size)
      /\ IsDriver(fr[c], mem, plan, m)
      /\ \A k \in c + 1 .. d : IsCall(fr[k], mem, size)
      /\ \A k \in c .. d - 1 : Waits(fr[k], fr[k + 1], mem, plan, n, m)
      /\ \A j, k \in c + 1 .. d : j <= k => Nested(fr[k], fr[j])
  BY <1>1 DEF BzStack
<1>3. PICK gr : gr = [fr EXCEPT ![Len(fr)] = g] /\ HasTop(gr, fr, d, g)
  BY <1>2, FramesTop
<1>4. PICK hr : hr = Append(gr, h) /\ HasTop(hr, gr, d + 1, h)
  <2>1. gr = [k \in 1 .. d |-> gr[k]] /\ d \in Nat /\ (d + 1) - 1 = d
    BY <1>2, <1>3 DEF HasTop
  <2>2. /\ Append(gr, h) = [k \in 1 .. d + 1 |-> Append(gr, h)[k]]
        /\ Append(gr, h)[d + 1] = h /\ \A k \in 1 .. d : Append(gr, h)[k] = gr[k]
    BY <2>1, AppendIs
  <2>3. QED
    BY <2>1, <2>2 DEF HasTop
<1>5. hr[d + 1] = h /\ hr[d] = g /\ \A k \in 1 .. d - 1 : hr[k] = fr[k]
  <2>1. d \in 1 .. d /\ (d + 1) - 1 = d /\ \A k \in 1 .. d - 1 : k \in 1 .. d
    BY <1>2
  <2>2. QED
    BY <1>3, <1>4, <2>1 DEF HasTop
<1>6. IsDriver(hr[c], mem, plan, m)
  <2>1. CASE c = d
    BY <1>5, <2>1
  <2>2. CASE c # d
    <3>1. c \in 1 .. d - 1
      BY <1>2, <2>2
    <3>2. QED
      BY <1>2, <1>5, <3>1
  <2>3. QED
    BY <2>1, <2>2
<1>7. ASSUME NEW k \in c + 1 .. d
      PROVE  IsCall(hr[k], mem, size) /\ SameTask(hr[k], fr[k])
  <2>1. c # d
    BY <1>2
  <2>2. CASE k = d
    BY <1>1, <1>5, <2>1, <2>2
  <2>3. CASE k # d
    <3>1. k \in 1 .. d - 1
      BY <1>2, <2>3
    <3>2. hr[k] = fr[k] /\ IsCall(fr[k], mem, size)
      BY <1>2, <1>5, <3>1
    <3>3. QED
      BY <3>2 DEF SameTask
  <2>4. QED
    BY <2>2, <2>3
<1>8. ASSUME NEW k \in c .. d
      PROVE  Waits(hr[k], hr[k + 1], mem, plan, n, m)
  <2>1. CASE k = d
    BY <1>5, <2>1
  <2>2. CASE k # d
    <3>1. k \in 1 .. d - 1 /\ k \in c .. d - 1 /\ k + 1 \in c + 1 .. d
      BY <1>2, <2>2
    <3>2. hr[k] = fr[k] /\ SameTask(hr[k + 1], fr[k + 1])
      BY <1>5, <1>7, <3>1
    <3>3. Waits(fr[k], fr[k + 1], mem, plan, n, m)
      BY <1>2, <3>1
    <3>4. QED
      BY <3>2, <3>3, WaitsForSame
  <2>3. QED
    BY <2>1, <2>2
<1>9. \A j, k \in c + 1 .. d : j <= k => Nested(hr[k], hr[j])
  BY <1>2, <1>7 DEF SameTask, Nested
<1>10. ASSUME NEW j \in c + 1 .. d PROVE Nested(h, hr[j])
  <2>1. d \in c + 1 .. d /\ j <= d /\ c # d
    BY <1>2
  <2>2. Nested(g, hr[j]) /\ IsCall(g, mem, size) /\ IsCall(hr[j], mem, size)
    BY <1>1, <1>5, <1>7, <1>9, <2>1
  <2>3. Nested(h, g) /\ IsCall(h, mem, size)
    BY <1>1, <2>1
  <2>4. QED
    BY <2>2, <2>3, NestedIsTransitive
<1>11. \A j, k \in c + 1 .. d + 1 : j <= k => Nested(hr[k], hr[j])
  <2> TAKE j, k \in c + 1 .. d + 1
  <2> HAVE j <= k
  <2>1. CASE k = d + 1 /\ j = d + 1
    BY <1>1, <1>5, <2>1, NestedInItself
  <2>2. CASE k = d + 1 /\ j # d + 1
    <3>1. j \in c + 1 .. d
      BY <1>2, <2>2
    <3>2. QED
      BY <1>5, <1>10, <2>2, <3>1
  <2>3. CASE k # d + 1
    <3>1. j \in c + 1 .. d /\ k \in c + 1 .. d
      BY <1>2, <2>3
    <3>2. QED
      BY <1>9, <3>1
  <2>4. QED
    BY <2>1, <2>2, <2>3
<1>12. \A k \in c + 1 .. d + 1 : IsCall(hr[k], mem, size)
  <2> TAKE k \in c + 1 .. d + 1
  <2>1. CASE k = d + 1
    BY <1>1, <1>5, <2>1
  <2>2. CASE k # d + 1
    <3>1. k \in c + 1 .. d
      BY <1>2, <2>2
    <3>2. QED
      BY <1>7, <3>1
  <2>3. QED
    BY <2>1, <2>2
<1>13. /\ d + 1 \in Nat \ {0} /\ c \in 1 .. d + 1 /\ c # d + 1 /\ (d + 1) - 1 = d
  BY <1>2
<1>14. CalledBy(hr, c)
  <2>1. CalledBy(fr, c) /\ \A k \in 1 .. c - 1 : k \in 1 .. d - 1
    BY <1>2 DEF BzStack
  <2>2. hr[c].approx = fr[c].approx
    <3>1. CASE c = d
      BY <1>5, <3>1
    <3>2. CASE c # d
      <4>1. c \in 1 .. d - 1
        BY <1>2, <3>2
      <4>2. QED
        BY <1>5, <4>1
    <3>3. QED
      BY <3>1, <3>2
  <2>3. \A k \in 1 .. c - 1 : hr[k] = fr[k]
    BY <1>5, <2>1
  <2>4. QED
    BY <2>1, <2>2, <2>3 DEF CalledBy
<1>15. BzStack(hr, d + 1, c, mem, plan, n, m)
  BY <1>1, <1>2, <1>4, <1>5, <1>6, <1>8, <1>11, <1>12, <1>13, <1>14 DEF BzStack, HasTop
<1>16. QED
  BY <1>3, <1>4, <1>15

(* The call that runs is done: the frame below goes on. *)
LEMMA BzPops ==
  ASSUME NEW fr, NEW d, NEW c, NEW mem, NEW plan, NEW n, NEW m,
         BzStack(fr, d, c, mem, plan, n, m), c # d,
         IF c = d - 1 THEN Marches(fr[d - 1], mem, plan, n, m) ELSE Stands(fr[d - 1], mem, plan)
  PROVE  BzStack(SubSeq(fr, 1, Len(fr) - 1), d - 1, c, mem, plan, n, m)
<1>1. PICK size : size = BzSize(plan)
  OBVIOUS
<1>2. PICK e \in Nat \ {0} : e = d - 1 /\ d = e + 1 /\ c \in 1 .. e
  BY RunsAbove
<1>3. /\ PlanFits(plan) /\ n \in Nat /\ m \in Nat /\ fr = [k \in 1 .. d |-> fr[k]]
      /\ d \in Nat \ {0} /\ Memory(mem, size) /\ IsDriver(fr[c], mem, plan, m)
      /\ \A k \in c + 1 .. d : IsCall(fr[k], mem, size)
      /\ \A k \in c .. d - 1 : Waits(fr[k], fr[k + 1], mem, plan, n, m)
      /\ \A j, k \in c + 1 .. d : j <= k => Nested(fr[k], fr[j])
  BY <1>1 DEF BzStack
<1>4. Len(fr) = d
  BY <1>3, FramesTop
<1>5. PICK gr : gr = SubSeq(fr, 1, Len(fr) - 1) /\ gr = [k \in 1 .. e |-> fr[k]]
  <2>1. SubSeq(fr, 1, d - 1) = [k \in 1 .. d - 1 |-> fr[k]]
    BY <1>3, FramesBut
  <2>2. QED
    BY <1>2, <1>4, <2>1
<1>6. gr = [k \in 1 .. e |-> gr[k]] /\ \A k \in 1 .. e : gr[k] = fr[k]
  BY <1>5
<1>7. /\ \A k \in c + 1 .. e : k \in c + 1 .. d /\ k \in 1 .. e
      /\ \A k \in c .. e - 1 : k \in c .. d - 1 /\ k \in 1 .. e /\ k + 1 \in 1 .. e
      /\ c \in 1 .. e /\ e \in 1 .. e
  BY <1>2
<1>8. /\ IsDriver(gr[c], mem, plan, m)
      /\ \A k \in c + 1 .. e : IsCall(gr[k], mem, size)
      /\ \A j, k \in c + 1 .. e : j <= k => Nested(gr[k], gr[j])
  BY <1>3, <1>6, <1>7
<1>9. \A k \in c .. e - 1 : Waits(gr[k], gr[k + 1], mem, plan, n, m)
  BY <1>3, <1>6, <1>7
<1>10. IF c = e THEN Marches(gr[e], mem, plan, n, m) ELSE Stands(gr[e], mem, plan)
  BY <1>2, <1>6, <1>7
<1>11. CalledBy(gr, c)
  <2>1. CalledBy(fr, c) /\ \A k \in 1 .. c - 1 : k \in 1 .. e
    BY <1>2 DEF BzStack
  <2>2. gr[c] = fr[c] /\ \A k \in 1 .. e : gr[k] = fr[k]
    BY <1>6, <1>7
  <2>3. QED
    BY <2>1, <2>2 DEF CalledBy
<1>12. BzStack(gr, e, c, mem, plan, n, m)
  BY <1>1, <1>2, <1>3, <1>6, <1>8, <1>9, <1>10, <1>11 DEF BzStack
<1>13. QED
  BY <1>2, <1>5, <1>12

-----------------------------------------------------------------------------
(* The numbers of a call.                                                  *)

LEMMA CutType ==
  ASSUME NEW mem, NEW size, Memory(mem, size), NEW s, In(s, size), NEW k \in Nat, NEW m \in Nat,
         k + m <= s.n
  PROVE  /\ Value(mem, Cut(s, k, m)) \in Nat /\ Value(mem, Cut(s, k, m)) < Power(Base, m)
         /\ Power(Base, m) \in Nat \ {0}
<1>1. In(Cut(s, k, m), size) /\ Cut(s, k, m).n = m
  BY CutIs
<1>2. QED
  BY <1>1, ValueType

(* A span is its lower k and its upper m limbs. *)
LEMMA WholeValue ==
  ASSUME NEW mem, NEW size, Memory(mem, size), NEW s, In(s, size), NEW k \in Nat, NEW m \in Nat,
         s.n = k + m
  PROVE  /\ Value(mem, s) = Value(mem, Cut(s, 0, k)) + Power(Base, k) * Value(mem, Cut(s, k, m))
         /\ Value(mem, Cut(s, 0, k)) \in Nat /\ Value(mem, Cut(s, 0, k)) < Power(Base, k)
         /\ Value(mem, Cut(s, k, m)) \in Nat /\ Value(mem, Cut(s, k, m)) < Power(Base, m)
         /\ Value(mem, s) \in Nat /\ Value(mem, s) < Power(Base, k + m)
         /\ Power(Base, k) \in Nat \ {0} /\ Power(Base, m) \in Nat \ {0}
         /\ Power(Base, k + m) = Power(Base, k) * Power(Base, m)
<1>1. 0 + k + m <= s.n /\ 0 + k = k /\ 0 + k <= s.n /\ k + m <= s.n
  OBVIOUS
<1>2. Value(mem, Cut(s, 0, k + m))
        = Value(mem, Cut(s, 0, k)) + Power(Base, k) * Value(mem, Cut(s, 0 + k, m))
  BY <1>1, CutValue
<1>3. Cut(s, 0, k + m) = s
  BY CutWhole
<1>4. /\ Value(mem, Cut(s, 0, k)) \in Nat /\ Value(mem, Cut(s, 0, k)) < Power(Base, k)
      /\ Power(Base, k) \in Nat \ {0}
  BY <1>1, CutType
<1>5. /\ Value(mem, Cut(s, k, m)) \in Nat /\ Value(mem, Cut(s, k, m)) < Power(Base, m)
      /\ Power(Base, m) \in Nat \ {0}
  BY <1>1, CutType
<1>6. Value(mem, s) \in Nat /\ Value(mem, s) < Power(Base, s.n)
  BY ValueType
<1>7. Power(Base, k + m) = Power(Base, k) * Power(Base, m)
  BY BaseType, PowerSum
<1>8. QED
  BY <1>1, <1>2, <1>3, <1>4, <1>5, <1>6, <1>7

(* A number below the power of its lower limbs has none above. *)
LEMMA NoneAbove ==
  ASSUME NEW p \in Nat \ {0}, NEW x \in Nat, x < p, NEW y \in Nat, x + p * y < p
  PROVE  y = 0
<1>1. ASSUME 1 <= y PROVE FALSE
  <2>1. 1 * p <= y * p
    BY <1>1, MulPos
  <2>2. QED
    BY <2>1
<1>2. QED
  BY <1>1

LEMMA CallIn ==
  ASSUME NEW mem, NEW size, NEW f, IsCall(f, mem, size)
  PROVE  /\ In(f.a, size) /\ In(f.b, size) /\ In(f.q, size)
         /\ f.a.area = "w" /\ f.b.area = "b" /\ f.q.area = "q"
         /\ f.q.n \in Nat \ {0} /\ f.b.n \in Nat \ {0} /\ f.a.n = f.b.n + f.q.n
         /\ f.b.n = (IF f.op = "3n2n" THEN 2 * f.q.n ELSE f.q.n) /\ f.a.n \in Nat
         /\ f.a.n = f.q.n + f.b.n
<1>1. /\ f.q.n \in Nat \ {0} /\ f.b.n = (IF f.op = "3n2n" THEN 2 * f.q.n ELSE f.q.n)
      /\ f.a.n = f.b.n + f.q.n
  BY DEF IsCall
<1>2. f.b.n \in Nat \ {0}
  BY <1>1
<1>3. QED
  BY <1>1, <1>2 DEF IsCall

LEMMA DivisorType ==
  ASSUME NEW mem, NEW size, Memory(mem, size), NEW f, IsCall(f, mem, size)
  PROVE  /\ Value(mem, f.b) \in Nat \ {0} /\ Value(mem, f.b) < Power(Base, f.b.n)
         /\ Power(Base, f.b.n) \in Nat \ {0} /\ Power(Base, f.b.n) <= 2 * Value(mem, f.b)
         /\ Power(Base, f.q.n) \in Nat \ {0} /\ Power(Base, f.q.n) <= Power(Base, f.b.n)
<1>1. /\ Value(mem, f.b) \in Nat /\ Value(mem, f.b) < Power(Base, f.b.n)
      /\ Power(Base, f.b.n) \in Nat \ {0}
  BY CallIn, ValueType
<1>2. Power(Base, f.b.n) <= 2 * Value(mem, f.b)
  BY DEF IsCall
<1>3. Power(Base, f.q.n) \in Nat \ {0}
  BY CallIn, ValueType
<1>4. Power(Base, f.q.n) <= Power(Base, f.b.n)
  <2>1. f.q.n \in Nat /\ f.b.n \in Nat /\ f.q.n <= f.b.n /\ Base \in Nat \ {0}
    BY CallIn, BaseType
  <2>2. QED
    BY <2>1, PowerGrows
<1>5. QED
  BY <1>1, <1>2, <1>3, <1>4

-----------------------------------------------------------------------------
(* The steps of a call.                                                    *)

(* A leaf: the schoolbook kernel, the remainder put back into the window. *)
LEMMA LeafStep ==
  ASSUME NEW mem, NEW plan, PlanFits(plan), Memory(mem, BzSize(plan)),
         NEW f, IsCall(f, mem, BzSize(plan)), f.pc = "enter", Entered(f, mem), f.op # "3n2n",
         NEW b, b = Value(mem, f.b), NEW new,
         new = Store(Store(mem, f.q, f.value \div b), f.a, f.value % b),
         NEW g, g = [f EXCEPT !.pc = "return", !.sound = f.value \div b < Power(Base, f.b.n)]
  PROVE  /\ BzKeeps(mem, new, BzSize(plan), f.a, f.q) /\ SameTask(g, f)
         /\ IsCall(g, new, BzSize(plan)) /\ Stands(g, new, plan)
<1>1. PICK size : size = BzSize(plan) /\ Memory(mem, size) /\ IsCall(f, mem, size)
  OBVIOUS
<1>2. PICK n \in Nat \ {0} : n = f.q.n /\ f.b.n = n /\ f.a.n = n + n
  BY <1>1, CallIn
<1>3. PICK p \in Nat \ {0} : p = Power(Base, n) /\ b \in Nat \ {0} /\ b < p /\ p <= 2 * b
  BY <1>1, <1>2, DivisorType
<1>4. PICK low \in 0 .. p - 1, top \in Nat : f.value = low + p * top /\ top < b
  <2>1. /\ Value(mem, f.a) = Value(mem, Cut(f.a, 0, n))
             + Power(Base, n) * Value(mem, Cut(f.a, n, n))
        /\ Value(mem, Cut(f.a, 0, n)) \in Nat /\ Value(mem, Cut(f.a, 0, n)) < Power(Base, n)
        /\ Value(mem, Cut(f.a, n, n)) \in Nat
    BY <1>1, <1>2, CallIn, WholeValue
  <2>2. f.value = Value(mem, f.a) /\ Value(mem, Cut(f.a, n, n)) < b
    BY <1>2 DEF Entered
  <2>3. QED
    BY <1>3, <2>1, <2>2
<1>5. PICK q, r : q = f.value \div b /\ r = f.value % b
  OBVIOUS
<1>6. q \in Nat /\ q < p /\ r \in 0 .. b - 1 /\ f.value = b * q + r /\ f.value \in Nat
  <2>1. q < p /\ q \in Nat
    BY <1>3, <1>4, <1>5, QuotientFits
  <2>2. f.value \in Nat
    BY DEF IsCall
  <2>3. f.value \in Int
    BY <2>2
  <2>4. f.value % b \in 0 .. b - 1 /\ f.value = b * (f.value \div b) + (f.value % b)
    BY <1>3, <2>3, DivMod
  <2>5. QED
    BY <1>5, <2>1, <2>2, <2>4
<1>7. In(f.a, size) /\ In(f.b, size) /\ In(f.q, size) /\ f.a.area = "w" /\ f.q.area = "q"
      /\ f.b.area = "b"
  BY <1>1, CallIn
<1>8. PICK mid : mid = Store(mem, f.q, q) /\ Memory(mid, size) /\ Value(mid, f.q) = q
                 /\ BzKeeps(mem, mid, size, f.a, f.q)
  <2>1. Memory(Store(mem, f.q, q), size) /\ BzKeeps(mem, Store(mem, f.q, q), size, f.a, f.q)
    BY <1>1, <1>6, <1>7, KeepsStore, PartItself DEF BzKeeps
  <2>2. Value(Store(mem, f.q, q), f.q) = q
    BY <1>1, <1>2, <1>3, <1>6, <1>7, StoreFits
  <2>3. QED
    BY <2>1, <2>2
<1>9. /\ new = Store(mid, f.a, r) /\ Memory(new, size) /\ BzKeeps(mid, new, size, f.a, f.q)
  <2>1. new = Store(mid, f.a, r)
    BY <1>5, <1>8
  <2>2. r \in Int
    BY <1>6
  <2>3. BzKeeps(mid, Store(mid, f.a, r), size, f.a, f.q)
    BY <1>7, <1>8, <2>2, KeepsStore, PartItself
  <2>4. QED
    BY <2>1, <2>3 DEF BzKeeps
<1>10. BzKeeps(mem, new, size, f.a, f.q)
  BY <1>8, <1>9, KeepsTwice
<1>11. Value(new, f.q) = q
  <2>1. Apart(f.q, f.a) /\ r \in Int
    BY <1>6, <1>7 DEF Apart
  <2>2. QED
    BY <1>7, <1>8, <1>9, <2>1, StoreApart
<1>12. Value(new, f.a) = r
  <2>1. Power(Base, n + n) = p * p /\ p * p \in Nat
    BY <1>3, BaseType, PowerSum
  <2>2. 1 * p <= p * p
    BY MulPos
  <2>3. r \in Nat /\ r < Power(Base, f.a.n)
    BY <1>2, <1>3, <1>6, <2>1, <2>2
  <2>4. QED
    BY <1>7, <1>8, <1>9, <2>3, StoreFits
<1>13. Value(new, Cut(f.a, 0, n)) = r /\ Value(new, Cut(f.a, n, n)) = 0
  <2>1. /\ Value(new, f.a) = Value(new, Cut(f.a, 0, n))
             + Power(Base, n) * Value(new, Cut(f.a, n, n))
        /\ Value(new, Cut(f.a, 0, n)) \in Nat /\ Value(new, Cut(f.a, 0, n)) < Power(Base, n)
        /\ Value(new, Cut(f.a, n, n)) \in Nat
    BY <1>2, <1>7, <1>9, WholeValue
  <2>2. PICK x \in Nat, y \in Nat : x = Value(new, Cut(f.a, 0, n)) /\ y = Value(new, Cut(f.a, n, n))
                                 /\ x < p /\ r = x + p * y /\ r < p
    <3>1. PICK x \in Nat, y \in Nat :
            x = Value(new, Cut(f.a, 0, n)) /\ y = Value(new, Cut(f.a, n, n))
      BY <2>1
    <3>2. x < p /\ r = x + p * y
      BY <1>3, <1>12, <2>1, <3>1
    <3>3. r < p
      BY <1>3, <1>6
    <3>4. QED
      BY <3>1, <3>2, <3>3
  <2>3. y = 0
    BY <2>2, NoneAbove
  <2>4. QED
    BY <2>2, <2>3
<1>14. /\ g.op = f.op /\ g.pc = "return" /\ g.a = f.a /\ g.b = f.b /\ g.q = f.q
       /\ g.value = f.value /\ g.carry = f.carry /\ g.corrections = f.corrections
       /\ g.sound = TRUE /\ CallFields(g)
  <2>1. (f.value \div b < Power(Base, f.b.n)) = TRUE
    BY <1>2, <1>3, <1>5, <1>6
  <2>2. g = [f EXCEPT !.pc = "return", !.sound = TRUE]
    BY <2>1
  <2>3. f = [op |-> f.op, pc |-> f.pc, a |-> f.a, b |-> f.b, q |-> f.q, value |-> f.value,
             carry |-> f.carry, corrections |-> f.corrections, sound |-> f.sound]
    BY DEF IsCall, CallFields
  <2>4. QED
    BY <2>2, <2>3 DEF CallFields
<1>15. IsCall(f, new, size) /\ Value(new, f.b) = b
  BY <1>1, <1>7, <1>10, CallStays
<1>16. IsCall(g, new, size)
  BY <1>14, <1>15 DEF IsCall
<1>17. CASE f.op = "2n1n"
  <2>1. Divided(g, new)
    <3>1. q * b + r = f.value
      BY <1>3, <1>6
    <3>2. /\ Value(new, g.q) = q /\ Value(new, g.b) = b /\ g.value = f.value
          /\ Value(new, Cut(g.a, 0, g.b.n)) = r /\ Value(new, Cut(g.a, g.b.n, g.q.n)) = 0
      BY <1>2, <1>11, <1>13, <1>14, <1>15
    <3>3. r < b
      BY <1>3, <1>6
    <3>4. QED
      BY <3>1, <3>2, <3>3 DEF Divided
  <2>2. QED
    BY <1>1, <1>10, <1>14, <1>16, <1>17, <2>1 DEF Stands, SameTask
<1>18. CASE f.op = "divappr"
  <2>1. f.value < (q + 1) * b /\ q * b <= f.value
    BY <1>3, <1>6
  <2>2. HalvingLevels(n, plan.threshold) \in Nat
    BY HalvingStep DEF PlanFits
  <2>3. Lift(n, b, plan) \in Nat
    BY <1>3, <2>2 DEF Lift
  <2>4. Approximates(q, b, f.value, Lift(n, b, plan))
    BY <1>3, <1>6, <2>1, <2>3 DEF Approximates
  <2>5. Approximated(g, new, plan)
    BY <1>2, <1>11, <1>14, <1>15, <2>4 DEF Approximated
  <2>6. QED
    BY <1>1, <1>10, <1>14, <1>16, <1>18, <2>5 DEF Stands, SameTask
<1>19. QED
  BY <1>1, <1>17, <1>18 DEF IsCall

(* A call that is about to run. *)
LEMMA NewCall ==
  ASSUME NEW mem, NEW plan, Memory(mem, BzSize(plan)), NEW op \in {"2n1n", "3n2n", "divappr"},
         NEW a, In(a, BzSize(plan)), a.area = "w", NEW b, In(b, BzSize(plan)), b.area = "b",
         NEW q, In(q, BzSize(plan)), q.area = "q", q.n \in Nat \ {0}, a.n = b.n + q.n,
         b.n = IF op = "3n2n" THEN 2 * q.n ELSE q.n,
         Power(Base, b.n) <= 2 * Value(mem, b),
         Value(mem, Cut(a, q.n, b.n)) < Value(mem, b),
         NEW c, c = BzCall(op, mem, a, b, q)
  PROVE  /\ IsCall(c, mem, BzSize(plan)) /\ Stands(c, mem, plan)
         /\ c.op = op /\ c.a = a /\ c.b = b /\ c.q = q /\ c.value = Value(mem, a)
<1>1. /\ c.op = op /\ c.pc = "enter" /\ c.a = a /\ c.b = b /\ c.q = q /\ c.value = Value(mem, a)
      /\ c.carry = 0 /\ c.corrections = 0 /\ c.sound = TRUE /\ CallFields(c)
  BY DEF BzCall, CallFields
<1>2. Value(mem, a) \in Nat
  BY ValueType
<1>3. IsCall(c, mem, BzSize(plan))
  BY <1>1, <1>2 DEF IsCall
<1>4. Entered(c, mem)
  BY <1>1 DEF Entered
<1>5. Stands(c, mem, plan)
  BY <1>1, <1>4 DEF Stands
<1>6. QED
  BY <1>1, <1>3, <1>5

(* A call of which only the program counter moves. *)
LEMMA CallMoves ==
  ASSUME NEW mem, NEW size, NEW f, IsCall(f, mem, size), f.corrections = 0,
         NEW pc \in {"lower", "product", "return"}, NEW g, g = [f EXCEPT !.pc = pc]
  PROVE  /\ IsCall(g, mem, size) /\ SameTask(g, f) /\ g.pc = pc /\ g.carry = f.carry
         /\ g.corrections = f.corrections
<1>1. /\ g.op = f.op /\ g.pc = pc /\ g.a = f.a /\ g.b = f.b /\ g.q = f.q
      /\ g.value = f.value /\ g.carry = f.carry /\ g.corrections = f.corrections
      /\ g.sound = f.sound /\ CallFields(g)
  <2>1. f = [op |-> f.op, pc |-> f.pc, a |-> f.a, b |-> f.b, q |-> f.q, value |-> f.value,
             carry |-> f.carry, corrections |-> f.corrections, sound |-> f.sound]
    BY DEF IsCall, CallFields
  <2>2. QED
    BY <2>1 DEF CallFields
<1>2. QED
  BY <1>1 DEF IsCall, SameTask

(* The upper half of a divisor has its top bit set, too. *)
LEMMA UpperDivisor ==
  ASSUME NEW mem, NEW size, Memory(mem, size), NEW b, In(b, size), NEW h \in Nat \ {0},
         b.n = 2 * h, Power(Base, b.n) <= 2 * Value(mem, b)
  PROVE  /\ Power(Base, h) <= 2 * Value(mem, Cut(b, h, h))
         /\ In(Cut(b, h, h), size) /\ Cut(b, h, h).area = b.area /\ Cut(b, h, h).n = h
         /\ Upper(b) = Cut(b, h, h) /\ Lower(b) = Cut(b, 0, h)
<1>1. b.n = h + h /\ 0 + h <= b.n /\ h + h <= b.n /\ b.n - h = h
  OBVIOUS
<1>2. PICK e \in Nat \ {0} : Power(Base, h) = 2 * e
  BY PowerEven
<1>3. PICK p \in Nat : p = Power(Base, h) /\ p = 2 * e
  BY <1>2
<1>4. PICK l \in 0 .. p - 1, u \in Nat :
        /\ l = Value(mem, Cut(b, 0, h)) /\ u = Value(mem, Cut(b, h, h))
        /\ Value(mem, b) = l + p * u /\ Power(Base, b.n) = p * p
  <2>1. /\ Value(mem, b) = Value(mem, Cut(b, 0, h)) + Power(Base, h) * Value(mem, Cut(b, h, h))
        /\ Value(mem, Cut(b, 0, h)) \in Nat /\ Value(mem, Cut(b, 0, h)) < Power(Base, h)
        /\ Value(mem, Cut(b, h, h)) \in Nat
        /\ Power(Base, h + h) = Power(Base, h) * Power(Base, h)
    BY <1>1, WholeValue
  <2>2. Value(mem, Cut(b, 0, h)) \in 0 .. p - 1
    BY <1>3, <2>1
  <2>3. QED
    BY <1>1, <1>3, <2>1, <2>2
<1>5. p <= 2 * u
  BY <1>2, <1>3, <1>4, UpperNormalized
<1>6. In(Cut(b, h, h), size) /\ Cut(b, h, h).area = b.area /\ Cut(b, h, h).n = h
  BY <1>1, CutIs
<1>7. b.n \div 2 = h
  OBVIOUS
<1>8. Upper(b) = Cut(b, h, h) /\ Lower(b) = Cut(b, 0, h)
  BY <1>1, <1>7, FirstCut DEF Upper, Lower
<1>9. QED
  BY <1>3, <1>4, <1>5, <1>6, <1>8

(* The halves of a quotient. *)
LEMMA HalfQuotients ==
  ASSUME NEW size, NEW q, In(q, size), NEW h \in Nat, q.n = 2 * h
  PROVE  /\ In(Cut(q, h, h), size) /\ Cut(q, h, h).area = q.area /\ Cut(q, h, h).n = h
         /\ In(Cut(q, 0, h), size) /\ Cut(q, 0, h).area = q.area /\ Cut(q, 0, h).n = h
         /\ PartOf(Cut(q, h, h), q) /\ PartOf(Cut(q, 0, h), q)
         /\ Upper(q) = Cut(q, h, h) /\ Lower(q) = Cut(q, 0, h)
<1>1. 0 + h <= q.n /\ h + h <= q.n /\ q.n - h = h /\ q.n \div 2 = h
  OBVIOUS
<1>2. Upper(q) = Cut(q, h, h) /\ Lower(q) = Cut(q, 0, h)
  BY <1>1, FirstCut DEF Upper, Lower
<1>3. /\ In(Cut(q, h, h), size) /\ Cut(q, h, h).area = q.area /\ Cut(q, h, h).n = h
      /\ PartOf(Cut(q, h, h), q)
  BY <1>1, CutIs
<1>4. /\ In(Cut(q, 0, h), size) /\ Cut(q, 0, h).area = q.area /\ Cut(q, 0, h).n = h
      /\ PartOf(Cut(q, 0, h), q)
  BY <1>1, CutIs
<1>5. QED
  BY <1>2, <1>3, <1>4

LEMMA UpperStep ==
  ASSUME NEW mem, NEW plan, PlanFits(plan), Memory(mem, BzSize(plan)),
         NEW f, IsCall(f, mem, BzSize(plan)), f.pc = "enter", Entered(f, mem), Halved(f, plan),
         NEW g, g = [f EXCEPT !.pc = "lower"],
         NEW c, c = BzCall("3n2n", mem, Subspan(f.a, f.b.n \div 2), f.b, Upper(f.q))
  PROVE  /\ IsCall(g, mem, BzSize(plan)) /\ SameTask(g, f) /\ IsCall(c, mem, BzSize(plan))
         /\ Nested(c, g) /\ WaitsUpper(g, c, mem, plan) /\ Stands(c, mem, plan)
<1>1. PICK size : size = BzSize(plan) /\ Memory(mem, size) /\ IsCall(f, mem, size)
  OBVIOUS
<1>2. PICK h \in Nat \ {0} : h = f.q.n \div 2 /\ f.q.n = 2 * h /\ f.b.n = 2 * h /\ f.a.n = 4 * h
  BY HalvedSizes
<1>3. f.b.n \div 2 = h /\ f.a.n - h = 3 * h /\ h + 3 * h <= f.a.n /\ f.q.n = 2 * h
      /\ h + f.q.n = 3 * h /\ 0 + h <= f.a.n /\ f.a.n = h + 3 * h
  <2>1. f.b.n = 2 * h /\ f.a.n = 4 * h /\ f.q.n = 2 * h
    BY <1>2
  <2>2. (2 * h) \div 2 = h
    OBVIOUS
  <2>3. QED
    BY <2>1, <2>2
<1>4. In(f.a, size) /\ In(f.b, size) /\ In(f.q, size) /\ f.a.area = "w" /\ f.q.area = "q"
      /\ f.b.area = "b"
  BY <1>1, CallIn
<1>5. PICK a : /\ a = Cut(f.a, h, 3 * h) /\ a = Subspan(f.a, f.b.n \div 2) /\ In(a, size)
               /\ a.area = "w" /\ a.n = 3 * h /\ PartOf(a, f.a)
  <2>1. Subspan(f.a, h) = Cut(f.a, h, 3 * h)
    BY <1>3, <1>4, FirstCut
  <2>2. 3 * h \in Nat
    OBVIOUS
  <2>3. /\ In(Cut(f.a, h, 3 * h), size) /\ Cut(f.a, h, 3 * h).area = f.a.area
        /\ Cut(f.a, h, 3 * h).n = 3 * h /\ PartOf(Cut(f.a, h, 3 * h), f.a)
    BY <1>3, <1>4, <2>2, CutIs
  <2>4. QED
    BY <1>3, <1>4, <2>1, <2>3
<1>6. PICK q : q = Cut(f.q, h, h) /\ q = Upper(f.q) /\ In(q, size) /\ q.area = "q" /\ q.n = h
               /\ PartOf(q, f.q)
  <2>1. h \in Nat /\ f.q.n = 2 * h
    BY <1>3
  <2>2. /\ In(Cut(f.q, h, h), size) /\ Cut(f.q, h, h).area = f.q.area /\ Cut(f.q, h, h).n = h
        /\ PartOf(Cut(f.q, h, h), f.q) /\ Upper(f.q) = Cut(f.q, h, h)
    BY <1>4, <2>1, HalfQuotients
  <2>3. QED
    BY <1>4, <2>2
<1>7. Value(mem, Cut(a, h, 2 * h)) < Value(mem, f.b)
  <2>1. Cut(a, h, 2 * h) = Cut(f.a, h + h, 2 * h)
    BY <1>4, <1>5, CutCut
  <2>2. h + h = f.q.n /\ 2 * h = f.b.n
    BY <1>2
  <2>3. QED
    BY <2>1, <2>2 DEF Entered
<1>8. Power(Base, f.b.n) <= 2 * Value(mem, f.b)
  BY DEF IsCall
<1>9. c = BzCall("3n2n", mem, a, f.b, q)
  BY <1>5, <1>6
<1>10. /\ IsCall(c, mem, size) /\ Stands(c, mem, plan)
       /\ c.op = "3n2n" /\ c.a = a /\ c.b = f.b /\ c.q = q /\ c.value = Value(mem, a)
  <2>1. a.n = f.b.n + q.n /\ f.b.n = 2 * q.n /\ q.n \in Nat \ {0}
    BY <1>2, <1>5, <1>6
  <2>2. Value(mem, Cut(a, q.n, f.b.n)) < Value(mem, f.b)
    BY <1>2, <1>6, <1>7
  <2>3. QED
    BY <1>1, <1>4, <1>5, <1>6, <1>8, <1>9, <2>1, <2>2, NewCall
<1>11. f.corrections = 0
  BY DEF IsCall
<1>12. IsCall(g, mem, size) /\ SameTask(g, f) /\ g.pc = "lower"
  BY <1>1, <1>11, CallMoves
<1>13. f.value = Value(mem, a) * Power(Base, h) + Value(mem, Cut(f.a, 0, h))
  <2>1. 3 * h \in Nat
    OBVIOUS
  <2>2. /\ Value(mem, f.a) = Value(mem, Cut(f.a, 0, h)) + Power(Base, h) * Value(mem, a)
        /\ Value(mem, Cut(f.a, 0, h)) \in Nat /\ Value(mem, a) \in Nat
        /\ Power(Base, h) \in Nat
    BY <1>1, <1>3, <1>4, <1>5, <2>1, WholeValue
  <2>3. f.value = Value(mem, f.a)
    BY DEF Entered
  <2>4. QED
    BY <2>2, <2>3
<1>14. WaitsUpper(g, c, mem, plan)
  <2>1. g.q = f.q /\ g.op = f.op /\ g.a = f.a /\ g.b = f.b /\ g.value = f.value
    BY <1>12 DEF SameTask
  <2>2. Halved(g, plan)
    BY <2>1 DEF Halved
  <2>3. h = g.q.n \div 2 /\ h + g.q.n = 3 * h
    BY <1>2, <1>3, <2>1
  <2>4. QED
    BY <1>5, <1>6, <1>10, <1>12, <1>13, <2>1, <2>2, <2>3 DEF WaitsUpper
<1>15. Nested(c, g)
  BY <1>5, <1>6, <1>10, <1>12 DEF Nested, SameTask
<1>16. QED
  BY <1>1, <1>10, <1>12, <1>14, <1>15

LEMMA LowerStep ==
  ASSUME NEW mem, NEW plan, PlanFits(plan), Memory(mem, BzSize(plan)),
         NEW f, IsCall(f, mem, BzSize(plan)), f.pc = "lower", f.op = "2n1n", Halved(f, plan),
         HalfDone(f, mem), NEW g, g = [f EXCEPT !.pc = "return"],
         NEW c, c = BzCall("3n2n", mem, First(f.a, 3 * (f.b.n \div 2)), f.b, Lower(f.q))
  PROVE  /\ IsCall(g, mem, BzSize(plan)) /\ SameTask(g, f) /\ IsCall(c, mem, BzSize(plan))
         /\ Nested(c, g) /\ WaitsLower(g, c, mem, plan) /\ Stands(c, mem, plan)
<1>1. PICK size : size = BzSize(plan) /\ Memory(mem, size) /\ IsCall(f, mem, size)
  OBVIOUS
<1>2. PICK h \in Nat \ {0} : h = f.q.n \div 2 /\ f.q.n = 2 * h /\ f.b.n = 2 * h /\ f.a.n = 4 * h
  BY HalvedSizes
<1>3. f.b.n \div 2 = h /\ 0 + 3 * h <= f.a.n /\ h + f.q.n = 3 * h /\ 0 + h + 2 * h <= f.a.n
      /\ 3 * h = h + 2 * h /\ 0 + h = h /\ h + 2 * h <= f.a.n /\ 0 + h <= f.a.n
  <2>1. f.b.n = 2 * h /\ f.a.n = 4 * h /\ f.q.n = 2 * h
    BY <1>2
  <2>2. (2 * h) \div 2 = h
    OBVIOUS
  <2>3. QED
    BY <2>1, <2>2
<1>4. In(f.a, size) /\ In(f.b, size) /\ In(f.q, size) /\ f.a.area = "w" /\ f.q.area = "q"
      /\ f.b.area = "b"
  BY <1>1, CallIn
<1>5. PICK a : /\ a = Cut(f.a, 0, 3 * h) /\ a = First(f.a, 3 * (f.b.n \div 2)) /\ In(a, size)
               /\ a.area = "w" /\ a.n = 3 * h /\ PartOf(a, f.a)
  <2>1. 3 * h \in Nat
    OBVIOUS
  <2>2. First(f.a, 3 * h) = Cut(f.a, 0, 3 * h)
    BY <1>4, <2>1, FirstCut
  <2>3. /\ In(Cut(f.a, 0, 3 * h), size) /\ Cut(f.a, 0, 3 * h).area = f.a.area
        /\ Cut(f.a, 0, 3 * h).n = 3 * h /\ PartOf(Cut(f.a, 0, 3 * h), f.a)
    BY <1>3, <1>4, <2>1, CutIs
  <2>4. QED
    BY <1>3, <1>4, <2>2, <2>3
<1>6. PICK q : q = Cut(f.q, 0, h) /\ q = Lower(f.q) /\ In(q, size) /\ q.area = "q" /\ q.n = h
               /\ PartOf(q, f.q)
  <2>1. h \in Nat /\ f.q.n = 2 * h
    BY <1>2
  <2>2. /\ In(Cut(f.q, 0, h), size) /\ Cut(f.q, 0, h).area = f.q.area /\ Cut(f.q, 0, h).n = h
        /\ PartOf(Cut(f.q, 0, h), f.q) /\ Lower(f.q) = Cut(f.q, 0, h)
    BY <1>4, <2>1, HalfQuotients
  <2>3. QED
    BY <1>4, <2>2
<1>7. PICK r : /\ r = Value(mem, Cut(f.a, h, 2 * h)) /\ r < Value(mem, f.b)
               /\ f.value = (Value(mem, Cut(f.q, h, h)) * Value(mem, f.b) + r) * Power(Base, h)
                              + Value(mem, Cut(f.a, 0, h))
               /\ Value(mem, Cut(f.a, 3 * h, h)) = 0
  <2>1. f.q.n \div 2 = h /\ f.q.n = 2 * h /\ h + f.q.n = 3 * h
    BY <1>2, <1>3
  <2>2. QED
    BY <2>1 DEF HalfDone
<1>8. Value(mem, Cut(a, h, 2 * h)) < Value(mem, f.b)
  <2>1. Cut(a, h, 2 * h) = Cut(f.a, 0 + h, 2 * h)
    BY <1>4, <1>5, CutCut
  <2>2. QED
    BY <1>3, <1>7, <2>1
<1>9. Power(Base, f.b.n) <= 2 * Value(mem, f.b) /\ f.corrections = 0
  BY DEF IsCall
<1>10. /\ IsCall(c, mem, size) /\ Stands(c, mem, plan)
       /\ c.op = "3n2n" /\ c.a = a /\ c.b = f.b /\ c.q = q /\ c.value = Value(mem, a)
  <2>1. a.n = f.b.n + q.n /\ f.b.n = 2 * q.n /\ q.n \in Nat \ {0}
    BY <1>2, <1>5, <1>6
  <2>2. Value(mem, Cut(a, q.n, f.b.n)) < Value(mem, f.b)
    BY <1>2, <1>6, <1>8
  <2>3. c = BzCall("3n2n", mem, a, f.b, q)
    BY <1>5, <1>6
  <2>4. QED
    BY <1>1, <1>4, <1>5, <1>6, <1>9, <2>1, <2>2, <2>3, NewCall
<1>11. IsCall(g, mem, size) /\ SameTask(g, f) /\ g.pc = "return"
  BY <1>1, <1>9, CallMoves
<1>12. f.value = (Value(mem, Cut(f.q, h, h)) * Value(mem, f.b)) * Power(Base, h) + Value(mem, a)
  <2>1. h \in Nat /\ 2 * h \in Nat /\ h + h <= f.q.n
    BY <1>2
  <2>2. Value(mem, Cut(f.a, 0, h + 2 * h))
          = Value(mem, Cut(f.a, 0, h)) + Power(Base, h) * Value(mem, Cut(f.a, 0 + h, 2 * h))
    <3>1. PICK w \in Nat : w = 2 * h /\ 0 + h + w <= f.a.n
      BY <1>3, <2>1
    <3>2. Value(mem, Cut(f.a, 0, h + w))
            = Value(mem, Cut(f.a, 0, h)) + Power(Base, h) * Value(mem, Cut(f.a, 0 + h, w))
      <4>1. 0 + h + w <= f.a.n
        BY <3>1
      <4>2. QED
        BY <1>1, <1>4, <4>1, CutValue
    <3>3. QED
      BY <3>1, <3>2
  <2>3. Value(mem, a) = Value(mem, Cut(f.a, 0, h)) + Power(Base, h) * r
    BY <1>3, <1>5, <1>7, <2>2
  <2>4. r \in Nat /\ Value(mem, Cut(f.q, h, h)) \in Nat /\ Value(mem, Cut(f.a, 0, h)) \in Nat
        /\ Power(Base, h) \in Nat
    BY <1>1, <1>3, <1>4, <1>7, <2>1, CutType
  <2>5. Value(mem, f.b) \in Nat
    BY <1>1, DivisorType
  <2>6. QED
    BY <1>7, <2>3, <2>4, <2>5
<1>13. WaitsLower(g, c, mem, plan)
  <2>1. g.q = f.q /\ g.op = f.op /\ g.a = f.a /\ g.b = f.b /\ g.value = f.value
    BY <1>11 DEF SameTask
  <2>2. Halved(g, plan)
    BY <2>1 DEF Halved
  <2>3. h = g.q.n \div 2 /\ h + g.q.n = 3 * h
    BY <1>2, <1>3, <2>1
  <2>4. QED
    BY <1>5, <1>6, <1>7, <1>10, <1>11, <1>12, <2>1, <2>2, <2>3 DEF WaitsLower
<1>14. Nested(c, g)
  BY <1>5, <1>6, <1>10, <1>11 DEF Nested, SameTask
<1>15. QED
  BY <1>1, <1>10, <1>11, <1>13, <1>14

(* The sizes of D_3n/2n. *)
LEMMA WindowSizes ==
  ASSUME NEW mem, NEW size, NEW f, IsCall(f, mem, size), f.op = "3n2n"
  PROVE  \E h \in Nat \ {0}, w \in Nat \ {0} :
           /\ h = f.q.n /\ w = 2 * h /\ f.b.n = w /\ f.a.n = w + h
           /\ 0 + h <= f.a.n /\ h + h <= f.a.n /\ w + h <= f.a.n
           /\ h + w <= f.a.n /\ 0 + w <= f.a.n /\ 0 + h + h <= f.a.n
           /\ f.a.n - h = w /\ f.a.n - w = h /\ h + h = w
           /\ f.a.n = h + w /\ 0 + h = h
<1>1. PICK h \in Nat \ {0} : h = f.q.n /\ f.b.n = 2 * h /\ f.a.n = f.b.n + h
  BY CallIn
<1>2. PICK w \in Nat \ {0} : w = 2 * h /\ f.b.n = w /\ f.a.n = w + h /\ h = f.q.n
  BY <1>1
<1>3. /\ 0 + h <= f.a.n /\ h + h <= f.a.n /\ w + h <= f.a.n
      /\ h + w <= f.a.n /\ 0 + w <= f.a.n /\ 0 + h + h <= f.a.n
      /\ f.a.n - h = w /\ f.a.n - w = h /\ h + h = w
      /\ f.a.n = h + w /\ 0 + h = h
  <2>1. PICK n \in Nat : n = w + h
    OBVIOUS
  <2>2. /\ 0 + h <= n /\ h + h <= n /\ w + h <= n /\ h + w <= n /\ 0 + w <= n
        /\ 0 + h + h <= n /\ n - h = w /\ n - w = h /\ h + h = w /\ n = h + w /\ 0 + h = h
    <3>1. w = 2 * h
      BY <1>2
    <3>2. QED
      BY <2>1, <3>1
  <2>3. f.a.n = n
    BY <1>2, <2>1
  <2>4. QED
    BY <2>2, <2>3
<1>4. QED
  BY <1>2, <1>3

LEMMA EstimateStep ==
  ASSUME NEW mem, NEW plan, PlanFits(plan), Memory(mem, BzSize(plan)),
         NEW f, IsCall(f, mem, BzSize(plan)), f.pc = "enter", Entered(f, mem), f.op = "3n2n",
         Value(mem, Subspan(f.a, 2 * f.q.n)) < Value(mem, Upper(f.b)),
         NEW g, g = [f EXCEPT !.pc = "product"],
         NEW c, c = BzCall("2n1n", mem, Subspan(f.a, f.q.n), Upper(f.b), f.q)
  PROVE  /\ IsCall(g, mem, BzSize(plan)) /\ SameTask(g, f) /\ IsCall(c, mem, BzSize(plan))
         /\ Nested(c, g) /\ WaitsEstimate(g, c, mem) /\ Stands(c, mem, plan)
<1>1. PICK size : size = BzSize(plan) /\ Memory(mem, size) /\ IsCall(f, mem, size)
  OBVIOUS
<1>2. PICK h \in Nat \ {0}, w \in Nat \ {0} :
        /\ h = f.q.n /\ w = 2 * h /\ f.b.n = w /\ f.a.n = w + h /\ h + w <= f.a.n
        /\ f.a.n - h = w /\ f.a.n - w = h /\ h + h = w /\ f.a.n = h + w
  BY <1>1, WindowSizes
<1>3. In(f.a, size) /\ In(f.b, size) /\ In(f.q, size) /\ f.a.area = "w" /\ f.q.area = "q"
      /\ f.b.area = "b"
  BY <1>1, CallIn
<1>4. PICK a : /\ a = Cut(f.a, h, w) /\ a = Subspan(f.a, f.q.n) /\ In(a, size)
               /\ a.area = "w" /\ a.n = w /\ PartOf(a, f.a)
  <2>1. Subspan(f.a, h) = Cut(f.a, h, w)
    BY <1>2, <1>3, FirstCut
  <2>2. /\ In(Cut(f.a, h, w), size) /\ Cut(f.a, h, w).area = f.a.area
        /\ Cut(f.a, h, w).n = w /\ PartOf(Cut(f.a, h, w), f.a)
    <3>1. h + w <= f.a.n /\ h \in Nat /\ w \in Nat
      BY <1>2
    <3>2. QED
      BY <1>3, <3>1, CutIs
  <2>3. QED
    BY <1>2, <1>3, <2>1, <2>2
<1>5. PICK b : /\ b = Cut(f.b, h, h) /\ b = Upper(f.b) /\ In(b, size) /\ b.area = "b" /\ b.n = h
               /\ Power(Base, h) <= 2 * Value(mem, b)
  <2>1. Power(Base, f.b.n) <= 2 * Value(mem, f.b)
    BY DEF IsCall
  <2>2. /\ Power(Base, h) <= 2 * Value(mem, Cut(f.b, h, h))
        /\ In(Cut(f.b, h, h), size) /\ Cut(f.b, h, h).area = f.b.area /\ Cut(f.b, h, h).n = h
        /\ Upper(f.b) = Cut(f.b, h, h)
    BY <1>1, <1>2, <1>3, <2>1, UpperDivisor
  <2>3. QED
    BY <1>3, <2>2
<1>6. Value(mem, Cut(a, h, h)) < Value(mem, b)
  <2>1. Cut(a, h, h) = Cut(f.a, h + h, h)
    <3>1. h \in Nat /\ a = Cut(f.a, h, w)
      BY <1>2, <1>4
    <3>2. QED
      BY <1>3, <3>1, CutCut
  <2>2. Subspan(f.a, w) = Cut(f.a, w, h)
    <3>1. f.a.n - w = h /\ w \in Nat
      BY <1>2
    <3>2. QED
      BY <1>3, <3>1, FirstCut
  <2>3. h + h = w /\ Value(mem, Subspan(f.a, w)) < Value(mem, b)
    BY <1>2, <1>5
  <2>4. QED
    BY <2>1, <2>2, <2>3
<1>7. /\ IsCall(c, mem, size) /\ Stands(c, mem, plan)
      /\ c.op = "2n1n" /\ c.a = a /\ c.b = b /\ c.q = f.q /\ c.value = Value(mem, a)
  <2>1. a.n = b.n + f.q.n /\ b.n = f.q.n /\ f.q.n \in Nat \ {0}
    BY <1>2, <1>4, <1>5
  <2>2. Value(mem, Cut(a, f.q.n, b.n)) < Value(mem, b)
    BY <1>2, <1>5, <1>6
  <2>3. c = BzCall("2n1n", mem, a, b, f.q)
    BY <1>4, <1>5
  <2>4. QED
    BY <1>1, <1>3, <1>4, <1>5, <2>1, <2>2, <2>3, NewCall
<1>8. f.corrections = 0 /\ f.carry = 0
  BY DEF IsCall
<1>9. IsCall(g, mem, size) /\ SameTask(g, f) /\ g.pc = "product" /\ g.carry = 0
  BY <1>1, <1>8, CallMoves
<1>10. f.value = Value(mem, a) * Power(Base, h) + Value(mem, Cut(f.a, 0, h))
  <2>1. /\ Value(mem, f.a) = Value(mem, Cut(f.a, 0, h)) + Power(Base, h) * Value(mem, a)
        /\ Value(mem, Cut(f.a, 0, h)) \in Nat /\ Value(mem, a) \in Nat
        /\ Power(Base, h) \in Nat
    <3>1. f.a.n = h + w /\ h \in Nat /\ w \in Nat
      BY <1>2
    <3>2. a = Cut(f.a, h, w)
      BY <1>4
    <3>3. QED
      BY <1>1, <1>3, <3>1, <3>2, WholeValue
  <2>2. f.value = Value(mem, f.a)
    BY DEF Entered
  <2>3. QED
    BY <2>1, <2>2
<1>11. g.q = f.q /\ g.op = f.op /\ g.a = f.a /\ g.b = f.b /\ g.value = f.value
  BY <1>9 DEF SameTask
<1>12. WaitsEstimate(g, c, mem)
  BY <1>2, <1>4, <1>5, <1>7, <1>9, <1>10, <1>11 DEF WaitsEstimate
<1>13. Nested(c, g)
  BY <1>1, <1>3, <1>4, <1>7, <1>11, PartItself DEF Nested
<1>14. QED
  BY <1>1, <1>7, <1>9, <1>12, <1>13

(* Two stores, apart from one another. *)
LEMMA StoredTwice ==
  ASSUME NEW mem, NEW size, Memory(mem, size), NEW a, In(a, size), NEW q, In(q, size),
         NEW s, In(s, size), PartOf(s, a) \/ PartOf(s, q), NEW v \in Int,
         NEW t, In(t, size), PartOf(t, a) \/ PartOf(t, q), NEW x \in Int, Apart(s, t),
         NEW new, new = Store(Store(mem, s, v), t, x)
  PROVE  /\ BzKeeps(mem, new, size, a, q)
         /\ Value(new, s) = v % Power(Base, s.n) /\ Value(new, t) = x % Power(Base, t.n)
         /\ \A y : In(y, size) /\ Apart(y, s) /\ Apart(y, t) => Value(new, y) = Value(mem, y)
<1>1. PICK mid : mid = Store(mem, s, v)
  OBVIOUS
<1>2. Memory(mid, size) /\ BzKeeps(mem, mid, size, a, q)
  BY <1>1, KeepsStore DEF BzKeeps
<1>3. new = Store(mid, t, x) /\ BzKeeps(mid, new, size, a, q)
  BY <1>1, <1>2, KeepsStore
<1>4. Value(mid, s) = v % Power(Base, s.n)
  BY <1>1, StoreValue
<1>5. Value(new, s) = Value(mid, s)
  BY <1>2, <1>3, StoreApart
<1>6. Value(new, t) = x % Power(Base, t.n)
  BY <1>2, <1>3, StoreValue
<1>7. ASSUME NEW y, In(y, size), Apart(y, s), Apart(y, t) PROVE Value(new, y) = Value(mem, y)
  <2>1. Value(mid, y) = Value(mem, y)
    BY <1>1, <1>7, StoreApart
  <2>2. Value(new, y) = Value(mid, y)
    BY <1>2, <1>3, <1>7, StoreApart
  <2>3. QED
    BY <2>1, <2>2
<1>8. QED
  BY <1>2, <1>3, <1>4, <1>5, <1>6, <1>7, KeepsTwice

LEMMA MiddleCut ==
  ASSUME NEW size, NEW s, In(s, size), NEW k \in Nat, NEW m \in Nat, k + m <= s.n
  PROVE  First(Subspan(s, k), m) = Cut(s, k, m)
<1>1. PICK l \in Nat : l = s.n - k /\ k + l <= s.n
  <2>1. s.n \in Nat
    BY SpanIs
  <2>2. s.n - k \in Nat /\ k + (s.n - k) <= s.n
    BY <2>1
  <2>3. QED
    BY <2>2
<1>2. Subspan(s, k) = Cut(s, k, l)
  BY <1>1, FirstCut
<1>3. In(Cut(s, k, l), size)
  BY <1>1, CutIs
<1>4. First(Cut(s, k, l), m) = Cut(Cut(s, k, l), 0, m)
  BY <1>3, FirstCut
<1>5. Cut(Cut(s, k, l), 0, m) = Cut(s, k + 0, m) /\ k + 0 = k
  BY CutCut
<1>6. QED
  BY <1>2, <1>4, <1>5

LEMMA TopEquals ==
  ASSUME NEW p \in Nat \ {0}, NEW u \in Nat, NEW l \in 0 .. p - 1, NEW top \in Nat,
         NEW mid \in 0 .. p - 1, mid + p * top < l + p * u, ~(top < u)
  PROVE  top = u /\ mid < l
<1>1. ASSUME u + 1 <= top PROVE FALSE
  <2>1. (u + 1) * p <= top * p
    BY <1>1, MulPos
  <2>2. QED
    BY <2>1
<1>2. top = u
  BY <1>1
<1>3. QED
  BY <1>2

(* The divisor of D_3n/2n in halves. *)
LEMMA DivisorHalves ==
  ASSUME NEW mem, NEW size, Memory(mem, size), NEW f, IsCall(f, mem, size), f.op = "3n2n"
  PROVE  \E p \in Nat \ {0}, l, u \in Nat :
           /\ p = Power(Base, f.q.n) /\ p * p = Power(Base, f.b.n) /\ l \in 0 .. p - 1
           /\ l = Value(mem, Cut(f.b, 0, f.q.n)) /\ u = Value(mem, Cut(f.b, f.q.n, f.q.n))
           /\ Value(mem, f.b) = l + p * u
           /\ Upper(f.b) = Cut(f.b, f.q.n, f.q.n) /\ Lower(f.b) = Cut(f.b, 0, f.q.n)
<1>1. PICK h \in Nat \ {0} : h = f.q.n /\ f.b.n = 2 * h
  BY CallIn
<1>2. h \in Nat /\ 2 * h = h + h
  OBVIOUS
<1>3. In(f.b, size) /\ f.b.n = h + h
  BY <1>1, <1>2, CallIn
<1>4. /\ Value(mem, f.b) = Value(mem, Cut(f.b, 0, h)) + Power(Base, h) * Value(mem, Cut(f.b, h, h))
      /\ Value(mem, Cut(f.b, 0, h)) \in Nat /\ Value(mem, Cut(f.b, 0, h)) < Power(Base, h)
      /\ Value(mem, Cut(f.b, h, h)) \in Nat /\ Power(Base, h) \in Nat \ {0}
      /\ Power(Base, h + h) = Power(Base, h) * Power(Base, h)
  BY <1>2, <1>3, WholeValue
<1>5. PICK p \in Nat \ {0}, l \in Nat, u \in Nat :
        /\ p = Power(Base, h) /\ l = Value(mem, Cut(f.b, 0, h)) /\ u = Value(mem, Cut(f.b, h, h))
        /\ l < p /\ Value(mem, f.b) = l + p * u /\ p * p = Power(Base, f.b.n)
  BY <1>3, <1>4
<1>6. Upper(f.b) = Cut(f.b, h, h) /\ Lower(f.b) = Cut(f.b, 0, h)
  BY <1>1, <1>2, <1>3, HalfQuotients
<1>7. l \in 0 .. p - 1
  BY <1>5
<1>8. QED
  BY <1>1, <1>5, <1>6, <1>7

(* The window of D_3n/2n: its lower, middle and top thirds. *)
LEMMA WindowThirds ==
  ASSUME NEW mem, NEW size, Memory(mem, size), NEW f, IsCall(f, mem, size), f.op = "3n2n",
         NEW p, p = Power(Base, f.q.n)
  PROVE  LET h == f.q.n
         IN  /\ Value(mem, Cut(f.a, 0, h)) \in 0 .. p - 1
             /\ Value(mem, Cut(f.a, h, h)) \in 0 .. p - 1
             /\ Value(mem, Cut(f.a, f.b.n, h)) \in 0 .. p - 1 /\ p \in Nat \ {0}
             /\ Value(mem, Cut(f.a, 0, f.b.n))
                  = Value(mem, Cut(f.a, 0, h)) + p * Value(mem, Cut(f.a, h, h))
             /\ Value(mem, Cut(f.a, h, f.b.n))
                  = Value(mem, Cut(f.a, h, h)) + p * Value(mem, Cut(f.a, f.b.n, h))
             /\ Value(mem, f.a)
                  = Value(mem, Cut(f.a, 0, h)) + p * Value(mem, Cut(f.a, h, f.b.n))
<1>1. PICK h \in Nat \ {0}, w \in Nat \ {0} :
        /\ h = f.q.n /\ f.b.n = w /\ h + h = w /\ f.a.n = h + w
        /\ 0 + h <= f.a.n /\ h + h <= f.a.n /\ w + h <= f.a.n
        /\ h + w <= f.a.n /\ 0 + w <= f.a.n /\ 0 + h + h <= f.a.n /\ 0 + h = h
  BY WindowSizes
<1>2. h \in Nat /\ w \in Nat /\ In(f.a, size) /\ p = Power(Base, h) /\ h + h + h <= f.a.n
  BY <1>1, CallIn
<1>3. /\ Value(mem, Cut(f.a, 0, h)) \in Nat /\ Value(mem, Cut(f.a, 0, h)) < p /\ p \in Nat \ {0}
      /\ Value(mem, Cut(f.a, h, h)) \in Nat /\ Value(mem, Cut(f.a, h, h)) < p
      /\ Value(mem, Cut(f.a, w, h)) \in Nat /\ Value(mem, Cut(f.a, w, h)) < p
  <2>1. 0 + h <= f.a.n /\ h + h <= f.a.n /\ w + h <= f.a.n
    BY <1>1
  <2>2. QED
    BY <1>2, <2>1, CutType
<1>4. /\ Value(mem, Cut(f.a, 0, h)) \in 0 .. p - 1 /\ Value(mem, Cut(f.a, h, h)) \in 0 .. p - 1
      /\ Value(mem, Cut(f.a, w, h)) \in 0 .. p - 1
  BY <1>3
<1>5. Value(mem, Cut(f.a, 0, h + h))
        = Value(mem, Cut(f.a, 0, h)) + Power(Base, h) * Value(mem, Cut(f.a, 0 + h, h))
  <2>1. 0 + h + h <= f.a.n
    BY <1>1
  <2>2. QED
    BY <1>2, <2>1, CutValue
<1>6. Value(mem, Cut(f.a, h, h + h))
        = Value(mem, Cut(f.a, h, h)) + Power(Base, h) * Value(mem, Cut(f.a, h + h, h))
  BY <1>2, CutValue
<1>7. Value(mem, f.a) = Value(mem, Cut(f.a, 0, h)) + Power(Base, h) * Value(mem, Cut(f.a, h, w))
  <2>1. f.a.n = h + w
    BY <1>1
  <2>2. QED
    BY <1>2, <2>1, WholeValue
<1>8. QED
  BY <1>1, <1>2, <1>3, <1>4, <1>5, <1>6, <1>7

(* The same three as spans, apart from one another. *)
LEMMA ThirdSpans ==
  ASSUME NEW mem, NEW size, NEW f, IsCall(f, mem, size), f.op = "3n2n"
  PROVE  LET h == f.q.n
         IN  /\ In(Cut(f.a, 0, h), size) /\ In(Cut(f.a, h, h), size) /\ In(Cut(f.a, f.b.n, h), size)
             /\ In(Cut(f.a, 0, f.b.n), size) /\ Cut(f.a, 0, f.b.n).n = f.b.n
             /\ Cut(f.a, h, h).n = h /\ Cut(f.a, f.b.n, h).n = h
             /\ Cut(f.a, 0, h).area = "w" /\ Cut(f.a, h, h).area = "w"
             /\ Cut(f.a, f.b.n, h).area = "w" /\ Cut(f.a, 0, f.b.n).area = "w"
             /\ PartOf(Cut(f.a, h, h), f.a) /\ PartOf(Cut(f.a, f.b.n, h), f.a)
             /\ PartOf(Cut(f.a, 0, f.b.n), f.a)
             /\ Apart(Cut(f.a, 0, h), Cut(f.a, h, h)) /\ Apart(Cut(f.a, 0, h), Cut(f.a, f.b.n, h))
             /\ Apart(Cut(f.a, h, h), Cut(f.a, f.b.n, h))
             /\ Apart(Cut(f.a, f.b.n, h), Cut(f.a, 0, f.b.n))
             /\ Apart(f.q, f.a)
             /\ First(Subspan(f.a, h), h) = Cut(f.a, h, h)
             /\ Subspan(f.a, 2 * h) = Cut(f.a, f.b.n, h)
             /\ First(f.a, 2 * h) = Cut(f.a, 0, f.b.n)
<1>1. PICK h \in Nat \ {0}, w \in Nat \ {0} :
        /\ h = f.q.n /\ f.b.n = w /\ w = 2 * h /\ f.a.n - w = h
        /\ 0 + h <= f.a.n /\ h + h <= f.a.n /\ w + h <= f.a.n /\ 0 + w <= f.a.n
  BY WindowSizes
<1>2. /\ h \in Nat /\ w \in Nat /\ In(f.a, size) /\ f.a.area = "w" /\ f.q.area = "q"
  BY <1>1, CallIn
<1>3. 0 + h <= h /\ 0 + h <= w /\ h + h <= w /\ 0 + w <= w
  BY <1>1
<1>4. /\ In(Cut(f.a, 0, h), size) /\ In(Cut(f.a, h, h), size) /\ In(Cut(f.a, w, h), size)
      /\ In(Cut(f.a, 0, w), size) /\ Cut(f.a, h, h).n = h /\ Cut(f.a, w, h).n = h
      /\ Cut(f.a, 0, w).n = w
      /\ Cut(f.a, 0, h).area = "w" /\ Cut(f.a, h, h).area = "w" /\ Cut(f.a, w, h).area = "w"
      /\ Cut(f.a, 0, w).area = "w"
      /\ PartOf(Cut(f.a, h, h), f.a) /\ PartOf(Cut(f.a, w, h), f.a) /\ PartOf(Cut(f.a, 0, w), f.a)
  <2>1. 0 + h <= f.a.n /\ h + h <= f.a.n /\ w + h <= f.a.n /\ 0 + w <= f.a.n
    BY <1>1
  <2>2. QED
    BY <1>2, <2>1, CutIs
<1>5. Apart(Cut(f.a, 0, h), Cut(f.a, h, h))
  BY <1>2, <1>3, CutsApart
<1>6. Apart(Cut(f.a, 0, h), Cut(f.a, w, h))
  BY <1>2, <1>3, CutsApart
<1>7. Apart(Cut(f.a, h, h), Cut(f.a, w, h))
  BY <1>2, <1>3, CutsApart
<1>8. Apart(Cut(f.a, w, h), Cut(f.a, 0, w))
  BY <1>2, <1>3, CutsApart
<1>9. Apart(f.q, f.a)
  BY <1>2 DEF Apart
<1>10. First(Subspan(f.a, h), h) = Cut(f.a, h, h)
  <2>1. h + h <= f.a.n
    BY <1>1
  <2>2. QED
    BY <1>2, <2>1, MiddleCut
<1>11. Subspan(f.a, w) = Cut(f.a, w, h) /\ First(f.a, w) = Cut(f.a, 0, w)
  <2>1. f.a.n - w = h
    BY <1>1
  <2>2. QED
    BY <1>2, <2>1, FirstCut
<1>12. QED
  BY <1>1, <1>4, <1>5, <1>6, <1>7, <1>8, <1>9, <1>10, <1>11

LEMMA LowerThirds ==
  ASSUME NEW mem, NEW size, Memory(mem, size), NEW f, IsCall(f, mem, size), f.op = "3n2n"
  PROVE  Value(mem, Cut(f.a, 0, f.b.n))
           = Value(mem, Cut(f.a, 0, f.q.n))
               + Power(Base, f.q.n) * Value(mem, Cut(f.a, f.q.n, f.q.n))
  BY WindowThirds

LEMMA DivisorSpans ==
  ASSUME NEW mem, NEW size, NEW f, IsCall(f, mem, size), f.op = "3n2n"
  PROVE  /\ In(Cut(f.b, 0, f.q.n), size) /\ Cut(f.b, 0, f.q.n).area = "b"
         /\ In(Cut(f.b, f.q.n, f.q.n), size) /\ Cut(f.b, f.q.n, f.q.n).area = "b"
<1>1. PICK h \in Nat \ {0} : h = f.q.n /\ f.b.n = 2 * h
  BY CallIn
<1>2. 0 + h <= f.b.n /\ h + h <= f.b.n /\ h \in Nat
  BY <1>1
<1>3. In(f.b, size) /\ f.b.area = "b"
  BY CallIn
<1>4. In(Cut(f.b, 0, h), size) /\ Cut(f.b, 0, h).area = f.b.area
  BY <1>2, <1>3, CutIs
<1>5. In(Cut(f.b, h, h), size) /\ Cut(f.b, h, h).area = f.b.area
  BY <1>2, <1>3, CutIs
<1>6. QED
  BY <1>1, <1>3, <1>4, <1>5

(* The numbers in a window of which the top third is zero, and in the divisor. *)
Halves3(f, mem, p, l, u, low, mid) ==
  /\ p = Power(Base, f.q.n)
  /\ l = Value(mem, Cut(f.b, 0, f.q.n)) /\ u = Value(mem, Cut(f.b, f.q.n, f.q.n))
  /\ low = Value(mem, Cut(f.a, 0, f.q.n)) /\ mid = Value(mem, Cut(f.a, f.q.n, f.q.n))
  /\ Value(mem, Cut(f.a, f.b.n, f.q.n)) = 0

(* and what the estimate q leaves of the window, with c the carry. *)
LeavesOf(v, q, x, p, l, u, low, mid, c) ==
  /\ c \in Nat /\ x \in Nat /\ x = low + p * (p * c + mid)
  /\ v = (q * u) * p + x /\ x - q * l < l + p * u

LEMMA EstimatedIs ==
  ASSUME NEW mem, NEW size, Memory(mem, size), NEW f, IsCall(f, mem, size), f.op = "3n2n",
         NEW p, NEW l, NEW u, NEW low, NEW mid, Halves3(f, mem, p, l, u, low, mid),
         NEW x, LeavesOf(f.value, Value(mem, f.q), x, p, l, u, low, mid, f.carry)
  PROVE  HasEstimate(f, mem)
<1>1. PICK b \in Nat : b = l + p * u /\ Value(mem, f.b) = b /\ p * p = Power(Base, f.b.n)
                       /\ p \in Nat
  <2>1. PICK y \in Nat \ {0}, i \in Nat, j \in Nat :
          /\ y = Power(Base, f.q.n) /\ y * y = Power(Base, f.b.n)
          /\ i = Value(mem, Cut(f.b, 0, f.q.n)) /\ j = Value(mem, Cut(f.b, f.q.n, f.q.n))
          /\ Value(mem, f.b) = i + y * j
    BY DivisorHalves
  <2>2. y = p /\ i = l /\ j = u
    BY <2>1 DEF Halves3
  <2>3. QED
    BY <2>1, <2>2
<1>2. low \in Nat /\ mid \in Nat
  <2>1. Value(mem, Cut(f.a, 0, f.q.n)) \in Nat /\ Value(mem, Cut(f.a, f.q.n, f.q.n)) \in Nat
    <3>1. PICK y : y = Power(Base, f.q.n)
      OBVIOUS
    <3>2. /\ Value(mem, Cut(f.a, 0, f.q.n)) \in 0 .. y - 1
          /\ Value(mem, Cut(f.a, f.q.n, f.q.n)) \in 0 .. y - 1
      BY <3>1, WindowThirds
    <3>3. QED
      BY <3>2
  <2>2. QED
    BY <2>1 DEF Halves3
<1>3. Value(mem, Cut(f.a, 0, f.b.n)) = low + p * mid
  BY LowerThirds DEF Halves3
<1>4. PICK c : c = f.carry /\ c \in Nat /\ x = low + p * (p * c + mid)
  BY DEF LeavesOf
<1>5. Left(f, mem) = x
  <2>1. Left(f, mem) = c * (p * p) + (low + p * mid)
    BY <1>1, <1>3, <1>4 DEF Left
  <2>2. low + p * (p * c + mid) = c * (p * p) + (low + p * mid)
    BY <1>1, <1>2, <1>4
  <2>3. QED
    BY <1>4, <2>1, <2>2
<1>6. QED
  BY <1>1, <1>4, <1>5 DEF HasEstimate, Halves3, LeavesOf

(* The top of the window is that of the divisor. *)
LEMMA LargestMemory ==
  ASSUME NEW mem, NEW size, Memory(mem, size),
         NEW f, IsCall(f, mem, size), Entered(f, mem), f.op = "3n2n",
         NEW p, p = Power(Base, f.q.n), NEW mid, mid = First(Subspan(f.a, f.q.n), f.q.n),
         NEW top, top = Subspan(f.a, 2 * f.q.n), NEW u, u = Value(mem, Upper(f.b)),
         ~(Value(mem, top) < u), NEW sum, sum = Value(mem, mid) + u,
         NEW new, new = Fill(Store(Store(mem, f.q, p - 1), mid, sum), top)
  PROVE  /\ BzKeeps(mem, new, size, f.a, f.q) /\ Value(mem, top) = u
         /\ \E l, low, s, x : /\ Halves3(f, new, p, l, u, low, s)
                             /\ LeavesOf(f.value, Value(new, f.q), x, p, l, u, low, s, sum \div p)
<1>1. Memory(mem, size) /\ IsCall(f, mem, size)
  OBVIOUS
<1>2. PICK h \in Nat, w \in Nat : h = f.q.n /\ w = f.b.n
  BY <1>1, CallIn
<1>3. PICK l \in Nat :
        /\ p \in Nat \ {0} /\ p * p = Power(Base, w) /\ l \in 0 .. p - 1 /\ u \in Nat
        /\ l = Value(mem, Cut(f.b, 0, h)) /\ u = Value(mem, Cut(f.b, h, h))
        /\ Value(mem, f.b) = l + p * u
  BY <1>1, <1>2, DivisorHalves
<1>4. /\ mid = Cut(f.a, h, h) /\ top = Cut(f.a, w, h) /\ In(mid, size) /\ In(top, size)
      /\ mid.n = h /\ top.n = h /\ PartOf(mid, f.a) /\ PartOf(top, f.a) /\ Apart(mid, top)
      /\ In(Cut(f.a, 0, h), size) /\ Apart(Cut(f.a, 0, h), mid) /\ Apart(Cut(f.a, 0, h), top)
      /\ mid.area = "w" /\ top.area = "w" /\ Cut(f.a, 0, h).area = "w"
  BY <1>1, <1>2, ThirdSpans
<1>5. PICK low \in 0 .. p - 1, m \in 0 .. p - 1, t \in 0 .. p - 1 :
        /\ low = Value(mem, Cut(f.a, 0, h)) /\ m = Value(mem, mid) /\ t = Value(mem, top)
        /\ Value(mem, Cut(f.a, h, w)) = m + p * t
        /\ Value(mem, f.a) = low + p * Value(mem, Cut(f.a, h, w))
  <2>1. /\ Value(mem, Cut(f.a, 0, h)) \in 0 .. p - 1 /\ Value(mem, Cut(f.a, h, h)) \in 0 .. p - 1
        /\ Value(mem, Cut(f.a, w, h)) \in 0 .. p - 1
        /\ Value(mem, Cut(f.a, h, w))
             = Value(mem, Cut(f.a, h, h)) + p * Value(mem, Cut(f.a, w, h))
        /\ Value(mem, f.a) = Value(mem, Cut(f.a, 0, h)) + p * Value(mem, Cut(f.a, h, w))
    BY <1>1, <1>2, WindowThirds
  <2>2. QED
    BY <1>4, <2>1
<1>6. f.value = low + p * (m + p * t) /\ m + p * t < l + p * u
  BY <1>2, <1>3, <1>5 DEF Entered
<1>7. t = u /\ m < l
  <2>1. ~(t < u)
    BY <1>5
  <2>2. QED
    BY <1>3, <1>6, <2>1, TopEquals
<1>8. In(f.a, size) /\ In(f.b, size) /\ In(f.q, size) /\ f.a.area = "w" /\ f.q.area = "q"
      /\ f.b.area = "b"
  BY <1>1, CallIn
<1>9. sum \in Nat /\ sum = m + u /\ p - 1 \in Nat /\ sum \in Int /\ p - 1 \in Int /\ p - 1 < p
  BY <1>3, <1>5
<1>10. PICK c \in Nat, s \in 0 .. p - 1 : c = sum \div p /\ s = sum % p /\ sum = p * c + s
  <2>1. sum % p \in 0 .. p - 1 /\ sum = p * (sum \div p) + (sum % p)
    BY <1>3, <1>9, DivMod
  <2>2. sum \div p \in Nat
    BY <1>3, <1>9, DivNat
  <2>3. QED
    BY <2>1, <2>2
<1>11. PICK one : one = Store(Store(mem, f.q, p - 1), mid, sum)
  OBVIOUS
<1>12. /\ BzKeeps(mem, one, size, f.a, f.q)
       /\ Value(one, f.q) = (p - 1) % Power(Base, f.q.n)
       /\ Value(one, mid) = sum % Power(Base, mid.n)
       /\ \A y : In(y, size) /\ Apart(y, f.q) /\ Apart(y, mid) => Value(one, y) = Value(mem, y)
  <2>1. Apart(f.q, mid) /\ PartOf(f.q, f.q)
    BY <1>4, <1>8, PartItself DEF Apart
  <2>2. QED
    BY <1>1, <1>4, <1>8, <1>9, <1>11, <2>1, StoredTwice
<1>13. /\ Value(one, f.q) = p - 1 /\ Value(one, mid) = s
       /\ Value(one, Cut(f.a, 0, h)) = low
  <2>1. (p - 1) % p = p - 1
    <3>1. p - 1 \in 0 .. p - 1
      BY <1>3
    <3>2. QED
      BY <1>3, <3>1, DivSmall
  <2>2. Apart(Cut(f.a, 0, h), f.q)
    BY <1>4, <1>8 DEF Apart
  <2>3. QED
    BY <1>2, <1>4, <1>5, <1>10, <1>12, <2>1, <2>2
<1>14. new = Store(one, top, 0) /\ Memory(one, size)
  BY <1>11, <1>12 DEF Fill, BzKeeps
<1>15. BzKeeps(mem, new, size, f.a, f.q)
  <2>1. BzKeeps(one, new, size, f.a, f.q)
    BY <1>4, <1>8, <1>14, KeepsStore
  <2>2. QED
    BY <1>12, <2>1, KeepsTwice
<1>16. /\ Value(new, f.q) = p - 1 /\ Value(new, mid) = s /\ Value(new, Cut(f.a, 0, h)) = low
       /\ Value(new, top) = 0
  <2>1. Apart(f.q, top)
    BY <1>4, <1>8 DEF Apart
  <2>2. Value(new, f.q) = p - 1
    BY <1>8, <1>4, <1>13, <1>14, <2>1, StoreApart
  <2>3. Value(new, mid) = s
    BY <1>4, <1>13, <1>14, StoreApart
  <2>4. Value(new, Cut(f.a, 0, h)) = low
    BY <1>4, <1>13, <1>14, StoreApart
  <2>5. 0 \in Nat /\ 0 < Power(Base, top.n)
    BY <1>2, <1>3, <1>4
  <2>6. Value(new, top) = 0
    BY <1>4, <1>14, <2>5, StoreFits
  <2>7. QED
    BY <2>2, <2>3, <2>4, <2>6
<1>17. Value(new, Cut(f.b, 0, h)) = l /\ Value(new, Cut(f.b, h, h)) = u
  <2>1. In(Cut(f.b, 0, h), size) /\ In(Cut(f.b, h, h), size)
        /\ Cut(f.b, 0, h).area = "b" /\ Cut(f.b, h, h).area = "b"
    BY <1>1, <1>2, DivisorSpans
  <2>2. QED
    BY <1>3, <1>8, <1>15, <2>1, DivisorStays
<1>18. PICK q \in Nat, x \in Nat : q = p - 1 /\ x = low + p * (p * c + s)
  BY <1>3, <1>10
<1>19. f.value = (q * u) * p + x /\ x - q * l < l + p * u
  <2>1. /\ (u * p + m) * p + low = (p - 1) * u * p + ((m + u) * p + low)
        /\ ((m + u) * p + low) - (p - 1) * l < l + p * u
    BY <1>3, <1>7, LargestLeaves
  <2>2. f.value = (u * p + m) * p + low
    BY <1>3, <1>6, <1>7
  <2>3. (m + u) * p + low = x
    BY <1>3, <1>9, <1>10, <1>18
  <2>4. QED
    BY <1>18, <2>1, <2>2, <2>3
<1>20. Halves3(f, new, p, l, u, low, s)
  BY <1>2, <1>4, <1>16, <1>17 DEF Halves3
<1>21. LeavesOf(f.value, Value(new, f.q), x, p, l, u, low, s, sum \div p)
  BY <1>10, <1>16, <1>18, <1>19 DEF LeavesOf
<1>22. Value(mem, top) = u
  BY <1>5, <1>7
<1>23. QED
  BY <1>15, <1>20, <1>21, <1>22

(* The same call, further on. *)
Becomes(g, f, pc, carry, corrections) ==
  /\ CallFields(g) /\ SameTask(g, f) /\ g.pc = pc /\ g.carry = carry
  /\ g.corrections = corrections /\ g.sound = TRUE

LEMMA LargestStep ==
  ASSUME NEW mem, NEW plan, Memory(mem, BzSize(plan)),
         NEW f, IsCall(f, mem, BzSize(plan)), f.pc = "enter", f.op = "3n2n",
         NEW new, BzKeeps(mem, new, BzSize(plan), f.a, f.q),
         NEW p, NEW l, NEW u, NEW low, NEW s, NEW x, NEW c, Halves3(f, new, p, l, u, low, s),
         LeavesOf(f.value, Value(new, f.q), x, p, l, u, low, s, c),
         NEW g, Becomes(g, f, "product", c, f.corrections)
  PROVE  IsCall(g, new, BzSize(plan)) /\ Stands(g, new, plan)
<1>1. PICK size : size = BzSize(plan) /\ Memory(mem, size) /\ IsCall(f, mem, size)
                  /\ Memory(new, size)
  BY DEF BzKeeps
<1>2. /\ g.op = "3n2n" /\ g.pc = "product" /\ g.a = f.a /\ g.b = f.b /\ g.q = f.q
      /\ g.value = f.value /\ g.carry = c /\ g.corrections = 0 /\ g.sound = TRUE /\ CallFields(g)
  <2>1. f.corrections = 0
    BY DEF IsCall
  <2>2. QED
    BY <2>1 DEF Becomes, SameTask
<1>3. IsCall(f, new, size)
  <2>1. f.a.area = "w" /\ f.q.area = "q"
    BY <1>1, CallIn
  <2>2. QED
    BY <1>1, <2>1, CallStays
<1>4. c \in Nat
  BY DEF LeavesOf
<1>5. IsCall(g, new, size)
  BY <1>2, <1>3, <1>4 DEF IsCall
<1>6. Halves3(g, new, p, l, u, low, s)
  BY <1>2 DEF Halves3
<1>7. LeavesOf(g.value, Value(new, g.q), x, p, l, u, low, s, g.carry)
  BY <1>2, Zenon
<1>8. HasEstimate(g, new)
  BY <1>1, <1>2, <1>5, <1>6, <1>7, EstimatedIs
<1>9. QED
  BY <1>1, <1>2, <1>5, <1>8 DEF Stands

(* What is left in the window once the whole divisor was taken off q times, with net above the
   remainder; a correction adds the divisor back. *)
TakenOff(f, mem, net, corrections) ==
  LET left == net * Power(Base, f.b.n) + Value(mem, Cut(f.a, 0, f.b.n))
  IN  /\ f.value = Value(mem, f.q) * Value(mem, f.b) + left
      /\ left < Value(mem, f.b) /\ -((2 - corrections) * Value(mem, f.b)) <= left
      /\ net \in Int /\ net <= 0 /\ corrections \in 0 .. 2
      /\ Value(mem, Cut(f.a, f.b.n, f.q.n)) = 0

LEMMA TakenStands ==
  ASSUME NEW mem, NEW plan, Memory(mem, BzSize(plan)),
         NEW f, IsCall(f, mem, BzSize(plan)), f.op = "3n2n",
         NEW net, NEW k, TakenOff(f, mem, net, k),
         NEW g, Becomes(g, f, IF net < 0 THEN "correct" ELSE "return", net, k)
  PROVE  IsCall(g, mem, BzSize(plan)) /\ Stands(g, mem, plan)
<1>1. PICK size : size = BzSize(plan) /\ Memory(mem, size) /\ IsCall(f, mem, size)
  OBVIOUS
<1>2. PICK pp \in Nat \ {0}, b \in Nat \ {0} : pp = Power(Base, f.b.n) /\ b = Value(mem, f.b)
  BY <1>1, DivisorType
<1>3. PICK r \in Nat : r = Value(mem, Cut(f.a, 0, f.b.n)) /\ r < pp
  <2>1. In(Cut(f.a, 0, f.b.n), size) /\ Cut(f.a, 0, f.b.n).n = f.b.n
    BY <1>1, ThirdSpans
  <2>2. Value(mem, Cut(f.a, 0, f.b.n)) \in Nat
        /\ Value(mem, Cut(f.a, 0, f.b.n)) < Power(Base, f.b.n)
    BY <1>1, <2>1, ValueType
  <2>3. QED
    BY <1>2, <2>2
<1>4. PICK left \in Int :
        /\ left = net * pp + r /\ f.value = Value(mem, f.q) * b + left /\ left < b
        /\ -((2 - k) * b) <= left /\ net \in Int /\ net <= 0 /\ k \in 0 .. 2
        /\ Value(mem, Cut(f.a, f.b.n, f.q.n)) = 0
  <2>1. net * pp + r \in Int
    BY <1>2, <1>3 DEF TakenOff
  <2>2. QED
    BY <1>2, <1>3, <2>1 DEF TakenOff
<1>5. /\ g.op = "3n2n" /\ g.a = f.a /\ g.b = f.b /\ g.q = f.q /\ g.value = f.value
      /\ g.carry = net /\ g.corrections = k /\ g.sound = TRUE /\ CallFields(g)
      /\ g.pc = IF net < 0 THEN "correct" ELSE "return"
  BY DEF Becomes, SameTask
<1>6. IsCall(g, mem, size)
  BY <1>1, <1>4, <1>5 DEF IsCall
<1>7. CASE net < 0
  <2>1. left < 0
    <3>1. (net + 1) * pp <= 0 * pp
      <4>1. net + 1 \in Int /\ net + 1 <= 0
        BY <1>4, <1>7
      <4>2. QED
        BY <1>2, <4>1, MulPos
    <3>2. (net + 1) * pp = net * pp + pp /\ net * pp \in Int
      BY <1>2, <1>4
    <3>3. QED
      BY <1>2, <1>3, <1>4, <3>1, <3>2
  <2>2. k \in 0 .. 1
    <3>1. ASSUME k = 2 PROVE FALSE
      <4>1. (2 - k) * b = 0
        BY <3>1, <1>2
      <4>2. QED
        BY <1>4, <2>1, <4>1
    <3>2. QED
      BY <1>4, <3>1
  <2>3. Left(g, mem) = left
    BY <1>2, <1>3, <1>4, <1>5 DEF Left
  <2>4. Corrected(g, mem)
    BY <1>2, <1>4, <1>5, <1>7, <2>2, <2>3 DEF Corrected
  <2>5. g.pc = "correct"
    BY <1>5, <1>7
  <2>6. QED
    BY <1>1, <1>5, <1>6, <2>4, <2>5 DEF Stands
<1>8. CASE ~(net < 0)
  <2>1. net = 0
    BY <1>4, <1>8
  <2>2. left = r
    BY <1>2, <1>3, <1>4, <2>1
  <2>3. Divided(g, mem)
    BY <1>2, <1>3, <1>4, <1>5, <2>2 DEF Divided
  <2>4. g.pc = "return" /\ g.op # "divappr"
    BY <1>5, <1>8
  <2>5. QED
    BY <1>1, <1>6, <2>3, <2>4 DEF Stands
<1>9. QED
  BY <1>7, <1>8

(* The product with the lower half of the divisor is taken off. *)
LEMMA ProductMemory ==
  ASSUME NEW mem, NEW size, Memory(mem, size),
         NEW f, IsCall(f, mem, size), HasEstimate(f, mem), f.op = "3n2n",
         NEW w, w = 2 * f.q.n, NEW rest, rest = First(f.a, w), NEW difference,
         difference = Value(mem, rest) - Value(mem, f.q) * Value(mem, Lower(f.b)),
         NEW new, new = Store(mem, rest, difference % Power(Base, w))
  PROVE  BzKeeps(mem, new, size, f.a, f.q) /\ TakenOff(f, new, Net(f.carry, difference, w), 0)
<1>1. PICK h, pp : h = f.q.n /\ pp = Power(Base, w) /\ w = f.b.n
  BY CallIn
<1>2. PICK p \in Nat \ {0}, l \in Nat, u \in Nat, b \in Nat :
        /\ p = Power(Base, h) /\ p * p = pp /\ l \in 0 .. p - 1
        /\ l = Value(mem, Lower(f.b)) /\ l = Value(mem, Cut(f.b, 0, h))
        /\ u = Value(mem, Cut(f.b, h, h)) /\ Value(mem, f.b) = b /\ b = l + p * u
        /\ pp \in Nat \ {0} /\ pp <= 2 * b
  <2>1. PICK p \in Nat \ {0}, l \in Nat, u \in Nat :
          /\ p = Power(Base, h) /\ p * p = pp /\ l \in 0 .. p - 1
          /\ l = Value(mem, Lower(f.b)) /\ l = Value(mem, Cut(f.b, 0, h))
          /\ u = Value(mem, Cut(f.b, h, h)) /\ Value(mem, f.b) = l + p * u
    BY <1>1, DivisorHalves
  <2>2. pp \in Nat \ {0} /\ pp <= 2 * Value(mem, f.b)
    BY <1>1, DivisorType
  <2>3. l + p * u \in Nat
    OBVIOUS
  <2>4. QED
    BY <2>1, <2>2, <2>3
<1>3. /\ rest = Cut(f.a, 0, w) /\ In(rest, size) /\ rest.area = "w" /\ rest.n = w
      /\ PartOf(rest, f.a) /\ In(Cut(f.a, w, h), size) /\ Apart(Cut(f.a, w, h), rest)
  BY <1>1, ThirdSpans
<1>4. In(f.a, size) /\ In(f.b, size) /\ In(f.q, size) /\ f.a.area = "w" /\ f.q.area = "q"
      /\ f.b.area = "b"
  BY CallIn
<1>5. PICK q \in 0 .. p - 1, x \in Nat, c \in Nat :
        /\ q = Value(mem, f.q) /\ x = Value(mem, rest) /\ c = f.carry
        /\ f.value = (q * u) * p + (c * pp + x) /\ (c * pp + x) - q * l < b
        /\ Value(mem, Cut(f.a, w, h)) = 0
  <2>1. Value(mem, f.q) \in Nat /\ Value(mem, f.q) < Power(Base, f.q.n)
    BY <1>4, ValueType
  <2>2. PICK q \in 0 .. p - 1 : q = Value(mem, f.q)
    BY <1>1, <1>2, <2>1
  <2>3. Value(mem, rest) \in Nat
    BY <1>3, ValueType
  <2>4. f.carry \in Nat /\ Left(f, mem) = f.carry * pp + Value(mem, rest)
    BY <1>1, <1>3 DEF HasEstimate, Left
  <2>5. /\ f.value = (q * u) * p + Left(f, mem) /\ Left(f, mem) - q * l < b
        /\ Value(mem, Cut(f.a, w, h)) = 0
    BY <1>1, <1>2, <2>2 DEF HasEstimate
  <2>6. QED
    BY <2>2, <2>3, <2>4, <2>5
<1>6. difference = x - q * l /\ difference \in Int
  <2>1. x - q * l \in Int
    BY <1>2, <1>5
  <2>2. QED
    BY <1>2, <1>5, <2>1
<1>7. PICK d \in Int, r \in 0 .. pp - 1 :
        d = difference \div pp /\ r = difference % pp /\ difference = pp * d + r
  <2>1. difference \div pp \in Int /\ difference % pp \in 0 .. pp - 1
        /\ difference = pp * (difference \div pp) + (difference % pp)
    BY <1>2, <1>6, DivMod
  <2>2. QED
    BY <2>1
<1>8. new = Store(mem, rest, r) /\ r \in Nat /\ r \in Int /\ r < Power(Base, rest.n)
  <2>1. r \in Nat /\ r \in Int /\ r < pp
    BY <1>2, <1>7
  <2>2. pp = Power(Base, rest.n) /\ new = Store(mem, rest, r)
    BY <1>1, <1>3, <1>7
  <2>3. QED
    BY <2>1, <2>2
<1>9. BzKeeps(mem, new, size, f.a, f.q)
  BY <1>3, <1>4, <1>8, KeepsStore
<1>10. Value(new, rest) = r
  BY <1>3, <1>8, StoreFits
<1>11. Value(new, f.q) = q /\ Value(new, Cut(f.a, w, h)) = 0 /\ Value(new, f.b) = b
  <2>1. Apart(f.q, rest)
    BY <1>3, <1>4 DEF Apart
  <2>2. Value(new, f.q) = q
    BY <1>3, <1>4, <1>5, <1>8, <2>1, StoreApart
  <2>3. Value(new, Cut(f.a, w, h)) = 0
    BY <1>3, <1>5, <1>8, StoreApart
  <2>4. Value(new, f.b) = b
    BY <1>2, <1>4, <1>9, DivisorStays
  <2>5. QED
    BY <2>2, <2>3, <2>4
<1>12. PICK net \in Int, left \in Int :
         net = c + d /\ left = net * pp + r /\ left = (c * pp + x) - q * l
  <2>1. c + d \in Int /\ (c + d) * pp + r \in Int
    BY <1>2
  <2>2. (c + d) * pp + r = c * pp + (pp * d + r)
    BY <1>2
  <2>3. (c + d) * pp + r = (c * pp + x) - q * l
    <3>1. pp * d + r = x - q * l
      BY <1>6, <1>7
    <3>2. PICK i \in Int, j \in Int, k \in Int : i = c * pp /\ j = q * l /\ k = pp * d + r
      BY <1>2
    <3>3. i + k = (i + x) - j
      BY <3>1, <3>2
    <3>4. QED
      BY <2>2, <3>2, <3>3
  <2>4. QED
    BY <2>1, <2>3
<1>13. left < b /\ -(2 * b) <= left
  <2>1. q * l < 2 * b
    BY <1>2, TakenBelow
  <2>2. c * pp \in Nat /\ q * l \in Nat
    BY <1>2
  <2>3. QED
    BY <1>2, <1>5, <1>12, <2>1, <2>2
<1>14. f.value = q * b + left
  <2>1. q * b = (q * u) * p + q * l
    BY <1>2
  <2>2. (q * u) * p \in Nat /\ q * l \in Nat /\ c * pp + x \in Nat
    BY <1>2
  <2>3. PICK i \in Nat, j \in Nat, k \in Nat : i = (q * u) * p /\ j = q * l /\ k = c * pp + x
    BY <2>2
  <2>4. f.value = i + k /\ left = k - j /\ q * b = i + j
    BY <1>5, <1>12, <2>1, <2>3
  <2>5. i + k = (i + j) + (k - j)
    OBVIOUS
  <2>6. QED
    BY <2>4, <2>5
<1>15. net <= 0
  <2>1. ASSUME 1 <= net PROVE FALSE
    <3>1. 1 * pp <= net * pp
      BY <1>2, <2>1, MulPos
    <3>2. b < pp
      BY <1>1, <1>2, DivisorType
    <3>3. net * pp \in Int
      BY <1>2
    <3>4. QED
      BY <1>2, <1>12, <1>13, <3>1, <3>2, <3>3
  <2>2. QED
    BY <2>1
<1>16. Net(f.carry, difference, w) = net
  BY <1>1, <1>5, <1>7, <1>12 DEF Net
<1>17. TakenOff(f, new, net, 0)
  <2>1. left = net * Power(Base, f.b.n) + Value(new, Cut(f.a, 0, f.b.n))
    BY <1>1, <1>3, <1>10, <1>12
  <2>2. f.value = Value(new, f.q) * Value(new, f.b) + left
    BY <1>11, <1>14
  <2>3. left < Value(new, f.b) /\ -((2 - 0) * Value(new, f.b)) <= left
    BY <1>11, <1>13
  <2>4. Value(new, Cut(f.a, f.b.n, f.q.n)) = 0
    BY <1>1, <1>11
  <2>5. QED
    BY <1>15, <2>1, <2>2, <2>3, <2>4 DEF TakenOff
<1>18. QED
  BY <1>9, <1>16, <1>17

(* The limbs above a number are the sign of the whole. *)
LEMMA NotAbove ==
  ASSUME NEW p \in Nat \ {0}, NEW c \in Int, NEW r \in Nat
  PROVE  /\ c * p + r < p => c <= 0
         /\ c < 0 /\ r < p => c * p + r < 0
<1>1. PICK x \in Int : x = c * p
  OBVIOUS
<1>2. ASSUME 1 <= c PROVE p <= x
  <2>1. 1 * p <= c * p
    BY <1>2, MulPos
  <2>2. QED
    BY <1>1, <2>1
<1>3. ASSUME c < 0 PROVE x + p <= 0
  <2>1. c + 1 \in Int /\ c + 1 <= 0
    BY <1>3
  <2>2. (c + 1) * p <= 0 * p
    BY <2>1, MulPos
  <2>3. (c + 1) * p = c * p + p
    OBVIOUS
  <2>4. QED
    BY <1>1, <2>2, <2>3
<1>4. QED
  BY <1>1, <1>2, <1>3

(* The divisor is added back once. *)
LEMMA CorrectMemory ==
  ASSUME NEW mem, NEW size, Memory(mem, size),
         NEW f, IsCall(f, mem, size), Corrected(f, mem), f.op = "3n2n",
         NEW w, w = 2 * f.q.n, NEW rest, rest = First(f.a, w),
         NEW sum, sum = Value(mem, rest) + Value(mem, f.b), NEW q, q = Value(mem, f.q),
         NEW new, new = Store(Store(mem, rest, sum), f.q, (q - 1) % Power(Base, f.q.n))
  PROVE  /\ BzKeeps(mem, new, size, f.a, f.q) /\ q \in Nat /\ q > 0
         /\ TakenOff(f, new, f.carry + sum \div Power(Base, w), f.corrections + 1)
<1>1. PICK h, pp : h = f.q.n /\ pp = Power(Base, w) /\ w = f.b.n
  BY CallIn
<1>2. PICK p \in Nat \ {0}, b \in Nat \ {0} :
        p = Power(Base, h) /\ pp \in Nat \ {0} /\ b = Value(mem, f.b) /\ b < pp
  BY <1>1, DivisorType
<1>3. /\ rest = Cut(f.a, 0, w) /\ In(rest, size) /\ rest.area = "w" /\ rest.n = w
      /\ PartOf(rest, f.a) /\ In(Cut(f.a, w, h), size) /\ Cut(f.a, w, h).area = "w"
      /\ Apart(Cut(f.a, w, h), rest)
  BY <1>1, ThirdSpans
<1>4. In(f.a, size) /\ In(f.b, size) /\ In(f.q, size) /\ f.a.area = "w" /\ f.q.area = "q"
      /\ f.b.area = "b"
  BY CallIn
<1>5. q \in Nat /\ q < p
  BY <1>1, <1>2, <1>4, ValueType
<1>6. PICK r \in Nat : r = Value(mem, rest) /\ r < pp
  BY <1>1, <1>3, ValueType
<1>7. PICK c \in Int, k \in 0 .. 1 :
        /\ c = f.carry /\ k = f.corrections /\ c < 0 /\ f.value = q * b + (c * pp + r)
        /\ -((2 - k) * b) <= c * pp + r /\ Value(mem, Cut(f.a, w, h)) = 0
  <2>1. PICK c \in Int, k \in 0 .. 1 : c = f.carry /\ k = f.corrections /\ c < 0
    BY DEF IsCall, Corrected
  <2>2. Left(f, mem) = c * pp + r
    BY <1>1, <1>3, <1>6, <2>1 DEF Left
  <2>3. /\ f.value = q * b + Left(f, mem) /\ -((2 - k) * b) <= Left(f, mem)
        /\ Value(mem, Cut(f.a, w, h)) = 0
    BY <1>1, <1>2, <2>1 DEF Corrected
  <2>4. QED
    BY <2>1, <2>2, <2>3
<1>8. PICK left \in Int : left = c * pp + r /\ left < 0
  <2>1. c * pp + r < 0 /\ c * pp + r \in Int
    BY <1>2, <1>6, <1>7, NotAbove
  <2>2. QED
    BY <2>1
<1>9. q > 0
  <2>1. ASSUME q = 0 PROVE FALSE
    <3>1. f.value \in Nat
      BY DEF IsCall
    <3>2. q * b = 0
      BY <1>2, <2>1
    <3>3. f.value = q * b + left
      BY <1>7, <1>8
    <3>4. f.value = left
      BY <3>2, <3>3
    <3>5. QED
      BY <1>8, <3>1, <3>4
  <2>2. QED
    BY <1>5, <2>1
<1>10. (q - 1) \in 0 .. p - 1 /\ (q - 1) % p = q - 1
  <2>1. (q - 1) \in 0 .. p - 1
    BY <1>2, <1>5, <1>9
  <2>2. QED
    BY <1>2, <2>1, DivSmall
<1>11. sum = r + b /\ sum \in Nat /\ sum \in Int
  BY <1>2, <1>6
<1>12. PICK d \in Int, s \in 0 .. pp - 1 : d = sum \div pp /\ s = sum % pp /\ sum = pp * d + s
  <2>1. sum \div pp \in Int /\ sum % pp \in 0 .. pp - 1 /\ sum = pp * (sum \div pp) + (sum % pp)
    BY <1>2, <1>11, DivMod
  <2>2. QED
    BY <2>1
<1>13. new = Store(Store(mem, rest, sum), f.q, q - 1) /\ q - 1 \in Int
  BY <1>1, <1>2, <1>10
<1>14. /\ BzKeeps(mem, new, size, f.a, f.q) /\ Value(new, rest) = sum % Power(Base, rest.n)
       /\ Value(new, f.q) = (q - 1) % Power(Base, f.q.n)
       /\ \A y : In(y, size) /\ Apart(y, rest) /\ Apart(y, f.q) => Value(new, y) = Value(mem, y)
  <2>1. Apart(rest, f.q) /\ PartOf(f.q, f.q)
    BY <1>3, <1>4, PartItself DEF Apart
  <2>2. QED
    BY <1>3, <1>4, <1>11, <1>13, <2>1, StoredTwice
<1>15. Value(new, rest) = s /\ Value(new, f.q) = q - 1
  BY <1>1, <1>2, <1>3, <1>10, <1>12, <1>14
<1>16. Value(new, Cut(f.a, w, h)) = 0
  <2>1. Apart(Cut(f.a, w, h), f.q)
    BY <1>3, <1>4 DEF Apart
  <2>2. QED
    BY <1>3, <1>7, <1>14, <2>1
<1>17. Value(new, f.b) = b
  BY <1>2, <1>4, <1>14, DivisorStays
<1>18. PICK net \in Int : net = c + d /\ net * pp + s = left + b
  <2>1. c + d \in Int
    OBVIOUS
  <2>2. (c + d) * pp + s = c * pp + (pp * d + s)
    BY <1>2
  <2>3. pp * d + s = r + b
    BY <1>11, <1>12
  <2>4. PICK i \in Int : i = c * pp
    BY <1>2
  <2>5. i + (r + b) = (i + r) + b
    OBVIOUS
  <2>6. QED
    BY <1>8, <2>1, <2>2, <2>3, <2>4, <2>5
<1>19. net <= 0
  <2>1. net * pp + s < pp
    BY <1>2, <1>8, <1>18
  <2>2. s \in Nat
    BY <1>2
  <2>3. QED
    BY <1>2, <2>1, <2>2, NotAbove
<1>20. -((2 - (k + 1)) * b) <= left + b
  <2>1. (2 - k) * b = (2 - (k + 1)) * b + b /\ (2 - (k + 1)) * b \in Int
    OBVIOUS
  <2>2. -((2 - k) * b) <= left
    BY <1>7, <1>8
  <2>3. QED
    BY <2>1, <2>2
<1>21. f.value = (q - 1) * b + (left + b)
  <2>1. (q - 1) * b = q * b - b /\ q * b \in Int
    BY <1>5
  <2>2. f.value = q * b + left
    BY <1>7, <1>8
  <2>3. QED
    BY <2>1, <2>2
<1>22. f.carry + sum \div Power(Base, w) = net
  BY <1>1, <1>7, <1>12, <1>18
<1>23. TakenOff(f, new, net, k + 1)
  <2>1. PICK over \in Int : over = left + b /\ over < b
    BY <1>8
  <2>2. over = net * Power(Base, f.b.n) + Value(new, Cut(f.a, 0, f.b.n))
    BY <1>1, <1>3, <1>15, <1>18, <2>1
  <2>3. f.value = Value(new, f.q) * Value(new, f.b) + over
    BY <1>15, <1>17, <1>21, <2>1
  <2>4. over < Value(new, f.b) /\ -((2 - (k + 1)) * Value(new, f.b)) <= over
    BY <1>17, <1>20, <2>1
  <2>5. Value(new, Cut(f.a, f.b.n, f.q.n)) = 0
    BY <1>1, <1>16
  <2>6. k + 1 \in 0 .. 2
    OBVIOUS
  <2>7. QED
    BY <1>19, <2>2, <2>3, <2>4, <2>5, <2>6 DEF TakenOff
<1>24. QED
  BY <1>5, <1>7, <1>9, <1>14, <1>22, <1>23

(* An approximate leaf. *)
LEMMA ApproxLeafMemory ==
  ASSUME NEW mem, NEW plan, PlanFits(plan), Memory(mem, BzSize(plan)),
         NEW f, IsCall(f, mem, BzSize(plan)), Entered(f, mem), f.op = "divappr",
         NEW z, z = f.value \div Value(mem, f.b), NEW approx \in {z, z + 1},
         NEW p, p = Power(Base, f.b.n), NEW new,
         new = Store(mem, f.q, IF approx >= p THEN p - 1 ELSE approx)
  PROVE  BzKeeps(mem, new, BzSize(plan), f.a, f.q) /\ Approximated(f, new, plan)
<1>1. PICK size : size = BzSize(plan) /\ Memory(mem, size) /\ IsCall(f, mem, size)
  OBVIOUS
<1>2. PICK n \in Nat \ {0} : n = f.q.n /\ f.b.n = n /\ f.a.n = n + n
  BY <1>1, CallIn
<1>3. PICK b \in Nat \ {0} : b = Value(mem, f.b) /\ p \in Nat \ {0}
  BY <1>1, DivisorType
<1>4. In(f.a, size) /\ In(f.b, size) /\ In(f.q, size) /\ f.a.area = "w" /\ f.q.area = "q"
      /\ f.b.area = "b"
  BY <1>1, CallIn
<1>5. PICK low \in 0 .. p - 1, top \in Nat : f.value = low + p * top /\ top < b
  <2>1. /\ Value(mem, f.a) = Value(mem, Cut(f.a, 0, n))
             + Power(Base, n) * Value(mem, Cut(f.a, n, n))
        /\ Value(mem, Cut(f.a, 0, n)) \in Nat /\ Value(mem, Cut(f.a, 0, n)) < Power(Base, n)
        /\ Value(mem, Cut(f.a, n, n)) \in Nat
    <3>1. n \in Nat /\ f.a.n = n + n
      BY <1>2
    <3>2. QED
      BY <1>1, <1>4, <3>1, WholeValue
  <2>2. f.value = Value(mem, f.a) /\ Value(mem, Cut(f.a, n, n)) < b
    BY <1>2, <1>3 DEF Entered
  <2>3. Value(mem, Cut(f.a, 0, n)) \in 0 .. p - 1
    BY <1>2, <1>3, <2>1
  <2>4. QED
    BY <1>2, <2>1, <2>2, <2>3
<1>6. z \in Nat /\ z < p /\ f.value \in Nat /\ z * b <= f.value /\ f.value < (z + 1) * b
  <2>1. z \in Nat /\ z < p
    BY <1>3, <1>5, QuotientFits
  <2>2. f.value \in Nat /\ f.value \in Int
    BY DEF IsCall
  <2>3. f.value % b \in 0 .. b - 1 /\ f.value = b * z + (f.value % b)
    BY <1>3, <2>2, DivMod
  <2>4. z * b = b * z /\ (z + 1) * b = b * z + b /\ b * z \in Nat
    BY <2>1
  <2>5. QED
    BY <2>1, <2>2, <2>3, <2>4
<1>7. PICK q \in {z, z + 1} : q = (IF approx >= p THEN p - 1 ELSE approx) /\ q < p /\ q \in Nat
  <2>1. CASE approx >= p
    <3>1. p - 1 = z
      BY <1>3, <1>6, <2>1
    <3>2. QED
      BY <1>3, <1>6, <2>1, <3>1
  <2>2. CASE ~(approx >= p)
    BY <1>3, <1>6, <2>2
  <2>3. QED
    BY <2>1, <2>2
<1>8. BzKeeps(mem, new, size, f.a, f.q) /\ Value(new, f.q) = q
  <2>1. q \in Int /\ q < Power(Base, f.q.n) /\ PartOf(f.q, f.q)
    BY <1>2, <1>4, <1>7, PartItself
  <2>2. BzKeeps(mem, new, size, f.a, f.q)
    BY <1>1, <1>4, <1>7, <2>1, KeepsStore
  <2>3. Value(new, f.q) = q
    BY <1>1, <1>4, <1>7, <2>1, StoreFits
  <2>4. QED
    BY <2>2, <2>3
<1>9. Value(new, f.b) = b
  BY <1>3, <1>4, <1>8, DivisorStays
<1>10. PICK lift \in Nat : lift = Lift(f.b.n, b, plan) /\ b <= lift
  <2>1. HalvingLevels(n, plan.threshold) \in Nat
    BY HalvingStep DEF PlanFits
  <2>2. HalvingLevels(n, plan.threshold) * p \in Nat
    BY <1>3, <2>1
  <2>3. Lift(f.b.n, b, plan) = HalvingLevels(n, plan.threshold) * p + b
    BY <1>2 DEF Lift
  <2>4. QED
    BY <1>3, <2>2, <2>3
<1>11. Approximates(q, b, f.value, lift)
  <2>1. f.value < (q + 1) * b
    <3>1. (z + 1) * b <= (q + 1) * b
      BY <1>3, <1>6, <1>7, MulPos
    <3>2. (z + 1) * b \in Nat /\ (q + 1) * b \in Nat
      BY <1>6, <1>7
    <3>3. QED
      BY <1>6, <3>1, <3>2
  <2>2. q * b <= f.value + b
    <3>1. CASE q = z
      <4>1. z * b \in Nat
        BY <1>6
      <4>2. QED
        BY <1>6, <3>1, <4>1
    <3>2. CASE q = z + 1
      <4>1. (z + 1) * b = z * b + b /\ z * b \in Nat
        BY <1>6
      <4>2. QED
        BY <1>6, <3>2, <4>1
    <3>3. QED
      BY <3>1, <3>2
  <2>3. q * b <= f.value + lift
    <3>1. q * b \in Nat
      BY <1>7
    <3>2. QED
      BY <1>6, <1>10, <2>2, <3>1
  <2>4. QED
    BY <2>1, <2>3 DEF Approximates
<1>12. Approximated(f, new, plan)
  BY <1>8, <1>9, <1>10, <1>11 DEF Approximated
<1>13. QED
  BY <1>1, <1>8, <1>12

(* The sizes of a halved D_2n/n, and the numbers in its window and divisor. *)
LEMMA HalvedNumbers ==
  ASSUME NEW mem, NEW plan, PlanFits(plan), Memory(mem, BzSize(plan)),
         NEW f, IsCall(f, mem, BzSize(plan)), Halved(f, plan)
  PROVE  \E h \in Nat \ {0}, p \in Nat \ {0}, l, u \in Nat :
           /\ h = f.q.n \div 2 /\ f.b.n \div 2 = h /\ f.q.n = 2 * h /\ f.b.n = 2 * h
           /\ p = Power(Base, h) /\ l \in 0 .. p - 1
           /\ f.a.n = 4 * h /\ p * p = Power(Base, f.b.n)
           /\ l = Value(mem, Cut(f.b, 0, h)) /\ u = Value(mem, Cut(f.b, h, h))
           /\ Value(mem, f.b) = l + p * u /\ p <= 2 * u
           /\ Upper(f.b) = Cut(f.b, h, h) /\ In(Upper(f.b), BzSize(plan))
           /\ Upper(f.b).area = "b" /\ Upper(f.b).n = h
           /\ HalvingLevels(f.b.n, plan.threshold) = HalvingLevels(h, plan.threshold) + 1
           /\ HalvingLevels(h, plan.threshold) \in Nat
<1>1. PICK size : size = BzSize(plan) /\ Memory(mem, size) /\ IsCall(f, mem, size)
  OBVIOUS
<1>2. PICK h \in Nat \ {0} : h = f.q.n \div 2 /\ f.q.n = 2 * h /\ f.b.n = 2 * h /\ f.a.n = 4 * h
  BY HalvedSizes
<1>3. f.b.n \div 2 = h /\ f.b.n = h + h /\ f.b.n \in Nat /\ h \in Nat
  <2>1. (2 * h) \div 2 = h /\ 2 * h = h + h
    OBVIOUS
  <2>2. QED
    BY <1>2, <2>1
<1>4. In(f.b, size) /\ f.b.area = "b" /\ Power(Base, f.b.n) <= 2 * Value(mem, f.b)
  <2>1. Power(Base, f.b.n) <= 2 * Value(mem, f.b)
    BY DEF IsCall
  <2>2. QED
    BY <1>1, <2>1, CallIn
<1>5. /\ Value(mem, f.b) = Value(mem, Cut(f.b, 0, h)) + Power(Base, h) * Value(mem, Cut(f.b, h, h))
      /\ Value(mem, Cut(f.b, 0, h)) \in Nat /\ Value(mem, Cut(f.b, 0, h)) < Power(Base, h)
      /\ Value(mem, Cut(f.b, h, h)) \in Nat /\ Power(Base, h) \in Nat \ {0}
      /\ Power(Base, h + h) = Power(Base, h) * Power(Base, h)
  BY <1>1, <1>3, <1>4, WholeValue
<1>6. PICK p \in Nat \ {0}, l \in Nat, u \in Nat :
        /\ p = Power(Base, h) /\ l = Value(mem, Cut(f.b, 0, h)) /\ u = Value(mem, Cut(f.b, h, h))
        /\ l < p /\ Value(mem, f.b) = l + p * u /\ p * p = Power(Base, f.b.n)
  BY <1>3, <1>5
<1>7. /\ p <= 2 * u
      /\ In(Cut(f.b, h, h), size) /\ Cut(f.b, h, h).area = f.b.area /\ Cut(f.b, h, h).n = h
      /\ Upper(f.b) = Cut(f.b, h, h)
  <2>1. f.b.n = 2 * h
    BY <1>2
  <2>2. /\ Power(Base, h) <= 2 * Value(mem, Cut(f.b, h, h))
        /\ In(Cut(f.b, h, h), size) /\ Cut(f.b, h, h).area = f.b.area /\ Cut(f.b, h, h).n = h
        /\ Upper(f.b) = Cut(f.b, h, h)
    BY <1>1, <1>4, <2>1, UpperDivisor
  <2>3. QED
    BY <1>6, <2>2
<1>8. /\ HalvingLevels(f.b.n, plan.threshold) = HalvingLevels(h, plan.threshold) + 1
      /\ HalvingLevels(h, plan.threshold) \in Nat
  <2>1. plan.threshold \in Nat \ {0}
    BY DEF PlanFits
  <2>2. f.b.n >= plan.threshold /\ f.b.n % 2 = 0
    <3>1. f.b.n >= plan.threshold
      BY <1>2 DEF Halved
    <3>2. (2 * h) % 2 = 0
      OBVIOUS
    <3>3. QED
      BY <1>2, <3>1, <3>2
  <2>3. HalvingLevels(f.b.n, plan.threshold) = HalvingLevels(f.b.n \div 2, plan.threshold) + 1
    BY <1>3, <2>1, <2>2, HalvingStep
  <2>4. HalvingLevels(h, plan.threshold) \in Nat
    BY <1>3, <2>1, HalvingStep
  <2>5. QED
    BY <1>3, <2>3, <2>4
<1>9. l \in 0 .. p - 1
  BY <1>6
<1>10. QED
  BY <1>1, <1>2, <1>3, <1>4, <1>6, <1>7, <1>8, <1>9

LEMMA QuarterSums ==
  ASSUME NEW h \in Nat, NEW w \in Nat, NEW n \in Nat, w = 2 * h, n = 4 * h
  PROVE  w + h <= n /\ h + w <= n /\ h + h <= n /\ 0 + h <= n /\ h + h = w
  OBVIOUS

(* The quarters of its window. *)
LEMMA HalvedWindow ==
  ASSUME NEW mem, NEW plan, PlanFits(plan), Memory(mem, BzSize(plan)),
         NEW f, IsCall(f, mem, BzSize(plan)), Halved(f, plan), NEW h, h = f.q.n \div 2,
         NEW p, p = Power(Base, h)
  PROVE  /\ First(Subspan(f.a, 2 * h), h) = Cut(f.a, 2 * h, h)
         /\ First(Subspan(f.a, h), 2 * h) = Cut(f.a, h, f.q.n)
         /\ In(Cut(f.a, h, f.q.n), BzSize(plan)) /\ Cut(f.a, h, f.q.n).area = "w"
         /\ Cut(f.a, h, f.q.n).n = f.q.n /\ PartOf(Cut(f.a, h, f.q.n), f.a)
         /\ Cut(Cut(f.a, h, f.q.n), h, h) = Cut(f.a, 2 * h, h)
         /\ Value(mem, Cut(f.a, h, f.q.n))
              = Value(mem, Cut(f.a, h, h)) + p * Value(mem, Cut(f.a, 2 * h, h))
         /\ Value(mem, Cut(f.a, h, h)) \in 0 .. p - 1
         /\ Value(mem, Cut(f.a, 2 * h, h)) \in 0 .. p - 1
         /\ Value(mem, Cut(f.a, 0, h)) \in 0 .. p - 1
<1>1. PICK size : size = BzSize(plan) /\ Memory(mem, size) /\ IsCall(f, mem, size)
  OBVIOUS
<1>2. PICK w \in Nat : w = 2 * h /\ f.q.n = w /\ h \in Nat /\ f.a.n = 4 * h
  <2>1. PICK k \in Nat \ {0} : k = f.q.n \div 2 /\ f.q.n = 2 * k /\ f.a.n = 4 * k
    BY HalvedSizes
  <2>2. 2 * k \in Nat
    OBVIOUS
  <2>3. QED
    BY <2>1, <2>2
<1>3. w + h <= f.a.n /\ h + w <= f.a.n /\ h + h <= f.a.n /\ 0 + h <= f.a.n /\ h + h = w
  <2>1. PICK n \in Nat : n = f.a.n /\ n = 4 * h /\ w = 2 * h /\ h \in Nat
    <3>1. h \in Nat
      BY <1>2
    <3>2. PICK n \in Nat : n = 4 * h
      BY <3>1
    <3>3. QED
      BY <1>2, <3>2, Zenon
  <2>2. w + h <= n /\ h + w <= n /\ h + h <= n /\ 0 + h <= n /\ h + h = w
    BY <2>1, QuarterSums
  <2>3. QED
    BY <2>1, <2>2
<1>4. In(f.a, size) /\ f.a.area = "w"
  BY <1>1, CallIn
<1>5. First(Subspan(f.a, w), h) = Cut(f.a, w, h)
  <2>1. w + h <= f.a.n /\ h \in Nat
    BY <1>2, <1>3
  <2>2. QED
    BY <1>4, <2>1, MiddleCut
<1>6. First(Subspan(f.a, h), w) = Cut(f.a, h, w)
  <2>1. h + w <= f.a.n /\ h \in Nat
    BY <1>2, <1>3
  <2>2. QED
    BY <1>4, <2>1, MiddleCut
<1>7. /\ In(Cut(f.a, h, w), size) /\ Cut(f.a, h, w).area = f.a.area /\ Cut(f.a, h, w).n = w
      /\ PartOf(Cut(f.a, h, w), f.a)
  <2>1. h + w <= f.a.n /\ h \in Nat
    BY <1>2, <1>3
  <2>2. QED
    BY <1>4, <2>1, CutIs
<1>8. Cut(Cut(f.a, h, w), h, h) = Cut(f.a, h + h, h)
  <2>1. h \in Nat
    BY <1>2
  <2>2. QED
    BY <1>4, <2>1, CutCut
<1>9. Value(mem, Cut(f.a, h, h + h))
        = Value(mem, Cut(f.a, h, h)) + Power(Base, h) * Value(mem, Cut(f.a, h + h, h))
  <2>1. h + h + h <= f.a.n /\ h \in Nat
    BY <1>2, <1>3
  <2>2. QED
    BY <1>1, <1>4, <2>1, CutValue
<1>10. /\ Value(mem, Cut(f.a, h, h)) \in Nat /\ Value(mem, Cut(f.a, h, h)) < Power(Base, h)
       /\ Value(mem, Cut(f.a, 0, h)) \in Nat /\ Value(mem, Cut(f.a, 0, h)) < Power(Base, h)
       /\ Value(mem, Cut(f.a, w, h)) \in Nat /\ Value(mem, Cut(f.a, w, h)) < Power(Base, h)
       /\ p \in Nat \ {0}
  <2>1. w + h <= f.a.n /\ h + h <= f.a.n /\ 0 + h <= f.a.n /\ h \in Nat
    BY <1>2, <1>3
  <2>2. QED
    BY <1>1, <1>4, <2>1, CutType
<1>11. /\ Value(mem, Cut(f.a, h, h)) \in 0 .. p - 1 /\ Value(mem, Cut(f.a, 0, h)) \in 0 .. p - 1
       /\ Value(mem, Cut(f.a, w, h)) \in 0 .. p - 1
  BY <1>10
<1>12. f.q.n = w /\ 2 * h = w /\ h + h = w
  BY <1>2, <1>3
<1>13. QED
  BY <1>1, <1>4, <1>5, <1>6, <1>7, <1>8, <1>9, <1>11, <1>12

(* The lower half of an approximation, of the upper half of the remainder. *)
LEMMA ApproxLowerStep ==
  ASSUME NEW mem, NEW plan, PlanFits(plan), Memory(mem, BzSize(plan)),
         NEW f, IsCall(f, mem, BzSize(plan)), f.pc = "lower", f.op = "divappr", Halved(f, plan),
         HalfDone(f, mem), NEW h, h = f.b.n \div 2,
         Value(mem, First(Subspan(f.a, 2 * h), h)) < Value(mem, Upper(f.b)),
         NEW g, Becomes(g, f, "return", f.carry, f.corrections), NEW c,
         c = BzCall("divappr", mem, First(Subspan(f.a, h), 2 * h), Upper(f.b), Lower(f.q))
  PROVE  /\ IsCall(g, mem, BzSize(plan)) /\ IsCall(c, mem, BzSize(plan))
         /\ Nested(c, g) /\ WaitsApprox(g, c, mem, plan) /\ Stands(c, mem, plan)
<1>1. PICK size : size = BzSize(plan) /\ Memory(mem, size) /\ IsCall(f, mem, size)
  OBVIOUS
<1>2. PICK p \in Nat \ {0}, u \in Nat :
        /\ p = Power(Base, h) /\ h \in Nat \ {0} /\ h = f.q.n \div 2 /\ f.q.n = 2 * h
        /\ u = Value(mem, Cut(f.b, h, h)) /\ p <= 2 * u
        /\ Upper(f.b) = Cut(f.b, h, h) /\ In(Upper(f.b), size)
        /\ Upper(f.b).area = "b" /\ Upper(f.b).n = h
  <2>1. PICK k \in Nat \ {0}, p \in Nat \ {0}, l \in Nat, u \in Nat :
        /\ k = f.q.n \div 2 /\ f.b.n \div 2 = k /\ f.q.n = 2 * k /\ f.b.n = 2 * k
        /\ p = Power(Base, k) /\ l \in 0 .. p - 1
        /\ f.a.n = 4 * k /\ p * p = Power(Base, f.b.n)
        /\ l = Value(mem, Cut(f.b, 0, k)) /\ u = Value(mem, Cut(f.b, k, k))
        /\ Value(mem, f.b) = l + p * u /\ p <= 2 * u
        /\ Upper(f.b) = Cut(f.b, k, k) /\ In(Upper(f.b), BzSize(plan))
        /\ Upper(f.b).area = "b" /\ Upper(f.b).n = k
        /\ HalvingLevels(f.b.n, plan.threshold) = HalvingLevels(k, plan.threshold) + 1
        /\ HalvingLevels(k, plan.threshold) \in Nat
    BY HalvedNumbers, Zenon
  <2>2. k = h
    BY <2>1
  <2>3. QED
    BY <1>1, <2>1, <2>2
<1>3. PICK a : /\ a = Cut(f.a, h, f.q.n) /\ a = First(Subspan(f.a, h), 2 * h) /\ In(a, size)
               /\ a.area = "w" /\ a.n = f.q.n /\ PartOf(a, f.a)
               /\ Cut(a, h, h) = First(Subspan(f.a, 2 * h), h)
  BY <1>1, <1>2, HalvedWindow
<1>4. PICK q : q = Cut(f.q, 0, h) /\ q = Lower(f.q) /\ In(q, size) /\ q.area = "q" /\ q.n = h
               /\ PartOf(q, f.q)
  <2>1. h \in Nat /\ f.q.n = 2 * h /\ In(f.q, size) /\ f.q.area = "q"
    BY <1>1, <1>2, CallIn
  <2>2. /\ In(Cut(f.q, 0, h), size) /\ Cut(f.q, 0, h).area = f.q.area /\ Cut(f.q, 0, h).n = h
        /\ PartOf(Cut(f.q, 0, h), f.q) /\ Lower(f.q) = Cut(f.q, 0, h)
    BY <2>1, HalfQuotients
  <2>3. QED
    BY <2>1, <2>2
<1>5. PICK b : b = Upper(f.b)
  OBVIOUS
<1>6. /\ IsCall(c, mem, size) /\ Stands(c, mem, plan)
      /\ c.op = "divappr" /\ c.a = a /\ c.b = b /\ c.q = q /\ c.value = Value(mem, a)
  <2>1. q.n \in Nat \ {0} /\ a.n = b.n + q.n /\ b.n = q.n
    BY <1>2, <1>3, <1>4, <1>5
  <2>2. Power(Base, b.n) <= 2 * Value(mem, b) /\ Value(mem, Cut(a, q.n, b.n)) < Value(mem, b)
    BY <1>2, <1>3, <1>4, <1>5
  <2>3. In(b, size) /\ b.area = "b" /\ c = BzCall("divappr", mem, a, b, q)
    BY <1>2, <1>3, <1>4, <1>5
  <2>4. QED
    BY <1>1, <1>3, <1>4, <2>1, <2>2, <2>3, NewCall
<1>7. /\ CallFields(g) /\ g.op = f.op /\ g.a = f.a /\ g.b = f.b /\ g.q = f.q /\ g.value = f.value
      /\ g.pc = "return" /\ g.carry = f.carry /\ g.corrections = f.corrections /\ g.sound = TRUE
  BY DEF Becomes, SameTask
<1>8. IsCall(g, mem, size)
  BY <1>1, <1>7 DEF IsCall
<1>9. f.value = (Value(mem, Cut(f.q, h, h)) * Value(mem, f.b) + Value(mem, a)) * Power(Base, h)
                  + Value(mem, Cut(f.a, 0, h))
  BY <1>2, <1>3 DEF HalfDone
<1>10. Halved(g, plan)
  BY <1>7 DEF Halved
<1>11. WaitsApprox(g, c, mem, plan)
  BY <1>2, <1>3, <1>4, <1>5, <1>6, <1>7, <1>9, <1>10 DEF WaitsApprox
<1>12. Nested(c, g)
  BY <1>3, <1>4, <1>6, <1>7 DEF Nested
<1>13. QED
  BY <1>1, <1>6, <1>8, <1>11, <1>12

(* The lower half is all ones. *)
LEMMA SaturatedMemory ==
  ASSUME NEW mem, NEW plan, PlanFits(plan), Memory(mem, BzSize(plan)),
         NEW f, IsCall(f, mem, BzSize(plan)), Halved(f, plan), HalfDone(f, mem),
         NEW h, h = f.b.n \div 2, NEW top, top = Value(mem, First(Subspan(f.a, 2 * h), h)),
         ~(top < Value(mem, Upper(f.b))),
         NEW new, new = Store(mem, Lower(f.q), Power(Base, h) - 1)
  PROVE  /\ BzKeeps(mem, new, BzSize(plan), f.a, f.q) /\ Approximated(f, new, plan)
         /\ top = Value(mem, Upper(f.b))
<1>1. PICK size : size = BzSize(plan) /\ Memory(mem, size) /\ IsCall(f, mem, size)
  OBVIOUS
<1>2. PICK p \in Nat \ {0}, l \in Nat, u \in Nat, k \in Nat :
        /\ p = Power(Base, h) /\ h \in Nat \ {0} /\ h = f.q.n \div 2 /\ f.q.n = 2 * h
        /\ l \in 0 .. p - 1 /\ p * p = Power(Base, f.b.n)
        /\ Value(mem, f.b) = l + p * u /\ u = Value(mem, Upper(f.b))
        /\ k = HalvingLevels(h, plan.threshold)
        /\ HalvingLevels(f.b.n, plan.threshold) = k + 1
  <2>1. PICK i \in Nat \ {0}, p \in Nat \ {0}, l \in Nat, u \in Nat :
        /\ i = f.q.n \div 2 /\ f.b.n \div 2 = i /\ f.q.n = 2 * i /\ f.b.n = 2 * i
        /\ p = Power(Base, i) /\ l \in 0 .. p - 1
        /\ f.a.n = 4 * i /\ p * p = Power(Base, f.b.n)
        /\ l = Value(mem, Cut(f.b, 0, i)) /\ u = Value(mem, Cut(f.b, i, i))
        /\ Value(mem, f.b) = l + p * u /\ p <= 2 * u
        /\ Upper(f.b) = Cut(f.b, i, i) /\ In(Upper(f.b), BzSize(plan))
        /\ Upper(f.b).area = "b" /\ Upper(f.b).n = i
        /\ HalvingLevels(f.b.n, plan.threshold) = HalvingLevels(i, plan.threshold) + 1
        /\ HalvingLevels(i, plan.threshold) \in Nat
    BY HalvedNumbers, Zenon
  <2>2. i = h
    BY <2>1
  <2>3. QED
    BY <2>1, <2>2
<1>3. PICK mid \in 0 .. p - 1, low \in 0 .. p - 1, r \in Nat :
        /\ low = Value(mem, Cut(f.a, 0, h)) /\ r = Value(mem, Cut(f.a, h, f.q.n))
        /\ r = mid + p * top /\ top \in Nat
  <2>1. /\ First(Subspan(f.a, 2 * h), h) = Cut(f.a, 2 * h, h)
        /\ Value(mem, Cut(f.a, h, f.q.n))
             = Value(mem, Cut(f.a, h, h)) + p * Value(mem, Cut(f.a, 2 * h, h))
        /\ Value(mem, Cut(f.a, h, h)) \in 0 .. p - 1
        /\ Value(mem, Cut(f.a, 2 * h, h)) \in 0 .. p - 1
        /\ Value(mem, Cut(f.a, 0, h)) \in 0 .. p - 1
    BY <1>1, <1>2, HalvedWindow
  <2>2. top \in Nat
    BY <1>2, <2>1
  <2>3. Value(mem, Cut(f.a, h, h)) + p * top \in Nat
    BY <1>2, <2>1, <2>2
  <2>4. QED
    BY <2>1, <2>2, <2>3
<1>4. PICK q1 \in Nat :
        /\ q1 = Value(mem, Cut(f.q, h, h)) /\ r < l + p * u
        /\ f.value = (q1 * (l + p * u) + r) * p + low
  <2>1. /\ f.value = (Value(mem, Cut(f.q, h, h)) * Value(mem, f.b) + r) * p + low
        /\ r < Value(mem, f.b)
    BY <1>2, <1>3 DEF HalfDone
  <2>2. Value(mem, Cut(f.q, h, h)) \in Nat
    <3>1. In(f.q, size) /\ h + h <= f.q.n /\ h \in Nat
      BY <1>1, <1>2, CallIn
    <3>2. QED
      BY <1>1, <3>1, CutType
  <2>3. QED
    BY <1>2, <2>1, <2>2
<1>5. top = u
  <2>1. mid + p * top < l + p * u /\ ~(top < u)
    BY <1>2, <1>3, <1>4
  <2>2. QED
    BY <1>2, <1>3, <2>1, TopEquals
<1>6. In(f.a, size) /\ In(f.b, size) /\ In(f.q, size) /\ f.a.area = "w" /\ f.q.area = "q"
      /\ f.b.area = "b"
  BY <1>1, CallIn
<1>7. /\ In(Cut(f.q, h, h), size) /\ In(Cut(f.q, 0, h), size) /\ Cut(f.q, 0, h).n = h
      /\ PartOf(Cut(f.q, 0, h), f.q) /\ Lower(f.q) = Cut(f.q, 0, h)
  <2>1. h \in Nat /\ f.q.n = 2 * h
    BY <1>2
  <2>2. QED
    BY <1>6, <2>1, HalfQuotients
<1>8. BzKeeps(mem, new, size, f.a, f.q) /\ Value(new, Cut(f.q, 0, h)) = p - 1
      /\ Value(new, Cut(f.q, h, h)) = q1
  <2>1. p - 1 \in Nat /\ p - 1 \in Int /\ p - 1 < Power(Base, h)
        /\ new = Store(mem, Cut(f.q, 0, h), p - 1)
    BY <1>2, <1>7
  <2>2. BzKeeps(mem, new, size, f.a, f.q)
    BY <1>1, <1>6, <1>7, <2>1, KeepsStore
  <2>3. Value(new, Cut(f.q, 0, h)) = p - 1
    BY <1>1, <1>7, <2>1, StoreFits
  <2>4. Apart(Cut(f.q, h, h), Cut(f.q, 0, h))
    <3>1. h \in Nat /\ 0 + h <= h
      BY <1>2
    <3>2. QED
      BY <1>6, <3>1, CutsApart
  <2>5. Value(new, Cut(f.q, h, h)) = q1
    BY <1>1, <1>4, <1>7, <2>1, <2>4, StoreApart
  <2>6. QED
    BY <2>2, <2>3, <2>5
<1>9. Value(new, f.q) = (p - 1) + p * q1
  <2>1. f.q.n = h + h /\ h \in Nat /\ Memory(new, size)
    BY <1>2, <1>8 DEF BzKeeps
  <2>2. Value(new, f.q)
          = Value(new, Cut(f.q, 0, h)) + Power(Base, h) * Value(new, Cut(f.q, h, h))
    BY <1>6, <2>1, WholeValue
  <2>3. QED
    BY <1>2, <1>8, <2>2
<1>10. Value(new, f.b) = l + p * u
  BY <1>2, <1>6, <1>8, DivisorStays
<1>11. Approximates((p - 1) + p * q1, l + p * u, (q1 * (l + p * u) + r) * p + low,
                    (k + 1) * (p * p) + (l + p * u))
  <2>1. p * u <= r
    <3>1. p * u \in Nat
      BY <1>2
    <3>2. QED
      BY <1>3, <1>5, <3>1
  <2>2. QED
    BY <1>2, <1>3, <1>4, <2>1, SaturatedApproximates
<1>12. Approximated(f, new, plan)
  BY <1>2, <1>4, <1>9, <1>10, <1>11 DEF Approximated, Lift
<1>13. QED
  BY <1>1, <1>2, <1>5, <1>8, <1>12

-----------------------------------------------------------------------------
(* What a call leaves to the one below it.                                 *)

LEMMA PopUpper ==
  ASSUME NEW mem, NEW plan, PlanFits(plan), Memory(mem, BzSize(plan)),
         NEW f, IsCall(f, mem, BzSize(plan)), NEW g, IsCall(g, mem, BzSize(plan)),
         WaitsUpper(f, g, mem, plan), Divided(g, mem)
  PROVE  Stands(f, mem, plan)
<1>1. PICK size : size = BzSize(plan) /\ Memory(mem, size) /\ IsCall(f, mem, size)
                  /\ IsCall(g, mem, size)
  OBVIOUS
<1>2. /\ Halved(f, plan) /\ f.pc = "lower" /\ g.op = "3n2n" /\ g.b = f.b
      /\ g.a = Cut(f.a, f.q.n \div 2, f.q.n \div 2 + f.q.n)
      /\ g.q = Cut(f.q, f.q.n \div 2, f.q.n \div 2)
      /\ f.value = g.value * Power(Base, f.q.n \div 2) + Value(mem, Cut(f.a, 0, f.q.n \div 2))
  BY DEF WaitsUpper
<1>3. PICK h \in Nat \ {0}, n \in Nat : h = f.q.n \div 2 /\ f.q.n = n /\ f.b.n = n
  <2>1. PICK h \in Nat \ {0} : h = f.q.n \div 2 /\ f.q.n = 2 * h /\ f.b.n = 2 * h
    BY <1>1, <1>2, HalvedSizes
  <2>2. PICK n \in Nat : n = 2 * h
    OBVIOUS
  <2>3. QED
    BY <2>1, <2>2
<1>4. In(f.a, size) /\ In(f.q, size)
  BY <1>1, CallIn
<1>5. g.q.n = h
  BY <1>2, <1>3 DEF Cut, Span
<1>6. Cut(g.a, 0, n) = Cut(f.a, h, n) /\ Cut(g.a, n, h) = Cut(f.a, h + n, h)
  <2>1. Cut(g.a, 0, n) = Cut(f.a, h + 0, n) /\ Cut(g.a, n, h) = Cut(f.a, h + n, h)
    <3>1. g.a = Cut(f.a, h, h + n) /\ h \in Nat /\ 0 \in Nat
      BY <1>2, <1>3
    <3>2. QED
      BY <1>4, <3>1, CutCut
  <2>2. h + 0 = h
    OBVIOUS
  <2>3. QED
    BY <2>1, <2>2
<1>7. /\ Value(mem, Cut(f.q, h, h)) * Value(mem, f.b) + Value(mem, Cut(f.a, h, n)) = g.value
      /\ Value(mem, Cut(f.a, h, n)) < Value(mem, f.b) /\ Value(mem, Cut(f.a, h + n, h)) = 0
  BY <1>2, <1>3, <1>5, <1>6 DEF Divided
<1>8. HalfDone(f, mem)
  BY <1>2, <1>3, <1>7 DEF HalfDone
<1>9. QED
  BY <1>2, <1>8 DEF Stands

LEMMA PopLower ==
  ASSUME NEW mem, NEW plan, PlanFits(plan), Memory(mem, BzSize(plan)),
         NEW f, IsCall(f, mem, BzSize(plan)), NEW g, IsCall(g, mem, BzSize(plan)),
         WaitsLower(f, g, mem, plan), Divided(g, mem)
  PROVE  Stands(f, mem, plan)
<1>1. PICK size : size = BzSize(plan) /\ Memory(mem, size) /\ IsCall(f, mem, size)
                  /\ IsCall(g, mem, size)
  OBVIOUS
<1>2. /\ Halved(f, plan) /\ f.pc = "return" /\ f.op = "2n1n" /\ g.op = "3n2n" /\ g.b = f.b
      /\ g.a = Cut(f.a, 0, f.q.n \div 2 + f.q.n) /\ g.q = Cut(f.q, 0, f.q.n \div 2)
      /\ f.value = (Value(mem, Cut(f.q, f.q.n \div 2, f.q.n \div 2)) * Value(mem, f.b))
                     * Power(Base, f.q.n \div 2) + g.value
      /\ Value(mem, Cut(f.a, f.q.n \div 2 + f.q.n, f.q.n \div 2)) = 0
  BY DEF WaitsLower
<1>3. PICK h \in Nat \ {0}, n \in Nat : /\ h = f.q.n \div 2 /\ f.q.n = n /\ f.b.n = n /\ n = h + h
                                        /\ n + h + h <= f.a.n /\ h + n = n + h
  <2>1. PICK h \in Nat \ {0} : h = f.q.n \div 2 /\ f.q.n = 2 * h /\ f.b.n = 2 * h /\ f.a.n = 4 * h
    BY <1>1, <1>2, HalvedSizes
  <2>2. PICK n \in Nat, m \in Nat : n = 2 * h /\ m = 4 * h
    OBVIOUS
  <2>3. n = h + h /\ n + h + h <= m /\ h + n = n + h
    BY <2>2
  <2>4. f.q.n = n /\ f.b.n = n /\ f.a.n = m
    BY <2>1, <2>2
  <2>5. QED
    BY <2>1, <2>3, <2>4
<1>4. In(f.a, size) /\ In(f.q, size)
  BY <1>1, CallIn
<1>5. g.q.n = h
  BY <1>2, <1>3 DEF Cut, Span
<1>6. Cut(g.a, 0, n) = Cut(f.a, 0, n) /\ Cut(g.a, n, h) = Cut(f.a, n, h)
  <2>1. Cut(g.a, 0, n) = Cut(f.a, 0 + 0, n) /\ Cut(g.a, n, h) = Cut(f.a, 0 + n, h)
    <3>1. g.a = Cut(f.a, 0, h + n) /\ n \in Nat /\ 0 \in Nat
      BY <1>2, <1>3
    <3>2. QED
      BY <1>4, <3>1, CutCut
  <2>2. 0 + 0 = 0 /\ 0 + n = n
    OBVIOUS
  <2>3. QED
    BY <2>1, <2>2
<1>7. /\ Value(mem, Cut(f.q, 0, h)) * Value(mem, f.b) + Value(mem, Cut(f.a, 0, n)) = g.value
      /\ Value(mem, Cut(f.a, 0, n)) < Value(mem, f.b) /\ Value(mem, Cut(f.a, n, h)) = 0
  BY <1>2, <1>3, <1>5, <1>6 DEF Divided
<1>8. Value(mem, Cut(f.a, n, n)) = 0
  <2>1. Value(mem, Cut(f.a, n, h + h))
          = Value(mem, Cut(f.a, n, h)) + Power(Base, h) * Value(mem, Cut(f.a, n + h, h))
    <3>1. n + h + h <= f.a.n /\ h \in Nat
      BY <1>3
    <3>2. QED
      BY <1>1, <1>4, <3>1, CutValue
  <2>2. Value(mem, Cut(f.a, n + h, h)) = 0 /\ h + h = n
    BY <1>2, <1>3
  <2>3. Power(Base, h) \in Nat
    <3>1. Base \in Nat \ {0} /\ h \in Nat
      BY BaseType, <1>3
    <3>2. QED
      BY <3>1, PowerPositive
  <2>4. 0 + Power(Base, h) * 0 = 0
    BY <2>3
  <2>5. QED
    BY <1>7, <2>1, <2>2, <2>4
<1>9. PICK p \in Nat, q0 \in Nat, q1 \in Nat :
        /\ p = Power(Base, h) /\ q0 = Value(mem, Cut(f.q, 0, h))
        /\ q1 = Value(mem, Cut(f.q, h, h)) /\ Value(mem, f.q) = q0 + p * q1
  <2>1. f.q.n = h + h /\ h \in Nat
    BY <1>3
  <2>2. QED
    BY <1>1, <1>4, <2>1, WholeValue
<1>10. PICK b \in Nat, r \in Nat : b = Value(mem, f.b) /\ r = Value(mem, Cut(f.a, 0, n))
  <2>1. Value(mem, f.b) \in Nat
    BY <1>1, DivisorType
  <2>2. 0 + n <= f.a.n
    <3>1. PICK m \in Nat : m = f.a.n
      BY <1>1, CallIn
    <3>2. n + h + h <= m
      BY <1>3, <3>1
    <3>3. 0 + n <= m
      BY <3>2
    <3>4. QED
      BY <3>1, <3>3
  <2>3. Value(mem, Cut(f.a, 0, n)) \in Nat
    BY <1>1, <1>4, <2>2, CutType
  <2>4. QED
    BY <2>1, <2>3
<1>11. (q0 + p * q1) * b + r = (q1 * b) * p + (q0 * b + r)
  OBVIOUS
<1>12. f.value = (q1 * b) * p + (q0 * b + r)
  BY <1>2, <1>3, <1>7, <1>9, <1>10
<1>13. Divided(f, mem)
  BY <1>3, <1>7, <1>8, <1>9, <1>10, <1>11, <1>12 DEF Divided
<1>14. QED
  BY <1>2, <1>13 DEF Stands

LEMMA PopEstimate ==
  ASSUME NEW mem, NEW plan, PlanFits(plan), Memory(mem, BzSize(plan)),
         NEW f, IsCall(f, mem, BzSize(plan)), NEW g, IsCall(g, mem, BzSize(plan)),
         WaitsEstimate(f, g, mem), Divided(g, mem)
  PROVE  Stands(f, mem, plan)
<1>1. PICK size : size = BzSize(plan) /\ Memory(mem, size) /\ IsCall(f, mem, size)
                  /\ IsCall(g, mem, size)
  OBVIOUS
<1>2. PICK h, w : h = f.q.n /\ w = 2 * h
  OBVIOUS
<1>3. /\ f.op = "3n2n" /\ f.pc = "product" /\ f.carry = 0 /\ g.op = "2n1n"
      /\ g.b = Cut(f.b, h, h) /\ g.a = Cut(f.a, h, w) /\ g.q = f.q
      /\ f.value = g.value * Power(Base, h) + Value(mem, Cut(f.a, 0, h))
  BY <1>2 DEF WaitsEstimate
<1>4. h \in Nat \ {0} /\ f.b.n = w /\ h + h = w
  <2>1. PICK k \in Nat \ {0}, m \in Nat \ {0} : k = f.q.n /\ m = 2 * k /\ f.b.n = m /\ k + k = m
    BY <1>1, <1>3, WindowSizes
  <2>2. QED
    BY <1>2, <2>1
<1>5. g.b.n = h /\ g.q.n = h
  BY <1>2, <1>3 DEF Cut, Span
<1>6. Cut(g.a, 0, h) = Cut(f.a, h, h) /\ Cut(g.a, h, h) = Cut(f.a, w, h)
  <2>1. Cut(g.a, 0, h) = Cut(f.a, h + 0, h) /\ Cut(g.a, h, h) = Cut(f.a, h + h, h)
    <3>1. h \in Nat /\ 0 \in Nat /\ In(f.a, size)
      BY <1>1, <1>4, CallIn
    <3>2. QED
      BY <1>3, <3>1, CutCut
  <2>2. h + 0 = h
    BY <1>4
  <2>3. QED
    BY <1>4, <2>1, <2>2
<1>7. PICK p \in Nat \ {0}, l \in Nat, u \in Nat :
        /\ p = Power(Base, h) /\ l \in 0 .. p - 1
        /\ l = Value(mem, Cut(f.b, 0, h)) /\ u = Value(mem, Cut(f.b, h, h))
  BY <1>1, <1>2, <1>3, DivisorHalves
<1>8. PICK low \in 0 .. p - 1, mid \in Nat :
        low = Value(mem, Cut(f.a, 0, h)) /\ mid = Value(mem, Cut(f.a, h, h))
  <2>1. Value(mem, Cut(f.a, 0, h)) \in 0 .. p - 1 /\ Value(mem, Cut(f.a, h, h)) \in 0 .. p - 1
    BY <1>1, <1>2, <1>3, <1>7, WindowThirds
  <2>2. QED
    BY <2>1
<1>9. PICK q \in Nat : q = Value(mem, f.q)
  <2>1. In(f.q, size)
    BY <1>1, CallIn
  <2>2. QED
    BY <1>1, <2>1, ValueType
<1>10. q * u + mid = g.value /\ mid < u /\ Value(mem, Cut(f.a, w, h)) = 0
  BY <1>3, <1>5, <1>6, <1>7, <1>8, <1>9 DEF Divided
<1>11. PICK x \in Nat : x = mid * p + low
  OBVIOUS
<1>12. /\ (q * u + mid) * p + low = q * u * p + x /\ x - q * l < l + p * u
  BY <1>7, <1>8, <1>9, <1>10, <1>11, EstimateLeaves
<1>13. x = low + p * (p * 0 + mid)
  BY <1>11
<1>14. LeavesOf(f.value, q, x, p, l, u, low, mid, 0)
  <2>1. f.value = (q * u + mid) * p + low
    BY <1>3, <1>7, <1>8, <1>10
  <2>2. QED
    BY <1>12, <1>13, <2>1 DEF LeavesOf
<1>15. Halves3(f, mem, p, l, u, low, mid)
  BY <1>2, <1>4, <1>7, <1>8, <1>10 DEF Halves3
<1>16. HasEstimate(f, mem)
  BY <1>1, <1>3, <1>9, <1>14, <1>15, EstimatedIs
<1>17. QED
  BY <1>3, <1>16 DEF Stands

LEMMA PopApprox ==
  ASSUME NEW mem, NEW plan, PlanFits(plan), Memory(mem, BzSize(plan)),
         NEW f, IsCall(f, mem, BzSize(plan)), NEW g, IsCall(g, mem, BzSize(plan)),
         WaitsApprox(f, g, mem, plan), Approximated(g, mem, plan)
  PROVE  Stands(f, mem, plan)
<1>1. PICK size : size = BzSize(plan) /\ Memory(mem, size) /\ IsCall(f, mem, size)
                  /\ IsCall(g, mem, size)
  OBVIOUS
<1>2. PICK h : h = f.q.n \div 2
  OBVIOUS
<1>3. /\ Halved(f, plan) /\ f.pc = "return" /\ f.op = "divappr" /\ g.op = "divappr"
      /\ g.b = Cut(f.b, h, h) /\ g.a = Cut(f.a, h, f.q.n) /\ g.q = Cut(f.q, 0, h)
      /\ f.value = (Value(mem, Cut(f.q, h, h)) * Value(mem, f.b) + g.value) * Power(Base, h)
                     + Value(mem, Cut(f.a, 0, h))
  BY <1>2 DEF WaitsApprox
<1>4. PICK p \in Nat \ {0}, l \in Nat, u \in Nat, k \in Nat :
        /\ p = Power(Base, h) /\ h \in Nat \ {0} /\ f.q.n = 2 * h
        /\ l \in 0 .. p - 1 /\ p * p = Power(Base, f.b.n)
        /\ Value(mem, f.b) = l + p * u /\ u = Value(mem, Cut(f.b, h, h))
        /\ k = HalvingLevels(h, plan.threshold)
        /\ HalvingLevels(f.b.n, plan.threshold) = k + 1
  <2>1. PICK i \in Nat \ {0}, p \in Nat \ {0}, l \in Nat, u \in Nat :
        /\ i = f.q.n \div 2 /\ f.b.n \div 2 = i /\ f.q.n = 2 * i /\ f.b.n = 2 * i
        /\ p = Power(Base, i) /\ l \in 0 .. p - 1
        /\ f.a.n = 4 * i /\ p * p = Power(Base, f.b.n)
        /\ l = Value(mem, Cut(f.b, 0, i)) /\ u = Value(mem, Cut(f.b, i, i))
        /\ Value(mem, f.b) = l + p * u /\ p <= 2 * u
        /\ Upper(f.b) = Cut(f.b, i, i) /\ In(Upper(f.b), BzSize(plan))
        /\ Upper(f.b).area = "b" /\ Upper(f.b).n = i
        /\ HalvingLevels(f.b.n, plan.threshold) = HalvingLevels(i, plan.threshold) + 1
        /\ HalvingLevels(i, plan.threshold) \in Nat
    BY <1>3, HalvedNumbers, Zenon
  <2>2. i = h
    BY <1>2, <2>1
  <2>3. QED
    BY <2>1, <2>2
<1>5. g.b.n = h /\ g.q.n = h
  BY <1>3 DEF Cut, Span
<1>6. PICK q0 \in 0 .. p - 1, q1 \in Nat :
        /\ q0 = Value(mem, Cut(f.q, 0, h)) /\ q1 = Value(mem, Cut(f.q, h, h))
        /\ Value(mem, f.q) = q0 + p * q1
  <2>1. f.q.n = h + h /\ h \in Nat /\ In(f.q, size)
    <3>1. In(f.q, size)
      BY <1>1, CallIn
    <3>2. h + h = 2 * h /\ h \in Nat
      BY <1>4
    <3>3. QED
      BY <1>4, <3>1, <3>2
  <2>2. /\ Value(mem, f.q) = Value(mem, Cut(f.q, 0, h))
             + Power(Base, h) * Value(mem, Cut(f.q, h, h))
        /\ Value(mem, Cut(f.q, 0, h)) \in Nat /\ Value(mem, Cut(f.q, 0, h)) < Power(Base, h)
        /\ Value(mem, Cut(f.q, h, h)) \in Nat
    BY <1>1, <2>1, WholeValue
  <2>3. Value(mem, Cut(f.q, 0, h)) \in 0 .. p - 1
    BY <1>4, <2>2
  <2>4. QED
    BY <1>4, <2>2, <2>3
<1>7. PICK low \in 0 .. p - 1 : low = Value(mem, Cut(f.a, 0, h))
  BY <1>1, <1>2, <1>3, <1>4, HalvedWindow
<1>8. PICK r \in Nat : r = g.value
  BY DEF IsCall
<1>9. Approximates(q0, u, r, k * p + u)
  BY <1>3, <1>4, <1>5, <1>6, <1>8 DEF Approximated, Lift
<1>10. Approximates(q0 + p * q1, l + p * u, (q1 * (l + p * u) + r) * p + low,
                    (k + 1) * (p * p) + (l + p * u))
  BY <1>4, <1>9, HalfApproximates
<1>11. Approximated(f, mem, plan)
  BY <1>3, <1>4, <1>6, <1>7, <1>8, <1>10 DEF Approximated, Lift
<1>12. QED
  BY <1>3, <1>11 DEF Stands

-----------------------------------------------------------------------------
(* The blocks of the march.                                                *)

(* A number and its two parts, the upper one times a power. *)
Splits(x, low, p, high) == x = low + p * high

(* j blocks and the k above them. *)
LEMMA SpanSplit ==
  ASSUME NEW mem, NEW plan, PlanFits(plan), Memory(mem, BzSize(plan)), NEW area \in {"q", "w"},
         NEW i \in Nat, NEW j \in Nat, NEW k \in Nat, i + (j + k) <= plan.t,
         area = "q" => i + (j + k) <= plan.t - 1
  PROVE  /\ Splits(Value(mem, BzSpan(area, plan, i, j + k)), Value(mem, BzSpan(area, plan, i, j)),
                   Power(Base, j * plan.n), Value(mem, BzSpan(area, plan, i + j, k)))
         /\ Cut(BzSpan(area, plan, i, j + k), 0, j * plan.n) = BzSpan(area, plan, i, j)
         /\ Cut(BzSpan(area, plan, i, j + k), j * plan.n, k * plan.n) = BzSpan(area, plan, i + j, k)
         /\ Value(mem, BzSpan(area, plan, i, j)) \in Nat
         /\ Value(mem, BzSpan(area, plan, i + j, k)) \in Nat
         /\ Power(Base, j * plan.n) \in Nat \ {0}
<1>1. PICK n \in Nat \ {0} : n = plan.n
  BY DEF PlanFits
<1>2. PICK x \in Nat, y \in Nat, z \in Nat : x = i * n /\ y = j * n /\ z = k * n
  OBVIOUS
<1>3. (j + k) * n = y + z /\ (i + j) * n = x + y
  <2>1. (j + k) * n = j * n + k * n /\ (i + j) * n = i * n + j * n
    OBVIOUS
  <2>2. QED
    BY <1>2, <2>1
<1>4. PICK s : /\ s = BzSpan(area, plan, i, j + k) /\ In(s, BzSize(plan)) /\ s.area = area
               /\ s.at = x /\ s.n = y + z
  <2>1. j + k \in Nat
    OBVIOUS
  <2>2. QED
    BY <1>1, <1>2, <1>3, <2>1, BlocksIn
<1>5. Cut(s, 0, y) = BzSpan(area, plan, i, j) /\ Cut(s, y, z) = BzSpan(area, plan, i + j, k)
  <2>1. x + 0 = x
    OBVIOUS
  <2>2. QED
    BY <1>1, <1>2, <1>3, <1>4, <2>1 DEF Cut, BzSpan, Span
<1>6. /\ Value(mem, s) = Value(mem, Cut(s, 0, y)) + Power(Base, y) * Value(mem, Cut(s, y, z))
      /\ Value(mem, Cut(s, 0, y)) \in Nat /\ Value(mem, Cut(s, y, z)) \in Nat
      /\ Power(Base, y) \in Nat \ {0}
  <2>1. In(s, BzSize(plan)) /\ s.n = y + z
    BY <1>4
  <2>2. QED
    BY <2>1, WholeValue
<1>7. Splits(Value(mem, s), Value(mem, Cut(s, 0, y)), Power(Base, y), Value(mem, Cut(s, y, z)))
  BY <1>6 DEF Splits
<1>8. QED
  BY <1>1, <1>2, <1>4, <1>5, <1>6, <1>7

(* An empty span. *)
LEMMA NoBlocks ==
  ASSUME NEW mem, NEW plan, PlanFits(plan), Memory(mem, BzSize(plan)), NEW area \in {"q", "w"},
         NEW i \in Nat, i <= plan.t, area = "q" => i <= plan.t - 1
  PROVE  Value(mem, BzSpan(area, plan, i, 0)) = 0 /\ Power(Base, 0 * plan.n) = 1
<1>1. PICK n \in Nat \ {0}, t \in Nat : n = plan.n /\ t = plan.t
  BY DEF PlanFits
<1>2. 0 * n = 0 /\ i + 0 = i
  OBVIOUS
<1>3. Power(Base, 0) = 1
  <2>1. Base \in Nat
    BY BaseType
  <2>2. QED
    BY <2>1, PowerStep
<1>4. In(BzSpan(area, plan, i, 0), BzSize(plan)) /\ BzSpan(area, plan, i, 0).n = 0
  <2>1. i + 0 <= plan.t /\ (area = "q" => i + 0 <= plan.t - 1) /\ 0 \in Nat
    BY <1>2
  <2>2. QED
    BY <1>1, <1>2, <2>1, BlocksIn
<1>5. Value(mem, BzSpan(area, plan, i, 0)) \in Nat /\ Value(mem, BzSpan(area, plan, i, 0)) < 1
  BY <1>3, <1>4, ValueType
<1>6. QED
  BY <1>1, <1>2, <1>3, <1>5

(* A block of the quotient more. *)
LEMMA OneMoreBlock ==
  ASSUME NEW p \in Nat, NEW d \in Nat, NEW high \in Nat, NEW q \in Nat, NEW r \in Nat
  PROVE  high * d * p + (q * d + r) = (q + p * high) * d + r
<1>1. (q + p * high) * d = q * d + (p * high) * d
  OBVIOUS
<1>2. (p * high) * d = high * d * p
  OBVIOUS
<1>3. QED
  BY <1>1, <1>2

LEMMA OneMoreApprox ==
  ASSUME NEW p \in Nat, NEW d \in Nat, NEW high \in Nat, NEW q \in Nat, NEW v \in Nat,
         NEW lift \in Nat, Approximates(q, d, v, lift)
  PROVE  Approximates(q + p * high, d, high * d * p + v, lift)
<1>1. (q + p * high) * d = q * d + high * d * p
      /\ (q + p * high + 1) * d = (q + 1) * d + high * d * p
  <2>1. (q + p * high) * d = q * d + (p * high) * d
    OBVIOUS
  <2>2. (p * high) * d = high * d * p
    OBVIOUS
  <2>3. (q + p * high + 1) * d = (q + 1) * d + (p * high) * d
    OBVIOUS
  <2>4. QED
    BY <2>1, <2>2, <2>3
<1>2. high * d * p \in Nat /\ q * d \in Nat /\ (q + 1) * d \in Nat
  OBVIOUS
<1>3. v < (q + 1) * d /\ q * d <= v + lift
  BY DEF Approximates
<1>4. QED
  BY <1>1, <1>2, <1>3 DEF Approximates

LEMMA PopWindow ==
  ASSUME NEW mem, NEW plan, PlanFits(plan), Memory(mem, BzSize(plan)), NEW n \in Nat, NEW d \in Nat,
         NEW f, IsDriver(f, mem, plan, d), NEW g, IsCall(g, mem, BzSize(plan)),
         WaitsWindow(f, g, mem, plan, n, d), g.pc = "return", Stands(g, mem, plan)
  PROVE  Marches(f, mem, plan, n, d)
<1>1. PICK i \in Nat, t \in Nat, k \in Nat :
        i = f.left /\ t = plan.t /\ i + 2 <= t /\ k = t - 2 - i /\ 1 + k = t - 1 - i
  <2>1. PICK i \in Nat, t \in Nat : i = f.left /\ t = plan.t /\ i + 2 <= t
    BY DEF WaitsWindow, IsDriver, PlanFits
  <2>2. t - 2 - i \in Nat /\ 1 + (t - 2 - i) = t - 1 - i
    BY <2>1
  <2>3. QED
    BY <2>1, <2>2
<1>2. PICK pn \in Nat \ {0} : pn = plan.n /\ 1 * pn = pn /\ g.b.n = pn /\ g.q.n = pn
  <2>1. PICK pn \in Nat \ {0} : pn = plan.n
    BY DEF PlanFits
  <2>2. 1 * pn = pn
    OBVIOUS
  <2>3. g.b.n = pn /\ g.q.n = 1 * pn
    BY <2>1 DEF WaitsWindow, Divisor, BzSpan, Span
  <2>4. QED
    BY <2>1, <2>2, <2>3
<1>3. PICK high \in Nat, q \in Nat, p \in Nat \ {0}, done \in Nat :
        /\ high = Value(mem, BzSpan("q", plan, i + 1, k)) /\ p = Power(Base, pn)
        /\ q = Value(mem, g.q) /\ done = Value(mem, BzSpan("q", plan, i, t - 1 - i))
        /\ done = q + p * high
  <2>1. i + (1 + k) <= t /\ i + (1 + k) <= t - 1
    BY <1>1
  <2>2. /\ Value(mem, BzSpan("q", plan, i, 1 + k))
             = Value(mem, BzSpan("q", plan, i, 1))
                 + Power(Base, 1 * plan.n) * Value(mem, BzSpan("q", plan, i + 1, k))
        /\ Value(mem, BzSpan("q", plan, i, 1)) \in Nat
        /\ Value(mem, BzSpan("q", plan, i + 1, k)) \in Nat
        /\ Power(Base, 1 * plan.n) \in Nat \ {0}
    <3>1. i + (1 + k) <= plan.t /\ i + (1 + k) <= plan.t - 1
      BY <1>1, <2>1
    <3>2. /\ Splits(Value(mem, BzSpan("q", plan, i, 1 + k)), Value(mem, BzSpan("q", plan, i, 1)),
                    Power(Base, 1 * plan.n), Value(mem, BzSpan("q", plan, i + 1, k)))
          /\ Value(mem, BzSpan("q", plan, i, 1)) \in Nat
          /\ Value(mem, BzSpan("q", plan, i + 1, k)) \in Nat
          /\ Power(Base, 1 * plan.n) \in Nat \ {0}
      BY <3>1, SpanSplit
    <3>3. QED
      BY <3>2 DEF Splits
  <2>3. g.q = BzSpan("q", plan, i, 1)
    BY <1>1 DEF WaitsWindow
  <2>4. PICK high \in Nat, q \in Nat, p \in Nat \ {0} :
        /\ high = Value(mem, BzSpan("q", plan, i + 1, k)) /\ p = Power(Base, pn)
        /\ q = Value(mem, g.q) /\ Value(mem, BzSpan("q", plan, i, t - 1 - i)) = q + p * high
    BY <1>1, <1>2, <2>2, <2>3
  <2>5. q + p * high \in Nat
    BY <2>4
  <2>6. QED
    BY <2>4, <2>5
<1>4. /\ g.b = Divisor(plan) /\ g.a = BzSpan("w", plan, i, 2)
      /\ g.op = IF f.approx /\ i = 0 THEN "divappr" ELSE "2n1n"
      /\ n = (high * d * p + g.value) * Power(Base, i * pn) + Value(mem, BzSpan("w", plan, 0, i))
  BY <1>1, <1>2, <1>3 DEF WaitsWindow
<1>5. Value(mem, g.b) = d /\ PlanFits(plan) /\ g.value \in Nat
  BY <1>4 DEF IsDriver, IsCall
<1>6. CASE f.approx /\ i = 0
  <2>1. Approximates(q, d, g.value, Lift(pn, d, plan))
    BY <1>2, <1>3, <1>4, <1>5, <1>6 DEF Stands, Approximated
  <2>2. Lift(pn, d, plan) \in Nat
    <3>1. HalvingLevels(pn, plan.threshold) \in Nat
      BY HalvingStep DEF PlanFits
    <3>2. Power(Base, pn) \in Nat
      BY <1>3
    <3>3. QED
      BY <3>1, <3>2 DEF Lift
  <2>3. Approximates(q + p * high, d, high * d * p + g.value, Lift(pn, d, plan))
    BY <1>5, <2>1, <2>2, OneMoreApprox
  <2>4. Value(mem, BzSpan("w", plan, 0, 0)) = 0 /\ Power(Base, 0 * plan.n) = 1
    <3>1. 0 <= plan.t
      BY <1>1
    <3>2. QED
      BY <3>1, NoBlocks
  <2>5. n = (high * d * p + g.value) * 1 + 0
    BY <1>2, <1>4, <1>6, <2>4
  <2>6. n = high * d * p + g.value
    <3>1. high * d * p + g.value \in Nat
      BY <1>5
    <3>2. QED
      BY <2>5, <3>1
  <2>7. QED
    BY <1>1, <1>2, <1>3, <1>6, <2>3, <2>6 DEF Marches
<1>7. CASE ~(f.approx /\ i = 0)
  <2>1. Divided(g, mem)
    BY <1>4, <1>7 DEF Stands
  <2>2. Cut(g.a, 0, pn) = BzSpan("w", plan, i, 1)
    <3>1. Cut(BzSpan("w", plan, i, 1 + 1), 0, 1 * plan.n) = BzSpan("w", plan, i, 1)
      <4>1. i + (1 + 1) <= plan.t
        BY <1>1
      <4>2. QED
        BY <4>1, SpanSplit
    <3>2. QED
      BY <1>2, <1>4, <3>1
  <2>3. PICK r : /\ r = Value(mem, BzSpan("w", plan, i, 1)) /\ r < d
                 /\ q * d + r = g.value
    BY <1>2, <1>3, <1>5, <2>1, <2>2 DEF Divided
  <2>4. r \in Nat
    <3>1. i + (1 + 1) <= plan.t
      BY <1>1
    <3>2. QED
      BY <2>3, <3>1, SpanSplit
  <2>5. n = (done * d + r) * Power(Base, i * pn) + Value(mem, BzSpan("w", plan, 0, i))
    <3>1. high * d * p + g.value = done * d + r
      BY <1>3, <2>3, <2>4, OneMoreBlock
    <3>2. QED
      BY <1>4, <3>1
  <2>6. QED
    BY <1>1, <1>2, <1>3, <1>7, <2>3, <2>5 DEF Marches
<1>8. QED
  BY <1>6, <1>7

(* The numbers of the window that comes next. *)
LEMMA NextWindow ==
  ASSUME NEW p \in Nat, NEW e \in Nat, NEW d \in Nat, NEW done \in Nat, NEW r \in Nat,
         NEW x \in Nat, NEW low \in Nat
  PROVE  (done * d + r) * (e * p) + (low + e * x) = (done * d * p + (x + p * r)) * e + low
<1>1. PICK y \in Nat : y = done * d
  OBVIOUS
<1>2. (y + r) * (e * p) + (low + e * x) = (y * p + (x + p * r)) * e + low
  OBVIOUS
<1>3. QED
  BY <1>1, <1>2

LEMMA MarchWindow ==
  ASSUME NEW mem, NEW plan, PlanFits(plan), Memory(mem, BzSize(plan)), NEW n \in Nat, NEW d \in Nat,
         NEW f, IsDriver(f, mem, plan, d), NEW i \in Nat, i + 1 = f.left,
         Marches(f, mem, plan, n, d)
  PROVE  LET a == BzSpan("w", plan, i, 2)
         IN  /\ Value(mem, Cut(a, plan.n, plan.n)) < d /\ In(a, BzSize(plan)) /\ i + 2 <= plan.t
             /\ a.area = "w" /\ a.n = plan.n + plan.n
             /\ n = (Value(mem, BzSpan("q", plan, i + 1, plan.t - 2 - i)) * d * Power(Base, plan.n)
                        + Value(mem, a)) * Power(Base, i * plan.n)
                    + Value(mem, BzSpan("w", plan, 0, i))
<1>1. PICK t \in Nat, j \in Nat, k \in Nat :
        t = plan.t /\ j = i + 1 /\ f.left = j /\ j + 1 <= t /\ k = t - 2 - i /\ k = t - 1 - j
        /\ j > 0
  <2>1. PICK t \in Nat : t = plan.t
    BY DEF PlanFits
  <2>2. f.left \in 0 .. t - 1
    BY <2>1 DEF IsDriver
  <2>3. PICK j \in Nat : j = i + 1 /\ f.left = j
    OBVIOUS
  <2>4. j + 1 <= t /\ j > 0
    BY <2>2, <2>3
  <2>5. t - 2 - i \in Nat /\ t - 2 - i = t - 1 - j
    BY <2>3, <2>4
  <2>6. QED
    BY <2>1, <2>3, <2>4, <2>5
<1>2. PICK pn \in Nat \ {0} : pn = plan.n /\ 1 * pn = pn /\ 2 * pn = pn + pn
  <2>1. PICK pn \in Nat \ {0} : pn = plan.n
    BY DEF PlanFits
  <2>2. 1 * pn = pn /\ 2 * pn = pn + pn
    OBVIOUS
  <2>3. QED
    BY <2>1, <2>2
<1>3. PICK done \in Nat : done = Value(mem, BzSpan("q", plan, i + 1, k))
  <2>1. j + (0 + k) <= plan.t /\ j + (0 + k) <= plan.t - 1
    BY <1>1
  <2>2. Value(mem, BzSpan("q", plan, j + 0, k)) \in Nat
    BY <2>1, SpanSplit
  <2>3. j + 0 = i + 1
    BY <1>1
  <2>4. QED
    BY <2>2, <2>3
<1>4. PICK r : /\ r = Value(mem, BzSpan("w", plan, j, 1)) /\ r < d
               /\ n = (done * d + r) * Power(Base, j * pn) + Value(mem, BzSpan("w", plan, 0, j))
  BY <1>1, <1>2, <1>3 DEF Marches
<1>5. PICK p \in Nat \ {0}, x \in Nat :
        /\ p = Power(Base, pn) /\ x = Value(mem, BzSpan("w", plan, i, 1)) /\ r \in Nat
        /\ Value(mem, BzSpan("w", plan, i, 2)) = x + p * r
        /\ Cut(BzSpan("w", plan, i, 2), pn, pn) = BzSpan("w", plan, j, 1)
  <2>1. i + (1 + 1) <= plan.t
    BY <1>1
  <2>2. /\ Splits(Value(mem, BzSpan("w", plan, i, 1 + 1)), Value(mem, BzSpan("w", plan, i, 1)),
                  Power(Base, 1 * plan.n), Value(mem, BzSpan("w", plan, i + 1, 1)))
        /\ Cut(BzSpan("w", plan, i, 1 + 1), 1 * plan.n, 1 * plan.n) = BzSpan("w", plan, i + 1, 1)
        /\ Value(mem, BzSpan("w", plan, i, 1)) \in Nat
        /\ Value(mem, BzSpan("w", plan, i + 1, 1)) \in Nat
        /\ Power(Base, 1 * plan.n) \in Nat \ {0}
    BY <2>1, SpanSplit
  <2>3. 1 + 1 = 2
    OBVIOUS
  <2>4. QED
    BY <1>1, <1>2, <1>4, <2>2, <2>3 DEF Splits
<1>6. PICK low \in Nat, e \in Nat :
        /\ low = Value(mem, BzSpan("w", plan, 0, i)) /\ e = Power(Base, i * pn)
        /\ Value(mem, BzSpan("w", plan, 0, j)) = low + e * x
  <2>1. 0 + (i + 1) <= plan.t
    BY <1>1
  <2>2. /\ Splits(Value(mem, BzSpan("w", plan, 0, i + 1)), Value(mem, BzSpan("w", plan, 0, i)),
                  Power(Base, i * plan.n), Value(mem, BzSpan("w", plan, 0 + i, 1)))
        /\ Value(mem, BzSpan("w", plan, 0, i)) \in Nat
        /\ Power(Base, i * plan.n) \in Nat \ {0}
    BY <2>1, SpanSplit
  <2>3. 0 + i = i
    OBVIOUS
  <2>4. QED
    BY <1>1, <1>2, <1>5, <2>2, <2>3 DEF Splits
<1>7. Power(Base, j * pn) = e * p
  <2>1. PICK y \in Nat : y = i * pn
    OBVIOUS
  <2>2. j * pn = y + pn
    BY <1>1, <2>1
  <2>3. Base \in Nat
    BY BaseType
  <2>4. Power(Base, y + pn) = Power(Base, y) * Power(Base, pn)
    BY <2>3, PowerSum
  <2>5. QED
    BY <1>5, <1>6, <2>1, <2>2, <2>4
<1>8. n = (done * d * p + (x + p * r)) * e + low
  BY <1>4, <1>5, <1>6, <1>7, NextWindow
<1>9. /\ In(BzSpan("w", plan, i, 2), BzSize(plan)) /\ BzSpan("w", plan, i, 2).area = "w"
      /\ BzSpan("w", plan, i, 2).n = 2 * plan.n
  <2>1. i + 2 <= plan.t
    BY <1>1
  <2>2. QED
    BY <2>1, BlocksIn
<1>10. i + 2 <= plan.t
  BY <1>1
<1>11. QED
  BY <1>1, <1>2, <1>3, <1>4, <1>5, <1>6, <1>8, <1>9, <1>10

LEMMA MarchStep ==
  ASSUME NEW mem, NEW plan, PlanFits(plan), Memory(mem, BzSize(plan)), NEW n \in Nat, NEW d \in Nat,
         NEW f, IsDriver(f, mem, plan, d), f.left > 0, Marches(f, mem, plan, n, d),
         NEW i, i = f.left - 1, NEW g, g = [f EXCEPT !.left = i],
         NEW op, op = (IF f.approx /\ i = 0 THEN "divappr" ELSE "2n1n"), NEW c,
         c = BzCall(op, mem, Span("w", i * plan.n, 2 * plan.n), Span("b", 0, plan.n),
                    Span("q", i * plan.n, plan.n))
  PROVE  /\ IsDriver(g, mem, plan, d) /\ IsCall(c, mem, BzSize(plan))
         /\ Waits(g, c, mem, plan, n, d) /\ Stands(c, mem, plan)
<1>1. i \in Nat /\ i + 1 = f.left /\ i \in 0 .. plan.t - 1
  <2>1. PICK t \in Nat : t = plan.t
    BY DEF PlanFits
  <2>2. PICK j \in Nat : j = f.left /\ j <= t - 1 /\ j > 0
    BY <2>1 DEF IsDriver
  <2>3. i = j - 1
    BY <2>2
  <2>4. QED
    BY <2>1, <2>2, <2>3
<1>2. PICK a : /\ a = BzSpan("w", plan, i, 2) /\ Value(mem, Cut(a, plan.n, plan.n)) < d
               /\ In(a, BzSize(plan)) /\ i + 2 <= plan.t
               /\ a.area = "w" /\ a.n = plan.n + plan.n
               /\ n = (Value(mem, BzSpan("q", plan, i + 1, plan.t - 2 - i)) * d
                          * Power(Base, plan.n) + Value(mem, a)) * Power(Base, i * plan.n)
                      + Value(mem, BzSpan("w", plan, 0, i))
  <2>1. PICK a : a = BzSpan("w", plan, i, 2)
    OBVIOUS
  <2>2. QED
    BY <1>1, <2>1, MarchWindow
<1>3. PICK pn \in Nat \ {0} : pn = plan.n /\ 1 * pn = pn
  <2>1. PICK pn \in Nat \ {0} : pn = plan.n
    BY DEF PlanFits
  <2>2. 1 * pn = pn
    OBVIOUS
  <2>3. QED
    BY <2>1, <2>2
<1>4. PICK q : q = BzSpan("q", plan, i, 1) /\ In(q, BzSize(plan)) /\ q.area = "q" /\ q.n = plan.n
  <2>1. i + 1 <= plan.t /\ i + 1 <= plan.t - 1 /\ 1 \in Nat
    <3>1. PICK t \in Nat : t = plan.t
      BY DEF PlanFits
    <3>2. QED
      BY <1>1, <1>2, <3>1
  <2>2. In(BzSpan("q", plan, i, 1), BzSize(plan)) /\ BzSpan("q", plan, i, 1).area = "q"
        /\ BzSpan("q", plan, i, 1).n = 1 * plan.n
    BY <1>1, <2>1, BlocksIn
  <2>3. QED
    BY <1>3, <2>2
<1>5. In(Divisor(plan), BzSize(plan)) /\ Divisor(plan).n = plan.n /\ Divisor(plan).area = "b"
  BY DivisorIn
<1>6. Value(mem, Divisor(plan)) = d /\ Power(Base, plan.n) <= 2 * d
  BY DEF IsDriver
<1>7. c = BzCall(op, mem, a, Divisor(plan), q)
  BY <1>2, <1>3, <1>4 DEF BzSpan, Divisor
<1>8. /\ IsCall(c, mem, BzSize(plan)) /\ Stands(c, mem, plan)
      /\ c.op = op /\ c.a = a /\ c.b = Divisor(plan) /\ c.q = q /\ c.value = Value(mem, a)
  <2>1. op \in {"2n1n", "3n2n", "divappr"} /\ op # "3n2n"
    OBVIOUS
  <2>2. q.n \in Nat \ {0} /\ a.n = Divisor(plan).n + q.n /\ Divisor(plan).n = q.n
    BY <1>2, <1>3, <1>4, <1>5
  <2>3. Power(Base, Divisor(plan).n) <= 2 * Value(mem, Divisor(plan))
        /\ Value(mem, Cut(a, q.n, Divisor(plan).n)) < Value(mem, Divisor(plan))
    BY <1>2, <1>4, <1>5, <1>6
  <2>4. QED
    BY <1>2, <1>4, <1>5, <1>7, <2>1, <2>2, <2>3, NewCall
<1>9. g.op = "driver" /\ g.approx = f.approx /\ g.left = i /\ IsDriver(g, mem, plan, d)
  <2>1. f = [op |-> "driver", pc |-> "march", approx |-> f.approx, left |-> f.left]
    BY DEF IsDriver
  <2>2. g = [op |-> "driver", pc |-> "march", approx |-> f.approx, left |-> i]
    BY <2>1
  <2>3. QED
    BY <1>1, <2>2 DEF IsDriver
<1>10. WaitsWindow(g, c, mem, plan, n, d)
  BY <1>2, <1>4, <1>8, <1>9 DEF WaitsWindow
<1>11. QED
  BY <1>8, <1>9, <1>10 DEF Waits

-----------------------------------------------------------------------------
(* The plan of a division.                                                 *)

(* Every number has a width in bits. *)
LEMMA WidthExists ==
  ASSUME NEW x \in Nat
  PROVE  \E b \in 0 .. x : x < Power(2, b) /\ (b = 0 \/ Power(2, b - 1) <= x)
<1> DEFINE S == {y \in Nat : \E b \in 0 .. y : y < Power(2, b) /\ (b = 0 \/ Power(2, b - 1) <= y)}
<1>1. 0 \in S
  <2>1. Power(2, 0) = 1
    BY PowerOne
  <2>2. QED
    BY <2>1
<1>2. ASSUME NEW y \in S PROVE y + 1 \in S
  <2>1. PICK b \in 0 .. y : y < Power(2, b) /\ (b = 0 \/ Power(2, b - 1) <= y)
    OBVIOUS
  <2>2. b \in Nat /\ Power(2, b) \in Nat \ {0} /\ Power(2, b + 1) = 2 * Power(2, b)
    <3>1. b \in Nat /\ 2 \in Nat /\ 2 \in Nat \ {0}
      OBVIOUS
    <3>2. QED
      BY <3>1, PowerStep, PowerPositive
  <2>3. CASE y + 1 < Power(2, b)
    <3>1. b # 0
      <4>1. Power(2, 0) = 1
        BY PowerOne
      <4>2. QED
        BY <2>3, <4>1
    <3>2. Power(2, b - 1) \in Nat
      <4>1. b - 1 \in Nat
        BY <3>1
      <4>2. QED
        BY <4>1, PowerPositive
    <3>3. Power(2, b - 1) <= y + 1 /\ b \in 0 .. y + 1
      BY <2>1, <3>1, <3>2
    <3>4. QED
      BY <2>3, <3>3
  <2>4. CASE ~(y + 1 < Power(2, b))
    <3>1. PICK w \in Nat : w = b + 1 /\ w \in 0 .. y + 1 /\ w - 1 = b
      BY <2>1
    <3>2. y + 1 < Power(2, w) /\ Power(2, w - 1) <= y + 1
      BY <2>1, <2>2, <2>4, <3>1
    <3>3. QED
      BY <3>1, <3>2
  <2>5. QED
    BY <2>3, <2>4
<1> HIDE DEF S
<1>3. x \in S
  <2>1. S \in SUBSET Nat
    BY DEF S
  <2>2. QED
    BY <1>1, <1>2, <2>1, Induction
<1>4. QED
  BY <1>3 DEF S

(* What is rounded up does not shrink. *)
LEMMA RoundedUpIs ==
  ASSUME NEW s \in Nat, NEW k \in Nat
  PROVE  RoundedUp(s, k) \in Nat /\ s <= RoundedUp(s, k)
<1>1. PICK p \in Nat \ {0} : p = Power(2, k)
  BY PowerPositive
<1>2. PICK q \in Nat, r \in 0 .. p - 1 : q = (s + p - 1) \div p /\ s + p - 1 = p * q + r
  <2>1. s + p - 1 \in Nat /\ s + p - 1 \in Int
    OBVIOUS
  <2>2. (s + p - 1) \div p \in Nat
    BY <2>1, DivNat
  <2>3. (s + p - 1) % p \in 0 .. p - 1
        /\ s + p - 1 = p * ((s + p - 1) \div p) + ((s + p - 1) % p)
    BY <2>1, DivMod
  <2>4. QED
    BY <2>2, <2>3
<1>3. RoundedUp(s, k) = q * p
  BY <1>1, <1>2 DEF RoundedUp, InParts
<1>4. q * p = p * q /\ p * q \in Nat /\ s <= p * q
  <2>1. PICK y \in Nat : y = p * q
    OBVIOUS
  <2>2. s <= y
    BY <1>2, <2>1
  <2>3. QED
    BY <2>1, <2>2
<1>5. QED
  BY <1>3, <1>4

LEMMA PaddedIs ==
  ASSUME NEW s \in Nat, NEW threshold \in Nat \ {0}
  PROVE  PaddedLimbs(s, threshold) \in Nat /\ s <= PaddedLimbs(s, threshold)
<1> DEFINE Is(b) == /\ s \div threshold < Power(2, b)
                    /\ b = 0 \/ Power(2, b - 1) <= s \div threshold
           width == CHOOSE b \in 0 .. s : Is(b)
<1>1. \E b \in 0 .. s : Is(b)
  <2>1. PICK x \in Nat : x = s \div threshold /\ x <= s
    BY DivNat
  <2>2. PICK b \in 0 .. x : x < Power(2, b) /\ (b = 0 \/ Power(2, b - 1) <= x)
    BY WidthExists
  <2>3. b \in 0 .. s
    BY <2>1
  <2>4. QED
    BY <2>1, <2>2, <2>3
<1>2. width \in 0 .. s
  BY <1>1
<1>3. PaddedLimbs(s, threshold) = RoundedUp(s, width)
  BY DEF PaddedLimbs
<1> HIDE DEF width
<1>4. width \in Nat
  BY <1>2
<1>5. QED
  BY <1>3, <1>4, RoundedUpIs

(* The bits of a number of two limbs or more. *)
LEMMA BitsAre ==
  ASSUME NEW x \in Nat, LimbsNeeded(x) >= 2
  PROVE  /\ BzBits(x) \in Nat /\ BzBits(x) <= LimbsNeeded(x) * LimbBits
         /\ x < Power(2, BzBits(x)) /\ Power(2, BzBits(x)) <= 2 * x
<1>1. PICK m \in Nat : m = LimbsNeeded(x) /\ HasLimbs(x, m) /\ 2 <= m
  BY LimbsNeededHas DEF HasLimbs
<1>2. PICK k \in Nat : k = m - 1 /\ k + 1 = m
  BY <1>1
<1>3. PICK s \in Nat, z \in Nat \ {0}, top \in Nat :
        /\ s = LeadingZeros(Digit(x, m - 1)) /\ z = Power(2, s) /\ z < Base
        /\ x * z \in Nat /\ x * z < Power(Base, m)
        /\ top = Digit(x * z, k) /\ Base <= 2 * top
  <2>1. /\ LeadingZeros(Digit(x, m - 1)) \in Nat
        /\ Power(2, LeadingZeros(Digit(x, m - 1))) \in Nat \ {0}
        /\ Power(2, LeadingZeros(Digit(x, m - 1))) < Base
        /\ x * Power(2, LeadingZeros(Digit(x, m - 1))) \in Nat
        /\ x * Power(2, LeadingZeros(Digit(x, m - 1))) < Power(Base, m)
        /\ Digit(x * Power(2, LeadingZeros(Digit(x, m - 1))), m - 1) \in 1 .. Base - 1
        /\ Normalized(Digit(x * Power(2, LeadingZeros(Digit(x, m - 1))), m - 1))
    BY <1>1, StartDivisor
  <2>2. Digit(x * Power(2, LeadingZeros(Digit(x, m - 1))), m - 1) \in Nat
    BY <2>1, BaseType
  <2>3. QED
    BY <1>2, <2>1, <2>2 DEF Normalized
<1>4. Power(Base, m) <= 2 * (x * z)
  <2>1. PICK D \in Nat, p \in Nat \ {0} : D = x * z /\ p = Power(Base, k)
    BY <1>3, BasePower
  <2>2. D = p * top + (D % p)
    <3>1. D < Power(Base, k + 1)
      BY <1>2, <1>3, <2>1
    <3>2. QED
      BY <1>3, <2>1, <3>1, TopDigit
  <2>3. D % p \in 0 .. p - 1
    <3>1. D \in Int
      OBVIOUS
    <3>2. QED
      BY <3>1, DivMod
  <2>4. PICK b \in Nat : b = Base /\ Power(Base, m) = b * p
    <3>1. Power(Base, k + 1) = Base * Power(Base, k)
      BY BaseType, PowerStep
    <3>2. QED
      BY <1>2, <2>1, <3>1, BaseType
  <2>5. b * p <= (2 * top) * p
    <3>1. b <= 2 * top
      BY <1>3, <2>4
    <3>2. QED
      BY <3>1, MulPos
  <2>6. PICK y \in Nat : y = p * top /\ (2 * top) * p = 2 * y
    OBVIOUS
  <2>7. y <= D
    BY <2>2, <2>3, <2>6
  <2>8. QED
    BY <2>1, <2>4, <2>5, <2>6, <2>7
<1>5. PICK w \in Nat : w = LimbBits * m /\ Power(Base, m) = Power(2, w) /\ m * LimbBits = w
  <2>1. LimbBits * m \in Nat /\ m * LimbBits = LimbBits * m
    BY LimbAssumption
  <2>2. Power(Power(2, LimbBits), m) = Power(2, LimbBits * m)
    BY LimbAssumption, PowerPower
  <2>3. QED
    BY <2>1, <2>2, BaseIsPower
<1>6. s <= w
  <2>1. ASSUME w < s PROVE FALSE
    <3>1. LimbBits <= s
      <4>1. PICK l \in Nat : l = LimbBits
        BY LimbAssumption
      <4>2. l * 1 <= l * m
        BY <1>1
      <4>3. QED
        BY <1>5, <2>1, <4>1, <4>2
    <3>2. Power(2, LimbBits) <= Power(2, s)
      BY <3>1, LimbAssumption, PowerGrows
    <3>3. QED
      BY <1>3, <3>2, BaseIsPower, BaseType
  <2>2. QED
    BY <2>1
<1>7. PICK bits \in Nat : bits = w - s /\ bits + s = w /\ bits = BzBits(x) /\ bits <= w
  <2>1. w - s \in Nat /\ (w - s) + s = w /\ w - s <= w
    BY <1>6
  <2>2. BzBits(x) = w - s
    BY <1>1, <1>3, <1>5 DEF BzBits
  <2>3. QED
    BY <2>1, <2>2
<1>8. PICK e \in Nat \ {0} : e = Power(2, bits) /\ Power(Base, m) = e * z
  <2>1. Power(2, bits + s) = Power(2, bits) * Power(2, s) /\ Power(2, bits) \in Nat \ {0}
    <3>1. 2 \in Nat /\ 2 \in Nat \ {0}
      OBVIOUS
    <3>2. QED
      BY <3>1, PowerSum, PowerPositive
  <2>2. QED
    BY <1>3, <1>5, <1>7, <2>1
<1>9. x < e
  <2>1. ASSUME e <= x PROVE FALSE
    <3>1. e * z <= x * z
      BY <2>1, MulPos
    <3>2. QED
      BY <1>3, <1>8, <3>1
  <2>2. QED
    BY <2>1
<1>10. e <= 2 * x
  <2>1. ASSUME 2 * x + 1 <= e PROVE FALSE
    <3>1. (2 * x + 1) * z <= e * z
      BY <2>1, MulPos
    <3>2. (2 * x + 1) * z = 2 * (x * z) + z
      OBVIOUS
    <3>3. QED
      BY <1>3, <1>4, <1>8, <3>1, <3>2
  <2>2. QED
    BY <2>1
<1>11. QED
  BY <1>1, <1>5, <1>7, <1>8, <1>9, <1>10

LEMMA BlocksCover ==
  ASSUME NEW total \in Nat, NEW width \in Nat \ {0}
  PROVE  BlockCount(total, width) \in Nat /\ BlockCount(total, width) >= 2
         /\ total + 1 <= BlockCount(total, width) * width
<1>1. PICK q \in Nat, r \in 0 .. width - 1 : q = total \div width /\ total = width * q + r
  <2>1. total \in Int
    OBVIOUS
  <2>2. total \div width \in Nat
    BY DivNat
  <2>3. total % width \in 0 .. width - 1 /\ total = width * (total \div width) + (total % width)
    BY <2>1, DivMod
  <2>4. QED
    BY <2>2, <2>3
<1>2. PICK t : t = BlockCount(total, width) /\ t = (IF q + 1 < 2 THEN 2 ELSE q + 1)
  BY <1>1 DEF BlockCount
<1>3. t \in Nat /\ t >= 2 /\ q + 1 <= t
  BY <1>2
<1>4. (q + 1) * width <= t * width
  BY <1>3, MulPos
<1>5. (q + 1) * width = width * q + width /\ width * q \in Nat /\ t * width \in Nat
  BY <1>3
<1>6. QED
  BY <1>1, <1>2, <1>3, <1>4, <1>5

(* The plan of a call: the shifted divisor fills its limbs, and the shifted dividend its blocks. *)
SetUp(plan, num, den, threshold) ==
  /\ PlanFits(plan) /\ plan.n = PaddedLimbs(LimbsNeeded(den), threshold)
  /\ plan.threshold = threshold /\ plan.sigma \in Nat
  /\ Power(2, plan.sigma) \in Nat \ {0}
  /\ den * Power(2, plan.sigma) < Power(Base, plan.n)
  /\ Power(Base, plan.n) <= 2 * (den * Power(2, plan.sigma))
  /\ 2 * (num * Power(2, plan.sigma)) < Power(Base, plan.t * plan.n)

LEMMA PlanIs ==
  ASSUME NEW num \in Nat, NEW den \in Nat, NEW threshold \in Nat \ {0},
         LimbsNeeded(num) >= 2, LimbsNeeded(den) >= 2,
         NEW plan, plan = BzPlan(num, den, threshold)
  PROVE  SetUp(plan, num, den, threshold)
<1>1. PICK m \in Nat : m = LimbsNeeded(den) /\ m >= 2
  BY LimbsNeededHas DEF HasLimbs
<1>2. PICK n \in Nat \ {0} : n = PaddedLimbs(m, threshold) /\ m <= n
  <2>1. PaddedLimbs(m, threshold) \in Nat /\ m <= PaddedLimbs(m, threshold)
    BY PaddedIs
  <2>2. QED
    BY <1>1, <2>1
<1>3. PICK lb \in Nat \ {0} : lb = LimbBits
  BY LimbAssumption
<1>4. PICK e \in Nat : e = BzBits(den) /\ e <= m * lb /\ den < Power(2, e) /\ Power(2, e) <= 2 * den
  BY <1>1, <1>3, BitsAre
<1>5. PICK w \in Nat \ {0} : w = n * lb /\ e <= w /\ lb * n = w
  <2>1. m * lb <= n * lb
    BY <1>2, MulPos
  <2>2. n * lb \in Nat /\ n * lb # 0 /\ lb * n = n * lb /\ m * lb \in Nat
    <3>1. 1 * lb <= n * lb
      BY MulPos
    <3>2. QED
      BY <3>1
  <2>3. QED
    BY <1>4, <2>1, <2>2
<1>6. PICK sigma \in Nat : sigma = w - e /\ e + sigma = w
  BY <1>5
<1>7. PICK bits \in Nat : bits = BzBits(num) /\ num < Power(2, bits)
  BY BitsAre
<1>8. PICK total \in Nat, t \in Nat :
        total = bits + sigma /\ t = BlockCount(total, w) /\ t >= 2 /\ total + 1 <= t * w
  <2>1. PICK total \in Nat : total = bits + sigma
    OBVIOUS
  <2>2. QED
    BY <2>1, BlocksCover
<1>9. plan.n = n /\ plan.t = t /\ plan.sigma = sigma /\ plan.threshold = threshold
  BY <1>1, <1>2, <1>3, <1>4, <1>5, <1>6, <1>7, <1>8 DEF BzPlan
<1>10. PICK z \in Nat \ {0}, p \in Nat \ {0}, x \in Nat \ {0} :
         z = Power(2, sigma) /\ p = Power(2, e) /\ x = Power(2, bits)
  <2>1. 2 \in Nat \ {0}
    OBVIOUS
  <2>2. QED
    BY <2>1, PowerPositive
<1>11. Power(Base, n) = p * z
  <2>1. Power(Power(2, LimbBits), n) = Power(2, LimbBits * n)
    BY <1>3, PowerPower
  <2>2. Power(2, e + sigma) = Power(2, e) * Power(2, sigma)
    BY PowerSum
  <2>3. QED
    BY <1>3, <1>5, <1>6, <1>10, <2>1, <2>2, BaseIsPower
<1>12. den * z < p * z
  <2>1. (den + 1) * z <= p * z
    BY <1>4, <1>10, MulPos
  <2>2. (den + 1) * z = den * z + z
    OBVIOUS
  <2>3. QED
    BY <2>1, <2>2
<1>13. p * z <= 2 * (den * z)
  <2>1. p * z <= (2 * den) * z
    BY <1>4, <1>10, MulPos
  <2>2. (2 * den) * z = 2 * (den * z)
    OBVIOUS
  <2>3. QED
    BY <2>1, <2>2
<1>14. num * z < x * z
  <2>1. (num + 1) * z <= x * z
    BY <1>7, <1>10, MulPos
  <2>2. (num + 1) * z = num * z + z
    OBVIOUS
  <2>3. QED
    BY <2>1, <2>2
<1>15. 2 * (x * z) <= Power(Base, t * n)
  <2>1. PICK y \in Nat : y = t * n /\ t * w = lb * y
    <3>1. t * n \in Nat /\ t * w = lb * (t * n)
      BY <1>5
    <3>2. QED
      BY <3>1
  <2>2. Power(Power(2, LimbBits), y) = Power(2, LimbBits * y)
    BY <1>3, PowerPower
  <2>3. Power(2, total + 1) <= Power(2, lb * y)
    <3>1. total + 1 \in Nat /\ lb * y \in Nat /\ total + 1 <= lb * y /\ 2 \in Nat \ {0}
      BY <1>8, <2>1
    <3>2. QED
      BY <3>1, PowerGrows
  <2>4. Power(2, total + 1) = 2 * Power(2, total) /\ Power(2, bits + sigma) = x * z
    <3>1. 2 \in Nat
      OBVIOUS
    <3>2. Power(2, total + 1) = 2 * Power(2, total)
      BY <3>1, PowerStep
    <3>3. Power(2, bits + sigma) = Power(2, bits) * Power(2, sigma)
      BY <3>1, PowerSum
    <3>4. QED
      BY <1>10, <3>2, <3>3
  <2>5. QED
    BY <1>3, <1>8, <2>1, <2>2, <2>3, <2>4, BaseIsPower
<1>16. PICK y \in Nat : y = Power(Base, t * n)
  <2>1. t * n \in Nat
    BY <1>2
  <2>2. QED
    BY <2>1, BasePower
<1>17. 2 * (num * z) < y
  <2>1. PICK i \in Nat, j \in Nat : i = num * z /\ j = x * z
    OBVIOUS
  <2>2. i < j /\ 2 * j <= y
    BY <1>14, <1>15, <1>16, <2>1
  <2>3. QED
    BY <2>1, <2>2
<1>18. QED
  BY <1>1, <1>2, <1>8, <1>9, <1>10, <1>11, <1>12, <1>13, <1>16, <1>17
     DEF PlanFits, SetUp

-----------------------------------------------------------------------------
(* The workspace.                                                          *)

(* An array that holds a number. *)
LEMMA ArrayIs ==
  ASSUME NEW n \in Nat, NEW v \in Nat
  PROVE  /\ ArrayOf(n, v) \in [0 .. n - 1 -> 0 .. Base - 1]
         /\ v < Power(Base, n) => Magnitude(ArrayOf(n, v), n) = v
<1>1. PICK d : d = ArrayOf(n, v) /\ d = [i \in 0 .. n - 1 |-> Digit(v, i)]
  BY DEF ArrayOf
<1>2. PICK b \in Nat \ {0} : b = Base
  BY BaseType
<1>3. DigitsBelow(b, d, n) /\ FromDigits(b, d, n) = v % Power(b, n)
  <2>1. \A i \in 0 .. n - 1 : d[i] = (v \div Power(b, i)) % b
    BY <1>1, <1>2 DEF Digit
  <2>2. v \in Int
    OBVIOUS
  <2>3. QED
    BY <2>1, <2>2, DigitsOfNumber
<1>4. ArrayOf(n, v) \in [0 .. n - 1 -> 0 .. Base - 1]
  BY <1>1, <1>2, <1>3 DEF DigitsBelow
<1>5. ASSUME v < Power(Base, n) PROVE Magnitude(ArrayOf(n, v), n) = v
  <2>1. PICK p \in Nat \ {0} : p = Power(b, n) /\ v < p
    BY <1>2, <1>5, BasePower
  <2>2. v % p = v
    <3>1. v = p * 0 + v /\ v \in 0 .. p - 1 /\ v \in Int /\ 0 \in Int
      BY <2>1
    <3>2. QED
      BY <3>1, DivUnique
  <2>3. QED
    BY <1>1, <1>2, <1>3, <2>1, <2>2 DEF Magnitude
<1>6. QED
  BY <1>4, <1>5

(* The number of a whole array. *)
LEMMA WholeArray ==
  ASSUME NEW mem, NEW area, NEW n \in Nat, NEW v \in Nat, v < Power(Base, n),
         mem[area] = ArrayOf(n, v)
  PROVE  Value(mem, Span(area, 0, n)) = v
<1>1. PICK d : d = ArrayOf(n, v) /\ d = [i \in 0 .. n - 1 |-> Digit(v, i)]
  BY DEF ArrayOf
<1>2. PICK s : s = Span(area, 0, n) /\ s.area = area /\ s.at = 0 /\ s.n = n
  <2>1. Span(area, 0, n) = [area |-> area, at |-> 0, n |-> n]
    BY DEF Span
  <2>2. PICK s : s = [area |-> area, at |-> 0, n |-> n]
    OBVIOUS
  <2>3. s.area = area /\ s.at = 0 /\ s.n = n
    BY <2>2
  <2>4. QED
    BY <2>1, <2>2, <2>3
<1>3. [i \in 0 .. s.n - 1 |-> Limb(mem, s, i)] = d
  <2>1. \A i \in 0 .. n - 1 : 0 + i = i
    OBVIOUS
  <2>2. \A i \in 0 .. n - 1 : Limb(mem, s, i) = d[i]
    BY <1>1, <1>2, <2>1 DEF Limb
  <2>3. QED
    BY <1>1, <1>2, <2>2
<1>4. Magnitude(d, n) = v
  BY <1>1, ArrayIs
<1>5. QED
  BY <1>2, <1>3, <1>4 DEF Value

LEMMA WorkspaceIs ==
  ASSUME NEW num, NEW den, NEW plan, PlanFits(plan), NEW x \in Nat, NEW d \in Nat,
         x = num * Power(2, plan.sigma), d = den * Power(2, plan.sigma),
         x < Power(Base, plan.t * plan.n), d < Power(Base, plan.n),
         NEW mem, mem = BzWorkspace(num, den, plan)
  PROVE  /\ Memory(mem, BzSize(plan)) /\ Value(mem, Divisor(plan)) = d
         /\ Value(mem, BzSpan("w", plan, 0, plan.t)) = x
<1>1. PICK n \in Nat, t \in Nat, k \in Nat, l \in Nat :
        n = plan.n /\ t = plan.t /\ k = (plan.t - 1) * plan.n /\ l = plan.t * plan.n
  BY SizeIs DEF PlanFits
<1>2. mem = [b |-> ArrayOf(n, d), w |-> ArrayOf(l, x), q |-> Filled(k, Base - 1)]
  BY <1>1 DEF BzWorkspace
<1>3. mem["b"] = ArrayOf(n, d) /\ mem["w"] = ArrayOf(l, x) /\ mem["q"] = Filled(k, Base - 1)
      /\ mem = [y \in Areas |-> mem[y]]
  BY <1>2 DEF Areas
<1>4. Filled(k, Base - 1) \in [0 .. k - 1 -> 0 .. Base - 1]
  <2>1. Base - 1 \in 0 .. Base - 1
    BY BaseType
  <2>2. QED
    BY <2>1 DEF Filled
<1>5. ArrayOf(n, d) \in [0 .. n - 1 -> 0 .. Base - 1]
      /\ ArrayOf(l, x) \in [0 .. l - 1 -> 0 .. Base - 1]
  BY ArrayIs
<1>6. /\ DOMAIN BzSize(plan) = Areas /\ BzSize(plan)["b"] = n /\ BzSize(plan)["q"] = k
      /\ BzSize(plan)["w"] = l
  BY <1>1, SizeIs
<1>7. \A y \in Areas : BzSize(plan)[y] \in Nat
      /\ mem[y] \in [0 .. BzSize(plan)[y] - 1 -> 0 .. Base - 1]
  BY <1>3, <1>4, <1>5, <1>6 DEF Areas
<1>8. Memory(mem, BzSize(plan))
  BY <1>3, <1>6, <1>7 DEF Memory
<1>9. Value(mem, Span("b", 0, n)) = d
  BY <1>1, <1>3, WholeArray
<1>10. Value(mem, Span("w", 0, l)) = x
  BY <1>1, <1>3, WholeArray
<1>11. 0 * n = 0
  OBVIOUS
<1>12. QED
  BY <1>1, <1>8, <1>9, <1>10, <1>11 DEF Divisor, BzSpan

(* The top block of a dividend with a bit to spare is below the divisor. *)
LEMMA TopBlockBelow ==
  ASSUME NEW p \in Nat, NEW e \in Nat \ {0}, NEW d \in Nat, p <= 2 * d, NEW r \in Nat,
         NEW low \in Nat, 2 * (low + e * r) < p * e
  PROVE  r < d
<1>1. ASSUME d <= r PROVE FALSE
  <2>1. p * e <= (2 * r) * e
    <3>1. p <= 2 * r
      BY <1>1
    <3>2. QED
      BY <3>1, MulPos
  <2>2. PICK y \in Nat : y = e * r /\ (2 * r) * e = 2 * y
    OBVIOUS
  <2>3. PICK z \in Nat : z = p * e
    OBVIOUS
  <2>4. QED
    BY <2>1, <2>2, <2>3
<1>2. QED
  BY <1>1

(* The march from the top. *)
LEMMA MarchStarts ==
  ASSUME NEW plan, PlanFits(plan), NEW x \in Nat, NEW d \in Nat, NEW mem,
         Memory(mem, BzSize(plan)), Value(mem, Divisor(plan)) = d,
         Value(mem, BzSpan("w", plan, 0, plan.t)) = x, Power(Base, plan.n) <= 2 * d,
         2 * x < Power(Base, plan.t * plan.n), NEW approx \in BOOLEAN,
         NEW f, f = BzDriver(approx, plan.t - 1)
  PROVE  IsDriver(f, mem, plan, d) /\ Marches(f, mem, plan, x, d)
<1>1. PICK n \in Nat \ {0}, t \in Nat, i \in Nat :
        n = plan.n /\ t = plan.t /\ i + 1 = t /\ i = t - 1 /\ i >= 1 /\ 1 * n = n
  <2>1. PICK n \in Nat \ {0}, t \in Nat : n = plan.n /\ t = plan.t /\ t >= 2
    BY DEF PlanFits
  <2>2. PICK i \in Nat : i = t - 1 /\ i + 1 = t /\ i >= 1
    BY <2>1
  <2>3. 1 * n = n
    OBVIOUS
  <2>4. QED
    BY <2>1, <2>2, <2>3
<1>2. f = [op |-> "driver", pc |-> "march", approx |-> approx, left |-> i]
  BY <1>1 DEF BzDriver
<1>3. IsDriver(f, mem, plan, d)
  <2>1. i \in 0 .. plan.t - 1
    BY <1>1
  <2>2. QED
    BY <1>2, <2>1 DEF IsDriver
<1>4. PICK low \in Nat, e \in Nat \ {0}, r \in Nat :
        /\ low = Value(mem, BzSpan("w", plan, 0, i)) /\ e = Power(Base, i * n)
        /\ r = Value(mem, BzSpan("w", plan, i, 1)) /\ x = low + e * r
  <2>1. 0 + (i + 1) <= plan.t
    BY <1>1
  <2>2. /\ Splits(Value(mem, BzSpan("w", plan, 0, i + 1)), Value(mem, BzSpan("w", plan, 0, i)),
                  Power(Base, i * plan.n), Value(mem, BzSpan("w", plan, 0 + i, 1)))
        /\ Value(mem, BzSpan("w", plan, 0, i)) \in Nat
        /\ Value(mem, BzSpan("w", plan, 0 + i, 1)) \in Nat
        /\ Power(Base, i * plan.n) \in Nat \ {0}
    BY <2>1, SpanSplit
  <2>3. 0 + i = i
    OBVIOUS
  <2>4. QED
    BY <1>1, <2>2, <2>3 DEF Splits
<1>5. PICK p \in Nat \ {0} : p = Power(Base, n) /\ Power(Base, t * n) = p * e
  <2>1. PICK y \in Nat : y = i * n
    OBVIOUS
  <2>2. t * n = n + y
    <3>1. t = i + 1
      BY <1>1
    <3>2. QED
      BY <2>1, <3>1
  <2>3. Power(Base, n + y) = Power(Base, n) * Power(Base, y) /\ Power(Base, n) \in Nat \ {0}
    BY BaseType, PowerSum, BasePower
  <2>4. QED
    BY <1>4, <2>1, <2>2, <2>3
<1>6. r < d
  <2>1. 2 * (low + e * r) < p * e /\ p <= 2 * d
    BY <1>1, <1>4, <1>5
  <2>2. QED
    BY <2>1, TopBlockBelow
<1>7. Value(mem, BzSpan("q", plan, i, 0)) = 0
  <2>1. i <= plan.t /\ i <= plan.t - 1
    BY <1>1
  <2>2. QED
    BY <2>1, NoBlocks
<1>8. x = (0 * d + r) * e + low
  <2>1. 0 * d + r = r
    OBVIOUS
  <2>2. r * e = e * r /\ e * r \in Nat
    OBVIOUS
  <2>3. QED
    BY <1>4, <2>1, <2>2
<1>9. plan.t - 1 - i = 0 /\ f.left = i /\ i # 0
  BY <1>1, <1>2
<1>10. Marches(f, mem, plan, x, d)
  BY <1>1, <1>4, <1>6, <1>7, <1>8, <1>9 DEF Marches
<1>11. QED
  BY <1>3, <1>10

-----------------------------------------------------------------------------
(* Steps of the recursion, from the frames before to the frames after.     *)

(* What a call returns to. *)
LEMMA ReturnTo ==
  ASSUME NEW mem, NEW plan, PlanFits(plan), Memory(mem, BzSize(plan)), NEW n \in Nat, NEW m \in Nat,
         NEW f, IsCall(f, mem, BzSize(plan)), NEW g, IsCall(g, mem, BzSize(plan)),
         Waits(f, g, mem, plan, n, m), g.pc = "return", Stands(g, mem, plan)
  PROVE  Stands(f, mem, plan)
<1>1. IF g.op = "divappr" THEN Approximated(g, mem, plan) ELSE Divided(g, mem)
  BY DEF Stands
<1>2. ~WaitsWindow(f, g, mem, plan, n, m)
  BY DEF WaitsWindow, IsCall
<1>3. CASE WaitsUpper(f, g, mem, plan)
  <2>1. Divided(g, mem)
    BY <1>1, <1>3 DEF WaitsUpper
  <2>2. QED
    BY <1>3, <2>1, PopUpper
<1>4. CASE WaitsLower(f, g, mem, plan)
  <2>1. Divided(g, mem)
    BY <1>1, <1>4 DEF WaitsLower
  <2>2. QED
    BY <1>4, <2>1, PopLower
<1>5. CASE WaitsEstimate(f, g, mem)
  <2>1. Divided(g, mem)
    BY <1>1, <1>5 DEF WaitsEstimate
  <2>2. QED
    BY <1>5, <2>1, PopEstimate
<1>6. CASE WaitsApprox(f, g, mem, plan)
  <2>1. Approximated(g, mem, plan)
    BY <1>1, <1>6 DEF WaitsApprox
  <2>2. QED
    BY <1>6, <2>1, PopApprox
<1>7. QED
  BY <1>2, <1>3, <1>4, <1>5, <1>6 DEF Waits

LEMMA MarchesOn ==
  ASSUME NEW mem, NEW plan, PlanFits(plan), Memory(mem, BzSize(plan)), NEW n \in Nat, NEW m \in Nat,
         NEW f, IsDriver(f, mem, plan, m), NEW g, IsCall(g, mem, BzSize(plan)),
         Waits(f, g, mem, plan, n, m), g.pc = "return", Stands(g, mem, plan)
  PROVE  Marches(f, mem, plan, n, m)
<1>1. f.pc = "march" /\ f.op = "driver"
  BY DEF IsDriver
<1>2. WaitsWindow(f, g, mem, plan, n, m)
  BY <1>1 DEF Waits, WaitsUpper, WaitsLower, WaitsEstimate, WaitsApprox
<1>3. QED
  BY <1>2, PopWindow

(* The frame that runs, and what it is. *)
LEMMA TopFrame ==
  ASSUME NEW fr, NEW d, NEW c, NEW mem, NEW plan, NEW n, NEW m,
         BzStack(fr, d, c, mem, plan, n, m)
  PROVE  /\ fr # <<>> /\ fr[Len(fr)] = fr[d] /\ Len(fr) = d /\ d \in Nat \ {0}
         /\ PlanFits(plan) /\ Memory(mem, BzSize(plan)) /\ n \in Nat /\ m \in Nat
         /\ fr[d].op = "driver" <=> c = d
         /\ c = d => /\ IsDriver(fr[d], mem, plan, m) /\ Marches(fr[d], mem, plan, n, m)
                     /\ fr[d].pc = "march"
         /\ c # d => /\ IsCall(fr[d], mem, BzSize(plan)) /\ Stands(fr[d], mem, plan)
                     /\ fr[d].op \in {"2n1n", "3n2n", "divappr"}
                     /\ fr[d].pc \in {"enter", "lower", "product", "correct", "return"}
<1>1. /\ PlanFits(plan) /\ Memory(mem, BzSize(plan)) /\ n \in Nat /\ m \in Nat
      /\ fr = [k \in 1 .. d |-> fr[k]] /\ d \in Nat \ {0} /\ IsDriver(fr[c], mem, plan, m)
      /\ \A k \in c + 1 .. d : IsCall(fr[k], mem, BzSize(plan))
      /\ IF c = d THEN Marches(fr[d], mem, plan, n, m) ELSE Stands(fr[d], mem, plan)
  BY DEF BzStack
<1>2. Len(fr) = d /\ fr # <<>>
  BY <1>1, FramesTop
<1>3. CASE c = d
  <2>1. IsDriver(fr[d], mem, plan, m) /\ Marches(fr[d], mem, plan, n, m)
    BY <1>1, <1>3
  <2>2. fr[d].op = "driver" /\ fr[d].pc = "march"
    BY <2>1 DEF IsDriver
  <2>3. QED
    BY <1>1, <1>2, <1>3, <2>1, <2>2
<1>4. CASE c # d
  <2>1. d \in c + 1 .. d
    BY <1>4, RunsAbove
  <2>2. IsCall(fr[d], mem, BzSize(plan)) /\ Stands(fr[d], mem, plan)
    BY <1>1, <1>4, <2>1
  <2>3. /\ fr[d].op \in {"2n1n", "3n2n", "divappr"}
        /\ fr[d].pc \in {"enter", "lower", "product", "correct", "return"}
    BY <2>2 DEF IsCall
  <2>4. QED
    BY <1>1, <1>2, <1>4, <2>2, <2>3
<1>5. QED
  BY <1>3, <1>4

LEMMA ReturnStep ==
  ASSUME NEW fr, NEW d, NEW c, NEW mem, NEW plan, NEW n, NEW m,
         BzStack(fr, d, c, mem, plan, n, m), c # d, fr[d].pc = "return"
  PROVE  BzStack(SubSeq(fr, 1, Len(fr) - 1), d - 1, c, mem, plan, n, m)
<1>1. c \in 1 .. d - 1 /\ d - 1 \in Nat \ {0} /\ d \in Nat
  BY RunsAbove
<1>2. PICK e \in Nat \ {0} : e = d - 1 /\ e + 1 = d /\ e \in c .. d - 1
  BY <1>1
<1>3. /\ PlanFits(plan) /\ Memory(mem, BzSize(plan)) /\ n \in Nat /\ m \in Nat
      /\ IsCall(fr[d], mem, BzSize(plan)) /\ Stands(fr[d], mem, plan)
  BY TopFrame
<1>4. Waits(fr[e], fr[d], mem, plan, n, m)
  BY <1>2 DEF BzStack
<1>5. CASE c = e
  <2>1. IsDriver(fr[e], mem, plan, m)
    BY <1>5 DEF BzStack
  <2>2. Marches(fr[e], mem, plan, n, m)
    BY <1>3, <1>4, <2>1, MarchesOn
  <2>3. QED
    BY <1>2, <1>5, <2>2, BzPops
<1>6. CASE c # e
  <2>1. e \in c + 1 .. d
    BY <1>1, <1>2, <1>6
  <2>2. IsCall(fr[e], mem, BzSize(plan))
    BY <2>1 DEF BzStack
  <2>3. Stands(fr[e], mem, plan)
    BY <1>3, <1>4, <2>2, ReturnTo
  <2>4. QED
    BY <1>2, <1>6, <2>3, BzPops
<1>7. QED
  BY <1>5, <1>6

-----------------------------------------------------------------------------
(* The actions of the march.                                               *)

(* The record of a march. *)
BzRecord(x) ==
  x = [frames |-> x.frames, num |-> x.num, den |-> x.den, plan |-> x.plan, mem |-> x.mem]
SameNumbers(y, x) == y.num = x.num /\ y.den = x.den /\ y.plan = x.plan

(* The march goes on: the driver, what it divides and by what stay. *)
BzGoes(c, n, m) ==
  /\ BzRecord(bz') /\ SameNumbers(bz', bz)
  /\ \E d : BzStack(bz'.frames, d, c, bz'.mem, bz'.plan, n, m)

Rewritten(y, x, fr, new) == y = [x EXCEPT !.mem = new, !.frames = fr]
Reframed(y, x, fr) == y = [x EXCEPT !.frames = fr]

LEMMA RecordMoves ==
  ASSUME NEW x, BzRecord(x), NEW fr, NEW new, NEW y, Rewritten(y, x, fr, new)
  PROVE  BzRecord(y) /\ SameNumbers(y, x) /\ y.mem = new /\ y.frames = fr
<1>1. PICK a, b, p, e, k :
        x = [frames |-> a, num |-> b, den |-> p, plan |-> e, mem |-> k]
  BY DEF BzRecord
<1>2. y = [frames |-> fr, num |-> b, den |-> p, plan |-> e, mem |-> new]
  BY <1>1 DEF Rewritten
<1>3. /\ y.num = b /\ y.den = p /\ y.plan = e /\ y.mem = new /\ y.frames = fr
      /\ x.num = b /\ x.den = p /\ x.plan = e
  BY <1>1, <1>2
<1>4. BzRecord(y)
  BY <1>2, <1>3 DEF BzRecord
<1>5. QED
  BY <1>3, <1>4 DEF SameNumbers

LEMMA FramesMove ==
  ASSUME NEW x, BzRecord(x), NEW fr, NEW y, Reframed(y, x, fr)
  PROVE  BzRecord(y) /\ SameNumbers(y, x) /\ y.mem = x.mem /\ y.frames = fr
<1>1. PICK a, b, p, e, k :
        x = [frames |-> a, num |-> b, den |-> p, plan |-> e, mem |-> k]
  BY DEF BzRecord
<1>2. y = [frames |-> fr, num |-> b, den |-> p, plan |-> e, mem |-> k]
  BY <1>1 DEF Reframed
<1>3. /\ y.num = b /\ y.den = p /\ y.plan = e /\ y.mem = k /\ y.frames = fr
      /\ x.num = b /\ x.den = p /\ x.plan = e /\ x.mem = k
  BY <1>1, <1>2
<1>4. BzRecord(y)
  BY <1>2, <1>3 DEF BzRecord
<1>5. QED
  BY <1>3, <1>4 DEF SameNumbers

(* The frame that runs becomes g, with the memory; or it becomes g and calls h. *)
GoesOn(new, g) == bz' = [bz EXCEPT !.mem = new, !.frames = BzBecomes(g)]
Pushes(g, h) == bz' = [bz EXCEPT !.frames = Append(BzBecomes(g), h)]

LEMMA CallGoesOn ==
  ASSUME BzRecord(bz), NEW d, NEW c, NEW n, NEW m,
         BzStack(bz.frames, d, c, bz.mem, bz.plan, n, m), c # d,
         NEW f, f = bz.frames[d], NEW new, BzKeeps(bz.mem, new, BzSize(bz.plan), f.a, f.q),
         NEW g, SameTask(g, f), IsCall(g, new, BzSize(bz.plan)), Stands(g, new, bz.plan),
         GoesOn(new, g)
  PROVE  BzGoes(c, n, m)
<1> DEFINE fr == BzBecomes(g)
<1>1. BzStack(fr, d, c, new, bz.plan, n, m)
  BY BzGoesOn DEF BzBecomes
<1>2. /\ BzRecord(bz') /\ SameNumbers(bz', bz) /\ bz'.mem = new /\ bz'.frames = fr
  <2>1. Rewritten(bz', bz, fr, new)
    BY DEF Rewritten, GoesOn
  <2>2. QED
    BY <2>1, RecordMoves
<1>3. bz'.plan = bz.plan
  BY <1>2 DEF SameNumbers
<1>4. BzStack(bz'.frames, d, c, bz'.mem, bz'.plan, n, m)
  BY <1>1, <1>2, <1>3
<1>5. QED
  BY <1>2, <1>4 DEF BzGoes

LEMMA FramePushes ==
  ASSUME BzRecord(bz), NEW d, NEW c, NEW n, NEW m,
         BzStack(bz.frames, d, c, bz.mem, bz.plan, n, m),
         NEW g, c = d => IsDriver(g, bz.mem, bz.plan, m) /\ g.approx = bz.frames[d].approx,
         NEW h, IsCall(h, bz.mem, BzSize(bz.plan)),
         c # d => /\ IsCall(g, bz.mem, BzSize(bz.plan)) /\ SameTask(g, bz.frames[d])
                  /\ Nested(h, g),
         Waits(g, h, bz.mem, bz.plan, n, m), Stands(h, bz.mem, bz.plan),
         Pushes(g, h)
  PROVE  BzGoes(c, n, m)
<1> DEFINE fr == Append(BzBecomes(g), h)
<1>1. BzStack(fr, d + 1, c, bz.mem, bz.plan, n, m)
  BY BzPushes DEF BzBecomes
<1>2. /\ BzRecord(bz') /\ SameNumbers(bz', bz) /\ bz'.mem = bz.mem /\ bz'.frames = fr
  <2>1. Reframed(bz', bz, fr)
    BY DEF Reframed, Pushes
  <2>2. QED
    BY <2>1, FramesMove
<1>3. bz'.plan = bz.plan
  BY <1>2 DEF SameNumbers
<1>4. BzStack(bz'.frames, d + 1, c, bz'.mem, bz'.plan, n, m)
  BY <1>1, <1>2, <1>3
<1>5. QED
  BY <1>2, <1>4 DEF BzGoes

(* The frame that runs is a call with the given op and pc. *)
LEMMA RunsCall ==
  ASSUME NEW d, NEW c, NEW n, NEW m, BzStack(bz.frames, d, c, bz.mem, bz.plan, n, m),
         BzFrame.op # "driver"
  PROVE  /\ c # d /\ BzFrame = bz.frames[d] /\ PlanFits(bz.plan) /\ Memory(bz.mem, BzSize(bz.plan))
         /\ IsCall(bz.frames[d], bz.mem, BzSize(bz.plan)) /\ Stands(bz.frames[d], bz.mem, bz.plan)
<1>1. BzFrame = bz.frames[d]
  BY TopFrame DEF BzFrame
<1>2. QED
  BY <1>1, TopFrame

(* A frame that is not a leaf is halved. *)
LEMMA NoLeafHalves ==
  ASSUME NEW f, IsCall(f, bz.mem, BzSize(bz.plan)), PlanFits(bz.plan), f.op # "3n2n",
         ~Leaf(f.b.n)
  PROVE  Halved(f, bz.plan)
<1>1. PICK n \in Nat \ {0}, t \in Nat : n = f.q.n /\ f.b.n = n /\ t = bz.plan.threshold
  BY CallIn DEF PlanFits
<1>2. n % 2 = 0 /\ ~(n < t)
  BY <1>1 DEF Leaf
<1>3. n >= t /\ n = 2 * (n \div 2)
  BY <1>2
<1>4. QED
  BY <1>1, <1>3 DEF Halved

(* Where a call is says how far it has come. *)
LEMMA StandsAt ==
  ASSUME NEW f, NEW mem, NEW plan, Stands(f, mem, plan)
  PROVE  /\ f.pc = "enter" => Entered(f, mem)
         /\ f.pc = "lower" => Halved(f, plan) /\ HalfDone(f, mem)
         /\ f.pc = "product" => f.op = "3n2n" /\ HasEstimate(f, mem)
         /\ f.pc = "correct" => f.op = "3n2n" /\ Corrected(f, mem)
         /\ f.pc = "return" =>
               IF f.op = "divappr" THEN Approximated(f, mem, plan) ELSE Divided(f, mem)
  BY DEF Stands

LEMMA BzLeafHolds ==
  ASSUME BzRecord(bz), NEW d, NEW c, NEW n, NEW m,
         BzStack(bz.frames, d, c, bz.mem, bz.plan, n, m), BzLeaf
  PROVE  BzGoes(c, n, m)
<1>1. BzFrame.pc = "enter" /\ BzFrame.op # "driver" /\ BzFrame.op # "3n2n"
  BY DEF BzLeaf, BzRuns
<1>2. PICK f : f = BzFrame /\ f = bz.frames[d]
  BY <1>1, RunsCall
<1>3. /\ c # d /\ PlanFits(bz.plan) /\ Memory(bz.mem, BzSize(bz.plan))
      /\ IsCall(f, bz.mem, BzSize(bz.plan)) /\ Entered(f, bz.mem)
      /\ f.pc = "enter" /\ f.op # "3n2n"
  BY <1>1, <1>2, RunsCall, StandsAt
<1>4. PICK b, new, g :
        /\ b = Value(bz.mem, f.b)
        /\ new = Store(Store(bz.mem, f.q, f.value \div b), f.a, f.value % b)
        /\ g = [f EXCEPT !.pc = "return", !.sound = f.value \div b < Power(Base, f.b.n)]
  OBVIOUS
<1>5. GoesOn(new, g)
  BY <1>2, <1>4 DEF BzLeaf, GoesOn
<1>6. /\ BzKeeps(bz.mem, new, BzSize(bz.plan), f.a, f.q) /\ SameTask(g, f)
      /\ IsCall(g, new, BzSize(bz.plan)) /\ Stands(g, new, bz.plan)
  BY <1>3, <1>4, LeafStep
<1>7. QED
  BY <1>2, <1>3, <1>4, <1>5, <1>6, CallGoesOn

LEMMA BzUpperHolds ==
  ASSUME BzRecord(bz), NEW d, NEW c, NEW n, NEW m,
         BzStack(bz.frames, d, c, bz.mem, bz.plan, n, m), BzUpper
  PROVE  BzGoes(c, n, m)
<1>1. BzFrame.pc = "enter" /\ BzFrame.op # "driver" /\ BzFrame.op # "3n2n" /\ ~Leaf(BzFrame.b.n)
  BY DEF BzUpper, BzRuns
<1>2. PICK f : f = BzFrame /\ f = bz.frames[d]
  BY <1>1, RunsCall
<1>3. /\ c # d /\ PlanFits(bz.plan) /\ Memory(bz.mem, BzSize(bz.plan))
      /\ IsCall(f, bz.mem, BzSize(bz.plan)) /\ Entered(f, bz.mem)
      /\ f.pc = "enter" /\ f.op # "3n2n"
  BY <1>1, <1>2, RunsCall, StandsAt
<1>4. Halved(f, bz.plan)
  BY <1>1, <1>2, <1>3, NoLeafHalves
<1>5. PICK g, h :
        /\ g = [f EXCEPT !.pc = "lower"]
        /\ h = BzCall("3n2n", bz.mem, Subspan(f.a, f.b.n \div 2), f.b, Upper(f.q))
  OBVIOUS
<1>6. Pushes(g, h)
  BY <1>2, <1>5 DEF BzUpper, Pushes, BzAt
<1>7. /\ IsCall(g, bz.mem, BzSize(bz.plan)) /\ SameTask(g, f) /\ IsCall(h, bz.mem, BzSize(bz.plan))
      /\ Nested(h, g) /\ WaitsUpper(g, h, bz.mem, bz.plan) /\ Stands(h, bz.mem, bz.plan)
  BY <1>3, <1>4, <1>5, UpperStep
<1>8. Waits(g, h, bz.mem, bz.plan, n, m)
  BY <1>7 DEF Waits
<1>9. QED
  BY <1>2, <1>3, <1>5, <1>6, <1>7, <1>8, FramePushes

LEMMA BzLowerHolds ==
  ASSUME BzRecord(bz), NEW d, NEW c, NEW n, NEW m,
         BzStack(bz.frames, d, c, bz.mem, bz.plan, n, m), BzLower
  PROVE  BzGoes(c, n, m)
<1>1. BzFrame.pc = "lower" /\ BzFrame.op = "2n1n"
  BY DEF BzLower, BzRuns
<1>2. PICK f : f = BzFrame /\ f = bz.frames[d]
  BY <1>1, RunsCall
<1>3. /\ c # d /\ PlanFits(bz.plan) /\ Memory(bz.mem, BzSize(bz.plan))
      /\ IsCall(f, bz.mem, BzSize(bz.plan)) /\ Halved(f, bz.plan) /\ HalfDone(f, bz.mem)
      /\ f.pc = "lower" /\ f.op = "2n1n"
  BY <1>1, <1>2, RunsCall, StandsAt
<1>5. PICK g, h :
        /\ g = [f EXCEPT !.pc = "return"]
        /\ h = BzCall("3n2n", bz.mem, First(f.a, 3 * (f.b.n \div 2)), f.b, Lower(f.q))
  OBVIOUS
<1>6. Pushes(g, h)
  BY <1>2, <1>5 DEF BzLower, Pushes, BzAt
<1>7. /\ IsCall(g, bz.mem, BzSize(bz.plan)) /\ SameTask(g, f) /\ IsCall(h, bz.mem, BzSize(bz.plan))
      /\ Nested(h, g) /\ WaitsLower(g, h, bz.mem, bz.plan) /\ Stands(h, bz.mem, bz.plan)
  BY <1>3, <1>5, LowerStep
<1>8. Waits(g, h, bz.mem, bz.plan, n, m)
  BY <1>7 DEF Waits
<1>9. QED
  BY <1>2, <1>3, <1>5, <1>6, <1>7, <1>8, FramePushes

LEMMA BzEstimateHolds ==
  ASSUME BzRecord(bz), NEW d, NEW c, NEW n, NEW m,
         BzStack(bz.frames, d, c, bz.mem, bz.plan, n, m), BzEstimate
  PROVE  BzGoes(c, n, m)
<1>1. BzFrame.pc = "enter" /\ BzFrame.op = "3n2n" /\ TopBelow(BzFrame, BzFrame.q.n)
  BY DEF BzEstimate, BzRuns
<1>2. PICK f : f = BzFrame /\ f = bz.frames[d]
  BY <1>1, RunsCall
<1>3. /\ c # d /\ PlanFits(bz.plan) /\ Memory(bz.mem, BzSize(bz.plan))
      /\ IsCall(f, bz.mem, BzSize(bz.plan)) /\ Entered(f, bz.mem)
      /\ f.pc = "enter" /\ f.op = "3n2n"
  BY <1>1, <1>2, RunsCall, StandsAt
<1>4. Value(bz.mem, Subspan(f.a, 2 * f.q.n)) < Value(bz.mem, Upper(f.b))
  BY <1>1, <1>2 DEF TopBelow
<1>5. PICK g, h :
        /\ g = [f EXCEPT !.pc = "product"]
        /\ h = BzCall("2n1n", bz.mem, Subspan(f.a, f.q.n), Upper(f.b), f.q)
  OBVIOUS
<1>6. Pushes(g, h)
  BY <1>2, <1>5 DEF BzEstimate, Pushes, BzAt
<1>7. /\ IsCall(g, bz.mem, BzSize(bz.plan)) /\ SameTask(g, f) /\ IsCall(h, bz.mem, BzSize(bz.plan))
      /\ Nested(h, g) /\ WaitsEstimate(g, h, bz.mem) /\ Stands(h, bz.mem, bz.plan)
  BY <1>3, <1>4, <1>5, EstimateStep
<1>8. Waits(g, h, bz.mem, bz.plan, n, m)
  BY <1>7 DEF Waits
<1>9. QED
  BY <1>2, <1>3, <1>5, <1>6, <1>7, <1>8, FramePushes

LEMMA BzLargestHolds ==
  ASSUME BzRecord(bz), NEW d, NEW c, NEW n, NEW m,
         BzStack(bz.frames, d, c, bz.mem, bz.plan, n, m), BzLargest
  PROVE  BzGoes(c, n, m)
<1>1. BzFrame.pc = "enter" /\ BzFrame.op = "3n2n" /\ ~TopBelow(BzFrame, BzFrame.q.n)
  BY DEF BzLargest, BzRuns
<1>2. PICK f : f = BzFrame /\ f = bz.frames[d]
  BY <1>1, RunsCall
<1>3. /\ c # d /\ PlanFits(bz.plan) /\ Memory(bz.mem, BzSize(bz.plan))
      /\ IsCall(f, bz.mem, BzSize(bz.plan)) /\ Entered(f, bz.mem)
      /\ f.pc = "enter" /\ f.op = "3n2n"
  BY <1>1, <1>2, RunsCall, StandsAt
<1>4. PICK p, mid, top, u, sum, new :
        /\ p = Power(Base, f.q.n) /\ mid = First(Subspan(f.a, f.q.n), f.q.n)
        /\ top = Subspan(f.a, 2 * f.q.n) /\ u = Value(bz.mem, Upper(f.b))
        /\ sum = Value(bz.mem, mid) + u
        /\ new = Fill(Store(Store(bz.mem, f.q, p - 1), mid, sum), top)
  OBVIOUS
<1>5. PICK g :
        /\ g = [f EXCEPT !.pc = "product", !.carry = sum \div p, !.sound = Value(bz.mem, top) = u]
  OBVIOUS
<1>6. GoesOn(new, g)
  BY <1>2, <1>4, <1>5 DEF BzLargest, GoesOn
<1>7. ~(Value(bz.mem, top) < u)
  BY <1>1, <1>2, <1>4 DEF TopBelow
<1>8. /\ BzKeeps(bz.mem, new, BzSize(bz.plan), f.a, f.q) /\ Value(bz.mem, top) = u
      /\ \E l, low, s, x : /\ Halves3(f, new, p, l, u, low, s)
                           /\ LeavesOf(f.value, Value(new, f.q), x, p, l, u, low, s, sum \div p)
  BY <1>3, <1>4, <1>7, LargestMemory
<1>9. Becomes(g, f, "product", sum \div p, f.corrections)
  <2>1. PICK k : k = sum \div p
    OBVIOUS
  <2>2. g = [f EXCEPT !.pc = "product", !.carry = k, !.sound = TRUE]
    BY <1>5, <1>8, <2>1
  <2>3. CallFields(f)
    BY <1>3 DEF IsCall
  <2>4. Becomes(g, f, "product", k, f.corrections)
    BY <2>2, <2>3 DEF CallFields, Becomes, SameTask
  <2>5. QED
    BY <2>1, <2>4
<1>10. IsCall(g, new, BzSize(bz.plan)) /\ Stands(g, new, bz.plan)
  BY <1>3, <1>8, <1>9, LargestStep
<1>11. SameTask(g, f)
  BY <1>9 DEF Becomes
<1>12. QED
  BY <1>2, <1>3, <1>5, <1>6, <1>8, <1>10, <1>11, CallGoesOn

LEMMA BzProductHolds ==
  ASSUME BzRecord(bz), NEW d, NEW c, NEW n, NEW m,
         BzStack(bz.frames, d, c, bz.mem, bz.plan, n, m), BzProduct
  PROVE  BzGoes(c, n, m)
<1>1. BzFrame.pc = "product" /\ BzFrame.op = "3n2n"
  BY DEF BzProduct, BzRuns
<1>2. PICK f : f = BzFrame /\ f = bz.frames[d]
  BY <1>1, RunsCall
<1>3. /\ c # d /\ PlanFits(bz.plan) /\ Memory(bz.mem, BzSize(bz.plan))
      /\ IsCall(f, bz.mem, BzSize(bz.plan)) /\ HasEstimate(f, bz.mem)
      /\ f.pc = "product" /\ f.op = "3n2n"
  BY <1>1, <1>2, RunsCall, StandsAt
<1>4. PICK w, rest, difference, new, net :
        /\ w = 2 * f.q.n /\ rest = First(f.a, w)
        /\ difference = Value(bz.mem, rest) - Value(bz.mem, f.q) * Value(bz.mem, Lower(f.b))
        /\ new = Store(bz.mem, rest, difference % Power(Base, w))
        /\ net = Net(f.carry, difference, w)
  OBVIOUS
<1>5. PICK g :
        /\ g = [f EXCEPT !.pc = IF net < 0 THEN "correct" ELSE "return", !.carry = net,
                         !.sound = f.sound /\ net <= 0]
  OBVIOUS
<1>6. GoesOn(new, g)
  BY <1>2, <1>4, <1>5 DEF BzProduct, GoesOn
<1>7. BzKeeps(bz.mem, new, BzSize(bz.plan), f.a, f.q) /\ TakenOff(f, new, net, 0)
  BY <1>3, <1>4, ProductMemory
<1>8. Becomes(g, f, IF net < 0 THEN "correct" ELSE "return", net, 0)
  <2>1. PICK pc : pc = IF net < 0 THEN "correct" ELSE "return"
    OBVIOUS
  <2>2. CallFields(f) /\ f.sound = TRUE /\ f.corrections = 0
    BY <1>3 DEF IsCall
  <2>3. net <= 0
    BY <1>7 DEF TakenOff
  <2>4. (f.sound /\ net <= 0) = TRUE
    BY <2>2, <2>3
  <2>5. g = [f EXCEPT !.pc = pc, !.carry = net, !.sound = TRUE]
    BY <1>5, <2>1, <2>4
  <2>6. Becomes(g, f, pc, net, 0)
    BY <2>2, <2>5 DEF CallFields, Becomes, SameTask
  <2>7. QED
    BY <2>1, <2>6
<1>9. IsCall(f, new, BzSize(bz.plan)) /\ Memory(new, BzSize(bz.plan))
  <2>1. f.a.area = "w" /\ f.q.area = "q"
    BY <1>3, CallIn
  <2>2. Memory(new, BzSize(bz.plan))
    BY <1>7 DEF BzKeeps
  <2>3. QED
    BY <1>3, <1>7, <2>1, <2>2, CallStays
<1>10. IsCall(g, new, BzSize(bz.plan)) /\ Stands(g, new, bz.plan)
  BY <1>3, <1>7, <1>8, <1>9, TakenStands
<1>11. SameTask(g, f)
  BY <1>8 DEF Becomes
<1>12. QED
  BY <1>2, <1>3, <1>5, <1>6, <1>7, <1>10, <1>11, CallGoesOn

LEMMA BzCorrectHolds ==
  ASSUME BzRecord(bz), NEW d, NEW c, NEW n, NEW m,
         BzStack(bz.frames, d, c, bz.mem, bz.plan, n, m), BzCorrect
  PROVE  BzGoes(c, n, m)
<1>1. BzFrame.pc = "correct" /\ BzFrame.op = "3n2n"
  BY DEF BzCorrect, BzRuns
<1>2. PICK f : f = BzFrame /\ f = bz.frames[d]
  BY <1>1, RunsCall
<1>3. /\ c # d /\ PlanFits(bz.plan) /\ Memory(bz.mem, BzSize(bz.plan))
      /\ IsCall(f, bz.mem, BzSize(bz.plan)) /\ Corrected(f, bz.mem)
      /\ f.pc = "correct" /\ f.op = "3n2n"
  BY <1>1, <1>2, RunsCall, StandsAt
<1>4. PICK w, rest, sum, q, new, net :
        /\ w = 2 * f.q.n /\ rest = First(f.a, w)
        /\ sum = Value(bz.mem, rest) + Value(bz.mem, f.b) /\ q = Value(bz.mem, f.q)
        /\ new = Store(Store(bz.mem, rest, sum), f.q, (q - 1) % Power(Base, f.q.n))
        /\ net = f.carry + sum \div Power(Base, w)
  OBVIOUS
<1>5. PICK k, g :
        /\ k = f.corrections + 1
        /\ g = [f EXCEPT !.pc = IF net < 0 THEN "correct" ELSE "return", !.carry = net,
                         !.corrections = k, !.sound = f.sound /\ q > 0]
  OBVIOUS
<1>6. GoesOn(new, g)
  BY <1>2, <1>4, <1>5 DEF BzCorrect, GoesOn
<1>7. BzKeeps(bz.mem, new, BzSize(bz.plan), f.a, f.q) /\ q > 0 /\ TakenOff(f, new, net, k)
  BY <1>3, <1>4, <1>5, CorrectMemory
<1>8. Becomes(g, f, IF net < 0 THEN "correct" ELSE "return", net, k)
  <2>1. PICK pc : pc = IF net < 0 THEN "correct" ELSE "return"
    OBVIOUS
  <2>2. CallFields(f) /\ f.sound = TRUE
    BY <1>3 DEF IsCall
  <2>4. (f.sound /\ q > 0) = TRUE
    BY <1>7, <2>2
  <2>5. g = [f EXCEPT !.pc = pc, !.carry = net, !.corrections = k, !.sound = TRUE]
    BY <1>5, <2>1, <2>4
  <2>6. Becomes(g, f, pc, net, k)
    BY <2>2, <2>5 DEF CallFields, Becomes, SameTask
  <2>7. QED
    BY <2>1, <2>6
<1>9. IsCall(f, new, BzSize(bz.plan)) /\ Memory(new, BzSize(bz.plan))
  <2>1. f.a.area = "w" /\ f.q.area = "q"
    BY <1>3, CallIn
  <2>2. Memory(new, BzSize(bz.plan))
    BY <1>7 DEF BzKeeps
  <2>3. QED
    BY <1>3, <1>7, <2>1, <2>2, CallStays
<1>10. IsCall(g, new, BzSize(bz.plan)) /\ Stands(g, new, bz.plan)
  BY <1>3, <1>7, <1>8, <1>9, TakenStands
<1>11. SameTask(g, f)
  BY <1>8 DEF Becomes
<1>12. QED
  BY <1>2, <1>3, <1>5, <1>6, <1>7, <1>10, <1>11, CallGoesOn

(* An approximate call that only has to return. *)
LEMMA ApproximateReturns ==
  ASSUME NEW mem, NEW plan, NEW f, IsCall(f, mem, BzSize(plan)), f.op = "divappr",
         f.pc \in {"enter", "lower"}, NEW g, Becomes(g, f, "return", f.carry, f.corrections),
         NEW new, BzKeeps(mem, new, BzSize(plan), f.a, f.q), Approximated(f, new, plan)
  PROVE  IsCall(g, new, BzSize(plan)) /\ Stands(g, new, plan)
<1>1. PICK size : size = BzSize(plan)
  OBVIOUS
<1>2. IsCall(f, new, size)
  <2>1. f.a.area = "w" /\ f.q.area = "q"
    BY CallIn
  <2>2. Memory(new, size)
    BY <1>1 DEF BzKeeps
  <2>3. QED
    BY <1>1, <2>1, <2>2, CallStays
<1>3. /\ g.op = f.op /\ g.a = f.a /\ g.b = f.b /\ g.q = f.q /\ g.value = f.value
      /\ g.carry = f.carry /\ g.corrections = f.corrections /\ g.sound = TRUE /\ CallFields(g)
      /\ g.pc = "return"
  BY DEF Becomes, SameTask
<1>4. IsCall(g, new, size)
  BY <1>2, <1>3 DEF IsCall
<1>5. Approximated(g, new, plan)
  BY <1>3 DEF Approximated
<1>6. QED
  BY <1>1, <1>3, <1>4, <1>5 DEF Stands

LEMMA BzApproxLeafHolds ==
  ASSUME BzRecord(bz), NEW d, NEW c, NEW n, NEW m,
         BzStack(bz.frames, d, c, bz.mem, bz.plan, n, m), BzApproxLeaf
  PROVE  BzGoes(c, n, m)
<1>1. BzFrame.pc = "enter" /\ BzFrame.op = "divappr"
  BY DEF BzApproxLeaf, BzRuns
<1>2. PICK f : f = BzFrame /\ f = bz.frames[d]
  BY <1>1, RunsCall
<1>3. /\ c # d /\ PlanFits(bz.plan) /\ Memory(bz.mem, BzSize(bz.plan))
      /\ IsCall(f, bz.mem, BzSize(bz.plan)) /\ Entered(f, bz.mem)
      /\ f.pc = "enter" /\ f.op = "divappr"
  BY <1>1, <1>2, RunsCall, StandsAt
<1>4. PICK z, p, g :
        /\ z = f.value \div Value(bz.mem, f.b) /\ p = Power(Base, f.b.n)
        /\ g = [f EXCEPT !.pc = "return"]
  OBVIOUS
<1>5. PICK approx \in {z, z + 1} :
        bz' = [bz EXCEPT !.mem = Store(bz.mem, f.q, IF approx >= p THEN p - 1 ELSE approx),
                         !.frames = BzBecomes(g)]
  <2>1. BzAt("return") = BzBecomes(g)
    BY <1>2, <1>4 DEF BzAt
  <2>2. PICK v : v = BzFrame.value \div Value(bz.mem, BzFrame.b)
    OBVIOUS
  <2>3. PICK approx \in IF Trimmed(bz.mem, BzFrame.a) <= BzFrame.b.n THEN {v} ELSE {v, v + 1} :
          bz' = [bz EXCEPT
            !.mem = Store(bz.mem, BzFrame.q, IF approx >= Power(Base, BzFrame.b.n)
                                             THEN Power(Base, BzFrame.b.n) - 1 ELSE approx),
            !.frames = BzAt("return")]
    BY <2>2, Zenon DEF BzApproxLeaf
  <2>4. v = z
    BY <1>2, <1>4, <2>2
  <2>5. approx \in {z, z + 1}
    BY <2>3, <2>4
  <2>6. bz' = [bz EXCEPT !.mem = Store(bz.mem, f.q, IF approx >= p THEN p - 1 ELSE approx),
                         !.frames = BzBecomes(g)]
    BY <1>2, <1>4, <2>1, <2>3, Zenon
  <2>7. QED
    BY <2>5, <2>6
<1>6. PICK new : new = Store(bz.mem, f.q, IF approx >= p THEN p - 1 ELSE approx)
  OBVIOUS
<1>7. GoesOn(new, g)
  BY <1>5, <1>6 DEF GoesOn
<1>8. BzKeeps(bz.mem, new, BzSize(bz.plan), f.a, f.q) /\ Approximated(f, new, bz.plan)
  BY <1>3, <1>4, <1>6, ApproxLeafMemory
<1>9. Becomes(g, f, "return", f.carry, f.corrections)
  <2>1. CallFields(f) /\ f.sound = TRUE
    BY <1>3 DEF IsCall
  <2>2. QED
    BY <1>4, <2>1 DEF CallFields, Becomes, SameTask
<1>10. IsCall(g, new, BzSize(bz.plan)) /\ Stands(g, new, bz.plan)
  BY <1>3, <1>8, <1>9, ApproximateReturns
<1>11. SameTask(g, f)
  BY <1>9 DEF Becomes
<1>12. QED
  BY <1>2, <1>3, <1>4, <1>7, <1>8, <1>10, <1>11, CallGoesOn

LEMMA BzApproxLowerHolds ==
  ASSUME BzRecord(bz), NEW d, NEW c, NEW n, NEW m,
         BzStack(bz.frames, d, c, bz.mem, bz.plan, n, m), BzApproxLower
  PROVE  BzGoes(c, n, m)
<1>1. BzFrame.pc = "lower" /\ BzFrame.op = "divappr"
  BY DEF BzApproxLower, BzRuns
<1>2. PICK f : f = BzFrame /\ f = bz.frames[d]
  BY <1>1, RunsCall
<1>3. /\ c # d /\ PlanFits(bz.plan) /\ Memory(bz.mem, BzSize(bz.plan))
      /\ IsCall(f, bz.mem, BzSize(bz.plan)) /\ Halved(f, bz.plan) /\ HalfDone(f, bz.mem)
      /\ f.pc = "lower" /\ f.op = "divappr"
  BY <1>1, <1>2, RunsCall, StandsAt
<1>4. CallFields(f) /\ f.sound = TRUE
  BY <1>3 DEF IsCall
<1>5. PICK h, top, u : /\ h = f.b.n \div 2 /\ top = Value(bz.mem, First(Subspan(f.a, 2 * h), h))
                       /\ u = Value(bz.mem, Upper(f.b))
  OBVIOUS
<1>6. CASE top < u
  <2>1. PICK g, s :
          /\ g = [f EXCEPT !.pc = "return"]
          /\ s = BzCall("divappr", bz.mem, First(Subspan(f.a, h), 2 * h), Upper(f.b), Lower(f.q))
    OBVIOUS
  <2>2. Pushes(g, s)
    BY <1>2, <1>5, <1>6, <2>1 DEF BzApproxLower, Pushes, BzAt
  <2>3. Becomes(g, f, "return", f.carry, f.corrections)
    BY <1>4, <2>1 DEF CallFields, Becomes, SameTask
  <2>4. /\ IsCall(g, bz.mem, BzSize(bz.plan)) /\ IsCall(s, bz.mem, BzSize(bz.plan))
        /\ Nested(s, g) /\ WaitsApprox(g, s, bz.mem, bz.plan) /\ Stands(s, bz.mem, bz.plan)
    BY <1>3, <1>5, <1>6, <2>1, <2>3, ApproxLowerStep
  <2>5. Waits(g, s, bz.mem, bz.plan, n, m) /\ SameTask(g, f)
    BY <2>3, <2>4 DEF Waits, Becomes
  <2>6. QED
    BY <1>2, <1>3, <2>1, <2>2, <2>4, <2>5, FramePushes
<1>7. CASE ~(top < u)
  <2>1. PICK new, g :
          /\ new = Store(bz.mem, Lower(f.q), Power(Base, h) - 1)
          /\ g = [f EXCEPT !.pc = "return", !.sound = top = u]
    OBVIOUS
  <2>2. GoesOn(new, g)
    BY <1>2, <1>5, <1>7, <2>1 DEF BzApproxLower, GoesOn
  <2>3. /\ BzKeeps(bz.mem, new, BzSize(bz.plan), f.a, f.q) /\ Approximated(f, new, bz.plan)
        /\ top = u
    BY <1>3, <1>5, <1>7, <2>1, SaturatedMemory
  <2>4. g = [f EXCEPT !.pc = "return", !.sound = TRUE]
    BY <2>1, <2>3
  <2>5. Becomes(g, f, "return", f.carry, f.corrections)
    BY <1>4, <2>4 DEF CallFields, Becomes, SameTask
  <2>6. IsCall(g, new, BzSize(bz.plan)) /\ Stands(g, new, bz.plan)
    BY <1>3, <2>3, <2>5, ApproximateReturns
  <2>7. SameTask(g, f)
    BY <2>5 DEF Becomes
  <2>8. QED
    BY <1>2, <1>3, <2>1, <2>2, <2>3, <2>6, <2>7, CallGoesOn
<1>8. QED
  BY <1>6, <1>7

LEMMA BzReturnHolds ==
  ASSUME BzRecord(bz), NEW d, NEW c, NEW n, NEW m,
         BzStack(bz.frames, d, c, bz.mem, bz.plan, n, m), BzReturn
  PROVE  BzGoes(c, n, m)
<1>1. BzFrame.pc = "return" /\ BzFrame = bz.frames[d]
  BY TopFrame DEF BzReturn, BzFrame
<1>2. c # d /\ bz.frames[d].pc = "return"
  BY <1>1, TopFrame
<1>3. PICK fr : fr = SubSeq(bz.frames, 1, Len(bz.frames) - 1)
  OBVIOUS
<1>4. BzStack(fr, d - 1, c, bz.mem, bz.plan, n, m)
  BY <1>2, <1>3, ReturnStep
<1>5. Reframed(bz', bz, fr)
  BY <1>3 DEF BzReturn, Reframed
<1>6. /\ BzRecord(bz') /\ SameNumbers(bz', bz) /\ bz'.mem = bz.mem /\ bz'.frames = fr
  BY <1>5, FramesMove
<1>7. bz'.plan = bz.plan
  BY <1>6 DEF SameNumbers
<1>8. BzStack(bz'.frames, d - 1, c, bz'.mem, bz'.plan, n, m)
  BY <1>4, <1>6, <1>7
<1>9. QED
  BY <1>6, <1>8 DEF BzGoes

LEMMA BzMarchHolds ==
  ASSUME BzRecord(bz), NEW d, NEW c, NEW n, NEW m,
         BzStack(bz.frames, d, c, bz.mem, bz.plan, n, m), BzMarch
  PROVE  BzGoes(c, n, m)
<1>1. BzFrame.op = "driver" /\ BzFrame.left > 0 /\ BzFrame = bz.frames[d]
  BY TopFrame DEF BzMarch, BzRuns, BzFrame
<1>2. PICK f : f = BzFrame /\ f = bz.frames[d]
  BY <1>1
<1>3. /\ c = d /\ PlanFits(bz.plan) /\ Memory(bz.mem, BzSize(bz.plan)) /\ n \in Nat /\ m \in Nat
      /\ IsDriver(f, bz.mem, bz.plan, m) /\ Marches(f, bz.mem, bz.plan, n, m)
  BY <1>1, <1>2, TopFrame
<1>4. PICK i, g, op, s :
        /\ i = f.left - 1 /\ g = [f EXCEPT !.left = i]
        /\ op = (IF f.approx /\ i = 0 THEN "divappr" ELSE "2n1n")
        /\ s = BzCall(op, bz.mem, Span("w", i * bz.plan.n, 2 * bz.plan.n), Span("b", 0, bz.plan.n),
                      Span("q", i * bz.plan.n, bz.plan.n))
  OBVIOUS
<1>5. Pushes(g, s)
  BY <1>2, <1>4 DEF BzMarch, Pushes
<1>6. f.left > 0
  BY <1>1, <1>2
<1>7. /\ IsDriver(g, bz.mem, bz.plan, m) /\ IsCall(s, bz.mem, BzSize(bz.plan))
      /\ Waits(g, s, bz.mem, bz.plan, n, m) /\ Stands(s, bz.mem, bz.plan)
  BY <1>3, <1>4, <1>6, MarchStep
<1>8. g.approx = f.approx
  BY <1>3, <1>4 DEF IsDriver
<1>9. QED
  BY <1>2, <1>3, <1>4, <1>5, <1>7, <1>8, FramePushes

-----------------------------------------------------------------------------
(* The ends of a march.                                                    *)

(* A common factor leaves the quotient. *)
LEMMA SameQuotient ==
  ASSUME NEW a \in Nat, NEW b \in Nat \ {0}, NEW z \in Nat \ {0}
  PROVE  (a * z) \div (b * z) = a \div b
<1>1. PICK y \in Int, r \in 0 .. b - 1 : y = a \div b /\ a = b * y + r
  <2>1. a \div b \in Int /\ a % b \in 0 .. b - 1 /\ a = b * (a \div b) + (a % b)
    BY DivMod
  <2>2. QED
    BY <2>1
<1>2. a * z = (b * z) * y + r * z
  <2>1. y \in Int /\ r \in Int /\ b \in Int /\ z \in Int
    BY <1>1
  <2>2. (b * y + r) * z = (b * z) * y + r * z
    BY <2>1
  <2>3. QED
    BY <1>1, <2>2
<1>3. PICK bz1 \in Nat \ {0} : bz1 = b * z
  OBVIOUS
<1>4. r * z \in 0 .. bz1 - 1
  <2>1. r * z <= (b - 1) * z /\ 0 <= r * z
    BY MulPos
  <2>2. (b - 1) * z = b * z - z
    OBVIOUS
  <2>3. r * z \in Int
    OBVIOUS
  <2>4. QED
    BY <1>3, <2>1, <2>2, <2>3
<1>5. a * z \in Int
  OBVIOUS
<1>6. QED
  BY <1>1, <1>2, <1>3, <1>4, <1>5, DivUnique

(* The quotient without its fraction limb. *)
LEMMA WithoutFraction ==
  ASSUME NEW a \in Nat, NEW b \in Nat \ {0}, NEW c \in Nat \ {0}
  PROVE  ((a * c) \div b) \div c = a \div b
<1>1. (a * c) \div (b * c) = ((a * c) \div b) \div c
  <2>1. a * c \in Int
    OBVIOUS
  <2>2. QED
    BY <2>1, ModTwoSteps
<1>2. QED
  BY <1>1, SameQuotient

(* A quotient x with a fraction below the base b, at most e above the right one, v: without the
   fraction it is right or one too large, and if it is too large its fraction is below e and its
   product with the divisor above the dividend. *)
Extended(num, den, b, e, v, x, q, w, z) ==
  /\ v = (num * b) \div den /\ x - v \in 0 .. e
  /\ q = x \div b /\ w = x % b /\ z = num \div den

LEMMA FractionTells ==
  ASSUME NEW b \in Nat \ {0}, NEW num \in Nat, NEW den \in Nat \ {0}, NEW e \in Nat, e < b,
         NEW v \in Nat, NEW x \in Nat, NEW q, NEW f, NEW z, Extended(num, den, b, e, v, x, q, f, z)
  PROVE  /\ q \in Nat /\ z \in Nat /\ q \in {z, z + 1} /\ f \in Nat
         /\ q = z + 1 => f < e
         /\ num < q * den <=> q = z + 1
<1>1. /\ v = (num * b) \div den /\ x - v \in 0 .. e
      /\ q = x \div b /\ f = x % b /\ z = num \div den
  BY DEF Extended
<1>2. x - v \in 0 .. e
  BY <1>1
<1>3. PICK t \in 0 .. b - 1 : v = b * z + t /\ z \in Nat
  <2>1. v \div b = z
    BY <1>1, WithoutFraction
  <2>2. v \div b \in Nat /\ v % b \in 0 .. b - 1 /\ v = b * (v \div b) + (v % b)
    <3>1. v \in Int
      OBVIOUS
    <3>2. QED
      BY <3>1, DivMod, DivNat
  <2>3. QED
    BY <2>1, <2>2
<1>4. PICK w \in 0 .. b - 1 : x = b * q + w /\ q \in Nat /\ w = f
  <2>1. x \div b \in Nat /\ x % b \in 0 .. b - 1 /\ x = b * (x \div b) + (x % b)
    <3>1. x \in Int
      OBVIOUS
    <3>2. QED
      BY <3>1, DivMod, DivNat
  <2>2. QED
    BY <1>1, <2>1
<1>5. PICK s \in 0 .. den - 1 : num = den * z + s
  <2>1. num % den \in 0 .. den - 1 /\ num = den * (num \div den) + (num % den)
    <3>1. num \in Int
      OBVIOUS
    <3>2. QED
      BY <3>1, DivMod
  <2>2. QED
    BY <1>1, <2>1
<1>6. ~(q + 1 <= z)
  <2> SUFFICES ASSUME q + 1 <= z PROVE FALSE
    OBVIOUS
  <2>1. (q + 1) * b <= z * b
    BY <1>3, <1>4, MulPos
  <2>2. (q + 1) * b = b * q + b /\ z * b = b * z /\ b * q \in Nat /\ b * z \in Nat
    BY <1>3, <1>4
  <2>3. PICK y \in Nat, k \in Nat : y = b * q /\ k = b * z /\ y + b <= k /\ x = y + w /\ v = k + t
    BY <1>3, <1>4, <2>1, <2>2
  <2>4. QED
    BY <1>2, <2>3
<1>7. ~(z + 2 <= q)
  <2> SUFFICES ASSUME z + 2 <= q PROVE FALSE
    OBVIOUS
  <2>1. (z + 2) * b <= q * b
    BY <1>3, <1>4, MulPos
  <2>2. (z + 2) * b = b * z + 2 * b /\ q * b = b * q /\ b * q \in Nat /\ b * z \in Nat
    BY <1>3, <1>4
  <2>3. PICK y \in Nat, k \in Nat :
          y = b * q /\ k = b * z /\ k + 2 * b <= y /\ x = y + w /\ v = k + t
    BY <1>3, <1>4, <2>1, <2>2
  <2>4. QED
    BY <1>2, <2>3
<1>8. q \in {z, z + 1}
  <2>1. q \in Nat /\ z \in Nat
    BY <1>3, <1>4
  <2>2. z <= q /\ q <= z + 1
    BY <1>6, <1>7, <2>1
  <2>3. QED
    BY <2>1, <2>2
<1>9. ASSUME q = z + 1 PROVE w < e
  <2>1. b * q = b * z + b /\ b * z \in Nat
    BY <1>3, <1>9
  <2>2. PICK k \in Nat : k = b * z /\ x = (k + b) + w /\ v = k + t
    BY <1>3, <1>4, <2>1
  <2>3. QED
    BY <1>2, <2>2
<1>10. num < q * den <=> q = z + 1
  <2>1. PICK y \in Nat : y = den * z /\ num = y + s
    BY <1>3, <1>5
  <2>2. CASE q = z
    <3>1. q * den = y
      BY <1>3, <2>1, <2>2
    <3>2. QED
      BY <1>3, <2>1, <2>2, <3>1
  <2>3. CASE q = z + 1
    <3>1. q * den = y + den
      BY <1>3, <2>1, <2>3
    <3>2. QED
      BY <2>1, <2>3, <3>1
  <2>4. QED
    BY <1>8, <2>2, <2>3
<1>11. QED
  BY <1>3, <1>4, <1>8, <1>9, <1>10

(* The limbs of a quotient, and of one with a fraction limb. *)
LEMMA QuotientLimbsSuffice ==
  ASSUME NEW num \in Nat, NEW den \in Nat \ {0}, NEW la, HasLimbs(num, la),
         NEW lb, HasLimbs(den, lb), lb <= la, NEW size, size = la - lb + 1
  PROVE  /\ size \in Nat /\ num \div den < Power(Base, size)
         /\ (num * Base) \div den < Power(Base, size + 1)
<1>1. PICK m \in Nat, k \in Nat :
        /\ size \in Nat /\ m = la /\ k = lb - 1 /\ k + size = m /\ num < Power(Base, m)
        /\ k = 0 \/ Power(Base, k) <= den
  BY DEF HasLimbs
<1>2. PICK b \in Nat \ {0}, p \in Nat \ {0}, e \in Nat \ {0} :
        /\ b = Base /\ p = Power(Base, size) /\ e = Power(Base, k) /\ Power(Base, size + 1) = b * p
        /\ Power(Base, m) = e * p
  <2>1. Power(Base, k + size) = Power(Base, k) * Power(Base, size)
    BY <1>1, BaseType, PowerSum
  <2>2. Power(Base, size + 1) = Base * Power(Base, size)
    BY <1>1, BaseType, PowerStep
  <2>3. Base \in Nat \ {0} /\ Power(Base, size) \in Nat \ {0} /\ Power(Base, k) \in Nat \ {0}
    BY <1>1, BaseType, BasePower
  <2>4. QED
    BY <1>1, <2>1, <2>2, <2>3
<1>3. e <= den
  <2>1. Power(Base, 0) = 1
    BY BaseType, PowerStep
  <2>2. QED
    BY <1>1, <1>2, <2>1
<1>4. num < den * p
  <2>1. e * p <= den * p
    BY <1>3, MulPos
  <2>2. e * p \in Nat /\ den * p \in Nat
    OBVIOUS
  <2>3. QED
    BY <1>1, <1>2, <2>1, <2>2
<1>5. num \div den < p
  BY <1>4, DivBelow
<1>6. (num * b) \div den < b * p
  <2>1. PICK y \in Nat : y = den * p /\ num + 1 <= y
    BY <1>4
  <2>2. (num + 1) * b <= y * b
    BY <2>1, MulPos
  <2>3. (num + 1) * b = num * b + b /\ y * b = den * (b * p)
    BY <2>1
  <2>4. num * b \in Nat /\ den * (b * p) \in Nat /\ b * p \in Nat
    OBVIOUS
  <2>5. num * b < den * (b * p)
    BY <2>2, <2>3, <2>4
  <2>6. num * b \in Int /\ b * p \in Int
    BY <2>4
  <2>7. QED
    BY <2>5, <2>6, DivBelow
<1>7. QED
  BY <1>1, <1>2, <1>5, <1>6

(* The quotient of a march, without its leading zeros. *)
LEMMA MarchedQuotient ==
  ASSUME NEW mem, NEW plan, PlanFits(plan), Memory(mem, BzSize(plan))
  PROVE  LET s == Span("q", 0, (plan.t - 1) * plan.n)
         IN  /\ s = BzSpan("q", plan, 0, plan.t - 1) /\ Value(mem, s) \in Nat
             /\ Value(mem, TrimmedSpan(mem, s)) = Value(mem, s)
<1>1. PICK n \in Nat \ {0}, t \in Nat \ {0} : n = plan.n /\ t = plan.t - 1 /\ t \in Nat
  BY DEF PlanFits
<1>2. PICK s : s = Span("q", 0, (plan.t - 1) * plan.n) /\ s = BzSpan("q", plan, 0, plan.t - 1)
  <2>1. 0 * plan.n = 0
    BY <1>1
  <2>2. QED
    BY <2>1 DEF BzSpan
<1>3. In(s, BzSize(plan)) /\ s.n = (plan.t - 1) * plan.n
  <2>1. plan.t - 1 \in Nat /\ 0 + (plan.t - 1) <= plan.t /\ 0 + (plan.t - 1) <= plan.t - 1
    BY DEF PlanFits
  <2>2. QED
    BY <1>2, <2>1, BlocksIn
<1>4. s.n # 0
  <2>1. \A u, v \in Nat \ {0} : u * v # 0
    OBVIOUS
  <2>2. t * n # 0
    BY <1>1, <2>1
  <2>3. QED
    BY <1>1, <1>3, <2>2
<1>5. Value(mem, TrimmedSpan(mem, s)) = Value(mem, s) /\ Value(mem, s) \in Nat
  BY <1>3, <1>4, TrimmedIs, ValueType
<1>6. QED
  BY <1>2, <1>5

(* A march at its end. *)
LEMMA MarchEnds ==
  ASSUME NEW mem, NEW plan, PlanFits(plan), Memory(mem, BzSize(plan)), NEW n \in Nat, NEW d \in Nat,
         NEW f, IsDriver(f, mem, plan, d), f.left = 0, Marches(f, mem, plan, n, d),
         NEW q, q = Value(mem, Span("q", 0, (plan.t - 1) * plan.n)),
         NEW r, r = Value(mem, Span("w", 0, plan.n))
  PROVE  IF f.approx THEN Approximates(q, d, n, Lift(plan.n, d, plan))
                     ELSE q \in Nat /\ r \in Nat /\ r < d /\ n = q * d + r
<1>1. PICK t \in Nat : t = plan.t - 1 /\ plan.t - 1 - 0 = t /\ plan.n \in Nat
  BY DEF PlanFits
<1>2. q = Value(mem, BzSpan("q", plan, 0, plan.t - 1 - 0)) /\ q \in Nat
  BY <1>1, MarchedQuotient
<1>3. BzSpan("w", plan, 0, 1) = Span("w", 0, plan.n)
  <2>1. 0 * plan.n = 0 /\ 1 * plan.n = plan.n
    BY <1>1
  <2>2. QED
    BY <2>1 DEF BzSpan
<1>4. CASE f.approx
  BY <1>2, <1>4 DEF Marches
<1>5. CASE ~f.approx
  <2>1. /\ n = (q * d + Value(mem, BzSpan("w", plan, 0, 1))) * Power(Base, 0 * plan.n)
                + Value(mem, BzSpan("w", plan, 0, 0))
        /\ Value(mem, BzSpan("w", plan, 0, 1)) < d
    BY <1>2, <1>5 DEF Marches
  <2>2. Value(mem, BzSpan("w", plan, 0, 0)) = 0 /\ Power(Base, 0 * plan.n) = 1
    <3>1. 0 <= plan.t
      BY DEF PlanFits
    <3>2. QED
      BY <3>1, NoBlocks
  <2>3. r \in Nat
    <3>1. 0 + 1 <= plan.t
      BY DEF PlanFits
    <3>2. In(BzSpan("w", plan, 0, 1), BzSize(plan))
      BY <3>1, BlocksIn
    <3>3. QED
      BY <1>3, <3>2, ValueType
  <2>4. n = (q * d + r) * 1 + 0 /\ r < d
    BY <1>3, <2>1, <2>2
  <2>5. (q * d + r) * 1 + 0 = q * d + r
    <3>1. q * d \in Nat
      BY <1>2
    <3>2. QED
      BY <2>3, <3>1
  <2>6. QED
    BY <1>2, <1>5, <2>3, <2>4, <2>5
<1>6. QED
  BY <1>4, <1>5

(* What a division divides, and its plan. *)
BzNumbers(x) ==
  x.num \in Nat /\ x.den \in Nat \ {0} /\ Power(2, x.plan.sigma) \in Nat \ {0}

(* One limb holds the fraction of divide_quotient and all that its leaves may add. *)
FractionFits(x) ==
  /\ x.plan.n \in Nat /\ x.plan.threshold \in Nat \ {0}
  /\ LimbsNeeded(x.den) <= LimbsNeeded(x.num)
  /\ 2 * HalvingLevels(x.plan.n, x.plan.threshold) + 2 < Base

(* The states of a division: a march, whose driver is the first frame or was called by
   divide_quotient, the verification of divide_quotient, the answer. *)
Dividend(x, c) == (IF c = 1 THEN x.num ELSE x.num * Base) * Power(2, x.plan.sigma)

BzMarching(x, c) ==
  /\ BzRecord(x) /\ BzNumbers(x)
  /\ c = 2 => FractionFits(x)
  /\ \E d : BzStack(x.frames, d, c, x.mem, x.plan, Dividend(x, c), x.den * Power(2, x.plan.sigma))

BzVerifying(x) ==
  /\ x.frames = <<Verifies>> /\ BzNumbers(x) /\ FractionFits(x) /\ x.extended \in Nat
  /\ x.extended - ((x.num * Base) \div x.den)
       \in 0 .. 2 * HalvingLevels(x.plan.n, x.plan.threshold) + 1

Finished == [op |-> "result", pc |-> "done"]
BzAnswered(x) ==
  /\ x.frames = <<Finished>> /\ x.sound = TRUE
  /\ IF "remainder" \in DOMAIN x
     THEN x.quotient = x.num \div x.den /\ x.remainder = x.num % x.den
     ELSE /\ x.quotient - (x.num \div x.den) \in 0 .. 1
          /\ HalvingLevels(x.plan.n, x.plan.threshold) <= 1 => x.quotient = x.num \div x.den

BzHolds(x) ==
  x = BzIdle \/ BzMarching(x, 1) \/ BzMarching(x, 2) \/ BzVerifying(x) \/ BzAnswered(x)

LEMMA BzFinishHolds ==
  ASSUME NEW c \in {1, 2}, BzMarching(bz, c), BzFinish
  PROVE  BzAnswered(bz')
<1>1. PICK z \in Nat \ {0}, num \in Nat, den \in Nat \ {0} :
        z = Power(2, bz.plan.sigma) /\ num = bz.num /\ den = bz.den
  BY DEF BzMarching, BzNumbers
<1>2. PICK d : BzStack(bz.frames, d, c, bz.mem, bz.plan, Dividend(bz, c), den * z)
  BY <1>1 DEF BzMarching
<1>3. PICK f : f = BzFrame /\ f = bz.frames[d] /\ f.op = "driver" /\ f.left = 0 /\ ~f.approx
  BY <1>2, TopFrame DEF BzFinish, BzRuns, BzFrame
<1>4. /\ c = d /\ PlanFits(bz.plan) /\ Memory(bz.mem, BzSize(bz.plan)) /\ Dividend(bz, c) \in Nat
      /\ den * z \in Nat
      /\ IsDriver(f, bz.mem, bz.plan, den * z)
      /\ Marches(f, bz.mem, bz.plan, Dividend(bz, c), den * z)
  BY <1>2, <1>3, TopFrame
<1>5. c = 1 /\ Dividend(bz, c) = num * z
  <2>1. f.approx = (c # 1)
    BY <1>2, <1>3, <1>4 DEF BzStack, CalledBy
  <2>2. c = 1
    BY <1>3, <2>1
  <2>3. QED
    BY <1>1, <2>2 DEF Dividend
<1>6. PICK q, r : q = Value(bz.mem, Span("q", 0, (bz.plan.t - 1) * bz.plan.n))
                  /\ r = Value(bz.mem, Span("w", 0, bz.plan.n))
  OBVIOUS
<1>7. q \in Nat /\ r \in Nat /\ r < den * z /\ num * z = q * (den * z) + r
  <2>1. PICK x \in Nat, y \in Nat : x = num * z /\ y = den * z
    OBVIOUS
  <2>2. IsDriver(f, bz.mem, bz.plan, y) /\ Marches(f, bz.mem, bz.plan, x, y)
    BY <1>4, <1>5, <2>1
  <2>3. IF f.approx THEN Approximates(q, y, x, Lift(bz.plan.n, y, bz.plan))
                    ELSE q \in Nat /\ r \in Nat /\ r < y /\ x = q * y + r
    BY <1>3, <1>4, <1>6, <2>2, MarchEnds
  <2>4. QED
    BY <1>3, <2>1, <2>3
<1>8. r % z = 0 /\ q = num \div den /\ r \div z = num % den
  <2>1. ShiftedDivision(z, den, num, q, r)
    BY <1>7 DEF ShiftedDivision
  <2>2. QED
    BY <2>1, ShiftedBack
<1>9. bz' = [frames |-> <<Finished>>, num |-> num, den |-> den, quotient |-> q,
             remainder |-> r \div z, sound |-> r % z = 0]
  <2>1. Value(bz.mem, TrimmedSpan(bz.mem, QuotientLimbs)) = q
    BY <1>4, <1>6, MarchedQuotient DEF QuotientLimbs
  <2>2. QED
    BY <1>1, <1>6, <2>1 DEF BzFinish, Finished
<1>10. bz' = [frames |-> <<Finished>>, num |-> num, den |-> den, quotient |-> q,
              remainder |-> num % den, sound |-> TRUE]
  BY <1>8, <1>9
<1>11. QED
  BY <1>8, <1>10 DEF BzAnswered

LEMMA BzFinishApproxHolds ==
  ASSUME NEW c \in {1, 2}, BzMarching(bz, c), BzFinishApprox
  PROVE  BzVerifying(bz')
<1>1. PICK z \in Nat \ {0}, num \in Nat, den \in Nat \ {0} :
        z = Power(2, bz.plan.sigma) /\ num = bz.num /\ den = bz.den
  BY DEF BzMarching, BzNumbers
<1>2. PICK d : BzStack(bz.frames, d, c, bz.mem, bz.plan, Dividend(bz, c), den * z)
  BY <1>1 DEF BzMarching
<1>3. PICK f : f = BzFrame /\ f = bz.frames[d] /\ f.op = "driver" /\ f.left = 0 /\ f.approx
  BY <1>2, TopFrame DEF BzFinishApprox, BzRuns, BzFrame
<1>4. /\ c = d /\ PlanFits(bz.plan) /\ Memory(bz.mem, BzSize(bz.plan)) /\ Dividend(bz, c) \in Nat
      /\ den * z \in Nat
      /\ IsDriver(f, bz.mem, bz.plan, den * z)
      /\ Marches(f, bz.mem, bz.plan, Dividend(bz, c), den * z)
  BY <1>2, <1>3, TopFrame
<1>5. c = 2 /\ Dividend(bz, c) = (num * Base) * z /\ CalledBy(bz.frames, 2)
  <2>1. f.approx = (c # 1) /\ CalledBy(bz.frames, c)
    BY <1>2, <1>3, <1>4 DEF BzStack, CalledBy
  <2>2. c = 2
    BY <1>3, <2>1
  <2>3. QED
    BY <1>1, <2>1, <2>2 DEF Dividend
<1>6. PICK q : q = Value(bz.mem, Span("q", 0, (bz.plan.t - 1) * bz.plan.n)) /\ q \in Nat
  BY <1>4, MarchedQuotient
<1>7. PICK levels \in Nat, p \in Nat : /\ levels = HalvingLevels(bz.plan.n, bz.plan.threshold)
                                       /\ p = Power(Base, bz.plan.n)
  <2>1. bz.plan.n \in Nat /\ bz.plan.threshold \in Nat \ {0}
    BY <1>4 DEF PlanFits
  <2>2. QED
    BY <2>1, HalvingStep, BasePower
<1>8. q - ((num * Base) \div den) \in 0 .. 2 * levels + 1
  <2>1. PICK a \in Nat : a = num * Base
    BY BaseType
  <2>2. PICK x \in Nat, y \in Nat \ {0} : x = a * z /\ y = den * z
    OBVIOUS
  <2>3. IsDriver(f, bz.mem, bz.plan, y) /\ Marches(f, bz.mem, bz.plan, x, y)
    BY <1>4, <1>5, <2>1, <2>2
  <2>4. PICK r : r = Value(bz.mem, Span("w", 0, bz.plan.n))
    OBVIOUS
  <2>5. IF f.approx THEN Approximates(q, y, x, Lift(bz.plan.n, y, bz.plan))
                    ELSE q \in Nat /\ r \in Nat /\ r < y /\ x = q * y + r
    BY <1>3, <1>4, <1>6, <2>2, <2>3, <2>4, MarchEnds
  <2>6. Approximates(q, y, x, levels * p + y)
    BY <1>3, <1>7, <2>5 DEF Lift
  <2>7. p <= 2 * y
    BY <1>7, <2>3 DEF IsDriver
  <2>8. q - (x \div y) \in 0 .. 2 * levels + 1
    BY <1>6, <2>6, <2>7, ApproximationWithin
  <2>9. x \div y = a \div den
    BY <2>2, SameQuotient
  <2>10. QED
    BY <2>1, <2>8, <2>9
<1>9. SubSeq(bz.frames, 1, 1) = <<Verifies>>
  <2>1. bz.frames = [k \in 1 .. 2 |-> bz.frames[k]] /\ bz.frames[1] = Verifies
    BY <1>2, <1>4, <1>5 DEF BzStack, CalledBy
  <2>2. 2 \in Nat \ {0} /\ 2 - 1 = 1
    OBVIOUS
  <2>3. SubSeq(bz.frames, 1, 1) = [k \in 1 .. 1 |-> bz.frames[k]]
    BY <2>1, <2>2, FramesBut
  <2>4. \A k \in 1 .. 1 : bz.frames[k] = Verifies
    BY <2>1
  <2>5. [k \in 1 .. 1 |-> bz.frames[k]] = [k \in 1 .. 1 |-> Verifies]
    BY <2>4
  <2>6. [k \in 1 .. 1 |-> Verifies] = <<Verifies>>
    OBVIOUS
  <2>7. QED
    BY <2>3, <2>5, <2>6
<1>10. bz' = [frames |-> <<Verifies>>, num |-> num, den |-> den, plan |-> bz.plan, extended |-> q]
  <2>1. Value(bz.mem, TrimmedSpan(bz.mem, QuotientLimbs)) = q
    BY <1>4, <1>6, MarchedQuotient DEF QuotientLimbs
  <2>2. QED
    BY <1>1, <1>9, <2>1 DEF BzFinishApprox
<1>11. /\ bz'.frames = <<Verifies>> /\ bz'.num = num /\ bz'.den = den /\ bz'.plan = bz.plan
       /\ bz'.extended = q
  BY <1>10
<1>12. BzNumbers(bz') /\ FractionFits(bz')
  <2>1. BzNumbers(bz) /\ FractionFits(bz)
    BY <1>5 DEF BzMarching
  <2>2. QED
    BY <1>1, <1>11, <2>1 DEF BzNumbers, FractionFits
<1>13. QED
  BY <1>6, <1>7, <1>8, <1>11, <1>12 DEF BzVerifying

(* What divide_quotient returns: q is the quotient z or one too large, w the fraction. *)
VerifiedAs(answer, q, p, w, slack, above) ==
  answer = CASE q >= p -> p - 1
             [] q < p /\ w >= slack -> q
             [] q < p /\ w < slack -> IF above THEN q - 1 ELSE q

LEMMA VerifiedAnswer ==
  ASSUME NEW p \in Nat \ {0}, NEW z \in Nat, z < p, NEW q \in {z, z + 1}, NEW w \in Nat,
         NEW levels \in Nat, q = z + 1 => w < 2 * levels + 1, NEW above \in BOOLEAN,
         above <=> q = z + 1,
         NEW answer, VerifiedAs(answer, q, p, w, levels + 2, above)
  PROVE  answer - z \in 0 .. 1 /\ (levels <= 1 => answer = z)
<1>1. CASE q >= p
  <2>1. answer = p - 1 /\ q = z + 1 /\ z = p - 1
    BY <1>1 DEF VerifiedAs
  <2>2. QED
    BY <2>1
<1>2. CASE q < p /\ w >= levels + 2
  <2>1. answer = q
    BY <1>2 DEF VerifiedAs
  <2>2. levels <= 1 => q = z
    BY <1>2
  <2>3. QED
    BY <2>1, <2>2
<1>3. CASE q < p /\ w < levels + 2
  <2>1. answer = IF above THEN q - 1 ELSE q
    BY <1>3 DEF VerifiedAs
  <2>2. CASE q = z + 1
    <3>1. answer = z
      BY <2>1, <2>2
    <3>2. QED
      BY <3>1
  <2>3. CASE q = z
    <3>1. answer = z
      BY <2>1, <2>3
    <3>2. QED
      BY <3>1
  <2>4. QED
    BY <2>2, <2>3
<1>4. QED
  BY <1>1, <1>2, <1>3

(* A quotient with its fraction and all that its leaves may add has one limb more. *)
LEMMA ExtendedFits ==
  ASSUME NEW size \in Nat, NEW v \in Nat, v < Power(Base, size + 1), NEW e \in Nat, e < Base,
         NEW x \in Nat, x <= v + e
  PROVE  x < Power(Base, size + 2)
<1>1. PICK b \in Nat, p \in Nat \ {0} : b = Base /\ p = Power(Base, size) /\ b >= 2
  BY BaseType, BasePower
<1>2. Power(Base, size + 1) = b * p /\ Power(Base, (size + 1) + 1) = b * (b * p)
  BY <1>1, BaseType, PowerStep
<1>3. PICK y \in Nat : y = b * p /\ b <= y
  <2>1. 1 * b <= p * b
    BY MulPos
  <2>2. b * p \in Nat /\ p * b = b * p /\ 1 * b = b
    OBVIOUS
  <2>3. QED
    BY <2>1, <2>2
<1>4. 2 * y <= b * y
  BY <1>1, MulPos
<1>5. PICK u \in Nat : u = b * y
  OBVIOUS
<1>6. x < u
  <2>1. v < y /\ e < b
    BY <1>1, <1>2, <1>3
  <2>2. 2 * y <= u
    BY <1>4, <1>5
  <2>3. QED
    BY <1>3, <2>1, <2>2
<1>7. (size + 1) + 1 = size + 2
  OBVIOUS
<1>8. QED
  BY <1>2, <1>3, <1>5, <1>6, <1>7

LEMMA BzVerifyHolds ==
  ASSUME BzVerifying(bz), BzVerify
  PROVE  BzAnswered(bz')
<1>1. PICK num \in Nat, den \in Nat \ {0}, x \in Nat :
        num = bz.num /\ den = bz.den /\ x = bz.extended
  BY DEF BzVerifying, BzNumbers
<1>2. PICK levels \in Nat : levels = HalvingLevels(bz.plan.n, bz.plan.threshold)
                            /\ 2 * levels + 2 < Base
  <2>1. bz.plan.n \in Nat /\ bz.plan.threshold \in Nat \ {0}
        /\ 2 * HalvingLevels(bz.plan.n, bz.plan.threshold) + 2 < Base
    BY DEF BzVerifying, FractionFits
  <2>2. QED
    BY <2>1, HalvingStep
<1>3. PICK b \in Nat \ {0} : b = Base
  BY BaseType
<1>4. PICK size \in Nat : /\ size = LimbsNeeded(num) - LimbsNeeded(den) + 1
                          /\ num \div den < Power(Base, size)
                          /\ (num * Base) \div den < Power(Base, size + 1)
  <2>1. HasLimbs(num, LimbsNeeded(num)) /\ HasLimbs(den, LimbsNeeded(den))
    BY LimbsNeededHas
  <2>2. LimbsNeeded(den) <= LimbsNeeded(num)
    BY <1>1 DEF BzVerifying, FractionFits
  <2>3. QED
    BY <2>1, <2>2, QuotientLimbsSuffice
<1>5. PICK p \in Nat \ {0} : p = Power(Base, size)
  BY BasePower
<1>6. PICK v \in Nat : v = (num * b) \div den
  <2>1. num * b \in Nat
    OBVIOUS
  <2>2. QED
    BY <2>1, DivNat
<1>7. PICK e \in Nat : e = 2 * levels + 1 /\ e < b
  BY <1>2, <1>3
<1>8. x - v \in 0 .. e
  BY <1>1, <1>2, <1>3, <1>6, <1>7 DEF BzVerifying
<1>9. PICK q, z, w : q = x \div b /\ z = num \div den /\ w = x % b
  OBVIOUS
<1>10. /\ q \in Nat /\ z \in Nat /\ q \in {z, z + 1} /\ w \in Nat
       /\ q = z + 1 => w < e
       /\ num < q * den <=> q = z + 1
  <2>1. Extended(num, den, b, e, v, x, q, w, z)
    BY <1>6, <1>8, <1>9 DEF Extended
  <2>2. QED
    BY <1>7, <2>1, FractionTells
<1>11. x < Power(Base, size + 2)
  <2>1. x <= v + e
    BY <1>8
  <2>2. v < Power(Base, size + 1) /\ e < Base
    BY <1>3, <1>4, <1>6, <1>7
  <2>3. QED
    BY <2>1, <2>2, ExtendedFits
<1>12. levels + 2 < Base
  BY <1>2, BaseType
<1>13. PICK above \in BOOLEAN : above <=> num < q * den
  OBVIOUS
<1>14. PICK answer : VerifiedAs(answer, q, p, w, levels + 2, above)
  BY DEF VerifiedAs
<1>15. bz' = [frames |-> <<Finished>>, num |-> num, den |-> den, plan |-> bz.plan,
              quotient |-> answer,
              sound |-> levels + 2 < Base /\ x < Power(Base, size + 2)]
  <2>1. QuotientSlack(bz.plan.n, bz.plan.threshold) = levels + 2
    BY <1>2 DEF QuotientSlack
  <2>2. bz.num = num /\ bz.den = den /\ bz.extended = x /\ x \div Base = q /\ x % Base = w
        /\ LimbsNeeded(num) - LimbsNeeded(den) + 1 = size /\ Power(Base, size) = p
    BY <1>1, <1>3, <1>4, <1>5, <1>9
  <2>3. QED
    BY <1>13, <1>14, <2>1, <2>2 DEF BzVerify, VerifiedAs, Finished
<1>16. (levels + 2 < Base /\ x < Power(Base, size + 2)) = TRUE
  BY <1>11, <1>12
<1>17. bz' = [frames |-> <<Finished>>, num |-> num, den |-> den, plan |-> bz.plan,
              quotient |-> answer, sound |-> TRUE]
  BY <1>15, <1>16
<1>18. answer - z \in 0 .. 1 /\ (levels <= 1 => answer = z)
  <2>1. z < p
    BY <1>4, <1>5, <1>9
  <2>2. q = z + 1 => w < 2 * levels + 1
    BY <1>7, <1>10
  <2>3. above <=> q = z + 1
    BY <1>10, <1>13
  <2>4. QED
    BY <1>10, <1>14, <2>1, <2>2, <2>3, VerifiedAnswer
<1>19. /\ bz'.frames = <<Finished>> /\ bz'.sound = TRUE /\ bz'.num = num /\ bz'.den = den
       /\ bz'.plan = bz.plan /\ bz'.quotient = answer /\ "remainder" \notin DOMAIN bz'
  BY <1>17
<1>20. QED
  BY <1>2, <1>9, <1>18, <1>19 DEF BzAnswered

-----------------------------------------------------------------------------
(* Calls of the division.                                                  *)

(* Numbers of two limbs or more. *)
LEMMA WideOperands ==
  ASSUME NEW v \in Nat, v >= Base
  PROVE  LimbsNeeded(v) >= 2 /\ LimbsNeeded(v) \in Nat
<1>1. HasLimbs(v, LimbsNeeded(v))
  BY LimbsNeededHas
<1>2. PICK n \in Nat \ {0} : n = LimbsNeeded(v) /\ v < Power(Base, n)
  BY <1>1 DEF HasLimbs
<1>3. n # 1
  <2>1. Power(Base, 1) = Base
    BY BaseType, PowerOne
  <2>2. QED
    BY <1>2, <2>1, BaseType
<1>4. QED
  BY <1>2, <1>3

(* The stack with which a march begins. *)
BeginsWith(fr, c, plan) ==
  /\ fr = [k \in 1 .. c |-> fr[k]] /\ fr[c] = BzDriver(c # 1, plan.t - 1)
  /\ \A k \in 1 .. c - 1 : fr[k] = Verifies

LEMMA StackBegins ==
  ASSUME NEW c \in {1, 2}, NEW num \in Nat, NEW den \in Nat, NEW threshold \in Nat \ {0},
         LimbsNeeded(num) >= 2, LimbsNeeded(den) >= 2,
         NEW plan, plan = BzPlan(num, den, threshold), NEW fr, BeginsWith(fr, c, plan)
  PROVE  /\ BzStack(fr, c, c, BzWorkspace(num, den, plan), plan, num * Power(2, plan.sigma),
                    den * Power(2, plan.sigma))
         /\ Power(2, plan.sigma) \in Nat \ {0} /\ plan.threshold = threshold
         /\ plan.n = PaddedLimbs(LimbsNeeded(den), threshold) /\ plan.n \in Nat
<1>0. SetUp(plan, num, den, threshold)
  BY PlanIs
<1>1. /\ PlanFits(plan) /\ plan.n = PaddedLimbs(LimbsNeeded(den), threshold)
      /\ plan.threshold = threshold /\ Power(2, plan.sigma) \in Nat \ {0}
      /\ den * Power(2, plan.sigma) < Power(Base, plan.n)
      /\ Power(Base, plan.n) <= 2 * (den * Power(2, plan.sigma))
      /\ 2 * (num * Power(2, plan.sigma)) < Power(Base, plan.t * plan.n)
  BY <1>0 DEF SetUp
<1>2. PICK x \in Nat, d \in Nat : x = num * Power(2, plan.sigma) /\ d = den * Power(2, plan.sigma)
  <2>1. \A a, b \in Nat : a * b \in Nat
    OBVIOUS
  <2>2. QED
    BY <1>1, <2>1
<1>3. x < Power(Base, plan.t * plan.n)
  <2>1. PICK p \in Nat : p = Power(Base, plan.t * plan.n)
    <3>1. plan.t * plan.n \in Nat
      BY <1>1, SizeIs
    <3>2. QED
      BY <3>1, BasePower
  <2>2. 2 * x < p
    BY <1>1, <1>2, <2>1
  <2>3. x < p
    BY <2>2
  <2>4. QED
    BY <2>1, <2>3
<1>4. PICK mem : mem = BzWorkspace(num, den, plan)
  OBVIOUS
<1>5. /\ Memory(mem, BzSize(plan)) /\ Value(mem, Divisor(plan)) = d
      /\ Value(mem, BzSpan("w", plan, 0, plan.t)) = x
  BY <1>1, <1>2, <1>3, <1>4, WorkspaceIs
<1>6. PICK approx \in BOOLEAN : approx = (c # 1)
  OBVIOUS
<1>7. PICK f : f = BzDriver(approx, plan.t - 1) /\ f = fr[c] /\ f.approx = approx
  <2>1. BzDriver(approx, plan.t - 1) = fr[c]
    BY <1>6 DEF BeginsWith
  <2>2. BzDriver(approx, plan.t - 1).approx = approx
    BY DEF BzDriver
  <2>3. QED
    BY <2>1, <2>2
<1>8. IsDriver(f, mem, plan, d) /\ Marches(f, mem, plan, x, d)
  <2>1. Power(Base, plan.n) <= 2 * d /\ 2 * x < Power(Base, plan.t * plan.n)
    BY <1>1, <1>2
  <2>2. QED
    BY <1>1, <1>5, <1>7, <2>1, MarchStarts
<1>9. CalledBy(fr, c) /\ fr = [k \in 1 .. c |-> fr[k]]
  BY <1>6, <1>7 DEF CalledBy, BeginsWith
<1>10. /\ c \in Nat \ {0} /\ c \in 1 .. c /\ \A k \in c + 1 .. c : FALSE
       /\ \A k \in c .. c - 1 : FALSE
  OBVIOUS
<1>11. BzStack(fr, c, c, mem, plan, x, d)
  BY <1>1, <1>5, <1>7, <1>8, <1>9, <1>10 DEF BzStack
<1>12. QED
  BY <1>1, <1>2, <1>4, <1>11 DEF PlanFits

(* Calls begin with operands of two limbs or more. *)
LEMMA OperandsAreWide ==
  ASSUME NEW c \in BzOperands \cup BzQuotients
  PROVE  /\ c.num \in Nat /\ c.den \in Nat \ {0} /\ c.threshold \in Nat \ {0}
         /\ LimbsNeeded(c.num) >= 2 /\ LimbsNeeded(c.den) >= 2
         /\ LimbsNeeded(c.den) <= LimbsNeeded(c.num)
<1>1. /\ c.num \in Nat /\ c.den \in Nat /\ c.threshold \in Nat /\ c.threshold >= 2
      /\ c.den >= Base /\ LimbsNeeded(c.den) <= LimbsNeeded(c.num)
  BY BzAssumption
<1>2. LimbsNeeded(c.den) >= 2 /\ LimbsNeeded(c.den) \in Nat
  BY <1>1, WideOperands
<1>3. LimbsNeeded(c.num) \in Nat
  BY <1>1, LimbsNeededHas DEF HasLimbs
<1>4. LimbsNeeded(c.num) >= 2
  BY <1>1, <1>2, <1>3
<1>5. c.den # 0 /\ c.threshold # 0
  BY <1>1, BaseType
<1>6. QED
  BY <1>1, <1>2, <1>4, <1>5

LEMMA BzEnterHolds ==
  ASSUME BzEnter
  PROVE  BzMarching(bz', 1)
<1>1. PICK c \in BzOperands : \E plan \in {BzPlan(c.num, c.den, c.threshold)} :
        bz' = [frames |-> <<BzDriver(FALSE, plan.t - 1)>>, num |-> c.num, den |-> c.den,
               plan |-> plan, mem |-> BzWorkspace(c.num, c.den, plan)]
  BY DEF BzEnter
<1>2. PICK plan \in {BzPlan(c.num, c.den, c.threshold)} :
        bz' = [frames |-> <<BzDriver(FALSE, plan.t - 1)>>, num |-> c.num, den |-> c.den,
               plan |-> plan, mem |-> BzWorkspace(c.num, c.den, plan)]
  BY <1>1
<1>3. /\ c.num \in Nat /\ c.den \in Nat \ {0} /\ c.threshold \in Nat \ {0}
      /\ LimbsNeeded(c.num) >= 2 /\ LimbsNeeded(c.den) >= 2
  <2>1. c \in BzOperands \cup BzQuotients
    OBVIOUS
  <2>2. QED
    BY <2>1, OperandsAreWide
<1>4. PICK fr : fr = <<BzDriver(FALSE, plan.t - 1)>> /\ BeginsWith(fr, 1, plan)
  <2>1. PICK f : f = BzDriver(FALSE, plan.t - 1) /\ f = BzDriver(1 # 1, plan.t - 1)
    <3>1. (1 # 1) = FALSE
      OBVIOUS
    <3>2. BzDriver(1 # 1, plan.t - 1) = BzDriver(FALSE, plan.t - 1)
      BY <3>1
    <3>3. QED
      BY <3>2
  <2>2. PICK fr : fr = <<f>> /\ fr = [k \in 1 .. 1 |-> fr[k]] /\ fr[1] = f
    <3>1. 1 .. 1 = {1}
      OBVIOUS
    <3>2. PICK fr : fr = <<f>>
      OBVIOUS
    <3>3. fr[1] = f
      BY <3>2
    <3>4. fr = [k \in 1 .. 1 |-> fr[k]]
      BY <3>2
    <3>5. QED
      BY <3>2, <3>3, <3>4
  <2>3. \A k \in 1 .. 1 - 1 : fr[k] = Verifies
    OBVIOUS
  <2>4. QED
    BY <2>1, <2>2, <2>3 DEF BeginsWith
<1>5. /\ BzStack(fr, 1, 1, BzWorkspace(c.num, c.den, plan), plan, c.num * Power(2, plan.sigma),
                 c.den * Power(2, plan.sigma))
      /\ Power(2, plan.sigma) \in Nat \ {0}
  BY <1>3, <1>4, StackBegins
<1>6. PICK mem : mem = BzWorkspace(c.num, c.den, plan)
  OBVIOUS
<1>7. bz' = [frames |-> fr, num |-> c.num, den |-> c.den, plan |-> plan, mem |-> mem]
  BY <1>2, <1>4, <1>6
<1>8. /\ bz'.frames = fr /\ bz'.num = c.num /\ bz'.den = c.den /\ bz'.plan = plan /\ bz'.mem = mem
      /\ BzRecord(bz')
  BY <1>7 DEF BzRecord
<1>9. BzNumbers(bz')
  BY <1>3, <1>5, <1>8 DEF BzNumbers
<1>10. BzStack(bz'.frames, 1, 1, bz'.mem, bz'.plan, Dividend(bz', 1),
              bz'.den * Power(2, bz'.plan.sigma))
  BY <1>5, <1>6, <1>8 DEF Dividend
<1>11. QED
  BY <1>8, <1>9, <1>10 DEF BzMarching

LEMMA BzEnterQuotientHolds ==
  ASSUME BzEnterQuotient
  PROVE  BzMarching(bz', 2)
<1>1. PICK c \in BzQuotients : \E plan \in {BzPlan(c.num * Base, c.den, c.threshold)} :
        bz' = [frames |-> <<[op |-> "quotient", pc |-> "verify"], BzDriver(TRUE, plan.t - 1)>>,
               num |-> c.num, den |-> c.den, plan |-> plan,
               mem |-> BzWorkspace(c.num * Base, c.den, plan)]
  BY DEF BzEnterQuotient
<1>2. PICK plan \in {BzPlan(c.num * Base, c.den, c.threshold)} :
        bz' = [frames |-> <<[op |-> "quotient", pc |-> "verify"], BzDriver(TRUE, plan.t - 1)>>,
               num |-> c.num, den |-> c.den, plan |-> plan,
               mem |-> BzWorkspace(c.num * Base, c.den, plan)]
  BY <1>1
<1>3. /\ c.num \in Nat /\ c.den \in Nat \ {0} /\ c.threshold \in Nat \ {0}
      /\ LimbsNeeded(c.num) >= 2 /\ LimbsNeeded(c.den) >= 2
      /\ LimbsNeeded(c.den) <= LimbsNeeded(c.num)
  <2>1. c \in BzOperands \cup BzQuotients
    OBVIOUS
  <2>2. QED
    BY <2>1, OperandsAreWide
<1>4. PICK x \in Nat : x = c.num * Base /\ LimbsNeeded(x) >= 2
  <2>1. PICK num \in Nat, b \in Nat : num = c.num /\ b = Base
    BY <1>3, BaseType
  <2>2. num # 0
    <3>1. LimbsNeeded(0) = 1
      <4>1. HasLimbs(0, LimbsNeeded(0))
        BY LimbsNeededHas
      <4>2. \A k \in Nat : Power(Base, k) >= 1
        <5>1. \A k \in Nat : Power(Base, k) \in Nat \ {0}
          BY BasePower
        <5>2. QED
          BY <5>1
      <4>3. PICK n \in Nat \ {0} : n = LimbsNeeded(0) /\ (n = 1 \/ Power(Base, n - 1) <= 0)
        BY <4>1 DEF HasLimbs
      <4>4. n - 1 \in Nat
        OBVIOUS
      <4>5. Power(Base, n - 1) \in Nat /\ Power(Base, n - 1) >= 1
        BY <4>2, <4>4, BasePower
      <4>6. QED
        BY <4>3, <4>5
    <3>2. QED
      BY <1>3, <2>1, <3>1
  <2>3. 1 * b <= num * b /\ num * b \in Nat /\ 1 * b = b
    BY <2>2, MulPos
  <2>4. PICK y \in Nat : y = num * b /\ y >= Base
    BY <2>1, <2>3
  <2>5. LimbsNeeded(y) >= 2
    BY <2>4, WideOperands
  <2>6. QED
    BY <2>1, <2>4, <2>5
<1>5. PICK fr : /\ fr = <<[op |-> "quotient", pc |-> "verify"], BzDriver(TRUE, plan.t - 1)>>
                /\ BeginsWith(fr, 2, plan)
  <2>1. PICK f : f = BzDriver(TRUE, plan.t - 1) /\ f = BzDriver(2 # 1, plan.t - 1)
    <3>1. (2 # 1) = TRUE
      OBVIOUS
    <3>2. BzDriver(2 # 1, plan.t - 1) = BzDriver(TRUE, plan.t - 1)
      BY <3>1
    <3>3. QED
      BY <3>2
  <2>2. PICK v : v = Verifies /\ v = [op |-> "quotient", pc |-> "verify"]
    BY DEF Verifies
  <2>3. PICK fr : fr = <<v, f>> /\ fr = [k \in 1 .. 2 |-> fr[k]] /\ fr[2] = f /\ fr[1] = v
    <3>1. 1 .. 2 = {1, 2}
      OBVIOUS
    <3>2. PICK fr : fr = <<v, f>>
      OBVIOUS
    <3>3. fr[1] = v /\ fr[2] = f
      BY <3>2
    <3>4. fr = [k \in 1 .. 2 |-> fr[k]]
      BY <3>2
    <3>5. QED
      BY <3>2, <3>3, <3>4
  <2>4. \A k \in 1 .. 2 - 1 : fr[k] = v
    <3>1. \A k \in 1 .. 2 - 1 : k = 1
      OBVIOUS
    <3>2. QED
      BY <2>3, <3>1
  <2>5. QED
    BY <2>1, <2>2, <2>3, <2>4 DEF BeginsWith
<1>6. plan = BzPlan(x, c.den, c.threshold)
  BY <1>4
<1>7. /\ BzStack(fr, 2, 2, BzWorkspace(x, c.den, plan), plan, x * Power(2, plan.sigma),
                 c.den * Power(2, plan.sigma))
      /\ Power(2, plan.sigma) \in Nat \ {0} /\ plan.threshold = c.threshold
      /\ plan.n = PaddedLimbs(LimbsNeeded(c.den), c.threshold) /\ plan.n \in Nat
  BY <1>3, <1>4, <1>5, <1>6, StackBegins
<1>8. PICK mem : mem = BzWorkspace(x, c.den, plan)
  OBVIOUS
<1>9. bz' = [frames |-> fr, num |-> c.num, den |-> c.den, plan |-> plan, mem |-> mem]
  BY <1>2, <1>4, <1>5, <1>8
<1>10. /\ bz'.frames = fr /\ bz'.num = c.num /\ bz'.den = c.den /\ bz'.plan = plan /\ bz'.mem = mem
      /\ BzRecord(bz')
  BY <1>9 DEF BzRecord
<1>11. BzNumbers(bz')
  BY <1>3, <1>7, <1>10 DEF BzNumbers
<1>12. FractionFits(bz')
  <2>1. 2 * HalvingLevels(PaddedLimbs(LimbsNeeded(c.den), c.threshold), c.threshold) + 2 < Base
    BY BzAssumption
  <2>2. QED
    BY <1>3, <1>7, <1>10, <2>1 DEF FractionFits
<1>13. Dividend(bz', 2) = x * Power(2, plan.sigma)
  BY <1>4, <1>10 DEF Dividend
<1>14. BzStack(bz'.frames, 2, 2, bz'.mem, bz'.plan, Dividend(bz', 2),
               bz'.den * Power(2, bz'.plan.sigma))
  BY <1>7, <1>8, <1>10, <1>13
<1>15. QED
  BY <1>10, <1>11, <1>12, <1>14 DEF BzMarching

(* Each step of a march. *)
LEMMA MarchGoes ==
  ASSUME NEW c \in {1, 2}, BzMarching(bz, c), BzStep
  PROVE  BzHolds(bz')
<1>1. PICK d : BzStack(bz.frames, d, c, bz.mem, bz.plan, Dividend(bz, c),
                       bz.den * Power(2, bz.plan.sigma))
  BY DEF BzMarching
<1>2. PICK n, m : n = Dividend(bz, c) /\ m = bz.den * Power(2, bz.plan.sigma)
  OBVIOUS
<1>3. BzRecord(bz) /\ BzStack(bz.frames, d, c, bz.mem, bz.plan, n, m)
  BY <1>1, <1>2 DEF BzMarching
<1>4. BzFrame.op \notin {"quotient", "result"}
  <2>1. BzFrame = bz.frames[d]
    BY <1>1, TopFrame DEF BzFrame
  <2>2. bz.frames[d].op \in {"driver", "2n1n", "3n2n", "divappr"}
    BY <1>1, TopFrame
  <2>3. QED
    BY <2>1, <2>2
<1>5. ~BzVerify /\ ~BzExit
  BY <1>4 DEF BzVerify, BzExit, BzRuns
<1>6. ASSUME BzGoes(c, n, m) PROVE BzMarching(bz', c)
  <2>1. BzRecord(bz') /\ bz'.num = bz.num /\ bz'.den = bz.den /\ bz'.plan = bz.plan
    BY <1>6 DEF BzGoes, SameNumbers
  <2>2. PICK e : BzStack(bz'.frames, e, c, bz'.mem, bz'.plan, n, m)
    BY <1>6 DEF BzGoes
  <2>3. n = Dividend(bz', c) /\ m = bz'.den * Power(2, bz'.plan.sigma)
    BY <1>2, <2>1 DEF Dividend
  <2>4. BzNumbers(bz') /\ (c = 2 => FractionFits(bz'))
    <3>1. BzNumbers(bz) /\ (c = 2 => FractionFits(bz))
      BY DEF BzMarching
    <3>2. QED
      BY <2>1, <3>1 DEF BzNumbers, FractionFits
  <2>5. \E k : BzStack(bz'.frames, k, c, bz'.mem, bz'.plan, Dividend(bz', c),
                       bz'.den * Power(2, bz'.plan.sigma))
    BY <2>2, <2>3
  <2>6. QED
    BY <2>1, <2>4, <2>5 DEF BzMarching
<1>7. BzMarching(bz', c) => BzHolds(bz')
  BY DEF BzHolds
<1>8. CASE BzLeaf
  BY <1>3, <1>6, <1>7, <1>8, BzLeafHolds
<1>9. CASE BzUpper
  BY <1>3, <1>6, <1>7, <1>9, BzUpperHolds
<1>10. CASE BzLower
  BY <1>3, <1>6, <1>7, <1>10, BzLowerHolds
<1>11. CASE BzEstimate
  BY <1>3, <1>6, <1>7, <1>11, BzEstimateHolds
<1>12. CASE BzLargest
  BY <1>3, <1>6, <1>7, <1>12, BzLargestHolds
<1>13. CASE BzProduct
  BY <1>3, <1>6, <1>7, <1>13, BzProductHolds
<1>14. CASE BzCorrect
  BY <1>3, <1>6, <1>7, <1>14, BzCorrectHolds
<1>15. CASE BzApproxLeaf
  BY <1>3, <1>6, <1>7, <1>15, BzApproxLeafHolds
<1>16. CASE BzApproxLower
  BY <1>3, <1>6, <1>7, <1>16, BzApproxLowerHolds
<1>17. CASE BzReturn
  BY <1>3, <1>6, <1>7, <1>17, BzReturnHolds
<1>18. CASE BzMarch
  BY <1>3, <1>6, <1>7, <1>18, BzMarchHolds
<1>19. CASE BzFinish
  BY <1>19, BzFinishHolds DEF BzHolds
<1>20. CASE BzFinishApprox
  BY <1>20, BzFinishApproxHolds DEF BzHolds
<1>21. QED
  BY <1>5, <1>8, <1>9, <1>10, <1>11, <1>12, <1>13, <1>14, <1>15, <1>16, <1>17, <1>18, <1>19, <1>20
     DEF BzStep

(* A frame alone on the stack runs. *)
LEMMA OneFrame == ASSUME NEW f, bz.frames = <<f>> PROVE bz.frames # <<>> /\ BzFrame = f
<1>1. Len(<<f>>) = 1 /\ <<f>>[1] = f /\ <<f>> # <<>>
  OBVIOUS
<1>2. QED
  BY <1>1 DEF BzFrame

LEMMA VerifyingFrame ==
  ASSUME BzVerifying(bz)
  PROVE  bz.frames # <<>> /\ BzFrame.op = "quotient" /\ BzFrame.pc = "verify"
<1>1. bz.frames # <<>> /\ BzFrame = Verifies
  BY OneFrame DEF BzVerifying
<1>2. QED
  BY <1>1 DEF Verifies

LEMMA AnsweredFrame ==
  ASSUME BzAnswered(bz)
  PROVE  bz.frames # <<>> /\ BzFrame.op = "result" /\ BzFrame.pc = "done"
<1>1. bz.frames # <<>> /\ BzFrame = Finished
  BY OneFrame DEF BzAnswered
<1>2. QED
  BY <1>1 DEF Finished

LEMMA IdleRunsNot == ASSUME bz = BzIdle PROVE bz.frames = <<>>
  BY DEF BzIdle

(* Which frame each step runs. *)
LEMMA StepsRun ==
  /\ BzStep => bz.frames # <<>>
  /\ BzStep /\ BzFrame.op = "quotient" /\ BzFrame.pc = "verify" => BzVerify
  /\ BzStep /\ BzFrame.op = "result" /\ BzFrame.pc = "done" => BzExit
<1> SUFFICES ASSUME BzStep
             PROVE  /\ bz.frames # <<>>
                    /\ BzFrame.op = "quotient" /\ BzFrame.pc = "verify" => BzVerify
                    /\ BzFrame.op = "result" /\ BzFrame.pc = "done" => BzExit
  OBVIOUS
<1> DEFINE InMarch == /\ bz.frames # <<>>
                      /\ \/ BzFrame.op \in {"2n1n", "3n2n", "divappr", "driver"}
                         \/ BzFrame.pc = "return"
<1>1. BzLeaf \/ BzUpper \/ BzLower \/ BzEstimate \/ BzLargest => InMarch
  BY DEF BzLeaf, BzUpper, BzLower, BzEstimate, BzLargest, BzRuns
<1>2. BzProduct \/ BzCorrect \/ BzApproxLeaf \/ BzApproxLower \/ BzReturn => InMarch
  BY DEF BzProduct, BzCorrect, BzApproxLeaf, BzApproxLower, BzReturn, BzRuns
<1>3. BzMarch \/ BzFinish \/ BzFinishApprox => InMarch
  BY DEF BzMarch, BzFinish, BzFinishApprox, BzRuns
<1>4. InMarch \/ BzVerify \/ BzExit
  BY <1>1, <1>2, <1>3 DEF BzStep
<1>5. BzVerify => bz.frames # <<>> /\ BzFrame.op = "quotient"
  BY DEF BzVerify, BzRuns
<1>6. BzExit => bz.frames # <<>> /\ BzFrame.op = "result"
  BY DEF BzExit, BzRuns
<1>7. QED
  BY <1>4, <1>5, <1>6

(* Each step of a division. *)
LEMMA BzStepHolds ==
  ASSUME BzHolds(bz), BzStep
  PROVE  BzHolds(bz')
<1>1. CASE bz = BzIdle
  BY <1>1, IdleRunsNot, StepsRun
<1>2. CASE BzMarching(bz, 1)
  <2>1. 1 \in {1, 2}
    OBVIOUS
  <2>2. QED
    BY <1>2, <2>1, MarchGoes
<1>3. CASE BzMarching(bz, 2)
  <2>1. 2 \in {1, 2}
    OBVIOUS
  <2>2. QED
    BY <1>3, <2>1, MarchGoes
<1>4. CASE BzVerifying(bz)
  <2>1. BzVerify
    BY <1>4, VerifyingFrame, StepsRun
  <2>2. BzAnswered(bz')
    BY <1>4, <2>1, BzVerifyHolds
  <2>3. QED
    BY <2>2 DEF BzHolds
<1>5. CASE BzAnswered(bz)
  <2>1. BzExit
    BY <1>5, AnsweredFrame, StepsRun
  <2>2. bz' = BzIdle
    BY <2>1 DEF BzExit
  <2>3. QED
    BY <2>2 DEF BzHolds
<1>6. QED
  BY <1>1, <1>2, <1>3, <1>4, <1>5 DEF BzHolds

(* A division by halves is at all times idle, at one of the calls of its recursion with the
   frames below waiting for just the part of the quotient that it computes, at the
   verification of divide_quotient, or at its end with the right answer: the invariant behind
   WindowsDivide and QuotientAlone. *)
THEOREM BlockDivisionStates == Spec => []BzHolds(bz)
<1>1. Init => BzHolds(bz)
  BY DEF Init, BzInit, BzHolds
<1>2. BzHolds(bz) /\ [Next]_vars => BzHolds(bz)'
  <2> SUFFICES ASSUME BzHolds(bz), [Next]_vars PROVE BzHolds(bz')
    OBVIOUS
  <2>1. CASE Enter
    <3>1. BzEnter \/ BzEnterQuotient \/ bz' = bz
      BY <2>1 DEF Enter
    <3>2. QED
      BY <3>1, BzEnterHolds, BzEnterQuotientHolds DEF BzHolds
  <2>2. CASE KnuthRuns
    <3>1. bz' = bz
      BY <2>2 DEF KnuthRuns
    <3>2. QED
      BY <3>1
  <2>3. CASE BzRunsOn
    BY <2>3, BzStepHolds DEF BzRunsOn
  <2>4. CASE BarRuns
    <3>1. bz' = bz
      BY <2>4 DEF BarRuns
    <3>2. QED
      BY <3>1
  <2>5. CASE DwRuns
    <3>1. bz' = bz
      BY <2>5 DEF DwRuns
    <3>2. QED
      BY <3>1
  <2>6. CASE UNCHANGED vars
    <3>1. bz' = bz
      BY <2>6 DEF vars
    <3>2. QED
      BY <3>1
  <2>7. QED
    BY <2>1, <2>2, <2>3, <2>4, <2>5, <2>6 DEF Next
<1>3. QED
  BY <1>1, <1>2, PTL DEF Spec

-----------------------------------------------------------------------------
(* What the invariant says of the frame that runs.                         *)

LEMMA MarchingFrame ==
  ASSUME NEW c \in {1, 2}, BzMarching(bz, c)
  PROVE  /\ PlanFits(bz.plan) /\ BzFrame.op # "result"
         /\ \/ BzFrame.op = "driver"
            \/ IsCall(BzFrame, bz.mem, BzSize(bz.plan)) /\ Stands(BzFrame, bz.mem, bz.plan)
<1>1. PICK d : BzStack(bz.frames, d, c, bz.mem, bz.plan, Dividend(bz, c),
                       bz.den * Power(2, bz.plan.sigma))
  BY DEF BzMarching
<1>2. BzFrame = bz.frames[d] /\ PlanFits(bz.plan)
  BY <1>1, TopFrame DEF BzFrame
<1>3. CASE c = d
  <2>1. BzFrame.op = "driver"
    BY <1>1, <1>2, <1>3, TopFrame
  <2>2. QED
    BY <1>2, <2>1
<1>4. CASE c # d
  <2>1. /\ IsCall(BzFrame, bz.mem, BzSize(bz.plan)) /\ Stands(BzFrame, bz.mem, bz.plan)
        /\ BzFrame.op \in {"2n1n", "3n2n", "divappr"}
    BY <1>1, <1>2, <1>4, TopFrame
  <2>2. QED
    BY <1>2, <2>1
<1>5. QED
  BY <1>3, <1>4

(* The window of a call: the remainder and what is above it. *)
LEMMA WindowParts ==
  ASSUME NEW f, NEW mem, NEW size, IsCall(f, mem, size)
  PROVE  /\ First(f.a, f.b.n) = Cut(f.a, 0, f.b.n)
         /\ AboveRemainder(f) = Cut(f.a, f.b.n, f.q.n)
<1>1. PICK k \in Nat, e \in Nat : k = f.b.n /\ e = f.q.n /\ f.a.n = k + e
  BY CallIn
<1>2. In(f.a, size) /\ f.a.n - k = e
  BY <1>1 DEF IsCall
<1>3. First(f.a, k) = Cut(f.a, 0, k) /\ Subspan(f.a, k) = Cut(f.a, k, f.a.n - k)
  BY <1>2, FirstCut
<1>4. QED
  BY <1>1, <1>2, <1>3 DEF AboveRemainder

LEMMA WindowHolds ==
  ASSUME NEW c \in {1, 2}, BzMarching(bz, c)
  PROVE  WindowsDivide /\ QuotientAlone
<1>1. PICK f : f = BzFrame
  OBVIOUS
<1>2. /\ PlanFits(bz.plan) /\ f.op # "result"
      /\ \/ f.op = "driver"
         \/ IsCall(f, bz.mem, BzSize(bz.plan)) /\ Stands(f, bz.mem, bz.plan)
  BY <1>1, MarchingFrame
<1>3. CASE f.op = "driver"
  BY <1>1, <1>3 DEF WindowsDivide, QuotientAlone
<1>4. CASE IsCall(f, bz.mem, BzSize(bz.plan)) /\ Stands(f, bz.mem, bz.plan)
  <2>1. ASSUME f.op = "2n1n", f.pc = "enter"
        PROVE  Value(bz.mem, AboveRemainder(f)) < Value(bz.mem, f.b)
    <3>1. f.b.n = f.q.n
      BY <1>4, <2>1 DEF IsCall
    <3>2. AboveRemainder(f) = Cut(f.a, f.q.n, f.b.n)
      BY <1>4, <3>1, WindowParts
    <3>3. Entered(f, bz.mem)
      BY <1>4, <2>1, StandsAt
    <3>4. QED
      BY <3>2, <3>3 DEF Entered
  <2>2. ASSUME f.op \in {"2n1n", "3n2n"}, f.pc = "return"
        PROVE  LET b == Value(bz.mem, f.b)
                   r == Value(bz.mem, First(f.a, f.b.n))
               IN  /\ f.sound /\ f.corrections <= 2
                   /\ Value(bz.mem, f.q) * b + r = f.value /\ r < b
                   /\ Value(bz.mem, AboveRemainder(f)) = 0
    <3>1. Divided(f, bz.mem)
      BY <1>4, <2>2, StandsAt
    <3>2. f.sound = TRUE /\ f.corrections <= 2
      BY <1>4 DEF IsCall
    <3>3. QED
      BY <1>4, <3>1, <3>2, WindowParts DEF Divided
  <2>3. ASSUME f.op = "divappr", f.pc = "return"
        PROVE  /\ f.sound
               /\ Value(bz.mem, f.q) - (f.value \div Value(bz.mem, f.b))
                    \in 0 .. 2 * HalvingLevels(f.b.n, bz.plan.threshold) + 1
    <3>1. Approximated(f, bz.mem, bz.plan) /\ f.sound = TRUE
      BY <1>4, <2>3, StandsAt DEF IsCall
    <3>2. PICK n \in Nat : n = f.b.n
      BY <1>4, CallIn
    <3>3. PICK levels \in Nat, m \in Nat \ {0} :
            levels = HalvingLevels(n, bz.plan.threshold) /\ m = Power(Base, n)
      <4>1. bz.plan.threshold \in Nat \ {0}
        BY <1>2 DEF PlanFits
      <4>2. QED
        BY <4>1, HalvingStep, BasePower
    <3>4. PICK b \in Nat, q \in Nat, v \in Nat :
            b = Value(bz.mem, f.b) /\ q = Value(bz.mem, f.q) /\ v = f.value
      <4>1. In(f.b, BzSize(bz.plan)) /\ In(f.q, BzSize(bz.plan)) /\ f.value \in Nat
        BY <1>4 DEF IsCall
      <4>2. Memory(bz.mem, BzSize(bz.plan))
        BY DEF BzMarching, BzStack
      <4>3. QED
        BY <4>1, <4>2, ValueType
    <3>5. m <= 2 * b
      BY <1>4, <3>2, <3>3, <3>4 DEF IsCall
    <3>6. b \in Nat \ {0}
      BY <3>3, <3>4, <3>5
    <3>7. Approximates(q, b, v, levels * m + b)
      BY <3>1, <3>2, <3>3, <3>4 DEF Approximated, Lift
    <3>8. q - (v \div b) \in 0 .. 2 * levels + 1
      BY <3>3, <3>4, <3>5, <3>6, <3>7, ApproximationWithin
    <3>9. QED
      BY <3>1, <3>2, <3>3, <3>4, <3>8
  <2>4. QED
    BY <1>1, <1>2, <2>1, <2>2, <2>3 DEF WindowsDivide, QuotientAlone
<1>5. QED
  BY <1>2, <1>3, <1>4

LEMMA AnswerHolds == ASSUME BzAnswered(bz) PROVE WindowsDivide /\ QuotientAlone
<1>1. BzFrame.op = "result"
  BY AnsweredFrame
<1>2. bz.sound = TRUE
  BY DEF BzAnswered
<1>3. WindowsDivide
  BY <1>1, <1>2 DEF WindowsDivide, BzAnswered
<1>4. QuotientAlone
  BY <1>1, <1>2 DEF QuotientAlone, BzAnswered
<1>5. QED
  BY <1>3, <1>4

LEMMA HoldsAnswers == ASSUME BzHolds(bz) PROVE WindowsDivide /\ QuotientAlone
<1>1. CASE bz = BzIdle
  BY <1>1, IdleRunsNot DEF WindowsDivide, QuotientAlone
<1>2. CASE BzMarching(bz, 1)
  <2>1. 1 \in {1, 2}
    OBVIOUS
  <2>2. QED
    BY <1>2, <2>1, WindowHolds
<1>3. CASE BzMarching(bz, 2)
  <2>1. 2 \in {1, 2}
    OBVIOUS
  <2>2. QED
    BY <1>3, <2>1, WindowHolds
<1>4. CASE BzVerifying(bz)
  <2>1. BzFrame.op = "quotient"
    BY <1>4, VerifyingFrame
  <2>2. QED
    BY <2>1 DEF WindowsDivide, QuotientAlone
<1>5. CASE BzAnswered(bz)
  BY <1>5, AnswerHolds
<1>6. QED
  BY <1>1, <1>2, <1>3, <1>4, <1>5 DEF BzHolds

(* Every window of a division by halves, for all operands, thresholds and widths of a limb, and
   however the leaves of divappr round: the limbs of the window above the remainder are below
   the divisor when divide_2n1n is called and zero when it and divide_3n2n return, with quotient
   and remainder exact, at most two corrections made and no assertion failed; and the march of
   the windows ends with quotient and remainder of the whole division. *)
THEOREM WindowsAreExact == Spec => []WindowsDivide
<1>1. BzHolds(bz) => WindowsDivide
  BY HoldsAnswers
<1>2. QED
  BY <1>1, BlockDivisionStates, PTL

(* An approximate window is never below the quotient, and at most two above it for every halving
   and one for the leaf; divide_quotient, which computes the quotient alone from such windows
   and one limb of fraction, is never below and at most one too large, and exact where a window
   is halved once at most. *)
THEOREM QuotientAloneIsRight == Spec => []QuotientAlone
<1>1. BzHolds(bz) => QuotientAlone
  BY HoldsAnswers
<1>2. QED
  BY <1>1, BlockDivisionStates, PTL

-----------------------------------------------------------------------------
(* The workspaces of division: what each call needs of the arena that is   *)
(* there, and sequences of steps that take from arenas and give back.      *)

(* WrapOf with its build and choice as parameters. *)
WrapIn(build, wide, n) ==
  IF n < build.cyclic THEN WrapSize(n, WrapCutoffLimbs) ELSE IF wide THEN 2 * (n - 1) ELSE n

MarchNeeds(build, wide, n) ==
  LET w == WrapIn(build, wide, n + 1) IN 2 * n + 2 * w + WrapStorage(w)

SchoolbookNeeds(m, n) == m + 1 + n

(* Limbs of j * 2^i, so that halving ends at j, which is no more than the cutoff. *)
HalvesDown(n, cutoff) ==
  n \in Nat \ {0} /\ \E i, j \in Nat : n = j * Power(2, i) /\ j <= cutoff

LeafNeeds(cutoff) == 6 * cutoff + 3

(* Divisor and dividend of a division. *)
OfSizes(s) == s[2] \in Nat /\ s[3] \in Nat \ {0} /\ s[3] <= s[2]

(* The room a call needs in the arena it is given; what opens its own needs none. *)
HasRoom(build, wide, s, room) ==
  CASE s[1] = "unsigned" ->
         /\ s[2] \in Nat /\ s[3] \in Nat
         /\ (IF s[4] = 0 THEN 0 ELSE s[3]) + s[2] + 1 <= room
    [] s[1] = "dispatch" -> OfSizes(s) /\ SchoolbookNeeds(s[2], s[3]) <= room
    [] s[1] = "dispatch_q" -> OfSizes(s) /\ SchoolbookNeeds(s[2], s[3]) + s[2] + 1 <= room
    [] s[1] = "preinvs" -> OfSizes(s)
    [] s[1] \in {"2n1n", "divappr"} ->
         HalvesDown(s[2], build.cutoff) /\ s[2] <= room /\ LeafNeeds(build.cutoff) <= room
    [] s[1] = "3n2n" ->
         HalvesDown(s[2], build.cutoff) /\ 2 * s[2] <= room /\ LeafNeeds(build.cutoff) <= room
    [] s[1] \in {"reciprocal", "refine"} ->
         s[2] \in Nat \ {0} /\ ReciprocalStorage(s[2], build.reciprocal) <= room
    [] s[1] = "march" -> s[2] \in Nat \ {0} /\ MarchNeeds(build, wide, s[2]) <= room
    [] s[1] = "mulmod" ->
         /\ s[2] \in Nat /\ s[3] \in Nat /\ s[3] <= s[2]
         /\ (IF 2 * s[3] <= s[2] THEN 2 * s[3] ELSE WrapStorage(s[2])) <= room

Arena == {r \in [offset : Nat, capacity : Nat] : r.offset <= r.capacity}

RoomIn(a) == IF a = <<>> THEN 0 ELSE a[Len(a)].capacity - a[Len(a)].offset

Raised(a, k) == [a EXCEPT ![Len(a)].offset = @ + k]
Lowered(a, k) == [a EXCEPT ![Len(a)].offset = @ - k]
Opened(a, k) == Append(a, [offset |-> 0, capacity |-> k])
Closed(a) == SubSeq(a, 1, Len(a) - 1)

(* One step leads from arenas to arenas; a call finds the room it needs and leaves them. *)
Passes(build, wide, s, a, b) ==
  /\ a \in Seq(Arena) /\ b \in Seq(Arena)
  /\ s[1] = "open" => s[2] \in Nat /\ b = Opened(a, s[2])
  /\ s[1] = "close" => b = Closed(a)
  /\ s[1] = "take" => a # <<>> /\ b = Raised(a, s[2])
  /\ s[1] = "give" => a # <<>> /\ b = Lowered(a, s[2])
  /\ s[1] \notin {"open", "close", "take", "give"} => b = a /\ HasRoom(build, wide, s, RoomIn(a))
  /\ s[1] \notin {"open", "close", "take", "give", "preinvs"} => a # <<>>

(* Steps lead from arenas to arenas through those at every step. *)
Through(build, wide, steps, at, n) ==
  /\ steps = [i \in 1 .. n |-> steps[i]] /\ n \in Nat
  /\ \A i \in 1 .. n : Passes(build, wide, steps[i], at[i], at[i + 1])

Leads(build, wide, steps, a, b) ==
  /\ a \in Seq(Arena) /\ b \in Seq(Arena)
  /\ \E at, n : Through(build, wide, steps, at, n) /\ at[1] = a /\ at[n + 1] = b

LEMMA StepsAre ==
  ASSUME NEW steps, NEW n \in Nat, steps = [i \in 1 .. n |-> steps[i]]
  PROVE  /\ Len(steps) = n /\ steps \in Seq({steps[i] : i \in 1 .. n})
         /\ steps = <<>> <=> n = 0
<1>1. steps \in [1 .. n -> {steps[i] : i \in 1 .. n}]
  OBVIOUS
<1>2. steps \in Seq({steps[i] : i \in 1 .. n})
  BY <1>1
<1>3. Len(steps) = n
  BY <1>1
<1>4. QED
  BY <1>2, <1>3

LEMMA LeadsNowhere ==
  ASSUME NEW build, NEW wide, NEW a \in Seq(Arena)
  PROVE  Leads(build, wide, <<>>, a, a)
<1>1. <<>> = [i \in 1 .. 0 |-> <<>>[i]]
  OBVIOUS
<1>2. PICK at : at = [i \in 1 .. 1 |-> a]
  OBVIOUS
<1>3. at[1] = a /\ at[0 + 1] = a
  BY <1>2
<1>4. Through(build, wide, <<>>, at, 0)
  BY <1>1 DEF Through
<1>5. QED
  BY <1>3, <1>4 DEF Leads

LEMMA LeadsOne ==
  ASSUME NEW build, NEW wide, NEW s, NEW a, NEW b, Passes(build, wide, s, a, b)
  PROVE  Leads(build, wide, <<s>>, a, b)
<1>1. <<s>> = [i \in 1 .. 1 |-> <<s>>[i]] /\ <<s>>[1] = s
  OBVIOUS
<1>2. PICK at : at = [i \in 1 .. 2 |-> IF i = 1 THEN a ELSE b]
  OBVIOUS
<1>3. at[1] = a /\ at[1 + 1] = b
  BY <1>2
<1>4. \A i \in 1 .. 1 : i = 1
  OBVIOUS
<1>5. Through(build, wide, <<s>>, at, 1)
  BY <1>1, <1>3, <1>4 DEF Through
<1>6. a \in Seq(Arena) /\ b \in Seq(Arena)
  BY DEF Passes
<1>7. QED
  BY <1>3, <1>5, <1>6 DEF Leads

LEMMA LeadsOn ==
  ASSUME NEW build, NEW wide, NEW s, NEW t, NEW a, NEW b, NEW c,
         Leads(build, wide, s, a, b), Leads(build, wide, t, b, c)
  PROVE  Leads(build, wide, s \o t, a, c)
<1>1. PICK f, n : Through(build, wide, s, f, n) /\ f[1] = a /\ f[n + 1] = b
  BY DEF Leads
<1>2. PICK g, m : Through(build, wide, t, g, m) /\ g[1] = b /\ g[m + 1] = c
  BY DEF Leads
<1>3. /\ n \in Nat /\ m \in Nat
      /\ s = [i \in 1 .. n |-> s[i]] /\ t = [i \in 1 .. m |-> t[i]]
      /\ \A i \in 1 .. n : Passes(build, wide, s[i], f[i], f[i + 1])
      /\ \A i \in 1 .. m : Passes(build, wide, t[i], g[i], g[i + 1])
  BY <1>1, <1>2 DEF Through
<1>4. /\ Len(s) = n /\ Len(t) = m /\ s \in Seq({s[i] : i \in 1 .. n})
      /\ t \in Seq({t[i] : i \in 1 .. m})
  BY <1>3, StepsAre
<1>5. PICK u : /\ u = s \o t /\ u = [i \in 1 .. n + m |-> u[i]]
               /\ \A i \in 1 .. n : u[i] = s[i]
               /\ \A i \in 1 .. m : u[n + i] = t[i]
  <2>1. PICK S : s \in Seq(S) /\ t \in Seq(S)
    <3>1. PICK S : S = {s[i] : i \in 1 .. n} \cup {t[i] : i \in 1 .. m}
      OBVIOUS
    <3>2. \A i \in 1 .. n : s[i] \in S
      BY <3>1
    <3>3. \A i \in 1 .. m : t[i] \in S
      BY <3>1
    <3>4. s \in Seq(S) /\ t \in Seq(S)
      BY <1>3, <1>4, <3>2, <3>3
    <3>5. QED
      BY <3>4
  <2>2. PICK u : u = s \o t
    OBVIOUS
  <2>3. u \in Seq(S) /\ Len(u) = n + m
    BY <1>3, <1>4, <2>1, <2>2
  <2>4. \A i \in 1 .. n : u[i] = s[i]
    BY <1>4, <2>1, <2>2
  <2>5. \A i \in 1 .. m : u[n + i] = t[i]
    BY <1>3, <1>4, <2>1, <2>2
  <2>6. u = [i \in 1 .. n + m |-> u[i]]
    BY <2>3
  <2>7. QED
    BY <2>2, <2>4, <2>5, <2>6
<1>6. PICK at : at = [i \in 1 .. n + m + 1 |-> IF i <= n THEN f[i] ELSE g[i - n]]
  OBVIOUS
<1>7. at[1] = a /\ at[n + m + 1] = c
  <2>1. n + m + 1 - n = m + 1 /\ 1 \in 1 .. n + m + 1 /\ n + m + 1 \in 1 .. n + m + 1
        /\ ~(n + m + 1 <= n)
    BY <1>3
  <2>2. at[n + m + 1] = c
    <3>1. at[n + m + 1] = g[n + m + 1 - n]
      BY <1>3, <1>6, <2>1
    <3>2. QED
      BY <1>2, <2>1, <3>1
  <2>3. CASE n = 0
    BY <1>1, <1>2, <1>6, <2>1, <2>2, <2>3
  <2>4. CASE n # 0
    BY <1>1, <1>3, <1>6, <2>1, <2>2, <2>4
  <2>5. QED
    BY <2>3, <2>4
<1>8. ASSUME NEW i \in 1 .. n + m
      PROVE  Passes(build, wide, u[i], at[i], at[i + 1])
  <2>1. CASE i < n
    BY <1>3, <1>5, <1>6, <2>1
  <2>2. CASE i = n
    <3>1. at[i] = f[i] /\ at[i + 1] = b
      BY <1>2, <1>3, <1>6, <2>2
    <3>2. QED
      BY <1>1, <1>3, <1>5, <2>2, <3>1
  <2>3. CASE i > n
    <3>1. PICK k \in 1 .. m : i = n + k
      <4>1. i - n \in 1 .. m /\ i = n + (i - n)
        BY <1>3, <2>3
      <4>2. QED
        BY <4>1
    <3>2. at[i] = g[k] /\ at[i + 1] = g[k + 1]
      <4>1. i - n = k /\ i + 1 - n = k + 1 /\ ~(i <= n) /\ ~(i + 1 <= n)
        BY <1>3, <3>1
      <4>2. i + 1 \in 1 .. n + m + 1
        BY <1>3
      <4>3. at[i] = g[i - n] /\ at[i + 1] = g[i + 1 - n]
        BY <1>3, <1>6, <4>1, <4>2
      <4>4. QED
        BY <4>1, <4>3
    <3>3. QED
      BY <1>3, <1>5, <3>1, <3>2
  <2>4. QED
    BY <1>3, <2>1, <2>2, <2>3
<1>9. Through(build, wide, u, at, n + m)
  <2>1. n + m \in Nat
    BY <1>3
  <2>2. QED
    BY <1>5, <1>8, <2>1 DEF Through
<1>10. a \in Seq(Arena) /\ c \in Seq(Arena)
  BY DEF Leads
<1>11. QED
  BY <1>5, <1>7, <1>9, <1>10 DEF Leads

(* The first step, and the rest. *)
LEMMA LeadsFirst ==
  ASSUME NEW build, NEW wide, NEW steps, NEW a, NEW b, Leads(build, wide, steps, a, b),
         steps # <<>>
  PROVE  \E c : Passes(build, wide, Head(steps), a, c) /\ Leads(build, wide, Tail(steps), c, b)
<1>1. PICK f, n : Through(build, wide, steps, f, n) /\ f[1] = a /\ f[n + 1] = b
  BY DEF Leads
<1>2. /\ n \in Nat /\ steps = [i \in 1 .. n |-> steps[i]]
      /\ \A i \in 1 .. n : Passes(build, wide, steps[i], f[i], f[i + 1])
  BY <1>1 DEF Through
<1>3. Len(steps) = n /\ steps \in Seq({steps[i] : i \in 1 .. n}) /\ n # 0
  BY <1>2, StepsAre
<1>4. PICK m \in Nat : n = m + 1
  <2>1. n - 1 \in Nat /\ n = (n - 1) + 1
    BY <1>2, <1>3
  <2>2. QED
    BY <2>1
<1>5. Head(steps) = steps[1] /\ 1 \in 1 .. n
  BY <1>2, <1>3
<1>6. PICK t : /\ t = Tail(steps) /\ t = [i \in 1 .. m |-> t[i]]
               /\ \A i \in 1 .. m : t[i] = steps[i + 1]
  <2>1. PICK t : t = Tail(steps)
    OBVIOUS
  <2>2. t \in Seq({steps[i] : i \in 1 .. n}) /\ Len(t) = m
    BY <1>2, <1>3, <1>4, <2>1
  <2>3. \A i \in 1 .. m : t[i] = steps[i + 1]
    BY <1>2, <1>3, <1>4, <2>1
  <2>4. QED
    BY <2>1, <2>2, <2>3
<1>7. PICK g : g = [i \in 1 .. n |-> f[i + 1]]
  OBVIOUS
<1>8. g[1] = f[1 + 1] /\ g[m + 1] = b
  BY <1>1, <1>4, <1>7
<1>9. \A i \in 1 .. m : Passes(build, wide, t[i], g[i], g[i + 1])
  <2>1. ASSUME NEW i \in 1 .. m PROVE Passes(build, wide, t[i], g[i], g[i + 1])
    <3>1. i \in 1 .. n /\ i + 1 \in 1 .. n
      BY <1>4
    <3>2. QED
      BY <1>2, <1>6, <1>7, <3>1
  <2>2. QED
    BY <2>1
<1>10. Through(build, wide, t, g, m)
  BY <1>6, <1>9 DEF Through
<1>11. Passes(build, wide, Head(steps), a, f[1 + 1])
  BY <1>1, <1>2, <1>5
<1>12. f[1 + 1] \in Seq(Arena) /\ b \in Seq(Arena)
  BY <1>11 DEF Passes, Leads
<1>13. Leads(build, wide, t, f[1 + 1], b)
  BY <1>8, <1>10, <1>12 DEF Leads
<1>14. QED
  BY <1>6, <1>11, <1>13

LEMMA LeadsAlong ==
  ASSUME NEW build, NEW wide, NEW steps, NEW n \in Nat, NEW a \in Seq(Arena),
         steps = [i \in 1 .. n |-> steps[i]],
         \A i \in 1 .. n : Passes(build, wide, steps[i], a, a)
  PROVE  Leads(build, wide, steps, a, a)
<1>1. PICK at : at = [i \in 1 .. n + 1 |-> a]
  OBVIOUS
<1>2. at[1] = a /\ at[n + 1] = a /\ \A i \in 1 .. n : at[i] = a /\ at[i + 1] = a
  BY <1>1
<1>3. Through(build, wide, steps, at, n)
  BY <1>2 DEF Through
<1>4. QED
  BY <1>2, <1>3 DEF Leads

(* The innermost arena. *)
TopArena(a, d, o, c) ==
  /\ d \in Nat \ {0} /\ o \in Nat /\ c \in Nat /\ o <= c
  /\ a = [i \in 1 .. d |-> a[i]] /\ Len(a) = d /\ a[d] = [offset |-> o, capacity |-> c]
  /\ \A i \in 1 .. d : a[i] \in Arena

LEMMA InnermostArena ==
  ASSUME NEW a \in Seq(Arena), a # <<>>
  PROVE  \E d, o, c : TopArena(a, d, o, c)
<1>1. PICK d : d = Len(a) /\ d \in Nat \ {0} /\ a = [i \in 1 .. d |-> a[i]]
               /\ \A i \in 1 .. d : a[i] \in Arena
  OBVIOUS
<1>2. a[d] \in Arena
  BY <1>1
<1>3. PICK o \in Nat, c \in Nat : a[d] = [offset |-> o, capacity |-> c] /\ o <= c
  BY <1>2 DEF Arena
<1>4. QED
  BY <1>1, <1>3 DEF TopArena

LEMMA RoomOf ==
  ASSUME NEW a, NEW d, NEW o, NEW c, TopArena(a, d, o, c)
  PROVE  RoomIn(a) = c - o /\ a # <<>> /\ a \in Seq(Arena)
<1>1. /\ d \in Nat \ {0} /\ a = [i \in 1 .. d |-> a[i]] /\ Len(a) = d
      /\ \A i \in 1 .. d : a[i] \in Arena
  BY DEF TopArena
<1>2. a \in Seq(Arena)
  BY <1>1
<1>3. a # <<>>
  BY <1>1
<1>4. a[Len(a)].capacity = c /\ a[Len(a)].offset = o
  BY DEF TopArena
<1>5. QED
  BY <1>2, <1>3, <1>4 DEF RoomIn

LEMMA RoomType == ASSUME NEW a \in Seq(Arena) PROVE RoomIn(a) \in Nat
<1>1. CASE a = <<>>
  BY <1>1 DEF RoomIn
<1>2. CASE a # <<>>
  <2>1. PICK d, o, c : TopArena(a, d, o, c)
    BY <1>2, InnermostArena
  <2>2. RoomIn(a) = c - o /\ o \in Nat /\ c \in Nat /\ o <= c
    BY <2>1, RoomOf DEF TopArena
  <2>3. QED
    BY <2>2
<1>3. QED
  BY <1>1, <1>2

LEMMA ArenaOf ==
  ASSUME NEW o \in Nat, NEW c \in Nat, o <= c
  PROVE  [offset |-> o, capacity |-> c] \in Arena
<1>1. PICK r : r = [offset |-> o, capacity |-> c]
  OBVIOUS
<1>2. r \in [offset : Nat, capacity : Nat]
  BY <1>1
<1>3. r.offset <= r.capacity
  BY <1>1
<1>4. QED
  BY <1>1, <1>2, <1>3 DEF Arena

(* The innermost arena with another offset. *)
WithOffset(b, a, p) == b = [a EXCEPT ![Len(a)].offset = p]

LEMMA SetOffset ==
  ASSUME NEW a, NEW d, NEW o, NEW c, TopArena(a, d, o, c), NEW p \in Nat, p <= c,
         NEW b, WithOffset(b, a, p)
  PROVE  TopArena(b, d, p, c) /\ \A i \in 1 .. d : i # d => b[i] = a[i]
<1>1. /\ d \in Nat \ {0} /\ c \in Nat /\ a = [i \in 1 .. d |-> a[i]] /\ Len(a) = d
      /\ \A i \in 1 .. d : a[i] \in Arena
      /\ a[d] = [offset |-> o, capacity |-> c]
  BY DEF TopArena
<1>2. PICK r : r = [offset |-> p, capacity |-> c] /\ r \in Arena
  BY <1>1, ArenaOf
<1>3. [a[d] EXCEPT !.offset = p] = r
  <2>1. [[offset |-> o, capacity |-> c] EXCEPT !.offset = p] = [offset |-> p, capacity |-> c]
    OBVIOUS
  <2>2. QED
    BY <1>1, <1>2, <2>1
<1>4. b = [a EXCEPT ![d] = r]
  BY <1>1, <1>3 DEF WithOffset
<1>5. b = [i \in 1 .. d |-> IF i = d THEN r ELSE a[i]] /\ d \in 1 .. d
  <2>1. a \in [1 .. d -> Arena] /\ d \in 1 .. d
    BY <1>1
  <2>2. QED
    BY <1>4, <2>1
<1>6. /\ b[d] = r /\ \A i \in 1 .. d : i # d => b[i] = a[i]
      /\ b = [i \in 1 .. d |-> b[i]]
  BY <1>5
<1>7. \A i \in 1 .. d : b[i] \in Arena
  BY <1>1, <1>2, <1>6
<1>8. Len(b) = d
  <2>1. b \in [1 .. d -> Arena]
    BY <1>6, <1>7
  <2>2. QED
    BY <1>1, <1>6, <2>1
<1>9. QED
  BY <1>1, <1>2, <1>6, <1>7, <1>8 DEF TopArena

LEMMA RaisedRoom ==
  ASSUME NEW a \in Seq(Arena), a # <<>>, NEW k \in Nat, k <= RoomIn(a)
  PROVE  /\ Raised(a, k) \in Seq(Arena) /\ Raised(a, k) # <<>>
         /\ RoomIn(Raised(a, k)) = RoomIn(a) - k
         /\ Lowered(Raised(a, k), k) = a
<1>1. PICK d, o, c : TopArena(a, d, o, c)
  BY InnermostArena
<1>2. /\ d \in Nat \ {0} /\ o \in Nat /\ c \in Nat /\ a = [i \in 1 .. d |-> a[i]] /\ Len(a) = d
      /\ a[d] = [offset |-> o, capacity |-> c]
  BY <1>1 DEF TopArena
<1>3. RoomIn(a) = c - o
  BY <1>1, RoomOf
<1>4. PICK p \in Nat : p = o + k /\ p <= c
  BY <1>2, <1>3
<1>5. PICK b : b = Raised(a, k) /\ WithOffset(b, a, p)
  <2>1. a[Len(a)].offset + k = p
    BY <1>2, <1>4
  <2>2. Raised(a, k) = [a EXCEPT ![Len(a)].offset = p]
    BY <2>1 DEF Raised
  <2>3. QED
    BY <2>2 DEF WithOffset
<1>6. TopArena(b, d, p, c) /\ \A i \in 1 .. d : i # d => b[i] = a[i]
  BY <1>1, <1>4, <1>5, SetOffset
<1>7. RoomIn(b) = c - p /\ b # <<>> /\ b \in Seq(Arena)
  BY <1>6, RoomOf
<1>8. Len(b) = d /\ b[d] = [offset |-> p, capacity |-> c]
  BY <1>6 DEF TopArena
<1>9. PICK e : e = Lowered(b, k) /\ WithOffset(e, b, o)
  <2>1. b[Len(b)].offset - k = o
    BY <1>2, <1>4, <1>8
  <2>2. Lowered(b, k) = [b EXCEPT ![Len(b)].offset = o]
    BY <2>1 DEF Lowered
  <2>3. QED
    BY <2>2 DEF WithOffset
<1>10. TopArena(e, d, o, c) /\ \A i \in 1 .. d : i # d => e[i] = b[i]
  <2>1. o <= c /\ TopArena(b, d, p, c)
    BY <1>1, <1>6 DEF TopArena
  <2>2. QED
    BY <1>2, <1>9, <2>1, SetOffset
<1>11. e = a
  <2>1. e = [i \in 1 .. d |-> e[i]] /\ e[d] = a[d]
    BY <1>2, <1>10 DEF TopArena
  <2>2. \A i \in 1 .. d : e[i] = a[i]
    BY <1>6, <1>10, <2>1
  <2>3. QED
    BY <1>2, <2>1, <2>2
<1>12. QED
  <2>1. c - p = (c - o) - k
    BY <1>2, <1>4
  <2>2. RoomIn(b) = RoomIn(a) - k
    BY <1>3, <1>7, <2>1
  <2>3. Lowered(b, k) = a
    BY <1>9, <1>11
  <2>4. QED
    BY <1>5, <1>7, <2>2, <2>3

LEMMA OpenedRoom ==
  ASSUME NEW a \in Seq(Arena), NEW k \in Nat
  PROVE  /\ Opened(a, k) \in Seq(Arena) /\ Opened(a, k) # <<>>
         /\ RoomIn(Opened(a, k)) = k
<1>1. PICK r : r = [offset |-> 0, capacity |-> k] /\ r \in Arena /\ r.capacity - r.offset = k
  <2>1. [offset |-> 0, capacity |-> k] \in Arena
    BY ArenaOf
  <2>2. k - 0 = k
    OBVIOUS
  <2>3. QED
    BY <2>1, <2>2
<1>2. PICK b : b = Append(a, r) /\ b \in Seq(Arena) /\ Len(b) = Len(a) + 1 /\ b[Len(b)] = r
  <2>1. PICK b : b = Append(a, r)
    OBVIOUS
  <2>2. b \in Seq(Arena) /\ Len(b) = Len(a) + 1
    BY <1>1, <2>1
  <2>3. b[Len(a) + 1] = r
    BY <1>1, <2>1
  <2>4. QED
    BY <2>1, <2>2, <2>3
<1>3. b # <<>>
  BY <1>2
<1>4. QED
  BY <1>1, <1>2, <1>3 DEF Opened, RoomIn

(* What is done to the innermost arena leaves those around it. *)
LEMMA ClosedAgain ==
  ASSUME NEW a \in Seq(Arena), NEW k \in Nat, NEW l \in Nat, l <= k
  PROVE  Closed(Opened(a, k)) = a /\ Closed(Raised(Opened(a, k), l)) = a
<1>1. PICK r : r = [offset |-> 0, capacity |-> k] /\ r \in Arena
  <2>1. [offset |-> 0, capacity |-> k] \in Arena
    BY ArenaOf
  <2>2. QED
    BY <2>1
<1>2. PICK b : b = Opened(a, k) /\ b = Append(a, r)
  BY <1>1 DEF Opened
<1>3. b \in Seq(Arena) /\ Len(b) = Len(a) + 1 /\ Len(a) \in Nat /\ Len(b) - 1 = Len(a)
      /\ \A i \in 1 .. Len(a) : b[i] = a[i]
  BY <1>1, <1>2
<1>4. SubSeq(b, 1, Len(b) - 1) = a
  BY <1>3
<1>5. PICK e : e = Raised(b, l) /\ e = [b EXCEPT ![Len(b)].offset = b[Len(b)].offset + l]
  BY DEF Raised
<1>6. e = [b EXCEPT ![Len(b)] = e[Len(b)]]
  BY <1>3, <1>5
<1>7. e \in Seq(Arena)
  <2>1. b # <<>> /\ RoomIn(b) = k
    BY <1>2, OpenedRoom
  <2>2. QED
    BY <1>3, <1>5, <2>1, RaisedRoom
<1>8. Len(e) = Len(b) /\ \A i \in 1 .. Len(a) : e[i] = b[i]
  BY <1>3, <1>5, <1>7
<1>9. SubSeq(e, 1, Len(e) - 1) = a
  BY <1>3, <1>7, <1>8
<1>10. QED
  BY <1>2, <1>4, <1>5, <1>9 DEF Closed

(* Steps that need no more than this room, and leave the arenas as they were. *)
Fits(build, wide, steps, room) ==
  \A a \in Seq(Arena) : a # <<>> /\ room <= RoomIn(a) => Leads(build, wide, steps, a, a)

(* Steps that bring an arena of their own. *)
Brings(build, wide, steps) == \A a \in Seq(Arena) : Leads(build, wide, steps, a, a)

LEMMA TakePasses ==
  ASSUME NEW build, NEW wide, NEW a \in Seq(Arena), a # <<>>, NEW k \in Nat, k <= RoomIn(a)
  PROVE  /\ Leads(build, wide, <<Take(k)>>, a, Raised(a, k))
         /\ Leads(build, wide, <<Give(k)>>, Raised(a, k), a)
<1>1. PICK c : c = Raised(a, k) /\ c \in Seq(Arena) /\ c # <<>> /\ Lowered(c, k) = a
  BY RaisedRoom
<1>2. PICK s : s = Take(k) /\ s[1] = "take" /\ s[2] = k
  <2>1. <<"take", k>>[1] = "take" /\ <<"take", k>>[2] = k
    OBVIOUS
  <2>2. Take(k)[1] = "take" /\ Take(k)[2] = k
    BY <2>1 DEF Take
  <2>3. QED
    BY <2>2
<1>3. PICK t : t = Give(k) /\ t[1] = "give" /\ t[2] = k
  <2>1. <<"give", k>>[1] = "give" /\ <<"give", k>>[2] = k
    OBVIOUS
  <2>2. Give(k)[1] = "give" /\ Give(k)[2] = k
    BY <2>1 DEF Give
  <2>3. QED
    BY <2>2
<1>4. Passes(build, wide, s, a, c)
  BY <1>1, <1>2 DEF Passes
<1>5. Passes(build, wide, t, c, a)
  BY <1>1, <1>3 DEF Passes
<1>6. QED
  BY <1>1, <1>2, <1>3, <1>4, <1>5, LeadsOne

LEMMA FitsHolding ==
  ASSUME NEW build, NEW wide, NEW steps, NEW room \in Nat, NEW k \in Nat,
         Fits(build, wide, steps, room)
  PROVE  Fits(build, wide, Holding(k, steps), k + room)
<1> SUFFICES ASSUME NEW a \in Seq(Arena), a # <<>>, k + room <= RoomIn(a)
             PROVE  Leads(build, wide, Holding(k, steps), a, a)
  BY DEF Fits
<1>1. RoomIn(a) \in Nat /\ k <= RoomIn(a) /\ room <= RoomIn(a) - k
  <2>1. RoomIn(a) \in Nat
    BY RoomType
  <2>2. QED
    BY <2>1
<1>2. PICK c : /\ c = Raised(a, k) /\ c \in Seq(Arena) /\ c # <<>>
               /\ RoomIn(c) = RoomIn(a) - k
  BY <1>1, RaisedRoom
<1>3. Leads(build, wide, <<Take(k)>>, a, c) /\ Leads(build, wide, <<Give(k)>>, c, a)
  BY <1>1, <1>2, TakePasses
<1>4. Leads(build, wide, steps, c, c)
  BY <1>1, <1>2 DEF Fits
<1>5. Leads(build, wide, <<Take(k)>> \o steps, a, c)
  BY <1>3, <1>4, LeadsOn
<1>6. Leads(build, wide, (<<Take(k)>> \o steps) \o <<Give(k)>>, a, a)
  BY <1>3, <1>5, LeadsOn
<1>7. QED
  BY <1>6 DEF Holding

LEMMA FitsBoth ==
  ASSUME NEW build, NEW wide, NEW s, NEW t, NEW room,
         Fits(build, wide, s, room), Fits(build, wide, t, room)
  PROVE  Fits(build, wide, s \o t, room)
<1> SUFFICES ASSUME NEW a \in Seq(Arena), a # <<>>, room <= RoomIn(a)
             PROVE  Leads(build, wide, s \o t, a, a)
  BY DEF Fits
<1>1. Leads(build, wide, s, a, a) /\ Leads(build, wide, t, a, a)
  BY DEF Fits
<1>2. QED
  BY <1>1, LeadsOn

LEMMA FitsNothing ==
  ASSUME NEW build, NEW wide, NEW room
  PROVE  Fits(build, wide, <<>>, room)
  BY LeadsNowhere DEF Fits

LEMMA FitsMore ==
  ASSUME NEW build, NEW wide, NEW steps, NEW room \in Nat, NEW more \in Nat, room <= more,
         Fits(build, wide, steps, room)
  PROVE  Fits(build, wide, steps, more)
<1> SUFFICES ASSUME NEW a \in Seq(Arena), a # <<>>, more <= RoomIn(a)
             PROVE  Leads(build, wide, steps, a, a)
  BY DEF Fits
<1>1. RoomIn(a) \in Nat
  BY RoomType
<1>2. room <= RoomIn(a)
  BY <1>1
<1>3. QED
  BY <1>2 DEF Fits

(* A call by itself. *)
Call(build, wide, s, room) ==
  /\ s[1] \notin {"open", "close", "take", "give", "preinvs"}
  /\ \A r \in Nat : room <= r => HasRoom(build, wide, s, r)

LEMMA CallPasses ==
  ASSUME NEW build, NEW wide, NEW s, NEW room \in Nat, Call(build, wide, s, room),
         NEW a \in Seq(Arena), a # <<>>, room <= RoomIn(a)
  PROVE  Passes(build, wide, s, a, a)
<1>1. HasRoom(build, wide, s, RoomIn(a))
  BY RoomType DEF Call
<1>2. QED
  BY <1>1 DEF Passes, Call

LEMMA FitsCall ==
  ASSUME NEW build, NEW wide, NEW s, NEW room \in Nat, Call(build, wide, s, room)
  PROVE  Fits(build, wide, <<s>>, room)
<1> SUFFICES ASSUME NEW a \in Seq(Arena), a # <<>>, room <= RoomIn(a)
             PROVE  Leads(build, wide, <<s>>, a, a)
  BY DEF Fits
<1>1. QED
  BY CallPasses, LeadsOne

LEMMA FitsCalls ==
  ASSUME NEW build, NEW wide, NEW steps, NEW n \in Nat, NEW room \in Nat,
         steps = [i \in 1 .. n |-> steps[i]],
         \A i \in 1 .. n : Call(build, wide, steps[i], room)
  PROVE  Fits(build, wide, steps, room)
<1> SUFFICES ASSUME NEW a \in Seq(Arena), a # <<>>, room <= RoomIn(a)
             PROVE  Leads(build, wide, steps, a, a)
  BY DEF Fits
<1>1. \A i \in 1 .. n : Passes(build, wide, steps[i], a, a)
  BY CallPasses
<1>2. QED
  BY <1>1, LeadsAlong

LEMMA OpenPasses ==
  ASSUME NEW build, NEW wide, NEW a \in Seq(Arena), NEW c \in Nat
  PROVE  Leads(build, wide, <<<<"open", c>>>>, a, Opened(a, c))
<1>1. PICK s : s = <<"open", c>> /\ s[1] = "open" /\ s[2] = c
  <2>1. <<"open", c>>[1] = "open" /\ <<"open", c>>[2] = c
    OBVIOUS
  <2>2. QED
    BY <2>1
<1>2. Opened(a, c) \in Seq(Arena)
  BY OpenedRoom
<1>3. Passes(build, wide, s, a, Opened(a, c))
  BY <1>1, <1>2 DEF Passes
<1>4. QED
  BY <1>1, <1>3, LeadsOne

LEMMA ClosePasses ==
  ASSUME NEW build, NEW wide, NEW a \in Seq(Arena), NEW b \in Seq(Arena), Closed(b) = a
  PROVE  Leads(build, wide, <<<<"close">>>>, b, a)
<1>1. PICK s : s = <<"close">> /\ s[1] = "close"
  <2>1. <<"close">>[1] = "close"
    OBVIOUS
  <2>2. QED
    BY <2>1
<1>2. Passes(build, wide, s, b, a)
  BY <1>1 DEF Passes
<1>3. QED
  BY <1>1, <1>2, LeadsOne

LEMMA BringsArena ==
  ASSUME NEW build, NEW wide, NEW steps, NEW room \in Nat, NEW c \in Nat, room <= c,
         Fits(build, wide, steps, room)
  PROVE  Brings(build, wide, WithArena(c, steps))
<1> SUFFICES ASSUME NEW a \in Seq(Arena) PROVE Leads(build, wide, WithArena(c, steps), a, a)
  BY DEF Brings
<1>1. PICK b : /\ b = Opened(a, c) /\ b \in Seq(Arena) /\ b # <<>> /\ RoomIn(b) = c
  BY OpenedRoom
<1>2. Leads(build, wide, <<<<"open", c>>>>, a, b)
  BY <1>1, OpenPasses
<1>3. Leads(build, wide, steps, b, b)
  BY <1>1 DEF Fits
<1>4. Closed(b) = a
  <2>1. 0 \in Nat /\ 0 <= c
    OBVIOUS
  <2>2. QED
    BY <1>1, <2>1, ClosedAgain
<1>5. Leads(build, wide, <<<<"close">>>>, b, a)
  BY <1>1, <1>4, ClosePasses
<1>6. Leads(build, wide, <<<<"open", c>>>> \o steps, a, b)
  BY <1>2, <1>3, LeadsOn
<1>7. Leads(build, wide, (<<<<"open", c>>>> \o steps) \o <<<<"close">>>>, a, a)
  BY <1>5, <1>6, LeadsOn
<1>8. QED
  BY <1>7 DEF WithArena

(* Limbs that are taken from an arena and go with it. *)
LEMMA BringsTaken ==
  ASSUME NEW build, NEW wide, NEW steps, NEW room \in Nat, NEW k \in Nat, NEW c \in Nat,
         k + room <= c, Fits(build, wide, steps, room)
  PROVE  Brings(build, wide, WithArena(c, <<Take(k)>> \o steps))
<1> SUFFICES ASSUME NEW a \in Seq(Arena)
             PROVE  Leads(build, wide, WithArena(c, <<Take(k)>> \o steps), a, a)
  BY DEF Brings
<1>1. PICK b : /\ b = Opened(a, c) /\ b \in Seq(Arena) /\ b # <<>> /\ RoomIn(b) = c
  BY OpenedRoom
<1>2. PICK e : /\ e = Raised(b, k) /\ e \in Seq(Arena) /\ e # <<>> /\ RoomIn(e) = c - k
  <2>1. k <= c
    OBVIOUS
  <2>2. QED
    BY <1>1, <2>1, RaisedRoom
<1>3. Leads(build, wide, <<<<"open", c>>>>, a, b)
  BY <1>1, OpenPasses
<1>4. Leads(build, wide, <<Take(k)>>, b, e)
  <2>1. k <= c
    OBVIOUS
  <2>2. QED
    BY <1>1, <1>2, <2>1, TakePasses
<1>5. Leads(build, wide, steps, e, e)
  <2>1. room <= c - k
    OBVIOUS
  <2>2. QED
    BY <1>2, <2>1 DEF Fits
<1>6. Closed(e) = a
  <2>1. k <= c
    OBVIOUS
  <2>2. QED
    BY <1>1, <1>2, <2>1, ClosedAgain
<1>7. Leads(build, wide, <<<<"close">>>>, e, a)
  BY <1>2, <1>6, ClosePasses
<1>8. Leads(build, wide, <<Take(k)>> \o steps, b, e)
  BY <1>4, <1>5, LeadsOn
<1>9. Leads(build, wide, <<<<"open", c>>>> \o (<<Take(k)>> \o steps), a, e)
  BY <1>3, <1>8, LeadsOn
<1>10. Leads(build, wide, (<<<<"open", c>>>> \o (<<Take(k)>> \o steps)) \o <<<<"close">>>>, a, a)
  BY <1>7, <1>9, LeadsOn
<1>11. QED
  BY <1>10 DEF WithArena

LEMMA BringsFits ==
  ASSUME NEW build, NEW wide, NEW steps, Brings(build, wide, steps), NEW room
  PROVE  Fits(build, wide, steps, room)
  BY DEF Brings, Fits

(* How parts and what is rounded up compare. *)
LEMMA PartsAre ==
  ASSUME NEW n \in Nat, NEW k \in Nat, NEW p \in Nat \ {0}, p = Power(2, k)
  PROVE  /\ InParts(n, k) \in Nat /\ RoundedUp(n, k) = p * InParts(n, k)
         /\ p * InParts(n, k) <= n + p - 1
         /\ \A limit \in Nat : InParts(n, k) <= limit <=> n <= p * limit
<1>1. PICK x \in Nat : x = n + p - 1 /\ x \in Int
  OBVIOUS
<1>2. PICK q \in Nat : q = x \div p
  BY <1>1, DivNat
<1>3. InParts(n, k) = q /\ RoundedUp(n, k) = q * p
  BY <1>1, <1>2 DEF InParts, RoundedUp
<1>4. q * p = p * q /\ p * q <= x
  <2>1. q \in Int /\ q <= x \div p
    BY <1>2
  <2>2. p * q <= x
    BY <1>1, <2>1, DivBelow
  <2>3. QED
    BY <2>2
<1>5. ASSUME NEW limit \in Nat PROVE q <= limit <=> n <= p * limit
  <2>1. x \div p < limit + 1 <=> x < p * (limit + 1)
    <3>1. limit + 1 \in Int
      OBVIOUS
    <3>2. QED
      BY <1>1, <3>1, DivBelow
  <2>2. PICK y \in Nat : y = p * limit /\ p * (limit + 1) = y + p
    OBVIOUS
  <2>3. QED
    BY <1>1, <1>2, <2>1, <2>2
<1>6. QED
  BY <1>1, <1>3, <1>4, <1>5

(* Enough halvings leave one part. *)
LEMMA HalvingsExist ==
  ASSUME NEW n \in Nat, NEW limit \in Nat \ {0}
  PROVE  Halvings(n, limit) \in 0 .. n
         /\ \A j \in 0 .. Halvings(n, limit) : (InParts(n, j) <= limit) <=> (j = Halvings(n, limit))
<1>1. PICK b \in 0 .. n : n < Power(2, b)
  BY WidthExists
<1> DEFINE S == {j \in Nat : InParts(n, j) <= limit}
<1>2. b \in S
  <2>1. PICK p \in Nat \ {0} : p = Power(2, b) /\ b \in Nat
    <3>1. b \in Nat /\ 2 \in Nat \ {0}
      OBVIOUS
    <3>2. QED
      BY <3>1, PowerPositive
  <2>2. n <= p * limit
    <3>1. 1 * p <= limit * p /\ limit * p = p * limit
      BY MulPos
    <3>2. QED
      BY <1>1, <2>1, <3>1
  <2>3. QED
    BY <2>1, <2>2, PartsAre
<1>3. PICK k \in S : \A j \in S : k <= j
  <2>1. S \in SUBSET Nat /\ S # {}
    BY <1>2
  <2> HIDE DEF S
  <2>2. QED
    BY <2>1, Smallest
<1>4. k \in 0 .. n
  BY <1>2, <1>3
<1>5. \A j \in 0 .. k : (InParts(n, j) <= limit) <=> (j = k)
  <2>1. ASSUME NEW j \in 0 .. k PROVE (InParts(n, j) <= limit) <=> (j = k)
    <3>1. j \in Nat
      BY <1>4
    <3>2. (InParts(n, j) <= limit) <=> j \in S
      BY <3>1
    <3>3. j \in S => k <= j
      BY <1>3
    <3>4. k \in S
      BY <1>3
    <3> HIDE DEF S
    <3>5. QED
      BY <1>4, <3>1, <3>2, <3>3, <3>4
  <2>2. QED
    BY <2>1
<1> DEFINE Is(h) == \A j \in 0 .. h : (InParts(n, j) <= limit) <=> (j = h)
<1>6. \E h \in 0 .. n : Is(h)
  BY <1>4, <1>5
<1>7. Halvings(n, limit) = CHOOSE h \in 0 .. n : Is(h)
  BY DEF Halvings
<1>8. (CHOOSE h \in 0 .. n : Is(h)) \in 0 .. n /\ Is(CHOOSE h \in 0 .. n : Is(h))
  <2> HIDE DEF Is
  <2>1. QED
    BY <1>6
<1>9. QED
  BY <1>7, <1>8

(* A size of more than 16 limbs is rounded up by less than an eighth. *)
LEMMA WrapSizeIs ==
  ASSUME NEW n \in Nat \ {0}
  PROVE  /\ WrapSize(n, WrapCutoffLimbs) \in Nat /\ n <= WrapSize(n, WrapCutoffLimbs)
         /\ 8 * WrapSize(n, WrapCutoffLimbs) <= 9 * n
<1>1. PICK k \in 0 .. n : /\ k = Halvings(n, 16)
                          /\ \A j \in 0 .. k : (InParts(n, j) <= 16) <=> (j = k)
  <2>1. n \in Nat /\ 16 \in Nat \ {0}
    OBVIOUS
  <2>2. QED
    BY <2>1, HalvingsExist
<1>2. PICK p \in Nat \ {0} : p = Power(2, k) /\ k \in Nat /\ 2 \in Nat
  <2>1. k \in Nat /\ 2 \in Nat /\ 2 \in Nat \ {0}
    OBVIOUS
  <2>2. QED
    BY <2>1, PowerPositive
<1>3. PICK w : w = WrapSize(n, WrapCutoffLimbs) /\ w = RoundedUp(n, k)
  BY <1>1 DEF WrapSize, WrapCutoffLimbs
<1>4. w \in Nat /\ n <= w
  BY <1>2, <1>3, RoundedUpIs
<1>5. w <= n + p - 1
  <2>1. RoundedUp(n, k) = p * InParts(n, k) /\ p * InParts(n, k) <= n + p - 1
    BY <1>2, PartsAre
  <2>2. QED
    BY <1>3, <2>1
<1>6. CASE k = 0
  <2>1. p = 1
    BY <1>2, <1>6, PowerOne
  <2>2. QED
    BY <1>3, <1>4, <1>5, <2>1
<1>7. CASE k # 0
  <2>1. PICK i \in Nat : i + 1 = k /\ i \in 0 .. k
    <3>1. k - 1 \in Nat /\ (k - 1) + 1 = k /\ k - 1 \in 0 .. k
      BY <1>7
    <3>2. QED
      BY <3>1
  <2>2. PICK r \in Nat \ {0} : r = Power(2, i) /\ p = 2 * r
    <3>1. Power(2, i + 1) = 2 * Power(2, i)
      BY <1>2, PowerStep
    <3>2. Power(2, i) \in Nat \ {0}
      <4>1. 2 \in Nat \ {0}
        OBVIOUS
      <4>2. QED
        BY <4>1, PowerPositive
    <3>3. QED
      BY <1>2, <2>1, <3>1, <3>2
  <2>3. ~(InParts(n, i) <= 16)
    BY <1>1, <2>1
  <2>4. InParts(n, i) <= 16 <=> n <= r * 16
    <3>1. 16 \in Nat
      OBVIOUS
    <3>2. QED
      BY <2>2, <3>1, PartsAre
  <2>5. 16 * r < n
    BY <2>3, <2>4
  <2>6. QED
    BY <1>3, <1>4, <1>5, <2>2, <2>5
<1>8. QED
  BY <1>6, <1>7

(* The wrap of a product of n limbs holds one limb more, and less than an eighth above that, or
   the whole product. *)
LEMMA WrapInIs ==
  ASSUME NEW build, build.cyclic \in Nat, NEW wide \in BOOLEAN, NEW n \in Nat \ {0}
  PROVE  /\ WrapIn(build, wide, n + 1) \in Nat /\ n + 1 <= WrapIn(build, wide, n + 1)
         /\ \/ WrapIn(build, wide, n + 1) = 2 * n
            \/ 8 * WrapIn(build, wide, n + 1) <= 9 * n + 9
<1>1. n + 1 \in Nat \ {0} /\ (n + 1) - 1 = n
  OBVIOUS
<1>2. /\ WrapSize(n + 1, WrapCutoffLimbs) \in Nat /\ n + 1 <= WrapSize(n + 1, WrapCutoffLimbs)
      /\ 8 * WrapSize(n + 1, WrapCutoffLimbs) <= 9 * (n + 1)
  BY <1>1, WrapSizeIs
<1>3. CASE n + 1 < build.cyclic
  <2>1. WrapIn(build, wide, n + 1) = WrapSize(n + 1, WrapCutoffLimbs)
    BY <1>3 DEF WrapIn
  <2>2. QED
    BY <1>2, <2>1
<1>4. CASE ~(n + 1 < build.cyclic) /\ wide
  <2>1. WrapIn(build, wide, n + 1) = 2 * n
    BY <1>1, <1>4 DEF WrapIn
  <2>2. QED
    BY <2>1
<1>5. CASE ~(n + 1 < build.cyclic) /\ ~wide
  <2>1. WrapIn(build, wide, n + 1) = n + 1
    BY <1>5 DEF WrapIn
  <2>2. QED
    BY <2>1
<1>6. QED
  BY <1>3, <1>4, <1>5

(* What multiply_mod_bnm1 needs for a refinement of the reciprocal. *)
LEMMA RefineRoom ==
  ASSUME NEW n \in Nat \ {0}, NEW w \in Nat, n + 1 <= w, w = 2 * n \/ 8 * w <= 9 * n + 9,
         NEW threshold \in Nat
  PROVE  /\ 2 * w + (IF 2 * n <= w THEN 2 * n ELSE WrapStorage(w))
              <= ReciprocalStorage(n, threshold)
         /\ ReciprocalStorage(n, threshold) \in Nat
<1>1. WrapStorage(w) = 3 * w + 16 /\ ReciprocalStorage(n, threshold) = 6 * n + 8 * threshold + 32
  BY DEF WrapStorage, ReciprocalStorage
<1>2. CASE 2 * n <= w
  BY <1>1, <1>2
<1>3. CASE ~(2 * n <= w)
  BY <1>1, <1>3
<1>4. QED
  BY <1>1, <1>2, <1>3

(* The padded divisor halves down to the cutoff. *)
LEMMA PaddedHalvesDown ==
  ASSUME NEW s \in Nat \ {0}, NEW cutoff \in Nat \ {0}
  PROVE  HalvesDown(PaddedLimbs(s, cutoff), cutoff)
<1> DEFINE Is(b) == /\ s \div cutoff < Power(2, b)
                    /\ b = 0 \/ Power(2, b - 1) <= s \div cutoff
           width == CHOOSE b \in 0 .. s : Is(b)
<1>1. \E b \in 0 .. s : Is(b)
  <2>1. PICK x \in Nat : x = s \div cutoff /\ x <= s
    BY DivNat
  <2>2. PICK b \in 0 .. x : x < Power(2, b) /\ (b = 0 \/ Power(2, b - 1) <= x)
    BY WidthExists
  <2>3. b \in 0 .. s
    BY <2>1
  <2>4. QED
    BY <2>1, <2>2, <2>3
<1>2. width \in 0 .. s /\ s \div cutoff < Power(2, width)
  BY <1>1
<1>3. PaddedLimbs(s, cutoff) = RoundedUp(s, width)
  BY DEF PaddedLimbs
<1> HIDE DEF width
<1>4. PICK p \in Nat \ {0} : p = Power(2, width) /\ width \in Nat
  <2>1. width \in Nat /\ 2 \in Nat \ {0}
    BY <1>2
  <2>2. QED
    BY <2>1, PowerPositive
<1>5. /\ InParts(s, width) \in Nat /\ RoundedUp(s, width) = p * InParts(s, width)
      /\ InParts(s, width) <= cutoff <=> s <= p * cutoff
  BY <1>4, PartsAre
<1>6. s < cutoff * p
  <2>1. s \in Int /\ p \in Int
    OBVIOUS
  <2>2. QED
    BY <1>2, <1>4, <2>1, DivBelow
<1>7. PICK j \in Nat : j = InParts(s, width) /\ j <= cutoff /\ p * j = j * p
  <2>1. cutoff * p = p * cutoff
    OBVIOUS
  <2>2. QED
    BY <1>5, <1>6, <2>1
<1>8. PaddedLimbs(s, cutoff) \in Nat \ {0}
  <2>1. PaddedLimbs(s, cutoff) \in Nat /\ s <= PaddedLimbs(s, cutoff)
    BY PaddedIs
  <2>2. QED
    BY <2>1
<1>9. PaddedLimbs(s, cutoff) = j * Power(2, width)
  BY <1>3, <1>4, <1>5, <1>7
<1>10. QED
  BY <1>4, <1>7, <1>8, <1>9 DEF HalvesDown

(* Half of what halves, unless it is a leaf, *)
LEMMA HalfHalvesDown ==
  ASSUME NEW cutoff \in Nat \ {0}, NEW n, HalvesDown(n, cutoff), n % 2 = 0, ~(n < cutoff)
  PROVE  /\ HalvesDown(n \div 2, cutoff)
         /\ n \in Nat /\ n \div 2 \in Nat /\ 2 * (n \div 2) = n
<1>1. PICK i \in Nat, j \in Nat : n \in Nat \ {0} /\ n = j * Power(2, i) /\ j <= cutoff
  BY DEF HalvesDown
<1>2. PICK h \in Nat \ {0} : h = n \div 2 /\ n = 2 * h
  BY <1>1
<1>3. CASE i = 0
  <2>1. n = j
    <3>1. Power(2, 0) = 1
      BY PowerOne
    <3>2. QED
      BY <1>1, <1>3, <3>1
  <2>2. h = h * Power(2, 0) /\ h <= cutoff /\ 0 \in Nat
    <3>1. Power(2, 0) = 1
      BY PowerOne
    <3>2. QED
      BY <1>1, <1>2, <2>1, <3>1
  <2>3. HalvesDown(h, cutoff)
    BY <2>2 DEF HalvesDown
  <2>4. QED
    BY <1>2, <2>3
<1>4. CASE i # 0
  <2>1. PICK k \in Nat : i = k + 1
    <3>1. i - 1 \in Nat /\ i = (i - 1) + 1
      BY <1>4
    <3>2. QED
      BY <3>1
  <2>2. PICK p \in Nat : p = Power(2, k) /\ Power(2, i) = 2 * p
    <3>1. 2 \in Nat
      OBVIOUS
    <3>2. QED
      BY <2>1, <3>1, PowerStep
  <2>3. h = j * p
    <3>1. j * (2 * p) = 2 * (j * p) /\ j * p \in Nat
      OBVIOUS
    <3>2. QED
      BY <1>1, <1>2, <2>2, <3>1
  <2>4. HalvesDown(h, cutoff)
    BY <1>1, <2>2, <2>3 DEF HalvesDown
  <2>5. QED
    BY <1>2, <2>4
<1>5. QED
  BY <1>3, <1>4

(* and a leaf is no larger than the cutoff. *)
LEMMA LeafBelow ==
  ASSUME NEW cutoff \in Nat \ {0}, NEW n, HalvesDown(n, cutoff), n % 2 # 0 \/ n < cutoff
  PROVE  n \in Nat \ {0} /\ n <= cutoff
<1>1. PICK i \in Nat, j \in Nat : n \in Nat \ {0} /\ n = j * Power(2, i) /\ j <= cutoff
  BY DEF HalvesDown
<1>2. CASE n < cutoff
  BY <1>1, <1>2
<1>3. CASE i = 0
  <2>1. Power(2, 0) = 1
    BY PowerOne
  <2>2. QED
    BY <1>1, <1>3, <2>1
<1>4. CASE i # 0 /\ n % 2 # 0
  <2>1. PICK k \in Nat : i = k + 1
    <3>1. i - 1 \in Nat /\ i = (i - 1) + 1
      BY <1>4
    <3>2. QED
      BY <3>1
  <2>2. PICK p \in Nat : p = Power(2, k) /\ Power(2, i) = 2 * p
    <3>1. 2 \in Nat
      OBVIOUS
    <3>2. QED
      BY <2>1, <3>1, PowerStep
  <2>3. PICK y \in Nat : y = j * p /\ n = 2 * y
    <3>1. j * (2 * p) = 2 * (j * p) /\ j * p \in Nat
      OBVIOUS
    <3>2. QED
      BY <1>1, <2>2, <3>1
  <2>4. QED
    BY <1>4, <2>3
<1>5. QED
  BY <1>2, <1>3, <1>4

(* The room of each call. *)

LEMMA UnsignedCall ==
  ASSUME NEW build, NEW wide, NEW room \in Nat,
         NEW m \in Nat, NEW n \in Nat, NEW z,
         (IF z = 0 THEN 0 ELSE n) + m + 1 <= room
  PROVE  Call(build, wide, <<"unsigned", m, n, z>>, room)
<1>1. PICK s : /\ s = <<"unsigned", m, n, z>>
               /\ s[1] = "unsigned"
               /\ s[2] = m
               /\ s[3] = n
               /\ s[4] = z
  <2>1. /\ <<"unsigned", m, n, z>>[1] = "unsigned"
        /\ <<"unsigned", m, n, z>>[2] = m
        /\ <<"unsigned", m, n, z>>[3] = n
        /\ <<"unsigned", m, n, z>>[4] = z
    OBVIOUS
  <2>2. QED
    BY <2>1
<1>2. ASSUME NEW r \in Nat, room <= r PROVE HasRoom(build, wide, s, r)
  BY <1>1, <1>2 DEF HasRoom
<1>3. QED
  BY <1>1, <1>2 DEF Call

LEMMA DispatchCall ==
  ASSUME NEW build, NEW wide, NEW room \in Nat,
         NEW m \in Nat, NEW n \in Nat \ {0},
         n <= m, SchoolbookNeeds(m, n) <= room
  PROVE  Call(build, wide, <<"dispatch", m, n>>, room)
<1>1. PICK s : /\ s = <<"dispatch", m, n>>
               /\ s[1] = "dispatch"
               /\ s[2] = m
               /\ s[3] = n
  <2>1. /\ <<"dispatch", m, n>>[1] = "dispatch"
        /\ <<"dispatch", m, n>>[2] = m
        /\ <<"dispatch", m, n>>[3] = n
    OBVIOUS
  <2>2. QED
    BY <2>1
<1>2. ASSUME NEW r \in Nat, room <= r PROVE HasRoom(build, wide, s, r)
  BY <1>1, <1>2 DEF HasRoom, OfSizes, SchoolbookNeeds
<1>3. QED
  BY <1>1, <1>2 DEF Call

LEMMA DispatchQuotientCall ==
  ASSUME NEW build, NEW wide, NEW room \in Nat,
         NEW m \in Nat, NEW n \in Nat \ {0},
         n <= m, SchoolbookNeeds(m, n) + m + 1 <= room
  PROVE  Call(build, wide, <<"dispatch_q", m, n>>, room)
<1>1. PICK s : /\ s = <<"dispatch_q", m, n>>
               /\ s[1] = "dispatch_q"
               /\ s[2] = m
               /\ s[3] = n
  <2>1. /\ <<"dispatch_q", m, n>>[1] = "dispatch_q"
        /\ <<"dispatch_q", m, n>>[2] = m
        /\ <<"dispatch_q", m, n>>[3] = n
    OBVIOUS
  <2>2. QED
    BY <2>1
<1>2. ASSUME NEW r \in Nat, room <= r PROVE HasRoom(build, wide, s, r)
  BY <1>1, <1>2 DEF HasRoom, OfSizes, SchoolbookNeeds
<1>3. QED
  BY <1>1, <1>2 DEF Call

LEMMA WindowCall ==
  ASSUME NEW build, NEW wide, NEW room \in Nat,
         NEW op \in {"2n1n", "divappr"}, NEW n,
         build.cutoff \in Nat, HalvesDown(n, build.cutoff), n <= room,
         LeafNeeds(build.cutoff) <= room
  PROVE  Call(build, wide, <<op, n>>, room)
<1>0. n \in Nat /\ LeafNeeds(build.cutoff) \in Nat
  BY DEF HalvesDown, LeafNeeds
<1>1. PICK s : /\ s = <<op, n>>
               /\ s[1] = op
               /\ s[2] = n
  <2>1. /\ <<op, n>>[1] = op
        /\ <<op, n>>[2] = n
    OBVIOUS
  <2>2. QED
    BY <2>1
<1>2. ASSUME NEW r \in Nat, room <= r PROVE HasRoom(build, wide, s, r)
  <2>1. CASE op = "2n1n"
    BY <1>0, <1>1, <1>2, <2>1 DEF HasRoom
  <2>2. CASE op = "divappr"
    BY <1>0, <1>1, <1>2, <2>2 DEF HasRoom
  <2>3. QED
    BY <2>1, <2>2
<1>3. QED
  BY <1>1, <1>2 DEF Call

LEMMA ThirdsCall ==
  ASSUME NEW build, NEW wide, NEW room \in Nat,
         NEW n,
         build.cutoff \in Nat, HalvesDown(n, build.cutoff), 2 * n <= room,
         LeafNeeds(build.cutoff) <= room
  PROVE  Call(build, wide, <<"3n2n", n>>, room)
<1>0. n \in Nat /\ LeafNeeds(build.cutoff) \in Nat
  BY DEF HalvesDown, LeafNeeds
<1>1. PICK s : /\ s = <<"3n2n", n>>
               /\ s[1] = "3n2n"
               /\ s[2] = n
  <2>1. /\ <<"3n2n", n>>[1] = "3n2n"
        /\ <<"3n2n", n>>[2] = n
    OBVIOUS
  <2>2. QED
    BY <2>1
<1>2. ASSUME NEW r \in Nat, room <= r PROVE HasRoom(build, wide, s, r)
  BY <1>0, <1>1, <1>2 DEF HasRoom
<1>3. QED
  BY <1>1, <1>2 DEF Call

LEMMA ReciprocalCall ==
  ASSUME NEW build, NEW wide, NEW room \in Nat,
         NEW op \in {"reciprocal", "refine"}, NEW n \in Nat \ {0},
         build.reciprocal \in Nat, ReciprocalStorage(n, build.reciprocal) <= room
  PROVE  Call(build, wide, <<op, n>>, room)
<1>0. ReciprocalStorage(n, build.reciprocal) \in Nat
  BY DEF ReciprocalStorage
<1>1. PICK s : /\ s = <<op, n>>
               /\ s[1] = op
               /\ s[2] = n
  <2>1. /\ <<op, n>>[1] = op
        /\ <<op, n>>[2] = n
    OBVIOUS
  <2>2. QED
    BY <2>1
<1>2. ASSUME NEW r \in Nat, room <= r PROVE HasRoom(build, wide, s, r)
  <2>1. CASE op = "reciprocal"
    BY <1>0, <1>1, <1>2, <2>1 DEF HasRoom
  <2>2. CASE op = "refine"
    BY <1>0, <1>1, <1>2, <2>2 DEF HasRoom
  <2>3. QED
    BY <2>1, <2>2
<1>3. QED
  BY <1>1, <1>2 DEF Call

LEMMA MarchCall ==
  ASSUME NEW build, NEW wide, NEW room \in Nat,
         NEW n \in Nat \ {0},
         MarchNeeds(build, wide, n) \in Nat, MarchNeeds(build, wide, n) <= room
  PROVE  Call(build, wide, <<"march", n>>, room)
<1>1. PICK s : /\ s = <<"march", n>>
               /\ s[1] = "march"
               /\ s[2] = n
  <2>1. /\ <<"march", n>>[1] = "march"
        /\ <<"march", n>>[2] = n
    OBVIOUS
  <2>2. QED
    BY <2>1
<1>2. ASSUME NEW r \in Nat, room <= r PROVE HasRoom(build, wide, s, r)
  BY <1>1, <1>2 DEF HasRoom
<1>3. QED
  BY <1>1, <1>2 DEF Call

LEMMA MulmodCall ==
  ASSUME NEW build, NEW wide, NEW room \in Nat,
         NEW w \in Nat, NEW n \in Nat,
         n <= w, (IF 2 * n <= w THEN 2 * n ELSE WrapStorage(w)) <= room
  PROVE  Call(build, wide, <<"mulmod", w, n>>, room)
<1>1. PICK s : /\ s = <<"mulmod", w, n>>
               /\ s[1] = "mulmod"
               /\ s[2] = w
               /\ s[3] = n
  <2>1. /\ <<"mulmod", w, n>>[1] = "mulmod"
        /\ <<"mulmod", w, n>>[2] = w
        /\ <<"mulmod", w, n>>[3] = n
    OBVIOUS
  <2>2. QED
    BY <2>1
<1>2. ASSUME NEW r \in Nat, room <= r PROVE HasRoom(build, wide, s, r)
  BY <1>1, <1>2 DEF HasRoom, WrapStorage
<1>3. QED
  BY <1>1, <1>2 DEF Call

(* A division as it runs: the steps that are left lead from the arenas there are to some. *)
IsBuild(build) ==
  build.cutoff \in Nat \ {0} /\ build.reciprocal \in Nat /\ build.cyclic \in Nat

DwFields(d) ==
  d = [build |-> d.build, wide |-> d.wide, bits |-> d.bits, shift |-> d.shift,
       arenas |-> d.arenas, todo |-> d.todo]

DwRunning(d) ==
  /\ DwFields(d) /\ IsBuild(d.build) /\ d.wide \in BOOLEAN /\ d.bits \in Nat /\ d.shift \in Nat
  /\ \E arenas : Leads(d.build, d.wide, d.todo, d.arenas, arenas)

DwHolds(d) == d = DwIdle \/ DwRunning(d)

(* What an expansion leaves. *)
LEMMA ExpandedIs ==
  ASSUME DwRunning(dw), NEW steps, Expands(steps)
  PROVE  /\ dw' = [build |-> dw.build, wide |-> dw.wide, bits |-> dw.bits, shift |-> dw.shift,
                   arenas |-> dw.arenas, todo |-> steps \o Tail(dw.todo)]
<1>1. dw = [build |-> dw.build, wide |-> dw.wide, bits |-> dw.bits, shift |-> dw.shift,
            arenas |-> dw.arenas, todo |-> dw.todo]
  BY DEF DwRunning, DwFields
<1>2. PICK u : u = steps \o Tail(dw.todo)
  OBVIOUS
<1>3. dw' = [dw EXCEPT !.todo = u]
  BY <1>2 DEF Expands
<1>4. QED
  BY <1>1, <1>2, <1>3

(* The room a call finds. *)
LEMMA CallWaits ==
  ASSUME DwRunning(dw), NEW op, Todo(op), op \notin {"open", "close", "take", "give"}
  PROVE  /\ HasRoom(dw.build, dw.wide, Args, RoomIn(dw.arenas)) /\ Args[1] = op
         /\ dw.arenas \in Seq(Arena) /\ RoomIn(dw.arenas) \in Nat
         /\ op # "preinvs" => dw.arenas # <<>>
         /\ \E e : Leads(dw.build, dw.wide, Tail(dw.todo), dw.arenas, e)
<1>1. PICK e : Leads(dw.build, dw.wide, dw.todo, dw.arenas, e)
  BY DEF DwRunning
<1>2. dw.todo # <<>> /\ Head(dw.todo)[1] = op /\ Args = Head(dw.todo)
  BY DEF Todo, Args
<1>3. PICK c : /\ Passes(dw.build, dw.wide, Head(dw.todo), dw.arenas, c)
               /\ Leads(dw.build, dw.wide, Tail(dw.todo), c, e)
  BY <1>1, <1>2, LeadsFirst
<1>4. /\ c = dw.arenas /\ HasRoom(dw.build, dw.wide, Head(dw.todo), RoomIn(dw.arenas))
      /\ dw.arenas \in Seq(Arena)
  BY <1>2, <1>3 DEF Passes
<1>5. op # "preinvs" => dw.arenas # <<>>
  <2>1. ASSUME op # "preinvs" PROVE dw.arenas # <<>>
    <3>1. Head(dw.todo)[1] \notin {"open", "close", "take", "give", "preinvs"}
      BY <1>2, <2>1
    <3>2. QED
      BY <1>3, <3>1 DEF Passes
  <2>2. QED
    BY <2>1
<1>6. QED
  BY <1>2, <1>3, <1>4, <1>5, RoomType

(* A call that expands to steps that leave the arenas. *)
LEMMA CallRuns ==
  ASSUME DwRunning(dw), NEW op, Todo(op), op \notin {"open", "close", "take", "give"}, NEW steps,
         Leads(dw.build, dw.wide, steps, dw.arenas, dw.arenas), Expands(steps)
  PROVE  DwRunning(dw')
<1>1. PICK e : Leads(dw.build, dw.wide, Tail(dw.todo), dw.arenas, e)
  BY CallWaits
<1>2. Leads(dw.build, dw.wide, steps \o Tail(dw.todo), dw.arenas, e)
  BY <1>1, LeadsOn
<1>3. PICK d : /\ d = dw'
               /\ d = [build |-> dw.build, wide |-> dw.wide, bits |-> dw.bits, shift |-> dw.shift,
                       arenas |-> dw.arenas, todo |-> steps \o Tail(dw.todo)]
  BY ExpandedIs
<1>4. /\ DwFields(d) /\ d.build = dw.build /\ d.wide = dw.wide /\ d.bits = dw.bits
      /\ d.shift = dw.shift /\ d.arenas = dw.arenas /\ d.todo = steps \o Tail(dw.todo)
  BY <1>3 DEF DwFields
<1>5. \E arenas : Leads(d.build, d.wide, d.todo, d.arenas, arenas)
  BY <1>2, <1>4
<1>6. IsBuild(d.build) /\ d.wide \in BOOLEAN /\ d.bits \in Nat /\ d.shift \in Nat
  BY <1>4 DEF DwRunning
<1>7. QED
  BY <1>3, <1>4, <1>5, <1>6 DEF DwRunning

LEMMA FitsRuns ==
  ASSUME DwRunning(dw), NEW op, Todo(op),
         op \notin {"open", "close", "take", "give", "preinvs"}, NEW steps, NEW room \in Nat,
         Fits(dw.build, dw.wide, steps, room), room <= RoomIn(dw.arenas), Expands(steps)
  PROVE  DwRunning(dw')
<1>1. dw.arenas \in Seq(Arena) /\ dw.arenas # <<>>
  BY CallWaits
<1>2. Leads(dw.build, dw.wide, steps, dw.arenas, dw.arenas)
  BY <1>1 DEF Fits
<1>3. op \notin {"open", "close", "take", "give"}
  OBVIOUS
<1>4. QED
  BY <1>2, <1>3, CallRuns

LEMMA BringsRuns ==
  ASSUME DwRunning(dw), NEW op, Todo(op), op \notin {"open", "close", "take", "give"}, NEW steps,
         Brings(dw.build, dw.wide, steps), Expands(steps)
  PROVE  DwRunning(dw')
<1>1. dw.arenas \in Seq(Arena)
  BY CallWaits
<1>2. Leads(dw.build, dw.wide, steps, dw.arenas, dw.arenas)
  BY <1>1 DEF Brings
<1>3. QED
  BY <1>2, CallRuns

(* Limbs that are held and given back. *)
LEMMA FitsHeld ==
  ASSUME NEW build, NEW wide, NEW k \in Nat, NEW room \in Nat, k <= room
  PROVE  Fits(build, wide, Holding(k, <<>>), room)
<1>1. Fits(build, wide, <<>>, 0)
  BY FitsNothing
<1>2. 0 \in Nat /\ k + 0 = k
  OBVIOUS
<1>3. Fits(build, wide, Holding(k, <<>>), k)
  BY <1>1, <1>2, FitsHolding
<1>4. QED
  BY <1>3, FitsMore

(* and a call meanwhile. *)
LEMMA FitsCallHolding ==
  ASSUME NEW build, NEW wide, NEW k \in Nat, NEW s, NEW need \in Nat, Call(build, wide, s, need),
         NEW room \in Nat, k + need <= room
  PROVE  Fits(build, wide, Holding(k, <<s>>), room)
<1>1. Fits(build, wide, <<s>>, need)
  BY FitsCall
<1>2. Fits(build, wide, Holding(k, <<s>>), k + need)
  BY <1>1, FitsHolding
<1>3. k + need \in Nat
  OBVIOUS
<1>4. QED
  BY <1>2, <1>3, FitsMore

(* divide_unsigned. *)
LEMMA DwUnsignedHolds ==
  ASSUME DwRunning(dw), DwUnsigned
  PROVE  DwRunning(dw')
<1>1. Todo("unsigned")
  BY DEF DwUnsigned
<1>2. /\ HasRoom(dw.build, dw.wide, Args, RoomIn(dw.arenas)) /\ Args[1] = "unsigned"
      /\ RoomIn(dw.arenas) \in Nat
  BY <1>1, CallWaits
<1>3. PICK room \in Nat : room = RoomIn(dw.arenas)
  BY <1>2
<1>4. PICK k \in Nat : k = (IF Args[4] = 0 THEN 0 ELSE Args[3]) + Args[2] + 1 /\ k <= room
  <2>1. /\ Args[2] \in Nat /\ Args[3] \in Nat
        /\ (IF Args[4] = 0 THEN 0 ELSE Args[3]) + Args[2] + 1 <= room
    BY <1>2, <1>3 DEF HasRoom
  <2>2. QED
    BY <2>1
<1>5. Expands(Holding(k, <<>>))
  BY <1>4 DEF DwUnsigned
<1>6. Fits(dw.build, dw.wide, Holding(k, <<>>), room)
  BY <1>4, FitsHeld
<1>7. QED
  BY <1>1, <1>3, <1>5, <1>6, FitsRuns

(* divide_dc_basecase. *)
LEMMA WindowRoom ==
  ASSUME DwRunning(dw), NEW op \in {"2n1n", "divappr", "3n2n"}, Todo(op)
  PROVE  \E cutoff \in Nat \ {0}, n \in Nat \ {0}, room \in Nat :
           /\ cutoff = dw.build.cutoff /\ n = Args[2] /\ room = RoomIn(dw.arenas)
           /\ HalvesDown(n, cutoff) /\ LeafNeeds(cutoff) <= room
           /\ n <= room /\ (op = "3n2n" => 2 * n <= room)
<1>1. /\ HasRoom(dw.build, dw.wide, Args, RoomIn(dw.arenas)) /\ Args[1] = op
      /\ RoomIn(dw.arenas) \in Nat
  BY CallWaits
<1>2. PICK cutoff \in Nat \ {0}, room \in Nat : cutoff = dw.build.cutoff /\ room = RoomIn(dw.arenas)
  BY <1>1 DEF DwRunning, IsBuild
<1>3. /\ HalvesDown(Args[2], cutoff) /\ LeafNeeds(cutoff) <= room
      /\ op = "3n2n" => 2 * Args[2] <= room
      /\ op # "3n2n" => Args[2] <= room
  <2>1. CASE op = "2n1n"
    BY <1>1, <1>2, <2>1 DEF HasRoom
  <2>2. CASE op = "divappr"
    BY <1>1, <1>2, <2>2 DEF HasRoom
  <2>3. CASE op = "3n2n"
    BY <1>1, <1>2, <2>3 DEF HasRoom
  <2>4. QED
    BY <2>1, <2>2, <2>3
<1>4. PICK n \in Nat \ {0} : n = Args[2]
  BY <1>3 DEF HalvesDown
<1>5. n <= room
  BY <1>3, <1>4
<1>6. QED
  BY <1>2, <1>3, <1>4, <1>5

LEMMA DwLeafHolds ==
  ASSUME DwRunning(dw), DwLeaf
  PROVE  DwRunning(dw')
<1>1. PICK op \in {"2n1n", "divappr", "3n2n"} : Todo(op) /\ op # "3n2n"
  BY DEF DwLeaf
<1>2. PICK cutoff \in Nat \ {0}, n \in Nat \ {0}, room \in Nat :
        /\ cutoff = dw.build.cutoff /\ n = Args[2] /\ room = RoomIn(dw.arenas)
        /\ HalvesDown(n, cutoff) /\ LeafNeeds(cutoff) <= room
  BY <1>1, WindowRoom
<1>3. n <= cutoff
  <2>1. LeafLimbs(n)
    BY <1>2 DEF DwLeaf
  <2>2. n % 2 # 0 \/ n < cutoff
    BY <1>2, <2>1 DEF LeafLimbs
  <2>3. QED
    BY <1>2, <2>2, LeafBelow
<1>4. PICK size \in {n, n + 1, 2 * n} :
        Expands(Holding(size - n + 1 + size + 1, <<<<"unsigned", size, n, 0>>>>))
  BY <1>2 DEF DwLeaf
<1>5. PICK k \in Nat, need \in Nat :
        k = size - n + 1 + size + 1 /\ need = size + 1 /\ k + need <= room
  <2>1. size \in Nat /\ n <= size /\ size <= 2 * n
    OBVIOUS
  <2>2. size - n + 1 + size + 1 \in Nat /\ size + 1 \in Nat
    BY <2>1
  <2>3. (size - n + 1 + size + 1) + (size + 1) <= 6 * cutoff + 3
    BY <1>3, <2>1
  <2>4. QED
    BY <1>2, <2>2, <2>3 DEF LeafNeeds
<1>6. Call(dw.build, dw.wide, <<"unsigned", size, n, 0>>, need)
  <2>1. size \in Nat /\ (IF 0 = 0 THEN 0 ELSE n) + size + 1 <= need
    BY <1>5
  <2>2. QED
    BY <2>1, UnsignedCall
<1>7. Fits(dw.build, dw.wide, Holding(k, <<<<"unsigned", size, n, 0>>>>), room)
  BY <1>5, <1>6, FitsCallHolding
<1>8. QED
  BY <1>1, <1>2, <1>4, <1>5, <1>7, FitsRuns

LEMMA DwApproxLeafHolds ==
  ASSUME DwRunning(dw), DwApproxLeaf
  PROVE  DwRunning(dw')
<1>1. PICK op \in {"2n1n", "divappr", "3n2n"} : Todo(op) /\ op # "3n2n"
  BY DEF DwApproxLeaf
<1>2. PICK cutoff \in Nat \ {0}, n \in Nat \ {0}, room \in Nat :
        /\ cutoff = dw.build.cutoff /\ n = Args[2] /\ room = RoomIn(dw.arenas)
        /\ HalvesDown(n, cutoff) /\ LeafNeeds(cutoff) <= room
  BY <1>1, WindowRoom
<1>3. n <= cutoff
  <2>1. LeafLimbs(n)
    BY <1>2 DEF DwApproxLeaf
  <2>2. n % 2 # 0 \/ n < cutoff
    BY <1>2, <2>1 DEF LeafLimbs
  <2>3. QED
    BY <1>2, <2>2, LeafBelow
<1>4. PICK size \in {n + 1, 2 * n} : Expands(Holding(size - n + 1, Holding(size + 1, <<>>)))
  BY <1>2 DEF DwApproxLeaf
<1>5. PICK k \in Nat, l \in Nat : k = size - n + 1 /\ l = size + 1 /\ k + l <= room
  <2>1. size \in Nat /\ n <= size /\ size <= 2 * n
    OBVIOUS
  <2>2. size - n + 1 \in Nat /\ size + 1 \in Nat
    BY <2>1
  <2>3. (size - n + 1) + (size + 1) <= 6 * cutoff + 3
    BY <1>3, <2>1
  <2>4. QED
    BY <1>2, <2>2, <2>3 DEF LeafNeeds
<1>6. Fits(dw.build, dw.wide, Holding(k, Holding(l, <<>>)), k + l)
  <2>1. Fits(dw.build, dw.wide, Holding(l, <<>>), l)
    BY FitsHeld
  <2>2. QED
    BY <2>1, FitsHolding
<1>7. k + l \in Nat
  OBVIOUS
<1>8. QED
  BY <1>1, <1>2, <1>4, <1>5, <1>6, <1>7, FitsRuns

(* The halves of a window. *)
LEMMA HalfCalls ==
  ASSUME DwRunning(dw), NEW op \in {"2n1n", "divappr", "3n2n"}, Todo(op), op # "3n2n",
         ~LeafLimbs(Args[2])
  PROVE  \E room \in Nat :
           /\ room = RoomIn(dw.arenas)
           /\ Call(dw.build, dw.wide, <<"3n2n", Args[2] \div 2>>, room)
           /\ Call(dw.build, dw.wide, <<"divappr", Args[2] \div 2>>, room)
<1>1. PICK cutoff \in Nat \ {0}, n \in Nat \ {0}, room \in Nat :
        /\ cutoff = dw.build.cutoff /\ n = Args[2] /\ room = RoomIn(dw.arenas)
        /\ HalvesDown(n, cutoff) /\ LeafNeeds(cutoff) <= room /\ n <= room
  BY WindowRoom
<1>2. n % 2 = 0 /\ ~(n < cutoff)
  BY <1>1 DEF LeafLimbs
<1>3. PICK h \in Nat : h = n \div 2 /\ 2 * h = n /\ HalvesDown(h, cutoff)
  BY <1>1, <1>2, HalfHalvesDown
<1>4. 2 * h <= room /\ h <= room
  BY <1>1, <1>3
<1>5. Call(dw.build, dw.wide, <<"3n2n", h>>, room)
  BY <1>1, <1>3, <1>4, ThirdsCall
<1>6. Call(dw.build, dw.wide, <<"divappr", h>>, room)
  BY <1>1, <1>3, <1>4, WindowCall
<1>7. QED
  BY <1>1, <1>3, <1>5, <1>6

LEMMA FitsPair ==
  ASSUME NEW build, NEW wide, NEW s, NEW t, NEW room \in Nat,
         Call(build, wide, s, room), Call(build, wide, t, room)
  PROVE  Fits(build, wide, <<s, t>>, room)
<1>1. /\ <<s, t>> = [i \in 1 .. 2 |-> <<s, t>>[i]]
      /\ <<s, t>>[1] = s /\ <<s, t>>[2] = t
  OBVIOUS
<1>2. \A i \in 1 .. 2 : i = 1 \/ i = 2
  OBVIOUS
<1>3. \A i \in 1 .. 2 : Call(build, wide, <<s, t>>[i], room)
  BY <1>1, <1>2
<1>4. 2 \in Nat
  OBVIOUS
<1>5. QED
  BY <1>1, <1>3, <1>4, FitsCalls

LEMMA Dw2n1nHolds ==
  ASSUME DwRunning(dw), Dw2n1n
  PROVE  DwRunning(dw')
<1>1. PICK op \in {"2n1n", "divappr", "3n2n"} : op = "2n1n" /\ Todo(op) /\ op # "3n2n"
  BY DEF Dw2n1n
<1>2. PICK room \in Nat : /\ room = RoomIn(dw.arenas)
                          /\ Call(dw.build, dw.wide, <<"3n2n", Args[2] \div 2>>, room)
  BY <1>1, HalfCalls DEF Dw2n1n
<1>3. PICK s : s = <<"3n2n", Args[2] \div 2>>
  OBVIOUS
<1>4. Fits(dw.build, dw.wide, <<s, s>>, room)
  BY <1>2, <1>3, FitsPair
<1>5. Expands(<<s, s>>)
  BY <1>3 DEF Dw2n1n
<1>6. QED
  BY <1>1, <1>2, <1>4, <1>5, FitsRuns

LEMMA DwApproxHolds ==
  ASSUME DwRunning(dw), DwApprox
  PROVE  DwRunning(dw')
<1>1. PICK op \in {"2n1n", "divappr", "3n2n"} : op = "divappr" /\ Todo(op) /\ op # "3n2n"
  BY DEF DwApprox
<1>2. PICK room \in Nat : /\ room = RoomIn(dw.arenas)
                          /\ Call(dw.build, dw.wide, <<"3n2n", Args[2] \div 2>>, room)
                          /\ Call(dw.build, dw.wide, <<"divappr", Args[2] \div 2>>, room)
  BY <1>1, HalfCalls DEF DwApprox
<1>3. PICK s, t : s = <<"3n2n", Args[2] \div 2>> /\ t = <<"divappr", Args[2] \div 2>>
  OBVIOUS
<1>4. Fits(dw.build, dw.wide, <<s, t>>, room)
  BY <1>2, <1>3, FitsPair
<1>5. Expands(<<s, t>>)
  BY <1>3 DEF DwApprox
<1>6. QED
  BY <1>1, <1>2, <1>4, <1>5, FitsRuns

LEMMA Dw3n2nHolds ==
  ASSUME DwRunning(dw), Dw3n2n
  PROVE  DwRunning(dw')
<1>1. PICK op \in {"2n1n", "divappr", "3n2n"} : op = "3n2n" /\ Todo(op)
  BY DEF Dw3n2n
<1>2. PICK cutoff \in Nat \ {0}, n \in Nat \ {0}, room \in Nat :
        /\ cutoff = dw.build.cutoff /\ n = Args[2] /\ room = RoomIn(dw.arenas)
        /\ HalvesDown(n, cutoff) /\ LeafNeeds(cutoff) <= room
        /\ n <= room /\ 2 * n <= room
  BY <1>1, WindowRoom
<1>3. Call(dw.build, dw.wide, <<"2n1n", n>>, room)
  BY <1>2, WindowCall
<1>4. Fits(dw.build, dw.wide, <<<<"2n1n", n>>>>, room)
  BY <1>3, FitsCall
<1>5. Fits(dw.build, dw.wide, Holding(2 * n, <<>>), room)
  <2>1. 2 * n \in Nat
    OBVIOUS
  <2>2. QED
    BY <1>2, <2>1, FitsHeld
<1>6. Fits(dw.build, dw.wide, <<<<"2n1n", n>>>> \o Holding(2 * n, <<>>), room)
  BY <1>4, <1>5, FitsBoth
<1>7. Expands(<<<<"2n1n", n>>>> \o Holding(2 * n, <<>>))
  BY <1>2 DEF Dw3n2n
<1>8. QED
  BY <1>1, <1>2, <1>6, <1>7, FitsRuns

(* approximate_reciprocal: its recursion, and its refinements. *)
LEMMA ReciprocalRoom ==
  ASSUME DwRunning(dw), NEW op \in {"reciprocal", "refine"}, Todo(op)
  PROVE  \E n \in Nat \ {0}, threshold \in Nat, room \in Nat :
           /\ n = Args[2] /\ threshold = dw.build.reciprocal /\ room = RoomIn(dw.arenas)
           /\ 6 * n + 8 * threshold + 32 <= room
<1>1. /\ HasRoom(dw.build, dw.wide, Args, RoomIn(dw.arenas)) /\ Args[1] = op
      /\ RoomIn(dw.arenas) \in Nat
  BY CallWaits
<1>2. /\ Args[2] \in Nat \ {0}
      /\ ReciprocalStorage(Args[2], dw.build.reciprocal) <= RoomIn(dw.arenas)
  <2>1. CASE op = "reciprocal"
    BY <1>1, <2>1 DEF HasRoom
  <2>2. CASE op = "refine"
    BY <1>1, <2>2 DEF HasRoom
  <2>3. QED
    BY <2>1, <2>2
<1>3. dw.build.reciprocal \in Nat
  BY DEF DwRunning, IsBuild
<1>4. PICK n \in Nat \ {0}, threshold \in Nat, room \in Nat :
        n = Args[2] /\ threshold = dw.build.reciprocal /\ room = RoomIn(dw.arenas)
  BY <1>1, <1>2, <1>3
<1>5. 6 * n + 8 * threshold + 32 <= room
  BY <1>2, <1>4 DEF ReciprocalStorage
<1>6. QED
  BY <1>4, <1>5

LEMMA DwReciprocalHolds ==
  ASSUME DwRunning(dw), DwReciprocal
  PROVE  DwRunning(dw')
<1>1. PICK op \in {"reciprocal", "refine"} : op = "reciprocal" /\ Todo(op)
  BY DEF DwReciprocal
<1>2. PICK n \in Nat \ {0}, threshold \in Nat, room \in Nat :
        /\ n = Args[2] /\ threshold = dw.build.reciprocal /\ room = RoomIn(dw.arenas)
        /\ 6 * n + 8 * threshold + 32 <= room
  BY <1>1, ReciprocalRoom
<1>3. CASE n <= threshold
  <2>1. Expands(Holding(2 * n + n + 1 + 2 * n + 1, <<<<"unsigned", 2 * n, n, 0>>>>))
    BY <1>2, <1>3 DEF DwReciprocal
  <2>2. PICK k \in Nat, need \in Nat, m \in Nat :
          /\ k = 2 * n + n + 1 + 2 * n + 1 /\ need = 2 * n + 1 /\ m = 2 * n
          /\ k + need <= room
    <3>1. 2 * n + n + 1 + 2 * n + 1 \in Nat /\ 2 * n + 1 \in Nat /\ 2 * n \in Nat
      OBVIOUS
    <3>2. (2 * n + n + 1 + 2 * n + 1) + (2 * n + 1) <= room
      BY <1>2, <1>3
    <3>3. QED
      BY <3>1, <3>2
  <2>3. Call(dw.build, dw.wide, <<"unsigned", m, n, 0>>, need)
    <3>1. (IF 0 = 0 THEN 0 ELSE n) + m + 1 <= need
      BY <2>2
    <3>2. QED
      BY <3>1, UnsignedCall
  <2>4. Fits(dw.build, dw.wide, Holding(k, <<<<"unsigned", m, n, 0>>>>), room)
    BY <1>2, <2>2, <2>3, FitsCallHolding
  <2>5. QED
    BY <1>1, <1>2, <2>1, <2>2, <2>4, FitsRuns
<1>4. CASE ~(n <= threshold)
  <2>1. PICK h \in Nat \ {0} : h = (n + 1) \div 2 /\ h <= n
    OBVIOUS
  <2>2. Expands(<<<<"reciprocal", h>>, <<"refine", n>>>>)
    BY <1>2, <1>4, <2>1 DEF DwReciprocal
  <2>3. ReciprocalStorage(h, threshold) <= room /\ ReciprocalStorage(n, threshold) <= room
    BY <1>2, <2>1 DEF ReciprocalStorage
  <2>4. Call(dw.build, dw.wide, <<"reciprocal", h>>, room)
    BY <1>2, <2>1, <2>3, ReciprocalCall
  <2>5. Call(dw.build, dw.wide, <<"refine", n>>, room)
    BY <1>2, <2>3, ReciprocalCall
  <2>6. Fits(dw.build, dw.wide, <<<<"reciprocal", h>>, <<"refine", n>>>>, room)
    BY <2>4, <2>5, FitsPair
  <2>7. QED
    BY <1>1, <1>2, <2>2, <2>6, FitsRuns
<1>5. QED
  BY <1>3, <1>4

(* The wrapped product of the divisor and its reciprocal or its quotient. *)
LEMMA WrapOfIs ==
  ASSUME DwRunning(dw), NEW n \in Nat \ {0}
  PROVE  \E w \in Nat : /\ w = WrapOf(n + 1) /\ w = WrapIn(dw.build, dw.wide, n + 1)
                        /\ n + 1 <= w /\ (w = 2 * n \/ 8 * w <= 9 * n + 9)
<1>1. dw.build.cyclic \in Nat /\ dw.wide \in BOOLEAN
  BY DEF DwRunning, IsBuild
<1>2. WrapOf(n + 1) = WrapIn(dw.build, dw.wide, n + 1)
  BY DEF WrapOf, WrapIn
<1>3. PICK w : w = WrapIn(dw.build, dw.wide, n + 1)
  OBVIOUS
<1>4. w \in Nat /\ n + 1 <= w /\ (w = 2 * n \/ 8 * w <= 9 * n + 9)
  BY <1>1, <1>3, WrapInIs
<1>5. QED
  BY <1>2, <1>3, <1>4

MulmodNeeds(w, n) == IF 2 * n <= w THEN 2 * n ELSE WrapStorage(w)

LEMMA MulmodHolding ==
  ASSUME NEW build, NEW wide, NEW k \in Nat, NEW w \in Nat, NEW n \in Nat, n <= w,
         NEW room \in Nat, k + MulmodNeeds(w, n) <= room
  PROVE  Fits(build, wide, Holding(k, <<<<"mulmod", w, n>>>>), room)
<1>1. PICK need \in Nat : need = MulmodNeeds(w, n)
  <2>1. MulmodNeeds(w, n) \in Nat
    BY DEF MulmodNeeds, WrapStorage
  <2>2. QED
    BY <2>1
<1>2. (IF 2 * n <= w THEN 2 * n ELSE WrapStorage(w)) <= need
  BY <1>1 DEF MulmodNeeds
<1>3. Call(build, wide, <<"mulmod", w, n>>, need)
  BY <1>2, MulmodCall
<1>4. QED
  BY <1>1, <1>3, FitsCallHolding

LEMMA DwRefineHolds ==
  ASSUME DwRunning(dw), DwRefine
  PROVE  DwRunning(dw')
<1>1. PICK op \in {"reciprocal", "refine"} : op = "refine" /\ Todo(op)
  BY DEF DwRefine
<1>2. PICK n \in Nat \ {0}, threshold \in Nat, room \in Nat :
        /\ n = Args[2] /\ threshold = dw.build.reciprocal /\ room = RoomIn(dw.arenas)
        /\ 6 * n + 8 * threshold + 32 <= room
  BY <1>1, ReciprocalRoom
<1>3. PICK w \in Nat : w = WrapOf(n + 1) /\ n + 1 <= w /\ (w = 2 * n \/ 8 * w <= 9 * n + 9)
  BY WrapOfIs
<1>4. PICK h \in Nat : h = (n + 1) \div 2 /\ 2 * h <= n + 1
  OBVIOUS
<1>5. PICK error \in {1, n + 1} :
        Expands(Holding(n + h + 1 + error + h + 1, <<>>)
                \o Holding(2 * w, <<<<"mulmod", w, n>>>>))
  BY <1>2, <1>3, <1>4 DEF DwRefine
<1>6. PICK k \in Nat, l \in Nat : k = n + h + 1 + error + h + 1 /\ l = 2 * w /\ k <= room
  <2>1. error \in Nat /\ error <= n + 1
    OBVIOUS
  <2>2. n + h + 1 + error + h + 1 \in Nat /\ 2 * w \in Nat
    BY <2>1
  <2>3. n + h + 1 + error + h + 1 <= room
    BY <1>2, <1>4, <2>1
  <2>4. QED
    BY <2>2, <2>3
<1>7. Fits(dw.build, dw.wide, Holding(k, <<>>), room)
  BY <1>6, FitsHeld
<1>8. l + MulmodNeeds(w, n) <= room
  <2>1. /\ 2 * w + (IF 2 * n <= w THEN 2 * n ELSE WrapStorage(w))
             <= ReciprocalStorage(n, threshold)
        /\ ReciprocalStorage(n, threshold) \in Nat
    BY <1>3, RefineRoom
  <2>2. ReciprocalStorage(n, threshold) <= room
    BY <1>2 DEF ReciprocalStorage
  <2>3. PICK x \in Nat : x = MulmodNeeds(w, n) /\ 2 * w + x <= ReciprocalStorage(n, threshold)
    <3>1. MulmodNeeds(w, n) \in Nat
      BY DEF MulmodNeeds, WrapStorage
    <3>2. QED
      BY <2>1, <3>1 DEF MulmodNeeds
  <2>4. QED
    BY <1>6, <2>1, <2>2, <2>3
<1>9. Fits(dw.build, dw.wide, Holding(l, <<<<"mulmod", w, n>>>>), room)
  BY <1>2, <1>3, <1>8, MulmodHolding
<1>10. Fits(dw.build, dw.wide, Holding(k, <<>>) \o Holding(l, <<<<"mulmod", w, n>>>>), room)
  BY <1>7, <1>9, FitsBoth
<1>11. PICK steps : steps = Holding(k, <<>>) \o Holding(l, <<<<"mulmod", w, n>>>>)
  OBVIOUS
<1>12. Expands(steps)
  BY <1>5, <1>6, <1>11
<1>13. Fits(dw.build, dw.wide, steps, room)
  BY <1>10, <1>11
<1>14. op \notin {"open", "close", "take", "give", "preinvs"}
  BY <1>1
<1>15. QED
  BY <1>1, <1>2, <1>12, <1>13, <1>14, FitsRuns

(* The march over the blocks. *)
LEMMA MarchStorageIs ==
  ASSUME DwRunning(dw), NEW n \in Nat \ {0}
  PROVE  \E w \in Nat : /\ w = WrapOf(n + 1) /\ n + 1 <= w
                        /\ MarchNeeds(dw.build, dw.wide, n) = 2 * n + 2 * w + 3 * w + 16
                        /\ MarchStorage(n) = 2 * n + 2 * w + 3 * w + 16
<1>1. PICK w \in Nat : w = WrapOf(n + 1) /\ w = WrapIn(dw.build, dw.wide, n + 1) /\ n + 1 <= w
  BY WrapOfIs
<1>2. MarchNeeds(dw.build, dw.wide, n) = 2 * n + 2 * w + (3 * w + 16)
  BY <1>1 DEF MarchNeeds, WrapStorage
<1>3. MarchStorage(n) = 2 * n + 2 * w + (3 * w + 16)
  BY <1>1 DEF MarchStorage, WrapStorage
<1>4. QED
  BY <1>1, <1>2, <1>3

LEMMA DwMarchHolds ==
  ASSUME DwRunning(dw), DwMarch
  PROVE  DwRunning(dw')
<1>1. Todo("march")
  BY DEF DwMarch
<1>2. /\ HasRoom(dw.build, dw.wide, Args, RoomIn(dw.arenas)) /\ Args[1] = "march"
      /\ RoomIn(dw.arenas) \in Nat
  BY <1>1, CallWaits
<1>3. PICK n \in Nat \ {0}, room \in Nat :
        n = Args[2] /\ room = RoomIn(dw.arenas) /\ MarchNeeds(dw.build, dw.wide, n) <= room
  BY <1>2 DEF HasRoom
<1>4. PICK w \in Nat : /\ w = WrapOf(n + 1) /\ n + 1 <= w
                       /\ MarchNeeds(dw.build, dw.wide, n) = 2 * n + 2 * w + 3 * w + 16
  BY MarchStorageIs
<1>5. PICK k \in Nat : k = 2 * n + 2 * w
  OBVIOUS
<1>6. k + MulmodNeeds(w, n) <= room
  BY <1>3, <1>4, <1>5 DEF MulmodNeeds, WrapStorage
<1>7. Fits(dw.build, dw.wide, Holding(k, <<<<"mulmod", w, n>>>>), room)
  BY <1>4, <1>6, MulmodHolding
<1>8. Expands(Holding(k, <<<<"mulmod", w, n>>>>))
  BY <1>3, <1>4, <1>5 DEF DwMarch
<1>9. QED
  BY <1>1, <1>3, <1>7, <1>8, FitsRuns

(* multiply_mod_bnm1 in halves. *)
LEMMA DwMulmodHolds ==
  ASSUME DwRunning(dw), DwMulmod
  PROVE  DwRunning(dw')
<1>1. Todo("mulmod")
  BY DEF DwMulmod
<1>2. /\ HasRoom(dw.build, dw.wide, Args, RoomIn(dw.arenas)) /\ Args[1] = "mulmod"
      /\ RoomIn(dw.arenas) \in Nat
  BY <1>1, CallWaits
<1>3. PICK w \in Nat, n \in Nat, room \in Nat :
        /\ w = Args[2] /\ n = Args[3] /\ n <= w /\ room = RoomIn(dw.arenas)
        /\ (IF 2 * n <= w THEN 2 * n ELSE 3 * w + 16) <= room
  BY <1>2 DEF HasRoom, WrapStorage
<1>4. PICK h \in Nat : h = w \div 2 /\ 2 * h <= w
  OBVIOUS
<1>5. CASE Expands(Holding(2 * n, <<>>))
  <2>1. 2 * n \in Nat /\ 2 * n <= room
    BY <1>3
  <2>2. Fits(dw.build, dw.wide, Holding(2 * n, <<>>), room)
    BY <2>1, FitsHeld
  <2>3. QED
    BY <1>1, <1>3, <1>5, <2>2, FitsRuns
<1>6. CASE Expands(<<>>)
  <2>1. Fits(dw.build, dw.wide, <<>>, room)
    BY FitsNothing
  <2>2. QED
    BY <1>1, <1>3, <1>6, <2>1, FitsRuns
<1>7. CASE /\ w > WrapCutoffLimbs /\ w % 2 = 0 /\ ~(2 * n <= w)
           /\ Expands(Holding(2 * h, <<<<"mulmod", h, h>>>>) \o Holding(3 * (h + 1) + 2 * h, <<>>))
  <2>1. 16 < w /\ 3 * w + 16 <= room
    BY <1>3, <1>7 DEF WrapCutoffLimbs
  <2>2. PICK k \in Nat, l \in Nat : k = 2 * h /\ l = 3 * (h + 1) + 2 * h /\ l <= room
    BY <1>4, <2>1
  <2>3. k + MulmodNeeds(h, h) <= room
    <3>1. h # 0
      BY <1>4, <2>1
    <3>2. MulmodNeeds(h, h) = 3 * h + 16
      BY <3>1 DEF MulmodNeeds, WrapStorage
    <3>3. QED
      BY <1>4, <2>1, <2>2, <3>2
  <2>4. Fits(dw.build, dw.wide, Holding(k, <<<<"mulmod", h, h>>>>), room)
    <3>1. h <= h
      OBVIOUS
    <3>2. QED
      BY <2>3, <3>1, MulmodHolding
  <2>5. Fits(dw.build, dw.wide, Holding(l, <<>>), room)
    BY <2>2, FitsHeld
  <2>6. Fits(dw.build, dw.wide, Holding(k, <<<<"mulmod", h, h>>>>) \o Holding(l, <<>>), room)
    BY <2>4, <2>5, FitsBoth
  <2>7. QED
    BY <1>1, <1>3, <1>7, <2>2, <2>6, FitsRuns
<1>8. QED
  <2>1. \/ Expands(Holding(2 * n, <<>>)) \/ Expands(<<>>)
        \/ /\ ~(w <= WrapCutoffLimbs \/ w % 2 # 0 \/ 2 * n <= w)
           /\ Expands(Holding(2 * h, <<<<"mulmod", h, h>>>>) \o Holding(3 * (h + 1) + 2 * h, <<>>))
    BY <1>3, <1>4 DEF DwMulmod
  <2>2. ~(w <= WrapCutoffLimbs) => w > WrapCutoffLimbs
    BY DEF WrapCutoffLimbs
  <2>3. QED
    BY <1>5, <1>6, <1>7, <2>1, <2>2

(* The gates. *)
LEMMA GreaterIs ==
  ASSUME NEW x \in Nat, NEW y \in Nat
  PROVE  Greater(x, y) \in Nat /\ x <= Greater(x, y) /\ y <= Greater(x, y)
  BY DEF Greater

(* What a division is told of its operands. *)
LEMMA DispatchRoom ==
  ASSUME DwRunning(dw), NEW op \in {"dispatch", "dispatch_q"}, Todo(op)
  PROVE  \E m \in Nat \ {0}, s \in Nat \ {0}, room \in Nat :
           /\ m = Args[2] /\ s = Args[3] /\ s <= m /\ room = RoomIn(dw.arenas) /\ Args[1] = op
           /\ op = "dispatch" => m + 1 + s <= room
           /\ op = "dispatch_q" => m + 1 + s + m + 1 <= room
<1>1. /\ HasRoom(dw.build, dw.wide, Args, RoomIn(dw.arenas)) /\ Args[1] = op
      /\ RoomIn(dw.arenas) \in Nat
  BY CallWaits
<1>2. /\ OfSizes(Args)
      /\ op = "dispatch" => SchoolbookNeeds(Args[2], Args[3]) <= RoomIn(dw.arenas)
      /\ op = "dispatch_q" =>
           SchoolbookNeeds(Args[2], Args[3]) + Args[2] + 1 <= RoomIn(dw.arenas)
  <2>1. CASE op = "dispatch"
    BY <1>1, <2>1 DEF HasRoom
  <2>2. CASE op = "dispatch_q"
    BY <1>1, <2>2 DEF HasRoom
  <2>3. QED
    BY <2>1, <2>2
<1>3. PICK m \in Nat \ {0}, s \in Nat \ {0}, room \in Nat :
        m = Args[2] /\ s = Args[3] /\ s <= m /\ room = RoomIn(dw.arenas)
  <2>1. Args[2] \in Nat /\ Args[3] \in Nat \ {0} /\ Args[3] <= Args[2]
    BY <1>2 DEF OfSizes
  <2>2. Args[2] # 0
    BY <2>1
  <2>3. QED
    BY <1>1, <2>1, <2>2
<1>4. SchoolbookNeeds(m, s) = m + 1 + s
  BY DEF SchoolbookNeeds
<1>5. QED
  BY <1>1, <1>2, <1>3, <1>4

LEMMA DwSchoolbookHolds ==
  ASSUME DwRunning(dw), DwSchoolbook
  PROVE  DwRunning(dw')
<1>1. PICK op \in {"dispatch", "dispatch_q"} : Todo(op)
  BY DEF DwSchoolbook
<1>2. PICK m \in Nat \ {0}, s \in Nat \ {0}, room \in Nat :
        /\ m = Args[2] /\ s = Args[3] /\ s <= m /\ room = RoomIn(dw.arenas) /\ Args[1] = op
        /\ op = "dispatch" => m + 1 + s <= room
        /\ op = "dispatch_q" => m + 1 + s + m + 1 <= room
  BY <1>1, DispatchRoom
<1>3. PICK k \in Nat : k = (IF op = "dispatch_q" THEN m + 1 ELSE 0) /\ k + (m + 1 + s) <= room
  <2>1. CASE op = "dispatch_q"
    BY <1>2, <2>1
  <2>2. CASE op = "dispatch"
    BY <1>2, <2>2
  <2>3. QED
    BY <2>1, <2>2
<1>4. Expands(Holding(k, <<<<"unsigned", m, s, dw.shift>>>>))
  BY <1>2, <1>3 DEF DwSchoolbook
<1>5. PICK need \in Nat : need = m + 1 + s
  OBVIOUS
<1>6. Call(dw.build, dw.wide, <<"unsigned", m, s, dw.shift>>, need)
  <2>1. (IF dw.shift = 0 THEN 0 ELSE s) + m + 1 <= need
    BY <1>5
  <2>2. QED
    BY <2>1, UnsignedCall
<1>7. Fits(dw.build, dw.wide, Holding(k, <<<<"unsigned", m, s, dw.shift>>>>), room)
  BY <1>3, <1>5, <1>6, FitsCallHolding
<1>8. op \notin {"open", "close", "take", "give", "preinvs"}
  OBVIOUS
<1>9. QED
  BY <1>1, <1>2, <1>4, <1>7, <1>8, FitsRuns

(* The blocks of a padded divisor. *)
LEMMA BlocksOfIs ==
  ASSUME DwRunning(dw), NEW m \in Nat \ {0}, NEW s \in Nat \ {0}
  PROVE  \E cutoff \in Nat \ {0}, n \in Nat \ {0}, t \in Nat :
           /\ cutoff = dw.build.cutoff /\ n = PaddedLimbs(s, dw.build.cutoff)
           /\ HalvesDown(n, cutoff)
           /\ t = BlocksOf(m, dw.bits, s, dw.shift, n) /\ t >= 2
<1>1. PICK cutoff \in Nat \ {0}, bits \in Nat, shift \in Nat :
        cutoff = dw.build.cutoff /\ bits = dw.bits /\ shift = dw.shift
  BY DEF DwRunning, IsBuild
<1>2. PICK n \in Nat \ {0} : n = PaddedLimbs(s, cutoff) /\ s <= n /\ HalvesDown(n, cutoff)
  <2>1. PaddedLimbs(s, cutoff) \in Nat /\ s <= PaddedLimbs(s, cutoff)
    BY PaddedIs
  <2>2. QED
    BY <2>1, PaddedHalvesDown
<1>3. PICK total \in Nat, width \in Nat \ {0} :
        /\ total = (m - 1) * LimbWidth + bits + (n - s) * LimbWidth + shift
        /\ width = n * LimbWidth
  <2>1. PICK x \in Nat, y \in Nat : x = m - 1 /\ y = n - s
    <3>1. m - 1 \in Nat /\ n - s \in Nat
      BY <1>2
    <3>2. QED
      BY <3>1
  <2>2. x * 64 + bits + y * 64 + shift \in Nat /\ n * 64 \in Nat \ {0}
    OBVIOUS
  <2>3. QED
    BY <2>1, <2>2 DEF LimbWidth
<1>4. BlockCount(total, width) \in Nat /\ BlockCount(total, width) >= 2
  BY BlocksCover
<1>5. BlocksOf(m, dw.bits, s, dw.shift, n) = BlockCount(total, width)
  BY <1>1, <1>3 DEF BlocksOf
<1>6. QED
  BY <1>1, <1>2, <1>4, <1>5

(* The windows of a march. *)
WindowSteps(steps, t, n) ==
  /\ steps = [i \in 1 .. t - 1 |-> steps[i]]
  /\ \A i \in 1 .. t - 1 : steps[i] \in {<<"2n1n", n>>, <<"divappr", n>>}

LEMMA WindowsFit ==
  ASSUME DwRunning(dw), NEW n, HalvesDown(n, dw.build.cutoff), NEW t \in Nat, t >= 2,
         NEW steps, WindowSteps(steps, t, n), NEW room \in Nat, n <= room,
         LeafNeeds(dw.build.cutoff) <= room
  PROVE  Fits(dw.build, dw.wide, steps, room)
<1>1. dw.build.cutoff \in Nat
  BY DEF DwRunning, IsBuild
<1>2. /\ Call(dw.build, dw.wide, <<"2n1n", n>>, room)
      /\ Call(dw.build, dw.wide, <<"divappr", n>>, room)
  BY <1>1, WindowCall
<1>3. PICK u \in Nat : u = t - 1
  OBVIOUS
<1>4. steps = [i \in 1 .. u |-> steps[i]]
  BY <1>3 DEF WindowSteps
<1>5. \A i \in 1 .. u : Call(dw.build, dw.wide, steps[i], room)
  BY <1>2, <1>3 DEF WindowSteps
<1>6. QED
  BY <1>4, <1>5, FitsCalls

LEMMA BlockStorageIs ==
  ASSUME NEW n \in Nat, NEW t \in Nat, NEW cutoff \in Nat
  PROVE  \E k \in Nat, room \in Nat :
           /\ k = 2 * t * n /\ BlockStorage(n, t, cutoff) = k + room
           /\ n <= room /\ LeafNeeds(cutoff) <= room
<1>1. PICK k \in Nat : k = 2 * t * n
  OBVIOUS
<1>2. PICK leaf \in Nat : leaf = 6 * cutoff + 3
  OBVIOUS
<1>3. PICK g \in Nat : g = Greater(n, leaf) /\ n <= g /\ leaf <= g
  BY GreaterIs
<1>4. BlockStorage(n, t, cutoff) = k + g + 8
  BY <1>1, <1>2, <1>3 DEF BlockStorage
<1>5. g + 8 \in Nat /\ k + g + 8 = k + (g + 8) /\ n <= g + 8 /\ leaf <= g + 8
  BY <1>3
<1>6. LeafNeeds(cutoff) = leaf
  BY <1>2 DEF LeafNeeds
<1>7. QED
  BY <1>1, <1>4, <1>5, <1>6

LEMMA DwBlocksHolds ==
  ASSUME DwRunning(dw), DwBlocks
  PROVE  DwRunning(dw')
<1>1. PICK op \in {"dispatch", "dispatch_q"} : op = "dispatch" /\ Todo(op)
  BY DEF DwBlocks
<1>2. PICK m \in Nat \ {0}, s \in Nat \ {0} : m = Args[2] /\ s = Args[3]
  BY <1>1, DispatchRoom
<1>3. PICK cutoff \in Nat \ {0}, n \in Nat \ {0}, t \in Nat :
        /\ cutoff = dw.build.cutoff /\ n = PaddedLimbs(s, dw.build.cutoff)
        /\ HalvesDown(n, cutoff)
        /\ t = BlocksOf(m, dw.bits, s, dw.shift, n) /\ t >= 2
  BY BlocksOfIs
<1>4. PICK k \in Nat, room \in Nat :
        /\ k = 2 * t * n /\ BlockStorage(n, t, cutoff) = k + room
        /\ n <= room /\ LeafNeeds(cutoff) <= room
  BY BlockStorageIs
<1>5. PICK steps : steps = [i \in 1 .. t - 1 |-> <<"2n1n", n>>]
  OBVIOUS
<1>6. WindowSteps(steps, t, n)
  BY <1>5 DEF WindowSteps
<1>7. Fits(dw.build, dw.wide, steps, room)
  BY <1>3, <1>4, <1>6, WindowsFit
<1>8. PICK c \in Nat : c = k + room /\ c = BlockStorage(n, t, cutoff)
  BY <1>4
<1>9. Brings(dw.build, dw.wide, WithArena(c, <<Take(k)>> \o steps))
  BY <1>7, <1>8, BringsTaken
<1>10. Expands(WithArena(c, <<Take(k)>> \o steps))
  BY <1>2, <1>3, <1>4, <1>5, <1>8 DEF DwBlocks
<1>11. op \notin {"open", "close", "take", "give"}
  OBVIOUS
<1>12. QED
  BY <1>1, <1>9, <1>10, <1>11, BringsRuns

(* divide_quotient. *)
LEMMA DwQuotientHolds ==
  ASSUME DwRunning(dw), DwQuotient
  PROVE  DwRunning(dw')
<1>1. PICK op \in {"dispatch", "dispatch_q"} : op = "dispatch_q" /\ Todo(op)
  BY DEF DwQuotient
<1>2. PICK m \in Nat \ {0}, s \in Nat \ {0} : m = Args[2] /\ s = Args[3] /\ s <= m
  BY <1>1, DispatchRoom
<1>3. PICK cutoff \in Nat \ {0}, n \in Nat \ {0}, t \in Nat :
        /\ cutoff = dw.build.cutoff /\ n = PaddedLimbs(s, dw.build.cutoff)
        /\ HalvesDown(n, cutoff)
        /\ t = BlocksOf(m + 1, dw.bits, s, dw.shift, n) /\ t >= 2
  <2>1. m + 1 \in Nat \ {0}
    OBVIOUS
  <2>2. QED
    BY <2>1, BlocksOfIs
<1>4. PICK k \in Nat, room \in Nat :
        /\ k = 2 * t * n /\ BlockStorage(n, t, cutoff) = k + room
        /\ n <= room /\ LeafNeeds(cutoff) <= room
  BY BlockStorageIs
<1>5. PICK windows : windows = [i \in 1 .. t - 1 |->
                                  <<IF i = t - 1 THEN "divappr" ELSE "2n1n", n>>]
  OBVIOUS
<1>6. WindowSteps(windows, t, n)
  <2>1. ASSUME NEW i \in 1 .. t - 1 PROVE windows[i] \in {<<"2n1n", n>>, <<"divappr", n>>}
    <3>1. windows[i] = <<IF i = t - 1 THEN "divappr" ELSE "2n1n", n>>
      BY <1>5
    <3>2. CASE i = t - 1
      BY <3>1, <3>2
    <3>3. CASE i # t - 1
      BY <3>1, <3>3
    <3>4. QED
      BY <3>2, <3>3
  <2>2. windows = [i \in 1 .. t - 1 |-> windows[i]]
    BY <1>5
  <2>3. QED
    BY <2>1, <2>2 DEF WindowSteps
<1>7. Fits(dw.build, dw.wide, windows, room)
  BY <1>3, <1>4, <1>6, WindowsFit
<1>8. PICK num \in Nat, product \in Nat, all \in Nat, c \in Nat :
        /\ num = m + 1 + m - s + 3 /\ product = m + 2 /\ all = k + room + product
        /\ c = QuotientStorage(m, s, n, t, cutoff) /\ num + all <= c
  <2>1. PICK d \in Nat : d = m - s /\ m + 1 + m - s + 3 = m + 1 + d + 3 /\ m - s + 3 = d + 3
    <3>1. s \in Int /\ m \in Int /\ s <= m
      BY <1>2
    <3>2. m - s \in Nat
      BY <3>1
    <3>3. m + 1 + m - s + 3 = m + 1 + (m - s) + 3
      OBVIOUS
    <3>4. QED
      BY <3>2, <3>3
  <2>2. QuotientStorage(m, s, n, t, cutoff) = (m + 1) + (d + 3) + (m + 2) + (k + room) + 8
    BY <1>4, <2>1 DEF QuotientStorage
  <2>3. PICK num \in Nat, product \in Nat, all \in Nat, c \in Nat :
          /\ num = m + 1 + d + 3 /\ product = m + 2 /\ all = k + room + (m + 2)
          /\ c = (m + 1) + (d + 3) + (m + 2) + (k + room) + 8
    OBVIOUS
  <2>4. num + all <= c
    BY <2>3
  <2>5. QED
    BY <2>1, <2>2, <2>3, <2>4
<1>9. Fits(dw.build, dw.wide, Holding(k, windows), all)
  <2>1. Fits(dw.build, dw.wide, Holding(k, windows), k + room)
    BY <1>7, FitsHolding
  <2>2. k + room \in Nat /\ k + room <= all
    BY <1>8
  <2>3. QED
    BY <2>1, <2>2, FitsMore
<1>10. Fits(dw.build, dw.wide, Holding(product, <<>>), all)
  <2>1. product <= all
    BY <1>8
  <2>2. QED
    BY <2>1, FitsHeld
<1>11. Fits(dw.build, dw.wide, Holding(k, windows) \o Holding(product, <<>>), all)
  BY <1>9, <1>10, FitsBoth
<1>12. PICK steps : steps = Holding(num, Holding(k, windows) \o Holding(product, <<>>))
  OBVIOUS
<1>13. Fits(dw.build, dw.wide, steps, num + all)
  BY <1>11, <1>12, FitsHolding
<1>14. Brings(dw.build, dw.wide, WithArena(c, steps))
  <2>1. num + all \in Nat
    OBVIOUS
  <2>2. QED
    BY <1>8, <1>13, <2>1, BringsArena
<1>15. Expands(WithArena(c, steps))
  BY <1>2, <1>3, <1>4, <1>5, <1>8, <1>12 DEF DwQuotient
<1>16. op \notin {"open", "close", "take", "give"}
  OBVIOUS
<1>17. QED
  BY <1>1, <1>14, <1>15, <1>16, BringsRuns

LEMMA JoinedIs ==
  ASSUME NEW S, NEW u \in Seq(S), NEW v \in Seq(S)
  PROVE  /\ u \o v \in Seq(S) /\ Len(u \o v) = Len(u) + Len(v)
         /\ \A i \in 1 .. Len(u) : (u \o v)[i] = u[i]
         /\ \A i \in 1 .. Len(v) : (u \o v)[Len(u) + i] = v[i]
  OBVIOUS

LEMMA TripleIs ==
  ASSUME NEW x, NEW s, NEW t
  PROVE  <<x>> \o <<s, t>> = <<x, s, t>>
<1>1. PICK S : S = {x, s, t}
  OBVIOUS
<1>2. PICK u, v, z : u = <<x>> /\ v = <<s, t>> /\ z = <<x, s, t>>
  OBVIOUS
<1>3. /\ u \in Seq(S) /\ Len(u) = 1 /\ u[1] = x
      /\ v \in Seq(S) /\ Len(v) = 2 /\ v[1] = s /\ v[2] = t
      /\ z \in Seq(S) /\ Len(z) = 3 /\ z[1] = x /\ z[2] = s /\ z[3] = t
  BY <1>1, <1>2
<1>4. PICK y : y = u \o v
  OBVIOUS
<1>5. /\ y \in Seq(S) /\ Len(y) = 1 + 2
      /\ \A i \in 1 .. 1 : y[i] = u[i]
      /\ \A i \in 1 .. 2 : y[1 + i] = v[i]
  <2>1. u \in Seq(S) /\ v \in Seq(S)
    BY <1>3
  <2>2. /\ u \o v \in Seq(S) /\ Len(u \o v) = Len(u) + Len(v)
        /\ \A i \in 1 .. Len(u) : (u \o v)[i] = u[i]
        /\ \A i \in 1 .. Len(v) : (u \o v)[Len(u) + i] = v[i]
    BY <2>1, JoinedIs, SMTT(30)
  <2>3. Len(u) = 1 /\ Len(v) = 2
    BY <1>3
  <2>4. QED
    BY <1>4, <2>2, <2>3
<1>6. y[1] = x /\ y[2] = s /\ y[3] = t
  <2>1. 1 \in 1 .. 1 /\ 1 \in 1 .. 2 /\ 2 \in 1 .. 2 /\ 1 + 1 = 2 /\ 1 + 2 = 3
    OBVIOUS
  <2>2. QED
    BY <1>3, <1>5, <2>1
<1>7. \A i \in 1 .. 3 : i = 1 \/ i = 2 \/ i = 3
  OBVIOUS
<1>8. \A i \in 1 .. 3 : y[i] = z[i]
  BY <1>3, <1>6, <1>7
<1>9. y = z
  <2>1. Len(y) = 3
    BY <1>5
  <2>2. QED
    BY <1>3, <1>5, <1>8, <2>1
<1>10. QED
  BY <1>2, <1>4, <1>9

(* The blocks of a division by Barrett's method. *)
LEMMA BarrettBlocksIs ==
  ASSUME DwRunning(dw), NEW m \in Nat \ {0}, NEW n \in Nat \ {0}
  PROVE  \E t \in Nat : t = BarrettBlocks(m, dw.bits, n, dw.shift) /\ t >= 2
<1>1. PICK bits \in Nat, shift \in Nat : bits = dw.bits /\ shift = dw.shift
  BY DEF DwRunning
<1>2. PICK total \in Nat, width \in Nat \ {0} :
        total = (m - 1) * LimbWidth + bits + shift /\ width = n * LimbWidth
  <2>1. PICK x \in Nat : x = m - 1
    OBVIOUS
  <2>2. x * 64 + bits + shift \in Nat /\ n * 64 \in Nat \ {0}
    OBVIOUS
  <2>3. QED
    BY <2>1, <2>2 DEF LimbWidth
<1>3. BlockCount(total, width) \in Nat /\ BlockCount(total, width) >= 2
  BY BlocksCover
<1>4. BarrettBlocks(m, dw.bits, n, dw.shift) = BlockCount(total, width)
  BY <1>1, <1>2 DEF BarrettBlocks
<1>5. QED
  BY <1>3, <1>4

(* The march, in what room there is. *)
LEMMA MarchFits ==
  ASSUME DwRunning(dw), NEW n \in Nat \ {0}, NEW room \in Nat, MarchStorage(n) <= room
  PROVE  /\ MarchStorage(n) \in Nat
         /\ Call(dw.build, dw.wide, <<"march", n>>, room)
<1>1. PICK w \in Nat : /\ MarchNeeds(dw.build, dw.wide, n) = 2 * n + 2 * w + 3 * w + 16
                       /\ MarchStorage(n) = 2 * n + 2 * w + 3 * w + 16
  BY MarchStorageIs
<1>2. MarchNeeds(dw.build, dw.wide, n) \in Nat /\ MarchNeeds(dw.build, dw.wide, n) <= room
  BY <1>1
<1>3. Call(dw.build, dw.wide, <<"march", n>>, room)
  BY <1>2, MarchCall
<1>4. QED
  BY <1>1, <1>3

LEMMA DwBarrettHolds ==
  ASSUME DwRunning(dw), DwBarrett
  PROVE  DwRunning(dw')
<1>1. PICK op \in {"dispatch", "dispatch_q"} : Todo(op)
  BY DEF DwBarrett
<1>2. PICK m \in Nat \ {0}, n \in Nat \ {0}, have \in Nat :
        /\ m = Args[2] /\ n = Args[3] /\ n <= m /\ have = RoomIn(dw.arenas) /\ Args[1] = op
        /\ op = "dispatch_q" => m + 1 + n + m + 1 <= have
  BY <1>1, DispatchRoom
<1>3. PICK t \in Nat : t = BarrettBlocks(m, dw.bits, n, dw.shift) /\ t >= 2
  BY BarrettBlocksIs
<1>4. PICK threshold \in Nat : threshold = dw.build.reciprocal
  BY DEF DwRunning, IsBuild
<1>5. PICK normalized \in Nat : normalized = (IF dw.shift = 0 THEN 0 ELSE n) /\ normalized <= n
  OBVIOUS
<1>6. PICK reciprocal \in Nat, march \in Nat, g \in Nat :
        /\ reciprocal = ReciprocalStorage(n, threshold) /\ march = MarchStorage(n)
        /\ g = Greater(reciprocal, march) /\ reciprocal <= g /\ march <= g
  <2>1. ReciprocalStorage(n, threshold) \in Nat
    BY DEF ReciprocalStorage
  <2>2. MarchStorage(n) \in Nat
    <3>1. PICK w \in Nat : MarchStorage(n) = 2 * n + 2 * w + 3 * w + 16
      BY MarchStorageIs
    <3>2. QED
      BY <3>1
  <2>3. QED
    BY <2>1, <2>2, GreaterIs
<1>7. PICK blocks \in Nat : blocks = 2 * t * n
  OBVIOUS
<1>8. PICK k \in Nat, c \in Nat :
        k = normalized + 2 * t * n /\ c = BarrettStorage(n, t, threshold) /\ k + g <= c
  <2>1. (2 * t + 1) * n = blocks + n
    BY <1>7
  <2>2. BarrettStorage(n, t, threshold) = blocks + n + g + 8
    BY <1>6, <2>1 DEF BarrettStorage
  <2>3. normalized + blocks \in Nat /\ blocks + n + g + 8 \in Nat
        /\ (normalized + blocks) + g <= blocks + n + g + 8
    BY <1>5
  <2>4. QED
    BY <1>7, <2>2, <2>3
<1>9. Call(dw.build, dw.wide, <<"reciprocal", n>>, g)
  BY <1>4, <1>6, ReciprocalCall
<1>10. Call(dw.build, dw.wide, <<"march", n>>, g)
  BY <1>6, MarchFits
<1>11. Fits(dw.build, dw.wide, <<<<"reciprocal", n>>, <<"march", n>>>>, g)
  BY <1>9, <1>10, FitsPair
<1>12. PICK arena : arena = WithArena(c, <<Take(k)>> \o <<<<"reciprocal", n>>, <<"march", n>>>>)
  OBVIOUS
<1>13. Brings(dw.build, dw.wide, arena)
  BY <1>8, <1>11, <1>12, BringsTaken
<1>14. <<Take(k)>> \o <<<<"reciprocal", n>>, <<"march", n>>>>
         = <<Take(k), <<"reciprocal", n>>, <<"march", n>>>>
  BY TripleIs
<1>15. Expands(IF op = "dispatch" THEN arena ELSE Holding(m + 1, arena))
  BY <1>2, <1>3, <1>4, <1>5, <1>8, <1>12, <1>14 DEF DwBarrett
<1>16. op \notin {"open", "close", "take", "give", "preinvs"}
       /\ op \notin {"open", "close", "take", "give"}
  OBVIOUS
<1>17. CASE op = "dispatch"
  <2>1. Expands(arena)
    BY <1>15, <1>17
  <2>2. QED
    BY <1>1, <1>13, <1>16, <2>1, BringsRuns
<1>18. CASE op = "dispatch_q"
  <2>1. PICK steps : steps = Holding(m + 1, arena)
    OBVIOUS
  <2>2. Expands(steps)
    BY <1>15, <1>18, <2>1
  <2>3. Fits(dw.build, dw.wide, arena, 0)
    BY <1>13, BringsFits
  <2>4. m + 1 \in Nat /\ 0 \in Nat /\ m + 1 + 0 = m + 1 /\ m + 1 <= have
    BY <1>2, <1>18
  <2>5. Fits(dw.build, dw.wide, steps, m + 1)
    BY <2>1, <2>3, <2>4, FitsHolding
  <2>6. QED
    BY <1>1, <1>2, <1>16, <2>2, <2>4, <2>5, FitsRuns
<1>19. QED
  BY <1>17, <1>18

(* divide_barrett_preinv. *)
LEMMA DwPreinvHolds ==
  ASSUME DwRunning(dw), DwPreinv
  PROVE  DwRunning(dw')
<1>1. Todo("preinvs")
  BY DEF DwPreinv
<1>2. HasRoom(dw.build, dw.wide, Args, RoomIn(dw.arenas)) /\ Args[1] = "preinvs"
  BY <1>1, CallWaits
<1>3. PICK m \in Nat \ {0}, n \in Nat \ {0} : m = Args[2] /\ n = Args[3]
  <2>1. Args[2] \in Nat /\ Args[3] \in Nat \ {0} /\ Args[3] <= Args[2]
    BY <1>2 DEF HasRoom, OfSizes
  <2>2. Args[2] # 0
    BY <2>1
  <2>3. QED
    BY <2>1, <2>2
<1>4. PICK t \in Nat : t = BarrettBlocks(m, dw.bits, n, dw.shift) /\ t >= 2
  BY BarrettBlocksIs
<1>5. PICK march \in Nat : march = MarchStorage(n)
  <2>1. PICK w \in Nat : MarchStorage(n) = 2 * n + 2 * w + 3 * w + 16
    BY MarchStorageIs
  <2>2. QED
    BY <2>1
<1>6. PICK k \in Nat : k = (2 * t - 1) * n
  <2>1. PICK u \in Nat : u = 2 * t - 1
    BY <1>4
  <2>2. u * n \in Nat
    OBVIOUS
  <2>3. QED
    BY <2>1, <2>2
<1>7. PICK c \in Nat : c = BarrettPreinvStorage(n, t) /\ k + march <= c
  BY <1>5, <1>6 DEF BarrettPreinvStorage
<1>8. PICK once : once = Holding(k, <<<<"march", n>>>>)
  OBVIOUS
<1>9. Fits(dw.build, dw.wide, once, k + march)
  <2>1. Call(dw.build, dw.wide, <<"march", n>>, march)
    BY <1>5, MarchFits
  <2>2. k + march \in Nat
    OBVIOUS
  <2>3. QED
    BY <1>8, <2>1, <2>2, FitsCallHolding
<1>10. Fits(dw.build, dw.wide, once \o once, k + march)
  BY <1>9, FitsBoth
<1>11. Brings(dw.build, dw.wide, WithArena(c, once \o once))
  <2>1. k + march \in Nat
    OBVIOUS
  <2>2. QED
    BY <1>7, <1>10, <2>1, BringsArena
<1>12. Expands(WithArena(c, once \o once))
  BY <1>3, <1>4, <1>6, <1>7, <1>8 DEF DwPreinv
<1>13. QED
  BY <1>1, <1>11, <1>12, BringsRuns

-----------------------------------------------------------------------------
(* The arenas: what is taken, given back, opened and closed.               *)

(* The next state, with other arenas and the steps that are left. *)
LEMMA ArenasMove ==
  ASSUME DwRunning(dw), NEW c, NEW e, NEW rest, Leads(dw.build, dw.wide, rest, c, e),
         dw' = [dw EXCEPT !.arenas = c, !.todo = rest]
  PROVE  DwRunning(dw')
<1>1. dw = [build |-> dw.build, wide |-> dw.wide, bits |-> dw.bits, shift |-> dw.shift,
            arenas |-> dw.arenas, todo |-> dw.todo]
  BY DEF DwRunning, DwFields
<1>2. PICK d : /\ d = dw'
               /\ d = [build |-> dw.build, wide |-> dw.wide, bits |-> dw.bits,
                       shift |-> dw.shift, arenas |-> c, todo |-> rest]
  <2>1. dw' = [build |-> dw.build, wide |-> dw.wide, bits |-> dw.bits, shift |-> dw.shift,
               arenas |-> c, todo |-> rest]
    BY <1>1
  <2>2. QED
    BY <2>1
<1>3. /\ DwFields(d) /\ d.build = dw.build /\ d.wide = dw.wide /\ d.bits = dw.bits
      /\ d.shift = dw.shift /\ d.arenas = c /\ d.todo = rest
  BY <1>2 DEF DwFields
<1>4. \E arenas : Leads(d.build, d.wide, d.todo, d.arenas, arenas)
  BY <1>3
<1>5. IsBuild(d.build) /\ d.wide \in BOOLEAN /\ d.bits \in Nat /\ d.shift \in Nat
  BY <1>3 DEF DwRunning
<1>6. QED
  BY <1>2, <1>3, <1>4, <1>5 DEF DwRunning

LEMMA DwAllocateHolds ==
  ASSUME DwRunning(dw), DwAllocate
  PROVE  DwRunning(dw')
<1>1. dw.todo # <<>> /\ (Head(dw.todo)[1] = "take" \/ Head(dw.todo)[1] = "give")
  BY DEF DwAllocate, Todo
<1>2. PICK e, c : /\ Passes(dw.build, dw.wide, Head(dw.todo), dw.arenas, c)
                  /\ Leads(dw.build, dw.wide, Tail(dw.todo), c, e)
  <2>1. PICK e : Leads(dw.build, dw.wide, dw.todo, dw.arenas, e)
    BY DEF DwRunning
  <2>2. QED
    BY <1>1, <2>1, LeadsFirst
<1>3. PICK rest : rest = Tail(dw.todo)
  OBVIOUS
<1>4. dw' = [dw EXCEPT !.arenas = c, !.todo = rest]
  <2>1. CASE Head(dw.todo)[1] = "take"
    <3>1. c = [dw.arenas EXCEPT ![Len(dw.arenas)].offset = @ + Args[2]]
      BY <1>2, <2>1 DEF Passes, Raised, Args
    <3>2. dw' = [dw EXCEPT !.arenas[Len(dw.arenas)].offset = @ + Args[2], !.todo = rest]
      BY <1>1, <1>3, <2>1 DEF DwAllocate, Todo
    <3>3. QED
      BY <3>1, <3>2
  <2>2. CASE Head(dw.todo)[1] = "give"
    <3>1. c = [dw.arenas EXCEPT ![Len(dw.arenas)].offset = @ - Args[2]]
      BY <1>2, <2>2 DEF Passes, Lowered, Args
    <3>2. dw' = [dw EXCEPT !.arenas[Len(dw.arenas)].offset = @ - Args[2], !.todo = rest]
      BY <1>1, <1>3, <2>2 DEF DwAllocate, Todo
    <3>3. QED
      BY <3>1, <3>2
  <2>3. QED
    BY <1>1, <2>1, <2>2
<1>5. QED
  BY <1>2, <1>3, <1>4, ArenasMove

LEMMA DwOpenHolds ==
  ASSUME DwRunning(dw), DwOpen
  PROVE  DwRunning(dw')
<1>1. dw.todo # <<>> /\ Head(dw.todo)[1] = "open"
  BY DEF DwOpen, Todo
<1>2. PICK e, c : /\ Passes(dw.build, dw.wide, Head(dw.todo), dw.arenas, c)
                  /\ Leads(dw.build, dw.wide, Tail(dw.todo), c, e)
  <2>1. PICK e : Leads(dw.build, dw.wide, dw.todo, dw.arenas, e)
    BY DEF DwRunning
  <2>2. QED
    BY <1>1, <2>1, LeadsFirst
<1>3. PICK rest : rest = Tail(dw.todo)
  OBVIOUS
<1>4. c = Append(dw.arenas, [offset |-> 0, capacity |-> Args[2]])
  BY <1>1, <1>2 DEF Passes, Opened, Args
<1>5. dw' = [dw EXCEPT !.arenas = c, !.todo = rest]
  BY <1>3, <1>4 DEF DwOpen
<1>6. QED
  BY <1>2, <1>3, <1>5, ArenasMove

LEMMA DwCloseHolds ==
  ASSUME DwRunning(dw), DwClose
  PROVE  DwHolds(dw')
<1>1. dw.todo # <<>> /\ Head(dw.todo)[1] = "close"
  BY DEF DwClose, Todo
<1>2. PICK e, c : /\ Passes(dw.build, dw.wide, Head(dw.todo), dw.arenas, c)
                  /\ Leads(dw.build, dw.wide, Tail(dw.todo), c, e)
  <2>1. PICK e : Leads(dw.build, dw.wide, dw.todo, dw.arenas, e)
    BY DEF DwRunning
  <2>2. QED
    BY <1>1, <2>1, LeadsFirst
<1>3. PICK rest : rest = Tail(dw.todo)
  OBVIOUS
<1>4. c = SubSeq(dw.arenas, 1, Len(dw.arenas) - 1)
  BY <1>1, <1>2 DEF Passes, Closed
<1>5. CASE dw' = DwIdle
  BY <1>5 DEF DwHolds
<1>6. CASE dw' = [dw EXCEPT !.arenas = c, !.todo = rest]
  BY <1>2, <1>3, <1>6, ArenasMove DEF DwHolds
<1>7. QED
  BY <1>3, <1>4, <1>5, <1>6 DEF DwClose

-----------------------------------------------------------------------------
(* The invariant.                                                          *)

LEMMA DivisionBegins ==
  ASSUME NEW build, IsBuild(build), NEW wide \in BOOLEAN, NEW bits \in Nat, NEW shift \in Nat,
         NEW steps, Leads(build, wide, steps, <<>>, <<>>),
         dw' = [build |-> build, wide |-> wide, bits |-> bits, shift |-> shift,
                arenas |-> <<>>, todo |-> steps]
  PROVE  DwRunning(dw')
<1>1. PICK d : d = dw'
  OBVIOUS
<1>2. /\ DwFields(d) /\ d.build = build /\ d.wide = wide /\ d.bits = bits
      /\ d.shift = shift /\ d.arenas = <<>> /\ d.todo = steps
  BY <1>1 DEF DwFields
<1>3. \E arenas : Leads(d.build, d.wide, d.todo, d.arenas, arenas)
  BY <1>2
<1>4. QED
  BY <1>1, <1>2, <1>3 DEF DwRunning

EnterNeeds(m, s, op) ==
  SchoolbookStorage(m, s) + m + 1 + (IF op = "rem" THEN m - s + 1 ELSE 0)
EnterHeld(m, s, op) ==
  CASE op = "rem" -> m - s + 1 + m + 1 [] op = "div_rem" -> m + 1 [] OTHER -> 0
EnterCalls(m, s, op) == <<<<IF op = "div" THEN "dispatch_q" ELSE "dispatch", m, s>>>>
EntersWith(p, build, wide, bits, shift, op) ==
  dw' = [build |-> build, wide |-> wide /\ p[2] + 1 >= build.cyclic,
         bits |-> bits, shift |-> shift, arenas |-> <<>>,
         todo |-> IF op = "preinv" THEN <<<<"preinvs", p[1], p[2]>>>>
                  ELSE WithArena(Greater(EnterNeeds(p[1], p[2], op), StackLimbs),
                                 Holding(EnterHeld(p[1], p[2], op),
                                         EnterCalls(p[1], p[2], op)))]

(* A division begins without arenas: the stack or an allocation is its first. *)
LEMMA DwEnterHolds ==
  ASSUME DwEnter
  PROVE  DwRunning(dw')
<1>1. PICK p \in DwDivisions, build \in DwBuilds, wide \in BOOLEAN,
           bits \in {1, LimbWidth}, shift \in {0, LimbWidth - 1},
           op \in {"div", "rem", "div_rem", "preinv"} : EntersWith(p, build, wide, bits, shift, op)
  BY DEF DwEnter, EntersWith, EnterNeeds, EnterHeld, EnterCalls
<1>2. PICK m \in Nat, s \in Nat \ {0} : m = p[1] /\ s = p[2] /\ s <= m
  BY DwAssumption
<1>3. IsBuild(build)
  BY DwAssumption DEF IsBuild
<1>4. bits \in Nat /\ shift \in Nat
  BY DEF LimbWidth
<1>5. PICK choice \in BOOLEAN : choice = (wide /\ p[2] + 1 >= build.cyclic)
  OBVIOUS
<1>6. <<>> \in Seq(Arena)
  OBVIOUS
<1>7. CASE op = "preinv"
  <2>1. PICK call : call = <<"preinvs", m, s>>
    OBVIOUS
  <2>2. Passes(build, choice, call, <<>>, <<>>)
    <3>1. <<"preinvs", m, s>>[1] = "preinvs" /\ <<"preinvs", m, s>>[2] = m
          /\ <<"preinvs", m, s>>[3] = s
      OBVIOUS
    <3>2. call[1] = "preinvs" /\ call[2] = m /\ call[3] = s
      BY <2>1, <3>1
    <3>3. HasRoom(build, choice, call, RoomIn(<<>>))
      BY <1>2, <3>2 DEF HasRoom, OfSizes
    <3>4. QED
      BY <1>6, <3>2, <3>3 DEF Passes
  <2>3. Leads(build, choice, <<call>>, <<>>, <<>>)
    BY <2>2, LeadsOne
  <2>4. dw' = [build |-> build, wide |-> choice, bits |-> bits, shift |-> shift,
               arenas |-> <<>>, todo |-> <<call>>]
    BY <1>1, <1>2, <1>5, <1>7, <2>1 DEF EntersWith
  <2>5. QED
    BY <1>3, <1>4, <2>3, <2>4, DivisionBegins
<1>8. CASE op # "preinv"
  <2>1. PICK q \in Nat : q = m - s + 1
    BY <1>2
  <2>2. PICK k \in Nat, need \in Nat, room \in Nat :
          /\ k = EnterHeld(m, s, op) /\ need = EnterNeeds(m, s, op) /\ k + room <= need
          /\ room = IF op = "div" THEN m + 1 + s + m + 1 ELSE m + 1 + s
    <3>1. EnterNeeds(m, s, op) = m + 1 + s + m + 1 + (IF op = "rem" THEN q ELSE 0)
      BY <2>1 DEF EnterNeeds, SchoolbookStorage
    <3>2. CASE op = "rem"
      <4>1. EnterHeld(m, s, op) = q + m + 1
        BY <2>1, <3>2 DEF EnterHeld
      <4>2. QED
        BY <3>1, <3>2, <4>1
    <3>3. CASE op = "div_rem"
      <4>1. EnterHeld(m, s, op) = m + 1
        BY <3>3 DEF EnterHeld
      <4>2. QED
        BY <3>1, <3>3, <4>1
    <3>4. CASE op = "div"
      <4>1. EnterHeld(m, s, op) = 0
        BY <3>4 DEF EnterHeld
      <4>2. QED
        BY <3>1, <3>4, <4>1
    <3>5. QED
      BY <1>8, <3>2, <3>3, <3>4
  <2>3. PICK c \in Nat : c = Greater(need, StackLimbs) /\ k + room <= c
    <3>1. StackLimbs \in Nat
      BY DEF StackLimbs
    <3>2. Greater(need, StackLimbs) \in Nat /\ need <= Greater(need, StackLimbs)
      BY <3>1, GreaterIs
    <3>3. QED
      BY <2>2, <3>2
  <2>4. PICK call : EnterCalls(m, s, op) = <<call>> /\ Call(build, choice, call, room)
    <3>1. CASE op = "div"
      <4>1. SchoolbookNeeds(m, s) + m + 1 <= room
        BY <2>2, <3>1 DEF SchoolbookNeeds
      <4>2. Call(build, choice, <<"dispatch_q", m, s>>, room)
        BY <1>2, <4>1, DispatchQuotientCall
      <4>3. QED
        BY <3>1, <4>2 DEF EnterCalls
    <3>2. CASE op # "div"
      <4>1. SchoolbookNeeds(m, s) <= room
        BY <2>2, <3>2 DEF SchoolbookNeeds
      <4>2. Call(build, choice, <<"dispatch", m, s>>, room)
        BY <1>2, <4>1, DispatchCall
      <4>3. QED
        BY <3>2, <4>2 DEF EnterCalls
    <3>3. QED
      BY <3>1, <3>2
  <2>5. Fits(build, choice, Holding(k, <<call>>), c)
    BY <2>3, <2>4, FitsCallHolding
  <2>6. Brings(build, choice, WithArena(c, Holding(k, <<call>>)))
    <3>1. c <= c
      OBVIOUS
    <3>2. QED
      BY <2>5, <3>1, BringsArena
  <2>7. PICK steps : steps = WithArena(c, Holding(k, <<call>>))
    OBVIOUS
  <2>8. Leads(build, choice, steps, <<>>, <<>>)
    BY <1>6, <2>6, <2>7 DEF Brings
  <2>9. dw' = [build |-> build, wide |-> choice, bits |-> bits, shift |-> shift,
               arenas |-> <<>>, todo |-> steps]
    BY <1>1, <1>2, <1>5, <1>8, <2>2, <2>3, <2>4, <2>7 DEF EntersWith
  <2>10. QED
    BY <1>3, <1>4, <2>8, <2>9, DivisionBegins
<1>9. QED
  BY <1>7, <1>8

LEMMA IdleHasNothing == ASSUME dw = DwIdle PROVE dw.todo = <<>>
  BY DEF DwIdle

LEMMA DwStepHolds ==
  ASSUME DwHolds(dw), DwStep
  PROVE  DwHolds(dw')
<1>1. dw.todo # <<>>
  BY DEF DwStep, Todo, DwSchoolbook, DwBlocks, DwQuotient, DwBarrett, DwPreinv, DwUnsigned,
         DwLeaf, DwApproxLeaf, Dw2n1n, DwApprox, Dw3n2n, DwReciprocal, DwRefine, DwMarch,
         DwMulmod, DwAllocate, DwOpen, DwClose
<1>2. DwRunning(dw)
  BY <1>1, IdleHasNothing DEF DwHolds
<1>3. DwSchoolbook \/ DwBlocks \/ DwQuotient \/ DwBarrett \/ DwPreinv \/ DwUnsigned
        => DwRunning(dw')
  BY <1>2, DwSchoolbookHolds, DwBlocksHolds, DwQuotientHolds, DwBarrettHolds, DwPreinvHolds,
     DwUnsignedHolds
<1>4. DwLeaf \/ DwApproxLeaf \/ Dw2n1n \/ DwApprox \/ Dw3n2n => DwRunning(dw')
  BY <1>2, DwLeafHolds, DwApproxLeafHolds, Dw2n1nHolds, DwApproxHolds, Dw3n2nHolds
<1>5. DwReciprocal \/ DwRefine \/ DwMarch \/ DwMulmod \/ DwAllocate \/ DwOpen => DwRunning(dw')
  BY <1>2, DwReciprocalHolds, DwRefineHolds, DwMarchHolds, DwMulmodHolds, DwAllocateHolds,
     DwOpenHolds
<1>6. DwClose => DwHolds(dw')
  BY <1>2, DwCloseHolds
<1>7. QED
  BY <1>3, <1>4, <1>5, <1>6 DEF DwStep, DwHolds

LEMMA RunningFits == ASSUME DwHolds(dw) PROVE DivisionScratchFits
<1> SUFFICES ASSUME dw # DwIdle, NEW i \in DOMAIN dw.arenas
             PROVE  dw.arenas[i].offset \in 0 .. dw.arenas[i].capacity
  BY DEF DivisionScratchFits
<1>1. dw.arenas \in Seq(Arena)
  BY DEF DwHolds, DwRunning, Leads
<1>2. dw.arenas[i] \in Arena
  BY <1>1
<1>3. QED
  BY <1>2 DEF Arena

(* No division takes more of a workspace than the tier that sized it allows, whatever its
   operands and the cutoffs of the build, and none gives back more than it took: the steps
   that are left find the room they need at every call (DwHolds). *)
THEOREM DivisionScratchSuffices == Spec => []DivisionScratchFits
<1>1. Init => DwHolds(dw)
  BY DEF Init, DwInit, DwHolds
<1>2. DwHolds(dw) /\ [Next]_vars => DwHolds(dw)'
  <2> SUFFICES ASSUME DwHolds(dw), [Next]_vars PROVE DwHolds(dw')
    OBVIOUS
  <2>1. CASE Enter
    <3>1. DwEnter \/ dw' = dw
      BY <2>1 DEF Enter
    <3>2. QED
      BY <3>1, DwEnterHolds DEF DwHolds
  <2>2. CASE KnuthRuns
    <3>1. dw' = dw
      BY <2>2 DEF KnuthRuns
    <3>2. QED
      BY <3>1
  <2>3. CASE BzRunsOn
    <3>1. dw' = dw
      BY <2>3 DEF BzRunsOn
    <3>2. QED
      BY <3>1
  <2>4. CASE BarRuns
    <3>1. dw' = dw
      BY <2>4 DEF BarRuns
    <3>2. QED
      BY <3>1
  <2>5. CASE DwRuns
    BY <2>5, DwStepHolds DEF DwRuns
  <2>6. CASE UNCHANGED vars
    <3>1. dw' = dw
      BY <2>6 DEF vars
    <3>2. QED
      BY <3>1
  <2>7. QED
    BY <2>1, <2>2, <2>3, <2>4, <2>5, <2>6 DEF Next
<1>3. DwHolds(dw) => DivisionScratchFits
  BY RunningFits
<1>4. QED
  BY <1>1, <1>2, <1>3, PTL DEF Spec
===============================================================================
