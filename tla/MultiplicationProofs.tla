------------------------- MODULE MultiplicationProofs -------------------------
(***************************************************************************)
(* Proofs about the multiplication kernels, for every width of a limb, all *)
(* operands and any depth of their recursion.                              *)
(***************************************************************************)

EXTENDS Multiplication, LimbMemoryProofs, FiniteSetTheorems

(* A buffer nobody has written to holds limbs. *)
LEMMA LeftoverLimbs ==
  ASSUME NEW n \in Nat, NEW old \in Leftovers
  PROVE  Leftover(n, old) \in [0 .. n - 1 -> 0 .. Base - 1]
<1>1. PICK k \in Nat \ {0} : k = Cardinality(DOMAIN old) /\ old \in [0 .. k - 1 -> 0 .. Base - 1]
  BY LeftoversAssumption
<1>2. ASSUME NEW i \in 0 .. n - 1 PROVE old[i % k] \in 0 .. Base - 1
  <2>1. i % k \in 0 .. k - 1
    OBVIOUS
  <2>2. QED
    BY <1>1, <2>1
<1>3. QED
  BY <1>1, <1>2 DEF Leftover

-----------------------------------------------------------------------------
(* Congruence.                                                             *)

Same(x, y, m) == \E k \in Int : x = y + k * m

LEMMA SameIsMod ==
  ASSUME NEW x \in Int, NEW y \in Int, NEW m \in Nat \ {0}
  PROVE  Same(x, y, m) <=> x % m = y % m
<1>1. ASSUME Same(x, y, m) PROVE x % m = y % m
  <2>1. PICK k \in Int : x = m * k + y
    BY <1>1 DEF Same
  <2>2. QED
    BY <2>1, DivMultiple
<1>2. ASSUME x % m = y % m PROVE Same(x, y, m)
  <2>1. PICK p \in Int, q \in Int, r \in Int : x = m * p + r /\ y = m * q + r
    <3>1. PICK p \in Int, r \in 0 .. m - 1 : p = x \div m /\ r = x % m /\ x = m * p + r
      BY DivMod
    <3>2. PICK q \in Int, u \in 0 .. m - 1 : q = y \div m /\ u = y % m /\ y = m * q + u
      BY DivMod
    <3>3. r = u /\ r \in Int
      BY <1>2, <3>1, <3>2
    <3>4. y = m * q + r
      BY <3>2, <3>3
    <3>5. QED
      BY <3>1, <3>3, <3>4
  <2>2. p - q \in Int /\ x = y + (p - q) * m
    BY <2>1
  <2>3. QED
    BY <2>2 DEF Same
<1>3. QED
  BY <1>1, <1>2

LEMMA SameSymmetric ==
  ASSUME NEW x \in Int, NEW y \in Int, NEW m \in Int, Same(x, y, m)
  PROVE  Same(y, x, m)
<1>1. PICK k \in Int : x = y + k * m
  BY DEF Same
<1>2. y = x + (-k) * m /\ -k \in Int
  BY <1>1
<1>3. QED
  BY <1>2 DEF Same

LEMMA SameTransitive ==
  ASSUME NEW x \in Int, NEW y \in Int, NEW z \in Int, NEW m \in Int, Same(x, y, m), Same(y, z, m)
  PROVE  Same(x, z, m)
<1>1. PICK k \in Int, l \in Int : x = y + k * m /\ y = z + l * m
  BY DEF Same
<1>2. x = z + (l + k) * m /\ l + k \in Int
  BY <1>1
<1>3. QED
  BY <1>2 DEF Same

LEMMA SameProduct ==
  ASSUME NEW x \in Int, NEW y \in Int, NEW u \in Int, NEW v \in Int, NEW m \in Int,
         Same(x, u, m), Same(y, v, m)
  PROVE  Same(x * y, u * v, m)
<1>1. PICK k \in Int, l \in Int : x = u + k * m /\ y = v + l * m
  BY DEF Same
<1>2. PICK c \in Int : c = u * l + k * v + (k * l) * m
  OBVIOUS
<1>3. (u + k * m) * (v + l * m) = u * v + (u * l + k * v + (k * l) * m) * m
  OBVIOUS
<1>4. x * y = u * v + c * m
  BY <1>1, <1>2, <1>3
<1>5. QED
  BY <1>4 DEF Same

-----------------------------------------------------------------------------
(* The arithmetic of the product modulo B^w - 1.                           *)

(* A sum of residues, with the carry added at the bottom, is a residue. *)
LEMMA AddedMod1Facts ==
  ASSUME NEW w \in Nat, NEW x \in Nat, NEW y \in Nat, x < Power(Base, w), y < Power(Base, w)
  PROVE  /\ AddedMod1(x, y, w) \in Nat /\ AddedMod1(x, y, w) < Power(Base, w)
         /\ Same(AddedMod1(x, y, w), x + y, Modulus(w))
<1>1. PICK P \in Nat : P = Power(Base, w)
  BY BasePower
<1>2. CASE x + y < P
  <2>1. AddedMod1(x, y, w) = x + y
    BY <1>1, <1>2 DEF AddedMod1
  <2>2. x + y = (x + y) + 0 * Modulus(w)
    BY <1>1 DEF Modulus
  <2>3. QED
    BY <1>1, <1>2, <2>1, <2>2 DEF Same
<1>3. CASE ~(x + y < P)
  <2>1. x + y - P + 1 < P /\ x + y - P + 1 \in Nat
    BY <1>1, <1>3
  <2>2. AddedMod1(x, y, w) = x + y - P + 1
    BY <1>1, <1>3, <2>1 DEF AddedMod1
  <2>3. x + y - P + 1 = (x + y) + (-1) * Modulus(w)
    BY <1>1 DEF Modulus
  <2>4. QED
    BY <1>1, <2>1, <2>2, <2>3 DEF Same
<1>4. QED
  BY <1>2, <1>3

(* What is right modulo B^h - 1 and B^h + 1 is right modulo their product. *)
LEMMA CoprimeModuli ==
  ASSUME NEW e \in Nat, NEW x \in Int, NEW z \in Int,
         Same(z, x, 2 * e - 1), Same(z, x, 2 * e + 1)
  PROVE  Same(z, x, (2 * e) * (2 * e) - 1)
<1>1. PICK k \in Int, l \in Int : z = x + k * (2 * e - 1) /\ z = x + l * (2 * e + 1)
  BY DEF Same
<1>2. PICK d \in Int, c \in Int : d = k - l /\ c = k - d * e
  OBVIOUS
<1>3. PICK ke \in Int, le \in Int, de \in Int : ke = k * e /\ le = l * e /\ de = d * e
  OBVIOUS
<1>4. de = ke - le
  BY <1>2, <1>3
<1>5. k * (2 * e - 1) = 2 * ke - k /\ l * (2 * e + 1) = 2 * le + l
  BY <1>3
<1>6. 2 * ke - k = 2 * le + l
  BY <1>1, <1>5
<1>7. d = 2 * c
  BY <1>2, <1>3, <1>4, <1>6
<1>8. k = c * (2 * e + 1)
  <2>1. d * e = (2 * c) * e
    BY <1>7
  <2>2. PICK ce \in Int : ce = c * e
    OBVIOUS
  <2>3. k = c + 2 * ce
    BY <1>2, <2>1, <2>2
  <2>4. c * (2 * e + 1) = 2 * ce + c
    BY <2>2
  <2>5. QED
    BY <2>3, <2>4
<1>9. (c * (2 * e + 1)) * (2 * e - 1) = c * ((2 * e) * (2 * e) - 1)
  OBVIOUS
<1>10. z = x + c * ((2 * e) * (2 * e) - 1)
  BY <1>1, <1>8, <1>9
<1>11. QED
  BY <1>10 DEF Same

(* The two residues put together: t is half their difference modulo B^h + 1. *)
LEMMA PutTogether ==
  ASSUME NEW e \in Nat, NEW P \in Nat, P = 2 * e, NEW t \in Int, NEW j \in Int,
         NEW rm1 \in Int, NEW rp1 \in Int, NEW x \in Int,
         Same(rm1, x, P - 1), Same(rp1, x, P + 1), 2 * t = rm1 - rp1 + j * (P + 1)
  PROVE  Same(rm1 + t * (P - 1), x, P * P - 1)
<1>1. PICK z \in Int : z = rm1 + t * (P - 1)
  OBVIOUS
<1>2. Same(z, x, P - 1)
  <2>1. Same(z, rm1, P - 1)
    BY <1>1 DEF Same
  <2>2. QED
    BY <2>1, SameTransitive
<1>3. Same(z, x, P + 1)
  <2>1. z = rp1 + (t - j) * (P + 1)
    <3>1. PICK u \in Int, v \in Int : u = t * P /\ v = j * P
      OBVIOUS
    <3>2. t * (P - 1) = u - t /\ (t - j) * (P + 1) = u - v + t - j /\ j * (P + 1) = v + j
      BY <3>1
    <3>3. QED
      BY <1>1, <3>2
  <2>2. Same(z, rp1, P + 1)
    <3>1. t - j \in Int
      OBVIOUS
    <3>2. QED
      BY <2>1, <3>1 DEF Same
  <2>3. QED
    BY <2>2, SameTransitive
<1>4. QED
  BY <1>1, <1>2, <1>3, CoprimeModuli

(* Half the difference of the residues modulo B^h + 1. *)
LEMMA HalvedFacts ==
  ASSUME NEW h \in Nat \ {0}, NEW rm1 \in Nat, rm1 < Power(Base, h),
         NEW rp1 \in Nat, rp1 <= Power(Base, h)
  PROVE  /\ HalvedDifference(rm1, rp1, h) \in Nat
         /\ HalvedDifference(rm1, rp1, h) <= Power(Base, h)
         /\ \E j \in Int :
              2 * HalvedDifference(rm1, rp1, h) = rm1 - rp1 + j * (Power(Base, h) + 1)
<1>1. PICK e \in Nat \ {0}, P \in Nat : P = Power(Base, h) /\ P = 2 * e
  <2>1. PICK e \in Nat \ {0} : Power(Base, h) = 2 * e
    BY PowerEven
  <2>2. 2 * e \in Nat
    OBVIOUS
  <2>3. QED
    BY <2>1, <2>2
<1>2. PICK d \in Nat : d = IF rm1 < rp1 THEN rm1 + P + 1 - rp1 ELSE rm1 - rp1
  <2>1. (IF rm1 < rp1 THEN rm1 + P + 1 - rp1 ELSE rm1 - rp1) \in Nat
    <3>1. CASE rm1 < rp1
      BY <1>1, <3>1
    <3>2. CASE ~(rm1 < rp1)
      BY <1>1, <3>2
    <3>3. QED
      BY <3>1, <3>2
  <2>2. QED
    BY <2>1
<1>3. PICK i \in {0, 1} : d = rm1 - rp1 + i * (P + 1) /\ d <= P
  <2>1. CASE rm1 < rp1
    <3>1. d = rm1 - rp1 + 1 * (P + 1) /\ d <= P
      BY <1>1, <1>2, <2>1
    <3>2. QED
      BY <3>1
  <2>2. CASE ~(rm1 < rp1)
    <3>1. d = rm1 - rp1 + 0 * (P + 1) /\ d <= P
      BY <1>1, <1>2, <2>2
    <3>2. QED
      BY <3>1
  <2>3. QED
    BY <2>1, <2>2
<1>4. HalvedDifference(rm1, rp1, h) = (IF d % 2 = 1 THEN d + P + 1 ELSE d) \div 2
  BY <1>1, <1>2 DEF HalvedDifference
<1>5. PICK q \in Int, r \in 0 .. 1 : q = d \div 2 /\ r = d % 2 /\ d = 2 * q + r
  OBVIOUS
<1>6. CASE r = 0
  <2>1. HalvedDifference(rm1, rp1, h) = q
    BY <1>4, <1>5, <1>6
  <2>2. q \in Nat /\ q <= P /\ 2 * q = rm1 - rp1 + i * (P + 1) /\ i \in Int
    BY <1>3, <1>5, <1>6
  <2>3. QED
    BY <1>1, <2>1, <2>2
<1>7. CASE r = 1
  <2>1. HalvedDifference(rm1, rp1, h) = (d + P + 1) \div 2
    BY <1>4, <1>5, <1>7
  <2>2. PICK t \in Nat : t = q + e + 1
    BY <1>1, <1>5, <1>7
  <2>3. d + P + 1 = 2 * t
    BY <1>1, <1>5, <1>7, <2>2
  <2>4. (2 * t) \div 2 = t
    OBVIOUS
  <2>5. t <= P
    BY <1>3, <2>3
  <2>6. 2 * t = rm1 - rp1 + (i + 1) * (P + 1) /\ i + 1 \in Int
    <3>1. (i + 1) * (P + 1) = i * (P + 1) + P + 1
      OBVIOUS
    <3>2. QED
      BY <1>3, <2>3, <3>1
  <2>7. QED
    BY <1>1, <2>1, <2>3, <2>4, <2>5, <2>6
<1>8. QED
  BY <1>6, <1>7

(* What the result of the recombination is: W and P stand for the powers w and h of the base. *)
Recombined(rm1, t, P, W) ==
  LET assembled == rm1 + (t % P) * P
      carried == IF t < P THEN assembled ELSE IF assembled + 1 = W THEN 1 ELSE assembled + 1
  IN  IF carried >= t THEN carried - t ELSE (carried - t - 1) % W

LEMMA RecombinedFacts ==
  ASSUME NEW P \in Nat, P >= 2, NEW W \in Nat, W = P * P,
         NEW rm1 \in Nat, rm1 < P, NEW t \in Nat, t <= P
  PROVE  /\ Recombined(rm1, t, P, W) \in Nat /\ Recombined(rm1, t, P, W) < W
         /\ Same(Recombined(rm1, t, P, W), rm1 + t * (P - 1), W - 1)
<1> DEFINE assembled == rm1 + (t % P) * P
           carried == IF t < P THEN assembled
                      ELSE IF assembled + 1 = W THEN 1 ELSE assembled + 1
<1>1. 2 * P <= W
  BY MulPos
<1>2. PICK tP \in Nat : tP = t * P
  OBVIOUS
<1>3. PICK i \in Int : carried = rm1 + tP + i * (W - 1) /\ carried \in Nat /\ carried < W
  <2>1. CASE t < P
    <3>1. t % P = t
      BY <2>1, DivSmall
    <3>2. assembled = rm1 + tP
      BY <1>2, <3>1
    <3>3. (t + 1) * P <= P * P
      BY <2>1, MulPos
    <3>4. tP + P <= W
      BY <1>2, <3>3
    <3>5. carried = rm1 + tP
      BY <2>1, <3>2
    <3>6. PICK c \in Nat : c = rm1 + tP /\ c < W
      BY <3>4
    <3>7. c = rm1 + tP + 0 * (W - 1) /\ 0 \in Int
      BY <3>6
    <3>8. carried = c
      BY <3>5, <3>6
    <3> HIDE DEF carried
    <3>9. QED
      BY <3>6, <3>7, <3>8
  <2>2. CASE t = P
    <3>1. t % P = 0
      <4>1. P = P * 1 + 0
        OBVIOUS
      <4>2. QED
        BY <2>2, <4>1, DivUnique
    <3>2. assembled = rm1
      BY <3>1
    <3>3. carried = rm1 + 1
      BY <1>1, <2>2, <3>2
    <3>4. tP = W
      BY <1>2, <2>2
    <3>5. PICK c \in Nat : c = rm1 + 1 /\ c < W
      BY <1>1
    <3>6. c = rm1 + tP + (-1) * (W - 1) /\ -1 \in Int
      BY <3>4, <3>5
    <3>7. carried = c
      BY <3>3, <3>5
    <3> HIDE DEF carried
    <3>8. QED
      BY <3>5, <3>6, <3>7
  <2>3. QED
    BY <2>1, <2>2
<1>4. Recombined(rm1, t, P, W) = IF carried >= t THEN carried - t ELSE (carried - t - 1) % W
  BY DEF Recombined
<1> HIDE DEF assembled, carried
<1>5. t * (P - 1) = tP - t
  BY <1>2
<1>6. CASE carried >= t
  <2>1. Recombined(rm1, t, P, W) = carried - t
    BY <1>4, <1>6
  <2>2. carried - t = rm1 + t * (P - 1) + i * (W - 1) /\ carried - t \in Nat /\ carried - t < W
    BY <1>3, <1>5, <1>6
  <2>3. QED
    BY <2>1, <2>2 DEF Same
<1>7. CASE ~(carried >= t)
  <2>1. PICK y \in Nat : y = carried - t - 1 + W /\ y < W
    BY <1>1, <1>3, <1>7
  <2>2. PICK z \in Int : z = carried - t - 1
    BY <1>3
  <2>3. Decomposed(z, W, -1, y)
    BY <1>1, <1>3, <2>1, <2>2 DEF Decomposed
  <2>4. z % W = y
    BY <2>3, DivIs
  <2>5. Recombined(rm1, t, P, W) = y
    BY <1>4, <1>7, <2>2, <2>4
  <2>6. y = rm1 + t * (P - 1) + (i + 1) * (W - 1) /\ i + 1 \in Int
    <3>1. (i + 1) * (W - 1) = i * (W - 1) + W - 1
      OBVIOUS
    <3>2. QED
      BY <1>3, <1>5, <2>1, <3>1
  <2>7. QED
    BY <2>1, <2>5, <2>6 DEF Same
<1>8. QED
  BY <1>6, <1>7

(* The product of the contract, which the model forms in two halves. *)
LEMMA ModularProductIs ==
  ASSUME NEW x \in Nat, NEW y \in Nat, NEW m \in Nat \ {0}
  PROVE  ModularProduct(x, y, m) = (x * y) % m
<1>1. PICK yh \in Int, yl \in 0 .. 255 :
        yh = y \div 256 /\ yl = y % 256 /\ y = 256 * yh + yl
  BY DivMod
<1>2. PICK a \in Int, b \in Int : a = x * yh /\ b = x * yl
  OBVIOUS
<1>3. PICK p \in Int, r \in 0 .. m - 1 : p = a \div m /\ r = a % m /\ a = m * p + r
  BY DivMod
<1>4. ModularProduct(x, y, m) = (r * 256 + b) % m
  BY <1>1, <1>2, <1>3 DEF ModularProduct
<1>5. PICK mp \in Int, c \in Int, z \in Int : mp = m * p /\ c = 256 * p /\ z = r * 256 + b
  OBVIOUS
<1>6. x * y = m * c + z
  <2>1. x * (256 * yh + yl) = 256 * a + b
    BY <1>2
  <2>2. m * (256 * p) = 256 * mp
    BY <1>5
  <2>3. QED
    BY <1>1, <1>3, <1>5, <2>1, <2>2
<1>7. (m * c + z) % m = z % m
  BY DivMultiple
<1>8. QED
  BY <1>4, <1>5, <1>6, <1>7


-----------------------------------------------------------------------------
(* Folding.                                                                *)

(* The two parts of a span that is folded to n limbs. *)
LEMMA FoldParts ==
  ASSUME NEW mem, NEW size, Memory(mem, size), NEW s, In(s, size), NEW n \in Nat, s.n <= 2 * n
  PROVE  \E lo \in Nat, hi \in Nat :
           /\ lo = Value(mem, LowPart(s, n)) /\ hi = Value(mem, HighPart(s, n))
           /\ lo < Power(Base, n) /\ hi < Power(Base, n)
           /\ Value(mem, s) = lo + Power(Base, n) * hi
<1>1. s.n \in Nat /\ s.at \in Nat /\ s.area \in DOMAIN size /\ s.at + s.n <= size[s.area]
      /\ size[s.area] \in Nat /\ s = [area |-> s.area, at |-> s.at, n |-> s.n]
  BY DEF In
<1>2. Base \in Nat \ {0} /\ Power(Base, n) \in Nat \ {0}
  BY BaseType, BasePower
<1>3. CASE s.n > n
  <2>1. LowPart(s, n) = First(s, n) /\ HighPart(s, n) = Subspan(s, n)
    BY <1>1, <1>3 DEF LowPart, HighPart, SmallerOf
  <2>2. In(First(s, n), size) /\ In(Subspan(s, n), size)
        /\ First(s, n).n = n /\ Subspan(s, n).n = s.n - n
    BY <1>1, <1>3, PartsIn
  <2>3. PICK lo \in Nat, hi \in Nat :
          /\ lo = Value(mem, First(s, n)) /\ hi = Value(mem, Subspan(s, n))
          /\ lo < Power(Base, n) /\ hi < Power(Base, s.n - n)
    <3>1. /\ Value(mem, First(s, n)) \in Nat
          /\ Value(mem, First(s, n)) < Power(Base, First(s, n).n)
      BY <2>2, ValueType
    <3>2. /\ Value(mem, Subspan(s, n)) \in Nat
          /\ Value(mem, Subspan(s, n)) < Power(Base, Subspan(s, n).n)
      BY <2>2, ValueType
    <3>3. QED
      BY <2>2, <3>1, <3>2
  <2>4. s.n - n \in Nat /\ s.n - n <= n
    BY <1>1, <1>3
  <2>5. Power(Base, s.n - n) \in Nat /\ Power(Base, s.n - n) <= Power(Base, n)
    BY <1>2, <2>4, PowerGrows, BasePower
  <2>6. hi < Power(Base, n)
    BY <1>2, <2>3, <2>5
  <2>7. Value(mem, s) = lo + Power(Base, n) * hi
    BY <1>1, <1>3, <2>3, ValueSplit
  <2>8. QED
    BY <2>1, <2>3, <2>6, <2>7
<1>4. CASE ~(s.n > n)
  <2>1. LowPart(s, n) = s /\ HighPart(s, n) = Span(s.area, s.at, 0)
    <3>1. SmallerOf(s.n, n) = s.n
      BY <1>1, <1>4 DEF SmallerOf
    <3>2. First(s, s.n) = s
      BY <1>1 DEF First
    <3>3. QED
      BY <1>4, <3>1, <3>2 DEF LowPart, HighPart, Zero
  <2>2. In(HighPart(s, n), size) /\ HighPart(s, n).n = 0
    BY <1>1, <2>1 DEF In, Span
  <2>3. Value(mem, HighPart(s, n)) = 0
    BY <2>2, ValueEmpty
  <2>4. PICK lo \in Nat : lo = Value(mem, s) /\ lo < Power(Base, s.n)
    BY ValueType
  <2>5. Power(Base, s.n) \in Nat /\ Power(Base, s.n) <= Power(Base, n)
    BY <1>1, <1>2, <1>4, PowerGrows, BasePower
  <2>6. lo < Power(Base, n)
    BY <1>2, <2>4, <2>5
  <2>7. lo = lo + Power(Base, n) * 0 /\ 0 < Power(Base, n) /\ 0 \in Nat
    BY <1>2
  <2>8. QED
    BY <2>1, <2>3, <2>4, <2>6, <2>7
<1>5. QED
  BY <1>3, <1>4

(* fold_mod_bnm1 stores a residue of what it folds. *)
LEMMA FoldM1Facts ==
  ASSUME NEW mem, NEW size, Memory(mem, size), NEW dst, In(dst, size), NEW src, In(src, size),
         src.n <= 2 * dst.n
  PROVE  \E v \in Nat : /\ FoldM1(mem, dst, src) = Store(mem, dst, v)
                        /\ v < Power(Base, dst.n)
                        /\ Same(v, Value(mem, src), Modulus(dst.n))
<1>1. dst.n \in Nat
  BY DEF In
<1>2. PICK lo \in Nat, hi \in Nat :
        /\ lo = Value(mem, LowPart(src, dst.n)) /\ hi = Value(mem, HighPart(src, dst.n))
        /\ lo < Power(Base, dst.n) /\ hi < Power(Base, dst.n)
        /\ Value(mem, src) = lo + Power(Base, dst.n) * hi
  BY <1>1, FoldParts
<1>3. PICK v \in Nat : /\ v = AddedMod1(lo, hi, dst.n) /\ v < Power(Base, dst.n)
                       /\ Same(v, lo + hi, Modulus(dst.n))
  BY <1>1, <1>2, AddedMod1Facts
<1>4. PICK P \in Nat, m \in Int : P = Power(Base, dst.n) /\ m = P - 1 /\ m = Modulus(dst.n)
  BY <1>1, BasePower DEF Modulus
<1>5. lo + hi = (lo + P * hi) + (-hi) * m /\ -hi \in Int
  BY <1>4
<1>6. PICK x \in Int : x = lo + P * hi
  OBVIOUS
<1>7. Same(lo + hi, x, m)
  BY <1>5, <1>6 DEF Same
<1>8. Same(v, x, m)
  BY <1>3, <1>4, <1>7, SameTransitive
<1>9. FoldM1(mem, dst, src) = Store(mem, dst, v)
  BY <1>2, <1>3 DEF FoldM1
<1>10. QED
  BY <1>2, <1>3, <1>4, <1>6, <1>8, <1>9

(* fold_mod_bnp1 stores the residue at most B^h. *)
LEMMA FoldP1Facts ==
  ASSUME NEW mem, NEW size, Memory(mem, size), NEW dst, In(dst, size), NEW src, In(src, size),
         NEW h \in Nat, dst.n = h + 1, src.n <= 2 * h
  PROVE  \E v \in Nat : /\ FoldP1(mem, dst, src) = Store(mem, dst, v)
                        /\ v <= Power(Base, h)
                        /\ Same(v, Value(mem, src), Power(Base, h) + 1)
<1>1. PICK lo \in Nat, hi \in Nat :
        /\ lo = Value(mem, LowPart(src, h)) /\ hi = Value(mem, HighPart(src, h))
        /\ lo < Power(Base, h) /\ hi < Power(Base, h)
        /\ Value(mem, src) = lo + Power(Base, h) * hi
  BY FoldParts
<1>2. PICK P \in Nat : P = Power(Base, h)
  BY BasePower
<1>3. PICK x \in Int : x = lo + P * hi
  OBVIOUS
<1>4. dst.n - 1 = h
  OBVIOUS
<1>5. FoldP1(mem, dst, src) = Store(mem, dst, IF lo >= hi THEN lo - hi ELSE lo - hi + P + 1)
  BY <1>1, <1>2, <1>4 DEF FoldP1
<1>6. CASE lo >= hi
  <2>1. PICK v \in Nat : v = lo - hi
    BY <1>6
  <2>2. v = x + (-hi) * (P + 1) /\ -hi \in Int /\ v <= P
    BY <1>1, <1>2, <1>3, <2>1
  <2>3. FoldP1(mem, dst, src) = Store(mem, dst, v)
    BY <1>5, <1>6, <2>1
  <2>4. QED
    BY <1>1, <1>2, <1>3, <2>2, <2>3 DEF Same
<1>7. CASE ~(lo >= hi)
  <2>1. PICK v \in Nat : v = lo - hi + P + 1
    BY <1>1, <1>2
  <2>2. v = x + (1 - hi) * (P + 1) /\ 1 - hi \in Int /\ v <= P
    <3>1. (1 - hi) * (P + 1) = P + 1 - hi - P * hi
      OBVIOUS
    <3>2. QED
      BY <1>1, <1>2, <1>3, <1>7, <2>1, <3>1
  <2>3. FoldP1(mem, dst, src) = Store(mem, dst, v)
    BY <1>5, <1>7, <2>1
  <2>4. QED
    BY <1>1, <1>2, <1>3, <2>2, <2>3 DEF Same
<1>8. QED
  BY <1>6, <1>7

(* The top limb of a span of h + 1 limbs that shows at most B^h. *)
LEMMA TopLimbOf ==
  ASSUME NEW mem, NEW size, Memory(mem, size), NEW s, In(s, size), NEW h \in Nat, s.n = h + 1,
         Value(mem, s) <= Power(Base, h)
  PROVE  /\ Limb(mem, s, h) # 0 => Value(mem, s) = Power(Base, h)
         /\ Limb(mem, s, h) = 0 => Value(mem, First(s, h)) = Value(mem, s)
<1>1. In(First(s, h), size) /\ In(Subspan(s, h), size) /\ First(s, h).n = h
      /\ Subspan(s, h).n = 1 /\ Subspan(s, h).area = s.area /\ Subspan(s, h).at = s.at + h
  <2>1. h <= s.n /\ s.n - h = 1
    OBVIOUS
  <2>2. QED
    BY <2>1, PartsIn
<1>2. PICK lo \in Nat, P \in Nat : lo = Value(mem, First(s, h)) /\ P = Power(Base, h)
  BY <1>1, ValueType, BasePower
<1>3. PICK t \in Nat : t = Limb(mem, s, h) /\ Value(mem, Subspan(s, h)) = t
  <2> DEFINE top == Subspan(s, h)
  <2>1. s.at \in Nat /\ Limb(mem, top, 0) = Limb(mem, s, h)
    BY <1>1 DEF Limb, In
  <2>2. /\ IsArray(Under(mem, top), 1) /\ IsWritten(Under(mem, top), 1)
        /\ Under(mem, top)[0] = Limb(mem, top, 0)
        /\ Value(mem, top) = Magnitude(Under(mem, top), 1)
    BY <1>1, UnderFacts
  <2> HIDE DEF top
  <2>3. PICK low \in Nat : /\ low < Power(Base, 1 - 1) /\ Under(mem, top)[1 - 1] \in Nat
                           /\ Magnitude(Under(mem, top), 1)
                                = low + Under(mem, top)[1 - 1] * Power(Base, 1 - 1)
    BY <2>2, MagnitudeSplit
  <2>4. Power(Base, 1 - 1) = 1 /\ 1 - 1 = 0
    BY BaseType, PowerOne
  <2>5. Value(mem, top) = Limb(mem, s, h) /\ Limb(mem, s, h) \in Nat
    BY <2>1, <2>2, <2>3, <2>4
  <2>6. QED
    BY <2>5 DEF top
<1>4. Value(mem, s) = lo + P * t
  BY <1>2, <1>3, ValueSplit
<1>5. CASE t = 0
  BY <1>2, <1>3, <1>4, <1>5
<1>6. CASE t # 0
  <2>1. 1 * P <= t * P
    BY <1>6, MulPos
  <2>2. PICK y \in Nat : y = P * t /\ P <= y
    BY <2>1
  <2>3. Value(mem, s) = lo + y /\ lo + y <= P
    BY <1>2, <1>4, <2>2
  <2>4. Value(mem, s) = P
    BY <2>2, <2>3
  <2>5. QED
    BY <1>2, <1>3, <1>6, <2>4
<1>7. QED
  BY <1>5, <1>6

(* The negative of a residue modulo B^h + 1. *)
LEMMA NegatedFacts ==
  ASSUME NEW P \in Nat, NEW x \in Nat, NEW y \in Nat, y <= P, x = P
  PROVE  \E v \in Nat : /\ v = (IF y = 0 THEN 0 ELSE P + 1 - y) /\ v <= P
                        /\ Same(v, x * y, P + 1) /\ Same(v, y * x, P + 1)
<1>1. PICK z \in Int : z = x * y /\ z = y * x
  OBVIOUS
<1>2. CASE y = 0
  <2>1. 0 = z + 0 * (P + 1)
    BY <1>1, <1>2
  <2>2. QED
    BY <1>1, <1>2, <2>1 DEF Same
<1>3. CASE y # 0
  <2>1. PICK v \in Nat : v = P + 1 - y
    OBVIOUS
  <2>2. (1 - y) * (P + 1) = P + 1 - y - y * P
    OBVIOUS
  <2>3. v = z + (1 - y) * (P + 1) /\ 1 - y \in Int /\ v <= P
    BY <1>1, <1>3, <2>1, <2>2
  <2>4. QED
    BY <1>1, <1>3, <2>1, <2>3 DEF Same
<1>4. QED
  BY <1>2, <1>3

(* multiply_mod_bnp1 stores the product, and may use the temporary. *)
LEMMA MultiplyP1Facts ==
  ASSUME NEW mem, NEW size, Memory(mem, size), NEW h \in Nat \ {0},
         NEW r, In(r, size), r.n = h + 1, NEW tmp, In(tmp, size), tmp.n = 2 * h,
         NEW a, In(a, size), a.n = h + 1, Value(mem, a) <= Power(Base, h),
         NEW b, In(b, size), b.n = h + 1, Value(mem, b) <= Power(Base, h)
  PROVE  \E v \in Nat, u \in Nat :
           /\ MultiplyP1(mem, r, a, b, tmp) \in {Store(mem, r, v), Store(Store(mem, tmp, u), r, v)}
           /\ v <= Power(Base, h)
           /\ Same(v, Value(mem, a) * Value(mem, b), Power(Base, h) + 1)
<1>1. PICK P \in Nat, x \in Nat, y \in Nat :
        P = Power(Base, h) /\ x = Value(mem, a) /\ y = Value(mem, b)
  BY ValueType, BasePower
<1>2. r.n - 1 = h
  OBVIOUS
<1>3. CASE Limb(mem, a, h) # 0
  <2>1. x = P
    BY <1>1, <1>3, TopLimbOf
  <2>2. PICK v \in Nat : /\ v = (IF y = 0 THEN 0 ELSE P + 1 - y) /\ v <= P
                         /\ Same(v, x * y, P + 1)
    BY <1>1, <2>1, NegatedFacts
  <2>3. MultiplyP1(mem, r, a, b, tmp) = Store(mem, r, v)
    BY <1>1, <1>2, <1>3, <2>2 DEF MultiplyP1
  <2>4. QED
    BY <1>1, <2>2, <2>3
<1>4. CASE Limb(mem, a, h) = 0 /\ Limb(mem, b, h) # 0
  <2>1. y = P
    BY <1>1, <1>4, TopLimbOf
  <2>2. PICK v \in Nat : /\ v = (IF x = 0 THEN 0 ELSE P + 1 - x) /\ v <= P
                         /\ Same(v, x * y, P + 1)
    BY <1>1, <2>1, NegatedFacts
  <2>3. MultiplyP1(mem, r, a, b, tmp) = Store(mem, r, v)
    BY <1>1, <1>2, <1>4, <2>2 DEF MultiplyP1
  <2>4. QED
    BY <1>1, <2>2, <2>3
<1>5. CASE Limb(mem, a, h) = 0 /\ Limb(mem, b, h) = 0
  <2>1. Value(mem, First(a, h)) = x /\ Value(mem, First(b, h)) = y
    BY <1>1, <1>5, TopLimbOf
  <2>2. x < P /\ y < P
    <3>1. h \in Nat /\ h <= a.n /\ h <= b.n
      OBVIOUS
    <3>2. In(First(a, h), size) /\ First(a, h).n = h /\ In(First(b, h), size) /\ First(b, h).n = h
      BY <3>1, PartsIn
    <3>3. Value(mem, First(a, h)) < Power(Base, First(a, h).n)
      BY <3>2, ValueType
    <3>4. Value(mem, First(b, h)) < Power(Base, First(b, h).n)
      BY <3>2, ValueType
    <3>5. QED
      BY <1>1, <2>1, <3>2, <3>3, <3>4
  <2>3. PICK u \in Nat : u = x * y /\ u < Power(Base, tmp.n)
    <3>1. Power(Base, h + h) = P * P
      BY <1>1, BaseType, PowerSum
    <3>2. (x + 1) * (y + 1) <= P * (y + 1)
      BY <2>2, MulPos
    <3>3. P * (y + 1) <= P * P
      BY <2>2, MulPos
    <3>4. x * y < P * P /\ x * y \in Nat
      <4>1. (x + 1) * (y + 1) = x * y + x + y + 1
        OBVIOUS
      <4>2. QED
        BY <3>2, <3>3, <4>1
    <3>5. h + h = 2 * h
      OBVIOUS
    <3>6. QED
      BY <3>1, <3>4, <3>5
  <2>4. Memory(Store(mem, tmp, u), size)
    BY StoreLimbs
  <2>5. Value(Store(mem, tmp, u), tmp) = u
    BY <2>3, StoreFits
  <2>6. PICK v \in Nat : /\ FoldP1(Store(mem, tmp, u), r, tmp) = Store(Store(mem, tmp, u), r, v)
                         /\ v <= Power(Base, h) /\ Same(v, u, Power(Base, h) + 1)
    BY <2>4, <2>5, FoldP1Facts
  <2>7. MultiplyP1(mem, r, a, b, tmp) = FoldP1(Store(mem, tmp, u), r, tmp)
    BY <1>1, <1>2, <1>5, <2>1, <2>3 DEF MultiplyP1
  <2>8. QED
    BY <1>1, <2>3, <2>6, <2>7
<1>6. QED
  BY <1>3, <1>4, <1>5

-----------------------------------------------------------------------------
(* The calls of the product modulo B^w - 1.                                *)

WrapAreas == {"a", "b", "r", "scratch"}
WrapSpans == [area : WrapAreas, at : Nat, n : Nat]
WrapFrames == [pc : {"enter", "half2", "crt", "return"}, r : WrapSpans, a : WrapSpans,
               b : WrapSpans, product : Nat]

(* The arrays of a call: as many limbs of the result as size.r, and the scratch for them. *)
WrapSizes(size) ==
  /\ size \in [WrapAreas -> Nat]
  /\ size["scratch"] = 3 * size["r"] + 16

(* Where the blocks of a frame begin, whatever the depth of the recursion: every frame above it
   took twice the half it handed on. *)
Start(f, size) == 2 * size["r"] - 2 * f.r.n

(* An operand: of the caller, or in scratch below o. *)
Below(s, o) == s.area \in {"a", "b"} \/ (s.area = "scratch" /\ s.at + s.n <= o)

(* What a frame has to multiply. *)
Task(f, mem) == Value(mem, f.a) * Value(mem, f.b)

FrameFits(f, mem, size) ==
  /\ f.r = Span("r", 0, f.r.n) /\ f.r.n \in Nat \ {0} /\ f.r.n <= size["r"]
  /\ In(f.a, size) /\ f.a.n <= f.r.n /\ Below(f.a, Start(f, size))
  /\ In(f.b, size) /\ f.b.n <= f.r.n /\ Below(f.b, Start(f, size))
  /\ f.product = Task(f, mem) % Modulus(f.r.n)

(* f waits for the call g, which multiplies what f has to multiply. *)
Awaits(f, g, mem) ==
  /\ f.pc = "half2" /\ f.r.n = 2 * g.r.n
  /\ Same(g.product, Task(f, mem), Modulus(g.r.n))

(* The frame that runs. rp1 is the residue modulo B^h + 1. *)
HalfOf(f) == f.r.n \div 2
Rp1(f, size) == Span("scratch", Start(f, size) + 2 * (HalfOf(f) + 1), HalfOf(f) + 1)
TopFits(f, mem, size, offset) ==
  /\ f.pc \in {"enter", "return"} => offset = Start(f, size)
  /\ f.pc \in {"half2", "crt"} =>
       /\ f.r.n = 2 * HalfOf(f)
       /\ Same(Value(mem, First(f.r, HalfOf(f))), Task(f, mem), Modulus(HalfOf(f)))
  /\ f.pc = "half2" => offset = Start(f, size) + 2 * HalfOf(f)
  /\ f.pc = "crt" =>
       /\ offset = Start(f, size) + 3 * (HalfOf(f) + 1)
       /\ Value(mem, Rp1(f, size)) <= Power(Base, HalfOf(f))
       /\ Same(Value(mem, Rp1(f, size)), Task(f, mem), Power(Base, HalfOf(f)) + 1)
  /\ f.pc = "return" => Value(mem, f.r) % Modulus(f.r.n) = f.product

WrapStack(fr, mem, size) ==
  /\ fr \in Seq(WrapFrames) /\ fr # <<>> /\ fr[1].r.n = size["r"]
  /\ \A i \in 1 .. Len(fr) : FrameFits(fr[i], mem, size)
  /\ \A i \in 1 .. Len(fr) - 1 : Awaits(fr[i], fr[i + 1], mem)
  /\ \A i, j \in 1 .. Len(fr) : i <= j => fr[j].r.n <= fr[i].r.n

WrapRunsIn(x, size) ==
  /\ x = [frames |-> x.frames, mem |-> x.mem, offset |-> x.offset, override |-> x.override]
  /\ x.override \in Nat
  /\ WrapSizes(size) /\ Memory(x.mem, size) /\ WrapStack(x.frames, x.mem, size)
  /\ TopFits(x.frames[Len(x.frames)], x.mem, size, x.offset)

WrapHolds(x) == x = WrapIdle \/ \E size : WrapRunsIn(x, size)

(* Operands below o show the same. *)
Keeps(mem, new, size, o) == \A s : In(s, size) /\ Below(s, o) => Value(new, s) = Value(mem, s)

LEMMA StoreKeeps ==
  ASSUME NEW mem, NEW size, Memory(mem, size), NEW s, In(s, size), NEW v \in Int, NEW o \in Nat,
         s.area = "r" \/ (s.area = "scratch" /\ o <= s.at)
  PROVE  Keeps(mem, Store(mem, s, v), size, o)
<1> SUFFICES ASSUME NEW t, In(t, size), Below(t, o)
             PROVE  Value(Store(mem, s, v), t) = Value(mem, t)
  BY DEF Keeps
<1>1. t.at \in Nat /\ t.n \in Nat /\ s.at \in Nat /\ s.n \in Nat
  BY DEF In
<1>2. Apart(t, s)
  BY <1>1 DEF Apart, Below
<1>3. QED
  BY <1>2, StoreApart

LEMMA KeepsBoth ==
  ASSUME NEW mem, NEW new, NEW other, NEW size, NEW o,
         Keeps(mem, new, size, o), Keeps(new, other, size, o)
  PROVE  Keeps(mem, other, size, o)
  BY DEF Keeps

(* What a frame has to multiply is kept, wherever its blocks begin. *)
LEMMA TaskKept ==
  ASSUME NEW mem, NEW new, NEW size, NEW o \in Nat, Keeps(mem, new, size, o), WrapSizes(size),
         NEW f, FrameFits(f, mem, size), Start(f, size) <= o
  PROVE  Task(f, new) = Task(f, mem) /\ FrameFits(f, new, size)
<1>1. size["r"] \in Nat /\ f.r.n \in Nat /\ f.r.n <= size["r"]
  BY DEF WrapSizes, WrapAreas, FrameFits
<1>2. Start(f, size) \in Nat
  BY <1>1 DEF Start
<1>3. In(f.a, size) /\ Below(f.a, o) /\ In(f.b, size) /\ Below(f.b, o)
  <2>1. f.a.at \in Nat /\ f.a.n \in Nat /\ f.b.at \in Nat /\ f.b.n \in Nat
    BY DEF FrameFits, In
  <2>2. QED
    BY <1>2, <2>1 DEF FrameFits, Below
<1>4. Task(f, new) = Task(f, mem)
  BY <1>3 DEF Keeps, Task
<1>5. QED
  BY <1>4 DEF FrameFits

(* The running frame goes on: memory below it is kept, and it stays the same call. *)
SameTask(f, g) == f.r = g.r /\ f.a = g.a /\ f.b = g.b /\ f.product = g.product

LEMMA StackGoesOn ==
  ASSUME NEW fr, NEW mem, NEW new, NEW size, WrapSizes(size), WrapStack(fr, mem, size),
         NEW g \in WrapFrames, SameTask(g, fr[Len(fr)]),
         Keeps(mem, new, size, Start(fr[Len(fr)], size))
  PROVE  /\ WrapStack([fr EXCEPT ![Len(fr)] = g], new, size)
         /\ Len([fr EXCEPT ![Len(fr)] = g]) = Len(fr) /\ Len(fr) \in Nat \ {0}
         /\ [fr EXCEPT ![Len(fr)] = g][Len(fr)] = g
         /\ FrameFits(g, new, size) /\ Task(g, new) = Task(fr[Len(fr)], mem)
<1>1. PICK n \in Nat \ {0} : n = Len(fr) /\ fr \in [1 .. n -> WrapFrames]
  <2>1. fr \in Seq(WrapFrames) /\ fr # <<>>
    BY DEF WrapStack
  <2>2. QED
    BY <2>1
<1>2. PICK gr : gr = [fr EXCEPT ![Len(fr)] = g]
  OBVIOUS
<1>3. gr \in [1 .. n -> WrapFrames] /\ gr[n] = g /\ \A i \in 1 .. n - 1 : gr[i] = fr[i]
  <2>1. gr = [fr EXCEPT ![n] = g] /\ n \in 1 .. n
    <3>1. n \in 1 .. n /\ Len(fr) = n
      BY <1>1
    <3>2. gr = [fr EXCEPT ![n] = g]
      BY <1>2, <3>1, Zenon
    <3>3. QED
      BY <3>1, <3>2
  <2>2. gr = [i \in 1 .. n |-> IF i = n THEN g ELSE fr[i]]
    BY <1>1, <2>1
  <2>3. \A i \in 1 .. n : fr[i] \in WrapFrames
    BY <1>1
  <2>4. \A i \in 1 .. n - 1 : i \in 1 .. n /\ i # n
    OBVIOUS
  <2>5. QED
    BY <2>1, <2>2, <2>3, <2>4
<1>4. gr \in Seq(WrapFrames) /\ Len(gr) = n /\ gr # <<>>
  BY <1>1, <1>3
<1>5. /\ \A i \in 1 .. n : FrameFits(fr[i], mem, size)
      /\ \A i \in 1 .. n - 1 : Awaits(fr[i], fr[i + 1], mem)
      /\ \A i, j \in 1 .. n : i <= j => fr[j].r.n <= fr[i].r.n
      /\ fr[1].r.n = size["r"]
  BY <1>1 DEF WrapStack
<1>6. PICK o \in Nat : o = Start(fr[n], size) /\ Keeps(mem, new, size, o)
  <2>1. fr[n].r.n \in Nat /\ fr[n].r.n <= size["r"] /\ size["r"] \in Nat
    BY <1>1, <1>5 DEF FrameFits, WrapSizes, WrapAreas
  <2>2. Start(fr[n], size) \in Nat
    BY <2>1 DEF Start
  <2>3. QED
    BY <1>1, <2>2
<1>7. \A i \in 1 .. n : Task(fr[i], new) = Task(fr[i], mem) /\ FrameFits(fr[i], new, size)
  <2> TAKE i \in 1 .. n
  <2>1. Start(fr[i], size) <= o
    <3>1. i <= n /\ n \in 1 .. n
      OBVIOUS
    <3>2. fr[n].r.n <= fr[i].r.n
      BY <1>5, <3>1
    <3>3. fr[n].r.n \in Nat /\ fr[i].r.n \in Nat /\ size["r"] \in Nat
      BY <1>5, <3>1 DEF FrameFits, WrapSizes, WrapAreas
    <3>4. PICK x \in Nat, y \in Nat, z \in Nat :
            x = fr[n].r.n /\ y = fr[i].r.n /\ z = size["r"]
      BY <3>3
    <3>5. o = 2 * z - 2 * x /\ Start(fr[i], size) = 2 * z - 2 * y
      BY <1>6, <3>4 DEF Start
    <3>6. x <= y
      BY <3>2, <3>4
    <3>7. 2 * z - 2 * y <= 2 * z - 2 * x
      BY <3>6
    <3>8. QED
      BY <3>5, <3>7
  <2>2. FrameFits(fr[i], mem, size)
    BY <1>5
  <2>3. QED
    BY <1>6, <2>1, <2>2, TaskKept
<1>8. SameTask(g, fr[n])
  BY <1>1
<1>9. Task(g, new) = Task(fr[n], new) /\ FrameFits(g, new, size)
  <2>1. FrameFits(fr[n], new, size)
    BY <1>7
  <2>2. QED
    BY <1>8, <2>1 DEF SameTask, Task, FrameFits, Start
<1>10. \A i \in 1 .. n : gr[i].r = fr[i].r /\ FrameFits(gr[i], new, size)
  <2> TAKE i \in 1 .. n
  <2>1. CASE i = n
    BY <1>3, <1>8, <1>9, <2>1 DEF SameTask
  <2>2. CASE i # n
    BY <1>3, <1>7, <2>2
  <2>3. QED
    BY <2>1, <2>2
<1>11. \A i \in 1 .. n - 1 : Awaits(gr[i], gr[i + 1], new)
  <2> TAKE i \in 1 .. n - 1
  <2>1. gr[i] = fr[i] /\ Task(fr[i], new) = Task(fr[i], mem) /\ i + 1 \in 1 .. n
    BY <1>3, <1>7
  <2>2. gr[i + 1].r = fr[i + 1].r /\ gr[i + 1].product = fr[i + 1].product
    <3>1. CASE i + 1 = n
      BY <1>3, <1>8, <3>1 DEF SameTask
    <3>2. CASE i + 1 # n
      BY <1>3, <2>1, <3>2
    <3>3. QED
      BY <3>1, <3>2
  <2>3. Awaits(fr[i], fr[i + 1], mem)
    BY <1>5
  <2>4. QED
    BY <2>1, <2>2, <2>3 DEF Awaits
<1>12. gr[1].r.n = size["r"] /\ \A i, j \in 1 .. n : i <= j => gr[j].r.n <= gr[i].r.n
  <2>1. 1 \in 1 .. n
    OBVIOUS
  <2>2. QED
    BY <1>5, <1>10, <2>1
<1>13. WrapStack(gr, new, size)
  BY <1>4, <1>10, <1>11, <1>12 DEF WrapStack
<1>14. Task(g, new) = Task(fr[n], mem)
  BY <1>7, <1>9
<1>15. QED
  BY <1>1, <1>2, <1>3, <1>4, <1>9, <1>13, <1>14

(* The running frame calls another. *)
LEMMA StackGrows ==
  ASSUME NEW fr, NEW mem, NEW size, WrapStack(fr, mem, size),
         NEW g \in WrapFrames, FrameFits(g, mem, size), Awaits(fr[Len(fr)], g, mem)
  PROVE  WrapStack(Append(fr, g), mem, size) /\ Append(fr, g)[Len(Append(fr, g))] = g
<1>1. PICK n \in Nat \ {0} : n = Len(fr) /\ fr \in [1 .. n -> WrapFrames]
  <2>1. fr \in Seq(WrapFrames) /\ fr # <<>>
    BY DEF WrapStack
  <2>2. QED
    BY <2>1
<1>2. PICK gr : gr = Append(fr, g)
  OBVIOUS
<1>3. /\ gr \in Seq(WrapFrames) /\ gr # <<>> /\ Len(gr) = n + 1 /\ gr[n + 1] = g
      /\ \A i \in 1 .. n : gr[i] = fr[i]
  <2>1. fr \in Seq(WrapFrames)
    BY DEF WrapStack
  <2>2. QED
    BY <1>1, <1>2, <2>1
<1>4. /\ \A i \in 1 .. n : FrameFits(fr[i], mem, size)
      /\ \A i \in 1 .. n - 1 : Awaits(fr[i], fr[i + 1], mem)
      /\ \A i, j \in 1 .. n : i <= j => fr[j].r.n <= fr[i].r.n
      /\ fr[1].r.n = size["r"]
  BY <1>1 DEF WrapStack
<1>5. \A i \in 1 .. n + 1 : i = n + 1 \/ i \in 1 .. n
  OBVIOUS
<1>6. \A i \in 1 .. n + 1 : FrameFits(gr[i], mem, size)
  BY <1>3, <1>4, <1>5
<1>7. \A i \in 1 .. n + 1 - 1 : Awaits(gr[i], gr[i + 1], mem)
  <2> TAKE i \in 1 .. n + 1 - 1
  <2>1. CASE i = n
    <3>1. gr[i] = fr[n] /\ gr[i + 1] = g /\ Awaits(fr[n], g, mem)
      BY <1>1, <1>3, <2>1
    <3>2. QED
      BY <3>1
  <2>2. CASE i # n
    <3>1. i \in 1 .. n - 1 /\ i \in 1 .. n /\ i + 1 \in 1 .. n
      BY <2>2
    <3>2. QED
      BY <1>3, <1>4, <3>1
  <2>3. QED
    BY <2>1, <2>2
<1>8. \A i, j \in 1 .. n + 1 : i <= j => gr[j].r.n <= gr[i].r.n
  <2>1. \A i \in 1 .. n : g.r.n <= fr[i].r.n
    <3> TAKE i \in 1 .. n
    <3>1. fr[n].r.n = 2 * g.r.n /\ fr[n].r.n <= fr[i].r.n
      BY <1>1, <1>4 DEF Awaits
    <3>2. g.r.n \in Nat /\ fr[i].r.n \in Nat
      BY <1>4 DEF FrameFits
    <3>3. QED
      BY <3>1, <3>2
  <2>2. g.r.n \in Nat
    BY DEF FrameFits
  <2> TAKE i, j \in 1 .. n + 1
  <2> HAVE i <= j
  <2>3. CASE i = n + 1
    BY <1>3, <2>2, <2>3
  <2>4. CASE i \in 1 .. n /\ j = n + 1
    BY <1>3, <2>1, <2>4
  <2>5. CASE i \in 1 .. n /\ j \in 1 .. n
    BY <1>3, <1>4, <2>5
  <2>6. QED
    BY <1>5, <2>3, <2>4, <2>5
<1>9. gr[1].r.n = size["r"]
  <2>1. 1 \in 1 .. n
    OBVIOUS
  <2>2. QED
    BY <1>3, <1>4, <2>1
<1>10. WrapStack(gr, mem, size)
  BY <1>3, <1>6, <1>7, <1>8, <1>9 DEF WrapStack
<1>11. QED
  BY <1>2, <1>3, <1>10

(* A frame that is done leaves the one that awaits it. *)
LEMMA StackShrinks ==
  ASSUME NEW fr, NEW mem, NEW size, WrapStack(fr, mem, size), Len(fr) # 1
  PROVE  /\ Len(fr) \in Nat /\ Len(fr) >= 2
         /\ WrapStack(SubSeq(fr, 1, Len(fr) - 1), mem, size)
         /\ Len(SubSeq(fr, 1, Len(fr) - 1)) = Len(fr) - 1
         /\ SubSeq(fr, 1, Len(fr) - 1)[Len(fr) - 1] = fr[Len(fr) - 1]
         /\ Awaits(fr[Len(fr) - 1], fr[Len(fr)], mem)
<1>1. PICK n \in Nat \ {0} : n = Len(fr) /\ fr \in [1 .. n -> WrapFrames]
  <2>1. fr \in Seq(WrapFrames) /\ fr # <<>>
    BY DEF WrapStack
  <2>2. QED
    BY <2>1
<1>2. PICK m \in Nat \ {0} : n = m + 1
  <2>1. n - 1 \in Nat \ {0} /\ n = (n - 1) + 1
    BY <1>1
  <2>2. QED
    BY <2>1
<1>3. PICK gr : gr = SubSeq(fr, 1, Len(fr) - 1)
  OBVIOUS
<1>4. gr \in Seq(WrapFrames) /\ gr # <<>> /\ Len(gr) = m /\ \A i \in 1 .. m : gr[i] = fr[i]
  <2>1. fr \in Seq(WrapFrames)
    BY DEF WrapStack
  <2>2. Len(fr) - 1 = m
    BY <1>1, <1>2
  <2>3. gr = [i \in 1 .. m |-> fr[i]]
    BY <1>3, <2>2
  <2>4. \A i \in 1 .. m : fr[i] \in WrapFrames
    BY <1>1, <1>2
  <2>5. QED
    BY <2>3, <2>4
<1>5. /\ \A i \in 1 .. n : FrameFits(fr[i], mem, size)
      /\ \A i \in 1 .. n - 1 : Awaits(fr[i], fr[i + 1], mem)
      /\ \A i, j \in 1 .. n : i <= j => fr[j].r.n <= fr[i].r.n
      /\ fr[1].r.n = size["r"]
  BY <1>1 DEF WrapStack
<1>6. \A i \in 1 .. m : i \in 1 .. n
  BY <1>2
<1>7. \A i \in 1 .. m - 1 : i \in 1 .. m /\ i + 1 \in 1 .. m /\ i \in 1 .. n - 1
  BY <1>2
<1>8. 1 \in 1 .. m /\ m \in 1 .. n - 1 /\ n - 1 = m
  BY <1>2
<1>9. WrapStack(gr, mem, size)
  BY <1>4, <1>5, <1>6, <1>7, <1>8 DEF WrapStack
<1>10. Awaits(fr[m], fr[m + 1], mem) /\ gr[m] = fr[m]
  BY <1>4, <1>5, <1>8
<1>11. Len(fr) = m + 1 /\ Len(fr) - 1 = m
  BY <1>1, <1>2
<1>12. QED
  BY <1>3, <1>4, <1>9, <1>10, <1>11

LEMMA StartFacts ==
  ASSUME NEW f, NEW size, size["r"] \in Nat, f.r.n \in Nat \ {0}, f.r.n <= size["r"]
  PROVE  Start(f, size) \in Nat /\ Start(f, size) + 2 * f.r.n = 2 * size["r"]
<1>1. PICK w \in Nat, c \in Nat : w = f.r.n /\ c = size["r"] /\ w <= c
  OBVIOUS
<1>2. Start(f, size) = 2 * c - 2 * w
  BY <1>1 DEF Start
<1>3. 2 * c - 2 * w \in Nat /\ (2 * c - 2 * w) + 2 * w = 2 * c
  BY <1>1
<1>4. QED
  BY <1>1, <1>2, <1>3

(* What the running frame is known to be. *)
LEMMA RunningFacts ==
  ASSUME NEW x, NEW size, WrapRunsIn(x, size), NEW f, f = x.frames[Len(x.frames)]
  PROVE  /\ WrapSizes(size) /\ Memory(x.mem, size) /\ WrapStack(x.frames, x.mem, size)
         /\ x.frames # <<>> /\ Len(x.frames) \in Nat \ {0}
         /\ f \in WrapFrames /\ FrameFits(f, x.mem, size) /\ TopFits(f, x.mem, size, x.offset)
         /\ size["r"] \in Nat /\ f.r.n \in Nat \ {0} /\ f.r.n <= size["r"]
         /\ Start(f, size) \in Nat /\ Start(f, size) + 2 * f.r.n = 2 * size["r"]
<1>1. WrapSizes(size) /\ Memory(x.mem, size) /\ WrapStack(x.frames, x.mem, size)
  BY DEF WrapRunsIn
<1>2. PICK n \in Nat \ {0} : n = Len(x.frames) /\ x.frames \in [1 .. n -> WrapFrames]
  <2>1. x.frames \in Seq(WrapFrames) /\ x.frames # <<>>
    BY <1>1 DEF WrapStack
  <2>2. QED
    BY <2>1
<1>3. n \in 1 .. n /\ f = x.frames[n]
  BY <1>2
<1>4. f \in WrapFrames
  BY <1>2, <1>3
<1>5. FrameFits(f, x.mem, size)
  BY <1>1, <1>2, <1>3 DEF WrapStack
<1>6. TopFits(f, x.mem, size, x.offset)
  BY DEF WrapRunsIn
<1>7. size["r"] \in Nat /\ f.r.n \in Nat \ {0} /\ f.r.n <= size["r"]
  BY <1>1, <1>5 DEF WrapSizes, WrapAreas, FrameFits
<1>8. Start(f, size) \in Nat /\ Start(f, size) + 2 * f.r.n = 2 * size["r"]
  BY <1>7, StartFacts
<1>9. x.frames # <<>> /\ Len(x.frames) \in Nat \ {0}
  BY <1>1, <1>2 DEF WrapStack
<1>10. QED
  BY <1>1, <1>4, <1>5, <1>6, <1>7, <1>8, <1>9

(* Spans of the scratch, and of the result. *)
LEMMA ScratchIn ==
  ASSUME NEW size, WrapSizes(size), NEW o \in Nat, NEW n \in Nat, o + n <= 3 * size["r"] + 16
  PROVE  /\ In(Span("scratch", o, n), size)
         /\ Span("scratch", o, n) \in WrapSpans
         /\ Span("scratch", o, n).area = "scratch"
         /\ Span("scratch", o, n).at = o /\ Span("scratch", o, n).n = n
<1>1. size["scratch"] = 3 * size["r"] + 16 /\ size["scratch"] \in Nat /\ DOMAIN size = WrapAreas
  BY DEF WrapSizes, WrapAreas
<1>2. QED
  BY <1>1 DEF In, Span, WrapSpans, WrapAreas

LEMMA ResultIn ==
  ASSUME NEW size, WrapSizes(size), NEW n \in Nat, n <= size["r"]
  PROVE  /\ In(Span("r", 0, n), size) /\ Span("r", 0, n) \in WrapSpans
         /\ Span("r", 0, n).area = "r" /\ Span("r", 0, n).at = 0 /\ Span("r", 0, n).n = n
<1>1. size["r"] \in Nat /\ DOMAIN size = WrapAreas
  BY DEF WrapSizes, WrapAreas
<1>2. QED
  BY <1>1 DEF In, Span, WrapSpans, WrapAreas

(* The result of a frame, and its low half, are spans of the result. *)
LEMMA FrameResult ==
  ASSUME NEW f, NEW mem, NEW size, WrapSizes(size), FrameFits(f, mem, size),
         NEW h \in Nat, h <= f.r.n
  PROVE  /\ In(f.r, size) /\ f.r.area = "r" /\ f.r.at = 0
         /\ First(f.r, h) = Span("r", 0, h) /\ In(First(f.r, h), size)
         /\ First(f.r, h) \in WrapSpans
         /\ First(f.r, h).area = "r" /\ First(f.r, h).at = 0 /\ First(f.r, h).n = h
<1>1. PICK n \in Nat : f.r = Span("r", 0, n) /\ n = f.r.n /\ n <= size["r"] /\ h <= n
  BY DEF FrameFits
<1>2. h <= size["r"]
  BY <1>1 DEF WrapSizes, WrapAreas
<1>3. First(f.r, h) = Span("r", 0, h)
  BY <1>1 DEF First, Span
<1>4. In(f.r, size) /\ f.r.area = "r" /\ f.r.at = 0
  BY <1>1, ResultIn
<1>5. QED
  BY <1>2, <1>3, <1>4, ResultIn

(* The modulus of a call is a positive number. *)
LEMMA ModulusType ==
  ASSUME NEW n \in Nat \ {0}
  PROVE  /\ Modulus(n) \in Nat \ {0} /\ Modulus(n) = Power(Base, n) - 1
         /\ Power(Base, n) \in Nat /\ Power(Base, n) >= 2
<1>1. PICK e \in Nat \ {0} : Power(Base, n) = 2 * e
  BY PowerEven
<1>2. QED
  BY <1>1 DEF Modulus

(* A frame at another point of its call. *)
LEMMA FrameAt ==
  ASSUME NEW f \in WrapFrames, NEW pc \in {"enter", "half2", "crt", "return"}
  PROVE  /\ [f EXCEPT !.pc = pc] \in WrapFrames /\ [f EXCEPT !.pc = pc].pc = pc
         /\ SameTask([f EXCEPT !.pc = pc], f)
  BY DEF WrapFrames, SameTask

(* The running frame goes on to g in memory new, its blocks ending at o. *)
LEMMA RunGoesOn ==
  ASSUME NEW x, NEW size, WrapRunsIn(x, size), NEW f, f = x.frames[Len(x.frames)],
         NEW g \in WrapFrames, SameTask(g, f),
         NEW new, Memory(new, size), Keeps(x.mem, new, size, Start(f, size)),
         NEW o, TopFits(g, new, size, o), NEW y,
         y = [frames |-> [x.frames EXCEPT ![Len(x.frames)] = g], mem |-> new, offset |-> o,
              override |-> x.override]
  PROVE  WrapRunsIn(y, size)
<1>1. WrapSizes(size) /\ WrapStack(x.frames, x.mem, size) /\ x.override \in Nat
  BY DEF WrapRunsIn
<1>2. PICK gr : gr = [x.frames EXCEPT ![Len(x.frames)] = g]
  OBVIOUS
<1>3. WrapStack(gr, new, size) /\ gr[Len(gr)] = g
  <2>1. PICK fr : fr = x.frames
    OBVIOUS
  <2>2. /\ WrapStack(fr, x.mem, size) /\ SameTask(g, fr[Len(fr)])
        /\ Keeps(x.mem, new, size, Start(fr[Len(fr)], size))
        /\ gr = [fr EXCEPT ![Len(fr)] = g]
    BY <1>1, <1>2, <2>1
  <2>3. /\ WrapStack([fr EXCEPT ![Len(fr)] = g], new, size)
        /\ Len([fr EXCEPT ![Len(fr)] = g]) = Len(fr)
        /\ [fr EXCEPT ![Len(fr)] = g][Len(fr)] = g
    <3>1. WrapSizes(size)
      BY <1>1
    <3>2. PICK mem : mem = x.mem
      OBVIOUS
    <3>3. WrapStack(fr, mem, size) /\ Keeps(mem, new, size, Start(fr[Len(fr)], size))
      BY <2>2, <3>2
    <3>4. SameTask(g, fr[Len(fr)])
      BY <2>2
    <3> HIDE <1>1, <2>1, <2>2, <3>2
    <3>5. QED
      BY <3>1, <3>3, <3>4, StackGoesOn
  <2>4. gr = [fr EXCEPT ![Len(fr)] = g]
    BY <2>2
  <2>5. QED
    BY <2>3, <2>4, Zenon
<1>4. /\ y = [frames |-> y.frames, mem |-> y.mem, offset |-> y.offset, override |-> y.override]
      /\ y.frames = gr /\ y.mem = new /\ y.offset = o /\ y.override = x.override
  BY <1>2
<1>5. QED
  BY <1>1, <1>3, <1>4 DEF WrapRunsIn

(* The running frame returns with what it has to return. *)
LEMMA RunReturns ==
  ASSUME NEW x, NEW size, WrapRunsIn(x, size), NEW f, f = x.frames[Len(x.frames)],
         NEW new, Memory(new, size), Keeps(x.mem, new, size, Start(f, size)),
         Value(new, f.r) % Modulus(f.r.n) = f.product, NEW y,
         y = [frames |-> [x.frames EXCEPT ![Len(x.frames)] = [f EXCEPT !.pc = "return"]],
              mem |-> new, offset |-> Start(f, size), override |-> x.override]
  PROVE  WrapRunsIn(y, size)
<1>1. f \in WrapFrames
  BY RunningFacts
<1>2. PICK g \in WrapFrames :
        g = [f EXCEPT !.pc = "return"] /\ g.pc = "return" /\ SameTask(g, f)
  BY <1>1, FrameAt
<1>3. g.r = f.r /\ g.product = f.product /\ Start(g, size) = Start(f, size)
  BY <1>2 DEF SameTask, Start
<1>4. TopFits(g, new, size, Start(f, size))
  BY <1>2, <1>3 DEF TopFits
<1>5. QED
  BY <1>2, <1>4, RunGoesOn

(* Fields of a state that are assigned together. *)
LEMMA RecordGoesOn ==
  ASSUME NEW x, x = [frames |-> x.frames, mem |-> x.mem, offset |-> x.offset,
                     override |-> x.override],
         NEW fr, NEW mem, NEW o
  PROVE  /\ [x EXCEPT !.mem = mem, !.frames = fr]
              = [frames |-> fr, mem |-> mem, offset |-> x.offset, override |-> x.override]
         /\ [x EXCEPT !.mem = mem, !.offset = o, !.frames = fr]
              = [frames |-> fr, mem |-> mem, offset |-> o, override |-> x.override]
         /\ [x EXCEPT !.frames = fr]
              = [frames |-> fr, mem |-> x.mem, offset |-> x.offset, override |-> x.override]
<1>1. PICK a, b, c, d : x = [frames |-> a, mem |-> b, offset |-> c, override |-> d]
  OBVIOUS
<1>2. [x EXCEPT !.mem = mem] = [frames |-> a, mem |-> mem, offset |-> c, override |-> d]
  BY <1>1
<1>3. [x EXCEPT !.frames = fr] = [frames |-> fr, mem |-> b, offset |-> c, override |-> d]
  BY <1>1
<1>4. [x EXCEPT !.mem = mem, !.frames = fr]
        = [frames |-> fr, mem |-> mem, offset |-> c, override |-> d]
  <2>1. [x EXCEPT !.mem = mem, !.frames = fr]
          = [[frames |-> a, mem |-> mem, offset |-> c, override |-> d] EXCEPT !.frames = fr]
    BY <1>2
  <2>2. QED
    BY <2>1
<1>5. [x EXCEPT !.mem = mem, !.offset = o, !.frames = fr]
        = [frames |-> fr, mem |-> mem, offset |-> o, override |-> d]
  <2>1. [x EXCEPT !.mem = mem, !.offset = o]
          = [frames |-> a, mem |-> mem, offset |-> o, override |-> d]
    <3>1. [x EXCEPT !.mem = mem, !.offset = o]
            = [[frames |-> a, mem |-> mem, offset |-> c, override |-> d] EXCEPT !.offset = o]
      BY <1>2
    <3>2. QED
      BY <3>1
  <2>2. [x EXCEPT !.mem = mem, !.offset = o, !.frames = fr]
          = [[frames |-> a, mem |-> mem, offset |-> o, override |-> d] EXCEPT !.frames = fr]
    BY <2>1
  <2>3. QED
    BY <2>2
<1>6. x.frames = a /\ x.mem = b /\ x.offset = c /\ x.override = d
  BY <1>1
<1>7. QED
  BY <1>3, <1>4, <1>5, <1>6

(* The operands of a frame, and their product. *)
LEMMA TaskType ==
  ASSUME NEW f, NEW mem, NEW size, WrapSizes(size), Memory(mem, size), FrameFits(f, mem, size)
  PROVE  /\ f.a.n \in Nat /\ f.b.n \in Nat /\ Value(mem, f.a) \in Nat /\ Value(mem, f.b) \in Nat
         /\ Task(f, mem) \in Nat /\ Task(f, mem) = Value(mem, f.a) * Value(mem, f.b)
         /\ Task(f, mem) < Power(Base, f.a.n + f.b.n)
         /\ f.product \in Nat /\ f.product < Modulus(f.r.n)
         /\ f.product = Task(f, mem) % Modulus(f.r.n)
<1>1. In(f.a, size) /\ In(f.b, size)
  BY DEF FrameFits
<1>2. PICK na \in Nat, nb \in Nat : na = f.a.n /\ nb = f.b.n
  BY <1>1 DEF In
<1>3. PICK a \in Nat, pa \in Nat \ {0} : a = Value(mem, f.a) /\ pa = Power(Base, na) /\ a < pa
  BY <1>1, <1>2, ValueType
<1>4. PICK b \in Nat, pb \in Nat \ {0} : b = Value(mem, f.b) /\ pb = Power(Base, nb) /\ b < pb
  BY <1>1, <1>2, ValueType
<1>5. PICK v \in Nat : v = a * b /\ v < pa * pb
  <2>1. a * b <= a * pb
    BY <1>4, MulPos
  <2>2. (a + 1) * pb <= pa * pb
    BY <1>3, <1>4, MulPos
  <2>3. (a + 1) * pb = a * pb + pb
    OBVIOUS
  <2>4. a * b \in Nat
    OBVIOUS
  <2>5. QED
    BY <1>4, <2>1, <2>2, <2>3, <2>4
<1>6. Power(Base, na + nb) = pa * pb
  <2>1. Power(Base, na + nb) = Power(Base, na) * Power(Base, nb)
    BY BaseType, PowerSum
  <2>2. QED
    BY <1>3, <1>4, <2>1
<1>7. Task(f, mem) = v
  BY <1>3, <1>4, <1>5 DEF Task
<1>8. f.r.n \in Nat \ {0} /\ f.product = Task(f, mem) % Modulus(f.r.n)
  BY DEF FrameFits
<1>9. PICK m \in Nat \ {0} : m = Modulus(f.r.n)
  BY <1>8, ModulusType
<1>10. v % m \in 0 .. m - 1
  BY DivMod
<1>11. QED
  BY <1>2, <1>3, <1>4, <1>5, <1>6, <1>7, <1>8, <1>9, <1>10

LEMMA RunPlain ==
  ASSUME NEW size, WrapRunsIn(wrap, size), WrapPlain
  PROVE  WrapRunsIn(wrap', size)
<1>1. PICK f : f = WrapFrame /\ f = wrap.frames[Len(wrap.frames)]
  BY DEF WrapFrame
<1>2. /\ WrapSizes(size) /\ Memory(wrap.mem, size) /\ f \in WrapFrames
      /\ FrameFits(f, wrap.mem, size) /\ TopFits(f, wrap.mem, size, wrap.offset)
      /\ size["r"] \in Nat /\ f.r.n \in Nat \ {0} /\ f.r.n <= size["r"]
      /\ Start(f, size) \in Nat /\ Start(f, size) + 2 * f.r.n = 2 * size["r"]
  BY <1>1, RunningFacts
<1>3. PICK at \in Nat : at = Start(f, size) /\ wrap.offset = at
  BY <1>1, <1>2 DEF WrapPlain, WrapEntered, TopFits
<1>4. PICK v \in Nat : /\ v = Value(wrap.mem, f.a) * Value(wrap.mem, f.b) /\ v = Task(f, wrap.mem)
                       /\ v < Power(Base, f.a.n + f.b.n) /\ f.product = v % Modulus(f.r.n)
  BY <1>2, TaskType
<1>5. PICK n \in Nat : n = f.a.n + f.b.n /\ n <= 2 * f.r.n
  <2>1. f.a.n \in Nat /\ f.b.n \in Nat
    BY <1>2, TaskType
  <2>2. f.a.n <= f.r.n /\ f.b.n <= f.r.n
    BY <1>2 DEF FrameFits
  <2>3. QED
    BY <1>2, <2>1, <2>2
<1>6. PICK p : /\ p = Block(0, n) /\ In(p, size) /\ p.area = "scratch" /\ p.at = at /\ p.n = n
  <2>1. Block(0, n) = Span("scratch", at, n)
    BY <1>3 DEF Block
  <2>2. at + n <= 3 * size["r"] + 16
    BY <1>2, <1>3, <1>5
  <2>3. QED
    BY <1>2, <2>1, <2>2, ScratchIn
<1>7. PICK mem : mem = Store(wrap.mem, p, v)
  OBVIOUS
<1>8. Memory(mem, size)
  BY <1>2, <1>6, <1>7, StoreLimbs
<1>9. Keeps(wrap.mem, mem, size, at)
  BY <1>2, <1>6, <1>7, StoreKeeps
<1>10. Value(mem, p) = v
  BY <1>2, <1>4, <1>5, <1>6, <1>7, StoreFits
<1>11. In(f.r, size) /\ f.r.area = "r"
  BY <1>2, FrameResult
<1>12. PICK u \in Nat : /\ FoldM1(mem, f.r, p) = Store(mem, f.r, u)
                        /\ u < Power(Base, f.r.n) /\ Same(u, v, Modulus(f.r.n))
  <2>1. p.n <= 2 * f.r.n
    BY <1>5, <1>6
  <2>2. QED
    BY <1>6, <1>8, <1>10, <1>11, <2>1, FoldM1Facts
<1>13. PICK new : new = Store(mem, f.r, u)
  OBVIOUS
<1>14. Memory(new, size)
  BY <1>8, <1>11, <1>13, StoreLimbs
<1>15. Keeps(wrap.mem, new, size, at)
  <2>1. Keeps(mem, new, size, at)
    BY <1>8, <1>11, <1>13, StoreKeeps
  <2>2. QED
    BY <1>9, <2>1, KeepsBoth
<1>16. Value(new, f.r) = u
  BY <1>8, <1>11, <1>12, <1>13, StoreFits
<1>17. Value(new, f.r) % Modulus(f.r.n) = f.product
  <2>1. Modulus(f.r.n) \in Nat \ {0}
    BY <1>2, ModulusType
  <2>2. u % Modulus(f.r.n) = v % Modulus(f.r.n)
    BY <1>12, <2>1, SameIsMod
  <2>3. QED
    BY <1>4, <1>16, <2>2
<1>18. wrap' = [frames |-> [wrap.frames EXCEPT ![Len(wrap.frames)] = [f EXCEPT !.pc = "return"]],
                mem |-> new, offset |-> at, override |-> wrap.override]
  <2>1. wrap' = [wrap EXCEPT !.mem = new,
                   !.frames = [wrap.frames EXCEPT ![Len(wrap.frames)] = [f EXCEPT !.pc = "return"]]]
    <3>1. wrap' = [wrap EXCEPT !.mem = FoldM1(mem, f.r, p), !.frames = WrapReturned]
      BY <1>1, <1>4, <1>5, <1>6, <1>7 DEF WrapPlain
    <3>2. FoldM1(mem, f.r, p) = new
      BY <1>12, <1>13
    <3>3. QED
      BY <1>1, <3>1, <3>2 DEF WrapReturned, WrapBecomes
  <2>2. wrap = [frames |-> wrap.frames, mem |-> wrap.mem, offset |-> wrap.offset,
                override |-> wrap.override]
    BY DEF WrapRunsIn
  <2>3. QED
    BY <1>3, <2>1, <2>2, RecordGoesOn
<1>19. QED
  BY <1>1, <1>3, <1>14, <1>15, <1>17, <1>18, RunReturns

LEMMA RunCyclic ==
  ASSUME NEW size, WrapRunsIn(wrap, size), WrapCyclic
  PROVE  WrapRunsIn(wrap', size)
<1>1. PICK f : f = WrapFrame /\ f = wrap.frames[Len(wrap.frames)]
  BY DEF WrapFrame
<1>2. /\ WrapSizes(size) /\ Memory(wrap.mem, size) /\ f \in WrapFrames
      /\ FrameFits(f, wrap.mem, size) /\ TopFits(f, wrap.mem, size, wrap.offset)
      /\ f.r.n \in Nat \ {0} /\ Start(f, size) \in Nat
  BY <1>1, RunningFacts
<1>3. PICK at \in Nat : at = Start(f, size) /\ wrap.offset = at
  BY <1>1, <1>2 DEF WrapCyclic, WrapEntered, TopFits
<1>4. PICK m \in Nat \ {0} : m = Modulus(f.r.n) /\ Power(Base, f.r.n) = m + 1
  <2>1. Modulus(f.r.n) \in Nat \ {0} /\ Power(Base, f.r.n) = Modulus(f.r.n) + 1
    BY <1>2, ModulusType
  <2>2. QED
    BY <2>1
<1>5. f.product \in Nat /\ f.product < m
  BY <1>2, <1>4, TaskType
<1>6. PICK v : /\ v \in {f.product} \cup (IF f.product = 0 THEN {m} ELSE {})
               /\ wrap' = [wrap EXCEPT !.mem = Store(@, f.r, v), !.frames = WrapReturned]
  BY <1>1, <1>4 DEF WrapCyclic
<1>7. v \in Nat /\ v < Power(Base, f.r.n) /\ v % m = f.product
  <2>1. CASE v = f.product
    <3>1. f.product % m = f.product
      <4>1. f.product \in 0 .. m - 1
        BY <1>5
      <4>2. QED
        BY <4>1, DivSmall
    <3>2. QED
      BY <1>4, <1>5, <2>1, <3>1
  <2>2. CASE v = m /\ f.product = 0
    <3>1. Decomposed(m, m, 1, 0)
      BY DEF Decomposed
    <3>2. m % m = 0
      BY <3>1, DivIs
    <3>3. QED
      BY <1>4, <2>2, <3>2
  <2>3. QED
    BY <1>6, <2>1, <2>2
<1>8. PICK new : new = Store(wrap.mem, f.r, v)
  OBVIOUS
<1>9. In(f.r, size) /\ f.r.area = "r"
  BY <1>2, FrameResult
<1>10. Memory(new, size) /\ Keeps(wrap.mem, new, size, at) /\ Value(new, f.r) = v
  <2>1. Memory(new, size)
    BY <1>2, <1>7, <1>8, <1>9, StoreLimbs
  <2>2. Keeps(wrap.mem, new, size, at)
    BY <1>2, <1>7, <1>8, <1>9, StoreKeeps
  <2>3. Value(new, f.r) = v
    BY <1>2, <1>7, <1>8, <1>9, StoreFits
  <2>4. QED
    BY <2>1, <2>2, <2>3
<1>11. Value(new, f.r) % Modulus(f.r.n) = f.product
  BY <1>4, <1>7, <1>10
<1>12. wrap' = [frames |-> [wrap.frames EXCEPT ![Len(wrap.frames)] = [f EXCEPT !.pc = "return"]],
                mem |-> new, offset |-> at, override |-> wrap.override]
  <2>1. wrap' = [wrap EXCEPT !.mem = new,
                   !.frames = [wrap.frames EXCEPT ![Len(wrap.frames)] = [f EXCEPT !.pc = "return"]]]
    BY <1>1, <1>6, <1>8 DEF WrapReturned, WrapBecomes
  <2>2. wrap = [frames |-> wrap.frames, mem |-> wrap.mem, offset |-> wrap.offset,
                override |-> wrap.override]
    BY DEF WrapRunsIn
  <2>3. QED
    BY <1>3, <2>1, <2>2, RecordGoesOn
<1>13. QED
  BY <1>1, <1>3, <1>10, <1>11, <1>12, RunReturns

(* Half 1: the operands modulo B^h - 1 go to blocks of their own, for a call of its own. *)
LEMMA RunSplit ==
  ASSUME NEW size, WrapRunsIn(wrap, size), WrapSplit
  PROVE  WrapRunsIn(wrap', size)
<1>1. PICK f : f = WrapFrame /\ f = wrap.frames[Len(wrap.frames)]
  BY DEF WrapFrame
<1>2. /\ WrapSizes(size) /\ Memory(wrap.mem, size) /\ WrapStack(wrap.frames, wrap.mem, size)
      /\ f \in WrapFrames
      /\ FrameFits(f, wrap.mem, size) /\ TopFits(f, wrap.mem, size, wrap.offset)
      /\ size["r"] \in Nat /\ f.r.n \in Nat \ {0} /\ f.r.n <= size["r"]
      /\ Start(f, size) \in Nat /\ Start(f, size) + 2 * f.r.n = 2 * size["r"]
  BY <1>1, RunningFacts
<1>3. PICK at \in Nat : at = Start(f, size) /\ wrap.offset = at
  BY <1>1, <1>2 DEF WrapSplit, WrapEntered, TopFits
<1>4. PICK h \in Nat \ {0} : h = f.r.n \div 2 /\ f.r.n = 2 * h
  <2>1. ~(f.r.n % 2 # 0)
    BY <1>1 DEF WrapSplit, Plain
  <2>2. QED
    BY <1>2, <2>1
<1>5. PICK p0, p1 : /\ p0 = Block(0, h) /\ p1 = Block(1, h)
                    /\ In(p0, size) /\ p0.area = "scratch" /\ p0.at = at /\ p0.n = h
                    /\ In(p1, size) /\ p1.area = "scratch" /\ p1.at = at + h /\ p1.n = h
                    /\ p0 \in WrapSpans /\ p1 \in WrapSpans
  <2>1. Block(0, h) = Span("scratch", at, h) /\ Block(1, h) = Span("scratch", at + h, h)
    BY <1>3 DEF Block
  <2>2. at + h <= 3 * size["r"] + 16 /\ at + h + h <= 3 * size["r"] + 16 /\ at + h \in Nat
    BY <1>2, <1>3, <1>4
  <2>3. /\ In(Span("scratch", at, h), size) /\ Span("scratch", at, h) \in WrapSpans
        /\ Span("scratch", at, h).area = "scratch" /\ Span("scratch", at, h).at = at
        /\ Span("scratch", at, h).n = h
    BY <1>2, <2>2, ScratchIn
  <2>4. /\ In(Span("scratch", at + h, h), size) /\ Span("scratch", at + h, h) \in WrapSpans
        /\ Span("scratch", at + h, h).area = "scratch" /\ Span("scratch", at + h, h).at = at + h
        /\ Span("scratch", at + h, h).n = h
    BY <1>2, <2>2, ScratchIn
  <2>5. QED
    BY <2>1, <2>3, <2>4
<1>6. In(f.a, size) /\ f.a.n <= 2 * h /\ In(f.b, size) /\ f.b.n <= 2 * h /\ Below(f.b, at)
  BY <1>2, <1>3, <1>4 DEF FrameFits
<1>7. PICK a \in Nat, b \in Nat : /\ a = Value(wrap.mem, f.a) /\ b = Value(wrap.mem, f.b)
                                  /\ a * b = Task(f, wrap.mem)
  BY <1>2, TaskType
<1>8. PICK m \in Nat \ {0} : m = Modulus(h)
  BY ModulusType
<1>9. PICK u0 \in Nat : /\ FoldM1(wrap.mem, p0, f.a) = Store(wrap.mem, p0, u0)
                        /\ u0 < Power(Base, h) /\ Same(u0, a, m)
  <2>1. f.a.n <= 2 * p0.n
    BY <1>5, <1>6
  <2>2. QED
    BY <1>2, <1>5, <1>6, <1>7, <1>8, <2>1, FoldM1Facts
<1>10. PICK mem : mem = Store(wrap.mem, p0, u0)
  OBVIOUS
<1>11. Memory(mem, size) /\ Keeps(wrap.mem, mem, size, at) /\ Value(mem, p0) = u0
  <2>1. Memory(mem, size)
    BY <1>2, <1>5, <1>10, StoreLimbs
  <2>2. Keeps(wrap.mem, mem, size, at)
    BY <1>2, <1>5, <1>10, StoreKeeps
  <2>3. Value(mem, p0) = u0
    BY <1>2, <1>5, <1>9, <1>10, StoreFits
  <2>4. QED
    BY <2>1, <2>2, <2>3
<1>12. Value(mem, f.b) = b
  BY <1>6, <1>7, <1>11 DEF Keeps
<1>13. PICK u1 \in Nat : /\ FoldM1(mem, p1, f.b) = Store(mem, p1, u1)
                         /\ u1 < Power(Base, h) /\ Same(u1, b, m)
  <2>1. f.b.n <= 2 * p1.n
    BY <1>5, <1>6
  <2>2. QED
    BY <1>5, <1>6, <1>8, <1>11, <1>12, <2>1, FoldM1Facts
<1>14. PICK new : new = Store(mem, p1, u1)
  OBVIOUS
<1>15. /\ Memory(new, size) /\ Keeps(wrap.mem, new, size, at)
       /\ Value(new, p1) = u1 /\ Value(new, p0) = u0
  <2>1. Memory(new, size)
    BY <1>5, <1>11, <1>14, StoreLimbs
  <2>2. Keeps(mem, new, size, at)
    <3>1. at <= p1.at
      BY <1>5
    <3>2. QED
      BY <1>5, <1>11, <1>14, <3>1, StoreKeeps
  <2>3. Value(new, p1) = u1
    BY <1>5, <1>11, <1>13, <1>14, StoreFits
  <2>4. Value(new, p0) = u0
    <3>1. Apart(p0, p1)
      BY <1>5 DEF Apart
    <3>2. QED
      BY <1>5, <1>11, <1>14, <3>1, StoreApart
  <2>5. QED
    BY <1>11, <2>1, <2>2, <2>3, <2>4, KeepsBoth
<1>16. PICK r : /\ r = First(f.r, h) /\ r = Span("r", 0, h) /\ r \in WrapSpans /\ r.n = h
  <2>1. h <= f.r.n
    BY <1>4
  <2>2. QED
    BY <1>2, <2>1, FrameResult
<1>17. PICK g : /\ g = WrapCall(new, r, p0, p1)
                /\ g.pc = "enter" /\ g.r = r /\ g.a = p0 /\ g.b = p1
                /\ g.product = (u0 * u1) % m /\ g.product \in Nat /\ g \in WrapFrames
  <2>1. ModularProduct(u0, u1, m) = (u0 * u1) % m
    BY ModularProductIs
  <2>2. (u0 * u1) % m \in Nat
    <3>1. u0 * u1 \in Int
      OBVIOUS
    <3>2. (u0 * u1) % m \in 0 .. m - 1
      BY <3>1, DivMod
    <3>3. QED
      BY <3>2
  <2>3. WrapCall(new, r, p0, p1)
          = [pc |-> "enter", r |-> r, a |-> p0, b |-> p1, product |-> (u0 * u1) % m]
    BY <1>8, <1>15, <1>16, <2>1 DEF WrapCall
  <2>4. QED
    BY <1>5, <1>16, <2>2, <2>3 DEF WrapFrames
<1>18. Start(g, size) = at + 2 * h /\ g.r.n = h
  BY <1>2, <1>3, <1>4, <1>16, <1>17 DEF Start
<1>19. FrameFits(g, new, size)
  <2>1. Task(g, new) = u0 * u1
    BY <1>15, <1>17 DEF Task
  <2>2. Below(p0, at + 2 * h) /\ Below(p1, at + 2 * h)
    BY <1>5 DEF Below
  <2>3. h <= size["r"]
    BY <1>2, <1>4
  <2>4. QED
    BY <1>5, <1>8, <1>16, <1>17, <1>18, <2>1, <2>2, <2>3 DEF FrameFits
<1>20. PICK pf \in WrapFrames :
         pf = [f EXCEPT !.pc = "half2"] /\ pf.pc = "half2" /\ SameTask(pf, f)
  BY <1>2, FrameAt
<1>21. PICK fr : fr = WrapBecomes(pf) /\ fr = [wrap.frames EXCEPT ![Len(wrap.frames)] = pf]
  BY DEF WrapBecomes
<1>22. WrapStack(fr, new, size) /\ fr[Len(fr)] = pf /\ Task(pf, new) = a * b
  <2>1. PICK cur, old : cur = wrap.frames /\ old = wrap.mem
    OBVIOUS
  <2>2. /\ WrapStack(cur, old, size) /\ SameTask(pf, cur[Len(cur)]) /\ cur[Len(cur)] = f
        /\ Keeps(old, new, size, Start(cur[Len(cur)], size))
        /\ fr = [cur EXCEPT ![Len(cur)] = pf]
    BY <1>1, <1>2, <1>3, <1>15, <1>20, <1>21, <2>1
  <2>3. /\ WrapStack([cur EXCEPT ![Len(cur)] = pf], new, size)
        /\ Len([cur EXCEPT ![Len(cur)] = pf]) = Len(cur)
        /\ [cur EXCEPT ![Len(cur)] = pf][Len(cur)] = pf
        /\ Task(pf, new) = Task(f, wrap.mem)
    <3>1. WrapSizes(size)
      BY <1>2
    <3>2. WrapStack(cur, old, size) /\ SameTask(pf, cur[Len(cur)])
      BY <2>2
    <3>3. Keeps(old, new, size, Start(cur[Len(cur)], size)) /\ pf \in WrapFrames
      BY <1>20, <2>2
    <3>4. /\ WrapStack([cur EXCEPT ![Len(cur)] = pf], new, size)
          /\ Len([cur EXCEPT ![Len(cur)] = pf]) = Len(cur)
          /\ [cur EXCEPT ![Len(cur)] = pf][Len(cur)] = pf
      BY <3>1, <3>2, <3>3, StackGoesOn
    <3>5. Task(f, new) = Task(f, wrap.mem)
      BY <1>2, <1>3, <1>15, TaskKept
    <3>6. Task(pf, new) = Task(f, wrap.mem)
      BY <1>20, <3>5 DEF SameTask, Task
    <3>7. QED
      BY <3>4, <3>6
  <2>4. Task(pf, new) = a * b
    BY <1>7, <2>1, <2>2, <2>3
  <2>5. WrapStack(fr, new, size) /\ fr[Len(fr)] = pf
    BY <2>2, <2>3, Zenon
  <2>6. QED
    BY <2>4, <2>5
<1>23. Awaits(pf, g, new)
  <2>1. PICK x \in Int, y \in Int : x = u0 * u1 /\ y = a * b
    OBVIOUS
  <2>2. Same(x, y, m)
    BY <1>9, <1>13, <2>1, SameProduct
  <2>3. g.product = x % m
    BY <1>17, <2>1
  <2>4. Same(x % m, y, m)
    <3>1. PICK q \in Int, z \in 0 .. m - 1 : q = x \div m /\ z = x % m /\ x = m * q + z
      BY DivMod
    <3>2. z = x + (-q) * m /\ -q \in Int
      BY <3>1
    <3>3. Same(z, x, m)
      BY <3>2 DEF Same
    <3>4. Same(z, y, m)
      BY <2>2, <3>3, SameTransitive
    <3>5. QED
      BY <3>1, <3>4
  <2>5. pf.r.n = 2 * g.r.n
    BY <1>4, <1>16, <1>17, <1>20 DEF SameTask
  <2>6. QED
    BY <1>8, <1>18, <1>20, <1>22, <2>1, <2>3, <2>4, <2>5 DEF Awaits
<1>24. PICK gr : gr = Append(fr, g) /\ WrapStack(gr, new, size) /\ gr[Len(gr)] = g
  <2>1. Awaits(fr[Len(fr)], g, new)
    BY <1>22, <1>23
  <2>2. WrapStack(Append(fr, g), new, size) /\ Append(fr, g)[Len(Append(fr, g))] = g
    BY <1>17, <1>19, <1>22, <2>1, StackGrows
  <2>3. QED
    BY <2>2
<1>25. TopFits(g, new, size, at + 2 * h)
  BY <1>17, <1>18 DEF TopFits
<1>26. wrap' = [frames |-> gr, mem |-> new, offset |-> at + 2 * h, override |-> wrap.override]
  <2>1. wrap' = [wrap EXCEPT !.mem = new, !.offset = at + 2 * h, !.frames = gr]
    <3>1. FoldM1(FoldM1(wrap.mem, Block(0, h), f.a), Block(1, h), f.b) = new
      BY <1>5, <1>9, <1>10, <1>13, <1>14
    <3>2. Append(WrapBecomes([f EXCEPT !.pc = "half2"]),
                 WrapCall(new, First(f.r, h), Block(0, h), Block(1, h))) = gr
      BY <1>5, <1>16, <1>17, <1>20, <1>21, <1>24
    <3>3. QED
      BY <1>1, <1>3, <1>4, <3>1, <3>2 DEF WrapSplit
  <2>2. wrap = [frames |-> wrap.frames, mem |-> wrap.mem, offset |-> wrap.offset,
                override |-> wrap.override]
    BY DEF WrapRunsIn
  <2>3. QED
    BY <2>1, <2>2, RecordGoesOn
<1>27. wrap.override \in Nat
  BY DEF WrapRunsIn
<1>28. PICK y : /\ y = wrap' /\ y.frames = gr /\ y.mem = new /\ y.offset = at + 2 * h
                /\ y.override = wrap.override
                /\ y = [frames |-> y.frames, mem |-> y.mem, offset |-> y.offset,
                        override |-> y.override]
  BY <1>26
<1>29. WrapRunsIn(y, size)
  BY <1>2, <1>15, <1>24, <1>25, <1>27, <1>28 DEF WrapRunsIn
<1>30. QED
  BY <1>28, <1>29

(* A residue modulo B^h + 1 has h + 1 limbs. *)
LEMMA ResidueFits ==
  ASSUME NEW h \in Nat, NEW v \in Nat, v <= Power(Base, h)
  PROVE  v < Power(Base, h + 1)
<1>1. Power(Base, h + 1) = Base * Power(Base, h)
  BY BaseType, PowerStep
<1>2. PICK p \in Nat \ {0} : p = Power(Base, h)
  BY BasePower
<1>3. PICK b \in Nat \ {0} : Base = 2 * b
  <2>1. Power(Base, 1) = Base
    BY BaseType, PowerOne
  <2>2. 1 \in Nat \ {0}
    OBVIOUS
  <2>3. QED
    BY <2>1, <2>2, PowerEven
<1>4. 2 * p <= Base * p
  <2>1. 2 <= Base /\ Base \in Nat
    BY <1>3
  <2>2. QED
    BY <2>1, MulPos
<1>5. PICK q \in Nat : q = Base * p
  BY BaseType
<1>6. Power(Base, h + 1) = q /\ v <= p
  BY <1>1, <1>2, <1>5
<1>7. QED
  BY <1>4, <1>5, <1>6

(* Half 2: the operands modulo B^h + 1 go to blocks of their own, and so does their product. *)
LEMMA RunHalf2 ==
  ASSUME NEW size, WrapRunsIn(wrap, size), WrapHalf2
  PROVE  WrapRunsIn(wrap', size)
<1>1. PICK f : f = WrapFrame /\ f = wrap.frames[Len(wrap.frames)]
  BY DEF WrapFrame
<1>2. /\ WrapSizes(size) /\ Memory(wrap.mem, size)
      /\ f \in WrapFrames
      /\ FrameFits(f, wrap.mem, size) /\ TopFits(f, wrap.mem, size, wrap.offset)
      /\ size["r"] \in Nat /\ f.r.n \in Nat \ {0} /\ f.r.n <= size["r"]
      /\ Start(f, size) \in Nat /\ Start(f, size) + 2 * f.r.n = 2 * size["r"]
  BY <1>1, RunningFacts
<1>3. f.pc = "half2"
  BY <1>1 DEF WrapHalf2
<1>4. PICK h \in Nat \ {0} : h = f.r.n \div 2 /\ h = HalfOf(f) /\ f.r.n = 2 * h
  <2>1. f.r.n = 2 * HalfOf(f) /\ HalfOf(f) = f.r.n \div 2
    BY <1>2, <1>3 DEF TopFits, HalfOf
  <2>2. f.r.n \div 2 \in Nat
    BY <1>2
  <2>3. HalfOf(f) # 0
    BY <1>2, <2>1
  <2>4. QED
    BY <2>1, <2>2, <2>3
<1>5. PICK at \in Nat : at = Start(f, size) /\ wrap.offset - 2 * h = at
  <2>1. wrap.offset = Start(f, size) + 2 * h
    BY <1>2, <1>3, <1>4 DEF TopFits
  <2>2. QED
    BY <1>2, <2>1
<1>6. PICK k \in Nat \ {0} : k = h + 1
  OBVIOUS
<1>7. /\ at + k <= 3 * size["r"] + 16 /\ at + k + k <= 3 * size["r"] + 16
      /\ at + 2 * k + k <= 3 * size["r"] + 16 /\ at + 3 * k + 2 * h <= 3 * size["r"] + 16
      /\ at + k \in Nat /\ at + 2 * k \in Nat /\ at + 3 * k \in Nat /\ 2 * h \in Nat
  BY <1>2, <1>4, <1>5, <1>6
<1>8. PICK p0 : p0 = Span("scratch", at, k) /\ In(p0, size) /\ p0.area = "scratch"
                /\ p0.at = at /\ p0.n = k
  BY <1>2, <1>7, ScratchIn
<1>9. PICK p1 : p1 = Span("scratch", at + k, k) /\ In(p1, size) /\ p1.area = "scratch"
                /\ p1.at = at + k /\ p1.n = k
  BY <1>2, <1>7, ScratchIn
<1>10. PICK p2 : p2 = Span("scratch", at + 2 * k, k) /\ In(p2, size) /\ p2.area = "scratch"
                 /\ p2.at = at + 2 * k /\ p2.n = k
  BY <1>2, <1>7, ScratchIn
<1>11. PICK tmp : tmp = Span("scratch", at + 3 * k, 2 * h) /\ In(tmp, size)
                  /\ tmp.area = "scratch" /\ tmp.at = at + 3 * k /\ tmp.n = 2 * h
  BY <1>2, <1>7, ScratchIn
<1>12. In(f.a, size) /\ f.a.n <= 2 * h /\ In(f.b, size) /\ f.b.n <= 2 * h /\ Below(f.b, at)
  BY <1>2, <1>4, <1>5 DEF FrameFits
<1>13. PICK a \in Nat, b \in Nat : /\ a = Value(wrap.mem, f.a) /\ b = Value(wrap.mem, f.b)
                                   /\ a * b = Task(f, wrap.mem)
  BY <1>2, TaskType
<1>14. PICK P \in Nat \ {0} : P = Power(Base, h)
  BY BasePower
<1>15. PICK v0 \in Nat : /\ FoldP1(wrap.mem, p0, f.a) = Store(wrap.mem, p0, v0)
                         /\ v0 <= P /\ Same(v0, a, P + 1) /\ v0 < Power(Base, k)
  <2>1. h \in Nat /\ p0.n = h + 1
    BY <1>6, <1>8
  <2>2. PICK v \in Nat : /\ FoldP1(wrap.mem, p0, f.a) = Store(wrap.mem, p0, v)
                         /\ v <= Power(Base, h) /\ Same(v, a, Power(Base, h) + 1)
    BY <1>2, <1>8, <1>12, <1>13, <2>1, FoldP1Facts
  <2>3. v < Power(Base, h + 1)
    BY <2>2, ResidueFits
  <2>4. QED
    BY <1>6, <1>14, <2>2, <2>3
<1>16. PICK mem : mem = Store(wrap.mem, p0, v0)
  OBVIOUS
<1>17. Memory(mem, size) /\ Keeps(wrap.mem, mem, size, at) /\ Value(mem, p0) = v0
  <2>1. Memory(mem, size)
    BY <1>2, <1>8, <1>16, StoreLimbs
  <2>2. Keeps(wrap.mem, mem, size, at)
    BY <1>2, <1>8, <1>16, StoreKeeps
  <2>3. Value(mem, p0) = v0
    BY <1>2, <1>8, <1>15, <1>16, StoreFits
  <2>4. QED
    BY <2>1, <2>2, <2>3
<1>18. Value(mem, f.b) = b
  BY <1>12, <1>13, <1>17 DEF Keeps
<1>19. PICK v1 \in Nat : /\ FoldP1(mem, p1, f.b) = Store(mem, p1, v1)
                         /\ v1 <= P /\ Same(v1, b, P + 1) /\ v1 < Power(Base, k)
  <2>1. h \in Nat /\ p1.n = h + 1
    BY <1>6, <1>9
  <2>2. PICK v \in Nat : /\ FoldP1(mem, p1, f.b) = Store(mem, p1, v)
                         /\ v <= Power(Base, h) /\ Same(v, b, Power(Base, h) + 1)
    BY <1>9, <1>12, <1>17, <1>18, <2>1, FoldP1Facts
  <2>3. v < Power(Base, h + 1)
    BY <2>2, ResidueFits
  <2>4. QED
    BY <1>6, <1>14, <2>2, <2>3
<1>20. PICK both : both = Store(mem, p1, v1)
  OBVIOUS
<1>21. /\ Memory(both, size) /\ Keeps(wrap.mem, both, size, at)
       /\ Value(both, p1) = v1 /\ Value(both, p0) = v0
  <2>1. Memory(both, size)
    BY <1>9, <1>17, <1>20, StoreLimbs
  <2>2. Keeps(mem, both, size, at)
    <3>1. at <= p1.at
      BY <1>9
    <3>2. QED
      BY <1>9, <1>17, <1>20, <3>1, StoreKeeps
  <2>3. Value(both, p1) = v1
    BY <1>9, <1>17, <1>19, <1>20, StoreFits
  <2>4. Value(both, p0) = v0
    <3>1. Apart(p0, p1)
      BY <1>8, <1>9 DEF Apart
    <3>2. QED
      BY <1>8, <1>9, <1>17, <1>20, <3>1, StoreApart
  <2>5. QED
    BY <1>17, <2>1, <2>2, <2>3, <2>4, KeepsBoth
<1>32. PICK new : new = MultiplyP1(both, p2, p0, p1, tmp)
  OBVIOUS
<1>22. PICK v \in Nat, u \in Nat :
         /\ new \in {Store(both, p2, v), Store(Store(both, tmp, u), p2, v)}
         /\ v <= P /\ Same(v, v0 * v1, P + 1)
  <2>1. p0.n = h + 1 /\ p1.n = h + 1 /\ p2.n = h + 1
    BY <1>6, <1>8, <1>9, <1>10
  <2>2. Value(both, p0) <= Power(Base, h) /\ Value(both, p1) <= Power(Base, h)
    BY <1>14, <1>15, <1>19, <1>21
  <2>3. PICK v \in Nat, u \in Nat :
          /\ MultiplyP1(both, p2, p0, p1, tmp)
               \in {Store(both, p2, v), Store(Store(both, tmp, u), p2, v)}
          /\ v <= Power(Base, h)
          /\ Same(v, Value(both, p0) * Value(both, p1), Power(Base, h) + 1)
    BY <1>8, <1>9, <1>10, <1>11, <1>21, <2>1, <2>2, MultiplyP1Facts
  <2>4. QED
    BY <1>14, <1>21, <1>32, <2>3
<1>23. PICK old : /\ old \in {both, Store(both, tmp, u)} /\ new = Store(old, p2, v)
                  /\ Memory(old, size) /\ Keeps(wrap.mem, old, size, at)
  <2>1. CASE new = Store(both, p2, v)
    BY <1>21, <2>1
  <2>2. CASE new = Store(Store(both, tmp, u), p2, v)
    <3>1. Memory(Store(both, tmp, u), size)
      BY <1>11, <1>21, StoreLimbs
    <3>2. at <= tmp.at
      BY <1>11
    <3>3. Keeps(both, Store(both, tmp, u), size, at)
      BY <1>11, <1>21, <3>2, StoreKeeps
    <3>4. Keeps(wrap.mem, Store(both, tmp, u), size, at)
      BY <1>21, <3>3, KeepsBoth
    <3>5. QED
      BY <2>2, <3>1, <3>4
  <2>3. QED
    BY <1>22, <2>1, <2>2
<1>24. Memory(new, size) /\ Keeps(wrap.mem, new, size, at) /\ Value(new, p2) = v
  <2>1. at <= p2.at
    BY <1>10
  <2>2. Memory(new, size)
    BY <1>10, <1>23, StoreLimbs
  <2>3. Keeps(old, new, size, at)
    BY <1>10, <1>23, <2>1, StoreKeeps
  <2>4. v < Power(Base, h + 1)
    BY <1>14, <1>22, ResidueFits
  <2>5. Value(new, p2) = v
    BY <1>6, <1>10, <1>23, <2>4, StoreFits
  <2>6. QED
    BY <1>23, <2>2, <2>3, <2>5, KeepsBoth
<1>25. PICK r : r = First(f.r, h) /\ In(r, size) /\ r.area = "r"
  <2>1. h <= f.r.n /\ h \in Nat
    BY <1>4
  <2>2. QED
    BY <1>2, <2>1, FrameResult
<1>26. Value(new, r) = Value(wrap.mem, r)
  <2>1. Apart(r, p0) /\ Apart(r, p1) /\ Apart(r, p2) /\ Apart(r, tmp)
    BY <1>8, <1>9, <1>10, <1>11, <1>25 DEF Apart
  <2>2. Value(mem, r) = Value(wrap.mem, r)
    BY <1>2, <1>8, <1>16, <1>25, <2>1, StoreApart
  <2>3. Value(both, r) = Value(mem, r)
    BY <1>9, <1>17, <1>20, <1>25, <2>1, StoreApart
  <2>4. Value(old, r) = Value(both, r)
    <3>1. Value(Store(both, tmp, u), r) = Value(both, r)
      BY <1>11, <1>21, <1>25, <2>1, StoreApart
    <3>2. QED
      BY <1>23, <3>1
  <2>5. Value(new, r) = Value(old, r)
    BY <1>10, <1>23, <1>25, <2>1, StoreApart
  <2>6. QED
    BY <2>2, <2>3, <2>4, <2>5
<1>27. PICK g \in WrapFrames :
         g = [f EXCEPT !.pc = "crt"] /\ g.pc = "crt" /\ SameTask(g, f)
  BY <1>2, FrameAt
<1>28. Task(g, new) = a * b
  <2>1. Task(f, new) = Task(f, wrap.mem)
    BY <1>2, <1>5, <1>24, TaskKept
  <2>2. Task(g, new) = Task(f, new)
    BY <1>27 DEF SameTask, Task
  <2>3. QED
    BY <1>13, <2>1, <2>2
<1>29. TopFits(g, new, size, at + 3 * k)
  <2>1. /\ HalfOf(g) = h /\ g.r = f.r /\ Start(g, size) = at
    BY <1>4, <1>5, <1>27 DEF SameTask, HalfOf, Start
  <2>2. Same(Value(new, r), a * b, Modulus(h))
    <3>1. Same(Value(wrap.mem, r), Task(f, wrap.mem), Modulus(h))
      BY <1>2, <1>3, <1>4, <1>25 DEF TopFits
    <3>2. QED
      BY <1>13, <1>26, <3>1
  <2>3. Rp1(g, size) = p2
    BY <1>6, <1>10, <2>1 DEF Rp1
  <2>4. Same(v, a * b, P + 1)
    <3>1. PICK x \in Int, y \in Int : x = v0 * v1 /\ y = a * b
      OBVIOUS
    <3>2. Same(x, y, P + 1)
      BY <1>15, <1>19, <3>1, SameProduct
    <3>3. Same(v, x, P + 1)
      BY <1>22, <3>1
    <3>4. Same(v, y, P + 1)
      BY <3>2, <3>3, SameTransitive
    <3>5. QED
      BY <3>1, <3>4
  <2>5. g.r.n = 2 * h
    BY <1>4, <2>1
  <2>6. at + 3 * k = Start(g, size) + 3 * (h + 1)
    BY <1>6, <2>1
  <2>7. /\ Value(new, Rp1(g, size)) <= Power(Base, h)
        /\ Same(Value(new, Rp1(g, size)), Task(g, new), Power(Base, h) + 1)
    BY <1>14, <1>22, <1>24, <1>28, <2>3, <2>4
  <2>8. Same(Value(new, First(g.r, h)), Task(g, new), Modulus(h))
    BY <1>25, <1>28, <2>1, <2>2
  <2>9. QED
    BY <1>27, <2>1, <2>5, <2>6, <2>7, <2>8 DEF TopFits
<1>30. wrap' = [frames |-> [wrap.frames EXCEPT ![Len(wrap.frames)] = g],
                mem |-> new, offset |-> at + 3 * k, override |-> wrap.override]
  <2>1. wrap' = [wrap EXCEPT !.mem = new, !.offset = at + 3 * k,
                   !.frames = [wrap.frames EXCEPT ![Len(wrap.frames)] = g]]
    <3>1. /\ Span("scratch", at + 0 * (h + 1), h + 1) = p0
          /\ Span("scratch", at + 1 * (h + 1), h + 1) = p1
          /\ Span("scratch", at + 2 * (h + 1), h + 1) = p2
          /\ Span("scratch", at + 3 * (h + 1), 2 * h) = tmp
          /\ at + 3 * (h + 1) = at + 3 * k
      BY <1>6, <1>8, <1>9, <1>10, <1>11
    <3>2. MultiplyP1(FoldP1(FoldP1(wrap.mem, p0, f.a), p1, f.b), p2, p0, p1, tmp) = new
      BY <1>15, <1>16, <1>19, <1>20, <1>32
    <3>3. WrapBecomes([f EXCEPT !.pc = "crt"]) = [wrap.frames EXCEPT ![Len(wrap.frames)] = g]
      BY <1>27 DEF WrapBecomes
    <3>4. QED
      BY <1>1, <1>4, <1>5, <3>1, <3>2, <3>3 DEF WrapHalf2
  <2>2. wrap = [frames |-> wrap.frames, mem |-> wrap.mem, offset |-> wrap.offset,
                override |-> wrap.override]
    BY DEF WrapRunsIn
  <2>3. QED
    BY <2>1, <2>2, RecordGoesOn
<1>31. QED
  BY <1>1, <1>5, <1>24, <1>27, <1>29, <1>30, RunGoesOn

(* The halves are put together. *)
LEMMA RunCrt ==
  ASSUME NEW size, WrapRunsIn(wrap, size), WrapCrt
  PROVE  WrapRunsIn(wrap', size)
<1>1. PICK f : f = WrapFrame /\ f = wrap.frames[Len(wrap.frames)]
  BY DEF WrapFrame
<1>2. /\ WrapSizes(size) /\ Memory(wrap.mem, size)
      /\ f \in WrapFrames
      /\ FrameFits(f, wrap.mem, size) /\ TopFits(f, wrap.mem, size, wrap.offset)
      /\ size["r"] \in Nat /\ f.r.n \in Nat \ {0} /\ f.r.n <= size["r"]
      /\ Start(f, size) \in Nat /\ Start(f, size) + 2 * f.r.n = 2 * size["r"]
  BY <1>1, RunningFacts
<1>3. f.pc = "crt"
  BY <1>1 DEF WrapCrt
<1>4. PICK h \in Nat \ {0} : h = f.r.n \div 2 /\ h = HalfOf(f) /\ f.r.n = 2 * h
  <2>1. f.r.n = 2 * HalfOf(f) /\ HalfOf(f) = f.r.n \div 2
    BY <1>2, <1>3 DEF TopFits, HalfOf
  <2>2. f.r.n \div 2 \in Nat
    BY <1>2
  <2>3. HalfOf(f) # 0
    BY <1>2, <2>1
  <2>4. QED
    BY <2>1, <2>2, <2>3
<1>5. PICK at \in Nat, k \in Nat \ {0} : /\ at = Start(f, size) /\ k = h + 1
                                         /\ wrap.offset - 3 * (h + 1) = at
  <2>1. wrap.offset = Start(f, size) + 3 * (h + 1)
    BY <1>2, <1>3, <1>4 DEF TopFits
  <2>2. PICK at \in Nat : at = Start(f, size)
    BY <1>2
  <2>3. wrap.offset - 3 * (h + 1) = at
    BY <2>1, <2>2
  <2>4. QED
    BY <2>2, <2>3
<1>6. /\ at + k <= 3 * size["r"] + 16 /\ at + 2 * k + k <= 3 * size["r"] + 16
      /\ at + 2 * k \in Nat
  BY <1>2, <1>4, <1>5
<1>7. PICK p0 : p0 = Span("scratch", at, k) /\ In(p0, size) /\ p0.area = "scratch"
                /\ p0.at = at /\ p0.n = k
  BY <1>2, <1>6, ScratchIn
<1>8. PICK p2 : p2 = Span("scratch", at + 2 * k, k) /\ p2 = Rp1(f, size) /\ In(p2, size)
                /\ p2.n = k
  <2>1. Rp1(f, size) = Span("scratch", at + 2 * k, k)
    BY <1>4, <1>5 DEF Rp1
  <2>2. QED
    BY <1>2, <1>6, <2>1, ScratchIn
<1>9. PICK r : r = First(f.r, h) /\ In(r, size) /\ r.n = h
  <2>1. h <= f.r.n /\ h \in Nat
    BY <1>4
  <2>2. QED
    BY <1>2, <2>1, FrameResult
<1>10. PICK P \in Nat, W \in Nat : /\ P = Power(Base, h) /\ W = Power(Base, f.r.n) /\ W = P * P
                                   /\ P >= 2
  <2>1. Power(Base, h + h) = Power(Base, h) * Power(Base, h)
    BY BaseType, PowerSum
  <2>2. h + h = f.r.n
    BY <1>4
  <2>3. Power(Base, h) \in Nat /\ Power(Base, h) >= 2
    BY ModulusType
  <2>4. Power(Base, f.r.n) \in Nat
    BY <1>2, ModulusType
  <2>5. QED
    BY <2>1, <2>2, <2>3, <2>4
<1>11. PICK x \in Nat : x = Task(f, wrap.mem) /\ f.product = x % Modulus(f.r.n)
  BY <1>2, TaskType
<1>12. PICK rm1 \in Nat : rm1 = Value(wrap.mem, r) /\ rm1 < P /\ Same(rm1, x, P - 1)
  <2>1. Same(Value(wrap.mem, r), x, Modulus(h))
    BY <1>2, <1>3, <1>4, <1>9, <1>11 DEF TopFits
  <2>2. Modulus(h) = P - 1
    BY <1>10 DEF Modulus
  <2>3. QED
    BY <1>2, <1>9, <1>10, <2>1, <2>2, ValueType
<1>13. PICK rp1 \in Nat : rp1 = Value(wrap.mem, p2) /\ rp1 <= P /\ Same(rp1, x, P + 1)
  <2>1. /\ Value(wrap.mem, p2) <= Power(Base, h)
        /\ Same(Value(wrap.mem, p2), x, Power(Base, h) + 1)
    BY <1>2, <1>3, <1>4, <1>8, <1>11 DEF TopFits
  <2>2. Value(wrap.mem, p2) \in Nat
    BY <1>2, <1>8, ValueType
  <2>3. QED
    BY <1>10, <2>1, <2>2
<1>14. PICK t \in Nat, j \in Int : /\ t = HalvedDifference(rm1, rp1, h) /\ t <= P
                                   /\ 2 * t = rm1 - rp1 + j * (P + 1)
  BY <1>10, <1>12, <1>13, HalvedFacts
<1>15. PICK v \in Nat : /\ v = Recombined(rm1, t, P, W) /\ v < W
                        /\ Same(v, rm1 + t * (P - 1), W - 1)
  BY <1>10, <1>12, <1>14, RecombinedFacts
<1>16. v % Modulus(f.r.n) = f.product
  <2>1. PICK z \in Int : z = rm1 + t * (P - 1)
    BY <1>10
  <2>2. PICK e \in Nat : P = 2 * e
    BY <1>10, PowerEven
  <2>3. Same(z, x, P * P - 1)
    <3>1. Same(rm1, x, P - 1) /\ Same(rp1, x, P + 1) /\ P = 2 * e
          /\ 2 * t = rm1 - rp1 + j * (P + 1)
      BY <1>12, <1>13, <1>14, <2>2
    <3>2. rm1 \in Int /\ rp1 \in Int /\ x \in Int /\ t \in Int
      OBVIOUS
    <3>3. Same(rm1 + t * (P - 1), x, P * P - 1)
      BY <3>1, <3>2, PutTogether
    <3>4. QED
      BY <2>1, <3>3
  <2>4. Same(v, x, W - 1)
    <3>1. PICK m \in Int : m = W - 1 /\ m = P * P - 1
      BY <1>10
    <3>2. Same(v, z, m) /\ Same(z, x, m)
      BY <1>15, <2>1, <2>3, <3>1
    <3>3. Same(v, x, m)
      BY <3>2, SameTransitive
    <3>4. QED
      BY <3>1, <3>3
  <2>5. Modulus(f.r.n) = W - 1 /\ Modulus(f.r.n) \in Nat \ {0}
    BY <1>2, <1>10, ModulusType
  <2>6. v % Modulus(f.r.n) = x % Modulus(f.r.n)
    BY <2>4, <2>5, SameIsMod
  <2>7. QED
    BY <1>11, <2>6
<1>17. In(f.r, size) /\ f.r.area = "r"
  BY <1>2, FrameResult
<1>18. PICK mem, new : mem = Store(wrap.mem, p0, t) /\ new = Store(mem, f.r, v)
  OBVIOUS
<1>19. Memory(mem, size) /\ Keeps(wrap.mem, mem, size, at)
  <2>1. Memory(mem, size)
    BY <1>2, <1>7, <1>18, StoreLimbs
  <2>2. Keeps(wrap.mem, mem, size, at)
    BY <1>2, <1>7, <1>18, StoreKeeps
  <2>3. QED
    BY <2>1, <2>2
<1>20. Memory(new, size) /\ Keeps(wrap.mem, new, size, at) /\ Value(new, f.r) = v
  <2>1. Memory(new, size)
    BY <1>17, <1>18, <1>19, StoreLimbs
  <2>2. Keeps(mem, new, size, at)
    BY <1>17, <1>18, <1>19, StoreKeeps
  <2>3. Value(new, f.r) = v
    <3>1. v < Power(Base, f.r.n)
      BY <1>10, <1>15
    <3>2. QED
      BY <1>17, <1>18, <1>19, <3>1, StoreFits
  <2>4. QED
    BY <1>19, <2>1, <2>2, <2>3, KeepsBoth
<1>21. wrap' = [frames |-> [wrap.frames EXCEPT ![Len(wrap.frames)] = [f EXCEPT !.pc = "return"]],
                mem |-> new, offset |-> at, override |-> wrap.override]
  <2>1. wrap' = [wrap EXCEPT !.mem = new, !.offset = at,
                   !.frames = [wrap.frames EXCEPT ![Len(wrap.frames)] = [f EXCEPT !.pc = "return"]]]
    <3>1. /\ Span("scratch", at, h + 1) = p0
          /\ Span("scratch", at + 2 * (h + 1), h + 1) = p2
      BY <1>5, <1>7, <1>8
    <3>2. WrapReturned = [wrap.frames EXCEPT ![Len(wrap.frames)] = [f EXCEPT !.pc = "return"]]
      BY <1>1 DEF WrapReturned, WrapBecomes
    <3>3. wrap' = [wrap EXCEPT !.mem = Store(Store(wrap.mem, Span("scratch", at, h + 1), t),
                                             f.r, Recombined(rm1, t, P, W)),
                               !.offset = at, !.frames = WrapReturned]
      <4> DEFINE F == wrap.frames[Len(wrap.frames)]
                 H == F.r.n \div 2
                 A == wrap.offset - 3 * (H + 1)
                 R == Value(wrap.mem, First(F.r, H))
                 S == Value(wrap.mem, Span("scratch", A + 2 * (H + 1), H + 1))
                 T == HalvedDifference(R, S, H)
      <4>1. wrap' = [wrap EXCEPT
              !.mem = Store(Store(wrap.mem, Span("scratch", A, H + 1), T),
                            F.r, Recombined(R, T, Power(Base, H), Power(Base, F.r.n))),
              !.offset = A, !.frames = WrapReturned]
        BY DEF WrapCrt, WrapFrame, Recombined
      <4>2. F = f /\ H = h
        BY <1>1, <1>4
      <4>3. A = at
        BY <1>5, <4>2
      <4>4. R = rm1
        BY <1>9, <1>12, <4>2
      <4>5. S = rp1
        BY <1>13, <3>1, <4>2, <4>3
      <4>6. T = t
        BY <1>14, <4>2, <4>4, <4>5
      <4> HIDE DEF F, H, A, R, S, T
      <4>7. QED
        BY <1>10, <4>1, <4>2, <4>3, <4>4, <4>6
    <3>4. QED
      BY <1>15, <1>18, <3>1, <3>2, <3>3
  <2>2. wrap = [frames |-> wrap.frames, mem |-> wrap.mem, offset |-> wrap.offset,
                override |-> wrap.override]
    BY DEF WrapRunsIn
  <2>3. QED
    BY <2>1, <2>2, RecordGoesOn
<1>22. QED
  BY <1>1, <1>5, <1>16, <1>20, <1>21, RunReturns

(* A call that is done leaves its residue in the low half of the result of the one above it. *)
LEMMA RunReturn ==
  ASSUME NEW size, WrapRunsIn(wrap, size), WrapReturn
  PROVE  WrapHolds(wrap')
<1>1. PICK n \in Nat \ {0} : n = Len(wrap.frames)
  BY RunningFacts
<1>2. CASE n = 1
  BY <1>1, <1>2 DEF WrapReturn, WrapHolds
<1>3. CASE n # 1
  <2>1. PICK g : g = WrapFrame /\ g = wrap.frames[n] /\ g.pc = "return"
    BY <1>1 DEF WrapFrame, WrapReturn
  <2>2. /\ WrapSizes(size) /\ Memory(wrap.mem, size) /\ WrapStack(wrap.frames, wrap.mem, size)
        /\ FrameFits(g, wrap.mem, size) /\ TopFits(g, wrap.mem, size, wrap.offset)
        /\ size["r"] \in Nat /\ g.r.n \in Nat \ {0}
        /\ Start(g, size) \in Nat /\ Start(g, size) + 2 * g.r.n = 2 * size["r"]
    BY <1>1, <2>1, RunningFacts
  <2>3. PICK fr : fr = SubSeq(wrap.frames, 1, n - 1)
    OBVIOUS
  <2>4. /\ WrapStack(fr, wrap.mem, size) /\ Len(fr) = n - 1
        /\ fr[n - 1] = wrap.frames[n - 1] /\ Awaits(wrap.frames[n - 1], wrap.frames[n], wrap.mem)
    BY <1>1, <1>3, <2>2, <2>3, StackShrinks
  <2>5. PICK f : f = fr[Len(fr)] /\ f = wrap.frames[n - 1] /\ Awaits(f, g, wrap.mem)
    BY <2>1, <2>4
  <2>6. FrameFits(f, wrap.mem, size)
    <3>1. n - 1 \in Nat /\ 1 <= n - 1 /\ n - 1 \in 1 .. n - 1
      <4>1. n \in Nat /\ n # 0 /\ n # 1
        BY <1>3
      <4>2. QED
        BY <4>1
    <3>2. QED
      BY <2>4, <2>5, <3>1 DEF WrapStack
  <2>7. PICK h \in Nat \ {0} : h = g.r.n /\ f.r.n = 2 * h /\ HalfOf(f) = h
    <3>1. PICK h \in Nat \ {0} : h = g.r.n /\ f.r.n = 2 * h
      BY <2>2, <2>5 DEF Awaits
    <3>2. (2 * h) \div 2 = h
      OBVIOUS
    <3>3. QED
      BY <3>1, <3>2 DEF HalfOf
  <2>8. PICK m \in Nat \ {0} : m = Modulus(h)
    BY ModulusType
  <2>9. First(f.r, h) = g.r /\ In(g.r, size)
    <3>1. h <= f.r.n /\ h \in Nat
      BY <2>7
    <3>2. First(f.r, h) = Span("r", 0, h) /\ In(First(f.r, h), size)
      BY <2>2, <2>6, <3>1, FrameResult
    <3>3. g.r = Span("r", 0, h)
      BY <2>2, <2>7 DEF FrameFits
    <3>4. QED
      BY <3>2, <3>3
  <2>10. Same(Value(wrap.mem, First(f.r, h)), Task(f, wrap.mem), m)
    <3>1. PICK v \in Nat, x \in Nat : v = Value(wrap.mem, g.r) /\ x = Task(f, wrap.mem)
      BY <2>2, <2>6, <2>9, TaskType, ValueType
    <3>2. v % m = g.product
      BY <2>1, <2>2, <2>7, <2>8, <3>1 DEF TopFits
    <3>3. Same(g.product, x, m)
      BY <2>5, <2>7, <2>8, <3>1 DEF Awaits
    <3>4. PICK q \in Int, z \in 0 .. m - 1 : q = v \div m /\ z = v % m /\ v = m * q + z
      <4>1. v \in Int
        OBVIOUS
      <4>2. QED
        BY <4>1, DivMod
    <3>5. Same(v, z, m)
      <4>1. v = z + q * m
        BY <3>4
      <4>2. QED
        BY <4>1 DEF Same
    <3>6. Same(z, x, m)
      BY <3>2, <3>3, <3>4
    <3>7. Same(v, x, m)
      BY <3>5, <3>6, SameTransitive
    <3>8. QED
      BY <2>9, <3>1, <3>7
  <2>11. wrap.offset = Start(f, size) + 2 * h
    <3>1. wrap.offset = Start(g, size)
      BY <2>1, <2>2 DEF TopFits
    <3>2. Start(f, size) = 2 * size["r"] - 2 * (2 * h)
      BY <2>7 DEF Start
    <3>3. QED
      BY <2>2, <2>7, <3>1, <3>2
  <2>12. TopFits(f, wrap.mem, size, wrap.offset)
    <3>1. f.pc = "half2"
      BY <2>5 DEF Awaits
    <3>2. QED
      BY <2>7, <2>8, <2>10, <2>11, <3>1 DEF TopFits
  <2>13. wrap' = [frames |-> fr, mem |-> wrap.mem, offset |-> wrap.offset,
                  override |-> wrap.override]
    <3>1. wrap' = [wrap EXCEPT !.frames = fr]
      BY <1>1, <1>3, <2>3 DEF WrapReturn
    <3>2. wrap = [frames |-> wrap.frames, mem |-> wrap.mem, offset |-> wrap.offset,
                  override |-> wrap.override]
      BY DEF WrapRunsIn
    <3>3. QED
      BY <3>1, <3>2, RecordGoesOn
  <2>14. PICK y : /\ y = wrap' /\ y.frames = fr /\ y.mem = wrap.mem /\ y.offset = wrap.offset
                  /\ y.override = wrap.override
                  /\ y = [frames |-> y.frames, mem |-> y.mem, offset |-> y.offset,
                          override |-> y.override]
    BY <2>13
  <2>15. wrap.override \in Nat
    BY DEF WrapRunsIn
  <2>16. WrapRunsIn(y, size)
    BY <2>2, <2>4, <2>5, <2>12, <2>14, <2>15 DEF WrapRunsIn
  <2>17. QED
    BY <2>14, <2>16 DEF WrapHolds
<1>4. QED
  BY <1>2, <1>3

(* A call of the program: its operands are as many limbs as it asserts. *)
LEMMA RunEnter ==
  ASSUME WrapEnter
  PROVE  WrapHolds(wrap')
<1>1. PICK c \in WrapOperands, override \in WrapOverrides, garbage \in Leftovers :
        wrap' = [frames |-> <<WrapCall([a |-> c.a, b |-> c.b, r |-> Leftover(c.w, garbage),
                                        scratch |-> Leftover(WrapStorageSize(c.w), garbage)],
                                       Span("r", 0, c.w), Span("a", 0, Cardinality(DOMAIN c.a)),
                                       Span("b", 0, Cardinality(DOMAIN c.b)))>>,
                 mem |-> [a |-> c.a, b |-> c.b, r |-> Leftover(c.w, garbage),
                          scratch |-> Leftover(WrapStorageSize(c.w), garbage)],
                 offset |-> 0, override |-> override]
  BY DEF WrapEnter
<1>2. PICK w \in Nat \ {0} : w = c.w
  BY WrapAssumption
<1>3. PICK na \in 1 .. w : c.a \in [0 .. na - 1 -> 0 .. Base - 1]
  BY <1>2, WrapAssumption
<1>4. PICK nb \in 1 .. w : c.b \in [0 .. nb - 1 -> 0 .. Base - 1]
  BY <1>2, WrapAssumption
<1>5. Cardinality(DOMAIN c.a) = na /\ Cardinality(DOMAIN c.b) = nb
  <2>1. DOMAIN c.a = 0 .. na - 1 /\ DOMAIN c.b = 0 .. nb - 1
    BY <1>3, <1>4
  <2>2. Cardinality(0 .. na - 1) = IF 0 > na - 1 THEN 0 ELSE (na - 1) - 0 + 1
    BY FS_Interval
  <2>3. Cardinality(0 .. nb - 1) = IF 0 > nb - 1 THEN 0 ELSE (nb - 1) - 0 + 1
    BY FS_Interval
  <2>4. QED
    BY <2>1, <2>2, <2>3
<1>6. PICK s \in Nat : s = WrapStorageSize(w) /\ s = 3 * w + 16
  BY DEF WrapStorageSize
<1>7. Base \in Nat \ {0}
  BY BaseType
<1>8. /\ Leftover(w, garbage) \in [0 .. w - 1 -> 0 .. Base - 1]
      /\ Leftover(s, garbage) \in [0 .. s - 1 -> 0 .. Base - 1]
  BY LeftoverLimbs
<1>9. PICK mem : mem = [a |-> c.a, b |-> c.b, r |-> Leftover(w, garbage),
                        scratch |-> Leftover(s, garbage)]
  OBVIOUS
<1>10. PICK size : size = [x \in WrapAreas |-> IF x = "a" THEN na ELSE IF x = "b" THEN nb
                                               ELSE IF x = "r" THEN w ELSE s]
  OBVIOUS
<1>11. size["a"] = na /\ size["b"] = nb /\ size["r"] = w /\ size["scratch"] = s
       /\ DOMAIN size = WrapAreas
  BY <1>10 DEF WrapAreas
<1>12. WrapSizes(size)
  <2>1. size \in [WrapAreas -> Nat]
    BY <1>10
  <2>2. QED
    BY <1>6, <1>11, <2>1 DEF WrapSizes
<1>13. Memory(mem, size)
  <2>1. mem = [x \in WrapAreas |-> mem[x]]
    BY <1>9 DEF WrapAreas
  <2>2. /\ mem["a"] = c.a /\ mem["b"] = c.b /\ mem["r"] = Leftover(w, garbage)
        /\ mem["scratch"] = Leftover(s, garbage)
    BY <1>9
  <2>3. \A x \in WrapAreas : size[x] \in Nat /\ mem[x] \in [0 .. size[x] - 1 -> 0 .. Base - 1]
    <3> TAKE x \in WrapAreas
    <3>1. CASE x = "a"
      BY <1>3, <1>11, <2>2, <3>1
    <3>2. CASE x = "b"
      BY <1>4, <1>11, <2>2, <3>2
    <3>3. CASE x = "r"
      BY <1>8, <1>11, <2>2, <3>3
    <3>4. CASE x = "scratch"
      BY <1>8, <1>11, <2>2, <3>4
    <3>5. QED
      BY <3>1, <3>2, <3>3, <3>4 DEF WrapAreas
  <2>4. QED
    BY <1>11, <2>1, <2>3 DEF Memory
<1>14. PICK r, a, b : /\ r = Span("r", 0, w) /\ a = Span("a", 0, na) /\ b = Span("b", 0, nb)
                      /\ r \in WrapSpans /\ a \in WrapSpans /\ b \in WrapSpans
                      /\ In(a, size) /\ In(b, size)
                      /\ a.area = "a" /\ a.n = na /\ b.area = "b" /\ b.n = nb /\ r.n = w
  <2>1. na \in Nat /\ nb \in Nat
    OBVIOUS
  <2>2. QED
    <3>1. Span("r", 0, w) \in WrapSpans /\ Span("r", 0, w).n = w
      BY DEF Span, WrapSpans, WrapAreas
    <3>2. /\ Span("a", 0, na) \in WrapSpans /\ Span("a", 0, na).at = 0
          /\ Span("a", 0, na).n = na /\ Span("a", 0, na).area = "a"
      BY <2>1 DEF Span, WrapSpans, WrapAreas
    <3>3. /\ Span("b", 0, nb) \in WrapSpans /\ Span("b", 0, nb).at = 0
          /\ Span("b", 0, nb).n = nb /\ Span("b", 0, nb).area = "b"
      BY <2>1 DEF Span, WrapSpans, WrapAreas
    <3>4. In(Span("a", 0, na), size) /\ In(Span("b", 0, nb), size)
      BY <1>11, <2>1, <3>2, <3>3 DEF In, WrapSpans
    <3>5. QED
      BY <3>1, <3>2, <3>3, <3>4
<1>15. PICK x \in Nat, y \in Nat : x = Value(mem, a) /\ y = Value(mem, b)
  BY <1>13, <1>14, ValueType
<1>16. PICK m \in Nat \ {0} : m = Modulus(w)
  BY ModulusType
<1>17. PICK g : /\ g = WrapCall(mem, r, a, b)
                /\ g.pc = "enter" /\ g.r = r /\ g.a = a /\ g.b = b
                /\ g.product = (x * y) % m /\ g \in WrapFrames
  <2>1. ModularProduct(x, y, m) = (x * y) % m
    BY ModularProductIs
  <2>2. (x * y) % m \in Nat
    <3>1. x * y \in Int
      OBVIOUS
    <3>2. (x * y) % m \in 0 .. m - 1
      BY <3>1, DivMod
    <3>3. QED
      BY <3>2
  <2>3. WrapCall(mem, r, a, b)
          = [pc |-> "enter", r |-> r, a |-> a, b |-> b, product |-> (x * y) % m]
    BY <1>14, <1>15, <1>16, <2>1 DEF WrapCall
  <2>4. QED
    BY <1>14, <2>2, <2>3 DEF WrapFrames
<1>18. FrameFits(g, mem, size)
  <2>1. Task(g, mem) = x * y
    BY <1>15, <1>17 DEF Task
  <2>2. Below(a, Start(g, size)) /\ Below(b, Start(g, size))
    BY <1>14 DEF Below
  <2>3. na <= w /\ nb <= w
    OBVIOUS
  <2>4. QED
    BY <1>11, <1>14, <1>16, <1>17, <2>1, <2>2, <2>3 DEF FrameFits
<1>19. PICK fr : fr = <<g>>
  OBVIOUS
<1>20. Len(fr) = 1 /\ fr[1] = g /\ fr \in Seq(WrapFrames) /\ fr # <<>>
  BY <1>17, <1>19
<1>21. WrapStack(fr, mem, size)
  <2>1. \A i \in 1 .. 1 : i = 1
    OBVIOUS
  <2>2. g.r.n = w /\ w <= w
    BY <1>14, <1>17
  <2>3. QED
    BY <1>11, <1>18, <1>20, <2>1, <2>2 DEF WrapStack
<1>22. TopFits(g, mem, size, 0)
  <2>1. Start(g, size) = 0
    BY <1>11, <1>14, <1>17 DEF Start
  <2>2. QED
    BY <1>17, <2>1 DEF TopFits
<1>23. wrap' = [frames |-> fr, mem |-> mem, offset |-> 0, override |-> override]
  BY <1>1, <1>2, <1>5, <1>6, <1>9, <1>14, <1>17, <1>19
<1>24. PICK z : /\ z = wrap' /\ z.frames = fr /\ z.mem = mem /\ z.offset = 0
                /\ z.override = override
                /\ z = [frames |-> z.frames, mem |-> z.mem, offset |-> z.offset,
                        override |-> z.override]
  BY <1>23
<1>25. override \in Nat
  BY WrapAssumption
<1>26. WrapRunsIn(z, size)
  BY <1>12, <1>13, <1>20, <1>21, <1>22, <1>24, <1>25 DEF WrapRunsIn
<1>27. QED
  BY <1>24, <1>26 DEF WrapHolds

(* Every call uses the storage that the outermost one asked for. *)
LEMMA RunsInStorage ==
  ASSUME NEW size, WrapRunsIn(wrap, size)
  PROVE  WrapInStorage
<1>1. PICK f : f = WrapFrame /\ f = wrap.frames[Len(wrap.frames)]
  BY DEF WrapFrame
<1>2. /\ WrapStack(wrap.frames, wrap.mem, size) /\ WrapSizes(size) /\ f \in WrapFrames
      /\ FrameFits(f, wrap.mem, size) /\ TopFits(f, wrap.mem, size, wrap.offset)
      /\ size["r"] \in Nat /\ f.r.n \in Nat \ {0} /\ f.r.n <= size["r"]
      /\ Start(f, size) \in Nat /\ Start(f, size) + 2 * f.r.n = 2 * size["r"]
  BY <1>1, RunningFacts
<1>3. PICK c \in Nat : c = WrapStorageSize(wrap.frames[1].r.n) /\ c = 3 * size["r"] + 16
  <2>1. wrap.frames[1].r.n = size["r"]
    BY <1>2 DEF WrapStack
  <2>2. QED
    BY <1>2, <2>1 DEF WrapStorageSize
<1>4. PICK h \in Nat : h = f.r.n \div 2 /\ h = HalfOf(f) /\ 2 * h <= f.r.n
  <2>1. f.r.n \div 2 \in Nat /\ 2 * (f.r.n \div 2) <= f.r.n
    BY <1>2
  <2>2. QED
    BY <2>1 DEF HalfOf
<1>5. CASE f.pc \in {"enter", "return"}
  <2>1. wrap.offset = Start(f, size)
    BY <1>2, <1>5 DEF TopFits
  <2>2. f.a.n \in Nat /\ f.b.n \in Nat /\ f.a.n <= f.r.n /\ f.b.n <= f.r.n
    BY <1>2 DEF FrameFits, In
  <2>3. wrap.offset <= c /\ wrap.offset + f.a.n + f.b.n <= c
    BY <1>2, <1>3, <2>1, <2>2
  <2>4. f.pc # "crt"
    BY <1>5
  <2>5. QED
    BY <1>1, <1>3, <2>3, <2>4 DEF WrapInStorage
<1>6. CASE f.pc = "half2"
  <2>1. wrap.offset = Start(f, size) + 2 * h
    BY <1>2, <1>4, <1>6 DEF TopFits
  <2>2. wrap.offset <= c
    BY <1>2, <1>3, <1>4, <2>1
  <2>3. QED
    BY <1>1, <1>3, <1>6, <2>2 DEF WrapInStorage
<1>7. CASE f.pc = "crt"
  <2>1. wrap.offset = Start(f, size) + 3 * (h + 1) /\ f.r.n = 2 * h
    BY <1>2, <1>4, <1>7 DEF TopFits
  <2>2. wrap.offset <= c /\ wrap.offset + 2 * h <= c
    BY <1>2, <1>3, <1>4, <2>1
  <2>3. QED
    BY <1>1, <1>3, <1>4, <1>7, <2>2 DEF WrapInStorage
<1>8. QED
  BY <1>2, <1>5, <1>6, <1>7 DEF WrapFrames

LEMMA WrapHoldsProduct ==
  ASSUME WrapHolds(wrap)
  PROVE  WrappedProduct
<1>1. CASE wrap = WrapIdle
  <2>1. wrap.frames = <<>>
    BY <1>1 DEF WrapIdle
  <2>2. QED
    BY <2>1 DEF WrappedProduct, WrapInStorage
<1>2. ASSUME NEW size, WrapRunsIn(wrap, size) PROVE WrappedProduct
  <2>1. TopFits(WrapFrame, wrap.mem, size, wrap.offset)
    BY <1>2 DEF WrapRunsIn, WrapFrame
  <2>2. WrapInStorage
    BY <1>2, RunsInStorage
  <2>3. QED
    BY <2>1, <2>2 DEF TopFits, WrappedProduct
<1>3. QED
  BY <1>1, <1>2 DEF WrapHolds

LEMMA WrapHoldsOn ==
  ASSUME WrapHolds(wrap), [Next]_vars
  PROVE  WrapHolds(wrap)'
<1>1. CASE wrap' = wrap
  BY <1>1
<1>2. CASE WrapEnter
  BY <1>2, RunEnter
<1>3. CASE WrapStep
  <2>1. wrap.frames # <<>>
    BY <1>3 DEF WrapStep, WrapPlain, WrapCyclic, WrapSplit, WrapEntered, WrapHalf2, WrapCrt,
                WrapReturn
  <2>2. wrap # WrapIdle
    BY <2>1 DEF WrapIdle
  <2>3. PICK size : WrapRunsIn(wrap, size)
    BY <2>2 DEF WrapHolds
  <2>4. CASE WrapPlain
    BY <2>3, <2>4, RunPlain DEF WrapHolds
  <2>5. CASE WrapCyclic
    BY <2>3, <2>5, RunCyclic DEF WrapHolds
  <2>6. CASE WrapSplit
    BY <2>3, <2>6, RunSplit DEF WrapHolds
  <2>7. CASE WrapHalf2
    BY <2>3, <2>7, RunHalf2 DEF WrapHolds
  <2>8. CASE WrapCrt
    BY <2>3, <2>8, RunCrt DEF WrapHolds
  <2>9. CASE WrapReturn
    BY <2>3, <2>9, RunReturn
  <2>10. QED
    BY <1>3, <2>4, <2>5, <2>6, <2>7, <2>8, <2>9 DEF WrapStep
<1>4. QED
  BY <1>1, <1>2, <1>3 DEF Next, Enter, KaraRuns, DispRuns, WrapRuns, ToomRuns, WsRuns, vars

(* multiply_mod_bnm1 returns the product modulo B^w - 1 from every call of its recursion, and
   stays in the storage that multiply_mod_bnm1_storage_size asks for: for every width of a limb,
   all operands, every cutoff and any depth, whatever residue the cyclic transform picks. *)
THEOREM MultiplyModBnm1IsRight == Spec => []WrappedProduct
<1>1. Init => WrapHolds(wrap)
  BY DEF Init, WrapInit, WrapHolds
<1>2. WrapHolds(wrap) /\ [Next]_vars => WrapHolds(wrap)'
  BY WrapHoldsOn
<1>3. WrapHolds(wrap) => WrappedProduct
  BY WrapHoldsProduct
<1>4. QED
  BY <1>1, <1>2, <1>3, PTL DEF Spec
-----------------------------------------------------------------------------
(* The dispatcher and the pieces of a sliced product.                      *)

(* A trimmed span keeps at least one limb. *)
LEMMA TrimmedCounts ==
  ASSUME NEW n \in Nat \ {0}, NEW limbs
  PROVE  TrimmedSize(limbs, n) \in 1 .. n
<1> DEFINE Fits(k) == \A i \in k .. n - 1 : limbs[i] = 0
           S == {k \in 1 .. n : Fits(k)}
<1>1. PICK k \in S : \A m \in S : k <= m
  <2>1. n \in S /\ S \subseteq Nat
    OBVIOUS
  <2> HIDE DEF S
  <2>2. QED
    BY <2>1, Smallest
<1>2. k = 1 \/ limbs[k - 1] # 0
  <2> SUFFICES ASSUME k # 1, limbs[k - 1] = 0 PROVE FALSE
    OBVIOUS
  <2>1. k - 1 \in 1 .. n
    OBVIOUS
  <2>2. \A i \in k - 1 .. n - 1 : i = k - 1 \/ i \in k .. n - 1
    OBVIOUS
  <2>3. k - 1 \in S
    BY <2>1, <2>2
  <2>4. QED
    BY <1>1, <2>3
<1>3. QED
  BY <1>1, <1>2 DEF TrimmedSize

LEMMA SequenceDomain ==
  ASSUME NEW S, NEW s \in Seq(S), s # <<>>
  PROVE  \E n \in Nat : DOMAIN s = 1 .. n /\ 1 \in 1 .. n
<1>1. Len(s) \in Nat /\ DOMAIN s = 1 .. Len(s)
  OBVIOUS
<1>2. Len(s) # 0
  OBVIOUS
<1>3. 1 \in 1 .. Len(s)
  BY <1>1, <1>2
<1>4. QED
  BY <1>1, <1>3

(* A zone of the table is found for every size, and its ratio is at least 9/8. *)
LEMMA ZoneRatioFacts ==
  ASSUME NEW min
  PROVE  /\ ZoneRatio(min).num \in Nat /\ ZoneRatio(min).den \in Nat \ {0}
         /\ ZoneRatio(min).num * 8 >= ZoneRatio(min).den * 9
<1> DEFINE below == {i \in DOMAIN DispZones : DispZones[i].min <= min}
           Last(i) == i \in below \cup {1} /\ \A j \in below : j <= i
<1>1. PICK n \in Nat : DOMAIN DispZones = 1 .. n /\ 1 \in 1 .. n
  <2>1. PICK R : R = [min : Nat, num : Nat, den : Nat \ {0}]
    OBVIOUS
  <2>2. DispZones \in Seq(R) /\ DispZones # <<>>
    BY <2>1, DispAssumption
  <2>3. QED
    BY <2>2, SequenceDomain
<1>2. \E i : Last(i)
  <2>1. CASE below = {}
    BY <2>1
  <2>2. CASE below # {}
    <3> DEFINE S == {n - i : i \in below}
    <3>1. S \subseteq Nat /\ S # {}
      BY <1>1, <2>2
    <3>2. PICK m \in S : \A k \in S : m <= k
      <4> HIDE DEF S
      <4>1. QED
        BY <3>1, Smallest
    <3>3. PICK i \in below : m = n - i
      BY <3>2
    <3>4. \A j \in below : n - i <= n - j
      BY <3>2, <3>3
    <3>5. below \subseteq Nat
      BY <1>1
    <3> HIDE DEF below
    <3>6. \A j \in below : j <= i
      BY <3>4, <3>5
    <3>7. QED
      BY <3>6
  <2>3. QED
    BY <2>1, <2>2
<1>3. PICK i : i = (CHOOSE x \in below \cup {1} : \A j \in below : j <= x) /\ Last(i)
  <2> HIDE DEF below
  <2>1. QED
    BY <1>2
<1>4. ZoneRatio(min) = DispZones[i] /\ i \in DOMAIN DispZones
  BY <1>1, <1>3 DEF ZoneRatio
<1>5. DispZones[i] \in [min : Nat, num : Nat, den : Nat \ {0}]
  <2>1. PICK R : R = [min : Nat, num : Nat, den : Nat \ {0}]
    OBVIOUS
  <2>2. DispZones \in Seq(R)
    BY <2>1, DispAssumption
  <2>3. DispZones[i] \in R
    BY <1>4, <2>2
  <2>4. QED
    BY <2>1, <2>3
<1>6. DispZones[i].num * 8 >= DispZones[i].den * 9
  BY <1>4, DispAssumption
<1>7. QED
  BY <1>4, <1>5, <1>6

(* A slicing leaves operands as long as the short one, or shorter ones, alone. *)
LEMMA ShouldSliceAbove ==
  ASSUME NEW m \in Nat \ {0}, NEW rem \in Nat, ShouldSlice(m, rem)
  PROVE  rem > m
<1>1. PICK num \in Nat, den \in Nat \ {0} :
        num = ZoneRatio(m).num /\ den = ZoneRatio(m).den /\ num * 8 >= den * 9
  BY ZoneRatioFacts
<1>2. CASE rem * den >= m * num
  <2> SUFFICES ASSUME rem <= m PROVE FALSE
    OBVIOUS
  <2>1. PICK d \in Nat : m = rem + d
    <3>1. m - rem \in Nat /\ m = rem + (m - rem)
      OBVIOUS
    <3>2. QED
      BY <3>1
  <2>2. PICK e \in Nat : num * 8 = den * 9 + e
    <3>1. num * 8 - den * 9 \in Nat /\ num * 8 = den * 9 + (num * 8 - den * 9)
      BY <1>1
    <3>2. QED
      BY <3>1
  <2>3. m * num * 8 = m * den * 9 + m * e
    <3>1. m * num * 8 = m * (num * 8)
      OBVIOUS
    <3>2. m * (den * 9 + e) = m * den * 9 + m * e
      OBVIOUS
    <3>3. QED
      BY <2>2, <3>1, <3>2
  <2>4. m * den = rem * den + d * den
    BY <2>1
  <2>5. PICK mn \in Nat, rd \in Nat, dd \in Nat, me \in Nat, md \in Nat \ {0} :
          mn = m * num /\ rd = rem * den /\ dd = d * den /\ me = m * e /\ md = m * den
    <3>1. m * den \in Nat \ {0}
      BY MulPos
    <3>2. QED
      BY <3>1
  <2>6. rd >= mn /\ mn * 8 = md * 9 + me /\ md = rd + dd
    BY <1>2, <2>3, <2>4, <2>5
  <2>7. QED
    BY <2>5, <2>6
<1>3. CASE m >= DispToom3 /\ Toom3RefusesShape(m, rem)
  <2>1. m >= 5
    BY <1>3, DispAssumption
  <2>2. PICK k \in Nat : k = (rem + 2) \div 3 /\ 3 * k <= rem + 2
    OBVIOUS
  <2>3. m <= 2 * k
    BY <1>3, <2>2 DEF Toom3RefusesShape
  <2>4. QED
    BY <2>1, <2>2, <2>3
<1>4. QED
  BY <1>1, <1>2, <1>3 DEF ShouldSlice

(* The last piece. *)
LEMMA LastPieceFacts ==
  ASSUME NEW m \in Nat \ {0}, NEW n \in Nat \ {0}, NEW force
  PROVE  LET last == LastPiece(m, n, force)
         IN  /\ last.cuts \in Nat /\ last.rem \in Nat
             /\ 0 < last.rem /\ last.rem < 2 * m /\ last.cuts * m + last.rem = n
<1> DEFINE More(rem) == IF force THEN rem > m ELSE rem >= 2 * m \/ ShouldSlice(m, rem)
           Ends(k) == (\A j \in 0 .. k - 1 : More(n - j * m)) /\ ~More(n - k * m)
<1>1. PICK q \in Nat, r \in 0 .. m - 1 : q = n \div m /\ r = n % m /\ n = m * q + r
  <2>1. n \div m \in Nat
    BY DivNat
  <2>2. QED
    BY <2>1, DivMod
<1>2. \A j \in 0 .. q : j * m \in Nat /\ n - j * m \in Nat
  <2> TAKE j \in 0 .. q
  <2>1. PICK d \in Nat : q = j + d
    <3>1. q - j \in Nat /\ q = j + (q - j)
      OBVIOUS
    <3>2. QED
      BY <3>1
  <2>2. m * q = j * m + m * d
    BY <2>1
  <2>3. PICK jm \in Nat, md \in Nat : jm = j * m /\ md = m * d
    OBVIOUS
  <2>4. QED
    BY <1>1, <2>2, <2>3
<1>3. \A rem \in Nat : More(rem) => rem > m
  BY ShouldSliceAbove
<1>4. \A rem \in Nat : ~More(rem) => rem < 2 * m
  BY SMT
<1> HIDE DEF More
<1>5. ~More(n - q * m)
  <2>1. n - q * m = r
    BY <1>1
  <2>2. QED
    BY <1>1, <1>3, <2>1
<1>6. \E k \in 0 .. q : Ends(k)
  <2> DEFINE S == {k \in 0 .. q : ~More(n - k * m)}
  <2>1. q \in S /\ S \subseteq Nat
    BY <1>5
  <2>2. PICK k \in S : \A j \in S : k <= j
    <3> HIDE DEF S
    <3>1. QED
      BY <2>1, Smallest
  <2>3. \A j \in 0 .. k - 1 : j \in 0 .. q /\ j \notin S
    BY <2>2
  <2>4. QED
    BY <2>2, <2>3
<1>7. PICK k : /\ k = (CHOOSE x \in 0 .. q : Ends(x)) /\ k \in 0 .. q /\ Ends(k)
  <2> HIDE DEF Ends
  <2>1. QED
    BY <1>6
<1>8. LastPiece(m, n, force) = [cuts |-> k, rem |-> n - k * m]
  BY <1>1, <1>7 DEF LastPiece, More
<1>9. n - k * m \in Nat /\ n - k * m < 2 * m
  BY <1>2, <1>4, <1>7
<1>10. n - k * m > 0
  <2>1. CASE k = 0
    BY <2>1
  <2>2. CASE k # 0
    <3>1. PICK j \in Nat : k = j + 1 /\ j \in 0 .. k - 1 /\ j \in 0 .. q
      <4>1. k - 1 \in Nat /\ k = (k - 1) + 1 /\ k - 1 \in 0 .. k - 1 /\ k - 1 \in 0 .. q
        BY <1>7, <2>2
      <4>2. QED
        BY <4>1
    <3>2. n - j * m > m
      BY <1>2, <1>3, <1>7, <3>1
    <3>3. k * m = j * m + m
      BY <3>1
    <3>4. PICK jm \in Nat : jm = j * m
      BY <3>1
    <3>5. QED
      BY <3>2, <3>3, <3>4
  <2>3. QED
    BY <2>1, <2>2
<1>11. k * m + (n - k * m) = n
  BY <1>7
<1>12. QED
  BY <1>7, <1>8, <1>9, <1>10, <1>11

(* A span of one limb or more. *)
Holding(s) == "n" \in DOMAIN s /\ s.n \in Nat \ {0}

(* A frame of the dispatcher, and the slicing in it. *)
Slicing(f) ==
  /\ {"long", "short", "m", "cuts", "rem"} \subseteq DOMAIN f
  /\ Holding(f.long)
  /\ f.m \in Nat \ {0} /\ f.cuts \in Nat /\ f.rem \in Nat
  /\ 0 < f.rem /\ f.rem < 2 * f.m /\ f.cuts * f.m + f.rem = f.long.n
  /\ Holding(f.short)
DispSized(f) ==
  /\ {"pc", "a", "b"} \subseteq DOMAIN f /\ Holding(f.a) /\ Holding(f.b)
  /\ f.pc \in {"piece", "add"} => Slicing(f)

DispStack(fr) ==
  /\ Len(fr) \in Nat /\ fr = [i \in 1 .. Len(fr) |-> fr[i]]
  /\ \A i \in 1 .. Len(fr) : DispSized(fr[i])

DispHolds(x) == "frames" \in DOMAIN x /\ DispStack(x.frames)

LEMMA DispStackTop ==
  ASSUME NEW fr, DispStack(fr), fr # <<>>
  PROVE  Len(fr) \in Nat \ {0} /\ DispSized(fr[Len(fr)])
<1>1. PICK n \in Nat : n = Len(fr) /\ fr = [i \in 1 .. n |-> fr[i]]
  BY DEF DispStack
<1>2. n # 0
  <2> SUFFICES ASSUME n = 0 PROVE FALSE
    OBVIOUS
  <2>1. fr = <<>>
    BY <1>1
  <2>2. QED
    BY <2>1
<1>3. n \in 1 .. n
  BY <1>2
<1>4. QED
  BY <1>1, <1>2, <1>3 DEF DispStack

LEMMA DispStackPut ==
  ASSUME NEW fr, DispStack(fr), NEW g, DispSized(g)
  PROVE  DispStack([fr EXCEPT ![Len(fr)] = g])
<1>1. PICK n \in Nat : n = Len(fr) /\ fr = [i \in 1 .. n |-> fr[i]]
  BY DEF DispStack
<1>2. PICK gr : gr = [fr EXCEPT ![Len(fr)] = g]
  OBVIOUS
<1>3. gr = [i \in 1 .. n |-> IF i = n THEN g ELSE fr[i]]
  BY <1>1, <1>2, Zenon
<1>4. Len(gr) = n /\ gr = [i \in 1 .. n |-> gr[i]]
  BY <1>3
<1>5. \A i \in 1 .. n : gr[i] = g \/ gr[i] = fr[i]
  BY <1>3
<1>6. \A i \in 1 .. n : DispSized(gr[i])
  BY <1>1, <1>5 DEF DispStack
<1>7. DispStack(gr)
  BY <1>4, <1>6 DEF DispStack
<1>8. QED
  BY <1>2, <1>7

LEMMA DispStackPush ==
  ASSUME NEW fr, DispStack(fr), NEW g, DispSized(g)
  PROVE  DispStack(Append(fr, g))
<1>1. PICK n \in Nat : n = Len(fr) /\ fr = [i \in 1 .. n |-> fr[i]]
  BY DEF DispStack
<1>2. PICK gr : gr = Append(fr, g)
  OBVIOUS
<1>3. Len(gr) = n + 1 /\ gr = [i \in 1 .. n + 1 |-> gr[i]]
      /\ \A i \in 1 .. n + 1 : gr[i] = IF i = n + 1 THEN g ELSE fr[i]
  <2>1. PICK R : R = {fr[j] : j \in 1 .. n}
    OBVIOUS
  <2>2. fr \in Seq(R \cup {g})
    BY <1>1, <2>1
  <2>3. QED
    BY <1>1, <1>2, <2>2
<1>4. \A i \in 1 .. n + 1 : gr[i] = g \/ (i \in 1 .. n /\ gr[i] = fr[i])
  BY <1>3
<1>5. \A i \in 1 .. n + 1 : DispSized(gr[i])
  BY <1>1, <1>4 DEF DispStack
<1>6. DispStack(gr)
  BY <1>3, <1>5 DEF DispStack
<1>7. QED
  BY <1>2, <1>6

LEMMA DispStackPop ==
  ASSUME NEW fr, DispStack(fr), fr # <<>>
  PROVE  DispStack(SubSeq(fr, 1, Len(fr) - 1))
<1>1. PICK n \in Nat \ {0} : n = Len(fr)
  BY DispStackTop
<1>2. PICK m \in Nat : m = n - 1
  BY <1>1
<1>3. PICK gr : gr = SubSeq(fr, 1, Len(fr) - 1)
  OBVIOUS
<1>4. gr = [i \in 1 .. m |-> fr[i]]
  BY <1>1, <1>2, <1>3
<1>5. Len(gr) = m /\ gr = [i \in 1 .. m |-> gr[i]]
  BY <1>4
<1>6. \A i \in 1 .. m : i \in 1 .. n /\ gr[i] = fr[i]
  BY <1>2, <1>4
<1>7. \A i \in 1 .. m : DispSized(gr[i])
  BY <1>1, <1>6 DEF DispStack
<1>8. DispStack(gr)
  BY <1>5, <1>7 DEF DispStack
<1>9. QED
  BY <1>3, <1>8

(* Operands trimmed, in whatever memory. *)
LEMMA TrimmedHolding ==
  ASSUME NEW s, Holding(s), NEW mem
  PROVE  Holding(TrimmedSpan(mem, s))
<1>1. Trimmed(mem, s) \in 1 .. s.n
  BY TrimmedCounts DEF Trimmed, Holding
<1>2. QED
  BY <1>1 DEF Holding, TrimmedSpan, First

LEMMA SpanHolding ==
  ASSUME NEW area, NEW at, NEW n \in Nat \ {0}
  PROVE  Holding(Span(area, at, n))
BY DEF Holding, Span

LEMMA PieceHolding ==
  ASSUME NEW f, Slicing(f)
  PROVE  Holding(SlicePiece(f))
<1>1. PieceLength(f) \in Nat \ {0}
  BY DEF PieceLength, Slicing
<1>2. Holding(First(Subspan(f.long, f.i * f.m), PieceLength(f)))
  BY <1>1 DEF Slicing, Holding, First, Subspan
<1>3. QED
  BY <1>2, TrimmedHolding DEF SlicePiece

LEMMA CallSized ==
  ASSUME NEW a, NEW b, Holding(a), Holding(b), NEW mem, NEW r, NEW mode
  PROVE  DispSized(DispCall(mem, r, a, b, mode))
BY DEF DispSized, DispCall

LEMMA PcSized ==
  ASSUME NEW f, DispSized(f), NEW pc, NEW i, pc \in {"piece", "add"} => Slicing(f)
  PROVE  /\ DispSized([f EXCEPT !.pc = pc])
         /\ DispSized([f EXCEPT !.pc = pc, !.i = i])
BY DEF DispSized, Slicing

LEMMA SliceSized ==
  ASSUME DispHolds(disp), disp.frames # <<>>, DispSlice
  PROVE  DispHolds(disp')
<1>1. Holding(This.a) /\ Holding(This.b)
  BY DispStackTop DEF DispHolds, DispSized, This
<1>2. Holding(Left) /\ Holding(Right)
  BY <1>1, TrimmedHolding DEF Left, Right
<1>3. PICK x \in Nat \ {0}, y \in Nat \ {0} : x = Left.n /\ y = Right.n
  BY <1>2 DEF Holding
<1>4. MinSize \in Nat \ {0} /\ MaxSize \in Nat \ {0}
      /\ MaxSize = IF Left.n >= Right.n THEN Left.n ELSE Right.n
  BY <1>3 DEF MinSize, MaxSize, SmallerOf, LargerOf
<1>5. PICK last : last = LastPiece(MinSize, MaxSize, This.mode = "forced")
  OBVIOUS
<1>6. /\ last.cuts \in Nat /\ last.rem \in Nat /\ 0 < last.rem /\ last.rem < 2 * MinSize
      /\ last.cuts * MinSize + last.rem = MaxSize
  BY <1>4, <1>5, LastPieceFacts
<1>7. PICK long, short : /\ long = IF Left.n >= Right.n THEN Left ELSE Right
                         /\ short = IF Left.n >= Right.n THEN Right ELSE Left
  OBVIOUS
<1>8. Holding(long) /\ Holding(short) /\ long.n = MaxSize
  BY <1>2, <1>4, <1>7
<1>9. PICK f : f = [pc |-> "piece", r |-> This.r, a |-> This.a, b |-> This.b,
                    product |-> This.product, long |-> long, short |-> short,
                    m |-> MinSize, i |-> 0, cuts |-> last.cuts, rem |-> last.rem,
                    force |-> This.mode = "forced",
                    tmp |-> Span(Buffer(Len(disp.frames)), 0,
                                 MinSize + LargerOf(MinSize, last.rem))]
  OBVIOUS
<1>10. DispSized(f)
  BY <1>1, <1>4, <1>6, <1>8, <1>9 DEF DispSized, Slicing
<1>11. \E mem : disp' = [disp EXCEPT !.frames = DispBecomes(f), !.mem = mem]
  BY <1>5, <1>7, <1>9 DEF DispSlice
<1>12. DispStack(DispBecomes(f))
  BY <1>10, DispStackPut DEF DispHolds, DispBecomes
<1>13. QED
  BY <1>11, <1>12 DEF DispHolds

LEMMA EnterSized ==
  ASSUME DispEnter
  PROVE  DispHolds(disp')
<1>1. PICK p \in DispOperands, square \in BOOLEAN, garbage \in Leftovers,
           mode \in {"constant", "automatic", "forced", "disabled"} : \E mem :
        /\ disp' = [frames |-> <<DispCall(mem, Span(3, 0, Cardinality(DOMAIN p[1])
                                                              + Cardinality(DOMAIN p[2])),
                                          Span(1, 0, Cardinality(DOMAIN p[1])),
                                          IF square THEN Span(1, 0, Cardinality(DOMAIN p[1]))
                                          ELSE Span(2, 0, Cardinality(DOMAIN p[2])), mode)>>,
                    mem |-> mem, garbage |-> garbage]
  BY DEF DispEnter
<1>2. ASSUME NEW x \in {p[1], p[2]} PROVE Cardinality(DOMAIN x) \in Nat \ {0}
  BY DispAssumption
<1>3. PICK g : DispSized(g) /\ \E mem : disp' = [frames |-> <<g>>, mem |-> mem,
                                                   garbage |-> garbage]
  <2>1. Holding(Span(1, 0, Cardinality(DOMAIN p[1])))
        /\ Holding(Span(2, 0, Cardinality(DOMAIN p[2])))
    BY <1>2, SpanHolding
  <2>2. QED
    BY <1>1, <2>1, CallSized
<1>4. DispStack(<<g>>)
  <2>1. Len(<<g>>) = 1 /\ <<g>> = [i \in 1 .. 1 |-> <<g>>[i]] /\ <<g>>[1] = g
    OBVIOUS
  <2>2. QED
    BY <1>3, <2>1 DEF DispStack
<1>5. QED
  BY <1>3, <1>4 DEF DispHolds

LEMMA StepSized ==
  ASSUME DispHolds(disp), DispStep
  PROVE  DispHolds(disp')
<1>1. disp.frames # <<>>
  BY DEF DispStep, DispSingleLimb, DispConstant, DispSchoolbook, DispSquareSchoolbook,
         DispSquareLarge, DispPowerOfTwo, DispTransform, DispLadder, DispSlice, DispSkipPiece,
         DispFullPiece, DispShortPiece, DispAddPiece, DispReturn, MultiLimb, DispGeneral,
         DispEntered, AtPiece
<1>2. DispStack(disp.frames) /\ DispSized(This)
  BY <1>1, DispStackTop DEF DispHolds, This
<1>3. ASSUME NEW mem, disp' = DispReturned(mem) PROVE DispHolds(disp')
  <2>1. DispSized([This EXCEPT !.pc = "return"])
    BY <1>2, PcSized
  <2>2. DispStack(DispBecomes([This EXCEPT !.pc = "return"]))
    BY <1>2, <2>1, DispStackPut DEF DispBecomes
  <2>3. QED
    BY <1>3, <2>2 DEF DispReturned, DispHolds
<1>4. ASSUME This.pc \in {"piece", "add"} PROVE DispStack(DispBecomes(NextPiece(This)))
  <2>1. Slicing(This)
    BY <1>2, <1>4 DEF DispSized
  <2>2. DispSized(NextPiece(This))
    BY <1>2, <2>1, PcSized DEF NextPiece
  <2>3. QED
    BY <1>2, <2>2, DispStackPut DEF DispBecomes
<1>5. CASE \/ DispSingleLimb \/ DispConstant \/ DispSchoolbook \/ DispSquareSchoolbook
           \/ DispSquareLarge \/ DispPowerOfTwo \/ DispTransform \/ DispLadder
  <2>1. \E mem : disp' = DispReturned(mem)
    BY <1>5, Zenon DEF DispSingleLimb, DispConstant, DispSchoolbook, DispSquareSchoolbook,
                DispSquareLarge, DispPowerOfTwo, DispTransform, DispLadder
  <2>2. QED
    BY <1>3, <2>1
<1>6. CASE DispSlice
  BY <1>1, <1>6, SliceSized
<1>7. CASE DispSkipPiece
  BY <1>4, <1>7 DEF DispSkipPiece, AtPiece, DispHolds
<1>8. CASE DispFullPiece
  <2>1. \E mem : disp' = [disp EXCEPT !.mem = mem, !.frames = DispBecomes(NextPiece(This))]
    BY <1>8 DEF DispFullPiece
  <2>2. QED
    BY <1>4, <1>8, <2>1 DEF DispFullPiece, AtPiece, DispHolds
<1>9. CASE DispShortPiece
  <2>1. Slicing(This)
    BY <1>2, <1>9 DEF DispShortPiece, AtPiece, DispSized
  <2>2. DispStack(DispBecomes([This EXCEPT !.pc = "add"]))
    <3>1. DispSized([This EXCEPT !.pc = "add"])
      BY <1>2, <2>1, PcSized
    <3>2. QED
      BY <1>2, <3>1, DispStackPut DEF DispBecomes
  <2>3. PICK mem, g :
          /\ g = DispCall(mem, Target(This), SlicePiece(This), This.short, "automatic")
          /\ disp' = [disp EXCEPT !.mem = mem,
                        !.frames = Append(DispBecomes([This EXCEPT !.pc = "add"]), g)]
    BY <1>9 DEF DispShortPiece
  <2>4. DispSized(g)
    <3>1. Holding(SlicePiece(This)) /\ Holding(This.short)
      BY <2>1, PieceHolding DEF Slicing
    <3>2. QED
      BY <2>3, <3>1, CallSized
  <2>5. DispStack(Append(DispBecomes([This EXCEPT !.pc = "add"]), g))
    BY <2>2, <2>4, DispStackPush
  <2>6. QED
    BY <2>3, <2>5 DEF DispHolds
<1>10. CASE DispAddPiece
  BY <1>4, <1>10 DEF DispAddPiece, DispHolds
<1>11. CASE DispReturn
  <2>1. CASE disp' = DispIdle
    BY <2>1 DEF DispIdle, DispHolds, DispStack
  <2>2. CASE disp' # DispIdle
    <3>1. PICK mem : disp' = [disp EXCEPT !.frames = SubSeq(disp.frames, 1, Len(disp.frames) - 1),
                                          !.mem = mem]
      BY <1>11, <2>2 DEF DispReturn
    <3>2. DispStack(SubSeq(disp.frames, 1, Len(disp.frames) - 1))
      BY <1>1, <1>2, DispStackPop
    <3>3. QED
      BY <3>1, <3>2 DEF DispHolds
  <2>3. QED
    BY <2>1, <2>2
<1>12. QED
  BY <1>5, <1>6, <1>7, <1>8, <1>9, <1>10, <1>11 DEF DispStep

(* The pieces of every sliced product make up its long operand, and the last one is neither empty
   nor as long as two: for every zone table that the build accepts, all operands and any depth
   of slicings in slicings. *)
THEOREM LastPieceIsShort == Spec => []LastPieceShort
<1>1. Init => DispHolds(disp)
  BY DEF Init, DispInit, DispIdle, DispHolds, DispStack
<1>2. DispHolds(disp) /\ [Next]_vars => DispHolds(disp)'
  <2> SUFFICES ASSUME DispHolds(disp), [Next]_vars PROVE DispHolds(disp')
    BY DEF DispHolds, DispStack, DispSized, Slicing, Holding
  <2>1. CASE disp' = disp
    BY <2>1
  <2>2. CASE DispEnter
    BY <2>2, EnterSized
  <2>3. CASE DispStep
    BY <2>3, StepSized
  <2>4. QED
    BY <2>1, <2>2, <2>3 DEF Next, Enter, KaraRuns, DispRuns, WrapRuns, ToomRuns, WsRuns, vars
<1>3. DispHolds(disp) => LastPieceShort
  <2> SUFFICES ASSUME DispHolds(disp), NEW i \in DOMAIN disp.frames,
                      disp.frames[i].pc \in {"piece", "add"}
               PROVE  Slicing(disp.frames[i])
    BY DEF LastPieceShort, Slicing
  <2>1. i \in 1 .. Len(disp.frames)
    BY DEF DispHolds, DispStack
  <2>2. QED
    BY <2>1 DEF DispHolds, DispStack, DispSized
<1>4. QED
  BY <1>1, <1>2, <1>3, PTL DEF Spec

-----------------------------------------------------------------------------
(* The products of the dispatcher. Each kernel fills the limbs of its      *)
(* operands with their product and leaves all others; a slicing has the    *)
(* product of the pieces below i in the result, and a call that forms the  *)
(* product of a piece lies within the span its caller waits for.           *)

(* A span that is part of another one, however it was cut out. *)
Part(s, k, n) == [area |-> s.area, at |-> s.at + k, n |-> n]

LEMMA PartIs ==
  ASSUME NEW size, NEW s, In(s, size), NEW k \in Nat, NEW n \in Nat, k + n <= s.n
  PROVE  /\ In(Part(s, k, n), size)
         /\ Part(s, k, n).area = s.area /\ Part(s, k, n).at = s.at + k /\ Part(s, k, n).n = n
         /\ First(Subspan(s, k), n) = Part(s, k, n)
         /\ Subspan(First(s, k + n), k) = Part(s, k, n)
<1>1. PICK x \in DOMAIN size, p \in Nat, m \in Nat :
        s = [area |-> x, at |-> p, n |-> m] /\ size[x] \in Nat /\ p + m <= size[x]
  BY DEF In
<1>2. Part(s, k, n) = [area |-> x, at |-> p + k, n |-> n] /\ k + n <= m
  BY <1>1 DEF Part
<1>3. p + k \in Nat /\ (p + k) + n <= size[x]
  BY <1>1, <1>2
<1>4. First(Subspan(s, k), n) = [area |-> x, at |-> p + k, n |-> n]
  <2>1. s.at = p /\ s.n = m
    BY <1>1
  <2>2. Subspan(s, k) = [s EXCEPT !.at = p + k, !.n = m - k]
    BY <2>1 DEF Subspan
  <2>3. [s EXCEPT !.at = p + k] = [area |-> x, at |-> p + k, n |-> m]
    BY <1>1
  <2>4. Subspan(s, k) = [area |-> x, at |-> p + k, n |-> m - k]
    BY <2>2, <2>3
  <2>5. QED
    BY <2>4 DEF First
<1>5. Subspan(First(s, k + n), k) = [area |-> x, at |-> p + k, n |-> n]
  <2>1. First(s, k + n) = [area |-> x, at |-> p, n |-> k + n]
    BY <1>1 DEF First
  <2>2. PICK u : u = First(s, k + n) /\ u = [area |-> x, at |-> p, n |-> k + n]
    BY <2>1
  <2>3. (k + n) - k = n /\ u.at = p /\ u.n = k + n
    BY <2>2
  <2>4. Subspan(u, k) = [u EXCEPT !.at = p + k, !.n = n]
    BY <2>3 DEF Subspan
  <2>5. [u EXCEPT !.at = p + k] = [area |-> x, at |-> p + k, n |-> k + n]
    BY <2>2
  <2>6. QED
    BY <2>2, <2>4, <2>5
<1>6. QED
  BY <1>1, <1>2, <1>3, <1>4, <1>5 DEF In

(* The limbs outside a span stay. *)
Changes(mem, new, size, s) ==
  /\ \A x \in DOMAIN size : x # s.area => new[x] = mem[x]
  /\ \A i \in 0 .. size[s.area] - 1 :
       i < s.at \/ s.at + s.n <= i => new[s.area][i] = mem[s.area][i]

LEMMA ChangesStore ==
  ASSUME NEW mem, NEW size, Memory(mem, size), NEW s, In(s, size), NEW v \in Int
  PROVE  Changes(mem, Store(mem, s, v), size, s) /\ Memory(Store(mem, s, v), size)
<1>1. s.at \in Nat /\ s.n \in Nat /\ size[s.area] \in Nat
  BY DEF In
<1>2. \A i \in 0 .. size[s.area] - 1 :
        i < s.at \/ s.at + s.n <= i => ~(s.at <= i /\ i < s.at + s.n)
  BY <1>1
<1>3. \A i \in 0 .. size[s.area] - 1 :
        ~(s.at <= i /\ i < s.at + s.n) => Store(mem, s, v)[s.area][i] = mem[s.area][i]
  BY StoreLimbs
<1>4. \A x \in DOMAIN size : x # s.area => Store(mem, s, v)[x] = mem[x]
  BY StoreLimbs
<1>5. QED
  BY <1>2, <1>3, <1>4, StoreLimbs DEF Changes

LEMMA ChangesWithin ==
  ASSUME NEW mem, NEW new, NEW size, NEW s, In(s, size), NEW t, In(t, size),
         Changes(mem, new, size, t), t.area = s.area, s.at <= t.at, t.at + t.n <= s.at + s.n
  PROVE  Changes(mem, new, size, s)
<1>1. s.at \in Nat /\ s.n \in Nat /\ t.at \in Nat /\ t.n \in Nat /\ size[s.area] \in Nat
  BY DEF In
<1>2. \A i \in 0 .. size[s.area] - 1 :
        i < s.at \/ s.at + s.n <= i => i < t.at \/ t.at + t.n <= i
  BY <1>1
<1>3. QED
  BY <1>2 DEF Changes

LEMMA ChangesTwice ==
  ASSUME NEW mem, NEW new, NEW last, NEW size, NEW s,
         Changes(mem, new, size, s), Changes(new, last, size, s)
  PROVE  Changes(mem, last, size, s)
BY DEF Changes

LEMMA ChangesKeep ==
  ASSUME NEW mem, NEW new, NEW size, NEW s, In(s, size), Changes(mem, new, size, s),
         NEW t, In(t, size), Apart(t, s)
  PROVE  Value(new, t) = Value(mem, t)
<1>1. /\ t.area \in DOMAIN size /\ t.at \in Nat /\ t.n \in Nat /\ t.at + t.n <= size[t.area]
      /\ s.at \in Nat /\ s.n \in Nat /\ size[t.area] \in Nat
  BY DEF In
<1>2. \A i \in 0 .. t.n - 1 : Limb(new, t, i) = Limb(mem, t, i)
  <2>1. CASE t.area # s.area
    BY <1>1, <2>1 DEF Limb, Changes
  <2>2. CASE t.area = s.area
    <3> TAKE i \in 0 .. t.n - 1
    <3>1. PICK j \in Nat : j = t.at + i
      BY <1>1
    <3>2. j \in 0 .. size[s.area] - 1
      BY <1>1, <2>2, <3>1
    <3>3. j < s.at \/ s.at + s.n <= j
      BY <1>1, <2>2, <3>1 DEF Apart
    <3>4. new[s.area][j] = mem[s.area][j]
      BY <3>2, <3>3 DEF Changes
    <3>5. QED
      BY <2>2, <3>1, <3>4 DEF Limb
  <2>3. QED
    BY <2>1, <2>2
<1>3. [i \in 0 .. t.n - 1 |-> Limb(new, t, i)] = [i \in 0 .. t.n - 1 |-> Limb(mem, t, i)]
  BY <1>2
<1>4. QED
  BY <1>3 DEF Value

(* A kernel that fills a span with a number and touches nothing else. *)
Fills(mem, new, size, s, v) ==
  Memory(new, size) /\ Changes(mem, new, size, s) /\ Value(new, s) = v

LEMMA StoreFills ==
  ASSUME NEW mem, NEW size, Memory(mem, size), NEW s, In(s, size),
         NEW v \in Nat, v < Power(Base, s.n)
  PROVE  Fills(mem, Store(mem, s, v), size, s, v)
BY StoreFits, ChangesStore DEF Fills

LEMMA ProductFits ==
  ASSUME NEW m \in Nat, NEW n \in Nat, NEW x \in Nat, NEW y \in Nat,
         x < Power(Base, m), y < Power(Base, n)
  PROVE  x * y \in Nat /\ x * y < Power(Base, m + n)
<1>1. PICK p \in Nat, q \in Nat : p = Power(Base, m) /\ q = Power(Base, n)
                                  /\ Power(Base, m + n) = p * q
  BY BaseType, BasePower, PowerSum
<1>2. PICK d \in Nat, e \in Nat : p = x + 1 + d /\ q = y + 1 + e
  <2>1. p - x - 1 \in Nat /\ q - y - 1 \in Nat /\ p = x + 1 + (p - x - 1)
        /\ q = y + 1 + (q - y - 1)
    BY <1>1
  <2>2. QED
    BY <2>1
<1>3. p * q = x * y + x * (1 + e) + y * (1 + d) + (1 + d) * (1 + e)
  BY <1>2
<1>4. PICK xy \in Nat, c1 \in Nat, c2 \in Nat, c3 \in Nat \ {0} :
        xy = x * y /\ c1 = x * (1 + e) /\ c2 = y * (1 + d) /\ c3 = (1 + d) * (1 + e)
  <2>1. (1 + d) * (1 + e) \in Nat \ {0}
    BY MulPos
  <2>2. QED
    BY <2>1
<1>5. QED
  BY <1>1, <1>3, <1>4

(* A number that is added to the limbs from k on: the row that held the limbs up to k + q takes
   it up in n limbs, where the sum has that many. *)
LEMMA AddRow ==
  ASSUME NEW mem, NEW size, Memory(mem, size), NEW r, In(r, size),
         NEW k \in Nat, NEW q \in Nat, NEW n \in Nat, q <= n, k + n <= r.n, NEW p \in Nat,
         NEW old, old = Value(mem, Part(r, k, q)),
         Value(mem, First(r, k + q)) + Power(Base, k) * p < Power(Base, k + n)
  PROVE  Fills(mem, Store(mem, Part(r, k, n), old + p), size, First(r, k + n),
               Value(mem, First(r, k + q)) + Power(Base, k) * p)
<1>1. r.n \in Nat /\ k + q <= r.n /\ k + q \in Nat /\ k + n \in Nat /\ k <= k + q /\ k <= k + n
      /\ (k + n) - k = n /\ (k + q) - k = q /\ k <= r.n /\ r.at \in Nat
  BY DEF In
<1>2. PICK new : new = Store(mem, Part(r, k, n), old + p)
  OBVIOUS
<1>3. PICK lo : lo = First(r, k) /\ In(lo, size) /\ lo.area = r.area /\ lo.at = r.at /\ lo.n = k
  BY <1>1, PartsIn
<1>4. /\ In(First(r, k + q), size) /\ In(First(r, k + n), size)
      /\ First(r, k + q).n = k + q /\ First(r, k + n).n = k + n
      /\ First(r, k + n).at = r.at /\ First(r, k + n).area = r.area
  BY <1>1, PartsIn
<1>5. First(First(r, k + q), k) = lo /\ First(First(r, k + n), k) = lo
  BY <1>3 DEF First
<1>6. /\ In(Part(r, k, q), size) /\ Subspan(First(r, k + q), k) = Part(r, k, q)
      /\ Part(r, k, q).n = q
  BY <1>1, PartIs
<1>7. /\ In(Part(r, k, n), size) /\ Subspan(First(r, k + n), k) = Part(r, k, n)
      /\ Part(r, k, n).n = n /\ Part(r, k, n).at = r.at + k /\ Part(r, k, n).area = r.area
  BY <1>1, PartIs
<1>8. PICK x \in Nat : x = Value(mem, lo)
  BY <1>3, ValueType
<1>9. old \in Nat
  BY <1>6, ValueType
<1>10. Value(mem, First(r, k + q)) = x + Power(Base, k) * old
  BY <1>1, <1>4, <1>5, <1>6, <1>8, ValueSplit
<1>11. PICK b \in Nat \ {0}, c \in Nat \ {0} : b = Power(Base, k) /\ c = Power(Base, n)
                                            /\ Power(Base, k + n) = b * c
  <2>1. Power(Base, k) \in Nat \ {0} /\ Power(Base, n) \in Nat \ {0}
    BY BasePower
  <2>2. Power(Base, k + n) = Power(Base, k) * Power(Base, n)
    BY BaseType, PowerSum
  <2>3. QED
    BY <2>1, <2>2
<1>12. old + p \in Nat /\ old + p < c
  <2>1. x + b * old + b * p < b * c
    BY <1>10, <1>11
  <2>2. PICK s \in Nat : s = old + p
    BY <1>9
  <2>3. b * s = b * old + b * p
    BY <1>9, <2>2
  <2>4. b * s < b * c
    <3>1. PICK b1 \in Nat, b2 \in Nat, b3 \in Nat, b4 \in Nat :
            b1 = b * old /\ b2 = b * p /\ b3 = b * s /\ b4 = b * c
      <4>1. \A y \in Nat : b * y \in Nat
        OBVIOUS
      <4>2. b * old \in Nat /\ b * p \in Nat /\ b * s \in Nat /\ b * c \in Nat
        BY <1>9, <4>1
      <4>3. QED
        BY <4>2
    <3>2. QED
      BY <2>1, <2>3, <3>1
  <2>5. s < c
    <3> SUFFICES ASSUME c <= s PROVE FALSE
      BY <2>2
    <3>1. PICK d \in Nat : s = c + d
      <4>1. s - c \in Nat /\ s = c + (s - c)
        OBVIOUS
      <4>2. QED
        BY <4>1
    <3>2. b * s = b * c + b * d
      BY <3>1
    <3>3. PICK bd \in Nat, bc \in Nat, bs \in Nat : bd = b * d /\ bc = b * c /\ bs = b * s
      OBVIOUS
    <3>4. QED
      BY <2>4, <3>2, <3>3
  <2>6. QED
    BY <2>2, <2>5
<1>13. Fills(mem, new, size, Part(r, k, n), old + p)
  BY <1>2, <1>7, <1>11, <1>12, StoreFills
<1>14. Value(new, lo) = x
  <2>1. Apart(lo, Part(r, k, n))
    BY <1>1, <1>3, <1>7 DEF Apart
  <2>2. QED
    BY <1>3, <1>7, <1>8, <1>13, <2>1, ChangesKeep DEF Fills
<1>15. Value(new, First(r, k + n)) = x + Power(Base, k) * (old + p)
  BY <1>1, <1>4, <1>5, <1>7, <1>13, <1>14, ValueSplit DEF Fills
<1>16. x + b * (old + p) = (x + b * old) + b * p
  BY <1>9
<1>17. Changes(mem, new, size, First(r, k + n))
  <2>1. Part(r, k, n).at + Part(r, k, n).n <= First(r, k + n).at + First(r, k + n).n
        /\ First(r, k + n).at <= Part(r, k, n).at
    BY <1>1, <1>4, <1>7
  <2>2. QED
    BY <1>4, <1>7, <1>13, <2>1, ChangesWithin DEF Fills
<1>18. QED
  BY <1>2, <1>10, <1>11, <1>13, <1>15, <1>16, <1>17 DEF Fills

(* The memories of one shape. *)
Memories(size) ==
  {m \in [DOMAIN size -> UNION {[0 .. size[x] - 1 -> 0 .. Base - 1] : x \in DOMAIN size}] :
     Memory(m, size)}

LEMMA MemoriesAre ==
  ASSUME NEW m, NEW size
  PROVE  Memory(m, size) <=> m \in Memories(size)
<1>1. ASSUME Memory(m, size) PROVE m \in Memories(size)
  <2>1. \A x \in DOMAIN size :
          m[x] \in UNION {[0 .. size[y] - 1 -> 0 .. Base - 1] : y \in DOMAIN size}
    BY <1>1 DEF Memory
  <2>2. m = [x \in DOMAIN size |-> m[x]]
    BY <1>1 DEF Memory
  <2>3. m \in [DOMAIN size -> UNION {[0 .. size[x] - 1 -> 0 .. Base - 1] : x \in DOMAIN size}]
    BY <2>1, <2>2
  <2>4. QED
    BY <1>1, <2>3 DEF Memories
<1>2. QED
  BY <1>1 DEF Memories

(* One limb shows itself. *)
LEMMA ValueOne ==
  ASSUME NEW mem, NEW size, Memory(mem, size), NEW s, In(s, size), s.n = 1
  PROVE  Value(mem, s) = Limb(mem, s, 0) /\ Limb(mem, s, 0) \in 0 .. Base - 1
<1>1. DigitsUpTo(Under(mem, s), 1) /\ Under(mem, s)[0] = Limb(mem, s, 0)
      /\ IsWritten(Under(mem, s), 1) /\ Value(mem, s) = Magnitude(Under(mem, s), 1)
  <2>1. IsArray(Under(mem, s), 1) /\ 1 \in Nat /\ 1 \in 0 .. 1
    BY UnderFacts
  <2>2. QED
    BY <2>1, UnderFacts, ArrayDigits
<1>2. FromDigits(Base, Under(mem, s), 0 + 1)
        = FromDigits(Base, Under(mem, s), 0) + Under(mem, s)[0] * Power(Base, 0)
      /\ FromDigits(Base, Under(mem, s), 0) = 0
  <2>1. DigitsUpTo(Under(mem, s), 0 + 1) /\ Base \in Nat
    BY <1>1, BaseType
  <2>2. DigitsUpTo(Under(mem, s), 0)
    BY DEF DigitsUpTo
  <2>3. QED
    BY <2>1, <2>2, FromDigitsStep, FromDigitsType
<1>3. Limb(mem, s, 0) \in 0 .. Base - 1
  <2>1. IsArray(Under(mem, s), 1)
    BY UnderFacts
  <2>2. Under(mem, s)[0] \in 0 .. Base
    BY <2>1 DEF IsArray
  <2>3. Under(mem, s)[0] < Base
    BY <1>1 DEF IsWritten
  <2>4. QED
    BY <1>1, <2>2, <2>3, BaseType
<1>4. Power(Base, 0) = 1
  BY BaseType, PowerOne
<1>5. QED
  BY <1>1, <1>2, <1>3, <1>4, BaseType DEF Magnitude

(* The lowest limbs, one at a time. *)
LEMMA ValueNext ==
  ASSUME NEW mem, NEW size, Memory(mem, size), NEW s, In(s, size), NEW i \in Nat, i + 1 <= s.n
  PROVE  /\ Limb(mem, s, i) \in 0 .. Base - 1
         /\ Value(mem, First(s, i + 1)) = Value(mem, First(s, i)) + Power(Base, i) * Limb(mem, s, i)
<1>1. s.n \in Nat /\ i + 1 \in Nat /\ i <= s.n /\ i <= i + 1 /\ s.at \in Nat
  BY DEF In
<1>2. In(First(s, i + 1), size) /\ First(s, i + 1).n = i + 1
  BY <1>1, PartsIn
<1>3. In(Part(s, i, 1), size) /\ Part(s, i, 1).n = 1 /\ Part(s, i, 1).at = s.at + i
      /\ Part(s, i, 1).area = s.area /\ Subspan(First(s, i + 1), i) = Part(s, i, 1)
  BY <1>1, PartIs
<1>4. First(First(s, i + 1), i) = First(s, i)
  BY DEF First
<1>5. Limb(mem, Part(s, i, 1), 0) = Limb(mem, s, i)
  BY <1>1, <1>3 DEF Limb
<1>6. Value(mem, Part(s, i, 1)) = Limb(mem, s, i) /\ Limb(mem, s, i) \in 0 .. Base - 1
  BY <1>3, <1>5, ValueOne
<1>7. Value(mem, First(s, i + 1))
        = Value(mem, First(First(s, i + 1), i))
            + Power(Base, i) * Value(mem, Subspan(First(s, i + 1), i))
  BY <1>1, <1>2, ValueSplit
<1>8. QED
  BY <1>3, <1>4, <1>6, <1>7

(* multiply_long, whatever the destination held. *)
LEMMA MultiplyLongFills ==
  ASSUME NEW mem, NEW size, Memory(mem, size), NEW r, In(r, size), NEW a, In(a, size),
         NEW b, In(b, size), a.n # 0, a.n + b.n <= r.n
  PROVE  Fills(mem, MultiplyLong(mem, r, a, b), size, First(r, a.n + b.n),
               Value(mem, a) * Value(mem, b))
<1>1. PICK la \in Nat \ {0}, lb \in Nat : la = a.n /\ lb = b.n /\ la + lb <= r.n
  BY DEF In
<1>2. r.n \in Nat /\ r.at \in Nat
  BY DEF In
<1>3. PICK vb \in Nat : vb = Value(mem, b) /\ vb < Power(Base, lb)
  BY <1>1, ValueType
<1> DEFINE Row(m, k) ==
             Store(m, Part(r, k, lb + 1),
                   (IF k = 0 THEN 0 ELSE Value(m, Part(r, k, lb))) + Limb(mem, a, k) * vb)
           Is(f) == f = [i \in 0 .. la |->
                           IF i = 0 THEN mem
                           ELSE LET row == First(Subspan(r, i - 1), b.n)
                                    old == IF i = 1 THEN 0 ELSE Value(f[i - 1], row)
                                IN  Store(f[i - 1], First(row, b.n + 1),
                                          old + Limb(mem, a, i - 1) * Value(mem, b))]
           q == CHOOSE f : Is(f)
<1>4. ASSUME NEW k \in 0 .. la - 1
      PROVE  /\ In(Part(r, k, lb), size) /\ In(Part(r, k, lb + 1), size)
             /\ First(Subspan(r, k), b.n) = Part(r, k, lb)
             /\ First(Part(r, k, lb), b.n + 1) = Part(r, k, lb + 1)
             /\ Limb(mem, a, k) \in 0 .. Base - 1
  <2>1. k \in Nat /\ k + lb <= r.n /\ k + (lb + 1) <= r.n /\ lb + 1 \in Nat /\ k + 1 <= a.n
    BY <1>1, <1>2
  <2>2. First(Part(r, k, lb), lb + 1) = Part(r, k, lb + 1)
    BY DEF First, Part
  <2>3. QED
    BY <1>1, <2>1, <2>2, PartIs, ValueNext
<1>5. ASSUME NEW k \in 0 .. la - 1, NEW f
      PROVE  LET i == k + 1
                 row == First(Subspan(r, i - 1), b.n)
                 old == IF i = 1 THEN 0 ELSE Value(f[i - 1], row)
             IN  Store(f[i - 1], First(row, b.n + 1),
                       old + Limb(mem, a, i - 1) * Value(mem, b)) = Row(f[k], k)
  <2>1. (k + 1) - 1 = k /\ (k + 1 = 1 <=> k = 0)
    OBVIOUS
  <2>2. QED
    BY <1>1, <1>3, <1>4, <2>1
<1>6. ASSUME NEW k \in 0 .. la - 1, NEW m, Memory(m, size) PROVE Memory(Row(m, k), size)
  <2>1. Value(m, Part(r, k, lb)) \in Nat
    BY <1>4, <1>6, ValueType
  <2>2. Limb(mem, a, k) * vb \in Nat
    <3>1. Limb(mem, a, k) \in Nat
      BY <1>4, BaseType
    <3>2. QED
      BY <3>1
  <2>3. (IF k = 0 THEN 0 ELSE Value(m, Part(r, k, lb))) + Limb(mem, a, k) * vb \in Int
    BY <2>1, <2>2
  <2>4. QED
    BY <1>4, <1>6, <2>3, StoreLimbs
<1>7. \E f : Is(f)
  <2>1. PICK step : /\ IsStep(step, la, Memories(size))
                    /\ \A k \in 0 .. la - 1, m \in Memories(size) : step[<<k, m>>] = Row(m, k)
    <3>1. IsStep([x \in (0 .. la - 1) \X Memories(size) |-> Row(x[2], x[1])], la, Memories(size))
      <4>1. \A x \in (0 .. la - 1) \X Memories(size) : Row(x[2], x[1]) \in Memories(size)
        BY <1>6, MemoriesAre
      <4> HIDE DEF Row
      <4>2. QED
        BY <4>1 DEF IsStep
    <3> HIDE DEF Row
    <3>2. QED
      BY <3>1
  <2>2. PICK f : Runs(f, la, Memories(size), mem, step)
    BY <2>1, MemoriesAre, RecursionExists
  <2> HIDE DEF Row
  <2>3. \A i \in 1 .. la : i - 1 \in 0 .. la - 1 /\ (i - 1) + 1 = i
    OBVIOUS
  <2>4. \A k \in 0 .. la - 1 : f[k + 1] = Row(f[k], k)
    <3> TAKE k \in 0 .. la - 1
    <3>1. k \in 0 .. la
      OBVIOUS
    <3>2. f[k] \in Memories(size)
      BY <2>2, <3>1 DEF Runs
    <3>3. f[k + 1] = step[<<k, f[k]>>]
      BY <2>2 DEF Runs
    <3>4. QED
      BY <2>1, <3>2, <3>3
  <2>5. \A i \in 0 .. la : i # 0 => i \in 1 .. la
    OBVIOUS
  <2>6. ASSUME NEW i \in 1 .. la
        PROVE  LET row == First(Subspan(r, i - 1), b.n)
                   old == IF i = 1 THEN 0 ELSE Value(f[i - 1], row)
               IN  f[i] = Store(f[i - 1], First(row, b.n + 1),
                                old + Limb(mem, a, i - 1) * Value(mem, b))
    <3>1. PICK k \in 0 .. la - 1 : i = k + 1
      BY <2>3
    <3>2. f[k + 1] = Row(f[k], k)
      BY <2>4
    <3>3. QED
      BY <1>5, <3>1, <3>2
  <2>7. f \in [0 .. la -> Memories(size)] /\ f[0] = mem
    BY <2>2 DEF Runs
  <2>8. Is(f)
    BY <2>5, <2>6, <2>7
  <2>9. QED
    BY <2>8
<1>8. Is(q)
  <2> HIDE DEF Is
  <2>1. QED
    BY <1>7
<1>9. MultiplyLong(mem, r, a, b) = q[la]
  BY <1>1 DEF MultiplyLong
<1> HIDE DEF q
<1>10. q[0] = mem /\ \A k \in 0 .. la - 1 : q[k + 1] = Row(q[k], k)
  <2>1. q[0] = mem
    BY <1>8
  <2>2. ASSUME NEW k \in 0 .. la - 1 PROVE q[k + 1] = Row(q[k], k)
    <3>1. k + 1 \in 0 .. la /\ k + 1 # 0
      OBVIOUS
    <3>2. LET i == k + 1
              row == First(Subspan(r, i - 1), b.n)
              old == IF i = 1 THEN 0 ELSE Value(q[i - 1], row)
          IN  q[i] = Store(q[i - 1], First(row, b.n + 1),
                           old + Limb(mem, a, i - 1) * Value(mem, b))
      BY <1>8, <3>1
    <3> HIDE DEF Row
    <3>3. QED
      BY <1>5, <3>2
  <2>3. QED
    BY <2>1, <2>2
<1> HIDE DEF Is
<1> DEFINE A(i) == Value(mem, First(a, i))
           Done(i) == Fills(mem, q[i], size, First(r, i + lb), A(i) * vb)
<1>11. ASSUME NEW i \in 0 .. la PROVE A(i) \in Nat /\ A(i) < Power(Base, i)
  BY <1>1, PartsIn, ValueType
<1>12. Done(1)
  <2>1. PICK c \in Nat : c = Limb(mem, a, 0) /\ A(1) = c
    <3>1. First(a, 1) = Part(a, 0, 1) /\ In(Part(a, 0, 1), size) /\ Part(a, 0, 1).n = 1
          /\ Limb(mem, Part(a, 0, 1), 0) = Limb(mem, a, 0)
      <4>1. 0 + 1 <= a.n /\ a.at \in Nat /\ a.at + 0 = a.at
        BY <1>1 DEF In
      <4>2. In(Part(a, 0, 1), size) /\ Part(a, 0, 1).n = 1 /\ Part(a, 0, 1).at = a.at + 0
            /\ Part(a, 0, 1).area = a.area
        BY <4>1, PartIs
      <4>3. First(a, 1) = Part(a, 0, 1)
        BY <4>1 DEF First, Part, In
      <4>4. QED
        BY <4>1, <4>2, <4>3 DEF Limb
    <3>2. Value(mem, Part(a, 0, 1)) = Limb(mem, Part(a, 0, 1), 0)
          /\ Limb(mem, Part(a, 0, 1), 0) \in 0 .. Base - 1
      BY <3>1, ValueOne
    <3>3. QED
      BY <3>1, <3>2, BaseType
  <2>2. c * vb \in Nat /\ c * vb < Power(Base, 1 + lb)
    <3>1. c < Power(Base, 1)
      BY <1>11, <2>1
    <3>2. QED
      BY <1>3, <3>1, ProductFits
  <2>3. PICK s : s = First(r, 1 + lb) /\ s = Part(r, 0, lb + 1) /\ In(s, size) /\ s.n = 1 + lb
    <3>1. 1 + lb = lb + 1 /\ r.at + 0 = r.at /\ 1 + lb \in Nat /\ 1 + lb <= r.n
      BY <1>1, <1>2
    <3>2. First(r, 1 + lb) = Part(r, 0, lb + 1)
      BY <3>1 DEF First, Part, In
    <3>3. In(First(r, 1 + lb), size) /\ First(r, 1 + lb).n = 1 + lb
      BY <3>1, PartsIn
    <3>4. QED
      BY <3>2, <3>3
  <2>4. q[0 + 1] = Store(mem, s, c * vb)
    <3>1. 0 \in 0 .. la - 1
      BY <1>1
    <3>2. q[0 + 1] = Row(mem, 0)
      BY <1>10, <3>1
    <3>3. QED
      BY <2>1, <2>2, <2>3, <3>2
  <2>5. Fills(mem, Store(mem, s, c * vb), size, s, c * vb)
    BY <2>2, <2>3, StoreFills
  <2>6. QED
    BY <2>1, <2>3, <2>4, <2>5
<1>13. ASSUME NEW i \in 1 .. la - 1, Done(i) PROVE Done(i + 1)
  <2>1. /\ i \in Nat /\ i \in 0 .. la - 1 /\ i \in 0 .. la /\ i + 1 \in 0 .. la /\ i # 0
        /\ i + (lb + 1) <= r.n /\ lb <= lb + 1 /\ lb + 1 \in Nat /\ i + 1 <= a.n
        /\ i + (lb + 1) = (i + 1) + lb /\ i + lb <= r.n
    BY <1>1, <1>2
  <2>2. PICK m : m = q[i] /\ Memory(m, size) /\ Changes(mem, m, size, First(r, i + lb))
                 /\ Value(m, First(r, i + lb)) = A(i) * vb
    BY <1>13 DEF Fills
  <2>3. PICK c \in Nat : c = Limb(mem, a, i) /\ A(i + 1) = A(i) + Power(Base, i) * c
    BY <2>1, ValueNext, BaseType
  <2>4. PICK x \in Nat, y \in Nat, b1 \in Nat : x = A(i) /\ y = A(i + 1) /\ b1 = Power(Base, i)
    BY <1>11, <2>1, BasePower
  <2>5. y * vb = x * vb + b1 * (c * vb)
    <3>1. y = x + b1 * c
      BY <2>3, <2>4
    <3>2. (x + b1 * c) * vb = x * vb + b1 * (c * vb)
      OBVIOUS
    <3>3. QED
      BY <3>1, <3>2
  <2>6. y * vb \in Nat /\ y * vb < Power(Base, (i + 1) + lb)
    <3>1. y < Power(Base, i + 1) /\ i + 1 \in Nat
      BY <1>11, <2>1, <2>4
    <3>2. QED
      BY <1>3, <3>1, ProductFits
  <2>7. PICK p \in Nat : p = c * vb
    OBVIOUS
  <2>8. Value(m, First(r, i + lb)) + Power(Base, i) * p = y * vb
    BY <2>2, <2>4, <2>5, <2>7
  <2>9. PICK old : old = Value(m, Part(r, i, lb))
    OBVIOUS
  <2>10. Fills(m, Store(m, Part(r, i, lb + 1), old + p), size, First(r, i + (lb + 1)), y * vb)
    <3>1. Value(m, First(r, i + lb)) + Power(Base, i) * p < Power(Base, i + (lb + 1))
      BY <2>1, <2>6, <2>8
    <3>2. Fills(m, Store(m, Part(r, i, lb + 1), old + p), size, First(r, i + (lb + 1)),
                Value(m, First(r, i + lb)) + Power(Base, i) * p)
      BY <2>1, <2>2, <2>9, <3>1, AddRow
    <3>3. QED
      BY <2>8, <3>2
  <2>11. q[i + 1] = Store(m, Part(r, i, lb + 1), old + p)
    BY <1>10, <2>1, <2>2, <2>3, <2>7, <2>9
  <2>12. Changes(mem, m, size, First(r, (i + 1) + lb))
    <3>1. /\ In(First(r, i + lb), size) /\ First(r, i + lb).n = i + lb
          /\ First(r, i + lb).at = r.at /\ First(r, i + lb).area = r.area
      BY <1>1, <2>1, PartsIn
    <3>2. /\ In(First(r, (i + 1) + lb), size) /\ First(r, (i + 1) + lb).n = (i + 1) + lb
          /\ First(r, (i + 1) + lb).at = r.at /\ First(r, (i + 1) + lb).area = r.area
      BY <1>1, <2>1, PartsIn
    <3>3. r.at <= r.at /\ r.at + (i + lb) <= r.at + ((i + 1) + lb)
      BY <1>2, <2>1
    <3>4. QED
      BY <2>2, <3>1, <3>2, <3>3, ChangesWithin
  <2>13. QED
    BY <2>1, <2>4, <2>10, <2>11, <2>12, ChangesTwice DEF Fills
<1> HIDE DEF Done
<1> DEFINE S == {i \in Nat : i + 1 <= la => Done(i + 1)}
<1>14. 0 \in S
  BY <1>12
<1>15. ASSUME NEW k \in S PROVE k + 1 \in S
  <2> SUFFICES ASSUME (k + 1) + 1 <= la PROVE Done((k + 1) + 1)
    OBVIOUS
  <2>1. k + 1 \in 1 .. la - 1 /\ Done(k + 1)
    OBVIOUS
  <2>2. QED
    BY <1>13, <2>1
<1>16. S \in SUBSET Nat /\ la - 1 \in Nat
  BY <1>1
<1> HIDE DEF S
<1>17. la - 1 \in S
  BY <1>14, <1>15, <1>16, Induction
<1>18. Done(la)
  <2>1. (la - 1) + 1 = la
    OBVIOUS
  <2>2. QED
    BY <1>17, <2>1 DEF S
<1>19. First(a, la) = a
  BY <1>1 DEF First, In
<1>20. QED
  BY <1>1, <1>3, <1>9, <1>18, <1>19 DEF Done

(* A power of two is its top limb. *)
LEMMA PowerOfTwoTop ==
  ASSUME NEW mem, NEW size, Memory(mem, size), NEW s, In(s, size), NEW n \in Nat, s.n = n + 1,
         HasLimbs(Value(mem, s), s.n), PowerOfTwo(mem, s)
  PROVE  /\ Limb(mem, s, n) \in Nat /\ Limb(mem, s, n) < Base
         /\ Value(mem, s) = Power(Base, n) * Limb(mem, s, n)
<1>1. PICK top \in Nat : top = Limb(mem, s, n) /\ top < Base
  <2>1. Limb(mem, s, n) \in 0 .. Base - 1
    BY ValueNext
  <2>2. QED
    BY <2>1, BaseType
<1>2. First(s, n + 1) = s
  BY DEF First, In
<1>3. PICK low \in Nat : low = Value(mem, First(s, n)) /\ low < Power(Base, n)
  <2>1. In(First(s, n), size) /\ First(s, n).n = n
    BY PartsIn
  <2>2. QED
    BY <2>1, ValueType
<1>4. Value(mem, s) = low + Power(Base, n) * top
  BY <1>1, <1>2, <1>3, ValueNext
<1>5. PICK b \in Nat \ {0} : b = Power(Base, n)
  BY BasePower
<1>6. low = 0
  <2>1. CASE n = 0
    BY <1>3, <2>1, BaseType, PowerOne
  <2>2. CASE n # 0
    <3>1. b <= Value(mem, s)
      BY <1>5, <2>2, ValueType DEF HasLimbs
    <3>2. PICK k \in Nat : Value(mem, s) = Power(2, k)
      <4>1. PICK k \in 0 .. s.n * LimbBits - 1 : Value(mem, s) = Power(2, k)
        BY DEF PowerOfTwo
      <4>2. QED
        BY <4>1
    <3>3. PICK e \in Nat : b = Power(2, e)
      <4>1. LimbBits \in Nat /\ LimbBits * n \in Nat
        BY LimbAssumption
      <4>2. Power(Power(2, LimbBits), n) = Power(2, LimbBits * n)
        BY <4>1, PowerPower
      <4>3. QED
        BY <1>5, <4>1, <4>2, BaseIsPower
    <3>4. e <= k
      <4> SUFFICES ASSUME k + 1 <= e PROVE FALSE
        OBVIOUS
      <4>1. Power(2, k + 1) <= Power(2, e) /\ Power(2, k + 1) = 2 * Power(2, k)
        <5>1. 2 \in Nat \ {0} /\ k + 1 \in Nat
          OBVIOUS
        <5>2. Power(2, k + 1) <= Power(2, e)
          BY <5>1, PowerGrows
        <5>3. QED
          BY <5>2, PowerStep
      <4>2. PICK p \in Nat : p = Power(2, k)
        BY PowerStep
      <4>3. QED
        BY <1>5, <3>1, <3>2, <3>3, <4>1, <4>2
    <3>5. PICK x \in Nat : Value(mem, s) = b * x
      <4>1. PICK j \in Nat : k = e + j
        <5>1. k - e \in Nat /\ k = e + (k - e)
          BY <3>4
        <5>2. QED
          BY <5>1
      <4>2. Power(2, e + j) = Power(2, e) * Power(2, j)
        BY PowerSum
      <4>3. Power(2, j) \in Nat
        BY PowerStep
      <4>4. QED
        BY <3>2, <3>3, <4>1, <4>2, <4>3
    <3>6. b * x = b * top + low /\ b * x = b * x + 0
      BY <1>4, <1>5, <3>5
    <3>7. low \in 0 .. b - 1 /\ 0 \in 0 .. b - 1
      BY <1>3, <1>5
    <3>8. (b * x) % b = low /\ (b * x) % b = 0
      <4>1. b * x \in Int
        OBVIOUS
      <4>2. QED
        BY <3>6, <3>7, <4>1, DivUnique
    <3>9. QED
      BY <3>8
  <2>3. QED
    BY <2>1, <2>2
<1>7. QED
  BY <1>1, <1>4, <1>5, <1>6

(* multiply_power_of_two, whatever the destination held. *)
LEMMA PowerOfTwoFills ==
  ASSUME NEW mem, NEW size, Memory(mem, size), NEW r, In(r, size), NEW a, In(a, size),
         NEW p, In(p, size), p.n # 0, HasLimbs(Value(mem, p), p.n), PowerOfTwo(mem, p),
         a.n + p.n <= r.n
  PROVE  Fills(mem, MultiplyPowerOfTwo(mem, r, a, p), size, First(r, a.n + p.n),
               Value(mem, a) * Value(mem, p))
<1>1. PICK n \in Nat, la \in Nat : /\ p.n = n + 1 /\ la = a.n /\ p.n - 1 = n
                                   /\ n + (la + 1) <= r.n /\ n + (la + 1) = a.n + p.n
  <2>1. p.n \in Nat /\ a.n \in Nat
    BY DEF In
  <2>2. p.n - 1 \in Nat /\ p.n = (p.n - 1) + 1 /\ (p.n - 1) + (a.n + 1) = a.n + p.n
    BY <2>1
  <2>3. QED
    BY <2>1, <2>2
<1>2. PICK top \in Nat : top = Limb(mem, p, n) /\ top < Base
                         /\ Value(mem, p) = Power(Base, n) * top
  BY <1>1, PowerOfTwoTop
<1>3. PICK x \in Nat : x = Value(mem, a) /\ x < Power(Base, la)
  BY <1>1, ValueType
<1>4. x * top \in Nat /\ x * top < Power(Base, la + 1)
  <2>1. Power(Base, 1) = Base
    BY BaseType, PowerOne
  <2>2. QED
    BY <1>2, <1>3, <2>1, ProductFits
<1>5. PICK lo : lo = First(r, n) /\ In(lo, size) /\ lo.area = r.area /\ lo.at = r.at /\ lo.n = n
  <2>1. n <= r.n
    BY <1>1 DEF In
  <2>2. QED
    BY <2>1, PartsIn
<1>6. PICK hi : /\ hi = Part(r, n, la + 1) /\ In(hi, size) /\ hi.area = r.area
                /\ hi.at = r.at + n /\ hi.n = la + 1
                /\ First(Subspan(r, n), la + 1) = hi /\ Subspan(First(r, n + (la + 1)), n) = hi
  <2>1. la + 1 \in Nat
    OBVIOUS
  <2>2. QED
    BY <1>1, <2>1, PartIs
<1>7. PICK s : s = First(r, n + (la + 1)) /\ In(s, size) /\ s.area = r.area /\ s.at = r.at
               /\ s.n = n + (la + 1)
  BY <1>1, PartsIn
<1>8. PICK m : m = Store(mem, lo, 0) /\ Fills(mem, m, size, lo, 0)
  <2>1. 0 < Power(Base, lo.n)
    BY <1>5, BasePower
  <2>2. QED
    BY <1>5, <2>1, StoreFills
<1>9. PICK new : new = Store(m, hi, x * top) /\ Fills(m, new, size, hi, x * top)
  BY <1>4, <1>6, <1>8, StoreFills DEF Fills
<1>10. MultiplyPowerOfTwo(mem, r, a, p) = new
  BY <1>1, <1>2, <1>3, <1>5, <1>6, <1>8, <1>9 DEF MultiplyPowerOfTwo, Fill
<1>11. r.at \in Nat /\ r.at <= r.at + n /\ r.at + n <= r.at + (n + (la + 1))
       /\ (r.at + n) + (la + 1) <= r.at + (n + (la + 1))
  BY DEF In
<1>12. Value(new, lo) = 0
  <2>1. Apart(lo, hi)
    BY <1>5, <1>6, <1>11 DEF Apart
  <2>2. QED
    BY <1>5, <1>6, <1>8, <1>9, <2>1, ChangesKeep DEF Fills
<1>13. Value(new, s) = Value(new, First(s, n)) + Power(Base, n) * Value(new, Subspan(s, n))
  <2>1. Memory(new, size) /\ n <= s.n
    BY <1>7, <1>9 DEF Fills
  <2>2. QED
    BY <1>7, <2>1, ValueSplit
<1>14. First(s, n) = lo /\ Subspan(s, n) = hi
  BY <1>5, <1>6, <1>7 DEF First
<1>15. Value(new, s) = x * Value(mem, p)
  <2>1. PICK b \in Nat : b = Power(Base, n)
    BY BasePower
  <2>2. 0 + b * (x * top) = x * (b * top)
    OBVIOUS
  <2>3. QED
    BY <1>2, <1>9, <1>12, <1>13, <1>14, <2>1, <2>2 DEF Fills
<1>16. Changes(mem, m, size, s) /\ Changes(m, new, size, s)
  BY <1>5, <1>6, <1>7, <1>8, <1>9, <1>11, ChangesWithin DEF Fills
<1>17. Changes(mem, new, size, s)
  BY <1>16, ChangesTwice
<1>18. QED
  BY <1>1, <1>3, <1>7, <1>9, <1>10, <1>15, <1>17 DEF Fills

LEMMA OverwriteFills ==
  ASSUME NEW mem, NEW size, Memory(mem, size), NEW r, In(r, size), NEW a, In(a, size),
         NEW b, In(b, size), a.n + b.n <= r.n
  PROVE  Fills(mem, Overwrite(mem, r, a, b), size, First(r, a.n + b.n),
               Value(mem, a) * Value(mem, b))
<1>1. a.n \in Nat /\ b.n \in Nat /\ a.n + b.n \in Nat
  BY DEF In
<1>2. In(First(r, a.n + b.n), size) /\ First(r, a.n + b.n).n = a.n + b.n
  BY <1>1, PartsIn
<1>3. Value(mem, a) * Value(mem, b) \in Nat
      /\ Value(mem, a) * Value(mem, b) < Power(Base, a.n + b.n)
  BY <1>1, ValueType, ProductFits
<1>4. QED
  BY <1>2, <1>3, StoreFills DEF Overwrite, Whole, ProductOf

(* A kernel that adds, on limbs that show zero. *)
LEMMA AccumulateFills ==
  ASSUME NEW mem, NEW size, Memory(mem, size), NEW r, In(r, size), NEW a, In(a, size),
         NEW b, In(b, size), a.n + b.n <= r.n, Value(mem, First(r, a.n + b.n)) = 0
  PROVE  Fills(mem, Accumulate(mem, r, a, b), size, First(r, a.n + b.n),
               Value(mem, a) * Value(mem, b))
<1>1. a.n \in Nat /\ b.n \in Nat /\ a.n + b.n \in Nat
  BY DEF In
<1>2. In(First(r, a.n + b.n), size) /\ First(r, a.n + b.n).n = a.n + b.n
  BY <1>1, PartsIn
<1>3. PICK v \in Nat : v = Value(mem, a) * Value(mem, b) /\ v < Power(Base, a.n + b.n)
  BY <1>1, ValueType, ProductFits
<1>4. Accumulate(mem, r, a, b) = Store(mem, First(r, a.n + b.n), v)
  <2>1. 0 + v = v
    OBVIOUS
  <2>2. QED
    BY <1>3, <2>1 DEF Accumulate, Whole, ProductOf
<1>5. QED
  BY <1>2, <1>3, <1>4, StoreFills

LEMMA FillFills ==
  ASSUME NEW mem, NEW size, Memory(mem, size), NEW s, In(s, size)
  PROVE  Fills(mem, Fill(mem, s), size, s, 0)
<1>1. 0 < Power(Base, s.n)
  BY ValueType
<1>2. QED
  BY <1>1, StoreFills DEF Fill

LEMMA AccumulateFrom0Fills ==
  ASSUME NEW mem, NEW size, Memory(mem, size), NEW r, In(r, size), NEW a, In(a, size),
         NEW b, In(b, size), a.n + b.n <= r.n, a.area # r.area, b.area # r.area
  PROVE  Fills(mem, AccumulateFrom0(mem, r, a, b), size, First(r, a.n + b.n),
               Value(mem, a) * Value(mem, b))
<1>1. a.n \in Nat /\ b.n \in Nat /\ a.n + b.n \in Nat
  BY DEF In
<1>2. PICK s : s = First(r, a.n + b.n) /\ In(s, size) /\ s.area = r.area
  BY <1>1, PartsIn
<1>3. PICK m : m = Fill(mem, s) /\ Fills(mem, m, size, s, 0)
  BY <1>2, FillFills
<1>4. Value(m, a) = Value(mem, a) /\ Value(m, b) = Value(mem, b)
  BY <1>2, <1>3, ChangesKeep DEF Fills, Apart
<1>5. Fills(m, Accumulate(m, r, a, b), size, s, Value(mem, a) * Value(mem, b))
  BY <1>2, <1>3, <1>4, AccumulateFills DEF Fills
<1>6. AccumulateFrom0(mem, r, a, b) = Accumulate(m, r, a, b)
  BY <1>2, <1>3 DEF AccumulateFrom0, Whole
<1>7. QED
  BY <1>2, <1>3, <1>5, <1>6, ChangesTwice DEF Fills

(* Low limbs that show a number that is small leave zeros above. *)
LEMMA ValueLow ==
  ASSUME NEW mem, NEW size, Memory(mem, size), NEW r, In(r, size),
         NEW k \in Nat, NEW m \in Nat, k + m <= r.n,
         Value(mem, First(r, k + m)) < Power(Base, k)
  PROVE  /\ Value(mem, First(r, k)) = Value(mem, First(r, k + m))
         /\ Value(mem, Part(r, k, m)) = 0
<1>1. PICK s : s = First(r, k + m) /\ In(s, size) /\ s.n = k + m
  BY PartsIn
<1>2. First(s, k) = First(r, k) /\ Subspan(s, k) = Part(r, k, m) /\ In(Part(r, k, m), size)
      /\ In(First(r, k), size)
  <2>1. k <= r.n
    BY DEF In
  <2>2. In(First(r, k), size)
    BY <2>1, PartsIn
  <2>3. In(Part(r, k, m), size) /\ Subspan(First(r, k + m), k) = Part(r, k, m)
    BY PartIs
  <2>4. First(First(r, k + m), k) = First(r, k)
    BY DEF First
  <2>5. QED
    BY <1>1, <2>2, <2>3, <2>4
<1>3. PICK x \in Nat, y \in Nat, b \in Nat \ {0} :
        x = Value(mem, First(r, k)) /\ y = Value(mem, Part(r, k, m)) /\ b = Power(Base, k)
  BY <1>2, ValueType, BasePower
<1>4. Value(mem, s) = x + b * y
  <2>1. k <= s.n
    BY <1>1
  <2>2. QED
    BY <1>1, <1>2, <1>3, <2>1, ValueSplit
<1>5. x + b * y < b
  BY <1>1, <1>3, <1>4
<1>6. y = 0
  <2> SUFFICES ASSUME y # 0 PROVE FALSE
    OBVIOUS
  <2>1. PICK z \in Nat : y = z + 1
    <3>1. y - 1 \in Nat /\ y = (y - 1) + 1
      OBVIOUS
    <3>2. QED
      BY <3>1
  <2>2. b * y = b * z + b
    BY <2>1
  <2>3. PICK bz \in Nat, by \in Nat : bz = b * z /\ by = b * y
    <3>1. \A u \in Nat : b * u \in Nat
      OBVIOUS
    <3>2. QED
      BY <3>1
  <2>4. QED
    BY <1>5, <2>2, <2>3
<1>7. b * 0 = 0
  OBVIOUS
<1>8. QED
  BY <1>1, <1>3, <1>4, <1>6, <1>7

(* What is added to the limbs from k on, where all limbs up to full count. *)
LEMMA AddRowFull ==
  ASSUME NEW mem, NEW size, Memory(mem, size), NEW r, In(r, size),
         NEW k \in Nat, NEW q \in Nat, NEW n \in Nat, q <= n, NEW p \in Nat,
         NEW full \in Nat, k + n <= full, full <= r.n,
         NEW old, old = Value(mem, Part(r, k, q)),
         Value(mem, First(r, full)) < Power(Base, k + q),
         Value(mem, First(r, full)) + Power(Base, k) * p < Power(Base, k + n)
  PROVE  Fills(mem, Store(mem, Part(r, k, n), old + p), size, First(r, full),
               Value(mem, First(r, full)) + Power(Base, k) * p)
<1>1. r.n \in Nat /\ r.at \in Nat
  BY DEF In
<1>2. PICK d \in Nat, e \in Nat : full = (k + q) + d /\ full = (k + n) + e
  <2>1. full - (k + q) \in Nat /\ full - (k + n) \in Nat
        /\ full = (k + q) + (full - (k + q)) /\ full = (k + n) + (full - (k + n))
    OBVIOUS
  <2>2. QED
    BY <2>1
<1>3. k + n \in Nat /\ k + q \in Nat /\ k + n <= r.n /\ (k + n) + e <= r.n /\ (k + q) + d <= r.n
  BY <1>1, <1>2
<1>4. PICK v \in Nat : v = Value(mem, First(r, full)) /\ v < Power(Base, k + q)
                       /\ v + Power(Base, k) * p < Power(Base, k + n)
  <2>1. In(First(r, full), size)
    BY PartsIn
  <2>2. QED
    BY <2>1, ValueType
<1>5. Value(mem, First(r, k + q)) = v
  <2>1. PICK j \in Nat : j = k + q
    BY <1>3
  <2>2. Value(mem, First(r, j + d)) < Power(Base, j) /\ j + d <= r.n
    BY <1>2, <1>3, <1>4, <2>1
  <2>3. /\ Value(mem, First(r, j)) = Value(mem, First(r, j + d))
        /\ Value(mem, Part(r, j, d)) = 0
    BY ONLY Memory(mem, size), In(r, size), j \in Nat, d \in Nat, <2>2, ValueLow
  <2>4. QED
    BY <1>2, <1>4, <2>1, <2>3
<1>6. v < Power(Base, k + n)
  <2>1. Power(Base, k + q) <= Power(Base, k + n) /\ Power(Base, k + q) \in Nat
        /\ Power(Base, k + n) \in Nat
    <3>1. Base \in Nat \ {0} /\ k + q <= k + n
      BY BaseType
    <3>2. QED
      BY <1>3, <3>1, PowerGrows, BasePower
  <2>2. QED
    BY <1>4, <2>1
<1>7. Value(mem, Part(r, k + n, e)) = 0
  <2>1. PICK j \in Nat : j = k + n
    BY <1>3
  <2>2. Value(mem, First(r, j + e)) < Power(Base, j) /\ j + e <= r.n
    BY <1>2, <1>3, <1>4, <1>6, <2>1
  <2>3. Value(mem, Part(r, j, e)) = 0
    BY <2>2, ValueLow
  <2>4. QED
    BY <2>1, <2>3
<1>8. PICK new : new = Store(mem, Part(r, k, n), old + p)
  OBVIOUS
<1>9. Fills(mem, new, size, First(r, k + n), v + Power(Base, k) * p)
  BY <1>3, <1>4, <1>5, <1>8, AddRow
<1>10. PICK s : s = First(r, full) /\ In(s, size) /\ s.area = r.area /\ s.at = r.at /\ s.n = full
  BY PartsIn
<1>11. PICK lo : lo = First(r, k + n) /\ In(lo, size) /\ lo.area = r.area /\ lo.at = r.at
                 /\ lo.n = k + n
  BY <1>3, PartsIn
<1>12. PICK hi : hi = Part(r, k + n, e) /\ In(hi, size) /\ hi.area = r.area
                 /\ hi.at = r.at + (k + n) /\ hi.n = e /\ Subspan(First(r, (k + n) + e), k + n) = hi
  BY <1>3, PartIs
<1>13. Value(new, hi) = 0
  <2>1. Apart(hi, lo)
    BY <1>1, <1>3, <1>11, <1>12 DEF Apart
  <2>2. QED
    BY <1>7, <1>9, <1>11, <1>12, <2>1, ChangesKeep DEF Fills
<1>14. Value(new, s)
         = Value(new, First(s, k + n)) + Power(Base, k + n) * Value(new, Subspan(s, k + n))
  <2>1. k + n <= s.n
    BY <1>10
  <2>2. QED
    BY <1>3, <1>9, <1>10, <2>1, ValueSplit DEF Fills
<1>15. First(s, k + n) = lo /\ Subspan(s, k + n) = hi
  BY <1>2, <1>10, <1>11, <1>12 DEF First
<1>16. Value(new, s) = v + Power(Base, k) * p
  <2>1. PICK b \in Nat, c \in Nat : b = Power(Base, k + n) /\ c = Power(Base, k)
    BY <1>3, BasePower
  <2>2. b * 0 = 0 /\ v + c * p \in Nat
    OBVIOUS
  <2>3. Value(new, s) = (v + c * p) + b * 0
    BY <1>9, <1>11, <1>13, <1>14, <1>15, <2>1 DEF Fills
  <2>4. QED
    BY <2>1, <2>2, <2>3
<1>17. Changes(mem, new, size, s)
  <2>1. s.at <= lo.at /\ lo.at + lo.n <= s.at + s.n
    BY <1>1, <1>10, <1>11
  <2>2. QED
    BY <1>9, <1>10, <1>11, <2>1, ChangesWithin DEF Fills
<1>18. QED
  BY <1>4, <1>8, <1>9, <1>10, <1>16, <1>17 DEF Fills

(* Half the square of x = y + b * h, as far as it is more than that of b * h, less squares. *)
LEMMA TriangleBound ==
  ASSUME NEW t \in Nat, NEW squares \in Nat, NEW x \in Nat, NEW y \in Nat, NEW b \in Nat,
         NEW h \in Nat, x = y + b * h, 2 * t + squares + (b * h) * (b * h) = x * x
  PROVE  t <= y * x
<1>1. PICK z \in Nat : z = b * h
  OBVIOUS
<1>2. (y + z) * (y + z) = y * y + 2 * (y * z) + z * z /\ y * (y + z) = y * y + y * z
  BY <1>1
<1>3. 2 * t + squares + z * z = y * y + 2 * (y * z) + z * z
  BY <1>1, <1>2
<1>4. PICK zz \in Nat, yy \in Nat, yz \in Nat : zz = z * z /\ yy = y * y /\ yz = y * z
  OBVIOUS
<1>5. y * x = yy + yz
  BY <1>1, <1>2, <1>4
<1>6. 2 * t + squares + zz = yy + 2 * yz + zz
  BY <1>3, <1>4
<1>7. QED
  BY <1>5, <1>6

(* One limb c more of the triangle: h = c + base * g, where g are the limbs above c. *)
LEMMA TriangleStep ==
  ASSUME NEW t \in Nat, NEW squares \in Nat, NEW xx \in Nat, NEW b \in Nat, NEW base \in Nat,
         NEW h \in Nat, NEW c \in Nat, NEW g \in Nat, h = c + base * g,
         2 * t + squares + (b * h) * (b * h) = xx
  PROVE  2 * (t + (b * b * base) * (c * g)) + (squares + c * c * (b * b))
           + ((base * b) * g) * ((base * b) * g) = xx
<1>1. PICK e \in Nat, f \in Nat : e = b * c /\ f = b * (base * g)
  <2>1. b * c \in Nat /\ base * g \in Nat
    OBVIOUS
  <2>2. b * (base * g) \in Nat
    BY <2>1
  <2>3. QED
    BY <2>1, <2>2
<1>2. b * h = e + f
  <2>1. PICK d \in Nat : d = base * g
    OBVIOUS
  <2>2. b * (c + d) = b * c + b * d
    OBVIOUS
  <2>3. QED
    BY <1>1, <2>1, <2>2
<1>3. (e + f) * (e + f) = e * e + 2 * (e * f) + f * f
  OBVIOUS
<1>4. e * e = c * c * (b * b)
  BY <1>1
<1>5. (base * b) * g = f
  BY <1>1
<1>6. (b * b * base) * (c * g) = e * f
  BY <1>1
<1>7. PICK ee \in Nat, ef \in Nat, ff \in Nat : ee = e * e /\ ef = e * f /\ ff = f * f
  OBVIOUS
<1>8. 2 * t + squares + (ee + 2 * ef + ff) = xx
  BY <1>2, <1>3, <1>7
<1>9. 2 * (t + ef) + (squares + ee) + ff = xx
  BY <1>8
<1>10. QED
  BY <1>4, <1>5, <1>6, <1>7, <1>9

LEMMA SubspanIs ==
  ASSUME NEW x, NEW p, NEW m, NEW k
  PROVE  Subspan([area |-> x, at |-> p, n |-> m], k) = [area |-> x, at |-> p + k, n |-> m - k]
<1>1. PICK s : s = [area |-> x, at |-> p, n |-> m]
  OBVIOUS
<1>2. s.at = p /\ s.n = m
  BY <1>1
<1>3. Subspan(s, k) = [s EXCEPT !.at = p + k, !.n = m - k]
  BY <1>2 DEF Subspan
<1>4. [s EXCEPT !.at = p + k] = [area |-> x, at |-> p + k, n |-> m]
  BY <1>1
<1>5. QED
  BY <1>1, <1>3, <1>4

(* The limbs from one on, one limb at a time. *)
LEMMA ValueTail ==
  ASSUME NEW mem, NEW size, Memory(mem, size), NEW s, In(s, size), NEW i \in Nat, i + 1 <= s.n
  PROVE  /\ In(Subspan(s, i + 1), size) /\ In(Subspan(s, i), size)
         /\ Limb(mem, s, i) \in 0 .. Base - 1
         /\ Value(mem, Subspan(s, i)) = Limb(mem, s, i) + Base * Value(mem, Subspan(s, i + 1))
<1>1. s.n \in Nat /\ i + 1 \in Nat /\ i <= s.n /\ s.at \in Nat
  BY DEF In
<1>2. PICK t : t = Subspan(s, i) /\ In(t, size) /\ t.n = s.n - i
  BY <1>1, PartsIn
<1>3. First(t, 1) = Part(s, i, 1) /\ In(Part(s, i, 1), size) /\ Part(s, i, 1).n = 1
      /\ Part(s, i, 1).area = s.area /\ Part(s, i, 1).at = s.at + i
  BY <1>2, PartIs
<1>4. Subspan(t, 1) = Subspan(s, i + 1) /\ In(Subspan(s, i + 1), size)
  <2>1. PICK x \in DOMAIN size, p \in Nat, m \in Nat : s = [area |-> x, at |-> p, n |-> m]
    BY DEF In
  <2>2. Subspan(s, i) = [area |-> x, at |-> p + i, n |-> m - i]
    BY <2>1, SubspanIs
  <2>3. Subspan(s, i + 1) = [area |-> x, at |-> p + (i + 1), n |-> m - (i + 1)]
    BY <2>1, SubspanIs
  <2>4. Subspan(t, 1) = [area |-> x, at |-> (p + i) + 1, n |-> (m - i) - 1]
    BY <1>2, <2>2, SubspanIs
  <2>5. (p + i) + 1 = p + (i + 1) /\ (m - i) - 1 = m - (i + 1)
    BY <2>1
  <2>6. In(Subspan(s, i + 1), size)
    BY <1>1, PartsIn
  <2>7. QED
    BY <2>3, <2>4, <2>5, <2>6
<1>5. Value(mem, t) = Value(mem, First(t, 1)) + Power(Base, 1) * Value(mem, Subspan(t, 1))
  <2>1. 1 \in Nat /\ 1 <= t.n
    BY <1>1, <1>2
  <2>2. QED
    BY <1>2, <2>1, ValueSplit
<1>6. Value(mem, Part(s, i, 1)) = Limb(mem, s, i) /\ Limb(mem, s, i) \in 0 .. Base - 1
  <2>1. Limb(mem, Part(s, i, 1), 0) = Limb(mem, s, i)
    BY <1>1, <1>3 DEF Limb
  <2>2. QED
    BY <1>3, <2>1, ValueOne
<1>7. Power(Base, 1) = Base
  BY BaseType, PowerOne
<1>8. QED
  BY <1>2, <1>3, <1>4, <1>5, <1>6, <1>7

(* The triangle of the rows below i, with the squares on its diagonal and that of the limbs above,
   makes up the square. *)
Triangle(mem, a, i, t, squares) ==
  LET high == Power(Base, i) * Value(mem, Subspan(a, i))
  IN  2 * t + squares + high * high = Value(mem, a) * Value(mem, a)

LEMMA TriangleFits ==
  ASSUME NEW mem, NEW size, Memory(mem, size), NEW a, In(a, size), NEW i \in Nat, i <= a.n,
         NEW t \in Nat, NEW squares \in Nat, Triangle(mem, a, i, t, squares)
  PROVE  t < Power(Base, a.n + i)
<1>1. a.n \in Nat /\ In(First(a, i), size) /\ In(Subspan(a, i), size) /\ First(a, i).n = i
  BY PartsIn DEF In
<1>2. PICK x \in Nat, y \in Nat, h \in Nat :
        /\ x = Value(mem, a) /\ y = Value(mem, First(a, i)) /\ h = Value(mem, Subspan(a, i))
        /\ x < Power(Base, a.n) /\ y < Power(Base, i)
  BY <1>1, ValueType
<1>3. PICK b \in Nat : b = Power(Base, i)
  BY BasePower
<1>4. x = y + b * h
  BY <1>2, <1>3, ValueSplit
<1>5. 2 * t + squares + (b * h) * (b * h) = x * x
  BY <1>2, <1>3 DEF Triangle
<1>6. t <= y * x
  BY <1>4, <1>5, TriangleBound
<1>7. y * x \in Nat /\ y * x < Power(Base, i + a.n)
  BY <1>1, <1>2, ProductFits
<1>8. i + a.n = a.n + i /\ Power(Base, a.n + i) \in Nat
  <2>1. i + a.n = a.n + i /\ a.n + i \in Nat
    BY <1>1
  <2>2. QED
    BY <2>1, BasePower
<1>9. QED
  BY <1>6, <1>7, <1>8

LEMMA TriangleRow ==
  ASSUME NEW mem, NEW size, Memory(mem, size), NEW m, Memory(m, size), NEW r, In(r, size),
         NEW a, In(a, size), NEW i \in Nat, NEW j \in Nat, a.n = (i + 1) + j, 2 * a.n <= r.n,
         NEW squares \in Nat, Triangle(mem, a, i, Value(m, First(r, 2 * a.n)), squares),
         NEW c, c = Limb(mem, a, i),
         NEW new, new = Store(m, Part(r, 2 * i + 1, j + 1),
                              Value(m, Part(r, 2 * i + 1, j)) + c * Value(mem, Subspan(a, i + 1)))
  PROVE  /\ Memory(new, size) /\ Changes(m, new, size, First(r, 2 * a.n))
         /\ squares + c * c * Power(Base, 2 * i) \in Nat
         /\ Triangle(mem, a, i + 1, Value(new, First(r, 2 * a.n)),
                     squares + c * c * Power(Base, 2 * i))
<1>1. PICK n \in Nat, k \in Nat, q \in Nat :
        /\ n = a.n /\ k = 2 * i + 1 /\ q = j + 1 /\ n = (i + 1) + j /\ 2 * n <= r.n
        /\ k + j = n + i /\ k + q = n + (i + 1) /\ k + q <= 2 * n /\ j <= q /\ i <= n /\ i + 1 <= n
  OBVIOUS
<1>2. r.n \in Nat
  BY DEF In
<1>3. PICK t \in Nat : t = Value(m, First(r, 2 * n))
  <2>1. In(First(r, 2 * n), size)
    BY <1>1, PartsIn
  <2>2. QED
    BY <2>1, ValueType
<1>4. /\ c \in 0 .. Base - 1 /\ In(Subspan(a, i + 1), size)
      /\ Value(mem, Subspan(a, i)) = c + Base * Value(mem, Subspan(a, i + 1))
      /\ In(Subspan(a, i), size)
  BY <1>1, ValueTail
<1>5. c \in Nat
  BY <1>4, BaseType
<1>6. PICK g \in Nat, h \in Nat, x \in Nat, base \in Nat :
        /\ g = Value(mem, Subspan(a, i + 1)) /\ h = Value(mem, Subspan(a, i))
        /\ x = Value(mem, a) /\ base = Base /\ h = c + base * g
  BY <1>4, ValueType, BaseType
<1>7. PICK b \in Nat : b = Power(Base, i)
  BY BasePower
<1>8. Power(Base, 2 * i) = b * b /\ Power(Base, k) = b * b * base /\ Power(Base, i + 1) = base * b
  <2>1. Power(Base, i + i) = b * b /\ Power(Base, i + 1) = base * b
    BY <1>6, <1>7, BaseType, PowerSum, PowerStep
  <2>2. Power(Base, (i + i) + 1) = base * (b * b)
    BY <1>6, <2>1, BaseType, PowerStep
  <2>3. i + i = 2 * i /\ (i + i) + 1 = k /\ base * (b * b) = b * b * base
    BY <1>1
  <2>4. QED
    BY <2>1, <2>2, <2>3
<1>9. 2 * t + squares + (b * h) * (b * h) = x * x
  BY <1>1, <1>3, <1>6, <1>7 DEF Triangle
<1>10. 2 * (t + (b * b * base) * (c * g)) + (squares + c * c * (b * b))
         + ((base * b) * g) * ((base * b) * g) = x * x
  <2>1. x * x \in Nat
    OBVIOUS
  <2>2. QED
    BY <1>5, <1>6, <1>9, <2>1, TriangleStep
<1>11. PICK p \in Nat, t2 \in Nat, sq \in Nat :
         /\ p = c * g /\ t2 = t + Power(Base, k) * p
         /\ sq = squares + c * c * Power(Base, 2 * i)
  <2>1. c * g \in Nat /\ Power(Base, k) \in Nat /\ c * c \in Nat /\ Power(Base, 2 * i) \in Nat
    <3>1. Power(Base, k) \in Nat /\ Power(Base, 2 * i) \in Nat
      BY BasePower
    <3>2. QED
      BY <1>5, <3>1
  <2>2. Power(Base, k) * (c * g) \in Nat /\ c * c * Power(Base, 2 * i) \in Nat
    BY <2>1
  <2>3. QED
    BY <2>1, <2>2
<1>12. Triangle(mem, a, i + 1, t2, sq)
  BY <1>6, <1>8, <1>10, <1>11 DEF Triangle
<1>13. t < Power(Base, k + j) /\ t2 < Power(Base, k + q)
  <2>1. i + 1 \in Nat
    OBVIOUS
  <2>2. t < Power(Base, n + i)
    BY <1>1, <1>3, TriangleFits
  <2>3. t2 < Power(Base, n + (i + 1))
    BY <1>1, <1>12, <2>1, TriangleFits
  <2>4. QED
    BY <1>1, <2>2, <2>3
<1>14. PICK old : old = Value(m, Part(r, k, j))
  OBVIOUS
<1>15. new = Store(m, Part(r, k, q), old + p)
  BY <1>1, <1>6, <1>11, <1>14
<1>16. 2 * n \in Nat
  BY <1>1
<1>17. Fills(m, Store(m, Part(r, k, q), old + p), size, First(r, 2 * n),
             Value(m, First(r, 2 * n)) + Power(Base, k) * p)
  <2>1. Value(m, First(r, 2 * n)) < Power(Base, k + j)
        /\ Value(m, First(r, 2 * n)) + Power(Base, k) * p < Power(Base, k + q)
    BY <1>3, <1>11, <1>13
  <2>2. QED
    <3>1. j <= q /\ k + q <= 2 * n /\ 2 * n <= r.n
      BY <1>1
    <3>2. QED
      BY <1>14, <1>16, <2>1, <3>1, AddRowFull
<1>18. Value(new, First(r, 2 * n)) = t2 /\ Memory(new, size)
       /\ Changes(m, new, size, First(r, 2 * n))
  BY <1>3, <1>11, <1>15, <1>17 DEF Fills
<1>19. QED
  BY <1>1, <1>11, <1>12, <1>18

(* square_long over zeros. *)
LEMMA SquareLongFills ==
  ASSUME NEW mem, NEW size, Memory(mem, size), NEW r, In(r, size), NEW a, In(a, size),
         a.n # 0, 2 * a.n <= r.n, Value(mem, First(r, 2 * a.n)) = 0
  PROVE  Fills(mem, SquareLong(mem, r, a), size, First(r, 2 * a.n), Value(mem, a) * Value(mem, a))
<1>1. PICK n \in Nat \ {0}, l \in Nat : n = a.n /\ n = l + 1 /\ l = n - 1 /\ 2 * n <= r.n
  <2>1. a.n \in Nat \ {0}
    BY DEF In
  <2>2. a.n - 1 \in Nat /\ a.n = (a.n - 1) + 1
    BY <2>1
  <2>3. QED
    BY <2>1, <2>2
<1>2. r.n \in Nat /\ r.at \in Nat /\ 2 * n \in Nat
  BY DEF In
<1> DEFINE Row(m, k) ==
             Store(m, Part(r, 2 * k + 1, (l - k) + 1),
                   Value(m, Part(r, 2 * k + 1, l - k))
                     + Limb(mem, a, k) * Value(mem, Subspan(a, k + 1)))
           Is(f) == f = [i \in 0 .. n - 1 |->
                           IF i = 0 THEN mem
                           ELSE LET row == First(Subspan(r, 2 * i - 1), n - i)
                                IN  Store(f[i - 1], First(row, n - i + 1),
                                          Value(f[i - 1], row)
                                            + Limb(mem, a, i - 1) * Value(mem, Subspan(a, i)))]
           rows == CHOOSE f : Is(f)
           Sq(k) == Limb(mem, a, k) * Limb(mem, a, k) * Power(Base, 2 * k)
           Adds(f) == f = [i \in 0 .. n |->
                             IF i = 0 THEN 0
                             ELSE f[i - 1] + Limb(mem, a, i - 1) * Limb(mem, a, i - 1)
                                               * Power(Base, 2 * (i - 1))]
           squares == CHOOSE f : Adds(f)
<1>3. SquareLong(mem, r, a) = Store(mem, First(r, 2 * n),
                                    2 * Value(rows[n - 1], First(r, 2 * n)) + squares[n])
  BY <1>1 DEF SquareLong
<1>4. ASSUME NEW k \in 0 .. l - 1
      PROVE  /\ k \in Nat /\ l - k \in Nat /\ (l - k) + 1 \in Nat /\ 2 * k + 1 \in Nat
             /\ (2 * k + 1) + (l - k) <= r.n /\ (2 * k + 1) + ((l - k) + 1) <= r.n
             /\ n = (k + 1) + (l - k) /\ k + 1 <= n
             /\ (k + 1) - 1 = k /\ 2 * (k + 1) - 1 = 2 * k + 1 /\ n - (k + 1) = l - k
             /\ n - (k + 1) + 1 = (l - k) + 1 /\ k + 1 \in 0 .. n - 1 /\ k + 1 # 0
  BY <1>1, <1>2
<1>5. ASSUME NEW k \in 0 .. l - 1
      PROVE  /\ In(Part(r, 2 * k + 1, l - k), size) /\ In(Part(r, 2 * k + 1, (l - k) + 1), size)
             /\ First(Subspan(r, 2 * k + 1), l - k) = Part(r, 2 * k + 1, l - k)
             /\ First(Part(r, 2 * k + 1, l - k), (l - k) + 1) = Part(r, 2 * k + 1, (l - k) + 1)
  <2>1. First(Part(r, 2 * k + 1, l - k), (l - k) + 1) = Part(r, 2 * k + 1, (l - k) + 1)
    BY DEF First, Part
  <2>2. QED
    BY <1>4, <2>1, PartIs
<1>6. ASSUME NEW k \in 0 .. n - 1
      PROVE  /\ Limb(mem, a, k) \in Nat /\ Value(mem, Subspan(a, k + 1)) \in Nat
             /\ Sq(k) \in Nat
  <2>1. k \in Nat /\ k + 1 <= a.n
    BY <1>1
  <2>2. Limb(mem, a, k) \in 0 .. Base - 1 /\ In(Subspan(a, k + 1), size)
    BY <2>1, ValueTail
  <2>3. Limb(mem, a, k) \in Nat /\ Value(mem, Subspan(a, k + 1)) \in Nat
    BY <2>2, BaseType, ValueType
  <2>4. Power(Base, 2 * k) \in Nat
    BY <2>1, BasePower
  <2>5. QED
    BY <2>3, <2>4
<1>7. ASSUME NEW k \in 0 .. l - 1, NEW f
      PROVE  LET i == k + 1
                 row == First(Subspan(r, 2 * i - 1), n - i)
             IN  Store(f[i - 1], First(row, n - i + 1),
                       Value(f[i - 1], row)
                         + Limb(mem, a, i - 1) * Value(mem, Subspan(a, i))) = Row(f[k], k)
  BY <1>4, <1>5
<1>8. ASSUME NEW k \in 0 .. l - 1, NEW m, Memory(m, size) PROVE Memory(Row(m, k), size)
  <2>1. Value(m, Part(r, 2 * k + 1, l - k)) \in Nat
    BY <1>5, <1>8, ValueType
  <2>2. k \in 0 .. n - 1
    BY <1>1
  <2>3. Limb(mem, a, k) * Value(mem, Subspan(a, k + 1)) \in Nat
    BY <1>6, <2>2
  <2>4. Value(m, Part(r, 2 * k + 1, l - k)) + Limb(mem, a, k) * Value(mem, Subspan(a, k + 1))
          \in Int
    BY <2>1, <2>3
  <2>5. QED
    BY <1>5, <1>8, <2>4, StoreLimbs
<1>9. \E f : Is(f)
  <2>1. PICK step : /\ IsStep(step, l, Memories(size))
                    /\ \A k \in 0 .. l - 1, m \in Memories(size) : step[<<k, m>>] = Row(m, k)
    <3>1. IsStep([x \in (0 .. l - 1) \X Memories(size) |-> Row(x[2], x[1])], l, Memories(size))
      <4>1. \A x \in (0 .. l - 1) \X Memories(size) : Row(x[2], x[1]) \in Memories(size)
        BY <1>8, MemoriesAre
      <4> HIDE DEF Row
      <4>2. QED
        BY <4>1 DEF IsStep
    <3> HIDE DEF Row
    <3>2. QED
      BY <3>1
  <2>2. PICK f : Runs(f, l, Memories(size), mem, step)
    BY <2>1, MemoriesAre, RecursionExists
  <2> HIDE DEF Row
  <2>3. \A i \in 0 .. n - 1 : i # 0 => i - 1 \in 0 .. l - 1 /\ (i - 1) + 1 = i
    BY <1>1
  <2>4. \A k \in 0 .. l - 1 : f[k + 1] = Row(f[k], k)
    <3> TAKE k \in 0 .. l - 1
    <3>1. k \in 0 .. l
      OBVIOUS
    <3>2. f[k] \in Memories(size)
      BY <2>2, <3>1 DEF Runs
    <3>3. f[k + 1] = step[<<k, f[k]>>]
      BY <2>2 DEF Runs
    <3>4. QED
      BY <2>1, <3>2, <3>3
  <2>5. ASSUME NEW i \in 0 .. n - 1, i # 0
        PROVE  LET row == First(Subspan(r, 2 * i - 1), n - i)
               IN  f[i] = Store(f[i - 1], First(row, n - i + 1),
                                Value(f[i - 1], row)
                                  + Limb(mem, a, i - 1) * Value(mem, Subspan(a, i)))
    <3>1. PICK k \in 0 .. l - 1 : i = k + 1
      BY <2>3, <2>5
    <3>2. f[k + 1] = Row(f[k], k)
      BY <2>4
    <3>3. QED
      BY <1>7, <3>1, <3>2
  <2>6. f \in [0 .. n - 1 -> Memories(size)] /\ f[0] = mem
    BY <1>1, <2>2 DEF Runs
  <2>7. Is(f)
    BY <2>5, <2>6
  <2>8. QED
    BY <2>7
<1>10. Is(rows)
  <2> HIDE DEF Is
  <2>1. QED
    BY <1>9
<1>11. \E f : Adds(f)
  <2>1. PICK step : /\ IsStep(step, n, Nat)
                    /\ \A k \in 0 .. n - 1, v \in Nat : step[<<k, v>>] = v + Sq(k)
    <3>1. IsStep([x \in (0 .. n - 1) \X Nat |-> x[2] + Sq(x[1])], n, Nat)
      <4>1. \A x \in (0 .. n - 1) \X Nat : Sq(x[1]) \in Nat
        BY <1>6
      <4> HIDE DEF Sq
      <4>2. QED
        BY <4>1 DEF IsStep
    <3> HIDE DEF Sq
    <3>2. QED
      BY <3>1
  <2>2. PICK f : Runs(f, n, Nat, 0, step)
    BY <2>1, RecursionExists
  <2>3. \A i \in 0 .. n : i # 0 => i - 1 \in 0 .. n - 1 /\ (i - 1) + 1 = i
    OBVIOUS
  <2> HIDE DEF Sq
  <2>4. ASSUME NEW k \in 0 .. n - 1 PROVE f[k + 1] = f[k] + Sq(k)
    <3>1. f[k] \in Nat /\ f[k + 1] = step[<<k, f[k]>>]
      BY <2>2 DEF Runs
    <3>2. QED
      BY <2>1, <3>1
  <2>5. ASSUME NEW i \in 0 .. n, i # 0 PROVE f[i] = f[i - 1] + Sq(i - 1)
    <3>1. PICK k \in 0 .. n - 1 : i = k + 1 /\ i - 1 = k
      BY <2>3, <2>5
    <3>2. QED
      BY <2>4, <3>1
  <2>6. f \in [0 .. n -> Nat] /\ f[0] = 0
    BY <2>2 DEF Runs
  <2>7. Adds(f)
    BY <2>5, <2>6 DEF Sq
  <2>8. QED
    BY <2>7
<1>12. Adds(squares)
  <2> HIDE DEF Adds
  <2>1. QED
    BY <1>11
<1> HIDE DEF Is, Adds, rows, squares
<1>13. PICK R, Q : R = rows /\ Q = squares
  OBVIOUS
<1>14. Is(R) /\ Adds(Q)
  BY <1>10, <1>12, <1>13
<1>15. SquareLong(mem, r, a)
         = Store(mem, First(r, 2 * n), 2 * Value(R[n - 1], First(r, 2 * n)) + Q[n])
  BY <1>3, <1>13
<1> USE DEF Is, Adds
<1>16. R[0] = mem /\ \A k \in 0 .. l - 1 : R[k + 1] = Row(R[k], k)
  <2>1. R[0] = mem
    BY <1>1, <1>14
  <2>2. ASSUME NEW k \in 0 .. l - 1 PROVE R[k + 1] = Row(R[k], k)
    <3>1. k + 1 \in 0 .. n - 1 /\ k + 1 # 0
      BY <1>4
    <3>2. LET i == k + 1
              row == First(Subspan(r, 2 * i - 1), n - i)
          IN  R[i] = Store(R[i - 1], First(row, n - i + 1),
                           Value(R[i - 1], row)
                             + Limb(mem, a, i - 1) * Value(mem, Subspan(a, i)))
      BY <1>14, <3>1
    <3> HIDE DEF Row
    <3>3. QED
      BY <1>7, <3>2
  <2>3. QED
    BY <2>1, <2>2
<1>17. Q[0] = 0 /\ \A k \in 0 .. n - 1 : Q[k + 1] = Q[k] + Sq(k)
  <2>1. \A k \in 0 .. n - 1 : k + 1 \in 0 .. n /\ k + 1 # 0 /\ (k + 1) - 1 = k
    OBVIOUS
  <2>2. 0 \in 0 .. n
    OBVIOUS
  <2>3. QED
    BY <1>14, <2>1, <2>2
<1> HIDE DEF Is, Adds
<1> DEFINE window == First(r, 2 * n)
           Done(i) == /\ Memory(R[i], size) /\ Q[i] \in Nat
                      /\ Triangle(mem, a, i, Value(R[i], window), Q[i])
<1>18. Done(0)
  <2>1. Power(Base, 0) = 1
    BY BaseType, PowerOne
  <2>2. Subspan(a, 0) = a
    <3>1. PICK x \in DOMAIN size, p \in Nat, m \in Nat : a = [area |-> x, at |-> p, n |-> m]
      BY DEF In
    <3>2. p + 0 = p /\ m - 0 = m
      BY <3>1
    <3>3. QED
      BY <3>1, <3>2, SubspanIs
  <2>3. PICK x \in Nat : x = Value(mem, a)
    BY ValueType
  <2>4. 2 * 0 + 0 + (1 * x) * (1 * x) = x * x
    OBVIOUS
  <2>5. Value(R[0], window) = 0
    BY <1>1, <1>16
  <2>6. QED
    BY <1>16, <1>17, <2>1, <2>2, <2>3, <2>4, <2>5 DEF Triangle
<1>19. ASSUME NEW k \in 0 .. l - 1, Done(k) PROVE Done(k + 1)
  <2>1. PICK sq \in Nat, c \in Nat : sq = Q[k] /\ c = Limb(mem, a, k)
    <3>1. k \in 0 .. n - 1
      BY <1>1
    <3>2. QED
      BY <1>6, <1>19, <3>1
  <2> DEFINE m == R[k]
  <2> HIDE DEF m
  <2>2. m = R[k] /\ Memory(m, size)
    BY <1>19 DEF m
  <2>3. PICK new : new = Store(m, Part(r, 2 * k + 1, (l - k) + 1),
                               Value(m, Part(r, 2 * k + 1, l - k))
                                 + c * Value(mem, Subspan(a, k + 1)))
    OBVIOUS
  <2>4. Triangle(mem, a, k, Value(m, First(r, 2 * a.n)), sq)
    BY <1>1, <1>19, <2>1, <2>2
  <2>5. PICK j \in Nat : j = l - k /\ a.n = (k + 1) + j /\ 2 * a.n <= r.n /\ k \in Nat
    BY <1>1, <1>4
  <2>6. /\ Memory(new, size)
        /\ sq + c * c * Power(Base, 2 * k) \in Nat
        /\ Triangle(mem, a, k + 1, Value(new, First(r, 2 * a.n)), sq + c * c * Power(Base, 2 * k))
    BY <2>1, <2>2, <2>3, <2>4, <2>5, TriangleRow
  <2>7. R[k + 1] = new
    BY <1>16, <2>1, <2>2, <2>3
  <2>8. Q[k + 1] = sq + c * c * Power(Base, 2 * k)
    <3>1. k \in 0 .. n - 1
      BY <1>1
    <3>2. QED
      BY <1>17, <2>1, <3>1
  <2>9. QED
    BY <1>1, <2>6, <2>7, <2>8
<1>20. Done(l)
  <2> DEFINE S == {k \in Nat : k <= l => Done(k)}
  <2>1. S \in SUBSET Nat
    OBVIOUS
  <2>2. 0 \in S
    BY <1>18
  <2>3. ASSUME NEW k \in S PROVE k + 1 \in S
    <3>1. k \in Nat /\ (k <= l => Done(k))
      BY <2>3
    <3> HIDE DEF Done
    <3>2. CASE k + 1 <= l
      <4>1. k \in 0 .. l - 1 /\ k <= l
        BY <3>1, <3>2
      <4>2. Done(k + 1)
        BY <1>19, <3>1, <4>1
      <4>3. QED
        BY <3>1, <4>2
    <3>3. CASE ~(k + 1 <= l)
      BY <3>1, <3>3
    <3>4. QED
      BY <3>2, <3>3
  <2> HIDE DEF S
  <2>4. S = Nat
    BY <2>1, <2>2, <2>3, Induction
  <2>5. l \in S
    BY <2>4
  <2>6. l <= l
    OBVIOUS
  <2>7. QED
    BY <2>5, <2>6 DEF S
<1>21. PICK t \in Nat, c \in Nat, x \in Nat, p \in Nat :
         /\ t = Value(R[l], window) /\ c = Limb(mem, a, l) /\ x = Value(mem, a)
         /\ p = Power(Base, l) /\ x < Power(Base, n)
  <2>1. In(window, size) /\ l \in 0 .. n - 1
    BY <1>1, <1>2, PartsIn
  <2>2. QED
    BY <1>1, <1>6, <1>20, <2>1, ValueType, BasePower
<1>22. Value(mem, Subspan(a, l)) = c
  <2>1. l \in Nat /\ l + 1 <= a.n
    BY <1>1
  <2>2. Value(mem, Subspan(a, l)) = c + Base * Value(mem, Subspan(a, l + 1))
        /\ In(Subspan(a, l + 1), size)
    BY <1>21, <2>1, ValueTail
  <2>3. Subspan(a, l + 1).n = 0
    <3>1. l + 1 \in Nat /\ l + 1 <= a.n /\ a.n - (l + 1) = 0
      BY <1>1
    <3>2. QED
      BY <3>1, PartsIn
  <2>4. Value(mem, Subspan(a, l + 1)) = 0
    BY <2>2, <2>3, ValueEmpty
  <2>5. QED
    BY <1>21, <2>2, <2>4, BaseType
<1>23. 2 * t + Q[l] + (p * c) * (p * c) = x * x /\ Q[l] \in Nat
  BY <1>20, <1>21, <1>22 DEF Triangle
<1>24. Q[n] = Q[l] + c * c * (p * p)
  <2>1. l \in 0 .. n - 1 /\ l + l = 2 * l
    BY <1>1
  <2>2. Power(Base, l + l) = p * p
    BY <1>21, BaseType, PowerSum
  <2>3. QED
    BY <1>1, <1>17, <1>21, <2>1, <2>2
<1>25. 2 * t + Q[n] = x * x
  <2>1. (p * c) * (p * c) = c * c * (p * p)
    OBVIOUS
  <2>2. PICK z \in Nat, xx \in Nat : z = c * c * (p * p) /\ xx = x * x
    <3>1. c * c \in Nat /\ p * p \in Nat
      OBVIOUS
    <3>2. c * c * (p * p) \in Nat /\ x * x \in Nat
      BY <3>1
    <3>3. QED
      BY <3>2
  <2>3. QED
    BY <1>23, <1>24, <2>1, <2>2
<1>26. x * x \in Nat /\ x * x < Power(Base, 2 * n)
  <2>1. n + n = 2 * n
    OBVIOUS
  <2>2. QED
    BY <1>21, <2>1, ProductFits
<1>27. In(window, size) /\ window.n = 2 * n
  BY <1>1, <1>2, PartsIn
<1>28. Fills(mem, Store(mem, window, x * x), size, window, x * x)
  BY <1>26, <1>27, StoreFills
<1>29. SquareLong(mem, r, a) = Store(mem, window, x * x)
  BY <1>1, <1>15, <1>21, <1>25
<1>30. QED
  BY <1>1, <1>21, <1>28, <1>29

(* Operands lie in the first two areas, which nothing writes. *)
Operand(s, size) == In(s, size) /\ s.area \in {1, 2} /\ s.n # 0

PieceOf(mem, f) == TrimmedSpan(mem, First(Subspan(f.long, f.i * f.m), PieceLength(f)))
TargetOf(mem, f) == First(IF f.i = 0 THEN f.r ELSE f.tmp, PieceOf(mem, f).n + f.m)
(* the limbs of the result that a slicing fills, and what the pieces below i * m make up *)
Result(f) == First(f.r, f.long.n + f.m)
Done(mem, f, n) == Value(mem, First(f.long, n)) * Value(mem, f.short)

(* A slicing in frame k. *)
SlicingWell(f, k, mem, size) ==
  /\ Slicing(f) /\ {"i", "tmp"} \subseteq DOMAIN f
  /\ Operand(f.long, size) /\ Operand(f.short, size) /\ f.long.area # f.short.area
  /\ f.short.n = f.m /\ HasLimbs(Value(mem, f.short), f.m)
  /\ Value(mem, f.long) * Value(mem, f.short) = f.product
  /\ f.long.n + f.m = Trimmed(mem, f.a) + Trimmed(mem, f.b)
  /\ f.i \in 0 .. f.cuts
  /\ f.tmp = Span(Buffer(k), 0, f.m + LargerOf(f.m, f.rem)) /\ In(f.tmp, size)

(* A frame k of the stack: its destination lies in the result or in the buffer of a frame below. *)
FrameWell(f, k, mem, size) ==
  /\ {"pc", "r", "a", "b", "product"} \subseteq DOMAIN f
  /\ In(f.r, size) /\ f.r.at = 0 /\ f.r.area \in 3 .. k + 2
  /\ Operand(f.a, size) /\ Operand(f.b, size) /\ (f.a.area = f.b.area => f.a = f.b)
  /\ f.a.n + f.b.n <= f.r.n
  /\ f.product = Value(mem, f.a) * Value(mem, f.b)
  /\ f.pc \in {"enter", "piece", "add", "return"}
  /\ f.pc = "enter" => "square" \in DOMAIN f /\ f.square = (f.a = f.b)
  /\ f.pc \in {"piece", "add"} => SlicingWell(f, k, mem, size)

(* What the limbs that the piece at i does not write hold. *)
Rest(f, mem, n) ==
  IF f.i = 0 THEN Value(mem, Part(f.r, n, (f.long.n + f.m) - n)) = 0
             ELSE Value(mem, Result(f)) = Done(mem, f, f.i * f.m)

(* A frame that waits for the frame g above it to form the product of its piece. *)
Waits(f, g, mem) ==
  /\ f.pc = "add"
  /\ g.a = PieceOf(mem, f) /\ g.b = f.short /\ g.r = TargetOf(mem, f)
  /\ Rest(f, mem, g.r.n)

(* The frame that runs. *)
AtWork(f, mem) ==
  /\ f.pc = "piece" => Value(mem, Result(f)) = Done(mem, f, f.i * f.m)
  /\ f.pc = "add" => /\ Rest(f, mem, TargetOf(mem, f).n)
                     /\ Value(mem, TargetOf(mem, f))
                          = Value(mem, PieceOf(mem, f)) * Value(mem, f.short)
  /\ f.pc = "return" =>
       Value(mem, First(f.r, Trimmed(mem, f.a) + Trimmed(mem, f.b))) = f.product

(* A destination above another one lies in a later area, or within it. *)
Above(s, t) == s.area <= t.area /\ (s.area = t.area => t.n <= s.n)

(* The frames below d and those who wait for them. *)
StackBelow(fr, d, mem, size) ==
  /\ \A k \in 1 .. d - 1 : FrameWell(fr[k], k, mem, size) /\ Waits(fr[k], fr[k + 1], mem)
  /\ \A j, k \in 1 .. d : j < k => Above(fr[j].r, fr[k].r)

RunWell(x, d, size) ==
  /\ {"frames", "mem", "garbage"} \subseteq DOMAIN x /\ x.garbage \in Leftovers
  /\ x.frames = [k \in 1 .. d |-> x.frames[k]]
  /\ Memory(x.mem, size)
  /\ StackBelow(x.frames, d, x.mem, size)
  /\ FrameWell(x.frames[d], d, x.mem, size)
  /\ AtWork(x.frames[d], x.mem)

DispWell(x) == x = DispIdle \/ \E d \in Nat \ {0} : \E size : RunWell(x, d, size)

(* What a step of frame d may change: its destination s and its own buffer. *)
Touches(mem, new, size, newsize, s, d) ==
  /\ Memory(new, newsize)
  /\ \A x \in DOMAIN size :
       x # Buffer(d) => /\ x \in DOMAIN newsize /\ newsize[x] = size[x]
                        /\ x # s.area => new[x] = mem[x]
  /\ \A i \in 0 .. size[s.area] - 1 : s.n <= i => new[s.area][i] = mem[s.area][i]

LEMMA SameLimbs ==
  ASSUME NEW mem, NEW new, NEW s, \A i \in 0 .. s.n - 1 : Limb(new, s, i) = Limb(mem, s, i)
  PROVE  /\ Value(new, s) = Value(mem, s) /\ Trimmed(new, s) = Trimmed(mem, s)
         /\ TrimmedSpan(new, s) = TrimmedSpan(mem, s)
<1>1. [i \in 0 .. s.n - 1 |-> Limb(new, s, i)] = [i \in 0 .. s.n - 1 |-> Limb(mem, s, i)]
  OBVIOUS
<1>2. QED
  BY <1>1 DEF Value, Trimmed, TrimmedSpan

LEMMA TouchesKeep ==
  ASSUME NEW mem, NEW new, NEW size, NEW newsize, NEW d, NEW s, In(s, size),
         Touches(mem, new, size, newsize, s, d),
         NEW t, In(t, size), t.area # Buffer(d), t.area # s.area \/ s.n <= t.at
  PROVE  /\ In(t, newsize) /\ Value(new, t) = Value(mem, t) /\ Trimmed(new, t) = Trimmed(mem, t)
         /\ TrimmedSpan(new, t) = TrimmedSpan(mem, t)
<1>1. t.at \in Nat /\ t.n \in Nat /\ size[t.area] \in Nat /\ t.at + t.n <= size[t.area]
      /\ t.area \in DOMAIN size /\ s.n \in Nat
  BY DEF In
<1>2. t.area \in DOMAIN newsize /\ newsize[t.area] = size[t.area]
  BY <1>1 DEF Touches
<1>3. In(t, newsize)
  BY <1>1, <1>2 DEF In
<1>4. \A i \in 0 .. t.n - 1 : Limb(new, t, i) = Limb(mem, t, i)
  <2>1. CASE t.area # s.area
    <3>1. new[t.area] = mem[t.area]
      BY <1>1, <2>1 DEF Touches
    <3>2. QED
      BY <3>1 DEF Limb
  <2>2. CASE t.area = s.area /\ s.n <= t.at
    <3> TAKE i \in 0 .. t.n - 1
    <3>1. PICK j \in Nat : j = t.at + i
      BY <1>1
    <3>2. j \in 0 .. size[t.area] - 1 /\ s.n <= j
      BY <1>1, <2>2, <3>1
    <3>3. new[t.area][j] = mem[t.area][j]
      BY <2>2, <3>2 DEF Touches
    <3>4. QED
      BY <3>1, <3>3 DEF Limb
  <2>3. QED
    BY <2>1, <2>2
<1>5. QED
  BY <1>3, <1>4, SameLimbs

LEMMA TouchesOperand ==
  ASSUME NEW mem, NEW new, NEW size, NEW newsize, NEW d \in Nat, NEW s, In(s, size),
         s.area \in 3 .. d + 2, Touches(mem, new, size, newsize, s, d),
         NEW t, In(t, size), t.area \in {1, 2}
  PROVE  /\ In(t, newsize) /\ Value(new, t) = Value(mem, t) /\ Trimmed(new, t) = Trimmed(mem, t)
         /\ TrimmedSpan(new, t) = TrimmedSpan(mem, t)
<1>1. t.area # Buffer(d) /\ t.area # s.area
  BY DEF Buffer
<1>2. QED
  BY <1>1, TouchesKeep

LEMMA TouchesBoth ==
  ASSUME NEW mem, NEW new, NEW last, NEW size, NEW newsize, NEW d \in Nat, NEW s, In(s, size),
         s.area \in 3 .. d + 2, Touches(mem, new, size, newsize, s, d),
         NEW lastsize, Touches(new, last, newsize, lastsize, s, d)
  PROVE  Touches(mem, last, size, lastsize, s, d)
<1>1. s.area # Buffer(d) /\ s.area \in DOMAIN size
  BY DEF Buffer, In
<1>2. newsize[s.area] = size[s.area]
  BY <1>1 DEF Touches
<1>3. QED
  BY <1>2 DEF Touches

(* A kernel that fills a span in the destination, or in the buffer. *)
LEMMA FillsTouches ==
  ASSUME NEW mem, NEW new, NEW size, NEW d \in Nat, NEW s, In(s, size), s.at = 0,
         s.area \in 3 .. d + 2, NEW t, In(t, size), NEW v, Fills(mem, new, size, t, v),
         \/ t.area = s.area /\ t.at + t.n <= s.n
         \/ t.area = Buffer(d)
  PROVE  Touches(mem, new, size, size, s, d)
<1>1. s.n \in Nat /\ s.area # Buffer(d) /\ size[s.area] \in Nat /\ t.at \in Nat /\ t.n \in Nat
      /\ s.area \in DOMAIN size
  BY DEF In, Buffer
<1>2. Memory(new, size) /\ Changes(mem, new, size, t)
  BY DEF Fills
<1>3. CASE t.area = s.area /\ t.at + t.n <= s.n
  BY <1>1, <1>2, <1>3 DEF Touches, Changes
<1>4. CASE t.area = Buffer(d)
  BY <1>1, <1>2, <1>4 DEF Touches, Changes
<1>5. QED
  BY <1>3, <1>4

(* Where the pieces of a slicing end. *)
LEMMA CutsFacts ==
  ASSUME NEW m \in Nat \ {0}, NEW cuts \in Nat, NEW rem \in Nat \ {0}, NEW n \in Nat,
         cuts * m + rem = n, NEW i \in 0 .. cuts, NEW len,
         i = cuts => len = rem, i # cuts => len = m
  PROVE  /\ i * m \in Nat /\ len \in Nat \ {0} /\ i * m + len <= n
         /\ i = cuts => i * m + len = n
         /\ i # cuts => i * m + len = (i + 1) * m
<1>1. CASE i = cuts
  BY <1>1
<1>2. CASE i # cuts
  <2>1. PICK d \in Nat : cuts = (i + 1) + d
    <3>1. cuts - (i + 1) \in Nat /\ cuts = (i + 1) + (cuts - (i + 1))
      BY <1>2
    <3>2. QED
      BY <3>1
  <2>2. cuts * m = (i + 1) * m + d * m /\ (i + 1) * m = i * m + m
    BY <2>1
  <2>3. PICK a \in Nat, b \in Nat : a = i * m /\ b = d * m
    OBVIOUS
  <2>4. len = m /\ a + m + b + rem = n
    BY <1>2, <2>2, <2>3
  <2>5. QED
    BY <1>2, <2>2, <2>3, <2>4
<1>3. QED
  BY <1>1, <1>2

LEMMA PieceFacts ==
  ASSUME NEW mem, NEW size, Memory(mem, size), NEW f, NEW k, SlicingWell(f, k, mem, size),
         NEW at, at = f.i * f.m, NEW len, len = PieceLength(f),
         NEW raw, raw = First(Subspan(f.long, at), len), NEW p, p = PieceOf(mem, f)
  PROVE  /\ f.long.n \in Nat \ {0} /\ f.m \in Nat \ {0} /\ at \in Nat /\ len \in Nat \ {0}
         /\ at + len <= f.long.n /\ len <= LargerOf(f.m, f.rem) /\ LargerOf(f.m, f.rem) \in Nat
         /\ f.i = f.cuts => at + len = f.long.n
         /\ f.i # f.cuts => at + len = (f.i + 1) * f.m /\ f.i + 1 \in 0 .. f.cuts
         /\ raw = Part(f.long, at, len) /\ In(raw, size) /\ raw.n = len /\ raw.area \in {1, 2}
         /\ In(p, size) /\ p.area \in {1, 2} /\ p.n \in 1 .. len /\ HasLimbs(Value(mem, p), p.n)
         /\ Value(mem, p) = Value(mem, raw)
         /\ Value(mem, First(f.long, at + len))
              = Value(mem, First(f.long, at)) + Power(Base, at) * Value(mem, p)
<1>1. PICK m \in Nat \ {0}, cuts \in Nat, rem \in Nat \ {0}, n \in Nat \ {0} :
        m = f.m /\ cuts = f.cuts /\ rem = f.rem /\ n = f.long.n /\ cuts * m + rem = n
  BY DEF SlicingWell, Slicing, Holding
<1>2. PICK i \in 0 .. cuts : i = f.i
  BY <1>1 DEF SlicingWell
<1>3. len = IF i < cuts THEN m ELSE rem
  BY <1>1, <1>2 DEF PieceLength
<1>4. /\ at \in Nat /\ len \in Nat \ {0} /\ at + len <= n
      /\ i = cuts => at + len = n
      /\ i # cuts => at + len = (i + 1) * m
  <2>1. /\ i * m \in Nat /\ len \in Nat \ {0} /\ i * m + len <= n
        /\ i = cuts => i * m + len = n
        /\ i # cuts => i * m + len = (i + 1) * m
    <3>1. (i = cuts => len = rem) /\ (i # cuts => len = m)
      BY <1>3
    <3>2. cuts * m + rem = n
      BY <1>1
    <3>3. QED
      BY <3>1, <3>2, CutsFacts
  <2>2. QED
    BY <1>1, <1>2, <2>1
<1>5. len <= LargerOf(m, rem) /\ LargerOf(m, rem) \in Nat
  BY <1>1, <1>3 DEF LargerOf
<1>6. In(f.long, size) /\ f.long.area \in {1, 2}
  BY DEF SlicingWell, Operand
<1>7. /\ raw = Part(f.long, at, len) /\ In(raw, size) /\ raw.n = len /\ raw.area = f.long.area
      /\ Subspan(First(f.long, at + len), at) = raw
  <2>1. at + len <= f.long.n
    BY <1>1, <1>4
  <2>2. QED
    BY <1>4, <1>6, <2>1, PartIs
<1>8. /\ In(p, size) /\ p.area = raw.area /\ p.n \in 1 .. len /\ HasLimbs(Value(mem, p), p.n)
      /\ Value(mem, p) = Value(mem, raw)
  <2>1. p = TrimmedSpan(mem, raw) /\ raw.n # 0
    BY <1>4, <1>7 DEF PieceOf
  <2>2. QED
    BY <1>7, <2>1, TrimmedIs
<1>9. Value(mem, First(f.long, at + len))
        = Value(mem, First(f.long, at)) + Power(Base, at) * Value(mem, p)
  <2>1. PICK s : s = First(f.long, at + len) /\ In(s, size) /\ s.n = at + len
    <3>1. In(f.long, size) /\ at + len \in Nat /\ at + len <= f.long.n
      BY <1>1, <1>4, <1>6
    <3>2. In(First(f.long, at + len), size) /\ First(f.long, at + len).n = at + len
      BY <3>1, PartsIn
    <3>3. QED
      BY <3>2
  <2>2. First(s, at) = First(f.long, at)
    BY <2>1 DEF First
  <2>3. at <= s.n
    BY <1>4, <2>1
  <2>4. QED
    BY <1>4, <1>7, <1>8, <2>1, <2>2, <2>3, ValueSplit
<1>10. i # cuts => i + 1 \in 0 .. cuts
  OBVIOUS
<1>11. QED
  BY <1>1, <1>2, <1>4, <1>5, <1>6, <1>7, <1>8, <1>9, <1>10

(* The limbs that the product of a piece is formed in. *)
LEMMA TargetFacts ==
  ASSUME NEW mem, NEW size, Memory(mem, size), NEW k \in Nat, NEW f, FrameWell(f, k, mem, size),
         SlicingWell(f, k, mem, size),
         NEW p, p = PieceOf(mem, f), NEW t, t = TargetOf(mem, f)
  PROVE  /\ In(t, size) /\ t.at = 0 /\ t.n = p.n + f.m /\ p.n \in Nat
         /\ t.area \in 3 .. k + 3
         /\ f.i = 0 => t.area = f.r.area /\ t = First(f.r, p.n + f.m)
         /\ f.i # 0 => t.area = Buffer(k)
         /\ f.long.n + f.m \in Nat /\ f.long.n + f.m <= f.r.n
         /\ f.i = 0 => t.n <= f.long.n + f.m
         /\ In(Result(f), size) /\ Result(f).n = f.long.n + f.m /\ Result(f).area = f.r.area
         /\ Result(f).at = 0
<1>1. PICK n \in Nat \ {0}, m \in Nat \ {0}, at \in Nat, len \in Nat \ {0}, x \in Nat :
        /\ n = f.long.n /\ m = f.m /\ at = f.i * f.m /\ at + len <= n /\ len <= x
        /\ x = LargerOf(f.m, f.rem) /\ p.n \in 1 .. len
  <2>1. PICK at, len, raw : /\ at = f.i * f.m /\ len = PieceLength(f)
                            /\ raw = First(Subspan(f.long, at), len)
    OBVIOUS
  <2>2. /\ f.long.n \in Nat \ {0} /\ f.m \in Nat \ {0} /\ at \in Nat /\ len \in Nat \ {0}
        /\ at + len <= f.long.n /\ len <= LargerOf(f.m, f.rem) /\ LargerOf(f.m, f.rem) \in Nat
        /\ p.n \in 1 .. len
    BY <2>1, PieceFacts
  <2>3. QED
    BY <2>1, <2>2
<1>2. p.n \in Nat /\ p.n + m <= n + m /\ p.n + m <= m + x /\ p.n + m \in Nat /\ n + m \in Nat
  BY <1>1
<1>3. /\ In(f.r, size) /\ f.r.at = 0 /\ f.r.area \in 3 .. k + 2 /\ f.a.n + f.b.n <= f.r.n
      /\ f.r.n \in Nat
  BY DEF FrameWell, In
<1>4. n + m <= f.r.n
  <2>1. In(f.a, size) /\ In(f.b, size) /\ f.a.n # 0 /\ f.b.n # 0
    BY DEF FrameWell, Operand
  <2>2. Trimmed(mem, f.a) \in 1 .. f.a.n /\ Trimmed(mem, f.b) \in 1 .. f.b.n
    <3>1. TrimmedSpan(mem, f.a).n \in 1 .. f.a.n /\ TrimmedSpan(mem, f.b).n \in 1 .. f.b.n
      BY <2>1, TrimmedIs
    <3>2. TrimmedSpan(mem, f.a).n = Trimmed(mem, f.a) /\ TrimmedSpan(mem, f.b).n = Trimmed(mem, f.b)
      <4>1. ASSUME NEW s, In(s, size) PROVE TrimmedSpan(mem, s).n = Trimmed(mem, s)
        BY <4>1 DEF TrimmedSpan, First, In
      <4>2. QED
        BY <2>1, <4>1
    <3>3. QED
      BY <3>1, <3>2
  <2>3. f.a.n \in Nat /\ f.b.n \in Nat
    BY <2>1 DEF In
  <2>4. n + m = Trimmed(mem, f.a) + Trimmed(mem, f.b)
    BY <1>1 DEF SlicingWell
  <2>5. QED
    BY <1>3, <2>2, <2>3, <2>4
<1>5. In(f.tmp, size) /\ f.tmp.at = 0 /\ f.tmp.area = Buffer(k) /\ f.tmp.n = m + x
  BY <1>1 DEF SlicingWell, Span
<1>6. /\ In(Result(f), size) /\ Result(f).n = n + m /\ Result(f).area = f.r.area
      /\ Result(f).at = 0
  BY <1>1, <1>2, <1>3, <1>4, PartsIn DEF Result
<1>7. CASE f.i = 0
  <2>1. t = First(f.r, p.n + m)
    BY <1>1, <1>7 DEF TargetOf
  <2>2. p.n + m <= f.r.n
    BY <1>2, <1>3, <1>4
  <2>3. In(t, size) /\ t.at = 0 /\ t.n = p.n + m /\ t.area = f.r.area
    BY <1>2, <1>3, <2>1, <2>2, PartsIn
  <2>4. t.area \in 3 .. k + 3
    BY <1>3, <2>3
  <2>5. QED
    BY <1>1, <1>2, <1>4, <1>6, <1>7, <2>1, <2>3, <2>4
<1>8. CASE f.i # 0
  <2>1. t = First(f.tmp, p.n + m)
    BY <1>1, <1>8 DEF TargetOf
  <2>2. In(t, size) /\ t.at = 0 /\ t.n = p.n + m /\ t.area = Buffer(k)
    BY <1>2, <1>5, <2>1, PartsIn
  <2>3. t.area \in 3 .. k + 3
    BY <2>2 DEF Buffer
  <2>4. QED
    BY <1>1, <1>2, <1>4, <1>6, <1>8, <2>2, <2>3
<1>9. QED
  BY <1>7, <1>8

(* What frame d touches leaves calls and slicings as they were. *)
LEMMA SlicingKept ==
  ASSUME NEW mem, NEW new, NEW size, NEW newsize, NEW d \in Nat, NEW s, In(s, size),
         s.area \in 3 .. d + 2, Touches(mem, new, size, newsize, s, d),
         NEW k \in Nat, NEW f, SlicingWell(f, k, mem, size), FrameWell(f, k, mem, size),
         k < d \/ newsize = size
  PROVE  SlicingWell(f, k, new, newsize)
<1>1. /\ In(f.long, size) /\ f.long.area \in {1, 2} /\ In(f.short, size) /\ f.short.area \in {1, 2}
      /\ In(f.a, size) /\ f.a.area \in {1, 2} /\ In(f.b, size) /\ f.b.area \in {1, 2}
  BY DEF SlicingWell, FrameWell, Operand
<1>2. /\ In(f.long, newsize) /\ Value(new, f.long) = Value(mem, f.long)
      /\ In(f.short, newsize) /\ Value(new, f.short) = Value(mem, f.short)
  BY <1>1, TouchesOperand
<1>3. Trimmed(new, f.a) = Trimmed(mem, f.a) /\ Trimmed(new, f.b) = Trimmed(mem, f.b)
  BY <1>1, TouchesOperand
<1>4. In(f.tmp, newsize)
  <2>1. In(f.tmp, size) /\ f.tmp.area = Buffer(k)
    BY DEF SlicingWell, Span
  <2>2. CASE newsize = size
    BY <2>1, <2>2
  <2>3. CASE k < d
    <3>1. Buffer(k) # Buffer(d)
      BY <2>3 DEF Buffer
    <3>2. Buffer(k) \in DOMAIN size
      BY <2>1 DEF In
    <3>3. Buffer(k) \in DOMAIN newsize /\ newsize[Buffer(k)] = size[Buffer(k)]
      BY <3>1, <3>2 DEF Touches
    <3>4. QED
      BY <2>1, <3>3 DEF In
  <2>4. QED
    BY <2>2, <2>3
<1>5. QED
  BY <1>2, <1>3, <1>4 DEF SlicingWell, Operand

LEMMA FrameKept ==
  ASSUME NEW mem, NEW new, NEW size, NEW newsize, NEW d \in Nat, NEW s, In(s, size),
         s.area \in 3 .. d + 2, Touches(mem, new, size, newsize, s, d),
         NEW k \in Nat, NEW f, FrameWell(f, k, mem, size), k < d \/ newsize = size \/ f.r = s,
         f.pc \in {"piece", "add"} => k < d \/ newsize = size
  PROVE  FrameWell(f, k, new, newsize)
<1>1. /\ In(f.a, size) /\ f.a.area \in {1, 2} /\ In(f.b, size) /\ f.b.area \in {1, 2}
      /\ In(f.r, size) /\ f.r.area \in 3 .. k + 2
  BY DEF FrameWell, Operand
<1>2. /\ In(f.a, newsize) /\ Value(new, f.a) = Value(mem, f.a)
      /\ In(f.b, newsize) /\ Value(new, f.b) = Value(mem, f.b)
  BY <1>1, TouchesOperand
<1>3. In(f.r, newsize)
  <2>1. CASE newsize = size
    BY <1>1, <2>1
  <2>2. CASE f.r.area # Buffer(d)
    <3>1. f.r.area \in DOMAIN size
      BY <1>1 DEF In
    <3>2. f.r.area \in DOMAIN newsize /\ newsize[f.r.area] = size[f.r.area]
      BY <2>2, <3>1 DEF Touches
    <3>3. QED
      BY <1>1, <3>2 DEF In
  <2>3. CASE k < d
    BY <1>1, <2>2, <2>3 DEF Buffer
  <2>4. CASE f.r = s
    BY <2>2, <2>4 DEF Buffer
  <2>5. QED
    BY <2>1, <2>3, <2>4
<1>4. f.pc \in {"piece", "add"} => SlicingWell(f, k, new, newsize)
  <2> SUFFICES ASSUME f.pc \in {"piece", "add"} PROVE SlicingWell(f, k, new, newsize)
    OBVIOUS
  <2>1. SlicingWell(f, k, mem, size)
    BY DEF FrameWell
  <2>2. QED
    BY <2>1, SlicingKept
<1>5. QED
  BY <1>2, <1>3, <1>4 DEF FrameWell, Operand

LEMMA DoneKept ==
  ASSUME NEW mem, NEW new, NEW size, NEW newsize, NEW d \in Nat, NEW s, In(s, size),
         s.area \in 3 .. d + 2, Touches(mem, new, size, newsize, s, d),
         NEW k, NEW f, SlicingWell(f, k, mem, size), NEW n \in Nat, n <= f.long.n
  PROVE  Done(new, f, n) = Done(mem, f, n)
<1>1. /\ In(f.long, size) /\ f.long.area \in {1, 2} /\ In(f.short, size) /\ f.short.area \in {1, 2}
  BY DEF SlicingWell, Operand
<1>2. In(First(f.long, n), size) /\ First(f.long, n).area \in {1, 2}
  BY <1>1, PartsIn
<1>3. QED
  BY <1>1, <1>2, TouchesOperand DEF Done

LEMMA PieceKept ==
  ASSUME NEW mem, NEW new, NEW size, NEW newsize, NEW d \in Nat, NEW s, In(s, size),
         Memory(mem, size), s.area \in 3 .. d + 2, Touches(mem, new, size, newsize, s, d),
         NEW k, NEW f, SlicingWell(f, k, mem, size)
  PROVE  /\ PieceOf(new, f) = PieceOf(mem, f) /\ TargetOf(new, f) = TargetOf(mem, f)
         /\ Value(new, PieceOf(mem, f)) = Value(mem, PieceOf(mem, f))
<1>1. PICK at, len, raw, p :
        /\ at = f.i * f.m /\ len = PieceLength(f) /\ raw = First(Subspan(f.long, at), len)
        /\ p = PieceOf(mem, f)
  OBVIOUS
<1>2. In(raw, size) /\ raw.area \in {1, 2} /\ In(p, size) /\ p.area \in {1, 2}
  BY <1>1, PieceFacts
<1>3. TrimmedSpan(new, raw) = TrimmedSpan(mem, raw) /\ Value(new, p) = Value(mem, p)
  BY <1>2, TouchesOperand
<1>4. PieceOf(new, f) = PieceOf(mem, f)
  BY <1>1, <1>3 DEF PieceOf
<1>5. QED
  BY <1>1, <1>3, <1>4 DEF TargetOf

LEMMA WaitsKept ==
  ASSUME NEW mem, NEW new, NEW size, NEW newsize, NEW d \in Nat, NEW s, In(s, size),
         Memory(mem, size), s.area \in 3 .. d + 2, Touches(mem, new, size, newsize, s, d),
         NEW k \in Nat, k < d, NEW f, FrameWell(f, k, mem, size),
         NEW g, Waits(f, g, mem), Above(g.r, s)
  PROVE  Waits(f, g, new)
<1>1. SlicingWell(f, k, mem, size)
  BY DEF FrameWell, Waits
<1>2. /\ PieceOf(new, f) = PieceOf(mem, f) /\ TargetOf(new, f) = TargetOf(mem, f)
  BY <1>1, PieceKept
<1>3. PICK p, t : p = PieceOf(mem, f) /\ t = TargetOf(mem, f) /\ g.r = t
  BY DEF Waits
<1>4. /\ In(t, size) /\ t.n \in Nat
      /\ f.i = 0 => t.area = f.r.area
      /\ f.i # 0 => t.area = Buffer(k)
      /\ f.long.n + f.m \in Nat /\ f.long.n + f.m <= f.r.n
      /\ f.i = 0 => t.n <= f.long.n + f.m
      /\ In(Result(f), size) /\ Result(f).area = f.r.area
  <2>1. /\ In(t, size)
        /\ f.i = 0 => t.area = f.r.area /\ t = First(f.r, p.n + f.m)
        /\ f.i # 0 => t.area = Buffer(k)
        /\ f.long.n + f.m \in Nat /\ f.long.n + f.m <= f.r.n
        /\ f.i = 0 => t.n <= f.long.n + f.m
        /\ In(Result(f), size) /\ Result(f).area = f.r.area
    BY <1>1, <1>3, TargetFacts
  <2>2. QED
    BY <2>1 DEF In
<1>5. In(f.r, size) /\ f.r.at = 0 /\ f.r.area \in 3 .. k + 2 /\ f.r.area # Buffer(d)
  BY DEF FrameWell, Buffer
<1>6. Rest(f, mem, t.n)
  BY <1>3 DEF Waits
<1>7. CASE f.i = 0
  <2>1. PICK e \in Nat : e = (f.long.n + f.m) - t.n /\ t.n + e <= f.r.n
    <3>1. (f.long.n + f.m) - t.n \in Nat /\ t.n + ((f.long.n + f.m) - t.n) = f.long.n + f.m
      BY <1>4, <1>7
    <3>2. QED
      BY <1>4, <3>1
  <2>2. PICK u : u = Part(f.r, t.n, e) /\ In(u, size) /\ u.area = f.r.area /\ u.at = t.n
    <3>1. f.r.at + t.n = t.n
      BY <1>4, <1>5
    <3>2. QED
      BY <1>4, <1>5, <2>1, <3>1, PartIs
  <2>3. u.area # s.area \/ s.n <= u.at
    BY <1>3, <1>4, <1>7, <2>2 DEF Above
  <2>4. Value(new, u) = Value(mem, u)
    BY <1>5, <2>2, <2>3, TouchesKeep
  <2>5. Rest(f, new, t.n)
    BY <1>6, <1>7, <2>1, <2>2, <2>4 DEF Rest
  <2>6. QED
    BY <1>2, <1>3, <2>5 DEF Waits
<1>8. CASE f.i # 0
  <2>1. Result(f).area # s.area /\ Result(f).area # Buffer(d)
    BY <1>3, <1>4, <1>5, <1>8 DEF Above, Buffer
  <2>2. Value(new, Result(f)) = Value(mem, Result(f))
    BY <1>4, <2>1, TouchesKeep
  <2>3. Done(new, f, f.i * f.m) = Done(mem, f, f.i * f.m)
    <3>1. PICK at \in Nat : at = f.i * f.m /\ at <= f.long.n
      <4>1. PICK at, len : at = f.i * f.m /\ len = PieceLength(f)
        OBVIOUS
      <4>2. at \in Nat /\ len \in Nat /\ at + len <= f.long.n /\ f.long.n \in Nat
        BY <1>1, <4>1, PieceFacts
      <4>3. QED
        BY <4>1, <4>2
    <3>2. QED
      BY <1>1, <3>1, DoneKept
  <2>4. Rest(f, new, t.n)
    BY <1>6, <1>8, <2>2, <2>3 DEF Rest
  <2>5. QED
    BY <1>2, <1>3, <2>4 DEF Waits
<1>9. QED
  BY <1>7, <1>8

LEMMA AboveTransitive ==
  ASSUME NEW s, NEW t, NEW u, s.area \in Nat, t.area \in Nat, u.area \in Nat,
         s.n \in Nat, t.n \in Nat, u.n \in Nat, Above(s, t), Above(t, u)
  PROVE  Above(s, u)
BY DEF Above

LEMMA TopIs ==
  ASSUME NEW d \in Nat \ {0}, NEW size, RunWell(disp, d, size)
  PROVE  /\ Len(disp.frames) = d /\ disp.frames # <<>> /\ This = disp.frames[d]
         /\ \A g : /\ DispBecomes(g) = [k \in 1 .. d |-> IF k = d THEN g ELSE disp.frames[k]]
                   /\ DispBecomes(g)[d] = g
                   /\ \A k \in 1 .. d - 1 : DispBecomes(g)[k] = disp.frames[k]
<1>1. PICK fr : fr = disp.frames /\ fr = [k \in 1 .. d |-> fr[k]]
  BY DEF RunWell
<1>2. Len(fr) = d /\ fr # <<>>
  <2>1. Len(fr) = d
    BY <1>1
  <2>2. QED
    BY <2>1
<1>3. ASSUME NEW g PROVE [fr EXCEPT ![d] = g] = [k \in 1 .. d |-> IF k = d THEN g ELSE fr[k]]
  BY <1>1, Zenon
<1>4. ASSUME NEW g
      PROVE  /\ [k \in 1 .. d |-> IF k = d THEN g ELSE fr[k]][d] = g
             /\ \A j \in 1 .. d - 1 : [k \in 1 .. d |-> IF k = d THEN g ELSE fr[k]][j] = fr[j]
  OBVIOUS
<1>5. \A g : DispBecomes(g) = [fr EXCEPT ![d] = g]
  BY <1>1, <1>2 DEF DispBecomes
<1>6. ASSUME NEW g
      PROVE  /\ DispBecomes(g) = [k \in 1 .. d |-> IF k = d THEN g ELSE fr[k]]
             /\ DispBecomes(g)[d] = g
             /\ \A k \in 1 .. d - 1 : DispBecomes(g)[k] = fr[k]
  <2>1. DispBecomes(g) = [k \in 1 .. d |-> IF k = d THEN g ELSE fr[k]]
    BY <1>3, <1>5, Zenon
  <2>2. QED
    BY <1>4, <2>1
<1>7. This = disp.frames[d]
  BY <1>1, <1>2 DEF This
<1>8. QED
  BY <1>1, <1>2, <1>6, <1>7

(* The frames below d after a step of frame d that touches no more than it may. *)
LEMMA BelowKept ==
  ASSUME NEW mem, NEW new, NEW size, NEW newsize, Memory(mem, size), NEW d \in Nat \ {0},
         NEW fr, StackBelow(fr, d, mem, size), FrameWell(fr[d], d, mem, size),
         Touches(mem, new, size, newsize, fr[d].r, d)
  PROVE  \A k \in 1 .. d - 1 : FrameWell(fr[k], k, new, newsize) /\ Waits(fr[k], fr[k + 1], new)
<1> TAKE k \in 1 .. d - 1
<1>1. k \in Nat /\ k < d /\ d \in Nat /\ k \in 1 .. d /\ d \in 1 .. d /\ k + 1 \in 1 .. d
      /\ (k + 1 < d \/ k + 1 = d)
  OBVIOUS
<1>2. FrameWell(fr[k], k, mem, size) /\ Waits(fr[k], fr[k + 1], mem)
  BY DEF StackBelow
<1>3. In(fr[d].r, size) /\ fr[d].r.area \in 3 .. d + 2
  BY DEF FrameWell
<1>4. FrameWell(fr[k], k, new, newsize)
  BY <1>1, <1>2, <1>3, FrameKept
<1>5. Above(fr[k + 1].r, fr[d].r)
  <2>1. CASE k + 1 < d
    BY <1>1, <2>1 DEF StackBelow
  <2>2. CASE k + 1 = d
    BY <1>3, <2>2 DEF Above, In
  <2>3. QED
    BY <1>1, <2>1, <2>2
<1>6. Waits(fr[k], fr[k + 1], new)
  BY <1>1, <1>2, <1>3, <1>5, WaitsKept
<1>7. QED
  BY <1>4, <1>6

(* The frame that runs goes on. *)
LEMMA BecomesWell ==
  ASSUME NEW d \in Nat \ {0}, NEW size, RunWell(disp, d, size), NEW f, f = disp.frames[d],
         NEW new, NEW newsize, Touches(disp.mem, new, size, newsize, f.r, d),
         NEW g, g.r = f.r, g.a = f.a, g.b = f.b, FrameWell(g, d, new, newsize), AtWork(g, new),
         disp' = [disp EXCEPT !.mem = new, !.frames = DispBecomes(g)]
  PROVE  RunWell(disp', d, newsize)
<1>1. PICK fr : fr = disp.frames
  OBVIOUS
<1>2. PICK gr : /\ gr = DispBecomes(g) /\ gr = [k \in 1 .. d |-> IF k = d THEN g ELSE fr[k]]
                /\ gr[d] = g /\ \A k \in 1 .. d - 1 : gr[k] = fr[k]
  BY <1>1, TopIs
<1>3. /\ {"frames", "mem", "garbage"} \subseteq DOMAIN disp' /\ disp'.garbage = disp.garbage
      /\ disp'.frames = gr /\ disp'.mem = new
  BY <1>2 DEF RunWell
<1>4. gr = [k \in 1 .. d |-> gr[k]]
  BY <1>2
<1>5. \A k \in 1 .. d - 1 : FrameWell(fr[k], k, new, newsize) /\ Waits(fr[k], fr[k + 1], new)
  <2>1. StackBelow(fr, d, disp.mem, size) /\ FrameWell(fr[d], d, disp.mem, size)
        /\ Memory(disp.mem, size)
    BY <1>1 DEF RunWell
  <2>2. QED
    BY <1>1, <2>1, BelowKept
<1>6. \A k \in 1 .. d : gr[k].r = fr[k].r
  BY <1>1, <1>2
<1>7. StackBelow(gr, d, new, newsize)
  <2>1. ASSUME NEW k \in 1 .. d - 1
        PROVE  FrameWell(gr[k], k, new, newsize) /\ Waits(gr[k], gr[k + 1], new)
    <3>1. gr[k] = fr[k] /\ FrameWell(fr[k], k, new, newsize) /\ Waits(fr[k], fr[k + 1], new)
      BY <1>2, <1>5
    <3>2. CASE k + 1 = d
      <4>1. gr[k + 1] = g /\ fr[k + 1] = f
        BY <1>1, <1>2, <3>2
      <4>2. QED
        BY <3>1, <4>1 DEF Waits
    <3>3. CASE k + 1 # d
      <4>1. k + 1 \in 1 .. d - 1
        BY <3>3
      <4>2. QED
        BY <1>2, <3>1, <4>1
    <3>4. QED
      BY <3>2, <3>3
  <2>2. \A j, k \in 1 .. d : j < k => Above(gr[j].r, gr[k].r)
    <3>1. \A j, k \in 1 .. d : j < k => Above(fr[j].r, fr[k].r)
      BY <1>1 DEF RunWell, StackBelow
    <3>2. QED
      BY <1>6, <3>1
  <2>3. QED
    BY <2>1, <2>2 DEF StackBelow
<1>8. Memory(new, newsize) /\ disp.garbage \in Leftovers
  BY DEF Touches, RunWell
<1>9. QED
  BY <1>2, <1>3, <1>4, <1>7, <1>8 DEF RunWell

(* The frame that runs hands a piece to the dispatcher. *)
LEMMA CallsWell ==
  ASSUME NEW d \in Nat \ {0}, NEW size, RunWell(disp, d, size), NEW f, f = disp.frames[d],
         NEW new, NEW newsize, Touches(disp.mem, new, size, newsize, f.r, d),
         NEW g, g.r = f.r, g.a = f.a, g.b = f.b, FrameWell(g, d, new, newsize),
         NEW h, Waits(g, h, new), Above(g.r, h.r), FrameWell(h, d + 1, new, newsize),
         AtWork(h, new),
         disp' = [disp EXCEPT !.mem = new, !.frames = Append(DispBecomes(g), h)]
  PROVE  RunWell(disp', d + 1, newsize)
<1>1. PICK fr : fr = disp.frames
  OBVIOUS
<1>2. PICK gr : /\ gr = DispBecomes(g) /\ gr = [k \in 1 .. d |-> IF k = d THEN g ELSE fr[k]]
                /\ gr[d] = g /\ \A k \in 1 .. d - 1 : gr[k] = fr[k]
  BY <1>1, TopIs
<1>3. PICK hr : /\ hr = Append(gr, h) /\ hr = [k \in 1 .. d + 1 |-> hr[k]]
                /\ hr[d + 1] = h /\ \A k \in 1 .. d : hr[k] = gr[k]
  <2>1. gr = [k \in 1 .. d |-> gr[k]]
    BY <1>2
  <2>2. QED
    <3>1. d \in Nat
      OBVIOUS
    <3>2. /\ Append(gr, h) = [k \in 1 .. d + 1 |-> Append(gr, h)[k]]
          /\ Append(gr, h)[d + 1] = h /\ \A k \in 1 .. d : Append(gr, h)[k] = gr[k]
      BY <2>1, <3>1, AppendIs
    <3>3. QED
      BY <3>2, Zenon
<1>4. /\ {"frames", "mem", "garbage"} \subseteq DOMAIN disp' /\ disp'.garbage = disp.garbage
      /\ disp'.frames = hr /\ disp'.mem = new
  BY <1>2, <1>3 DEF RunWell
<1>5. \A k \in 1 .. d - 1 : FrameWell(fr[k], k, new, newsize) /\ Waits(fr[k], fr[k + 1], new)
  <2>1. StackBelow(fr, d, disp.mem, size) /\ FrameWell(fr[d], d, disp.mem, size)
        /\ Memory(disp.mem, size)
    BY <1>1 DEF RunWell
  <2>2. QED
    BY <1>1, <2>1, BelowKept
<1>6. hr[d] = g /\ hr[d + 1] = h /\ \A k \in 1 .. d - 1 : hr[k] = fr[k]
  <2>1. d \in 1 .. d /\ \A k \in 1 .. d - 1 : k \in 1 .. d
    OBVIOUS
  <2>2. QED
    BY <1>2, <1>3, <2>1
<1>7. \A k \in 1 .. d : FrameWell(hr[k], k, new, newsize) /\ Waits(hr[k], hr[k + 1], new)
  <2> TAKE k \in 1 .. d
  <2>1. CASE k = d
    BY <1>6, <2>1
  <2>2. CASE k + 1 = d
    <3>1. k \in 1 .. d - 1
      BY <2>2
    <3>2. hr[k] = fr[k] /\ hr[k + 1] = g /\ fr[k + 1] = f
      BY <1>1, <1>6, <2>2, <3>1
    <3>3. FrameWell(fr[k], k, new, newsize) /\ Waits(fr[k], f, new)
      BY <1>5, <3>1, <3>2
    <3>4. QED
      BY <3>2, <3>3 DEF Waits
  <2>3. CASE k # d /\ k + 1 # d
    <3>1. k \in 1 .. d - 1 /\ k + 1 \in 1 .. d - 1
      BY <2>3
    <3>2. QED
      BY <1>5, <1>6, <3>1
  <2>4. QED
    BY <2>1, <2>2, <2>3
<1>8. \A j, k \in 1 .. d : j < k => Above(hr[j].r, hr[k].r)
  <2>1. \A k \in 1 .. d : hr[k].r = fr[k].r
    BY <1>1, <1>2, <1>3
  <2>2. \A j, k \in 1 .. d : j < k => Above(fr[j].r, fr[k].r)
    BY <1>1 DEF RunWell, StackBelow
  <2>3. QED
    BY <2>1, <2>2
<1>9. \A j \in 1 .. d : Above(hr[j].r, h.r)
  <2> TAKE j \in 1 .. d
  <2>1. CASE j = d
    BY <1>6, <2>1
  <2>2. CASE j # d
    <3>1. j < d /\ d \in 1 .. d
      BY <2>2
    <3>2. Above(hr[j].r, g.r)
      BY <1>6, <1>8, <3>1
    <3>3. In(hr[j].r, newsize) /\ In(g.r, newsize) /\ In(h.r, newsize)
          /\ hr[j].r.area \in 3 .. j + 2 /\ g.r.area \in 3 .. d + 2 /\ h.r.area \in 3 .. (d + 1) + 2
      BY <1>7 DEF FrameWell
    <3>4. hr[j].r.n \in Nat /\ g.r.n \in Nat /\ h.r.n \in Nat
      BY <3>3 DEF In
    <3>5. hr[j].r.area \in Nat /\ g.r.area \in Nat /\ h.r.area \in Nat
      BY <3>3
    <3>6. QED
      BY <3>2, <3>4, <3>5, AboveTransitive
  <2>3. QED
    BY <2>1, <2>2
<1>10. StackBelow(hr, d + 1, new, newsize)
  <2>1. (d + 1) - 1 = d /\ \A k \in 1 .. d + 1 : k \in 1 .. d \/ k = d + 1
    OBVIOUS
  <2>2. \A j, k \in 1 .. d + 1 : j < k => Above(hr[j].r, hr[k].r)
    <3> TAKE j, k \in 1 .. d + 1
    <3>1. CASE k = d + 1 /\ j < k
      <4>1. j \in 1 .. d
        BY <3>1
      <4>2. QED
        BY <1>6, <1>9, <3>1, <4>1
    <3>2. CASE k # d + 1 /\ j < k
      <4>1. j \in 1 .. d /\ k \in 1 .. d
        BY <3>2
      <4>2. QED
        BY <1>8, <3>2, <4>1
    <3>3. QED
      BY <3>1, <3>2
  <2>3. QED
    BY <1>7, <2>1, <2>2 DEF StackBelow
<1>11. Memory(new, newsize) /\ disp.garbage \in Leftovers
  BY DEF Touches, RunWell
<1>12. QED
  BY <1>3, <1>4, <1>6, <1>10, <1>11 DEF RunWell

(* The trimmed operands of the frame that runs, and the limbs for their product. *)
LEMMA OperandsAre ==
  ASSUME NEW d \in Nat \ {0}, NEW size, RunWell(disp, d, size)
  PROVE  /\ In(Left, size) /\ Left.area \in {1, 2} /\ Left.n \in Nat \ {0}
         /\ In(Right, size) /\ Right.area \in {1, 2} /\ Right.n \in Nat \ {0}
         /\ Left.n = Trimmed(disp.mem, This.a) /\ Right.n = Trimmed(disp.mem, This.b)
         /\ HasLimbs(Value(disp.mem, Left), Left.n) /\ HasLimbs(Value(disp.mem, Right), Right.n)
         /\ ProductOf(disp.mem, Left, Right) = This.product
         /\ In(This.r, size) /\ This.r.at = 0 /\ This.r.area \in 3 .. d + 2
         /\ Left.n + Right.n <= This.r.n
         /\ Memory(disp.mem, size)
<1>1. PICK f : f = This /\ FrameWell(f, d, disp.mem, size) /\ Memory(disp.mem, size)
  BY TopIs DEF RunWell
<1>2. /\ In(f.a, size) /\ f.a.area \in {1, 2} /\ f.a.n # 0
      /\ In(f.b, size) /\ f.b.area \in {1, 2} /\ f.b.n # 0
      /\ In(f.r, size) /\ f.r.at = 0 /\ f.r.area \in 3 .. d + 2 /\ f.a.n + f.b.n <= f.r.n
      /\ f.product = Value(disp.mem, f.a) * Value(disp.mem, f.b)
  BY <1>1 DEF FrameWell, Operand
<1>3. Left = TrimmedSpan(disp.mem, f.a) /\ Right = TrimmedSpan(disp.mem, f.b)
  BY <1>1 DEF Left, Right
<1>4. ASSUME NEW s, In(s, size), s.n # 0, NEW t, t = TrimmedSpan(disp.mem, s)
      PROVE  /\ In(t, size) /\ t.area = s.area /\ t.n \in 1 .. s.n /\ t.n = Trimmed(disp.mem, s)
             /\ Value(disp.mem, t) = Value(disp.mem, s) /\ HasLimbs(Value(disp.mem, t), t.n)
  <2>1. t.n = Trimmed(disp.mem, s)
    BY <1>4 DEF TrimmedSpan, First, In
  <2>2. QED
    BY <1>1, <1>4, <2>1, TrimmedIs
<1>5. /\ In(Left, size) /\ Left.area \in {1, 2} /\ Left.n \in 1 .. f.a.n
      /\ Left.n = Trimmed(disp.mem, f.a) /\ Value(disp.mem, Left) = Value(disp.mem, f.a)
      /\ HasLimbs(Value(disp.mem, Left), Left.n)
  BY <1>2, <1>3, <1>4
<1>6. /\ In(Right, size) /\ Right.area \in {1, 2} /\ Right.n \in 1 .. f.b.n
      /\ Right.n = Trimmed(disp.mem, f.b) /\ Value(disp.mem, Right) = Value(disp.mem, f.b)
      /\ HasLimbs(Value(disp.mem, Right), Right.n)
  BY <1>2, <1>3, <1>4
<1>7. f.a.n \in Nat /\ f.b.n \in Nat /\ f.r.n \in Nat
  BY <1>2 DEF In
<1>8. Left.n \in Nat \ {0} /\ Right.n \in Nat \ {0} /\ Left.n + Right.n <= f.r.n
  BY <1>2, <1>5, <1>6, <1>7
<1>9. ProductOf(disp.mem, Left, Right) = f.product
  BY <1>2, <1>5, <1>6 DEF ProductOf
<1>10. QED
  BY <1>1, <1>2, <1>5, <1>6, <1>8, <1>9

(* A kernel that forms the product of the trimmed operands in the limbs for it, and returns. *)
Forms(new, size) ==
  Fills(disp.mem, new, size, Whole(This.r, Left, Right), ProductOf(disp.mem, Left, Right))

LEMMA CallReturns ==
  ASSUME NEW d \in Nat \ {0}, NEW size, RunWell(disp, d, size), DispEntered,
         NEW new, Forms(new, size), disp' = DispReturned(new)
  PROVE  RunWell(disp', d, size)
<1>1. PICK f : f = This /\ f = disp.frames[d] /\ FrameWell(f, d, disp.mem, size) /\ f.pc = "enter"
  BY TopIs DEF RunWell, DispEntered
<1>2. PICK w : w = Whole(f.r, Left, Right) /\ In(w, size) /\ w.at = 0 /\ w.area = f.r.area
               /\ w.n = Left.n + Right.n /\ w.n <= f.r.n /\ w.n \in Nat
  <2>1. Left.n + Right.n \in Nat /\ Left.n + Right.n <= f.r.n /\ In(f.r, size) /\ f.r.at = 0
    BY <1>1, OperandsAre
  <2>2. QED
    BY <2>1, PartsIn DEF Whole
<1>3. Fills(disp.mem, new, size, w, f.product)
  BY <1>1, <1>2, OperandsAre DEF Forms
<1>4. Touches(disp.mem, new, size, size, f.r, d)
  <2>1. w.at + w.n <= f.r.n
    BY <1>2
  <2>2. In(f.r, size) /\ f.r.at = 0 /\ f.r.area \in 3 .. d + 2
    BY <1>1 DEF FrameWell
  <2>3. QED
    BY <1>2, <1>3, <2>1, <2>2, FillsTouches
<1>5. PICK g : g = [f EXCEPT !.pc = "return"]
  OBVIOUS
<1>6. g.r = f.r /\ g.a = f.a /\ g.b = f.b /\ g.product = f.product /\ g.pc = "return"
      /\ DOMAIN g = DOMAIN f
  BY <1>1, <1>5 DEF FrameWell
<1>7. In(f.r, size) /\ f.r.area \in 3 .. d + 2 /\ In(f.a, size) /\ In(f.b, size)
      /\ f.a.area \in {1, 2} /\ f.b.area \in {1, 2}
  BY <1>1 DEF FrameWell, Operand
<1>8. FrameWell(g, d, new, size)
  <2>1. FrameWell(f, d, new, size)
    BY <1>1, <1>4, <1>7, FrameKept
  <2>2. QED
    BY <1>6, <2>1 DEF FrameWell
<1>9. AtWork(g, new)
  <2>1. Trimmed(new, f.a) = Left.n /\ Trimmed(new, f.b) = Right.n
    <3>1. Trimmed(new, f.a) = Trimmed(disp.mem, f.a) /\ Trimmed(new, f.b) = Trimmed(disp.mem, f.b)
      BY <1>4, <1>7, TouchesOperand
    <3>2. QED
      BY <1>1, <3>1, OperandsAre
  <2>2. Value(new, First(f.r, Left.n + Right.n)) = f.product
    BY <1>2, <1>3 DEF Fills, Whole
  <2>3. QED
    BY <1>6, <2>1, <2>2 DEF AtWork
<1>10. disp' = [disp EXCEPT !.mem = new, !.frames = DispBecomes(g)]
  BY <1>1, <1>5 DEF DispReturned
<1>11. QED
  BY <1>1, <1>4, <1>6, <1>8, <1>9, <1>10, BecomesWell

LEMMA OverwriteForms ==
  ASSUME NEW d \in Nat \ {0}, NEW size, RunWell(disp, d, size)
  PROVE  Forms(Overwrite(disp.mem, This.r, Left, Right), size)
<1>1. In(This.r, size) /\ In(Left, size) /\ In(Right, size) /\ Left.n + Right.n <= This.r.n
      /\ Memory(disp.mem, size)
  BY OperandsAre
<1>2. QED
  BY <1>1, OverwriteFills DEF Forms, Whole, ProductOf

LEMMA MultiplyLongForms ==
  ASSUME NEW d \in Nat \ {0}, NEW size, RunWell(disp, d, size)
  PROVE  Forms(MultiplyLong(disp.mem, This.r, Left, Right), size)
<1>1. In(This.r, size) /\ In(Left, size) /\ In(Right, size) /\ Left.n + Right.n <= This.r.n
      /\ Memory(disp.mem, size) /\ Left.n # 0
  BY OperandsAre
<1>2. QED
  BY <1>1, MultiplyLongFills DEF Forms, Whole, ProductOf

LEMMA AccumulateForms ==
  ASSUME NEW d \in Nat \ {0}, NEW size, RunWell(disp, d, size)
  PROVE  Forms(AccumulateFrom0(disp.mem, This.r, Left, Right), size)
<1>1. In(This.r, size) /\ In(Left, size) /\ In(Right, size) /\ Left.n + Right.n <= This.r.n
      /\ Memory(disp.mem, size) /\ Left.area # This.r.area /\ Right.area # This.r.area
  <2>1. Left.area \in {1, 2} /\ Right.area \in {1, 2} /\ This.r.area \in 3 .. d + 2
    BY OperandsAre
  <2>2. Left.area # This.r.area /\ Right.area # This.r.area
    BY <2>1
  <2>3. QED
    BY <2>2, OperandsAre
<1>2. QED
  BY <1>1, AccumulateFrom0Fills DEF Forms, Whole, ProductOf

LEMMA PowerOfTwoForms ==
  ASSUME NEW d \in Nat \ {0}, NEW size, RunWell(disp, d, size)
  PROVE  /\ PowerOfTwo(disp.mem, Right) =>
              Forms(MultiplyPowerOfTwo(disp.mem, This.r, Left, Right), size)
         /\ PowerOfTwo(disp.mem, Left) =>
              Forms(MultiplyPowerOfTwo(disp.mem, This.r, Right, Left), size)
<1>1. In(This.r, size) /\ In(Left, size) /\ In(Right, size) /\ Left.n + Right.n <= This.r.n
      /\ Memory(disp.mem, size) /\ Left.n \in Nat \ {0} /\ Right.n \in Nat \ {0}
      /\ HasLimbs(Value(disp.mem, Left), Left.n) /\ HasLimbs(Value(disp.mem, Right), Right.n)
  BY OperandsAre
<1>2. PICK x \in Nat, y \in Nat : x = Value(disp.mem, Left) /\ y = Value(disp.mem, Right)
  BY <1>1, ValueType
<1>3. Left.n + Right.n = Right.n + Left.n /\ x * y = y * x
  BY <1>1
<1>4. ASSUME PowerOfTwo(disp.mem, Right)
      PROVE  Forms(MultiplyPowerOfTwo(disp.mem, This.r, Left, Right), size)
  BY <1>1, <1>4, PowerOfTwoFills DEF Forms, Whole, ProductOf
<1>5. ASSUME PowerOfTwo(disp.mem, Left)
      PROVE  Forms(MultiplyPowerOfTwo(disp.mem, This.r, Right, Left), size)
  <2>1. Right.n + Left.n <= This.r.n
    BY <1>1, <1>3
  <2>2. Fills(disp.mem, MultiplyPowerOfTwo(disp.mem, This.r, Right, Left), size,
              First(This.r, Right.n + Left.n), y * x)
    BY <1>1, <1>2, <1>5, <2>1, PowerOfTwoFills
  <2>3. QED
    BY <1>2, <1>3, <2>2 DEF Forms, Whole, ProductOf
<1>6. QED
  BY <1>4, <1>5

LEMMA SquareLongForms ==
  ASSUME NEW d \in Nat \ {0}, NEW size, RunWell(disp, d, size), Left = Right
  PROVE  Forms(SquareLong(Fill(disp.mem, Whole(This.r, Left, Left)), This.r, Left), size)
<1>1. In(This.r, size) /\ In(Left, size) /\ Left.n + Left.n <= This.r.n
      /\ Memory(disp.mem, size) /\ Left.n \in Nat \ {0}
      /\ Left.area \in {1, 2} /\ This.r.area \in 3 .. d + 2
  BY OperandsAre
<1>2. 2 * Left.n = Left.n + Left.n /\ Left.n + Left.n \in Nat /\ Left.area # This.r.area
  BY <1>1
<1>3. PICK w : w = Whole(This.r, Left, Left) /\ w = First(This.r, 2 * Left.n) /\ In(w, size)
               /\ w.area = This.r.area
  BY <1>1, <1>2, PartsIn DEF Whole
<1>4. PICK m : m = Fill(disp.mem, w)
  OBVIOUS
<1>5. Memory(m, size) /\ Changes(disp.mem, m, size, w) /\ Value(m, w) = 0
  BY <1>1, <1>3, <1>4, FillFills DEF Fills
<1>6. Value(m, Left) = Value(disp.mem, Left)
  BY <1>1, <1>2, <1>3, <1>5, ChangesKeep DEF Apart
<1>7. Fills(m, SquareLong(m, This.r, Left), size, w, Value(m, Left) * Value(m, Left))
  BY <1>1, <1>2, <1>3, <1>5, SquareLongFills
<1>8. Changes(disp.mem, SquareLong(m, This.r, Left), size, w)
  BY <1>5, <1>7, ChangesTwice DEF Fills
<1>9. QED
  BY <1>3, <1>4, <1>6, <1>7, <1>8 DEF Forms, Fills, ProductOf

LEMMA SquareSame ==
  ASSUME NEW d \in Nat \ {0}, NEW size, RunWell(disp, d, size), DispEntered
  PROVE  /\ This.square => Left = Right
         /\ ~This.square => Left.area # Right.area
<1>1. This = disp.frames[d] /\ FrameWell(This, d, disp.mem, size)
  BY TopIs DEF RunWell
<1>2. /\ This.square = (This.a = This.b)
      /\ This.a.area = This.b.area => This.a = This.b
  BY <1>1 DEF FrameWell, DispEntered
<1>3. Left.area = This.a.area /\ Right.area = This.b.area
  <2>1. In(This.a, size) /\ In(This.b, size)
    BY <1>1 DEF FrameWell, Operand
  <2>2. QED
    BY <2>1 DEF Left, Right, TrimmedSpan, First, In
<1>4. QED
  BY <1>2, <1>3 DEF Left, Right

(* Every kernel returns with the product of the operands of its call. *)
LEMMA KernelsWell ==
  ASSUME NEW d \in Nat \ {0}, NEW size, RunWell(disp, d, size),
         \/ DispSingleLimb \/ DispConstant \/ DispSchoolbook \/ DispSquareSchoolbook
         \/ DispSquareLarge \/ DispPowerOfTwo \/ DispTransform \/ DispLadder
  PROVE  RunWell(disp', d, size)
<1>1. CASE DispSingleLimb
  BY <1>1, CallReturns, OverwriteForms DEF DispSingleLimb
<1>2. CASE DispConstant
  <2>1. DispEntered
    BY <1>2 DEF DispConstant
  <2>2. CASE PowerOfTwo(disp.mem, Right)
    <3>1. disp' = DispReturned(MultiplyPowerOfTwo(disp.mem, This.r, Left, Right))
      BY <1>2, <2>2 DEF DispConstant
    <3>2. QED
      BY <2>1, <2>2, <3>1, CallReturns, PowerOfTwoForms
  <2>3. CASE ~PowerOfTwo(disp.mem, Right) /\ PowerOfTwo(disp.mem, Left)
    <3>1. disp' = DispReturned(MultiplyPowerOfTwo(disp.mem, This.r, Right, Left))
      BY <1>2, <2>3 DEF DispConstant
    <3>2. QED
      BY <2>1, <2>3, <3>1, CallReturns, PowerOfTwoForms
  <2>4. CASE ~PowerOfTwo(disp.mem, Right) /\ ~PowerOfTwo(disp.mem, Left)
    <3>1. disp' = DispReturned(
                    IF This.square
                      THEN SquareLong(Fill(disp.mem, Whole(This.r, Left, Left)), This.r, Left)
                      ELSE MultiplyLong(disp.mem, This.r, Left, Right))
      BY <1>2, <2>4 DEF DispConstant
    <3>2. CASE This.square
      <4>1. Forms(SquareLong(Fill(disp.mem, Whole(This.r, Left, Left)), This.r, Left), size)
        BY <2>1, <3>2, SquareSame, SquareLongForms
      <4>2. QED
        BY <2>1, <3>1, <3>2, <4>1, CallReturns
    <3>3. CASE ~This.square
      BY <2>1, <3>1, <3>3, CallReturns, MultiplyLongForms
    <3>4. QED
      BY <3>2, <3>3
  <2>5. QED
    BY <2>2, <2>3, <2>4
<1>3. CASE DispSchoolbook
  BY <1>3, CallReturns, MultiplyLongForms DEF DispSchoolbook, MultiLimb
<1>4. CASE DispSquareSchoolbook
  <2>1. DispEntered /\ This.square
    BY <1>4 DEF DispSquareSchoolbook, MultiLimb
  <2>2. Left = Right
    BY <2>1, SquareSame
  <2>3. CASE Left.n >= DispSquareLong /\ PowerOfTwo(disp.mem, Left)
    <3>1. disp' = DispReturned(MultiplyPowerOfTwo(disp.mem, This.r, Left, Right))
      BY <1>4, <2>2, <2>3 DEF DispSquareSchoolbook
    <3>2. QED
      BY <2>1, <2>2, <2>3, <3>1, CallReturns, PowerOfTwoForms
  <2>4. CASE ~(Left.n >= DispSquareLong /\ PowerOfTwo(disp.mem, Left))
    <3>1. disp' = DispReturned(Overwrite(disp.mem, This.r, Left, Right))
      BY <1>4, <2>2, <2>4 DEF DispSquareSchoolbook
    <3>2. QED
      BY <2>1, <3>1, CallReturns, OverwriteForms
  <2>5. QED
    BY <2>3, <2>4
<1>5. CASE DispSquareLarge
  <2>1. DispEntered /\ This.square
    BY <1>5 DEF DispSquareLarge, MultiLimb
  <2>2. Left = Right
    BY <2>1, SquareSame
  <2>3. CASE PowerOfTwo(disp.mem, Left)
    <3>1. disp' = DispReturned(MultiplyPowerOfTwo(disp.mem, This.r, Left, Right))
      BY <1>5, <2>2, <2>3 DEF DispSquareLarge
    <3>2. QED
      BY <2>1, <2>2, <2>3, <3>1, CallReturns, PowerOfTwoForms
  <2>4. CASE ~PowerOfTwo(disp.mem, Left)
    <3>1. disp' = DispReturned(AccumulateFrom0(disp.mem, This.r, Left, Right))
      BY <1>5, <2>2, <2>4 DEF DispSquareLarge
    <3>2. QED
      BY <2>1, <3>1, CallReturns, AccumulateForms
  <2>5. QED
    BY <2>3, <2>4
<1>6. CASE DispPowerOfTwo
  <2>1. DispEntered
    BY <1>6 DEF DispPowerOfTwo, MultiLimb
  <2>2. CASE PowerOfTwo(disp.mem, Right)
    <3>1. disp' = DispReturned(MultiplyPowerOfTwo(disp.mem, This.r, Left, Right))
      BY <1>6, <2>2 DEF DispPowerOfTwo
    <3>2. QED
      BY <2>1, <2>2, <3>1, CallReturns, PowerOfTwoForms
  <2>3. CASE ~PowerOfTwo(disp.mem, Right)
    <3>1. /\ PowerOfTwo(disp.mem, Left)
          /\ disp' = DispReturned(MultiplyPowerOfTwo(disp.mem, This.r, Right, Left))
      BY <1>6, <2>3 DEF DispPowerOfTwo
    <3>2. QED
      BY <2>1, <3>1, CallReturns, PowerOfTwoForms
  <2>4. QED
    BY <2>2, <2>3
<1>7. CASE DispTransform
  BY <1>7, CallReturns, OverwriteForms DEF DispTransform, DispGeneral, MultiLimb
<1>8. CASE DispLadder
  BY <1>8, CallReturns, AccumulateForms DEF DispLadder, DispGeneral, MultiLimb
<1>9. QED
  BY <1>1, <1>2, <1>3, <1>4, <1>5, <1>6, <1>7, <1>8

LEMMA TouchesNothing ==
  ASSUME NEW mem, NEW size, Memory(mem, size), NEW s, NEW d
  PROVE  Touches(mem, mem, size, size, s, d)
BY DEF Touches

(* The piece is done, and the slicing goes on with the next one. *)
LEMMA NextWell ==
  ASSUME NEW mem, NEW size, Memory(mem, size), NEW d \in Nat \ {0}, NEW f,
         FrameWell(f, d, mem, size), f.pc \in {"piece", "add"},
         Value(mem, Result(f)) = Done(mem, f, f.i * f.m + PieceLength(f)),
         NEW g, g = NextPiece(f)
  PROVE  /\ FrameWell(g, d, mem, size) /\ AtWork(g, mem)
         /\ g.r = f.r /\ g.a = f.a /\ g.b = f.b
<1>1. SlicingWell(f, d, mem, size)
  BY DEF FrameWell
<1>2. PICK at, len : at = f.i * f.m /\ len = PieceLength(f)
  OBVIOUS
<1>3. /\ f.i = f.cuts => at + len = f.long.n
      /\ f.i # f.cuts => at + len = (f.i + 1) * f.m /\ f.i + 1 \in 0 .. f.cuts
  BY <1>1, <1>2, PieceFacts
<1>4. /\ {"pc", "r", "a", "b", "product", "i", "tmp", "long", "short", "m", "cuts", "rem"}
            \subseteq DOMAIN f
      /\ g = [f EXCEPT !.pc = IF f.i = f.cuts THEN "return" ELSE "piece", !.i = f.i + 1]
  BY <1>1 DEF FrameWell, SlicingWell, Slicing, NextPiece
<1>5. /\ DOMAIN g = DOMAIN f /\ g.r = f.r /\ g.a = f.a /\ g.b = f.b /\ g.product = f.product
      /\ g.long = f.long /\ g.short = f.short /\ g.m = f.m /\ g.cuts = f.cuts /\ g.rem = f.rem
      /\ g.tmp = f.tmp /\ g.i = f.i + 1 /\ g.pc = IF f.i = f.cuts THEN "return" ELSE "piece"
  BY <1>4
<1>6. CASE f.i = f.cuts
  <2>1. g.pc = "return"
    BY <1>5, <1>6
  <2>2. FrameWell(g, d, mem, size)
    BY <1>5, <2>1 DEF FrameWell
  <2>3. First(f.long, f.long.n) = f.long
    <3>1. In(f.long, size)
      BY <1>1 DEF SlicingWell, Operand
    <3>2. QED
      BY <3>1 DEF First, In
  <2>4. Value(mem, Result(f)) = f.product
    <3>1. Value(mem, Result(f)) = Value(mem, f.long) * Value(mem, f.short)
      BY <1>2, <1>3, <1>6, <2>3 DEF Done
    <3>2. QED
      BY <1>1, <3>1 DEF SlicingWell
  <2>5. Result(f) = First(f.r, Trimmed(mem, f.a) + Trimmed(mem, f.b))
    BY <1>1 DEF SlicingWell, Result
  <2>6. AtWork(g, mem)
    BY <1>5, <2>1, <2>4, <2>5 DEF AtWork
  <2>7. QED
    BY <1>5, <2>2, <2>6
<1>7. CASE f.i # f.cuts
  <2>1. g.pc = "piece"
    BY <1>5, <1>7
  <2>2. Slicing(g)
    BY <1>1, <1>5 DEF SlicingWell, Slicing
  <2>3. SlicingWell(g, d, mem, size)
    BY <1>1, <1>3, <1>5, <1>7, <2>2 DEF SlicingWell
  <2>4. FrameWell(g, d, mem, size)
    BY <1>5, <2>1, <2>3 DEF FrameWell
  <2>5. Value(mem, Result(g)) = Done(mem, g, g.i * g.m)
    <3>1. Result(g) = Result(f) /\ g.i * g.m = at + len
      BY <1>3, <1>5, <1>7 DEF Result
    <3>2. QED
      BY <1>2, <1>5, <3>1 DEF Done
  <2>6. QED
    BY <1>5, <2>1, <2>4, <2>5 DEF AtWork
<1>8. QED
  BY <1>6, <1>7

(* What a piece brings: b is the power of the base at its offset. *)
LEMMA PieceAdds ==
  ASSUME NEW lo \in Nat, NEW v \in Nat, NEW s \in Nat, NEW b \in Nat, NEW hi \in Nat,
         hi = lo + b * v, NEW top \in Nat, hi * s < top
  PROVE  /\ lo * s + b * (v * s) = hi * s /\ lo * s < top
         /\ lo * s \in Nat /\ v * s \in Nat
<1>1. PICK c \in Nat : c = b * v
  OBVIOUS
<1>2. b * (v * s) = c * s
  BY <1>1
<1>3. hi * s = lo * s + c * s /\ c * s \in Nat /\ lo * s \in Nat /\ v * s \in Nat
  BY <1>1
<1>4. PICK x \in Nat, y \in Nat : x = lo * s /\ y = c * s
  BY <1>3
<1>5. QED
  BY <1>2, <1>3, <1>4

(* A kernel that fills the target of a piece leaves the rest as it was. *)
LEMMA RestKept ==
  ASSUME NEW mem, NEW new, NEW size, Memory(mem, size), NEW d \in Nat, NEW f,
         FrameWell(f, d, mem, size), SlicingWell(f, d, mem, size),
         NEW t, t = TargetOf(mem, f), NEW v, Fills(mem, new, size, t, v), Rest(f, mem, t.n)
  PROVE  Rest(f, new, t.n) /\ Touches(mem, new, size, size, f.r, d)
<1>1. PICK p : p = PieceOf(mem, f)
  OBVIOUS
<1>2. /\ In(t, size) /\ t.at = 0 /\ t.n \in Nat
      /\ f.i = 0 => t.area = f.r.area
      /\ f.i # 0 => t.area = Buffer(d)
      /\ f.long.n + f.m \in Nat /\ f.long.n + f.m <= f.r.n
      /\ f.i = 0 => t.n <= f.long.n + f.m
      /\ In(Result(f), size) /\ Result(f).area = f.r.area
  <2>1. /\ In(t, size) /\ t.at = 0
        /\ f.i = 0 => t.area = f.r.area /\ t = First(f.r, p.n + f.m)
        /\ f.i # 0 => t.area = Buffer(d)
        /\ f.long.n + f.m \in Nat /\ f.long.n + f.m <= f.r.n
        /\ f.i = 0 => t.n <= f.long.n + f.m
        /\ In(Result(f), size) /\ Result(f).area = f.r.area
    BY <1>1, TargetFacts
  <2>2. QED
    BY <2>1 DEF In
<1>3. In(f.r, size) /\ f.r.at = 0 /\ f.r.n \in Nat /\ f.r.area \in 3 .. d + 2
      /\ f.r.area # Buffer(d)
  BY DEF FrameWell, Buffer, In
<1>4. Touches(mem, new, size, size, f.r, d)
  <2>1. \/ t.area = f.r.area /\ t.at + t.n <= f.r.n
        \/ t.area = Buffer(d)
    BY <1>2, <1>3
  <2>2. QED
    BY <1>2, <1>3, <2>1, FillsTouches
<1>5. Changes(mem, new, size, t)
  BY DEF Fills
<1>6. CASE f.i = 0
  <2>1. PICK e \in Nat : e = (f.long.n + f.m) - t.n /\ t.n + e <= f.r.n
    <3>1. (f.long.n + f.m) - t.n \in Nat /\ t.n + ((f.long.n + f.m) - t.n) = f.long.n + f.m
      BY <1>2, <1>6
    <3>2. QED
      BY <1>2, <3>1
  <2>2. PICK u : u = Part(f.r, t.n, e) /\ In(u, size) /\ u.at = t.n
    <3>1. f.r.at + t.n = t.n
      BY <1>2, <1>3
    <3>2. QED
      BY <1>2, <1>3, <2>1, <3>1, PartIs
  <2>3. t.at + t.n <= u.at
    BY <1>2, <2>2
  <2>4. Value(new, u) = Value(mem, u)
    BY <1>2, <1>5, <2>2, <2>3, ChangesKeep DEF Apart
  <2>5. QED
    BY <1>4, <1>6, <2>1, <2>2, <2>4 DEF Rest
<1>7. CASE f.i # 0
  <2>1. Value(new, Result(f)) = Value(mem, Result(f))
    BY <1>2, <1>3, <1>5, <1>7, ChangesKeep DEF Apart
  <2>2. PICK at \in Nat : at = f.i * f.m /\ at <= f.long.n
    <3>1. PICK at, len : at = f.i * f.m /\ len = PieceLength(f)
      OBVIOUS
    <3>2. at \in Nat /\ len \in Nat /\ at + len <= f.long.n /\ f.long.n \in Nat
      BY <3>1, PieceFacts
    <3>3. QED
      BY <3>1, <3>2
  <2>3. Done(new, f, at) = Done(mem, f, at)
    BY <1>3, <1>4, <2>2, DoneKept
  <2>4. QED
    BY <1>4, <1>7, <2>1, <2>2, <2>3 DEF Rest
<1>8. QED
  BY <1>6, <1>7

(* The target of the next piece shows zero once it is cleared. *)
LEMMA TargetCleared ==
  ASSUME NEW mem, NEW size, Memory(mem, size), NEW d \in Nat, NEW f,
         FrameWell(f, d, mem, size), SlicingWell(f, d, mem, size),
         Value(mem, Result(f)) = Done(mem, f, f.i * f.m),
         NEW t, t = TargetOf(mem, f),
         NEW new, f.i = 0 => new = mem, f.i # 0 => new = Fill(mem, t)
  PROVE  /\ Memory(new, size) /\ Touches(mem, new, size, size, f.r, d)
         /\ Value(new, t) = 0 /\ Rest(f, new, t.n)
<1>1. PICK p : p = PieceOf(mem, f)
  OBVIOUS
<1>2. /\ In(t, size) /\ t.n \in Nat
      /\ f.i = 0 => t = First(f.r, p.n + f.m) /\ t.n = p.n + f.m
      /\ f.long.n + f.m \in Nat /\ f.long.n + f.m <= f.r.n
      /\ f.i = 0 => t.n <= f.long.n + f.m
  <2>1. /\ In(t, size) /\ t.n = p.n + f.m
        /\ f.i = 0 => t.area = f.r.area /\ t = First(f.r, p.n + f.m)
        /\ f.long.n + f.m \in Nat /\ f.long.n + f.m <= f.r.n
        /\ f.i = 0 => t.n <= f.long.n + f.m
    BY <1>1, TargetFacts
  <2>2. QED
    BY <2>1 DEF In
<1>3. CASE f.i = 0
  <2>1. Value(mem, Result(f)) = 0
    <3>1. In(f.long, size) /\ In(f.short, size) /\ f.m \in Nat /\ f.long.n \in Nat
      BY DEF SlicingWell, Operand, Slicing, Holding
    <3>2. PICK e : e = First(f.long, 0) /\ In(e, size) /\ e.n = 0
      <4>1. 0 \in Nat /\ 0 <= f.long.n
        BY <3>1
      <4>2. QED
        BY <3>1, <4>1, PartsIn
    <3>3. Value(mem, e) = 0
      BY <3>2, ValueEmpty
    <3>4. Value(mem, f.short) \in Nat
      BY <3>1, ValueType
    <3>5. f.i * f.m = 0
      BY <1>3, <3>1
    <3>6. Done(mem, f, 0) = 0
      BY <3>2, <3>3, <3>4 DEF Done
    <3>7. QED
      BY <3>5, <3>6
  <2>2. PICK e \in Nat : e = (f.long.n + f.m) - t.n /\ t.n + e = f.long.n + f.m
    <3>1. (f.long.n + f.m) - t.n \in Nat /\ t.n + ((f.long.n + f.m) - t.n) = f.long.n + f.m
      BY <1>2, <1>3
    <3>2. QED
      BY <3>1
  <2>3. Value(mem, First(f.r, t.n + e)) = 0 /\ t.n + e <= f.r.n
    BY <1>2, <2>1, <2>2 DEF Result
  <2>4. Power(Base, t.n) \in Nat \ {0}
    BY <1>2, BasePower
  <2>5. In(f.r, size)
    BY DEF FrameWell
  <2>6. Value(mem, First(f.r, t.n + e)) < Power(Base, t.n)
    BY <2>3, <2>4
  <2>7. Value(mem, First(f.r, t.n)) = 0 /\ Value(mem, Part(f.r, t.n, e)) = 0
    BY <1>2, <2>3, <2>5, <2>6, ValueLow
  <2>8. First(f.r, t.n) = t
    BY <1>2, <1>3
  <2>9. Value(new, t) = 0 /\ Rest(f, new, t.n)
    BY <1>3, <2>2, <2>7, <2>8 DEF Rest
  <2>10. QED
    BY <1>3, <2>9, TouchesNothing
<1>4. CASE f.i # 0
  <2>1. Fills(mem, new, size, t, 0)
    BY <1>2, <1>4, FillFills
  <2>2. Rest(f, mem, t.n)
    BY <1>4 DEF Rest
  <2>3. Rest(f, new, t.n) /\ Touches(mem, new, size, size, f.r, d)
    BY <2>1, <2>2, RestKept
  <2>4. QED
    BY <2>1, <2>3 DEF Fills
<1>5. QED
  BY <1>3, <1>4

(* The product of a piece is added to the result, where the pieces below it are. *)
LEMMA AddedFills ==
  ASSUME NEW mem, NEW size, Memory(mem, size), NEW d \in Nat, NEW f,
         FrameWell(f, d, mem, size), SlicingWell(f, d, mem, size),
         NEW at, at = f.i * f.m, NEW len, len = PieceLength(f),
         NEW p, p = PieceOf(mem, f), NEW t, t = TargetOf(mem, f),
         Value(mem, t) = Value(mem, p) * Value(mem, f.short), Rest(f, mem, t.n),
         NEW window, window = Subspan(First(f.r, at + len + f.m), at),
         NEW new, f.i = 0 => new = mem,
         f.i # 0 => new = Store(mem, window, Value(mem, window) + Value(mem, t))
  PROVE  /\ Memory(new, size) /\ Touches(mem, new, size, size, f.r, d)
         /\ Value(new, Result(f)) = Done(mem, f, at + len)
<1>1. /\ In(t, size) /\ t.n = p.n + f.m /\ p.n \in Nat
      /\ f.i = 0 => t = First(f.r, p.n + f.m)
      /\ f.long.n + f.m \in Nat /\ f.long.n + f.m <= f.r.n
      /\ f.i = 0 => t.n <= f.long.n + f.m
      /\ In(Result(f), size) /\ Result(f).n = f.long.n + f.m /\ Result(f).area = f.r.area
      /\ Result(f).at = 0
  BY TargetFacts
<1>2. /\ f.long.n \in Nat \ {0} /\ f.m \in Nat \ {0} /\ at \in Nat /\ len \in Nat \ {0}
      /\ at + len <= f.long.n /\ In(p, size)
      /\ Value(mem, First(f.long, at + len))
           = Value(mem, First(f.long, at)) + Power(Base, at) * Value(mem, p)
  <2>1. PICK raw : raw = First(Subspan(f.long, at), len)
    OBVIOUS
  <2>2. QED
    BY <2>1, PieceFacts
<1>3. In(f.long, size) /\ In(f.short, size) /\ f.short.n = f.m
  BY DEF SlicingWell, Operand
<1>4. In(f.r, size) /\ f.r.at = 0 /\ f.r.n \in Nat /\ f.r.area \in 3 .. d + 2
  BY DEF FrameWell, In
<1>5. PICK lo \in Nat, v \in Nat, s \in Nat, b \in Nat, hi \in Nat :
        /\ lo = Value(mem, First(f.long, at)) /\ v = Value(mem, p) /\ s = Value(mem, f.short)
        /\ b = Power(Base, at) /\ hi = Value(mem, First(f.long, at + len))
        /\ hi < Power(Base, at + len) /\ s < Power(Base, f.m)
  <2>1. In(First(f.long, at), size)
    <3>1. at <= f.long.n
      BY <1>2
    <3>2. QED
      BY <1>2, <1>3, <3>1, PartsIn
  <2>2. In(First(f.long, at + len), size) /\ First(f.long, at + len).n = at + len
    <3>1. at + len \in Nat
      BY <1>2
    <3>2. QED
      BY <1>2, <1>3, <3>1, PartsIn
  <2>3. Value(mem, First(f.long, at)) \in Nat
    BY <2>1, ValueType
  <2>4. Value(mem, p) \in Nat
    BY <1>2, ValueType
  <2>5. Value(mem, f.short) \in Nat /\ Value(mem, f.short) < Power(Base, f.m)
    BY <1>3, ValueType
  <2>6. Value(mem, First(f.long, at + len)) \in Nat
        /\ Value(mem, First(f.long, at + len)) < Power(Base, at + len)
    BY <2>2, ValueType
  <2>7. Power(Base, at) \in Nat
    BY <1>2, BasePower
  <2>8. QED
    BY <2>3, <2>4, <2>5, <2>6, <2>7
<1>6. hi = lo + b * v
  BY <1>2, <1>5
<1>7. PICK full \in Nat, m \in Nat : full = f.long.n + f.m /\ m = f.m
  BY <1>1, <1>2
<1>8. PICK w \in Nat : w = len + m /\ at + w = at + len + m /\ at + w <= full /\ full <= f.r.n
  BY <1>1, <1>2, <1>7
<1>9. lo * s + b * (v * s) = hi * s /\ lo * s < Power(Base, at + w) /\ lo * s \in Nat
      /\ v * s \in Nat /\ hi * s < Power(Base, at + w) /\ hi * s \in Nat
  <2>1. PICK x \in Nat : x = at + len
    BY <1>2
  <2>2. hi * s \in Nat /\ hi * s < Power(Base, x + m)
    BY <1>5, <1>7, <2>1, ProductFits
  <2>3. x + m = at + w
    BY <1>2, <1>8, <2>1
  <2>4. PICK top \in Nat : top = Power(Base, at + w)
    BY <1>2, <1>8, BasePower
  <2>5. hi * s < top
    BY <2>2, <2>3, <2>4
  <2>6. QED
    BY <1>6, <2>2, <2>4, <2>5, PieceAdds
<1>10. Done(mem, f, at + len) = hi * s
  BY <1>5 DEF Done
<1>11. CASE f.i = 0
  <2>1. at = 0 /\ b = 1
    <3>1. at = 0
      BY <1>2, <1>11
    <3>2. Power(Base, 0) = 1
      BY BaseType, PowerOne
    <3>3. QED
      BY <1>5, <3>1, <3>2
  <2>2. lo = 0
    <3>1. In(First(f.long, 0), size) /\ First(f.long, 0).n = 0
      <4>1. 0 \in Nat /\ 0 <= f.long.n
        BY <1>2
      <4>2. QED
        BY <1>3, <4>1, PartsIn
    <3>2. QED
      BY <1>5, <2>1, <3>1, ValueEmpty
  <2>3. hi * s = v * s
    BY <1>6, <2>1, <2>2
  <2>4. PICK k \in Nat, e \in Nat : k = t.n /\ e = full - k /\ k + e = full /\ k <= full
    <3>1. t.n \in Nat /\ t.n <= full
      BY <1>1, <1>7, <1>11 DEF In
    <3>2. full - t.n \in Nat /\ t.n + (full - t.n) = full
      BY <3>1
    <3>3. QED
      BY <3>1, <3>2
  <2>5. PICK R : R = Result(f) /\ In(R, size) /\ R.n = full
    BY <1>1, <1>7
  <2>6. First(R, k) = t
    BY <1>1, <1>7, <1>11, <2>4, <2>5 DEF Result, First
  <2>7. Subspan(R, k) = Part(f.r, k, e)
    <3>1. k + e <= f.r.n
      BY <1>8, <2>4
    <3>2. Subspan(First(f.r, k + e), k) = Part(f.r, k, e)
      BY <1>4, <2>4, <3>1, PartIs
    <3>3. QED
      BY <1>7, <2>4, <2>5, <3>2 DEF Result
  <2>8. Value(mem, Part(f.r, k, e)) = 0
    BY <1>7, <1>11, <2>4 DEF Rest
  <2>9. Value(mem, R) = Value(mem, t) + Power(Base, k) * 0
    <3>1. k <= R.n
      BY <2>4, <2>5
    <3>2. Value(mem, R) = Value(mem, First(R, k)) + Power(Base, k) * Value(mem, Subspan(R, k))
      BY <2>5, <3>1, ValueSplit
    <3>3. QED
      BY <2>6, <2>7, <2>8, <3>2
  <2>10. Value(mem, R) = v * s
    <3>1. Value(mem, t) = v * s /\ Power(Base, k) \in Nat
      BY <1>5, BasePower
    <3>2. QED
      BY <1>9, <2>9, <3>1
  <2>11. QED
    BY <1>10, <1>11, <2>3, <2>5, <2>10, TouchesNothing
<1>12. CASE f.i # 0
  <2>1. window = Part(f.r, at, w)
    <3>1. at + w <= f.r.n
      BY <1>2, <1>4, <1>8
    <3>2. Subspan(First(f.r, at + w), at) = Part(f.r, at, w)
      BY <1>2, <1>4, <3>1, PartIs
    <3>3. QED
      BY <1>7, <1>8, <3>2
  <2>2. Value(mem, First(f.r, full)) = lo * s
    BY <1>5, <1>7, <1>12 DEF Rest, Result, Done
  <2>3. PICK q \in Nat : q = v * s
    BY <1>9
  <2>4. Value(mem, First(f.r, full)) + Power(Base, at) * q = hi * s
    BY <1>5, <1>9, <2>2, <2>3
  <2>5. Value(mem, First(f.r, full)) < Power(Base, at + w)
    BY <1>9, <2>2
  <2>6. PICK old : old = Value(mem, Part(f.r, at, w))
    BY Zenon
  <2>7. Value(mem, First(f.r, full)) + Power(Base, at) * q < Power(Base, at + w)
    BY <1>9, <2>4
  <2>8. Fills(mem, Store(mem, Part(f.r, at, w), old + q), size, First(f.r, full), hi * s)
    <3>1. at \in Nat /\ w <= w
      BY <1>2, <1>8
    <3>2. Fills(mem, Store(mem, Part(f.r, at, w), old + q), size, First(f.r, full),
                Value(mem, First(f.r, full)) + Power(Base, at) * q)
      BY <1>4, <1>8, <2>5, <2>6, <2>7, <3>1, AddRowFull
    <3>3. QED
      BY <2>4, <3>2
  <2>9. new = Store(mem, Part(f.r, at, w), old + q)
    BY <1>5, <1>12, <2>1, <2>3, <2>6
  <2>10. Fills(mem, new, size, Result(f), hi * s)
    BY <1>7, <2>8, <2>9 DEF Result
  <2>11. Touches(mem, new, size, size, f.r, d)
    <3>1. Result(f).at + Result(f).n <= f.r.n
      BY <1>1
    <3>2. QED
      BY <1>1, <1>4, <2>10, <3>1, FillsTouches
  <2>12. QED
    BY <1>10, <2>10, <2>11 DEF Fills
<1>13. QED
  BY <1>11, <1>12

(* The slicing that runs. *)
LEMMA SlicingRuns ==
  ASSUME NEW d \in Nat \ {0}, NEW size, RunWell(disp, d, size), NEW f, f = This,
         f.pc \in {"piece", "add"}
  PROVE  /\ f = disp.frames[d] /\ disp.frames # <<>> /\ Memory(disp.mem, size)
         /\ FrameWell(f, d, disp.mem, size) /\ SlicingWell(f, d, disp.mem, size)
         /\ AtWork(f, disp.mem)
         /\ SlicePiece(f) = PieceOf(disp.mem, f) /\ Target(f) = TargetOf(disp.mem, f)
         /\ In(f.r, size) /\ f.r.area \in 3 .. d + 2
         /\ In(f.short, size) /\ f.short.area \in {1, 2} /\ f.short.n = f.m
         /\ In(PieceOf(disp.mem, f), size) /\ PieceOf(disp.mem, f).area \in {1, 2}
<1>1. /\ f = disp.frames[d] /\ disp.frames # <<>> /\ Memory(disp.mem, size)
      /\ FrameWell(f, d, disp.mem, size) /\ AtWork(f, disp.mem)
  BY TopIs DEF RunWell
<1>2. SlicingWell(f, d, disp.mem, size) /\ In(f.r, size) /\ f.r.area \in 3 .. d + 2
  BY <1>1 DEF FrameWell
<1>3. In(f.short, size) /\ f.short.area \in {1, 2} /\ f.short.n = f.m
  BY <1>2 DEF SlicingWell, Operand
<1>4. SlicePiece(f) = PieceOf(disp.mem, f) /\ Target(f) = TargetOf(disp.mem, f)
  BY DEF SlicePiece, PieceOf, Target, TargetOf
<1>5. In(PieceOf(disp.mem, f), size) /\ PieceOf(disp.mem, f).area \in {1, 2}
  <2>1. PICK at, len, raw, p :
          /\ at = f.i * f.m /\ len = PieceLength(f) /\ raw = First(Subspan(f.long, at), len)
          /\ p = PieceOf(disp.mem, f)
    OBVIOUS
  <2>2. QED
    BY <1>1, <1>2, <2>1, PieceFacts
<1>6. QED
  BY <1>1, <1>2, <1>3, <1>4, <1>5

(* The product of a piece is formed, is added, and the next piece is due. *)
LEMMA PieceDone ==
  ASSUME NEW d \in Nat \ {0}, NEW size, RunWell(disp, d, size), NEW f, f = This,
         f.pc \in {"piece", "add"}, NEW mem, Memory(mem, size),
         Touches(disp.mem, mem, size, size, f.r, d), NEW p, p = PieceOf(disp.mem, f),
         NEW t, t = TargetOf(disp.mem, f), Value(mem, t) = Value(mem, p) * Value(mem, f.short),
         Rest(f, mem, t.n),
         disp' = [disp EXCEPT !.mem = Added(mem, f), !.frames = DispBecomes(NextPiece(f))]
  PROVE  RunWell(disp', d, size)
<1>1. /\ f = disp.frames[d] /\ Memory(disp.mem, size)
      /\ FrameWell(f, d, disp.mem, size) /\ SlicingWell(f, d, disp.mem, size)
      /\ Target(f) = t /\ In(f.r, size) /\ f.r.area \in 3 .. d + 2
  BY SlicingRuns
<1>2. FrameWell(f, d, mem, size) /\ SlicingWell(f, d, mem, size)
  <2>1. FrameWell(f, d, mem, size)
    BY <1>1, FrameKept
  <2>2. QED
    BY <2>1 DEF FrameWell
<1>3. p = PieceOf(mem, f) /\ t = TargetOf(mem, f)
  BY <1>1, PieceKept
<1>4. PICK at, len, new : at = f.i * f.m /\ len = PieceLength(f) /\ new = Added(mem, f)
  OBVIOUS
<1>5. PICK window : window = Subspan(First(f.r, at + len + f.m), at)
  OBVIOUS
<1>6. /\ f.i = 0 => new = mem
      /\ f.i # 0 => new = Store(mem, window, Value(mem, window) + Value(mem, t))
  BY <1>1, <1>4, <1>5 DEF Added
<1>7. /\ Memory(new, size) /\ Touches(mem, new, size, size, f.r, d)
      /\ Value(new, Result(f)) = Done(mem, f, at + len)
  BY <1>2, <1>3, <1>4, <1>5, <1>6, AddedFills
<1>8. FrameWell(f, d, new, size)
  BY <1>1, <1>2, <1>7, FrameKept
<1>9. Value(new, Result(f)) = Done(new, f, f.i * f.m + PieceLength(f))
  <2>1. at + len \in Nat /\ at + len <= f.long.n
    <3>1. PICK raw : raw = First(Subspan(f.long, at), len)
      OBVIOUS
    <3>2. at \in Nat /\ len \in Nat /\ at + len <= f.long.n
      BY <1>2, <1>3, <1>4, <3>1, PieceFacts
    <3>3. QED
      BY <3>2
  <2>2. Done(new, f, at + len) = Done(mem, f, at + len)
    BY <1>1, <1>2, <1>7, <2>1, DoneKept
  <2>3. QED
    BY <1>4, <1>7, <2>2
<1>10. PICK g : g = NextPiece(f)
  OBVIOUS
<1>11. /\ FrameWell(g, d, new, size) /\ AtWork(g, new) /\ g.r = f.r /\ g.a = f.a /\ g.b = f.b
  BY <1>7, <1>8, <1>9, <1>10, NextWell
<1>12. Touches(disp.mem, new, size, size, f.r, d)
  BY <1>1, <1>7, TouchesBoth
<1>13. disp' = [disp EXCEPT !.mem = new, !.frames = DispBecomes(g)]
  BY <1>4, <1>10
<1>14. QED
  BY <1>1, <1>11, <1>12, <1>13, BecomesWell

LEMMA SkipPieceWell ==
  ASSUME NEW d \in Nat \ {0}, NEW size, RunWell(disp, d, size), DispSkipPiece
  PROVE  RunWell(disp', d, size)
<1>1. PICK f : f = This /\ f.pc = "piece" /\ ZeroPiece(f)
               /\ disp' = [disp EXCEPT !.frames = DispBecomes(NextPiece(f))]
  BY DEF DispSkipPiece, AtPiece
<1>2. /\ f = disp.frames[d] /\ Memory(disp.mem, size)
      /\ FrameWell(f, d, disp.mem, size) /\ SlicingWell(f, d, disp.mem, size)
      /\ AtWork(f, disp.mem) /\ SlicePiece(f) = PieceOf(disp.mem, f)
  BY <1>1, SlicingRuns
<1>3. PICK at, len, raw, p :
        /\ at = f.i * f.m /\ len = PieceLength(f) /\ raw = First(Subspan(f.long, at), len)
        /\ p = PieceOf(disp.mem, f)
  OBVIOUS
<1>4. /\ at \in Nat /\ at + len <= f.long.n /\ f.long.n \in Nat
      /\ Value(disp.mem, First(f.long, at + len))
           = Value(disp.mem, First(f.long, at)) + Power(Base, at) * Value(disp.mem, p)
  BY <1>2, <1>3, PieceFacts
<1>5. Value(disp.mem, p) = 0
  BY <1>1, <1>2, <1>3 DEF ZeroPiece
<1>6. Value(disp.mem, First(f.long, at + len)) = Value(disp.mem, First(f.long, at))
  <2>1. PICK x \in Nat, b \in Nat : x = Value(disp.mem, First(f.long, at)) /\ b = Power(Base, at)
    <3>1. In(f.long, size) /\ at <= f.long.n
      <4>1. len \in Nat
        BY <1>2, <1>3, PieceFacts
      <4>2. QED
        BY <1>2, <1>4, <4>1 DEF SlicingWell, Operand
    <3>2. In(First(f.long, at), size)
      BY <1>4, <3>1, PartsIn
    <3>3. QED
      BY <1>2, <1>4, <3>2, ValueType, BasePower
  <2>2. x + b * 0 = x
    OBVIOUS
  <2>3. QED
    BY <1>4, <1>5, <2>1, <2>2
<1>7. Value(disp.mem, Result(f)) = Done(disp.mem, f, f.i * f.m + PieceLength(f))
  BY <1>1, <1>2, <1>3, <1>6 DEF AtWork, Done
<1>8. PICK g : g = NextPiece(f)
  OBVIOUS
<1>9. /\ FrameWell(g, d, disp.mem, size) /\ AtWork(g, disp.mem)
      /\ g.r = f.r /\ g.a = f.a /\ g.b = f.b
  BY <1>1, <1>2, <1>7, <1>8, NextWell
<1>10. Touches(disp.mem, disp.mem, size, size, f.r, d)
  BY <1>2, TouchesNothing
<1>11. disp' = [disp EXCEPT !.mem = disp.mem, !.frames = DispBecomes(g)]
  BY <1>1, <1>8
<1>12. QED
  BY <1>2, <1>9, <1>10, <1>11, BecomesWell

LEMMA AddPieceWell ==
  ASSUME NEW d \in Nat \ {0}, NEW size, RunWell(disp, d, size), DispAddPiece
  PROVE  RunWell(disp', d, size)
<1>1. PICK f : f = This /\ f.pc = "add"
               /\ disp' = [disp EXCEPT !.mem = Added(disp.mem, f),
                                       !.frames = DispBecomes(NextPiece(f))]
  BY DEF DispAddPiece
<1>2. PICK p, t : p = PieceOf(disp.mem, f) /\ t = TargetOf(disp.mem, f)
  OBVIOUS
<1>3. Memory(disp.mem, size) /\ AtWork(f, disp.mem)
  BY <1>1, SlicingRuns
<1>4. Rest(f, disp.mem, t.n) /\ Value(disp.mem, t) = Value(disp.mem, p) * Value(disp.mem, f.short)
  BY <1>1, <1>2, <1>3 DEF AtWork
<1>5. Touches(disp.mem, disp.mem, size, size, f.r, d)
  BY <1>3, TouchesNothing
<1>6. QED
  BY <1>1, <1>2, <1>3, <1>4, <1>5, PieceDone

(* The piece that is due has its target cleared. *)
LEMMA PieceCleared ==
  ASSUME NEW d \in Nat \ {0}, NEW size, RunWell(disp, d, size), NEW f, f = This, f.pc = "piece",
         NEW p, p = PieceOf(disp.mem, f), NEW t, t = TargetOf(disp.mem, f),
         NEW mem, mem = ClearedTarget(disp.mem, f)
  PROVE  /\ Memory(mem, size) /\ Touches(disp.mem, mem, size, size, f.r, d)
         /\ Value(mem, t) = 0 /\ Rest(f, mem, t.n)
         /\ FrameWell(f, d, mem, size) /\ SlicingWell(f, d, mem, size)
         /\ p = PieceOf(mem, f) /\ t = TargetOf(mem, f)
         /\ In(t, size) /\ t.at = 0 /\ t.n = p.n + f.m /\ p.n \in Nat
         /\ t.area \in 3 .. d + 3 /\ Above(f.r, t)
<1>1. /\ f = disp.frames[d] /\ Memory(disp.mem, size)
      /\ FrameWell(f, d, disp.mem, size) /\ SlicingWell(f, d, disp.mem, size)
      /\ AtWork(f, disp.mem) /\ Target(f) = t /\ In(f.r, size) /\ f.r.area \in 3 .. d + 2
  BY SlicingRuns
<1>2. Value(disp.mem, Result(f)) = Done(disp.mem, f, f.i * f.m)
  BY <1>1 DEF AtWork
<1>3. (f.i = 0 => mem = disp.mem) /\ (f.i # 0 => mem = Fill(disp.mem, t))
  BY <1>1 DEF ClearedTarget
<1>4. /\ Memory(mem, size) /\ Touches(disp.mem, mem, size, size, f.r, d)
      /\ Value(mem, t) = 0 /\ Rest(f, mem, t.n)
  BY <1>1, <1>2, <1>3, TargetCleared
<1>5. FrameWell(f, d, mem, size)
  BY <1>1, <1>4, FrameKept
<1>6. SlicingWell(f, d, mem, size)
  BY <1>5 DEF FrameWell
<1>7. p = PieceOf(mem, f) /\ t = TargetOf(mem, f)
  BY <1>1, <1>4, PieceKept
<1>8. /\ In(t, size) /\ t.at = 0 /\ t.n = p.n + f.m /\ p.n \in Nat
      /\ t.area \in 3 .. d + 3
      /\ f.i = 0 => t.area = f.r.area
      /\ f.i # 0 => t.area = Buffer(d)
      /\ f.long.n + f.m \in Nat /\ f.long.n + f.m <= f.r.n
      /\ f.i = 0 => t.n <= f.long.n + f.m
  BY <1>1, TargetFacts
<1>9. Above(f.r, t)
  <2>1. f.r.n \in Nat /\ t.n \in Nat
    BY <1>1, <1>8 DEF In
  <2>2. QED
    BY <1>1, <1>8, <2>1 DEF Above, Buffer
<1>10. QED
  BY <1>4, <1>5, <1>6, <1>7, <1>8, <1>9

LEMMA FullPieceWell ==
  ASSUME NEW d \in Nat \ {0}, NEW size, RunWell(disp, d, size), DispFullPiece
  PROVE  RunWell(disp', d, size)
<1>1. PICK f, p, t, mem :
        /\ f = This /\ f.pc = "piece" /\ p = PieceOf(disp.mem, f) /\ t = TargetOf(disp.mem, f)
        /\ mem = ClearedTarget(disp.mem, f)
  BY DEF DispFullPiece, AtPiece
<1>2. SlicePiece(f) = p /\ Target(f) = t /\ In(f.r, size) /\ f.r.area \in 3 .. d + 2
      /\ In(f.short, size) /\ f.short.n = f.m /\ In(p, size) /\ p.area \in {1, 2}
      /\ f.short.area \in {1, 2}
  BY <1>1, SlicingRuns
<1>3. PICK new : /\ new \in {Overwrite(mem, t, p, f.short), Accumulate(mem, t, p, f.short)}
                 /\ disp' = [disp EXCEPT !.mem = Added(new, f),
                                         !.frames = DispBecomes(NextPiece(f))]
  BY <1>1, <1>2 DEF DispFullPiece
<1>4. /\ Memory(mem, size) /\ Touches(disp.mem, mem, size, size, f.r, d)
      /\ Value(mem, t) = 0 /\ Rest(f, mem, t.n)
      /\ FrameWell(f, d, mem, size) /\ SlicingWell(f, d, mem, size)
      /\ t = TargetOf(mem, f)
      /\ In(t, size) /\ t.n = p.n + f.m
  BY <1>1, PieceCleared
<1>5. First(t, p.n + f.short.n) = t /\ p.n + f.short.n <= t.n
  <2>1. t.n \in Nat
    BY <1>4 DEF In
  <2>2. QED
    BY <1>2, <1>4, <2>1 DEF First, In
<1>6. Fills(mem, new, size, t, Value(mem, p) * Value(mem, f.short))
  <2>1. Fills(mem, Overwrite(mem, t, p, f.short), size, t, Value(mem, p) * Value(mem, f.short))
    BY <1>2, <1>4, <1>5, OverwriteFills
  <2>2. Fills(mem, Accumulate(mem, t, p, f.short), size, t, Value(mem, p) * Value(mem, f.short))
    BY <1>2, <1>4, <1>5, AccumulateFills
  <2>3. QED
    BY <1>3, <2>1, <2>2
<1>7. Rest(f, new, t.n) /\ Touches(mem, new, size, size, f.r, d)
  BY <1>4, <1>6, RestKept
<1>8. Value(new, p) = Value(mem, p) /\ Value(new, f.short) = Value(mem, f.short)
  BY <1>2, <1>7, TouchesOperand
<1>9. Memory(new, size) /\ Value(new, t) = Value(new, p) * Value(new, f.short)
  BY <1>6, <1>8 DEF Fills
<1>10. Touches(disp.mem, new, size, size, f.r, d)
  BY <1>2, <1>4, <1>7, TouchesBoth
<1>11. QED
  BY <1>1, <1>3, <1>7, <1>9, <1>10, PieceDone

(* A slicing that hands its piece on. *)
LEMMA HandsOn ==
  ASSUME NEW mem, NEW size, NEW d, NEW f, FrameWell(f, d, mem, size),
         f.pc \in {"piece", "add"}, NEW g, g = [f EXCEPT !.pc = "add"]
  PROVE  /\ FrameWell(g, d, mem, size) /\ g.pc = "add"
         /\ g.r = f.r /\ g.a = f.a /\ g.b = f.b /\ g.short = f.short
         /\ PieceOf(mem, g) = PieceOf(mem, f) /\ TargetOf(mem, g) = TargetOf(mem, f)
         /\ \A n : Rest(g, mem, n) = Rest(f, mem, n)
<1>1. SlicingWell(f, d, mem, size)
  BY DEF FrameWell
<1>2. {"pc", "r", "a", "b", "product", "i", "tmp", "long", "short", "m", "cuts", "rem"}
        \subseteq DOMAIN f
  BY <1>1 DEF FrameWell, SlicingWell, Slicing
<1>3. /\ DOMAIN g = DOMAIN f /\ g.r = f.r /\ g.a = f.a /\ g.b = f.b /\ g.product = f.product
      /\ g.long = f.long /\ g.short = f.short /\ g.m = f.m /\ g.cuts = f.cuts /\ g.rem = f.rem
      /\ g.tmp = f.tmp /\ g.i = f.i /\ g.pc = "add"
  BY <1>2
<1>4. Slicing(g)
  BY <1>1, <1>3 DEF SlicingWell, Slicing
<1>5. SlicingWell(g, d, mem, size)
  BY <1>1, <1>3, <1>4 DEF SlicingWell
<1>6. FrameWell(g, d, mem, size)
  BY <1>3, <1>5 DEF FrameWell
<1>7. PieceOf(mem, g) = PieceOf(mem, f)
  BY <1>3 DEF PieceOf, PieceLength
<1>8. TargetOf(mem, g) = TargetOf(mem, f)
  BY <1>3, <1>7 DEF TargetOf
<1>9. \A n : Done(mem, g, n) = Done(mem, f, n)
  BY <1>3 DEF Done
<1>10. \A n : Rest(g, mem, n) = Rest(f, mem, n)
  BY <1>3, <1>9 DEF Rest, Result
<1>11. QED
  BY <1>3, <1>6, <1>7, <1>8, <1>10

(* The call that it hands the piece to. *)
LEMMA PieceCall ==
  ASSUME NEW mem, NEW size, Memory(mem, size), NEW d \in Nat \ {0}, NEW f,
         SlicingWell(f, d, mem, size), NEW p, p = PieceOf(mem, f),
         NEW t, In(t, size), t.at = 0, t.n = p.n + f.m, t.area \in 3 .. d + 3,
         NEW h, h = DispCall(mem, t, p, f.short, "automatic")
  PROVE  /\ FrameWell(h, d + 1, mem, size) /\ AtWork(h, mem)
         /\ h.a = p /\ h.b = f.short /\ h.r = t
<1>1. /\ {"pc", "r", "a", "b", "product", "square"} \subseteq DOMAIN h
      /\ h.pc = "enter" /\ h.r = t /\ h.a = p /\ h.b = f.short /\ h.square = (p = f.short)
      /\ h.product = Value(mem, p) * Value(mem, f.short)
  BY DEF DispCall, ProductOf
<1>2. Operand(f.short, size) /\ f.short.n = f.m /\ f.long.area # f.short.area
  BY DEF SlicingWell
<1>3. PICK at, len, raw : at = f.i * f.m /\ len = PieceLength(f)
                          /\ raw = First(Subspan(f.long, at), len)
  OBVIOUS
<1>4. In(p, size) /\ p.area \in {1, 2} /\ p.n \in 1 .. len
  BY <1>3, PieceFacts
<1>5. Operand(p, size)
  BY <1>4 DEF Operand
<1>6. p.area = f.long.area
  <2>1. In(f.long, size)
    BY DEF SlicingWell, Operand
  <2>2. QED
    BY <2>1 DEF PieceOf, TrimmedSpan, First, Subspan, In
<1>7. t.area \in 3 .. (d + 1) + 2
  OBVIOUS
<1>8. p.n + f.short.n <= t.n
  <2>1. t.n \in Nat
    BY DEF In
  <2>2. QED
    BY <1>2, <2>1
<1>9. FrameWell(h, d + 1, mem, size)
  BY <1>1, <1>2, <1>5, <1>6, <1>7, <1>8 DEF FrameWell
<1>10. AtWork(h, mem)
  BY <1>1 DEF AtWork
<1>11. QED
  BY <1>1, <1>9, <1>10

LEMMA ShortPieceWell ==
  ASSUME NEW d \in Nat \ {0}, NEW size, RunWell(disp, d, size), DispShortPiece
  PROVE  RunWell(disp', d + 1, size)
<1>1. PICK f, p, t, mem :
        /\ f = This /\ f.pc = "piece" /\ p = PieceOf(disp.mem, f) /\ t = TargetOf(disp.mem, f)
        /\ mem = ClearedTarget(disp.mem, f)
  BY DEF DispShortPiece, AtPiece
<1>2. SlicePiece(f) = p /\ Target(f) = t /\ f = disp.frames[d]
  BY <1>1, SlicingRuns
<1>3. PICK g, h : /\ g = [f EXCEPT !.pc = "add"] /\ h = DispCall(mem, t, p, f.short, "automatic")
                  /\ disp' = [disp EXCEPT !.mem = mem, !.frames = Append(DispBecomes(g), h)]
  BY <1>1, <1>2 DEF DispShortPiece
<1>4. /\ Memory(mem, size) /\ Touches(disp.mem, mem, size, size, f.r, d)
      /\ Rest(f, mem, t.n) /\ FrameWell(f, d, mem, size) /\ SlicingWell(f, d, mem, size)
      /\ p = PieceOf(mem, f) /\ t = TargetOf(mem, f)
      /\ In(t, size) /\ t.at = 0 /\ t.n = p.n + f.m /\ t.area \in 3 .. d + 3 /\ Above(f.r, t)
  BY <1>1, PieceCleared
<1>5. /\ FrameWell(g, d, mem, size) /\ g.pc = "add"
      /\ g.r = f.r /\ g.a = f.a /\ g.b = f.b /\ g.short = f.short
      /\ PieceOf(mem, g) = p /\ TargetOf(mem, g) = t /\ Rest(g, mem, t.n)
  BY <1>1, <1>3, <1>4, HandsOn
<1>6. /\ FrameWell(h, d + 1, mem, size) /\ AtWork(h, mem)
      /\ h.a = p /\ h.b = f.short /\ h.r = t
  BY <1>3, <1>4, PieceCall
<1>7. Waits(g, h, mem)
  BY <1>5, <1>6 DEF Waits
<1>8. Above(g.r, h.r)
  BY <1>4, <1>5, <1>6
<1>9. QED
  BY <1>2, <1>3, <1>4, <1>5, <1>6, <1>7, <1>8, CallsWell

(* Operands without leading zeros are not trimmed. *)
LEMMA TrimmedOnce ==
  ASSUME NEW mem, NEW size, Memory(mem, size), NEW s, In(s, size), HasLimbs(Value(mem, s), s.n)
  PROVE  Trimmed(mem, s) = s.n
<1>1. PICK v \in Nat : v = Value(mem, s)
  BY ValueType
<1>2. s.n # 0
  BY DEF HasLimbs
<1>3. PICK t : t = TrimmedSpan(mem, s)
  BY Zenon
<1>4. HasLimbs(v, t.n)
  <2>1. Value(mem, t) = Value(mem, s) /\ HasLimbs(Value(mem, t), t.n)
    BY <1>2, <1>3, TrimmedIs
  <2>2. QED
    BY <1>1, <2>1
<1>5. t.n = LimbsNeeded(v) /\ s.n = LimbsNeeded(v)
  <2>1. HasLimbs(v, s.n)
    BY <1>1
  <2>2. QED
    BY <1>4, <2>1, HasLimbsUnique
<1>6. t.n = Trimmed(mem, s)
  BY <1>3 DEF TrimmedSpan, First, In
<1>7. QED
  BY <1>5, <1>6

(* The frame d goes, with its buffer; its product is that of the piece the one below waits for. *)
LEMMA ProductComes ==
  ASSUME NEW mem, NEW size, Memory(mem, size), NEW d \in Nat \ {0}, NEW f, NEW g,
         FrameWell(f, d + 1, mem, size), AtWork(f, mem), f.pc = "return",
         FrameWell(g, d, mem, size), Waits(g, f, mem)
  PROVE  Value(mem, f.r) = Value(mem, f.a) * Value(mem, f.b)
<1>1. SlicingWell(g, d, mem, size) /\ f.a = PieceOf(mem, g) /\ f.b = g.short
      /\ f.r = TargetOf(mem, g)
  BY DEF FrameWell, Waits
<1>2. In(f.a, size) /\ In(f.b, size) /\ In(f.r, size)
  BY DEF FrameWell, Operand
<1>3. HasLimbs(Value(mem, f.a), f.a.n)
  <2>1. PICK at, len, raw : at = g.i * g.m /\ len = PieceLength(g)
                            /\ raw = First(Subspan(g.long, at), len)
    OBVIOUS
  <2>2. QED
    BY <1>1, <2>1, PieceFacts
<1>4. HasLimbs(Value(mem, f.b), f.b.n) /\ f.b.n = g.m
  BY <1>1 DEF SlicingWell
<1>5. Trimmed(mem, f.a) = f.a.n /\ Trimmed(mem, f.b) = f.b.n
  BY <1>2, <1>3, <1>4, TrimmedOnce
<1>6. f.r.n = f.a.n + g.m
  BY <1>1, TargetFacts
<1>7. First(f.r, Trimmed(mem, f.a) + Trimmed(mem, f.b)) = f.r
  <2>1. f.r.n = Trimmed(mem, f.a) + Trimmed(mem, f.b)
    BY <1>4, <1>5, <1>6
  <2>2. First(f.r, f.r.n) = f.r
    BY <1>2 DEF First, In
  <2>3. QED
    BY <2>1, <2>2
<1>8. Value(mem, f.r) = f.product
  BY <1>7 DEF AtWork
<1>9. QED
  BY <1>8 DEF FrameWell

LEMMA ReturnWell ==
  ASSUME NEW d \in Nat \ {0}, NEW size, RunWell(disp, d, size), DispReturn
  PROVE  DispWell(disp')
<1>1. Len(disp.frames) = d /\ This = disp.frames[d] /\ This.pc = "return"
  BY TopIs DEF DispReturn
<1>2. CASE d = 1
  BY <1>1, <1>2 DEF DispReturn, DispWell
<1>3. CASE d # 1
  <2>1. PICK fr, mem : fr = disp.frames /\ mem = disp.mem
    OBVIOUS
  <2>2. PICK e \in Nat \ {0} : e = d - 1 /\ e < d /\ d = e + 1 /\ e \in 1 .. d - 1
    <3>1. d - 1 \in Nat \ {0} /\ d = (d - 1) + 1 /\ d - 1 < d /\ d - 1 \in 1 .. d - 1
      BY <1>3
    <3>2. QED
      BY <3>1
  <2>3. PICK new, newsize : /\ new = [x \in DOMAIN mem \ {Buffer(d)} |-> mem[x]]
                            /\ newsize = [x \in DOMAIN size \ {Buffer(d)} |-> size[x]]
    BY Zenon
  <2>4. disp' = [disp EXCEPT !.frames = SubSeq(fr, 1, e), !.mem = new]
    BY <1>1, <1>3, <2>1, <2>2, <2>3 DEF DispReturn
  <2>5. /\ Memory(mem, size) /\ StackBelow(fr, d, mem, size) /\ FrameWell(fr[d], d, mem, size)
        /\ AtWork(fr[d], mem) /\ fr = [k \in 1 .. d |-> fr[k]]
    BY <2>1 DEF RunWell
  <2>6. Touches(mem, new, size, newsize, fr[d].r, d)
    <3>1. DOMAIN mem = DOMAIN size
      BY <2>5 DEF Memory
    <3>2. \A x \in DOMAIN newsize : x \in DOMAIN size /\ newsize[x] = size[x] /\ new[x] = mem[x]
      BY <2>3, <3>1
    <3>3. Memory(new, newsize)
      <4>1. new = [x \in DOMAIN newsize |-> new[x]]
        BY <2>3, <3>1
      <4>2. \A x \in DOMAIN newsize : newsize[x] \in Nat
              /\ new[x] \in [0 .. newsize[x] - 1 -> 0 .. Base - 1]
        BY <2>5, <3>2 DEF Memory
      <4>3. QED
        BY <4>1, <4>2 DEF Memory
    <3>4. In(fr[d].r, size) /\ fr[d].r.area # Buffer(d)
      BY <2>5 DEF FrameWell, Buffer
    <3>5. \A x \in DOMAIN size : x # Buffer(d) => x \in DOMAIN newsize
      BY <2>3
    <3>6. new[fr[d].r.area] = mem[fr[d].r.area]
      BY <3>2, <3>4, <3>5 DEF In
    <3>7. QED
      BY <3>2, <3>3, <3>5, <3>6 DEF Touches
  <2>7. \A k \in 1 .. d - 1 : FrameWell(fr[k], k, new, newsize) /\ Waits(fr[k], fr[k + 1], new)
    BY <2>5, <2>6, BelowKept
  <2>8. PICK f, g : f = fr[d] /\ g = fr[e]
    OBVIOUS
  <2>9. FrameWell(g, e, new, newsize) /\ Waits(g, f, new)
    BY <2>2, <2>7, <2>8
  <2>10. Value(mem, f.r) = Value(mem, f.a) * Value(mem, f.b)
    <3>1. FrameWell(g, e, mem, size) /\ Waits(g, f, mem)
      BY <2>2, <2>5, <2>8 DEF StackBelow
    <3>2. FrameWell(f, e + 1, mem, size) /\ AtWork(f, mem) /\ f.pc = "return"
      BY <1>1, <2>1, <2>2, <2>5, <2>8
    <3>3. QED
      BY <2>5, <3>1, <3>2, ProductComes
  <2>11. /\ Value(new, f.r) = Value(mem, f.r) /\ Value(new, f.a) = Value(mem, f.a)
         /\ Value(new, f.b) = Value(mem, f.b)
    <3>1. /\ In(f.r, size) /\ f.r.area \in 3 .. d + 2 /\ f.r.area # Buffer(d)
          /\ In(f.a, size) /\ f.a.area \in {1, 2} /\ In(f.b, size) /\ f.b.area \in {1, 2}
      BY <2>5, <2>8 DEF FrameWell, Operand, Buffer
    <3>2. Value(new, f.a) = Value(mem, f.a) /\ Value(new, f.b) = Value(mem, f.b)
      BY <2>6, <2>8, <3>1, TouchesOperand
    <3>3. new[f.r.area] = mem[f.r.area]
      <4>1. f.r.area \in DOMAIN mem
        BY <2>5, <3>1 DEF In, Memory
      <4>2. QED
        BY <2>3, <3>1, <4>1
    <3>4. Value(new, f.r) = Value(mem, f.r)
      <4>1. \A i \in 0 .. f.r.n - 1 : Limb(new, f.r, i) = Limb(mem, f.r, i)
        BY <3>3 DEF Limb
      <4>2. QED
        BY <4>1, SameLimbs
    <3>5. QED
      BY <3>2, <3>4
  <2>12. AtWork(g, new)
    <3>1. g.pc = "add" /\ f.r = TargetOf(new, g) /\ f.a = PieceOf(new, g) /\ f.b = g.short
          /\ Rest(g, new, f.r.n)
      BY <2>9 DEF Waits
    <3>2. QED
      BY <2>10, <2>11, <3>1 DEF AtWork
  <2>13. PICK gr : gr = SubSeq(fr, 1, e) /\ gr = [k \in 1 .. e |-> gr[k]]
                   /\ \A k \in 1 .. e : gr[k] = fr[k]
    <3>1. SubSeq(fr, 1, e) = [k \in 1 .. e |-> fr[k]]
      BY <2>2, <2>5, FramesBut
    <3>2. QED
      BY <3>1
  <2>14. StackBelow(gr, e, new, newsize)
    <3>1. ASSUME NEW k \in 1 .. e - 1
          PROVE  FrameWell(gr[k], k, new, newsize) /\ Waits(gr[k], gr[k + 1], new)
      <4>1. k \in 1 .. d - 1 /\ k \in 1 .. e /\ k + 1 \in 1 .. e
        BY <2>2
      <4>2. QED
        BY <2>7, <2>13, <4>1
    <3>2. \A j, k \in 1 .. e : j < k => Above(gr[j].r, gr[k].r)
      <4>1. \A j \in 1 .. e : j \in 1 .. d
        BY <2>2
      <4>2. QED
        BY <2>5, <2>13, <4>1 DEF StackBelow
    <3>3. QED
      BY <3>1, <3>2 DEF StackBelow
  <2>15. FrameWell(gr[e], e, new, newsize) /\ AtWork(gr[e], new)
    <3>1. e \in 1 .. e
      OBVIOUS
    <3>2. QED
      BY <2>8, <2>9, <2>12, <2>13, <3>1
  <2>16. /\ {"frames", "mem", "garbage"} \subseteq DOMAIN disp' /\ disp'.garbage \in Leftovers
         /\ disp'.frames = gr /\ disp'.mem = new
    BY <2>4, <2>13 DEF RunWell
  <2>17. RunWell(disp', e, newsize)
    <3>1. Memory(new, newsize)
      BY <2>6 DEF Touches
    <3>2. QED
      BY <2>13, <2>14, <2>15, <2>16, <3>1 DEF RunWell
  <2>18. QED
    BY <2>17 DEF DispWell
<1>4. QED
  BY <1>2, <1>3

(* An array of its own joins the memory. *)
LEMMA GrowsTouches ==
  ASSUME NEW mem, NEW size, Memory(mem, size), NEW d \in Nat, NEW s, In(s, size),
         s.area \in 3 .. d + 2, NEW n \in Nat, NEW z \in Leftovers,
         NEW new, new = [x \in DOMAIN mem \cup {Buffer(d)} |->
                           IF x = Buffer(d) THEN Leftover(n, z) ELSE mem[x]],
         NEW newsize, newsize = [x \in DOMAIN size \cup {Buffer(d)} |->
                                   IF x = Buffer(d) THEN n ELSE size[x]]
  PROVE  /\ Touches(mem, new, size, newsize, s, d)
         /\ In(Span(Buffer(d), 0, n), newsize)
         /\ \A t : In(t, size) /\ t.area # Buffer(d) => Value(new, t) = Value(mem, t)
<1>1. PICK b : b = Buffer(d)
  BY Zenon
<1>2. DOMAIN mem = DOMAIN size
  BY DEF Memory
<1>3. \A x \in DOMAIN newsize : /\ x # b => x \in DOMAIN size /\ newsize[x] = size[x]
                                            /\ new[x] = mem[x]
                                /\ x = b => newsize[x] = n /\ new[x] = Leftover(n, z)
  BY <1>1, <1>2
<1>4. DOMAIN newsize = DOMAIN size \cup {b}
  BY <1>1
<1>5. Memory(new, newsize)
  <2>1. new = [x \in DOMAIN newsize |-> new[x]]
    BY <1>1, <1>2, <1>4, Zenon
  <2>2. Leftover(n, z) \in [0 .. n - 1 -> 0 .. Base - 1]
    BY LeftoverLimbs
  <2>3. ASSUME NEW x \in DOMAIN newsize
        PROVE  newsize[x] \in Nat /\ new[x] \in [0 .. newsize[x] - 1 -> 0 .. Base - 1]
    <3>1. CASE x = b
      BY <1>3, <2>2, <3>1
    <3>2. CASE x # b
      BY <1>3, <3>2 DEF Memory
    <3>3. QED
      BY <3>1, <3>2
  <2>4. QED
    BY <2>1, <2>3 DEF Memory
<1>6. s.area # b /\ s.area \in DOMAIN size
  BY <1>1 DEF Buffer, In
<1>7. Touches(mem, new, size, newsize, s, d)
  BY <1>1, <1>3, <1>4, <1>5, <1>6 DEF Touches
<1>8. In(Span(Buffer(d), 0, n), newsize)
  BY <1>1, <1>3, <1>4 DEF In, Span
<1>9. ASSUME NEW t, In(t, size), t.area # b PROVE Value(new, t) = Value(mem, t)
  <2>1. new[t.area] = mem[t.area]
    BY <1>3, <1>4, <1>9 DEF In
  <2>2. \A i \in 0 .. t.n - 1 : Limb(new, t, i) = Limb(mem, t, i)
    BY <2>1 DEF Limb
  <2>3. QED
    BY <2>2, SameLimbs
<1>10. QED
  BY <1>1, <1>7, <1>8, <1>9

(* The longer and the shorter of the operands. *)
LEMMA LongShort ==
  ASSUME NEW d \in Nat \ {0}, NEW size, RunWell(disp, d, size), DispEntered, ~This.square,
         NEW long, long = IF Left.n >= Right.n THEN Left ELSE Right,
         NEW short, short = IF Left.n >= Right.n THEN Right ELSE Left
  PROVE  /\ In(long, size) /\ long.area \in {1, 2} /\ long.n \in Nat \ {0} /\ long.n = MaxSize
         /\ In(short, size) /\ short.area \in {1, 2} /\ short.n \in Nat \ {0}
         /\ short.n = MinSize /\ long.area # short.area
         /\ HasLimbs(Value(disp.mem, short), short.n)
         /\ Value(disp.mem, long) * Value(disp.mem, short) = This.product
         /\ long.n + short.n = Trimmed(disp.mem, This.a) + Trimmed(disp.mem, This.b)
         /\ Whole(This.r, Left, Right) = First(This.r, long.n + short.n)
         /\ long.n + short.n \in Nat /\ long.n + short.n <= This.r.n
<1>1. Left.area # Right.area
  BY SquareSame
<1>2. /\ In(Left, size) /\ Left.area \in {1, 2} /\ Left.n \in Nat \ {0}
      /\ In(Right, size) /\ Right.area \in {1, 2} /\ Right.n \in Nat \ {0}
      /\ Left.n = Trimmed(disp.mem, This.a) /\ Right.n = Trimmed(disp.mem, This.b)
      /\ HasLimbs(Value(disp.mem, Left), Left.n) /\ HasLimbs(Value(disp.mem, Right), Right.n)
      /\ ProductOf(disp.mem, Left, Right) = This.product
      /\ Left.n + Right.n <= This.r.n /\ Memory(disp.mem, size)
  BY OperandsAre
<1>3. PICK x \in Nat, y \in Nat : x = Value(disp.mem, Left) /\ y = Value(disp.mem, Right)
  BY <1>2, ValueType
<1>4. x * y = This.product /\ y * x = x * y
  BY <1>2, <1>3 DEF ProductOf
<1>5. PICK m \in Nat, n \in Nat : m = Left.n /\ n = Right.n /\ m + n = n + m
  BY <1>2
<1>6. CASE m >= n
  <2>1. long = Left /\ short = Right
    BY <1>5, <1>6
  <2>2. MaxSize = m /\ MinSize = n
    BY <1>5, <1>6 DEF MaxSize, MinSize, LargerOf, SmallerOf
  <2>3. QED
    BY <1>1, <1>2, <1>3, <1>4, <1>5, <2>1, <2>2 DEF Whole
<1>7. CASE ~(m >= n)
  <2>1. long = Right /\ short = Left
    BY <1>5, <1>7
  <2>2. MaxSize = n /\ MinSize = m
    BY <1>5, <1>7 DEF MaxSize, MinSize, LargerOf, SmallerOf
  <2>3. Value(disp.mem, long) * Value(disp.mem, short) = This.product
    BY <1>3, <1>4, <2>1
  <2>4. Whole(This.r, Left, Right) = First(This.r, long.n + short.n)
    BY <1>5, <2>1 DEF Whole
  <2>5. QED
    BY <1>1, <1>2, <1>5, <2>1, <2>2, <2>3, <2>4
<1>8. QED
  BY <1>6, <1>7

(* The product is sliced. *)
LEMMA SliceWell ==
  ASSUME NEW d \in Nat \ {0}, NEW size, RunWell(disp, d, size), DispSlice
  PROVE  \E newsize : RunWell(disp', d, newsize)
<1>1. PICK g, mem : g = This /\ mem = disp.mem
  OBVIOUS
<1>2. DispEntered /\ ~This.square
  BY DEF DispSlice, DispGeneral, MultiLimb
<1>3. /\ Len(disp.frames) = d /\ g = disp.frames[d] /\ FrameWell(g, d, mem, size)
      /\ g.pc = "enter" /\ Memory(mem, size) /\ disp.garbage \in Leftovers
  BY <1>1, <1>2, TopIs DEF RunWell, DispEntered
<1>4. PICK long, short, last, whole :
        /\ long = IF Left.n >= Right.n THEN Left ELSE Right
        /\ short = IF Left.n >= Right.n THEN Right ELSE Left
        /\ last = LastPiece(MinSize, MaxSize, This.mode = "forced")
        /\ whole = Whole(This.r, Left, Right)
  OBVIOUS
<1>5. /\ In(long, size) /\ long.area \in {1, 2} /\ long.n \in Nat \ {0} /\ long.n = MaxSize
      /\ In(short, size) /\ short.area \in {1, 2} /\ short.n \in Nat \ {0}
      /\ short.n = MinSize /\ long.area # short.area
      /\ HasLimbs(Value(mem, short), short.n)
      /\ Value(mem, long) * Value(mem, short) = g.product
      /\ long.n + short.n = Trimmed(mem, g.a) + Trimmed(mem, g.b)
      /\ whole = First(g.r, long.n + short.n)
      /\ long.n + short.n \in Nat /\ long.n + short.n <= g.r.n
  <2>1. /\ In(long, size) /\ long.area \in {1, 2} /\ long.n \in Nat \ {0} /\ long.n = MaxSize
        /\ In(short, size) /\ short.area \in {1, 2} /\ short.n \in Nat \ {0}
        /\ short.n = MinSize /\ long.area # short.area
        /\ HasLimbs(Value(disp.mem, short), short.n)
        /\ Value(disp.mem, long) * Value(disp.mem, short) = This.product
        /\ long.n + short.n = Trimmed(disp.mem, This.a) + Trimmed(disp.mem, This.b)
        /\ Whole(This.r, Left, Right) = First(This.r, long.n + short.n)
        /\ long.n + short.n \in Nat /\ long.n + short.n <= This.r.n
    BY <1>2, <1>4, LongShort
  <2>2. QED
    BY <1>1, <1>4, <2>1
<1>6. PICK m \in Nat \ {0} : m = MinSize /\ m = short.n
  BY <1>5
<1>7. /\ last.cuts \in Nat /\ last.rem \in Nat /\ 0 < last.rem /\ last.rem < 2 * m
      /\ last.cuts * m + last.rem = long.n
  <2>1. MinSize \in Nat \ {0} /\ MaxSize \in Nat \ {0}
    BY <1>5
  <2>2. QED
    BY <1>4, <1>5, <1>6, <2>1, LastPieceFacts
<1>8. PICK n \in Nat : n = m + LargerOf(m, last.rem)
  BY <1>7 DEF LargerOf
<1>9. PICK f : f = [pc |-> "piece", r |-> g.r, a |-> g.a, b |-> g.b,
                    product |-> g.product, long |-> long, short |-> short,
                    m |-> m, i |-> 0, cuts |-> last.cuts, rem |-> last.rem,
                    force |-> g.mode = "forced", tmp |-> Span(Buffer(d), 0, n)]
  OBVIOUS
<1>10. /\ f.pc = "piece" /\ f.r = g.r /\ f.a = g.a /\ f.b = g.b /\ f.product = g.product
       /\ f.long = long /\ f.short = short /\ f.m = m /\ f.i = 0 /\ f.cuts = last.cuts
       /\ f.rem = last.rem /\ f.tmp = Span(Buffer(d), 0, n) /\ f.tmp.n = n
       /\ {"pc", "r", "a", "b", "product", "long", "short", "m", "i", "cuts", "rem", "tmp"}
            \subseteq DOMAIN f
  BY <1>9 DEF Span
<1>11. PICK filled, new, newsize :
         /\ filled = Fill(mem, whole)
         /\ new = [x \in DOMAIN filled \cup {Buffer(d)} |->
                     IF x = Buffer(d) THEN Leftover(n, disp.garbage) ELSE filled[x]]
         /\ newsize = [x \in DOMAIN size \cup {Buffer(d)} |->
                         IF x = Buffer(d) THEN n ELSE size[x]]
  BY Zenon
<1>12. disp' = [disp EXCEPT !.frames = DispBecomes(f), !.mem = new]
  <2> DEFINE name == Buffer(Len(disp.frames))
             ff == [pc |-> "piece", r |-> This.r, a |-> This.a, b |-> This.b,
                    product |-> This.product, long |-> long, short |-> short, m |-> MinSize,
                    i |-> 0, cuts |-> last.cuts, rem |-> last.rem, force |-> This.mode = "forced",
                    tmp |-> Span(name, 0, MinSize + LargerOf(MinSize, last.rem))]
             mm == Fill(disp.mem, whole)
  <2>1. disp' = [disp EXCEPT
                   !.frames = DispBecomes(ff),
                   !.mem = [x \in DOMAIN mm \cup {name} |->
                              IF x = name THEN Leftover(ff.tmp.n, disp.garbage) ELSE mm[x]]]
    BY <1>4, Zenon DEF DispSlice
  <2>2. ff = f
    BY <1>1, <1>3, <1>6, <1>8, <1>9
  <2>3. mm = filled
    BY <1>1, <1>11
  <2> HIDE DEF ff, mm
  <2>4. [x \in DOMAIN mm \cup {name} |->
           IF x = name THEN Leftover(ff.tmp.n, disp.garbage) ELSE mm[x]] = new
    BY <1>3, <1>10, <1>11, <2>2, <2>3, Zenon
  <2>5. QED
    BY <2>1, <2>2, <2>4
<1>13. In(g.r, size) /\ g.r.at = 0 /\ g.r.area \in 3 .. d + 2 /\ g.r.area # Buffer(d)
  BY <1>3 DEF FrameWell, Buffer
<1>14. In(whole, size) /\ whole.area = g.r.area /\ whole.at = 0 /\ whole.n <= g.r.n
  BY <1>5, <1>13, PartsIn
<1>15. Fills(mem, filled, size, whole, 0)
  BY <1>3, <1>11, <1>14, FillFills
<1>16. Touches(mem, filled, size, size, g.r, d)
  <2>1. whole.at + whole.n <= g.r.n
    BY <1>14 DEF In
  <2>2. QED
    BY <1>13, <1>14, <1>15, <2>1, FillsTouches
<1>17. disp.garbage \in Leftovers
  BY <1>3
<1>18. /\ Touches(filled, new, size, newsize, g.r, d)
       /\ In(Span(Buffer(d), 0, n), newsize)
       /\ \A t : In(t, size) /\ t.area # Buffer(d) => Value(new, t) = Value(filled, t)
  <2>1. Memory(filled, size)
    BY <1>15 DEF Fills
  <2>2. PICK z \in Leftovers : z = disp.garbage
    BY <1>17
  <2>3. new = [x \in DOMAIN filled \cup {Buffer(d)} |->
                 IF x = Buffer(d) THEN Leftover(n, z) ELSE filled[x]]
    BY <1>11, <2>2, Zenon
  <2>4. newsize = [x \in DOMAIN size \cup {Buffer(d)} |-> IF x = Buffer(d) THEN n ELSE size[x]]
    BY <1>11, Zenon
  <2>5. d \in Nat /\ n \in Nat /\ z \in Leftovers /\ In(g.r, size) /\ g.r.area \in 3 .. d + 2
    BY <1>13
  <2>6. Touches(filled, new, size, newsize, g.r, d)
    BY <2>1, <2>3, <2>4, <2>5, GrowsTouches
  <2>7. In(Span(Buffer(d), 0, n), newsize)
    BY <2>1, <2>3, <2>4, <2>5, GrowsTouches
  <2>8. \A t : In(t, size) /\ t.area # Buffer(d) => Value(new, t) = Value(filled, t)
    BY <2>1, <2>3, <2>4, <2>5, GrowsTouches
  <2>9. QED
    BY <2>6, <2>7, <2>8
<1>19. Touches(mem, new, size, newsize, g.r, d)
  BY <1>13, <1>16, <1>18, TouchesBoth
<1>20. FrameWell(g, d, new, newsize)
  BY <1>3, <1>13, <1>19, FrameKept
<1>21. /\ In(long, newsize) /\ Value(new, long) = Value(mem, long)
       /\ In(short, newsize) /\ Value(new, short) = Value(mem, short)
  BY <1>5, <1>13, <1>19, TouchesOperand
<1>22. Trimmed(new, g.a) = Trimmed(mem, g.a) /\ Trimmed(new, g.b) = Trimmed(mem, g.b)
  <2>1. In(g.a, size) /\ g.a.area \in {1, 2} /\ In(g.b, size) /\ g.b.area \in {1, 2}
    BY <1>3 DEF FrameWell, Operand
  <2>2. QED
    BY <1>13, <1>19, <2>1, TouchesOperand
<1>23. Slicing(f)
  BY <1>5, <1>6, <1>7, <1>10 DEF Slicing, Holding, In
<1>24. SlicingWell(f, d, new, newsize)
  <2>1. Operand(f.long, newsize) /\ Operand(f.short, newsize) /\ f.long.area # f.short.area
    BY <1>5, <1>10, <1>21 DEF Operand
  <2>2. f.short.n = f.m /\ HasLimbs(Value(new, f.short), f.m)
    BY <1>5, <1>6, <1>10, <1>21
  <2>3. Value(new, f.long) * Value(new, f.short) = f.product
    BY <1>5, <1>10, <1>21
  <2>4. f.long.n + f.m = Trimmed(new, f.a) + Trimmed(new, f.b)
    BY <1>5, <1>6, <1>10, <1>22
  <2>5. f.i \in 0 .. f.cuts
    BY <1>7, <1>10
  <2>6. f.tmp = Span(Buffer(d), 0, f.m + LargerOf(f.m, f.rem)) /\ In(f.tmp, newsize)
    BY <1>8, <1>10, <1>18
  <2>7. QED
    BY <1>10, <1>23, <2>1, <2>2, <2>3, <2>4, <2>5, <2>6 DEF SlicingWell
<1>25. FrameWell(f, d, new, newsize)
  BY <1>10, <1>20, <1>24 DEF FrameWell
<1>26. Value(new, Result(f)) = Done(new, f, f.i * f.m)
  <2>1. Result(f) = whole
    BY <1>5, <1>6, <1>10 DEF Result
  <2>2. Value(new, whole) = 0
    BY <1>13, <1>14, <1>15, <1>18 DEF Fills
  <2>3. f.i * f.m = 0
    BY <1>6, <1>10
  <2>4. Memory(new, newsize)
    BY <1>19 DEF Touches
  <2>5. In(First(f.long, 0), newsize) /\ First(f.long, 0).n = 0
    <3>1. 0 \in Nat /\ 0 <= f.long.n
      BY <1>5, <1>10
    <3>2. QED
      BY <1>10, <1>21, <3>1, PartsIn
  <2>6. Value(new, First(f.long, 0)) = 0
    BY <2>4, <2>5, ValueEmpty
  <2>7. Value(new, f.short) \in Nat
    BY <1>10, <1>21, <2>4, ValueType
  <2>8. Done(new, f, 0) = 0
    BY <2>6, <2>7 DEF Done
  <2>9. QED
    BY <2>1, <2>2, <2>3, <2>8
<1>27. AtWork(f, new)
  BY <1>10, <1>26 DEF AtWork
<1>28. disp' = [disp EXCEPT !.mem = new, !.frames = DispBecomes(f)]
  BY <1>12
<1>29. RunWell(disp', d, newsize)
  BY <1>1, <1>3, <1>10, <1>19, <1>25, <1>27, <1>28, BecomesWell
<1>30. QED
  BY <1>29

(* A call of the program: x * x passes one span twice. *)
LEMMA EnterWell ==
  ASSUME DispEnter
  PROVE  DispWell(disp')
<1> DEFINE Card(x) == Cardinality(DOMAIN x)
           Operands(p, square) == IF square THEN Span(1, 0, Card(p[1])) ELSE Span(2, 0, Card(p[2]))
           Started(p, square, garbage, mode, m) ==
             [frames |-> <<DispCall(m, Span(3, 0, Card(p[1]) + Card(p[2])),
                                    Span(1, 0, Card(p[1])), Operands(p, square), mode)>>,
              mem |-> m, garbage |-> garbage]
<1>1. PICK p \in DispOperands, square \in BOOLEAN, garbage \in Leftovers,
           mode \in {"constant", "automatic", "forced", "disabled"} :
        /\ square => p[1] = p[2]
        /\ disp' = Started(p, square, garbage, mode,
                          <<p[1], p[2], Leftover(Card(p[1]) + Card(p[2]), garbage)>>)
  BY DEF DispEnter
<1>2. PICK na, nb, mem, a, b :
        /\ na = Cardinality(DOMAIN p[1]) /\ nb = Cardinality(DOMAIN p[2])
        /\ mem = <<p[1], p[2], Leftover(na + nb, garbage)>>
        /\ a = Span(1, 0, na) /\ b = IF square THEN a ELSE Span(2, 0, nb)
        /\ square => p[1] = p[2]
        /\ disp' = [frames |-> <<DispCall(mem, Span(3, 0, na + nb), a, b, mode)>>,
                    mem |-> mem, garbage |-> garbage]
  BY <1>1
<1>3. /\ na \in Nat \ {0} /\ p[1] \in [0 .. na - 1 -> 0 .. Base - 1]
      /\ nb \in Nat \ {0} /\ p[2] \in [0 .. nb - 1 -> 0 .. Base - 1]
      /\ (square => na = nb)
  BY <1>2, DispAssumption
<1>4. PICK n \in Nat : n = na + nb
  BY <1>3
<1>5. PICK size : size = <<na, nb, n>>
  OBVIOUS
<1>6. DOMAIN size = 1 .. 3 /\ size[1] = na /\ size[2] = nb /\ size[3] = n
  BY <1>5
<1>7. Leftover(n, garbage) \in [0 .. n - 1 -> 0 .. Base - 1]
  BY LeftoverLimbs
<1>8. Memory(mem, size)
  <2>1. mem = [x \in 1 .. 3 |-> mem[x]] /\ mem[1] = p[1] /\ mem[2] = p[2]
        /\ mem[3] = Leftover(n, garbage)
    BY <1>2, <1>4
  <2>2. \A x \in 1 .. 3 : x = 1 \/ x = 2 \/ x = 3
    OBVIOUS
  <2>3. \A x \in 1 .. 3 : size[x] \in Nat /\ mem[x] \in [0 .. size[x] - 1 -> 0 .. Base - 1]
    BY <1>3, <1>4, <1>6, <1>7, <2>1, <2>2
  <2>4. QED
    BY <1>6, <2>1, <2>3 DEF Memory
<1>9. PICK r, h : r = Span(3, 0, n) /\ h = DispCall(mem, r, a, b, mode)
  OBVIOUS
<1>10. In(r, size) /\ r.at = 0 /\ r.area = 3 /\ r.n = n
  BY <1>4, <1>6, <1>9 DEF In, Span
<1>11. Operand(a, size) /\ a.n = na /\ Operand(b, size) /\ b.n = nb /\ (a.area = b.area => a = b)
  <2>1. Operand(a, size) /\ a.n = na /\ a.area = 1
    BY <1>2, <1>3, <1>6 DEF Operand, In, Span
  <2>2. CASE square
    BY <1>2, <1>3, <2>1, <2>2
  <2>3. CASE ~square
    <3>1. b = Span(2, 0, nb)
      BY <1>2, <2>3
    <3>2. Operand(b, size) /\ b.n = nb /\ b.area = 2
      BY <1>3, <1>6, <3>1 DEF Operand, In, Span
    <3>3. QED
      BY <2>1, <3>2
  <2>4. QED
    BY <2>2, <2>3
<1>12. /\ {"pc", "r", "a", "b", "product", "square"} \subseteq DOMAIN h
       /\ h.pc = "enter" /\ h.r = r /\ h.a = a /\ h.b = b /\ h.square = (a = b)
       /\ h.product = Value(mem, a) * Value(mem, b)
  BY <1>9 DEF DispCall, ProductOf
<1>13. FrameWell(h, 1, mem, size)
  <2>1. r.area \in 3 .. 1 + 2 /\ a.n + b.n <= r.n
    BY <1>3, <1>4, <1>10, <1>11
  <2>2. QED
    BY <1>10, <1>11, <1>12, <2>1 DEF FrameWell
<1>14. AtWork(h, mem)
  BY <1>12 DEF AtWork
<1>15. PICK fr : fr = <<h>> /\ fr = [k \in 1 .. 1 |-> fr[k]] /\ fr[1] = h
  <2>1. <<h>> = [k \in 1 .. 1 |-> <<h>>[k]] /\ <<h>>[1] = h
    OBVIOUS
  <2>2. QED
    BY <2>1
<1>16. StackBelow(fr, 1, mem, size)
  <2>1. 1 .. 1 - 1 = {} /\ \A j, k \in 1 .. 1 : ~(j < k)
    OBVIOUS
  <2>2. QED
    BY <2>1 DEF StackBelow
<1>17. /\ {"frames", "mem", "garbage"} \subseteq DOMAIN disp' /\ disp'.garbage = garbage
       /\ disp'.frames = fr /\ disp'.mem = mem
  BY <1>2, <1>4, <1>9, <1>15
<1>18. RunWell(disp', 1, size)
  BY <1>8, <1>13, <1>14, <1>15, <1>16, <1>17 DEF RunWell
<1>19. QED
  <2>1. 1 \in Nat \ {0}
    OBVIOUS
  <2>2. QED
    BY <1>18, <2>1 DEF DispWell

(* Every step of the dispatcher keeps the stack well. *)
LEMMA StepWell ==
  ASSUME DispWell(disp), DispStep
  PROVE  DispWell(disp')
<1>1. disp.frames # <<>>
  BY DEF DispStep, DispSingleLimb, DispConstant, DispSchoolbook, DispSquareSchoolbook,
         DispSquareLarge, DispPowerOfTwo, DispTransform, DispLadder, DispSlice, DispSkipPiece,
         DispFullPiece, DispShortPiece, DispAddPiece, DispReturn, MultiLimb, DispGeneral,
         DispEntered, AtPiece
<1>2. disp # DispIdle
  BY <1>1 DEF DispIdle
<1>3. PICK d \in Nat \ {0} : \E size : RunWell(disp, d, size)
  BY <1>2 DEF DispWell
<1>4. PICK size : RunWell(disp, d, size)
  BY <1>3
<1>5. d + 1 \in Nat \ {0}
  OBVIOUS
<1>6. CASE \/ DispSingleLimb \/ DispConstant \/ DispSchoolbook \/ DispSquareSchoolbook
           \/ DispSquareLarge \/ DispPowerOfTwo \/ DispTransform \/ DispLadder
  BY <1>4, <1>6, KernelsWell DEF DispWell
<1>7. CASE DispSlice
  BY <1>4, <1>7, SliceWell DEF DispWell
<1>8. CASE DispSkipPiece
  BY <1>4, <1>8, SkipPieceWell DEF DispWell
<1>9. CASE DispFullPiece
  BY <1>4, <1>9, FullPieceWell DEF DispWell
<1>10. CASE DispShortPiece
  BY <1>4, <1>5, <1>10, ShortPieceWell DEF DispWell
<1>11. CASE DispAddPiece
  BY <1>4, <1>11, AddPieceWell DEF DispWell
<1>12. CASE DispReturn
  BY <1>4, <1>12, ReturnWell
<1>13. QED
  BY <1>6, <1>7, <1>8, <1>9, <1>10, <1>11, <1>12 DEF DispStep

LEMMA WellProduct ==
  ASSUME DispWell(disp)
  PROVE  SlicedProduct
<1>1. CASE disp = DispIdle
  BY <1>1 DEF DispIdle, SlicedProduct
<1>2. CASE disp # DispIdle
  <2>1. PICK d \in Nat \ {0} : \E size : RunWell(disp, d, size)
    BY <1>2 DEF DispWell
  <2>2. PICK size : RunWell(disp, d, size)
    BY <2>1
  <2>3. PICK f : f = This /\ f.product = This.product
    OBVIOUS
  <2>4. AtWork(f, disp.mem)
    BY <2>2, <2>3, TopIs DEF RunWell
  <2>5. Left.n = Trimmed(disp.mem, f.a) /\ Right.n = Trimmed(disp.mem, f.b)
    BY <2>2, <2>3, OperandsAre
  <2>6. QED
    BY <2>3, <2>4, <2>5 DEF SlicedProduct, AtWork
<1>3. QED
  BY <1>1, <1>2

(* Every dispatched product, the pieces of sliced ones included, fills the limbs of its trimmed
   operands with exactly their product: for every width of a limb, all operands, every table of
   cutoffs and zones that the build accepts, and any depth of slicings in slicings. *)
THEOREM SlicedProductIsRight == Spec => []SlicedProduct
<1>1. Init => DispWell(disp)
  BY DEF Init, DispInit, DispWell
<1>2. DispWell(disp) /\ [Next]_vars => DispWell(disp)'
  <2> SUFFICES ASSUME DispWell(disp), [Next]_vars PROVE DispWell(disp')
    BY DEF DispWell, RunWell
  <2>1. CASE disp' = disp
    BY <2>1
  <2>2. CASE DispEnter
    BY <2>2, EnterWell
  <2>3. CASE DispStep
    BY <2>3, StepWell
  <2>4. QED
    BY <2>1, <2>2, <2>3 DEF Next, Enter, KaraRuns, DispRuns, WrapRuns, ToomRuns, WsRuns, vars
<1>3. DispWell(disp) => SlicedProduct
  BY WellProduct
<1>4. QED
  BY <1>1, <1>2, <1>3, PTL DEF Spec

-----------------------------------------------------------------------------
(* The workspace of the recursive kernels. What a call takes and what its  *)
(* recursive calls are estimated to need stays within its own estimate, so *)
(* that every frame fits what its caller left.                             *)

WsFrames == [level : 1 .. 5, a : Nat \ {0}, b : Nat \ {0}, block : Nat]

LEMMA WsSizes ==
  ASSUME NEW f \in WsFrames
  PROVE  /\ f.level \in 1 .. 5 /\ ShortSize(f) \in Nat \ {0} /\ LongSize(f) \in Nat \ {0}
         /\ ShortSize(f) <= LongSize(f)
<1>1. f.level \in 1 .. 5 /\ f.a \in Nat \ {0} /\ f.b \in Nat \ {0}
  BY DEF WsFrames
<1>2. QED
  BY <1>1 DEF ShortSize, LongSize

LEMMA WsTables ==
  /\ PartsOf(1) = 2 /\ PartsOf(2) = 3 /\ PartsOf(3) = 4 /\ PartsOf(4) = 6 /\ PartsOf(5) = 8
  /\ LongParts(1) = 2 /\ LongParts(2) = 3 /\ LongParts(3) = 4 /\ LongParts(4) = 7
  /\ LongParts(5) = 9
  BY DEF PartsOf, LongParts

(* What a frame that is not gated knows of its operands. *)
LEMMA PieceLimbsAre ==
  ASSUME NEW f \in WsFrames, ~Gated(f), ws.square \in BOOLEAN
  PROVE  \E k \in Nat \ {0}, s \in Nat \ {0}, l \in Nat \ {0} :
           /\ k = PieceLimbs(f) /\ s = ShortSize(f) /\ l = LongSize(f) /\ s <= l
           /\ f.level = 1 => 2 * k <= l + 2 /\ l <= 2 * k /\ 36 <= l
           /\ f.level = 2 => 3 * k <= l + 2 /\ l <= 3 * k /\ 61 <= l
           /\ f.level = 3 => 4 * k <= l + 3 /\ l <= 4 * k /\ 61 <= l
           /\ f.level = 4 => 6 * k <= s + 5 /\ s <= 6 * k /\ l <= 7 * k /\ 61 <= s
           /\ f.level = 5 => 8 * k <= s + 7 /\ s <= 8 * k /\ l <= 9 * k /\ 61 <= s
<1>1. PICK s \in Nat \ {0}, l \in Nat \ {0} : s = ShortSize(f) /\ l = LongSize(f) /\ s <= l
  BY WsSizes
<1>2. f.level \in 1 .. 5
  BY WsSizes
<1>3. ASSUME f.level > 1
      PROVE  /\ ~(s < CutoffsOf(ws.square)[WsKernels[f.level]])
             /\ ~(l > LongParts(f.level) * PieceLimbs(f))
  <2>1. f.level # 1
    BY <1>2, <1>3
  <2>2. QED
    BY <1>1, <1>3, <2>1 DEF Gated
<1>4. ASSUME f.level > 1 PROVE 61 <= s
  <2>1. WsKernels[f.level] \in {"toom3", "toom4", "toom65", "toom85"}
    <3>1. f.level = 2 \/ f.level = 3 \/ f.level = 4 \/ f.level = 5
      BY <1>2, <1>4
    <3>2. QED
      BY <3>1 DEF WsKernels
  <2>2. PICK c : c = CutoffsOf(ws.square)[WsKernels[f.level]]
    OBVIOUS
  <2>3. c \in Nat /\ c >= 61
    BY <2>1, <2>2, WsAssumption DEF CutoffsOf
  <2>4. ~(s < c)
    BY <1>3, <1>4, <2>2
  <2>5. QED
    BY <1>1, <2>3, <2>4
<1>5. CASE f.level = 1
  <2>1. PICK k : k = PieceLimbs(f) /\ k = l \div 2 + 1
    BY <1>1, <1>5 DEF PieceLimbs
  <2>2. k \in Nat \ {0} /\ 2 * k <= l + 2 /\ l <= 2 * k
    BY <2>1
  <2>3. PICK c : c = IF ws.square THEN WsSquareCutoffs.karatsuba ELSE WsCutoffs.fallback
    OBVIOUS
  <2>4. c \in Nat /\ c >= 36
    BY <2>3, WsAssumption
  <2>5. ~(s < c)
    BY <1>1, <1>5, <2>3 DEF Gated
  <2>6. 36 <= l
    BY <1>1, <2>4, <2>5
  <2>7. QED
    BY <1>1, <1>5, <2>1, <2>2, <2>6
<1>6. CASE f.level = 2
  <2>1. PICK k : k = PieceLimbs(f) /\ k = (l + 3 - 1) \div 3
    BY <1>1, <1>6, WsTables DEF PieceLimbs, DividedRoundingUp
  <2>2. k \in Nat \ {0} /\ 3 * k <= l + 2 /\ l <= 3 * k
    BY <2>1
  <2>3. 61 <= l
    BY <1>1, <1>4, <1>6
  <2>4. QED
    BY <1>1, <1>6, <2>1, <2>2, <2>3
<1>7. CASE f.level = 3
  <2>1. PICK k : k = PieceLimbs(f) /\ k = (l + 4 - 1) \div 4
    BY <1>1, <1>7, WsTables DEF PieceLimbs, DividedRoundingUp
  <2>2. k \in Nat \ {0} /\ 4 * k <= l + 3 /\ l <= 4 * k
    BY <2>1
  <2>3. 61 <= l
    BY <1>1, <1>4, <1>7
  <2>4. QED
    BY <1>1, <1>7, <2>1, <2>2, <2>3
<1>8. CASE f.level = 4
  <2>1. PICK k : k = PieceLimbs(f) /\ k = (s + 6 - 1) \div 6
    BY <1>1, <1>8, WsTables DEF PieceLimbs, DividedRoundingUp
  <2>2. k \in Nat \ {0} /\ 6 * k <= s + 5 /\ s <= 6 * k
    BY <2>1
  <2>3. 61 <= s /\ ~(l > 7 * k)
    BY <1>3, <1>4, <1>8, <2>1, WsTables
  <2>4. l <= 7 * k
    BY <1>1, <2>2, <2>3
  <2>5. QED
    BY <1>1, <1>8, <2>1, <2>2, <2>3, <2>4
<1>9. CASE f.level = 5
  <2>1. PICK k : k = PieceLimbs(f) /\ k = (s + 8 - 1) \div 8
    BY <1>1, <1>9, WsTables DEF PieceLimbs, DividedRoundingUp
  <2>2. k \in Nat \ {0} /\ 8 * k <= s + 7 /\ s <= 8 * k
    BY <2>1
  <2>3. 61 <= s /\ ~(l > 9 * k)
    BY <1>3, <1>4, <1>9, <2>1, WsTables
  <2>4. l <= 9 * k
    BY <1>1, <2>2, <2>3
  <2>5. QED
    BY <1>1, <1>9, <2>1, <2>2, <2>3, <2>4
<1>10. QED
  BY <1>2, <1>5, <1>6, <1>7, <1>8, <1>9

(* The recursive calls get at most one limb more than a piece has. *)
LEMMA ChildrenAre ==
  ASSUME NEW f \in WsFrames, ~Gated(f), ws.square \in BOOLEAN, NEW c \in ChildSizes(f)
  PROVE  /\ c \in (Nat \ {0}) \X (Nat \ {0})
         /\ c[1] <= PieceLimbs(f) + 1 /\ c[2] <= PieceLimbs(f) + 1
<1> DEFINE Low1(n, k) == IF n < k THEN n ELSE k
           Top1(n, k, parts) == IF n > (parts - 1) * k THEN n - (parts - 1) * k ELSE 0
<1>1. PICK k \in Nat \ {0}, s \in Nat \ {0}, l \in Nat \ {0} :
        /\ k = PieceLimbs(f) /\ s = ShortSize(f) /\ l = LongSize(f)
        /\ s <= PartsOf(f.level) * k /\ l <= LongParts(f.level) * k
        /\ PartsOf(f.level) \in Nat \ {0} /\ LongParts(f.level) \in Nat \ {0}
  <2>1. PICK k \in Nat \ {0}, s \in Nat \ {0}, l \in Nat \ {0} :
           /\ k = PieceLimbs(f) /\ s = ShortSize(f) /\ l = LongSize(f) /\ s <= l
           /\ f.level = 1 => l <= 2 * k
           /\ f.level = 2 => l <= 3 * k
           /\ f.level = 3 => l <= 4 * k
           /\ f.level = 4 => s <= 6 * k /\ l <= 7 * k
           /\ f.level = 5 => s <= 8 * k /\ l <= 9 * k
    BY PieceLimbsAre
  <2>2. f.level \in 1 .. 5
    BY WsSizes
  <2>3. f.level = 1 \/ f.level = 2 \/ f.level = 3 \/ f.level = 4 \/ f.level = 5
    BY <2>2
  <2>4. /\ s <= PartsOf(f.level) * k /\ l <= LongParts(f.level) * k
        /\ PartsOf(f.level) \in Nat \ {0} /\ LongParts(f.level) \in Nat \ {0}
    BY <2>1, <2>3, WsTables
  <2>5. QED
    BY <2>1, <2>4
<1>2. PICK p \in Nat \ {0}, q \in Nat \ {0} : p = PartsOf(f.level) /\ q = LongParts(f.level)
  BY <1>1
<1>3. PICK x \in Nat, y \in Nat, u \in Nat, v \in Nat :
        /\ x = Low1(s, k) /\ y = Low1(l, k) /\ x <= k /\ y <= k
        /\ u = Top1(s, k, p) /\ v = Top1(l, k, q) /\ u <= k /\ v <= k
  <2>1. Low1(s, k) \in Nat /\ Low1(s, k) <= k /\ Low1(l, k) \in Nat /\ Low1(l, k) <= k
    OBVIOUS
  <2>2. ASSUME NEW n \in Nat, NEW z \in Nat \ {0}, n <= z * k
        PROVE  Top1(n, k, z) \in Nat /\ Top1(n, k, z) <= k
    <3>1. (z - 1) * k = z * k - k /\ z * k \in Nat
      OBVIOUS
    <3>2. QED
      BY <2>2, <3>1
  <2>3. /\ Top1(s, k, p) \in Nat /\ Top1(s, k, p) <= k
        /\ Top1(l, k, q) \in Nat /\ Top1(l, k, q) <= k
    BY <1>1, <1>2, <2>2
  <2>4. QED
    BY <2>1, <2>3
<1>4. c \in {<<x, y>>, <<u, v>>, <<x + 1, y + 1>>} \cap (Nat \ {0}) \X (Nat \ {0})
  BY <1>1, <1>2, <1>3, Zenon DEF ChildSizes
<1>5. QED
  BY <1>1, <1>3, <1>4

(* What a level allocates and what its recursive calls need of the estimate for the level. *)
LEMMA BlockFits ==
  ASSUME NEW f \in WsFrames, ~Gated(f), ws.square \in BOOLEAN
  PROVE  /\ BlockLimbs(f) \in Nat \ {0}
         /\ BlockLimbs(f) + StorageSize(f.level, PieceLimbs(f) + 1)
              <= StorageSize(f.level, LongSize(f))
<1>1. PICK k \in Nat \ {0}, s \in Nat \ {0}, l \in Nat \ {0} :
           /\ k = PieceLimbs(f) /\ s = ShortSize(f) /\ l = LongSize(f) /\ s <= l
           /\ f.level = 1 => 2 * k <= l + 2 /\ 36 <= l
           /\ f.level = 2 => 3 * k <= l + 2 /\ 61 <= l
           /\ f.level = 3 => 4 * k <= l + 3 /\ 61 <= l
           /\ f.level = 4 => 6 * k <= s + 5 /\ 61 <= s
           /\ f.level = 5 => 8 * k <= s + 7 /\ 61 <= s
  BY PieceLimbsAre
<1>2. f.level = 1 \/ f.level = 2 \/ f.level = 3 \/ f.level = 4 \/ f.level = 5
  <2>1. f.level \in 1 .. 5
    BY WsSizes
  <2>2. QED
    BY <2>1
<1>3. PICK e \in {1, 2} : e = IF ws.square /\ f.level # 3 THEN 1 ELSE 2
  OBVIOUS
<1>4. PICK m : m = <<0, 3, 6, 11, 15>>[f.level]
  OBVIOUS
<1>5. BlockLimbs(f) = IF f.level = 1 THEN 2 * k + 2 + e * (k + 1)
                      ELSE e * (k + 2) + m * (2 * k + 2)
  BY <1>1, <1>3, <1>4, Zenon DEF BlockLimbs
<1>6. e * (k + 1) \in Nat /\ e * (k + 1) <= 2 * k + 2
      /\ e * (k + 2) \in Nat /\ e * (k + 2) <= 2 * k + 4
  <2>1. CASE e = 1
    BY <2>1
  <2>2. CASE e = 2
    BY <2>2
  <2>3. QED
    BY <2>1, <2>2
<1>7. CASE f.level = 1
  <2>1. PICK z \in Nat : z = e * (k + 1) /\ z <= 2 * k + 2
    BY <1>6
  <2>2. BlockLimbs(f) = 2 * k + 2 + z
    BY <1>5, <1>7, <2>1
  <2>3. StorageSize(f.level, k + 1) = 5 * (k + 1) /\ StorageSize(f.level, l) = 5 * l
    BY <1>7 DEF StorageSize
  <2>4. 2 * k + 2 + z \in Nat \ {0} /\ 2 * k + 2 + z + 5 * (k + 1) <= 5 * l
    BY <1>1, <1>7, <2>1
  <2>5. QED
    BY <1>1, <2>2, <2>3, <2>4
<1>8. CASE f.level = 2
  <2>1. PICK z \in Nat : z = e * (k + 2) /\ z <= 2 * k + 4
    BY <1>6
  <2>2. BlockLimbs(f) = z + 3 * (2 * k + 2)
    BY <1>4, <1>5, <1>8, <2>1
  <2>3. StorageSize(f.level, k + 1) = 5 * (k + 1) /\ StorageSize(f.level, l) = 5 * l
    BY <1>8 DEF StorageSize
  <2>4. z + 3 * (2 * k + 2) \in Nat \ {0} /\ z + 3 * (2 * k + 2) + 5 * (k + 1) <= 5 * l
    BY <1>1, <1>8, <2>1
  <2>5. QED
    BY <1>1, <2>2, <2>3, <2>4
<1>9. CASE f.level = 3
  <2>1. PICK z \in Nat : z = e * (k + 2) /\ z <= 2 * k + 4
    BY <1>6
  <2>2. BlockLimbs(f) = z + 6 * (2 * k + 2)
    BY <1>4, <1>5, <1>9, <2>1
  <2>3. StorageSize(f.level, k + 1) = 6 * (k + 1) /\ StorageSize(f.level, l) = 6 * l
    BY <1>9 DEF StorageSize
  <2>4. z + 6 * (2 * k + 2) \in Nat \ {0} /\ z + 6 * (2 * k + 2) + 6 * (k + 1) <= 6 * l
    BY <1>1, <1>9, <2>1
  <2>5. QED
    BY <1>1, <2>2, <2>3, <2>4
<1>10. CASE f.level = 4
  <2>1. PICK z \in Nat : z = e * (k + 2) /\ z <= 2 * k + 4
    BY <1>6
  <2>2. BlockLimbs(f) = z + 11 * (2 * k + 2)
    BY <1>4, <1>5, <1>10, <2>1
  <2>3. StorageSize(f.level, k + 1) = 6 * (k + 1) /\ StorageSize(f.level, l) = 6 * l
    BY <1>10 DEF StorageSize
  <2>4. z + 11 * (2 * k + 2) \in Nat \ {0} /\ z + 11 * (2 * k + 2) + 6 * (k + 1) <= 6 * l
    BY <1>1, <1>10, <2>1
  <2>5. QED
    BY <1>1, <2>2, <2>3, <2>4
<1>11. CASE f.level = 5
  <2>1. PICK z \in Nat : z = e * (k + 2) /\ z <= 2 * k + 4
    BY <1>6
  <2>2. BlockLimbs(f) = z + 15 * (2 * k + 2)
    BY <1>4, <1>5, <1>11, <2>1
  <2>3. StorageSize(f.level, k + 1) = 6 * (k + 1) /\ StorageSize(f.level, l) = 6 * l
    BY <1>11 DEF StorageSize
  <2>4. z + 15 * (2 * k + 2) \in Nat \ {0} /\ z + 15 * (2 * k + 2) + 6 * (k + 1) <= 6 * l
    BY <1>1, <1>11, <2>1
  <2>5. QED
    BY <1>1, <2>2, <2>3, <2>4
<1>12. QED
  BY <1>2, <1>7, <1>8, <1>9, <1>10, <1>11

(* A frame whose blocks begin at `at`: it fits what is left of the estimate, and so does *)
(* every call it may still make.                                                         *)
WsFits(f, at, capacity) ==
  /\ f \in WsFrames
  /\ f.block = 0 => at + StorageSize(f.level, LongSize(f)) <= capacity
  /\ f.block # 0 =>
       /\ at + f.block <= capacity
       /\ \A c \in ChildSizes(f) :
            /\ c \in (Nat \ {0}) \X (Nat \ {0})
            /\ at + f.block + StorageSize(f.level, LargerOf(c[1], c[2])) <= capacity

WsStackWell(fr, d, at, capacity) ==
  /\ fr = [i \in 1 .. d |-> fr[i]] /\ at \in [1 .. d -> Nat] /\ at[1] = 0
  /\ \A i \in 1 .. d : WsFits(fr[i], at[i], capacity)
  /\ \A i \in 1 .. d - 1 : fr[i].block # 0 /\ at[i + 1] = at[i] + fr[i].block

WsRunWell(x, d, at) ==
  /\ {"frames", "offset", "square", "capacity"} \subseteq DOMAIN x
  /\ x.square \in BOOLEAN /\ x.capacity \in Nat
  /\ WsStackWell(x.frames, d, at, x.capacity)
  /\ x.offset = at[d] + x.frames[d].block

WsWell(x) == x = WsIdle \/ \E d \in Nat \ {0} : \E at : WsRunWell(x, d, at)

LEMMA StorageSizeType ==
  ASSUME NEW level \in 1 .. 5, NEW s \in Nat
  PROVE  /\ StorageSize(level, s) \in Nat
         /\ \A t \in Nat : t <= s => StorageSize(level, t) <= StorageSize(level, s)
         /\ level > 1 => StorageSize(level - 1, s) <= StorageSize(level, s)
<1>1. CASE level <= 2
  BY <1>1 DEF StorageSize
<1>2. CASE ~(level <= 2)
  <2>1. StorageSize(level, s) = 6 * s /\ \A t \in Nat : StorageSize(level, t) = 6 * t
    BY <1>2 DEF StorageSize
  <2>2. StorageSize(level - 1, s) = 5 * s \/ StorageSize(level - 1, s) = 6 * s
    BY DEF StorageSize
  <2>3. QED
    BY <2>1, <2>2
<1>3. QED
  BY <1>1, <1>2

(* The frame that runs. *)
LEMMA WsTop ==
  ASSUME NEW d \in Nat \ {0}, NEW at, WsRunWell(ws, d, at)
  PROVE  /\ Frames = ws.frames /\ Len(Frames) = d /\ Frames # <<>> /\ Current = ws.frames[d]
         /\ WsFits(Current, at[d], ws.capacity) /\ at[d] \in Nat
         /\ ws.offset = at[d] + Current.block
         /\ ws.frames = [i \in 1 .. d |-> ws.frames[i]]
<1>1. PICK fr : fr = ws.frames
  OBVIOUS
<1>2. fr = [i \in 1 .. d |-> fr[i]] /\ at \in [1 .. d -> Nat]
      /\ (\A i \in 1 .. d : WsFits(fr[i], at[i], ws.capacity))
      /\ ws.offset = at[d] + fr[d].block
  BY <1>1 DEF WsRunWell, WsStackWell
<1>3. d \in 1 .. d
  OBVIOUS
<1>4. Len(fr) = d /\ fr # <<>>
  BY <1>2
<1>5. Frames = fr /\ Current = fr[d]
  BY <1>1, <1>4 DEF Frames, Current
<1>6. QED
  BY <1>1, <1>2, <1>3, <1>4, <1>5

(* The frame that runs becomes g, one is called, and the one that runs goes. *)
LEMMA WsBecomes ==
  ASSUME NEW d \in Nat \ {0}, NEW at, WsRunWell(ws, d, at), NEW g,
         WsFits(g, at[d], ws.capacity),
         {"frames", "offset", "square", "capacity"} \subseteq DOMAIN ws',
         ws'.square = ws.square, ws'.capacity = ws.capacity,
         ws'.frames = [ws.frames EXCEPT ![d] = g], ws'.offset = at[d] + g.block
  PROVE  WsWell(ws')
<1>1. PICK fr, gr : fr = ws.frames /\ gr = ws'.frames
  OBVIOUS
<1>2. WsStackWell(fr, d, at, ws.capacity) /\ ws.square \in BOOLEAN /\ ws.capacity \in Nat
  BY <1>1 DEF WsRunWell
<1>3. fr = [i \in 1 .. d |-> fr[i]] /\ d \in 1 .. d
  BY <1>2 DEF WsStackWell
<1>4. /\ gr = [i \in 1 .. d |-> gr[i]] /\ gr[d] = g
      /\ \A i \in 1 .. d - 1 : gr[i] = fr[i] /\ i \in 1 .. d /\ i # d
  <2>1. gr = [fr EXCEPT ![d] = g] /\ DOMAIN fr = 1 .. d
    BY <1>1, <1>3
  <2>2. gr = [i \in 1 .. d |-> IF i = d THEN g ELSE fr[i]]
    BY <2>1
  <2>3. \A i \in 1 .. d - 1 : i \in 1 .. d /\ i # d
    OBVIOUS
  <2>4. gr = [i \in 1 .. d |-> gr[i]]
    BY <2>2
  <2>5. gr[d] = g /\ \A i \in 1 .. d - 1 : gr[i] = fr[i]
    BY <1>3, <2>2, <2>3
  <2>6. QED
    BY <2>3, <2>4, <2>5
<1>5. \A i \in 1 .. d : WsFits(gr[i], at[i], ws.capacity)
  <2> TAKE i \in 1 .. d
  <2>1. CASE i = d
    BY <1>4, <2>1
  <2>2. CASE i # d
    <3>1. i \in 1 .. d - 1
      BY <2>2
    <3>2. QED
      BY <1>2, <1>4, <3>1 DEF WsStackWell
  <2>3. QED
    BY <2>1, <2>2
<1>6. WsStackWell(gr, d, at, ws.capacity)
  <2>1. at \in [1 .. d -> Nat] /\ at[1] = 0
    BY <1>2 DEF WsStackWell
  <2>2. \A i \in 1 .. d - 1 : gr[i].block # 0 /\ at[i + 1] = at[i] + gr[i].block
    BY <1>2, <1>4 DEF WsStackWell
  <2>3. QED
    BY <1>4, <1>5, <2>1, <2>2 DEF WsStackWell
<1>7. WsRunWell(ws', d, at)
  BY <1>1, <1>2, <1>4, <1>6 DEF WsRunWell
<1>8. QED
  BY <1>7 DEF WsWell

LEMMA WsCalls ==
  ASSUME NEW d \in Nat \ {0}, NEW at, WsRunWell(ws, d, at), NEW g,
         WsFits(g, ws.offset, ws.capacity), g.block = 0, ws.frames[d].block # 0,
         {"frames", "offset", "square", "capacity"} \subseteq DOMAIN ws',
         ws'.square = ws.square, ws'.capacity = ws.capacity, ws'.offset = ws.offset,
         ws'.frames = Append(ws.frames, g)
  PROVE  WsWell(ws')
<1>1. PICK fr, gr, e, bt :
        /\ fr = ws.frames /\ gr = ws'.frames /\ e = d + 1
        /\ bt = [i \in 1 .. d + 1 |-> IF i = d + 1 THEN ws.offset ELSE at[i]]
  OBVIOUS
<1>2. WsStackWell(fr, d, at, ws.capacity) /\ ws.square \in BOOLEAN /\ ws.capacity \in Nat
      /\ ws.offset = at[d] + fr[d].block
  BY <1>1 DEF WsRunWell
<1>3. fr = [i \in 1 .. d |-> fr[i]] /\ d \in 1 .. d /\ at \in [1 .. d -> Nat] /\ at[1] = 0
      /\ WsFits(fr[d], at[d], ws.capacity)
  BY <1>2 DEF WsStackWell
<1>4. e \in Nat \ {0} /\ e - 1 = d /\ e # 1
  BY <1>1
<1>5. gr = [i \in 1 .. e |-> gr[i]] /\ gr[e] = g /\ \A i \in 1 .. d : gr[i] = fr[i]
  BY <1>1, <1>3, AppendIs
<1>6. ws.offset \in Nat
  BY <1>2, <1>3 DEF WsFits, WsFrames
<1>7. /\ bt \in [1 .. e -> Nat] /\ bt[1] = 0 /\ bt[e] = ws.offset
      /\ \A i \in 1 .. d : bt[i] = at[i]
  BY <1>1, <1>3, <1>4, <1>6
<1>8. \A i \in 1 .. e : WsFits(gr[i], bt[i], ws.capacity)
  <2> TAKE i \in 1 .. e
  <2>1. CASE i = e
    BY <1>5, <1>7, <2>1
  <2>2. CASE i # e
    <3>1. i \in 1 .. d
      BY <1>4, <2>2
    <3>2. QED
      BY <1>2, <1>5, <1>7, <3>1 DEF WsStackWell
  <2>3. QED
    BY <2>1, <2>2
<1>9. \A i \in 1 .. e - 1 : gr[i].block # 0 /\ bt[i + 1] = bt[i] + gr[i].block
  <2> TAKE i \in 1 .. e - 1
  <2>1. i \in 1 .. d /\ gr[i] = fr[i] /\ bt[i] = at[i]
    BY <1>4, <1>5, <1>7
  <2>2. CASE i = d
    BY <1>1, <1>2, <1>7, <2>1, <2>2
  <2>3. CASE i # d
    <3>1. i \in 1 .. d - 1 /\ i + 1 \in 1 .. d
      BY <2>1, <2>3
    <3>2. fr[i].block # 0 /\ at[i + 1] = at[i] + fr[i].block
      BY <1>2, <3>1 DEF WsStackWell
    <3>3. QED
      BY <1>7, <2>1, <3>1, <3>2
  <2>4. QED
    BY <2>2, <2>3
<1>10. WsStackWell(gr, e, bt, ws.capacity)
  BY <1>5, <1>7, <1>8, <1>9 DEF WsStackWell
<1>11. ws'.offset = bt[e] + gr[e].block
  BY <1>5, <1>6, <1>7
<1>12. WsRunWell(ws', e, bt)
  BY <1>1, <1>2, <1>10, <1>11 DEF WsRunWell
<1>13. QED
  BY <1>4, <1>12 DEF WsWell

LEMMA WsReturns ==
  ASSUME NEW d \in Nat \ {0}, d # 1, NEW at, WsRunWell(ws, d, at),
         {"frames", "offset", "square", "capacity"} \subseteq DOMAIN ws',
         ws'.square = ws.square, ws'.capacity = ws.capacity, ws'.offset = at[d],
         ws'.frames = SubSeq(ws.frames, 1, d - 1)
  PROVE  WsWell(ws')
<1>1. PICK fr, gr, e, bt :
        /\ fr = ws.frames /\ gr = ws'.frames /\ e = d - 1
        /\ bt = [i \in 1 .. d - 1 |-> at[i]]
  OBVIOUS
<1>2. WsStackWell(fr, d, at, ws.capacity) /\ ws.square \in BOOLEAN /\ ws.capacity \in Nat
  BY <1>1 DEF WsRunWell
<1>3. fr = [i \in 1 .. d |-> fr[i]] /\ at \in [1 .. d -> Nat] /\ at[1] = 0
  BY <1>2 DEF WsStackWell
<1>4. e \in Nat \ {0} /\ e + 1 = d /\ e = d - 1 /\ \A i \in 1 .. e : i \in 1 .. d
  BY <1>1
<1>5. gr = [i \in 1 .. e |-> gr[i]] /\ \A i \in 1 .. e : gr[i] = fr[i]
  <2>1. gr = [i \in 1 .. d - 1 |-> fr[i]]
    BY <1>1, <1>3, FramesBut
  <2>2. QED
    BY <1>4, <2>1
<1>6. bt \in [1 .. e -> Nat] /\ bt[1] = 0 /\ \A i \in 1 .. e : bt[i] = at[i]
  BY <1>1, <1>3, <1>4
<1>7. \A i \in 1 .. e : WsFits(gr[i], bt[i], ws.capacity)
  BY <1>2, <1>4, <1>5, <1>6 DEF WsStackWell
<1>8. \A i \in 1 .. e - 1 : gr[i].block # 0 /\ bt[i + 1] = bt[i] + gr[i].block
  <2> TAKE i \in 1 .. e - 1
  <2>1. i \in 1 .. e /\ i + 1 \in 1 .. e /\ i \in 1 .. d - 1
    BY <1>4
  <2>2. fr[i].block # 0 /\ at[i + 1] = at[i] + fr[i].block
    BY <1>2, <2>1 DEF WsStackWell
  <2>3. QED
    BY <1>5, <1>6, <2>1, <2>2
<1>9. WsStackWell(gr, e, bt, ws.capacity)
  BY <1>5, <1>6, <1>7, <1>8 DEF WsStackWell
<1>10. ws'.offset = bt[e] + gr[e].block
  <2>1. e \in 1 .. d - 1 /\ e \in 1 .. e
    BY <1>4
  <2>2. at[e + 1] = at[e] + fr[e].block
    BY <1>2, <2>1 DEF WsStackWell
  <2>3. QED
    BY <1>4, <1>5, <1>6, <2>1, <2>2
<1>11. WsRunWell(ws', e, bt)
  BY <1>1, <1>2, <1>9, <1>10 DEF WsRunWell
<1>12. QED
  BY <1>4, <1>11 DEF WsWell

LEMMA WsFallBackWell ==
  ASSUME NEW d \in Nat \ {0}, NEW at, WsRunWell(ws, d, at), WsFallBack
  PROVE  WsWell(ws')
<1>1. PICK f, n : f = Current /\ n = at[d]
  OBVIOUS
<1>2. /\ Len(Frames) = d /\ f = ws.frames[d] /\ WsFits(f, n, ws.capacity) /\ n \in Nat
      /\ ws.offset = n + f.block /\ ws.frames = [i \in 1 .. d |-> ws.frames[i]]
  BY <1>1, WsTop
<1>3. f.block = 0 /\ f \in WsFrames /\ ws.offset = n
      /\ {"frames", "offset", "square", "capacity"} \subseteq DOMAIN ws /\ ws.capacity \in Nat
  BY <1>1, <1>2 DEF WsFallBack, Fresh, WsFits, WsRunWell
<1>4. CASE f.level > 1
  <2>1. ws' = [ws EXCEPT !.frames[d].level = @ - 1]
    BY <1>1, <1>2, <1>4, Zenon DEF WsFallBack
  <2>2. PICK g : g = [f EXCEPT !.level = f.level - 1]
    OBVIOUS
  <2>3. ws'.frames = [ws.frames EXCEPT ![d] = g]
    BY <1>2, <1>3, <2>1, <2>2
  <2>4. /\ {"frames", "offset", "square", "capacity"} \subseteq DOMAIN ws'
        /\ ws'.square = ws.square /\ ws'.capacity = ws.capacity /\ ws'.offset = n
    BY <1>3, <2>1
  <2>5. g \in WsFrames /\ g.block = 0 /\ g.level = f.level - 1 /\ g.a = f.a /\ g.b = f.b
    BY <1>3, <1>4, <2>2 DEF WsFrames
  <2>6. WsFits(g, n, ws.capacity)
    <3>1. n + StorageSize(f.level, LongSize(f)) <= ws.capacity
      BY <1>2, <1>3 DEF WsFits
    <3>2. LongSize(g) = LongSize(f)
      BY <2>5 DEF LongSize
    <3>3. PICK s \in Nat : s = LongSize(f)
      BY <1>3, WsSizes
    <3>4. f.level \in 1 .. 5 /\ g.level \in 1 .. 5
      BY <1>3, <2>5, WsSizes
    <3>5. /\ StorageSize(f.level, s) \in Nat /\ StorageSize(g.level, s) \in Nat
          /\ StorageSize(g.level, s) <= StorageSize(f.level, s)
      <4>1. StorageSize(f.level, s) \in Nat
            /\ StorageSize(f.level - 1, s) <= StorageSize(f.level, s)
        BY <1>4, <3>4, StorageSizeType
      <4>2. StorageSize(g.level, s) \in Nat
        BY <3>4, StorageSizeType
      <4>3. QED
        BY <2>5, <4>1, <4>2
    <3>6. n + StorageSize(g.level, LongSize(g)) <= ws.capacity
      BY <1>2, <1>3, <3>1, <3>2, <3>3, <3>5
    <3>7. QED
      BY <2>5, <3>6 DEF WsFits
  <2>7. ws'.offset = n + g.block
    BY <1>2, <2>4, <2>5
  <2>8. WsFits(g, at[d], ws.capacity) /\ ws'.offset = at[d] + g.block
    BY <1>1, <2>6, <2>7
  <2>9. QED
    BY <2>3, <2>4, <2>8, WsBecomes
<1>5. CASE ~(f.level > 1)
  <2>1. ws' = IF d = 1 THEN WsIdle ELSE [ws EXCEPT !.frames = SubSeq(@, 1, d - 1)]
    BY <1>1, <1>2, <1>5, Zenon DEF WsFallBack, Frames
  <2>2. CASE d = 1
    BY <2>1, <2>2 DEF WsWell
  <2>3. CASE d # 1
    <3>1. /\ {"frames", "offset", "square", "capacity"} \subseteq DOMAIN ws'
          /\ ws'.square = ws.square /\ ws'.capacity = ws.capacity /\ ws'.offset = n
          /\ ws'.frames = SubSeq(ws.frames, 1, d - 1)
      BY <1>3, <2>1, <2>3
    <3>2. QED
      BY <1>1, <2>3, <3>1, WsReturns
  <2>4. QED
    BY <2>2, <2>3
<1>6. QED
  BY <1>4, <1>5

LEMMA WsAllocateWell ==
  ASSUME NEW d \in Nat \ {0}, NEW at, WsRunWell(ws, d, at), WsAllocate
  PROVE  WsWell(ws')
<1>1. PICK f, n : f = Current /\ n = at[d]
  OBVIOUS
<1>2. /\ Len(Frames) = d /\ f = ws.frames[d] /\ WsFits(f, n, ws.capacity) /\ n \in Nat
      /\ ws.offset = n + f.block /\ ws.frames = [i \in 1 .. d |-> ws.frames[i]]
  BY <1>1, WsTop
<1>3. f.block = 0 /\ f \in WsFrames /\ ws.offset = n /\ ~Gated(f) /\ ws.square \in BOOLEAN
      /\ {"frames", "offset", "square", "capacity"} \subseteq DOMAIN ws /\ ws.capacity \in Nat
  BY <1>1, <1>2 DEF WsAllocate, Fresh, WsFits, WsRunWell
<1>4. ws' = [ws EXCEPT !.frames[d].block = BlockLimbs(f), !.offset = @ + BlockLimbs(f)]
  BY <1>1, <1>2, Zenon DEF WsAllocate
<1>5. PICK z \in Nat \ {0} : z = BlockLimbs(f)
  BY <1>3, BlockFits
<1>6. PICK g : g = [f EXCEPT !.block = z]
  OBVIOUS
<1>7. /\ g \in WsFrames /\ g.block = z /\ g.level = f.level /\ g.a = f.a /\ g.b = f.b
  BY <1>3, <1>5, <1>6 DEF WsFrames
<1>8. /\ {"frames", "offset", "square", "capacity"} \subseteq DOMAIN ws'
      /\ ws'.square = ws.square /\ ws'.capacity = ws.capacity /\ ws'.offset = n + g.block
  BY <1>3, <1>4, <1>5, <1>7
<1>9. ws'.frames = [ws.frames EXCEPT ![d] = g]
  BY <1>2, <1>3, <1>4, <1>5, <1>6
<1>10. ChildSizes(g) = ChildSizes(f)
  <2>1. ShortSize(g) = ShortSize(f) /\ LongSize(g) = LongSize(f)
    BY <1>7 DEF ShortSize, LongSize
  <2>2. PieceLimbs(g) = PieceLimbs(f)
    BY <1>7, <2>1 DEF PieceLimbs
  <2>3. QED
    BY <1>7, <2>1, <2>2, Zenon DEF ChildSizes
<1>11. PICK k \in Nat, l \in Nat : k = PieceLimbs(f) + 1 /\ l = LongSize(f)
  BY <1>3, PieceLimbsAre
<1>12. PICK p \in Nat, q \in Nat :
         /\ p = StorageSize(f.level, k) /\ q = StorageSize(f.level, l)
         /\ z + p <= q /\ n + q <= ws.capacity
  <2>1. f.level \in 1 .. 5
    BY <1>3, WsSizes
  <2>2. StorageSize(f.level, k) \in Nat /\ StorageSize(f.level, l) \in Nat
    BY <2>1, StorageSizeType
  <2>3. z + StorageSize(f.level, k) <= StorageSize(f.level, l)
    BY <1>3, <1>5, <1>11, BlockFits
  <2>4. n + StorageSize(f.level, l) <= ws.capacity
    BY <1>2, <1>3, <1>11 DEF WsFits
  <2>5. QED
    BY <2>2, <2>3, <2>4
<1>13. n + z + p <= ws.capacity
  BY <1>2, <1>3, <1>12
<1>14. ASSUME NEW c \in ChildSizes(f)
       PROVE  /\ c \in (Nat \ {0}) \X (Nat \ {0})
              /\ n + z + StorageSize(f.level, LargerOf(c[1], c[2])) <= ws.capacity
  <2>1. c \in (Nat \ {0}) \X (Nat \ {0}) /\ c[1] <= k /\ c[2] <= k
    BY <1>3, <1>11, <1>14, ChildrenAre
  <2>2. LargerOf(c[1], c[2]) \in Nat /\ LargerOf(c[1], c[2]) <= k
    BY <2>1 DEF LargerOf
  <2>3. f.level \in 1 .. 5
    BY <1>3, WsSizes
  <2>4. PICK t \in Nat : t = StorageSize(f.level, LargerOf(c[1], c[2])) /\ t <= p
    BY <1>12, <2>2, <2>3, StorageSizeType
  <2>5. n + z + t <= ws.capacity
    BY <1>2, <1>3, <1>12, <2>4
  <2>6. QED
    BY <2>1, <2>4, <2>5
<1>15. WsFits(g, n, ws.capacity)
  <2>1. n + g.block <= ws.capacity
    BY <1>2, <1>3, <1>7, <1>12
  <2>2. g.block # 0
    BY <1>7
  <2>3. QED
    BY <1>7, <1>10, <1>14, <2>1, <2>2 DEF WsFits
<1>16. QED
  BY <1>1, <1>8, <1>9, <1>15, WsBecomes

LEMMA WsCallWell ==
  ASSUME NEW d \in Nat \ {0}, NEW at, WsRunWell(ws, d, at), WsCall
  PROVE  WsWell(ws')
<1>1. PICK f, n : f = Current /\ n = at[d]
  OBVIOUS
<1>2. /\ Len(Frames) = d /\ f = ws.frames[d] /\ WsFits(f, n, ws.capacity) /\ n \in Nat
      /\ ws.offset = n + f.block
  BY <1>1, WsTop
<1>3. f.block # 0 /\ f \in WsFrames /\ f.block \in Nat /\ f.level \in 1 .. 5
      /\ {"frames", "offset", "square", "capacity"} \subseteq DOMAIN ws /\ ws.capacity \in Nat
  <2>1. f \in WsFrames /\ f.block > 0
    BY <1>1, <1>2 DEF WsCall, WsFits
  <2>2. f.block \in Nat /\ f.level \in 1 .. 5
    BY <2>1 DEF WsFrames
  <2>3. {"frames", "offset", "square", "capacity"} \subseteq DOMAIN ws /\ ws.capacity \in Nat
    BY DEF WsRunWell
  <2>4. QED
    BY <2>1, <2>2, <2>3
<1>4. PICK c \in ChildSizes(f) : \E a :
        /\ a = c[1] \/ a = DividedRoundingUp(c[1], 2)
        /\ ws' = [ws EXCEPT !.frames = Append(@, [level |-> f.level, a |-> a, b |-> c[2],
                                                  block |-> 0])]
           \/ ws' = [ws EXCEPT !.trims = FALSE,
                               !.frames = Append(@, [level |-> f.level, a |-> a, b |-> c[2],
                                                     block |-> 0])]
  BY <1>1 DEF WsCall
<1>5. PICK a, g :
        /\ a = c[1] \/ a = DividedRoundingUp(c[1], 2)
        /\ g = [level |-> f.level, a |-> a, b |-> c[2], block |-> 0]
        /\ \/ ws' = [ws EXCEPT !.frames = Append(@, g)]
           \/ ws' = [ws EXCEPT !.trims = FALSE, !.frames = Append(@, g)]
  BY <1>4
<1>6. /\ {"frames", "offset", "square", "capacity"} \subseteq DOMAIN ws'
      /\ ws'.square = ws.square /\ ws'.capacity = ws.capacity /\ ws'.offset = ws.offset
      /\ ws'.frames = Append(ws.frames, g)
  <2>1. CASE ws' = [ws EXCEPT !.frames = Append(@, g)]
    BY <1>3, <2>1
  <2>2. CASE ws' = [ws EXCEPT !.trims = FALSE, !.frames = Append(@, g)]
    BY <1>3, <2>2
  <2>3. QED
    BY <1>5, <2>1, <2>2
<1>7. PICK x \in Nat \ {0}, y \in Nat \ {0}, u \in Nat \ {0} :
        x = c[1] /\ y = c[2] /\ u = a /\ u <= x
  <2>1. c \in (Nat \ {0}) \X (Nat \ {0})
    BY <1>2, <1>3, <1>4 DEF WsFits
  <2>2. PICK x \in Nat \ {0}, y \in Nat \ {0} : x = c[1] /\ y = c[2]
    BY <2>1
  <2>3. DividedRoundingUp(x, 2) = (x + 1) \div 2
    BY DEF DividedRoundingUp
  <2>4. (x + 1) \div 2 \in Nat \ {0} /\ (x + 1) \div 2 <= x
    OBVIOUS
  <2>5. a \in Nat \ {0} /\ a <= x
    BY <1>5, <2>2, <2>3, <2>4
  <2>6. QED
    BY <2>2, <2>5
<1>8. g \in WsFrames /\ g.block = 0 /\ g.level = f.level /\ g.a = u /\ g.b = y
  BY <1>3, <1>5, <1>7 DEF WsFrames
<1>9. PICK s \in Nat, t \in Nat : s = LargerOf(x, y) /\ t = LongSize(g) /\ t <= s
  BY <1>7, <1>8 DEF LargerOf, LongSize
<1>10. PICK p \in Nat, q \in Nat : /\ p = StorageSize(f.level, s) /\ q = StorageSize(f.level, t)
                                   /\ q <= p
  <2>1. f.level \in 1 .. 5
    BY <1>3
  <2>2. /\ StorageSize(f.level, s) \in Nat /\ StorageSize(f.level, t) \in Nat
        /\ StorageSize(f.level, t) <= StorageSize(f.level, s)
    BY <1>9, <2>1, StorageSizeType
  <2>3. QED
    BY <2>2
<1>11. n + f.block + p <= ws.capacity
  BY <1>2, <1>3, <1>4, <1>7, <1>9, <1>10 DEF WsFits
<1>12. ws.offset + StorageSize(g.level, LongSize(g)) <= ws.capacity
  <2>1. n + f.block + q <= ws.capacity
    BY <1>2, <1>3, <1>10, <1>11
  <2>2. QED
    BY <1>2, <1>8, <1>9, <1>10, <2>1
<1>13. WsFits(g, ws.offset, ws.capacity)
  BY <1>8, <1>12 DEF WsFits
<1>14. ws.frames[d].block # 0 /\ g.block = 0
  BY <1>2, <1>3, <1>8
<1>15. QED
  BY <1>6, <1>13, <1>14, WsCalls

LEMMA WsDeallocateWell ==
  ASSUME NEW d \in Nat \ {0}, NEW at, WsRunWell(ws, d, at), WsDeallocate
  PROVE  WsWell(ws')
<1>1. /\ Len(Frames) = d /\ Frames = ws.frames /\ WsFits(Current, at[d], ws.capacity)
      /\ at[d] \in Nat /\ ws.offset = at[d] + Current.block
  BY WsTop
<1>2. PICK z : z = Current.block
  OBVIOUS
<1>3. ws' = IF d = 1 THEN WsIdle
            ELSE [ws EXCEPT !.offset = @ - z, !.frames = SubSeq(@, 1, d - 1)]
  BY <1>1, <1>2, Zenon DEF WsDeallocate
<1>4. CASE d = 1
  BY <1>3, <1>4 DEF WsWell
<1>5. CASE d # 1
  <2>1. z \in Nat /\ {"frames", "offset", "square", "capacity"} \subseteq DOMAIN ws
    BY <1>1, <1>2 DEF WsFits, WsFrames, WsRunWell
  <2>2. ws.offset - z = at[d]
    BY <1>1, <1>2, <2>1
  <2>3. /\ {"frames", "offset", "square", "capacity"} \subseteq DOMAIN ws'
        /\ ws'.square = ws.square /\ ws'.capacity = ws.capacity /\ ws'.offset = ws.offset - z
        /\ ws'.frames = SubSeq(ws.frames, 1, d - 1)
    BY <1>3, <1>5, <2>1
  <2>4. ws'.offset = at[d]
    BY <2>2, <2>3
  <2>5. QED
    BY <1>5, <2>3, <2>4, WsReturns
<1>6. QED
  BY <1>4, <1>5

LEMMA LadderKernelType ==
  ASSUME NEW min, NEW square
  PROVE  LadderKernel(min, square) \in 1 .. 5
<1>1. Len(WsKernels) = 5
  BY DEF WsKernels
<1>2. PICK R : R = {i \in 2 .. 5 : CutoffsOf(square)[WsKernels[i]] <= min}
  OBVIOUS
<1>3. \E i \in R \cup {1} : \A j \in R : j <= i
  <2>1. R \subseteq 2 .. 5
    BY <1>2
  <2>2. \A i \in R : i = 2 \/ i = 3 \/ i = 4 \/ i = 5
    BY <2>1
  <2>3. CASE 5 \in R
    BY <2>2, <2>3
  <2>4. CASE 5 \notin R /\ 4 \in R
    BY <2>2, <2>4
  <2>5. CASE 5 \notin R /\ 4 \notin R /\ 3 \in R
    BY <2>2, <2>5
  <2>6. CASE 5 \notin R /\ 4 \notin R /\ 3 \notin R
    BY <2>2, <2>6
  <2>7. QED
    BY <2>3, <2>4, <2>5, <2>6
<1>4. LadderKernel(min, square) = CHOOSE i \in R \cup {1} : \A j \in R : j <= i
  BY <1>1, <1>2, Zenon DEF LadderKernel
<1>5. LadderKernel(min, square) \in R \cup {1}
  BY <1>3, <1>4, Zenon
<1>6. R \cup {1} \subseteq 1 .. 5
  BY <1>2
<1>7. QED
  BY <1>5, <1>6

LEMMA WsEnterWell ==
  ASSUME WsEnter
  PROVE  WsWell(ws')
<1>1. PICK sizes \in WsProducts, square \in BOOLEAN :
        ws' = [frames |-> <<[level |-> LadderKernel(sizes[1], square),
                             a |-> sizes[1], b |-> sizes[2], block |-> 0]>>,
               offset |-> 0, square |-> square, trims |-> sizes \in WsTrimmed,
               capacity |-> Capacity(sizes[1], sizes[2], square)]
  BY DEF WsEnter
<1>2. PICK a \in Nat \ {0}, b \in Nat \ {0} : a = sizes[1] /\ b = sizes[2] /\ a <= b
  <2>1. sizes \in (Nat \ {0}) \X (Nat \ {0}) /\ sizes[1] <= sizes[2]
    BY WsAssumption
  <2>2. QED
    BY <2>1
<1>3. PICK level \in 1 .. 5 : level = LadderKernel(a, square)
  BY LadderKernelType
<1>4. PICK p \in Nat : p = StorageSize(level, b)
  BY StorageSizeType
<1>5. PICK capacity \in Nat : capacity = Capacity(a, b, square) /\ p <= capacity
  <2>1. Capacity(a, b, square) = IF ~square /\ level = 1 /\ p <= WsStack THEN WsStack ELSE p
    BY <1>3, <1>4, Zenon DEF Capacity
  <2>2. WsStack \in Nat
    BY WsAssumption
  <2>3. QED
    BY <2>1, <2>2
<1>6. PICK g : g = [level |-> level, a |-> a, b |-> b, block |-> 0]
  OBVIOUS
<1>7. /\ {"frames", "offset", "square", "capacity"} \subseteq DOMAIN ws'
      /\ ws'.frames = <<g>> /\ ws'.offset = 0 /\ ws'.square = square /\ ws'.capacity = capacity
  BY <1>1, <1>2, <1>3, <1>5, <1>6
<1>8. g \in WsFrames /\ g.block = 0 /\ g.level = level /\ g.a = a /\ g.b = b
  BY <1>6 DEF WsFrames
<1>9. WsFits(g, 0, capacity)
  <2>1. LongSize(g) = b
    BY <1>2, <1>8 DEF LongSize
  <2>2. 0 + StorageSize(g.level, LongSize(g)) <= capacity
    BY <1>4, <1>5, <1>8, <2>1
  <2>3. QED
    BY <1>8, <2>2 DEF WsFits
<1>10. PICK fr, at : fr = <<g>> /\ at = [i \in 1 .. 1 |-> 0]
  OBVIOUS
<1>11. /\ fr = [i \in 1 .. 1 |-> fr[i]] /\ fr[1] = g /\ at \in [1 .. 1 -> Nat] /\ at[1] = 0
       /\ \A i \in 1 .. 1 : i = 1
  BY <1>10
<1>12. WsStackWell(fr, 1, at, capacity)
  <2>1. \A i \in 1 .. 1 : WsFits(fr[i], at[i], capacity)
    BY <1>9, <1>11
  <2>2. \A i \in 1 .. 1 - 1 : fr[i].block # 0 /\ at[i + 1] = at[i] + fr[i].block
    OBVIOUS
  <2>3. QED
    BY <1>11, <2>1, <2>2 DEF WsStackWell
<1>13. WsRunWell(ws', 1, at)
  <2>1. ws'.frames = fr /\ ws'.offset = at[1] + fr[1].block
    BY <1>7, <1>8, <1>10, <1>11
  <2>2. QED
    BY <1>7, <1>12, <2>1 DEF WsRunWell
<1>14. 1 \in Nat \ {0}
  OBVIOUS
<1>15. QED
  BY <1>13, <1>14 DEF WsWell

(* However the kernels recurse, across the gates at which they hand over to one another and *)
(* with operands that trim on the way, scratch_allocator never runs out of the limbs that   *)
(* the *_storage_size formulas gave it: for products of all sizes and all cutoffs that are  *)
(* high enough.                                                                             *)
THEOREM WorkspaceSuffices == Spec => []WorkspaceFits
<1>1. Init => WsWell(ws)
  BY DEF Init, WsInit, WsWell
<1>2. WsWell(ws) /\ [Next]_vars => WsWell(ws)'
  <2> SUFFICES ASSUME WsWell(ws), [Next]_vars PROVE WsWell(ws')
    BY DEF WsWell, WsRunWell
  <2>1. CASE WsEnter
    BY <2>1, WsEnterWell
  <2>2. CASE WsStep
    <3>1. ws.frames # <<>>
      BY <2>2 DEF WsStep, WsFallBack, WsAllocate, WsCall, WsDeallocate, Fresh, Frames
    <3>2. ws # WsIdle
      BY <3>1 DEF WsIdle
    <3>3. PICK d \in Nat \ {0} : \E at : WsRunWell(ws, d, at)
      BY <3>2 DEF WsWell
    <3>4. QED
      BY <2>2, <3>3, WsFallBackWell, WsAllocateWell, WsCallWell, WsDeallocateWell DEF WsStep
  <2>3. CASE UNCHANGED ws
    BY <2>3, Zenon
  <2>4. QED
    BY <2>1, <2>2, <2>3 DEF Next, Enter, KaraRuns, DispRuns, WrapRuns, ToomRuns, WsRuns, vars
<1>3. WsWell(ws) => WorkspaceFits
  <2> SUFFICES ASSUME WsWell(ws), Frames # <<>> PROVE ws.offset <= ws.capacity
    BY DEF WorkspaceFits
  <2>1. ws # WsIdle
    BY DEF WsIdle, Frames
  <2>2. PICK d \in Nat \ {0} : \E at : WsRunWell(ws, d, at)
    BY <2>1 DEF WsWell
  <2>3. PICK at : WsRunWell(ws, d, at)
    BY <2>2
  <2>4. PICK f, n : f = Current /\ n = at[d]
    OBVIOUS
  <2>5. /\ WsFits(f, n, ws.capacity) /\ n \in Nat /\ ws.offset = n + f.block
    BY <2>3, <2>4, WsTop
  <2>6. f \in WsFrames /\ f.block \in Nat /\ ws.capacity \in Nat
    BY <2>3, <2>5 DEF WsFits, WsFrames, WsRunWell
  <2>7. CASE f.block = 0
    <3>1. f.level \in 1 .. 5 /\ LongSize(f) \in Nat
      BY <2>6, WsSizes
    <3>2. StorageSize(f.level, LongSize(f)) \in Nat
      BY <3>1, StorageSizeType
    <3>3. n + StorageSize(f.level, LongSize(f)) <= ws.capacity
      BY <2>5, <2>7 DEF WsFits
    <3>4. QED
      BY <2>5, <2>6, <2>7, <3>2, <3>3
  <2>8. CASE f.block # 0
    BY <2>5, <2>8 DEF WsFits
  <2>9. QED
    BY <2>7, <2>8
<1>4. QED
  BY <1>1, <1>2, <1>3, PTL DEF Spec

===============================================================================
