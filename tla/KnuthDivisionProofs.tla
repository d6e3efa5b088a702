------------------------- MODULE KnuthDivisionProofs -------------------------
(***************************************************************************)
(* Proofs about schoolbook division (KnuthDivision): that divide_unsigned  *)
(* is exact, and that divide_unsigned_approx is at most one off.           *)
(*                                                                         *)
(* Parts of arrays are numbers, so a digit works on a window W and takes a *)
(* part T of the divisor: it is exact when 0 <= W - q * T < T.  The 3/2    *)
(* estimate makes it so after at most one correction.  KnuthHolds balances *)
(* digits and what is left against the dividend; Approaching says how far  *)
(* the two may drift apart once limbs of the divisor are dropped.          *)
(***************************************************************************)

EXTENDS Division, LimbArithProofs

-----------------------------------------------------------------------------
(* The division steps of WideOps, for every width of a limb: the loop bit   *)
(* by bit, the reciprocals of one and two limbs, and the 3/2 division step  *)
(* that uses them.                                                         *)

(***************************************************************************)
(* The 3/2 step, as an inequality between integers.  b is the base, D the  *)
(* divisor with the limbs d1 and d0, v its reciprocal: (b + v) * D misses  *)
(* b ^ 3 by less than the divisor.  The step multiplies the top limb of    *)
(* the dividend by v and takes one more than the high limb q1 of the       *)
(* result for the quotient; r is what that leaves of the dividend.         *)
(***************************************************************************)

(* The residual, multiplied by the base, in terms of the small quantities. *)
LEMMA ResidualIdentity ==
  ASSUME NEW b \in Int, NEW D \in Int, NEW v \in Int, NEW k \in Int, (b + v) * D + k = b * b * b,
         NEW u2 \in Int, NEW u1 \in Int, NEW u0 \in Int, NEW q1 \in Int, NEW q0 \in Int,
         (b + v) * u2 + u1 = q1 * b + q0,
         NEW r \in Int, r = (u2 * b + u1) * b + u0 - (q1 + 1) * D
  PROVE  b * r = k * u2 + u1 * (b * b - D) + u0 * b + q0 * D - b * D
<1>1. (q1 * b) * D = ((b + v) * D) * u2 + u1 * D - q0 * D
  <2>1. q1 * b = (b + v) * u2 + u1 - q0
    OBVIOUS
  <2>2. ((b + v) * u2 + u1 - q0) * D = ((b + v) * D) * u2 + u1 * D - q0 * D
    OBVIOUS
  <2>3. QED
    BY <2>1, <2>2
<1>2. ((b + v) * D) * u2 = (b * b * b) * u2 - k * u2
  <2>1. (b + v) * D = b * b * b - k
    OBVIOUS
  <2>2. (b * b * b - k) * u2 = (b * b * b) * u2 - k * u2
    OBVIOUS
  <2>3. QED
    BY <2>1, <2>2
<1>3. b * r = (b * b * b) * u2 + (b * b) * u1 + b * u0 - (q1 * b) * D - b * D
  OBVIOUS
<1>4. QED
  BY <1>1, <1>2, <1>3

(* The estimate is one limb. *)
LEMMA EstimateFits ==
  ASSUME NEW b \in Nat \ {0}, NEW D \in Nat, NEW v \in Nat, NEW k \in Nat \ {0},
         (b + v) * D + k = b * b * b,
         NEW u2 \in Nat, NEW u1 \in Nat, u2 * b + u1 < D,
         NEW q1 \in Nat, NEW q0 \in Nat, (b + v) * u2 + u1 = q1 * b + q0
  PROVE  q1 < b
<1>1. (u2 * b + u1 + 1) * (b + v) <= D * (b + v)
  BY MulPos
<1>2. (u2 * b + u1 + 1) * (b + v) = b * ((b + v) * u2 + u1) + (b + v) + u1 * v
  OBVIOUS
<1>3. u1 * v \in Nat /\ b * (q1 * b + q0) = (q1 * b) * b + q0 * b /\ q0 * b \in Nat
  OBVIOUS
<1>4. (q1 * b) * b < (b * b) * b
  BY <1>1, <1>2, <1>3
<1>5. SUFFICES ASSUME b <= q1 PROVE FALSE
  OBVIOUS
<1>6. b * b <= q1 * b
  BY <1>5, MulPos
<1>7. (b * b) * b <= (q1 * b) * b
  BY <1>6, MulPos
<1>8. QED
  BY <1>4, <1>7

(* The residual is not below the divisor's negative, and a negative one, taken modulo the *)
(* square of the base, has a high limb of at least q0. *)
LEMMA ResidualLow ==
  ASSUME NEW b \in Nat \ {0}, NEW D \in Nat, D <= b * b, NEW k \in Nat,
         NEW u2 \in Nat, NEW u1 \in Nat, NEW u0 \in Nat, NEW q0 \in 0 .. b - 1, NEW r \in Int,
         b * r = k * u2 + u1 * (b * b - D) + u0 * b + q0 * D - b * D
  PROVE  -D <= r /\ q0 * b <= r + b * b
<1>1. k * u2 \in Nat /\ u1 * (b * b - D) \in Nat /\ u0 * b \in Nat
  OBVIOUS
<1>2. b * r >= q0 * D - b * D
  BY <1>1
<1>3. q0 * D \in Nat
  OBVIOUS
<1>4. -D <= r
  <2> SUFFICES ASSUME r <= -D - 1 PROVE FALSE
    OBVIOUS
  <2>1. r * b <= (-D - 1) * b
    BY MulPos
  <2>2. QED
    BY <1>2, <1>3, <2>1
<1>5. q0 * b <= r + b * b
  <2> SUFFICES ASSUME r + b * b <= q0 * b - 1 PROVE FALSE
    OBVIOUS
  <2>1. (r + b * b) * b <= (q0 * b - 1) * b
    BY MulPos
  <2>2. (b - q0) * (b * b - D) \in Nat
    OBVIOUS
  <2>3. (b - q0) * (b * b - D) = (b * b) * b - b * D - (q0 * b) * b + q0 * D
    OBVIOUS
  <2>4. (r + b * b) * b = b * r + (b * b) * b /\ (q0 * b - 1) * b = (q0 * b) * b - b
    OBVIOUS
  <2>5. QED
    BY <1>2, <2>1, <2>2, <2>3, <2>4
<1>6. QED
  BY <1>4, <1>5

(* An average is not above both of its parts. *)
LEMMA Average ==
  ASSUME NEW e \in Nat, NEW D \in Nat, NEW c \in Nat, NEW s \in Int, NEW r \in Int,
         s = e + D, s * r < e * e + c * D
  PROVE  r < e \/ r < c
<1> SUFFICES ASSUME e <= r, c <= r PROVE FALSE
  OBVIOUS
<1>1. e * e <= r * e /\ c * D <= r * D
  BY MulPos
<1>2. s * r = r * e + r * D
  OBVIOUS
<1>3. QED
  BY <1>1, <1>2

(* The bound on the residual, when the top limb of the dividend is below that of the *)
(* divisor, *)
LEMMA ResidualHigh ==
  ASSUME NEW b \in Nat \ {0}, NEW d1 \in Nat, NEW d0 \in Nat, NEW D \in Nat, D = d1 * b + d0,
         D <= b * b, NEW k \in Nat, k <= D,
         NEW u2 \in Nat, u2 < d1, NEW u1 \in 0 .. b - 1, NEW u0 \in 0 .. b - 1,
         NEW q0 \in Nat, NEW r \in Int,
         b * r = k * u2 + u1 * (b * b - D) + u0 * b + q0 * D - b * D
  PROVE  (b * b) * r < (b * b - D) * (b * b - D) + (q0 * b) * D
<1>1. k * u2 <= D * u2 /\ u2 * D <= (d1 - 1) * D
  BY MulPos
<1>2. u1 * (b * b - D) <= (b - 1) * (b * b - D) /\ u0 * b <= (b - 1) * b
  <2>1. b * b - D \in Nat
    OBVIOUS
  <2>2. QED
    BY <2>1, MulPos
<1>3. b * r <= (d1 - 1) * D + (b - 1) * (b * b - D) + (b - 1) * b + q0 * D - b * D
  BY <1>1, <1>2
<1>4. (b * r) * b <= ((d1 - 1) * D + (b - 1) * (b * b - D) + (b - 1) * b + q0 * D - b * D) * b
  BY <1>3, MulPos
<1>5. ((d1 - 1) * D + (b - 1) * (b * b - D) + (b - 1) * b + q0 * D - b * D) * b
        = (d1 * b) * D + (b * b) * (b * b) - 2 * ((b * b) * D) - b * b + (q0 * b) * D
  OBVIOUS
<1>6. (d1 * b) * D <= D * D
  <2>1. d1 * b \in Int /\ d1 * b <= D
    OBVIOUS
  <2>2. QED
    BY <2>1, MulPos
<1>7. (b * b - D) * (b * b - D) = (b * b) * (b * b) - 2 * ((b * b) * D) + D * D
  OBVIOUS
<1>8. (b * r) * b = (b * b) * r /\ b * b > 0
  OBVIOUS
<1>9. QED
  BY <1>4, <1>5, <1>6, <1>7, <1>8

(* and when it equals that of the divisor, which leaves room below the divisor, *)
LEMMA ResidualEqual ==
  ASSUME NEW b \in Nat \ {0}, NEW d1 \in Nat, NEW d0 \in 1 .. b - 1, NEW D \in Nat,
         D = d1 * b + d0, d1 <= b - 2, NEW k \in Nat, k <= D,
         NEW u1 \in Nat, u1 < d0, NEW u0 \in 0 .. b - 1,
         NEW q0 \in Nat, NEW r \in Int,
         b * r = k * d1 + u1 * (b * b - D) + u0 * b + q0 * D - b * D
  PROVE  (b * b) * r < (b * b - D) * (b * b - D) + (q0 * b) * D
<1>1. PICK e \in Int : e = b * b - D
  OBVIOUS
<1>2. b <= e
  <2>1. d1 * b <= (b - 2) * b
    BY MulPos
  <2>2. QED
    BY <1>1, <2>1
<1>3. k * d1 <= D * d1
  BY MulPos
<1>4. u1 * e <= (d0 - 1) * e /\ u0 * b <= (b - 1) * b
  BY <1>2, MulPos
<1>5. b * r <= D * d1 + (d0 - 1) * e + (b - 1) * b + q0 * D - b * D
  BY <1>1, <1>3, <1>4
<1>6. (b * r) * b <= (D * d1 + (d0 - 1) * e + (b - 1) * b + q0 * D - b * D) * b
  <2>1. b * r \in Int /\ D * d1 + (d0 - 1) * e + (b - 1) * b + q0 * D - b * D \in Int
    OBVIOUS
  <2>2. QED
    BY <1>5, <2>1, MulPos
<1>7. (D * d1 + (d0 - 1) * e + (b - 1) * b + q0 * D - b * D) * b
        = (d1 * b) * D + ((d0 - 1) * e) * b + (b - 1) * (b * b) + (q0 * b) * D - (b * b) * D
  OBVIOUS
<1>8. (d1 * b) * D = D * D - d0 * D
  <2>1. d1 * b = D - d0
    OBVIOUS
  <2>2. (D - d0) * D = D * D - d0 * D
    OBVIOUS
  <2>3. QED
    BY <2>1, <2>2
<1>9. D * D - (b * b) * D = e * e - (b * b) * e
  <2>1. D = b * b - e
    BY <1>1
  <2>2. (b * b - e) * (b * b - e) - (b * b) * (b * b - e) = e * e - (b * b) * e
    OBVIOUS
  <2>3. QED
    BY <2>1, <2>2
<1>10. PICK g \in Nat \ {0} : g = b - d0
  OBVIOUS
<1>11. d0 * D = (b - g) * (b * b) - (b - g) * e
  <2>1. d0 = b - g /\ D = b * b - e
    BY <1>1, <1>10
  <2>2. (b - g) * (b * b - e) = (b - g) * (b * b) - (b - g) * e
    OBVIOUS
  <2>3. QED
    BY <2>1, <2>2
<1>12. ((d0 - 1) * e) * b = (b * b) * e - (g * b) * e - b * e
  <2>1. d0 = b - g
    BY <1>10
  <2>2. ((b - g - 1) * e) * b = (b * b) * e - (g * b) * e - b * e
    OBVIOUS
  <2>3. QED
    BY <2>1, <2>2
<1>13. /\ (b - g) * (b * b) = (b * b) * b - (b * b) * g
       /\ (b - g) * e = b * e - g * e
       /\ (b - 1) * (b * b) = (b * b) * b - b * b
  OBVIOUS
<1>14. (b * b) * g < (g * b) * e + g * e + b * b
  <2>1. g * b \in Nat /\ b * (g * b) <= e * (g * b)
    BY <1>2, MulPos
  <2>2. b * (g * b) = (b * b) * g /\ e * (g * b) = (g * b) * e /\ g * e >= 0 /\ b * b > 0
    BY <1>2
  <2>3. QED
    BY <2>1, <2>2
<1>15. (b * r) * b = (b * b) * r
  OBVIOUS
<1>16. (b * b) * r < e * e + (q0 * b) * D
  <2> DEFINE w == (b * b) * r
  <2>1. w <= D * D - d0 * D + ((d0 - 1) * e) * b + (b - 1) * (b * b) + (q0 * b) * D - (b * b) * D
    BY <1>6, <1>7, <1>8, <1>15
  <2>2. w <= e * e - (b * b) * e - d0 * D + ((d0 - 1) * e) * b + (b - 1) * (b * b) + (q0 * b) * D
    BY <2>1, <1>9
  <2>3. w <= e * e - d0 * D - (g * b) * e - b * e + (b - 1) * (b * b) + (q0 * b) * D
    BY <2>2, <1>12
  <2>4. w <= e * e + (b * b) * g - g * e - (g * b) * e - b * b + (q0 * b) * D
    BY <2>3, <1>11, <1>13
  <2>5. QED
    BY <2>4, <1>14
<1>17. QED
  BY <1>1, <1>16

(* With the largest top limb the reciprocal is zero, and the residual negative. *)
LEMMA ResidualBelowZero ==
  ASSUME NEW b \in Nat \ {0}, NEW d0 \in 1 .. b - 1, NEW D \in Nat, D = (b - 1) * b + d0,
         NEW v \in Nat, (b + v) * D < b * b * b,
         NEW u1 \in Nat, u1 < d0, NEW u0 \in 0 .. b - 1,
         NEW q1 \in Nat, NEW q0 \in 0 .. b - 1, (b + v) * (b - 1) + u1 = q1 * b + q0,
         NEW r \in Int, r = ((b - 1) * b + u1) * b + u0 - (q1 + 1) * D
  PROVE  r < 0
<1>1. PICK g \in 1 .. b - 1 : g = b - d0
  OBVIOUS
<1>2. D = b * b - g
  BY <1>1
<1>3. v = 0
  <2> SUFFICES ASSUME 1 <= v PROVE FALSE
    OBVIOUS
  <2>1. (b + 1) * D <= (b + v) * D
    BY MulPos
  <2>2. (b + 1) * (b * b - g) = b * b * b + b * b - g * (b + 1)
    OBVIOUS
  <2>3. g * (b + 1) <= (b - 1) * (b + 1)
    BY MulPos
  <2>4. (b - 1) * (b + 1) = b * b - 1
    OBVIOUS
  <2>5. QED
    BY <1>2, <2>1, <2>2, <2>3, <2>4
<1>4. q1 = b - 1
  <2>1. b * (b - 1) + u1 = b * q1 + q0
    BY <1>3
  <2>2. u1 \in 0 .. b - 1 /\ b - 1 \in Int /\ b * (b - 1) + u1 \in Int
    OBVIOUS
  <2>3. (b * (b - 1) + u1) \div b = b - 1
    BY <2>2, DivUnique
  <2>4. (b * (b - 1) + u1) \div b = q1
    BY <2>1, <2>2, DivUnique
  <2>5. QED
    BY <2>3, <2>4
<1>5. (u1 + 1) * b <= d0 * b
  BY MulPos
<1>6. r = ((b - 1) * b + u1) * b + u0 - b * ((b - 1) * b + d0)
  BY <1>4
<1>7. r = u1 * b + u0 - d0 * b
  BY <1>6
<1>8. (u1 + 1) * b = u1 * b + b
  OBVIOUS
<1>9. QED
  BY <1>5, <1>7, <1>8

(* Together: how far the residual lies from its range. *)
LEMMA ResidualRange ==
  ASSUME NEW b \in Nat \ {0}, NEW d1 \in 0 .. b - 1, NEW d0 \in 0 .. b - 1,
         NEW D \in Nat, D = d1 * b + d0, b * b <= 2 * D,
         NEW v \in Nat, NEW k \in Nat \ {0}, k <= D, (b + v) * D + k = b * b * b,
         NEW u2 \in 0 .. b - 1, NEW u1 \in 0 .. b - 1, NEW u0 \in 0 .. b - 1, u2 * b + u1 < D,
         NEW q1 \in Nat, NEW q0 \in 0 .. b - 1, (b + v) * u2 + u1 = q1 * b + q0,
         NEW r \in Int, r = (u2 * b + u1) * b + u0 - (q1 + 1) * D
  PROVE  /\ D <= b * b - 1
         /\ -D <= r /\ q0 * b <= r + b * b /\ r < b * b
         /\ q0 * b <= r => r < D /\ r + D < b * b
<1>1. D <= b * b - 1
  <2>1. d1 * b <= (b - 1) * b
    BY MulPos
  <2>2. QED
    BY <2>1
<1>2. b * r = k * u2 + u1 * (b * b - D) + u0 * b + q0 * D - b * D
  BY ResidualIdentity
<1>3. -D <= r /\ q0 * b <= r + b * b
  <2>1. D <= b * b
    BY <1>1
  <2>2. QED
    BY <1>2, <2>1, ResidualLow
<1>4. r < 0 \/ (b * b) * r < (b * b - D) * (b * b - D) + (q0 * b) * D
  <2>1. CASE u2 < d1
    BY <1>1, <1>2, <2>1, ResidualHigh
  <2>2. CASE u2 >= d1
    <3>1. u2 = d1 /\ u1 < d0
      <4>1. ASSUME d1 + 1 <= u2 PROVE FALSE
        <5>1. (d1 + 1) * b <= u2 * b
          BY <4>1, MulPos
        <5>2. QED
          BY <5>1
      <4>2. u2 = d1
        BY <2>2, <4>1
      <4>3. QED
        BY <4>2
    <3>2. d0 \in 1 .. b - 1
      BY <3>1
    <3>3. CASE d1 <= b - 2
      BY <1>2, <3>1, <3>2, <3>3, ResidualEqual
    <3>4. CASE d1 > b - 2
      <4>1. d1 = b - 1
        BY <3>4
      <4>2. (b + v) * D < b * b * b
        OBVIOUS
      <4>3. QED
        BY <3>1, <3>2, <4>1, <4>2, ResidualBelowZero
    <3>5. QED
      BY <3>3, <3>4
  <2>3. QED
    BY <2>1, <2>2
<1>5. PICK e \in Nat, c \in Nat, s \in Int : e = b * b - D /\ c = q0 * b /\ s = b * b
  BY <1>1
<1>6. r < 0 \/ r < e \/ r < c
  <2>1. s = e + D
    BY <1>5
  <2>2. CASE s * r < e * e + c * D
    BY <2>1, <2>2, Average
  <2>3. QED
    BY <1>4, <1>5, <2>2
<1>7. c <= (b - 1) * b
  BY <1>5, MulPos
<1>8. (b - 1) * b < b * b
  OBVIOUS
<1>9. QED
  BY <1>1, <1>3, <1>5, <1>6, <1>7, <1>8

(* v is the reciprocal of the divisor d of two limbs. *)
Reciprocal3by2(v, d) ==
  v \in Nat /\ (Base + v) * d < Base * Base * Base /\ Base * Base * Base <= (Base + v + 1) * d

(* A number of two limbs and its limbs. *)
LEMMA TwoLimbs ==
  ASSUME NEW x \in 0 .. Base * Base - 1
  PROVE  /\ HighLimb(x) \in 0 .. Base - 1 /\ LowLimb(x) \in 0 .. Base - 1
         /\ x = HighLimb(x) * Base + LowLimb(x)
<1> DEFINE b == Base
<1>1. b \in Nat \ {0} /\ x \in Nat /\ x < b * b
  BY BaseType
<1>2. HighLimb(x) = x \div b /\ LowLimb(x) = x % b
  BY DEF HighLimb, LowLimb
<1> HIDE DEF b
<1>3. PICK h \in Nat, l \in 0 .. b - 1 : h = x \div b /\ l = x % b /\ x = b * h + l
  <2>1. x \div b \in Nat
    BY <1>1, DivNat
  <2>2. x % b \in 0 .. b - 1 /\ x = b * (x \div b) + (x % b)
    BY <1>1, DivMod
  <2>3. QED
    BY <2>1, <2>2
<1>4. h < b
  BY <1>1, <1>3, DivBelow
<1>5. QED
  BY <1>1, <1>2, <1>3, <1>4 DEF b

(* Taken modulo the square of the base, a residual keeps its value or grows by the square. *)
LEMMA ResidualModulo ==
  ASSUME NEW s \in Nat \ {0}, NEW c \in Int, NEW r \in Int, -s <= r, r < s,
         NEW x \in Int, x = r - s * c
  PROVE  x % s = IF r < 0 THEN r + s ELSE r
<1>1. CASE r < 0
  <2>1. r + s \in 0 .. s - 1 /\ -c - 1 \in Int /\ x = s * (-c - 1) + (r + s)
    BY <1>1
  <2>2. PICK q \in Int, t \in 0 .. s - 1 : t = r + s /\ x = s * q + t
    BY <2>1
  <2>3. x % s = t
    <3>1. Decomposed(x, s, q, t)
      BY <2>2 DEF Decomposed
    <3>2. QED
      BY <3>1, DivIs
  <2>4. QED
    BY <1>1, <2>2, <2>3
<1>2. CASE r >= 0
  <2>1. r \in 0 .. s - 1 /\ -c \in Int /\ x = s * (-c) + r
    BY <1>2
  <2>2. PICK q \in Int, t \in 0 .. s - 1 : t = r /\ x = s * q + t
    BY <2>1
  <2>3. x % s = t
    <3>1. Decomposed(x, s, q, t)
      BY <2>2 DEF Decomposed
    <3>2. QED
      BY <3>1, DivIs
  <2>4. QED
    BY <1>2, <2>2, <2>3
<1>3. QED
  BY <1>1, <1>2

(* div_3by2_preinv delivers the quotient and the remainder of three limbs by a normalized pair,
   with at most one correction of the estimate in each direction, although it computes only two
   limbs of the remainder, modulo the square of the base. *)
THEOREM Div3by2Facts ==
  ASSUME NEW d \in Nat, d < Base * Base, Base * Base <= 2 * d,
         NEW high \in 0 .. d - 1, NEW u0 \in 0 .. Base - 1, NEW v, Reciprocal3by2(v, d)
  PROVE  /\ Div3by2Preinv(high, u0, d, v) = [quotient |-> (high * Base + u0) \div d,
                                             remainder |-> (high * Base + u0) % d]
         /\ (high * Base + u0) \div d \in 0 .. Base - 1
         /\ (high * Base + u0) % d \in 0 .. d - 1
<1>1. PICK b \in Nat \ {0} : b = Base
  BY BaseType
<1>2. d \in Nat \ {0} /\ d < b * b /\ b * b <= 2 * d /\ u0 \in 0 .. b - 1
  <2>1. b * b > 0
    OBVIOUS
  <2>2. QED
    BY <1>1, <2>1
<1>3. PICK d1 \in 0 .. b - 1, d0 \in 0 .. b - 1 : d = d1 * b + d0
  <2>1. d \in 0 .. b * b - 1
    BY <1>2
  <2>2. QED
    BY <1>1, <2>1, TwoLimbs
<1>4. PICK u2 \in 0 .. b - 1, u1 \in 0 .. b - 1 :
        u2 = HighLimb(high) /\ u1 = LowLimb(high) /\ high = u2 * b + u1
  <2>1. high \in 0 .. b * b - 1
    BY <1>2
  <2>2. QED
    BY <1>1, <2>1, TwoLimbs
<1>5. v \in Nat /\ (b + v) * d < b * b * b /\ b * b * b <= (b + v + 1) * d
  BY <1>1 DEF Reciprocal3by2
<1>6. PICK k \in Nat \ {0} : k <= d /\ (b + v) * d + k = b * b * b
  <2>1. (b + v + 1) * d = (b + v) * d + d
    BY <1>5
  <2>2. b * b * b - (b + v) * d \in Nat \ {0} /\ b * b * b - (b + v) * d <= d
    BY <1>5, <2>1
  <2>3. QED
    BY <2>2, <1>5
<1> DEFINE qw == v * HighLimb(high) + high
<1>7. qw \in Nat /\ qw = (b + v) * u2 + u1
  <2>1. v * u2 + (u2 * b + u1) = (b + v) * u2 + u1 /\ (b + v) * u2 + u1 \in Nat
    BY <1>5
  <2>2. QED
    BY <1>4, <2>1
<1>8. PICK q1 \in Nat, q0 \in 0 .. b - 1 :
        q1 = HighLimb(qw) /\ q0 = LowLimb(qw) /\ (b + v) * u2 + u1 = q1 * b + q0
  <2> HIDE DEF qw
  <2>1. qw \div b \in Nat
    BY <1>7, DivNat
  <2>2. qw % b \in 0 .. b - 1 /\ qw = b * (qw \div b) + (qw % b)
    <3>1. qw \in Int
      BY <1>7
    <3>2. QED
      BY <3>1, DivMod
  <2>3. PICK h \in Nat, l \in 0 .. b - 1 : h = qw \div b /\ l = qw % b /\ qw = b * h + l
    BY <2>1, <2>2
  <2>4. QED
    BY <1>1, <1>7, <2>3 DEF HighLimb, LowLimb
<1> HIDE DEF qw
<1>9. q1 < b
  BY <1>2, <1>4, <1>5, <1>6, <1>8, EstimateFits
<1>10. PICK r \in Int : r = (u2 * b + u1) * b + u0 - (q1 + 1) * d
  OBVIOUS
<1>11. /\ -d <= r /\ q0 * b <= r + b * b /\ r < b * b
       /\ q0 * b <= r => r < d /\ r + d < b * b
  <2>1. b * b <= 2 * d /\ u0 \in 0 .. b - 1 /\ u2 * b + u1 < d
    BY <1>2, <1>4
  <2>2. QED
    BY <1>3, <1>5, <1>6, <1>8, <1>10, <2>1, ResidualRange, ZenonT(60)
<1> DEFINE x == LowLimb(high) * Base + u0 - (q1 + 1) * d
           res == x % (Base * Base)
<1>12. res = IF r < 0 THEN r + b * b ELSE r
  <2>1. x \in Int /\ x = r - (b * b) * u2
    <3>1. u1 * b + u0 - (q1 + 1) * d = (u2 * b + u1) * b + u0 - (q1 + 1) * d - (b * b) * u2
      OBVIOUS
    <3>2. QED
      BY <1>1, <1>4, <1>10, <3>1
  <2>2. PICK s \in Nat \ {0} : s = b * b /\ -s <= r /\ r < s
    BY <1>2, <1>11
  <2> HIDE DEF x
  <2>3. x % s = IF r < 0 THEN r + s ELSE r
    <3>1. x \in Int /\ x = r - s * u2
      BY <2>1, <2>2
    <3>2. PICK y \in Int : y = x
      BY <3>1
    <3>3. y = r - s * u2
      BY <3>1, <3>2
    <3>4. y % s = IF r < 0 THEN r + s ELSE r
      <4>1. u2 \in Int
        OBVIOUS
      <4>2. QED
        BY <2>2, <3>3, <4>1, ResidualModulo, ZenonT(60)
    <3>5. QED
      BY <3>2, <3>4
  <2>4. QED
    BY <1>1, <2>2, <2>3 DEF x
<1>13. PICK U \in Nat : U = high * Base + u0 /\ r = U - (q1 + 1) * d
  BY <1>1, <1>4, <1>10
<1>14. U < b * d
  <2>1. (high + 1) * b <= d * b
    BY MulPos
  <2>2. QED
    BY <1>1, <1>2, <1>13, <2>1
<1> DEFINE Corrected(q, rem) ==
             IF rem >= d THEN [quotient |-> (q + 1) % Base, remainder |-> rem - d]
                         ELSE [quotient |-> q, remainder |-> rem]
           result == IF HighLimb(res) >= LowLimb(qw) THEN Corrected(q1, (res + d) % (Base * Base))
                     ELSE Corrected((q1 + 1) % Base, res)
<1>15. Div3by2Preinv(high, u0, d, v) = result
  <2>1. HighLimb(qw) % Base = q1
    <3>1. q1 \in 0 .. b - 1
      BY <1>9
    <3>2. QED
      BY <1>1, <1>8, <3>1, DivSmall
  <2>2. QED
    BY <2>1, Zenon DEF Div3by2Preinv, qw
<1>16. res \in Nat /\ (HighLimb(res) >= LowLimb(qw) <=> q0 * b <= res)
  <2>1. res \in Nat
    BY <1>11, <1>12, <1>2
  <2>2. q0 <= res \div b <=> b * q0 <= res
    <3> HIDE DEF res
    <3>1. QED
      BY <2>1, DivBelow
  <2>3. QED
    BY <1>1, <1>8, <2>1, <2>2 DEF HighLimb
<1> HIDE DEF res
<1>17. PICK q \in 0 .. b - 1, rest \in 0 .. d - 1 :
         U = d * q + rest /\ result = [quotient |-> q, remainder |-> rest]
  <2>1. ASSUME NEW q \in Nat, q * d <= U PROVE q < b
    <3> SUFFICES ASSUME b <= q PROVE FALSE
      OBVIOUS
    <3>1. b * d <= q * d
      BY MulPos
    <3>2. QED
      BY <1>14, <2>1, <3>1
  <2>2. CASE r < 0
    <3>1. res = r + b * b /\ q0 * b <= res
      BY <1>11, <1>12, <2>2
    <3>2. r + d \in 0 .. d - 1
      BY <1>11, <2>2
    <3>3. (res + d) % (Base * Base) = r + d
      <4>1. PICK s \in Nat \ {0}, t \in Nat : s = b * b /\ t = r + d /\ t < s
        BY <1>2, <3>2
      <4>2. PICK y \in Int : y = res + d /\ y = s * 1 + t
        BY <3>1, <4>1
      <4>3. y % s = t
        <5>1. t \in 0 .. s - 1
          BY <4>1
        <5>2. QED
          BY <4>2, <5>1, DivUnique
      <4>4. QED
        BY <1>1, <4>1, <4>2, <4>3
    <3>4. result = [quotient |-> q1, remainder |-> r + d]
      BY <1>16, <3>1, <3>2, <3>3
    <3>5. U = d * q1 + (r + d)
      BY <1>13
    <3>6. q1 \in 0 .. b - 1
      BY <1>9
    <3>7. QED
      BY <3>2, <3>4, <3>5, <3>6
  <2>3. CASE r >= 0 /\ q0 * b <= r
    <3>1. res = r /\ q0 * b <= res /\ r < d
      BY <1>11, <1>12, <2>3
    <3>2. (res + d) % (Base * Base) = r + d
      <4>1. b * b \in Nat \ {0} /\ r + d < b * b
        BY <1>2, <1>11, <2>3
      <4>2. r + d \in 0 .. b * b - 1
        BY <4>1, <2>3
      <4>3. QED
        BY <1>1, <3>1, <4>1, <4>2, DivSmall
    <3>3. (q1 + 1) * d <= U
      BY <1>13, <2>3
    <3>4. q1 + 1 \in 0 .. b - 1
      BY <2>1, <3>3
    <3>5. (q1 + 1) % Base = q1 + 1
      BY <1>1, <3>4, DivSmall
    <3>6. result = [quotient |-> q1 + 1, remainder |-> r]
      <4>1. r + d >= d /\ (r + d) - d = r
        BY <2>3
      <4>2. QED
        BY <1>16, <3>1, <3>2, <3>5, <4>1
    <3>7. r \in 0 .. d - 1 /\ U = d * (q1 + 1) + r
      BY <1>13, <2>3, <3>1
    <3>8. QED
      BY <3>4, <3>6, <3>7
  <2>4. CASE r >= 0 /\ r < q0 * b
    <3>1. res = r /\ ~(q0 * b <= res)
      BY <1>12, <2>4
    <3>2. (q1 + 1) * d <= U
      BY <1>13, <2>4
    <3>3. q1 + 1 \in 0 .. b - 1
      BY <2>1, <3>2
    <3>4. (q1 + 1) % Base = q1 + 1
      BY <1>1, <3>3, DivSmall
    <3>5. CASE r < d
      <4>1. result = [quotient |-> q1 + 1, remainder |-> r]
        BY <1>16, <3>1, <3>4, <3>5
      <4>2. r \in 0 .. d - 1 /\ U = d * (q1 + 1) + r
        BY <1>13, <2>4, <3>5
      <4>3. QED
        BY <3>3, <4>1, <4>2
    <3>6. CASE r >= d
      <4>1. (q1 + 2) * d <= U
        BY <1>13, <3>6
      <4>2. q1 + 2 \in 0 .. b - 1
        BY <2>1, <4>1
      <4>3. ((q1 + 1) + 1) % Base = q1 + 2
        BY <1>1, <4>2, DivSmall
      <4>4. result = [quotient |-> q1 + 2, remainder |-> r - d]
        BY <1>16, <3>1, <3>4, <3>6, <4>3
      <4>5. r - d \in 0 .. d - 1 /\ U = d * (q1 + 2) + (r - d)
        BY <1>2, <1>11, <1>13, <3>6
      <4>6. QED
        BY <4>2, <4>4, <4>5
    <3>7. r < d \/ r >= d
      BY <1>2, <1>13, <2>4
    <3>8. QED
      BY <3>5, <3>6, <3>7
  <2>5. QED
    BY <2>2, <2>3, <2>4
<1>18. U \div d = q /\ U % d = rest
  <2>1. Decomposed(U, d, q, rest)
    BY <1>2, <1>17 DEF Decomposed
  <2>2. QED
    BY <2>1, DivIs
<1> HIDE DEF result
<1>19. QED
  BY <1>1, <1>13, <1>15, <1>17, <1>18

(* The width halves a normalized limb: 2^(LimbBits - s) times 2^s is the base. *)
LEMMA BaseSplit ==
  ASSUME NEW s \in 0 .. LimbBits
  PROVE  Power(2, LimbBits - s) \in Nat \ {0} /\ Power(2, s) \in Nat \ {0}
         /\ Power(2, LimbBits - s) * Power(2, s) = Base
<1>1. s \in Nat /\ LimbBits - s \in Nat /\ (LimbBits - s) + s = LimbBits
  BY LimbAssumption
<1>2. Power(2, LimbBits - s) \in Nat \ {0} /\ Power(2, s) \in Nat \ {0}
  BY <1>1, PowerPositive
<1>3. Power(2, (LimbBits - s) + s) = Power(2, LimbBits - s) * Power(2, s)
  BY <1>1, PowerSum
<1>4. QED
  BY <1>1, <1>2, <1>3, BaseIsPower

(* The leading zeros of a limb shift its top bit into place. *)
LEMMA LeadingZerosFacts ==
  ASSUME NEW x \in 1 .. Base - 1
  PROVE  /\ LeadingZeros(x) \in 0 .. LimbBits - 1
         /\ Normalized(x * Power(2, LeadingZeros(x))) /\ x * Power(2, LeadingZeros(x)) < Base
<1> DEFINE S == {s \in 0 .. LimbBits - 1 : Base <= 2 * (x * Power(2, s))}
<1>1. LimbBits - 1 \in S
  <2>1. LimbBits - 1 \in Nat /\ LimbBits - 1 + 1 = LimbBits
    BY LimbAssumption
  <2>2. PICK p \in Nat \ {0} : p = Power(2, LimbBits - 1) /\ Base = 2 * p
    <3>1. Power(2, LimbBits - 1 + 1) = 2 * Power(2, LimbBits - 1)
      BY <2>1, PowerStep
    <3>2. QED
      BY <2>1, <3>1, PowerPositive, BaseIsPower
  <2>3. 1 * p <= x * p
    BY BaseType, MulPos
  <2>4. QED
    BY <2>1, <2>2, <2>3
<1>2. PICK m \in S : \A n \in S : m <= n
  <2>1. S \in SUBSET Nat /\ S # {}
    BY <1>1, LimbAssumption
  <2>2. QED
    BY <2>1, Smallest
<1>3. x * Power(2, m) < Base
  <2>1. CASE m = 0
    BY <2>1, PowerOne, BaseType
  <2>2. CASE m # 0
    <3>1. m - 1 \in 0 .. LimbBits - 1 /\ m - 1 \in Nat /\ m - 1 + 1 = m
      BY <1>2, <2>2, LimbAssumption
    <3>2. m - 1 \notin S
      BY <1>2, <3>1
    <3>3. Power(2, m - 1 + 1) = 2 * Power(2, m - 1) /\ Power(2, m - 1) \in Nat
      BY <3>1, PowerStep
    <3>4. PICK p \in Nat : p = Power(2, m - 1)
      BY <3>3
    <3>5. x * (2 * p) = 2 * (x * p) /\ x * p \in Nat
      BY BaseType
    <3>6. QED
      BY <3>1, <3>2, <3>3, <3>4, <3>5, BaseType
  <2>3. QED
    BY <2>1, <2>2
<1>4. Normalized(x * Power(2, m))
  <2>1. x * Power(2, m) \in Nat
    <3>1. m \in Nat
      BY <1>2, LimbAssumption
    <3>2. PICK p \in Nat : p = Power(2, m)
      BY <3>1, PowerStep
    <3>3. QED
      BY <3>2, BaseType
  <2>2. QED
    BY <1>2, <2>1, BaseType DEF Normalized
<1>5. QED
  BY <1>2, <1>3, <1>4, Zenon DEF LeadingZeros

(* What the shifting of a bit into a number does to quotient and remainder. *)
LEMMA DivideBit ==
  ASSUME NEW y \in Nat \ {0}, NEW w \in Nat, NEW bit \in {0, 1}
  PROVE  LET q == w \div y
             r == w % y
         IN  IF 2 * r + bit >= y
             THEN (2 * w + bit) \div y = 2 * q + 1 /\ (2 * w + bit) % y = 2 * r + bit - y
             ELSE (2 * w + bit) \div y = 2 * q /\ (2 * w + bit) % y = 2 * r + bit
<1>1. PICK q \in Int, r \in 0 .. y - 1 : q = w \div y /\ r = w % y /\ w = y * q + r
  <2>1. w \in Int
    OBVIOUS
  <2>2. QED
    BY <2>1, DivMod
<1>2. CASE 2 * r + bit >= y
  <2>1. 2 * w + bit = y * (2 * q + 1) + (2 * r + bit - y) /\ 2 * r + bit - y \in 0 .. y - 1
        /\ 2 * q + 1 \in Int /\ 2 * w + bit \in Int
    <3>1. y * (2 * q + 1) = 2 * (y * q) + y /\ y * q \in Int
      BY <1>1
    <3>2. QED
      BY <1>1, <1>2, <3>1
  <2>2. (2 * w + bit) \div y = 2 * q + 1 /\ (2 * w + bit) % y = 2 * r + bit - y
    <3>1. Decomposed(2 * w + bit, y, 2 * q + 1, 2 * r + bit - y)
      BY <2>1 DEF Decomposed
    <3>2. QED
      BY <3>1, DivIs
  <2>3. QED
    BY <1>1, <1>2, <2>2
<1>3. CASE ~(2 * r + bit >= y)
  <2>1. 2 * w + bit = y * (2 * q) + (2 * r + bit) /\ 2 * r + bit \in 0 .. y - 1
        /\ 2 * q \in Int /\ 2 * w + bit \in Int
    BY <1>1, <1>3
  <2>2. (2 * w + bit) \div y = 2 * q /\ (2 * w + bit) % y = 2 * r + bit
    <3>1. Decomposed(2 * w + bit, y, 2 * q, 2 * r + bit)
      BY <2>1 DEF Decomposed
    <3>2. QED
      BY <3>1, DivIs
  <2>3. QED
    BY <1>1, <1>3, <2>2
<1>4. QED
  BY <1>2, <1>3

(* Division by p and by 2 is division by p times 2. *)
LEMMA DivHalved ==
  ASSUME NEW x \in Int, NEW p \in Nat \ {0}
  PROVE  x \div (p * 2) = (x \div p) \div 2
<1>1. ASSUME NEW c \in Nat \ {0} PROVE x \div (p * c) = (x \div p) \div c
  BY ModTwoSteps, ZenonT(60)
<1>2. 2 \in Nat \ {0}
  OBVIOUS
<1>3. QED
  BY <1>1, <1>2, Zenon

(* One step of the portable division by a limb: the next bit of the dividend is shifted in. *)
NarrowingStep(x, y, before, i) ==
  LET r == ((2 * before.remainder) % Base) + Bit(LowLimb(x), LimbBits - i)
      spilled == 2 * before.remainder >= Base
  IN  IF spilled \/ r >= y
      THEN [quotient |-> (2 * before.quotient + 1) % Base, remainder |-> (r - y) % Base]
      ELSE [quotient |-> (2 * before.quotient) % Base, remainder |-> r]

(* Quotient and remainder of what lies above the lowest bits of the dividend. *)
NarrowingState(x, y, i) == [quotient |-> (x \div Power(2, LimbBits - i)) \div y,
                            remainder |-> (x \div Power(2, LimbBits - i)) % y]

(* A step on reduced numbers, where one too large for the width has spilled. *)
LEMMA NarrowingReduced ==
  ASSUME NEW b \in Nat, NEW h \in Nat, b = 2 * h, NEW y \in 1 .. b - 1,
         NEW rem \in 0 .. y - 1, NEW bit \in {0, 1}
  PROVE  LET r == ((2 * rem) % b) + bit
         IN  /\ (2 * rem >= b \/ r >= y) <=> 2 * rem + bit >= y
             /\ 2 * rem + bit >= y => (r - y) % b = 2 * rem + bit - y
             /\ 2 * rem + bit < y => r = 2 * rem + bit
<1>1. b \in Nat \ {0} /\ b - 1 \in Nat
  OBVIOUS
<1>2. CASE 2 * rem >= b
  <2>1. (2 * rem) % b = 2 * rem - b
    <3>1. 2 * rem \in Int /\ 1 \in Int /\ 2 * rem - b \in 0 .. b - 1
          /\ 2 * rem = b * 1 + (2 * rem - b)
      BY <1>2
    <3>2. QED
      BY <1>1, <3>1, DivUnique
  <2>2. ((2 * rem - b + bit) - y) % b = 2 * rem + bit - y
    <3>1. (2 * rem - b + bit) - y \in Int /\ -1 \in Int /\ 2 * rem + bit - y \in 0 .. b - 1
          /\ (2 * rem - b + bit) - y = b * (-1) + (2 * rem + bit - y)
      BY <1>2
    <3>2. QED
      BY <1>1, <3>1, DivUnique
  <2>3. 2 * rem + bit >= y
    BY <1>2
  <2>4. QED
    BY <1>2, <2>1, <2>2, <2>3
<1>3. CASE ~(2 * rem >= b)
  <2>1. (2 * rem) % b = 2 * rem
    <3>1. 2 * rem \in 0 .. b - 1
      BY <1>3
    <3>2. QED
      BY <1>1, <3>1, DivSmall
  <2>2. ASSUME 2 * rem + bit >= y PROVE ((2 * rem + bit) - y) % b = 2 * rem + bit - y
    <3>1. 2 * rem + bit - y \in 0 .. b - 1
      BY <1>3, <2>2
    <3>2. QED
      BY <1>1, <3>1, DivSmall
  <2>3. QED
    BY <1>3, <2>1, <2>2
<1>4. QED
  BY <1>2, <1>3

(* A step goes from one state to the next. *)
LEMMA NarrowingStepFacts ==
  ASSUME NEW y \in 1 .. Base - 1, NEW x \in Nat, x < y * Base, NEW i \in 0 .. LimbBits - 1
  PROVE  NarrowingStep(x, y, NarrowingState(x, y, i), i + 1) = NarrowingState(x, y, i + 1)
<1>1. LimbBits - (i + 1) \in Nat /\ (LimbBits - (i + 1)) + 1 = LimbBits - i /\ LimbBits - i \in Nat
      /\ LimbBits - (i + 1) \in 0 .. LimbBits - 1 /\ LimbBits \in Nat
  BY LimbAssumption
<1>2. PICK p \in Nat \ {0} : p = Power(2, LimbBits - (i + 1)) /\ Power(2, LimbBits - i) = p * 2
  <2>1. Power(2, LimbBits - (i + 1)) \in Nat \ {0}
        /\ Power(2, (LimbBits - (i + 1)) + 1) = 2 * Power(2, LimbBits - (i + 1))
    <3>1. PICK k \in Nat : k = LimbBits - (i + 1)
      BY <1>1
    <3>2. Power(2, k) \in Nat \ {0} /\ Power(2, k + 1) = 2 * Power(2, k)
      <4>1. 2 \in Nat \ {0} /\ 2 \in Nat /\ k \in Nat
        OBVIOUS
      <4>2. QED
        BY <4>1, PowerPositive, PowerStep, Zenon
    <3>3. QED
      BY <3>1, <3>2
  <2>2. QED
    BY <1>1, <2>1
<1>3. PICK bit \in {0, 1} : bit = (x \div p) % 2
                            /\ bit = Bit(LowLimb(x), LimbBits - (i + 1))
  <2>1. Bit(x % Power(2, LimbBits), LimbBits - (i + 1)) = Bit(x, LimbBits - (i + 1))
        /\ Bit(x, LimbBits - (i + 1)) \in {0, 1}
    <3>1. x \in Int
      OBVIOUS
    <3>2. QED
      BY <1>1, <3>1, BitOfRemainder, BitType
  <2>2. Bit(x, LimbBits - (i + 1)) = (x \div p) % 2
    BY <1>2 DEF Bit
  <2>3. QED
    BY <2>1, <2>2, BaseIsPower DEF LowLimb
<1>4. PICK w \in Nat, w2 \in Nat : /\ w = x \div Power(2, LimbBits - i)
                                   /\ w2 = x \div p /\ w2 = 2 * w + bit
  <2>1. x \in Int /\ 2 \in Nat \ {0}
    OBVIOUS
  <2>2. x \div (p * 2) = (x \div p) \div 2
    BY <2>1, DivHalved
  <2>3. PICK v \in Nat : v = x \div p
    BY DivNat
  <2>4. v \in Int
    OBVIOUS
  <2>5. PICK q \in Int, t \in 0 .. 1 : q = v \div 2 /\ t = v % 2 /\ v = 2 * q + t
    <3>1. PICK two \in Nat \ {0} : two = 2
      OBVIOUS
    <3>2. v \div two \in Int /\ v % two \in 0 .. two - 1 /\ v = two * (v \div two) + (v % two)
      BY <2>4, DivMod
    <3>3. QED
      BY <3>1, <3>2
  <2>6. q \in Nat
    BY <2>5
  <2>7. QED
    BY <1>2, <1>3, <2>2, <2>3, <2>5, <2>6
<1>5. PICK b \in Nat, h \in Nat : b = Base /\ b = 2 * h /\ b >= 2
  <2>1. LimbBits - 1 \in Nat /\ (LimbBits - 1) + 1 = LimbBits
    BY LimbAssumption
  <2>2. Power(2, (LimbBits - 1) + 1) = 2 * Power(2, LimbBits - 1) /\ Power(2, LimbBits - 1) \in Nat
    BY <2>1, PowerStep
  <2>3. QED
    BY <2>1, <2>2, BaseIsPower, BaseType
<1>6. PICK q \in Nat, rem \in 0 .. y - 1 : q = w \div y /\ rem = w % y
  <2>1. w \in Int /\ y \in Nat \ {0}
    BY <1>5
  <2>2. w \div y \in Nat /\ w % y \in 0 .. y - 1
    BY <2>1, DivMod, DivNat
  <2>3. QED
    BY <2>2
<1>7. PICK q2 \in Nat, rem2 \in 0 .. y - 1 :
        /\ q2 = w2 \div y /\ rem2 = w2 % y
        /\ q2 = IF 2 * rem + bit >= y THEN 2 * q + 1 ELSE 2 * q
        /\ rem2 = IF 2 * rem + bit >= y THEN 2 * rem + bit - y ELSE 2 * rem + bit
  <2>1. y \in Nat \ {0}
    BY <1>5
  <2>2. IF 2 * rem + bit >= y
        THEN (2 * w + bit) \div y = 2 * q + 1 /\ (2 * w + bit) % y = 2 * rem + bit - y
        ELSE (2 * w + bit) \div y = 2 * q /\ (2 * w + bit) % y = 2 * rem + bit
    BY <1>6, <2>1, DivideBit
  <2>3. (IF 2 * rem + bit >= y THEN 2 * rem + bit - y ELSE 2 * rem + bit) \in 0 .. y - 1
    BY <1>5
  <2>4. QED
    BY <1>4, <2>2, <2>3
<1>8. q2 \in 0 .. b - 1
  <2>1. x < (y * b) /\ x \in Int /\ y * b \in Int
    BY <1>5
  <2>2. PICK e \in Nat \ {0} : b = p * e
    <3>1. i + 1 \in 0 .. LimbBits
      BY <1>1
    <3>2. Power(2, LimbBits - (i + 1)) * Power(2, i + 1) = Base /\ Power(2, i + 1) \in Nat \ {0}
      BY <3>1, BaseSplit
    <3>3. QED
      BY <1>2, <1>5, <3>2
  <2>3. w2 < y * e
    <3>1. x < p * (y * e) /\ y * e \in Int
      <4>1. p * (y * e) = y * (p * e)
        OBVIOUS
      <4>2. QED
        BY <2>1, <2>2, <4>1
    <3>2. QED
      BY <1>4, <2>1, <3>1, DivBelow
  <2>4. q2 < e
    <3>1. y \in Nat \ {0} /\ w2 \in Int /\ e \in Int
      BY <1>5
    <3>2. QED
      BY <1>7, <2>3, <3>1, DivBelow
  <2>5. 1 * e <= p * e
    BY MulPos
  <2>6. QED
    BY <2>2, <2>4, <2>5
<1>9. NarrowingState(x, y, i) = [quotient |-> q, remainder |-> rem]
      /\ NarrowingState(x, y, i + 1) = [quotient |-> q2, remainder |-> rem2]
  BY <1>2, <1>4, <1>6, <1>7 DEF NarrowingState
<1>10. /\ (2 * rem >= b \/ ((2 * rem) % b) + bit >= y) <=> 2 * rem + bit >= y
       /\ 2 * rem + bit >= y => (((2 * rem) % b) + bit - y) % b = rem2
       /\ 2 * rem + bit < y => ((2 * rem) % b) + bit = rem2
  BY <1>5, <1>7, NarrowingReduced
<1>11. q2 % b = q2
  BY <1>5, <1>8, DivSmall
<1>12. NarrowingStep(x, y, [quotient |-> q, remainder |-> rem], i + 1)
         = IF 2 * rem >= b \/ ((2 * rem) % b) + bit >= y
           THEN [quotient |-> (2 * q + 1) % b, remainder |-> (((2 * rem) % b) + bit - y) % b]
           ELSE [quotient |-> (2 * q) % b, remainder |-> ((2 * rem) % b) + bit]
  BY <1>3, <1>5 DEF NarrowingStep
<1>13. CASE 2 * rem + bit >= y
  BY <1>7, <1>9, <1>10, <1>11, <1>12, <1>13
<1>14. CASE ~(2 * rem + bit >= y)
  <2>1. 2 * rem + bit < y
    BY <1>14
  <2>2. QED
    BY <1>7, <1>9, <1>10, <1>11, <1>12, <1>14, <2>1
<1>15. QED
  BY <1>13, <1>14

(* narrowing_div_portable divides two limbs by one: its shifts and the subtraction on a lost top
   bit are long division, for any width of a limb. *)
THEOREM NarrowingDivFacts ==
  ASSUME NEW y \in 1 .. Base - 1, NEW x \in Nat, x < y * Base
  PROVE  NarrowingDivPortable(x, y) = [quotient |-> x \div y, remainder |-> x % y]
<1> DEFINE start == [quotient |-> 0, remainder |-> HighLimb(x)]
           g == [i \in 0 .. LimbBits |-> NarrowingState(x, y, i)]
           Is(q) == q = [i \in 0 .. LimbBits |->
                           IF i = 0 THEN start ELSE NarrowingStep(x, y, q[i - 1], i)]
           f == CHOOSE q : Is(q)
<1>1. NarrowingState(x, y, 0) = start
  <2>1. LimbBits - 0 = LimbBits
    BY LimbAssumption
  <2>2. x \div Power(2, LimbBits) = HighLimb(x)
    BY BaseIsPower DEF HighLimb
  <2>3. HighLimb(x) \in 0 .. y - 1
    <3>1. PICK b \in Nat \ {0} : b = Base
      BY BaseType
    <3>2. x \in Int /\ y \in Int /\ x < b * y
      BY <3>1
    <3>3. x \div b < y /\ x \div b \in Nat
      BY <3>1, <3>2, DivBelow, DivNat
    <3>4. QED
      BY <3>1, <3>3 DEF HighLimb
  <2>4. HighLimb(x) \div y = 0 /\ HighLimb(x) % y = HighLimb(x)
    <3>1. y \in Nat \ {0}
      BY BaseType
    <3>2. QED
      BY <2>3, <3>1, DivSmall
  <2>5. QED
    BY <2>1, <2>2, <2>4 DEF NarrowingState
<1>2. ASSUME NEW i \in 0 .. LimbBits - 1
      PROVE  NarrowingStep(x, y, NarrowingState(x, y, i), i + 1) = NarrowingState(x, y, i + 1)
  BY NarrowingStepFacts
<1> HIDE DEF start
<1>3. Is(g)
  <2>1. ASSUME NEW i \in 0 .. LimbBits, i # 0 PROVE g[i] = NarrowingStep(x, y, g[i - 1], i)
    <3>1. i - 1 \in 0 .. LimbBits - 1 /\ i - 1 \in 0 .. LimbBits /\ (i - 1) + 1 = i
      BY <2>1, LimbAssumption
    <3>2. NarrowingStep(x, y, NarrowingState(x, y, i - 1), (i - 1) + 1)
            = NarrowingState(x, y, (i - 1) + 1)
      BY <1>2, <3>1
    <3>3. QED
      BY <3>1, <3>2
  <2>2. 0 \in 0 .. LimbBits
    BY LimbAssumption
  <2>3. QED
    BY <1>1, <2>1, <2>2
<1>4. Is(f)
  BY <1>3
<1>5. NarrowingDivPortable(x, y) = f[LimbBits]
  BY DEF NarrowingDivPortable, NarrowingStep, start
<1> HIDE DEF f
<1>6. f[0] = start /\ \A k \in 0 .. LimbBits - 1 : f[k + 1] = NarrowingStep(x, y, f[k], k + 1)
  <2>1. ASSUME NEW k \in 0 .. LimbBits - 1 PROVE f[k + 1] = NarrowingStep(x, y, f[k], k + 1)
    <3>1. k + 1 \in 0 .. LimbBits /\ k + 1 # 0 /\ (k + 1) - 1 = k
      BY LimbAssumption
    <3>2. QED
      BY <1>4, <3>1
  <2>2. 0 \in 0 .. LimbBits
    BY LimbAssumption
  <2>3. QED
    BY <1>4, <2>1, <2>2
<1>7. \A k \in 0 .. LimbBits : f[k] = g[k]
  <2>1. g[0] = start /\ \A k \in 0 .. LimbBits - 1 : g[k + 1] = NarrowingStep(x, y, g[k], k + 1)
    <3>1. \A k \in 0 .. LimbBits : g[k] = NarrowingState(x, y, k)
      OBVIOUS
    <3>2. \A k \in 0 .. LimbBits - 1 : k \in 0 .. LimbBits /\ k + 1 \in 0 .. LimbBits
      BY LimbAssumption
    <3>3. 0 \in 0 .. LimbBits
      BY LimbAssumption
    <3>4. QED
      BY <1>1, <1>2, <3>1, <3>2, <3>3
  <2> HIDE DEF g
  <2>2. LimbBits \in Nat
    BY LimbAssumption
  <2>3. \A k \in 0 .. LimbBits - 1 : f[k] = g[k] => f[k + 1] = g[k + 1]
    BY <1>6, <2>1
  <2>4. f[0] = g[0]
    BY <1>6, <2>1
  <2>5. QED
    BY <2>2, <2>3, <2>4, RecursionUnique
<1>8. f[LimbBits] = NarrowingState(x, y, LimbBits)
  BY <1>7, LimbAssumption
<1>9. x \div Power(2, LimbBits - LimbBits) = x
  <2>1. LimbBits - LimbBits = 0
    BY LimbAssumption
  <2>2. Power(2, 0) = 1
    BY PowerOne
  <2>3. x \div 1 = x
    OBVIOUS
  <2>4. QED
    BY <2>1, <2>2, <2>3
<1>10. QED
  BY <1>5, <1>8, <1>9 DEF NarrowingState

(* The reciprocal of a normalized limb is the quotient of B^2 - 1 by it, less B. *)
LEMMA ReciprocalWordFacts ==
  ASSUME NEW d \in 1 .. Base - 1, Normalized(d)
  PROVE  /\ ReciprocalWord(d) \in 0 .. Base - 1
         /\ (Base + ReciprocalWord(d)) * d < Base * Base
         /\ Base * Base <= (Base + ReciprocalWord(d) + 1) * d
<1>1. PICK b \in Nat \ {0} : b = Base /\ b <= 2 * d
  BY BaseType DEF Normalized
<1> DEFINE x == (Base - 1 - d) * Base + Base - 1
<1>2. x \in Nat /\ x = b * b - 1 - b * d /\ x < d * b
  <2>1. (b - 1 - d) * b = b * b - b - d * b /\ b * b \in Nat /\ d * b \in Nat
    BY <1>1
  <2>2. (b - 1 - d) * b \in Nat
    <3>1. b - 1 - d \in Nat
      BY <1>1
    <3>2. QED
      BY <1>1, <3>1
  <2>3. b * b <= (2 * d) * b /\ (2 * d) * b = 2 * (d * b)
    BY <1>1, MulPos
  <2>4. QED
    BY <1>1, <2>1, <2>2, <2>3
<1> HIDE DEF x
<1>3. ReciprocalWord(d) = x \div d
  <2>1. NarrowingDivPortable(x, d) = [quotient |-> x \div d, remainder |-> x % d]
    BY <1>1, <1>2, NarrowingDivFacts
  <2>2. QED
    BY <2>1 DEF ReciprocalWord, x
<1>4. PICK v \in Int, r \in 0 .. d - 1 : v = x \div d /\ x = d * v + r
  <2>1. x \in Int /\ d \in Nat \ {0}
    BY <1>1, <1>2
  <2>2. QED
    BY <2>1, DivMod
<1>5. v \in 0 .. b - 1
  <2>1. x \div d \in Nat /\ x \div d < b
    <3>1. x \in Int /\ d \in Nat \ {0} /\ b \in Int
      BY <1>1, <1>2
    <3>2. QED
      BY <1>2, <3>1, DivNat, DivBelow
  <2>2. QED
    BY <1>4, <2>1
<1>6. (b + v) * d = b * d + d * v /\ (b + v + 1) * d = b * d + d * v + d
  BY <1>1, <1>5
<1>7. QED
  BY <1>1, <1>2, <1>3, <1>4, <1>5, <1>6

(* The reciprocal v of d1 alone misses that of d1 and d0 by (b + v) * d1 + d0 - b * b, of
   which the code keeps the remainder modulo b. *)
Misses(b, d1, d0, v, miss) ==
  /\ b \in Nat \ {0} /\ d1 \in 1 .. b - 1 /\ b <= 2 * d1 /\ d0 \in 0 .. b - 1
  /\ v \in 0 .. b - 1 /\ (b + v) * d1 < b * b /\ b * b <= (b + v + 1) * d1
  /\ miss \in Int /\ miss = (b + v) * d1 + d0 - b * b

(* What the remainder says about the miss. *)
LEMMA ReciprocalMiss ==
  ASSUME NEW b, NEW d1, NEW d0, NEW v, NEW miss, Misses(b, d1, d0, v, miss)
  PROVE  /\ miss < 0 => -d1 <= miss /\ (d1 * v + d0) % b = miss + b /\ d0 <= miss + b
         /\ 0 <= miss => /\ miss < d0 /\ (d1 * v + d0) % b = miss /\ 1 <= v
                         /\ d1 <= miss => 2 <= v
<1> USE DEF Misses
<1>1. d1 * v + d0 = miss - b * (d1 - b)
  <2>1. (b + v) * d1 = b * d1 + d1 * v /\ b * (d1 - b) = b * d1 - b * b
    OBVIOUS
  <2>2. QED
    BY <2>1
<1>2. (b + v + 1) * d1 = (b + v) * d1 + d1 /\ (b + v) * d1 \in Int
  OBVIOUS
<1>3. miss < d0 /\ d0 - d1 <= miss
  BY <1>2
<1>4. (d1 * v + d0) % b = IF miss < 0 THEN miss + b ELSE miss
  <2>1. -b <= miss /\ miss < b
    BY <1>3
  <2>2. PICK c \in Int : c = d1 - b
    OBVIOUS
  <2>3. PICK x \in Int : x = d1 * v + d0
    OBVIOUS
  <2>4. x = miss - b * c
    BY <1>1, <2>2, <2>3
  <2>5. x % b = IF miss < 0 THEN miss + b ELSE miss
    <3>1. CASE miss < 0
      <4>1. miss + b \in 0 .. b - 1 /\ -c - 1 \in Int /\ x = b * (-c - 1) + (miss + b)
        <5>1. b * (-c - 1) = -(b * c) - b
          OBVIOUS
        <5>2. QED
          BY <2>1, <2>4, <3>1, <5>1
      <4>2. x % b = miss + b
        BY <4>1, DivUnique
      <4>3. QED
        BY <3>1, <4>2
    <3>2. CASE ~(miss < 0)
      <4>1. miss \in 0 .. b - 1 /\ -c \in Int /\ x = b * (-c) + miss
        <5>1. b * (-c) = -(b * c)
          OBVIOUS
        <5>2. QED
          BY <2>1, <2>4, <3>2, <5>1
      <4>2. x % b = miss
        BY <4>1, DivUnique
      <4>3. QED
        BY <3>2, <4>2
    <3>3. QED
      BY <3>1, <3>2
  <2>6. QED
    BY <2>3, <2>5
<1>5. ASSUME v = 0 PROVE miss < 0
  <2>1. (b + v) * d1 = b * d1 /\ b * d1 <= b * (b - 1)
    BY <1>5
  <2>2. b * (b - 1) = b * b - b /\ b * b \in Int
    OBVIOUS
  <2>3. QED
    BY <2>1, <2>2
<1>6. ASSUME v = 1 PROVE miss < d1
  <2>1. (b + v) * d1 = b * d1 + d1 /\ b * d1 <= b * (b - 1)
    BY <1>6
  <2>2. b * (b - 1) = b * b - b /\ b * b \in Int
    OBVIOUS
  <2>3. QED
    BY <2>1, <2>2
<1>7. QED
  BY <1>3, <1>4, <1>5, <1>6

(* The exact reciprocal differs from v by how often the divisor is contained in what
   (b + v) * d exceeds the cube of b by: excess = b * (miss + t1) + t0. *)
Exceeds(b, d1, d0, d, v, miss, t1, t0) ==
  /\ b \in Nat \ {0} /\ d1 \in 1 .. b - 1 /\ b <= 2 * d1 /\ d0 \in 0 .. b - 1
  /\ d \in Nat /\ d = d1 * b + d0 /\ v \in Nat
  /\ miss \in -d1 .. -1 /\ miss = (b + v) * d1 + d0 - b * b
  /\ t1 \in 0 .. b - 1 /\ t0 \in 0 .. b - 1 /\ d0 * v = b * t1 + t0

(* It is at most twice. *)
LEMMA ReciprocalLowered ==
  ASSUME NEW b, NEW d1, NEW d0, NEW d, NEW v, NEW miss, NEW t1, NEW t0,
         Exceeds(b, d1, d0, d, v, miss, t1, t0)
  PROVE  /\ miss + t1 < 0 => (b + v) * d < b * b * b /\ b * b * b <= (b + v + 1) * d
         /\ 0 <= miss + t1 =>
              LET sum == miss + t1
                  twice == sum > d1 \/ (sum = d1 /\ t0 >= d0)
                  w == IF twice THEN v - 2 ELSE v - 1
              IN  w \in Nat /\ (b + w) * d < b * b * b /\ b * b * b <= (b + w + 1) * d
<1> USE DEF Exceeds
<1> DEFINE sum == miss + t1
           excess == b * sum + t0
<1>1. (b + v) * d = b * b * b + excess
  <2>1. (b + v) * d = b * ((b + v) * d1) + b * d0 + d0 * v
    OBVIOUS
  <2>2. (b + v) * d1 = miss - d0 + b * b
    OBVIOUS
  <2>3. b * (miss - d0 + b * b) = b * miss - b * d0 + b * b * b
    OBVIOUS
  <2>4. b * sum = b * miss + b * t1
    OBVIOUS
  <2>5. QED
    BY <2>1, <2>2, <2>3, <2>4
<1>2. PICK cube \in Nat, E \in Int : cube = b * b * b /\ E = excess
  <2>1. b * b * b \in Nat
    <3>1. b * b \in Nat
      OBVIOUS
    <3>2. QED
      BY <3>1
  <2>2. excess \in Int
    OBVIOUS
  <2>3. QED
    BY <2>1, <2>2
<1>3. /\ (b + v + 1) * d = cube + E + d
      /\ (b + (v - 1)) * d = cube + E - d /\ (b + (v - 1) + 1) * d = cube + E
      /\ (b + (v - 2)) * d = cube + E - d - d /\ (b + (v - 2) + 1) * d = cube + E - d
  <2>1. PICK a \in Int : a = b + v /\ a * d = cube + E
    BY <1>1, <1>2
  <2>2. (a + 1) * d = a * d + d /\ (a - 1) * d = a * d - d /\ (a - 2) * d = a * d - d - d
    OBVIOUS
  <2>3. b + v + 1 = a + 1 /\ b + (v - 1) = a - 1 /\ b + (v - 1) + 1 = a
        /\ b + (v - 2) = a - 2 /\ b + (v - 2) + 1 = a - 1
    BY <2>1
  <2>4. QED
    BY <2>1, <2>2, <2>3
<1>4. CASE sum < 0
  <2>1. E < 0
    <3>1. sum <= -1
      BY <1>4
    <3>2. b * sum <= b * (-1)
      <4>1. sum * b <= (-1) * b
        BY <3>1, MulPos
      <4>2. QED
        BY <4>1
    <3>3. QED
      BY <1>2, <3>2
  <2>2. -d <= E
    <3>1. (-d1) * b <= sum * b
      <4>1. -d1 <= sum
        OBVIOUS
      <4>2. QED
        BY <4>1, MulPos
    <3>2. b * sum = sum * b /\ (-d1) * b = -(d1 * b)
      OBVIOUS
    <3>3. QED
      BY <1>2, <3>1, <3>2
  <2>3. (b + v) * d = cube + E
    BY <1>1, <1>2
  <2>4. QED
    BY <1>2, <1>3, <1>4, <2>1, <2>2, <2>3
<1>5. CASE ~(sum < 0)
  <2>1. 0 <= E
    <3>1. 0 * b <= sum * b
      BY <1>5, MulPos
    <3>2. QED
      BY <1>2, <3>1
  <2>2. E < d + d
    <3>1. sum <= b - 1
      OBVIOUS
    <3>2. sum * b <= (b - 1) * b
      BY <3>1, MulPos
    <3>3. b * b <= (2 * d1) * b /\ (2 * d1) * b = d1 * b + d1 * b /\ (b - 1) * b = b * b - b
      BY MulPos
    <3>4. b * sum = sum * b
      OBVIOUS
    <3>5. QED
      BY <1>2, <3>2, <3>3, <3>4
  <2>3. d <= E <=> sum > d1 \/ (sum = d1 /\ t0 >= d0)
    <3>1. CASE sum > d1
      <4>1. (d1 + 1) * b <= sum * b
        BY <3>1, MulPos
      <4>2. (d1 + 1) * b = d1 * b + b /\ sum * b = b * sum
        OBVIOUS
      <4>3. QED
        BY <1>2, <3>1, <4>1, <4>2
    <3>2. CASE sum = d1
      <4>1. b * sum = d1 * b
        BY <3>2
      <4>2. QED
        BY <1>2, <3>2, <4>1
    <3>3. CASE sum < d1
      <4>1. (sum + 1) * b <= d1 * b
        BY <3>3, MulPos
      <4>2. (sum + 1) * b = sum * b + b /\ sum * b = b * sum
        OBVIOUS
      <4>3. QED
        BY <1>2, <3>3, <4>1, <4>2
    <3>4. sum > d1 \/ sum = d1 \/ sum < d1
      OBVIOUS
    <3>5. QED
      BY <3>1, <3>2, <3>3, <3>4
  <2>4. d <= b * b - 1 /\ d * b < cube
    <3>1. d1 * b <= (b - 1) * b /\ (b - 1) * b = b * b - b
      BY MulPos
    <3>2. d * b <= (b * b - 1) * b /\ (b * b - 1) * b = b * b * b - b
      <4>1. d <= b * b - 1 /\ b * b - 1 \in Int
        BY <3>1
      <4>2. QED
        BY <4>1, MulPos
    <3>3. QED
      BY <1>2, <3>1, <3>2
  <2>5. ASSUME NEW w \in Int, cube <= (b + w) * d PROVE 1 <= w
    <3>1. CASE w <= 0
      <4>1. (b + w) * d <= b * d
        BY <3>1, MulPos
      <4>2. QED
        BY <2>4, <2>5, <4>1
    <3>2. QED
      BY <3>1
  <2>6. 1 <= v
    <3>1. cube <= (b + v) * d
      BY <1>1, <1>2, <2>1
    <3>2. QED
      BY <2>5, <3>1
  <2>7. ASSUME d <= E PROVE 2 <= v
    <3>1. cube <= (b + (v - 1)) * d /\ v - 1 \in Int
      BY <1>2, <1>3, <2>7
    <3>2. 1 <= v - 1
      BY <2>5, <3>1
    <3>3. QED
      BY <3>2
  <2>8. CASE d <= E
    <3>1. v - 2 \in Nat /\ (b + (v - 2)) * d < cube /\ cube <= (b + (v - 2) + 1) * d
      BY <1>2, <1>3, <2>2, <2>7, <2>8
    <3>2. QED
      BY <1>2, <1>5, <2>3, <2>8, <3>1
  <2>9. CASE ~(d <= E)
    <3>1. v - 1 \in Nat /\ (b + (v - 1)) * d < cube /\ cube <= (b + (v - 1) + 1) * d
      BY <1>2, <1>3, <2>1, <2>6, <2>9
    <3>2. QED
      BY <1>2, <1>5, <2>3, <2>9, <3>1
  <2>10. QED
    BY <2>8, <2>9
<1>6. QED
  BY <1>4, <1>5

(* How reciprocal_word_3by2 lowers the estimate v for the low limb of the divisor. *)
RefineLow(v, p, d1, d0) ==
  LET t == d0 * v
      sum == (p + HighLimb(t)) % Base
      twice == sum > d1 \/ (sum = d1 /\ LowLimb(t) >= d0)
  IN  IF sum >= HighLimb(t) THEN v ELSE IF twice THEN v - 2 ELSE v - 1

(* Lowered for the low limb of the product with d0, v is the reciprocal. *)
LEMMA RefineLowFacts ==
  ASSUME NEW d1 \in 1 .. Base - 1, Normalized(d1), NEW d0 \in 0 .. Base - 1,
         NEW v \in 0 .. Base - 1, NEW miss \in -d1 .. -1, miss = (Base + v) * d1 + d0 - Base * Base
  PROVE  Reciprocal3by2(RefineLow(v, miss + Base, d1, d0), d1 * Base + d0)
<1>1. PICK b \in Nat \ {0} : b = Base /\ b <= 2 * d1
  BY BaseType DEF Normalized
<1>2. PICK t1 \in 0 .. b - 1, t0 \in 0 .. b - 1 :
        t1 = HighLimb(d0 * v) /\ t0 = LowLimb(d0 * v) /\ d0 * v = b * t1 + t0
  <2>1. d0 * v \in 0 .. b * b - 1
    <3>1. d0 * v <= (b - 1) * v
      BY <1>1, MulPos
    <3>2. v * (b - 1) <= b * (b - 1)
      <4>1. b - 1 \in Nat /\ v <= b
        BY <1>1
      <4>2. QED
        BY <4>1, MulPos
    <3>3. b * (b - 1) = b * b - b /\ (b - 1) * v = v * (b - 1)
      OBVIOUS
    <3>4. d0 * v \in Nat
      BY <1>1
    <3>5. QED
      BY <1>1, <3>1, <3>2, <3>3, <3>4
  <2>2. HighLimb(d0 * v) \in 0 .. b - 1 /\ LowLimb(d0 * v) \in 0 .. b - 1
        /\ d0 * v = HighLimb(d0 * v) * b + LowLimb(d0 * v)
    BY <1>1, <2>1, TwoLimbs
  <2>3. QED
    BY <2>2
<1>3. PICK d \in Nat : d = d1 * b + d0
  BY <1>1
<1>4. (miss + b + t1) % b = IF miss + t1 < 0 THEN miss + t1 + b ELSE miss + t1
  <2>1. CASE miss + t1 < 0
    <3>1. miss + b + t1 \in 0 .. b - 1
      BY <1>1, <2>1
    <3>2. (miss + b + t1) % b = miss + b + t1
      BY <3>1, DivSmall
    <3>3. QED
      BY <1>1, <2>1, <3>2
  <2>2. CASE ~(miss + t1 < 0)
    <3>1. miss + t1 \in 0 .. b - 1 /\ miss + b + t1 = b * 1 + (miss + t1) /\ 1 \in Int
          /\ miss + b + t1 \in Int
      BY <1>1, <2>2
    <3>2. (miss + b + t1) % b = miss + t1
      BY <3>1, DivUnique
    <3>3. QED
      BY <2>2, <3>2
  <2>3. QED
    BY <2>1, <2>2
<1>5. /\ miss + t1 < 0 => (b + v) * d < b * b * b /\ b * b * b <= (b + v + 1) * d
      /\ 0 <= miss + t1 =>
           LET sum == miss + t1
               twice == sum > d1 \/ (sum = d1 /\ t0 >= d0)
               w == IF twice THEN v - 2 ELSE v - 1
           IN  w \in Nat /\ (b + w) * d < b * b * b /\ b * b * b <= (b + w + 1) * d
  <2>1. /\ d1 \in 1 .. b - 1 /\ b <= 2 * d1 /\ d0 \in 0 .. b - 1 /\ v \in Nat
        /\ miss = (b + v) * d1 + d0 - b * b
    BY <1>1
  <2>2. Exceeds(b, d1, d0, d, v, miss, t1, t0)
    BY <1>2, <1>3, <2>1 DEF Exceeds
  <2>3. QED
    BY <2>2, ReciprocalLowered
<1>6. CASE miss + t1 < 0
  <2>1. RefineLow(v, miss + Base, d1, d0) = v
    <3>1. (miss + b + t1) % b >= t1
      BY <1>1, <1>4, <1>6
    <3>2. QED
      BY <1>1, <1>2, <3>1 DEF RefineLow
  <2>2. QED
    BY <1>1, <1>3, <1>5, <1>6, <2>1 DEF Reciprocal3by2
<1>7. CASE ~(miss + t1 < 0)
  <2>1. (miss + b + t1) % b = miss + t1 /\ ~(miss + t1 >= t1)
    BY <1>1, <1>4, <1>7
  <2>2. PICK w \in Int : w = IF miss + t1 > d1 \/ (miss + t1 = d1 /\ t0 >= d0) THEN v - 2 ELSE v - 1
    BY <1>1
  <2>3. RefineLow(v, miss + Base, d1, d0) = w
    BY <1>1, <1>2, <2>1, <2>2 DEF RefineLow
  <2>4. w \in Nat /\ (b + w) * d < b * b * b /\ b * b * b <= (b + w + 1) * d
    <3>1. 0 <= miss + t1
      BY <1>7
    <3>2. QED
      BY <1>5, <2>2, <3>1
  <2>5. QED
    BY <1>1, <1>3, <2>3, <2>4 DEF Reciprocal3by2
<1>8. QED
  BY <1>6, <1>7

(* reciprocal_word_3by2 computes the reciprocal of a normalized divisor of two limbs: the
   decrements after each of its two wrapping additions are neither one too few nor one too
   many. *)
THEOREM ReciprocalWord3by2Facts ==
  ASSUME NEW d1 \in 1 .. Base - 1, Normalized(d1), NEW d0 \in 0 .. Base - 1
  PROVE  Reciprocal3by2(ReciprocalWord3by2(d1, d0), d1 * Base + d0)
<1>1. PICK b \in Nat \ {0} : b = Base /\ b <= 2 * d1
  BY BaseType DEF Normalized
<1>2. PICK v \in 0 .. b - 1 : /\ v = ReciprocalWord(d1)
                              /\ (b + v) * d1 < b * b /\ b * b <= (b + v + 1) * d1
  BY <1>1, ReciprocalWordFacts
<1>3. PICK miss \in Int : miss = (b + v) * d1 + d0 - b * b
  BY <1>1
<1>4. PICK p \in 0 .. b - 1 : p = (d1 * v + d0) % b
  <2>1. d1 * v + d0 \in Int
    BY <1>1
  <2>2. QED
    BY <2>1, DivMod
<1>5. /\ miss < 0 => -d1 <= miss /\ p = miss + b /\ d0 <= miss + b
      /\ 0 <= miss => /\ miss < d0 /\ p = miss /\ 1 <= v
                      /\ d1 <= miss => 2 <= v
  <2>1. d1 \in 1 .. b - 1 /\ d0 \in 0 .. b - 1
    BY <1>1
  <2>2. Misses(b, d1, d0, v, miss)
    BY <1>1, <1>2, <1>3, <2>1 DEF Misses
  <2>3. QED
    BY <1>4, <2>2, ReciprocalMiss
<1>6. ReciprocalWord3by2(d1, d0)
        = CASE p >= d0 -> RefineLow(v, p, d1, d0)
            [] p < d0 /\ p < d1  -> RefineLow(v - 1, (p - d1) % b, d1, d0)
            [] p < d0 /\ p >= d1 -> RefineLow(v - 2, (p - 2 * d1) % b, d1, d0)
  BY <1>1, <1>2, <1>4, Zenon DEF ReciprocalWord3by2, RefineLow
<1>7. ASSUME NEW k \in 0 .. 2, v - k \in Nat, NEW e \in Int, e = miss - k * d1, e \in -d1 .. -1
      PROVE  Reciprocal3by2(RefineLow(v - k, e + b, d1, d0), d1 * b + d0)
  <2>1. (b + (v - k)) * d1 + d0 - b * b = miss - k * d1
    <3>1. (b + (v - k)) * d1 = (b + v) * d1 - k * d1
      BY <1>1
    <3>2. QED
      BY <1>1, <1>3, <3>1
  <2>2. PICK w \in 0 .. b - 1 : w = v - k
    BY <1>7
  <2>3. e = (b + w) * d1 + d0 - b * b
    BY <1>7, <2>1, <2>2
  <2>4. QED
    BY <1>1, <1>7, <2>2, <2>3, RefineLowFacts
<1>8. CASE miss < 0
  <2>1. p >= d0 /\ ~(p < d0) /\ p = miss + b
    BY <1>1, <1>4, <1>5, <1>8
  <2>2. ReciprocalWord3by2(d1, d0) = RefineLow(v, p, d1, d0)
    BY <1>6, <2>1, Zenon
  <2>3. v - 0 \in Nat /\ v - 0 = v /\ miss = miss - 0 * d1 /\ miss \in -d1 .. -1 /\ 0 \in 0 .. 2
    BY <1>1, <1>5, <1>8
  <2>4. Reciprocal3by2(RefineLow(v - 0, miss + b, d1, d0), d1 * b + d0)
    BY <1>7, <2>3
  <2>5. QED
    BY <1>1, <2>1, <2>2, <2>3, <2>4
<1>9. CASE ~(miss < 0) /\ miss < d1
  <2>1. p < d0 /\ p < d1 /\ ~(p >= d0) /\ ~(p >= d1) /\ p = miss /\ 1 <= v
    BY <1>1, <1>4, <1>5, <1>9
  <2>2. ReciprocalWord3by2(d1, d0) = RefineLow(v - 1, (p - d1) % b, d1, d0)
    BY <1>6, <2>1, Zenon
  <2>3. (p - d1) % b = miss - d1 + b
    <3>1. miss - d1 + b \in 0 .. b - 1 /\ p - d1 = b * (-1) + (miss - d1 + b) /\ -1 \in Int
          /\ p - d1 \in Int
      BY <1>1, <1>9, <2>1
    <3>2. QED
      BY <3>1, DivUnique
  <2>4. v - 1 \in Nat /\ miss - d1 \in -d1 .. -1 /\ miss - d1 = miss - 1 * d1 /\ 1 \in 0 .. 2
        /\ miss - d1 \in Int
    BY <1>1, <1>9, <2>1
  <2>5. Reciprocal3by2(RefineLow(v - 1, (miss - d1) + b, d1, d0), d1 * b + d0)
    BY <1>7, <2>4
  <2>6. QED
    BY <1>1, <2>2, <2>3, <2>5
<1>10. CASE ~(miss < d1)
  <2>1. p < d0 /\ p >= d1 /\ ~(p >= d0) /\ ~(p < d1) /\ p = miss /\ 2 <= v
    BY <1>1, <1>4, <1>5, <1>10
  <2>2. ReciprocalWord3by2(d1, d0) = RefineLow(v - 2, (p - 2 * d1) % b, d1, d0)
    BY <1>6, <2>1, Zenon
  <2>3. miss - 2 * d1 \in -d1 .. -1
    BY <1>1, <1>4, <1>10, <2>1
  <2>4. (p - 2 * d1) % b = miss - 2 * d1 + b
    <3>1. PICK r \in 0 .. b - 1 : r = miss - 2 * d1 + b
      BY <1>1, <2>3
    <3>2. PICK x \in Int : x = p - 2 * d1
      BY <1>4
    <3>3. x = b * (-1) + r /\ -1 \in Int
      BY <1>1, <2>1, <3>1, <3>2
    <3>4. x % b = r
      BY <3>3, DivUnique
    <3>5. QED
      BY <3>1, <3>2, <3>4
  <2>5. v - 2 \in Nat /\ 2 \in 0 .. 2 /\ miss - 2 * d1 \in Int
    BY <1>1, <2>1
  <2>6. Reciprocal3by2(RefineLow(v - 2, (miss - 2 * d1) + b, d1, d0), d1 * b + d0)
    BY <1>7, <2>3, <2>5
  <2>7. QED
    BY <1>1, <2>2, <2>4, <2>6
<1>11. QED
  BY <1>8, <1>9, <1>10

-----------------------------------------------------------------------------
(* Parts of arrays as numbers.                                             *)

(* An array of n limbs. *)
IsLimbs(f, n) == f \in [0 .. n - 1 -> 0 .. Base - 1]

(* A part of an array is a number of its limbs. *)
LEMMA PartType ==
  ASSUME NEW size \in Nat, NEW f, IsLimbs(f, size), NEW at \in Nat, NEW n \in Nat, at + n <= size
  PROVE  /\ DigitsBelow(Base, [i \in 0 .. n - 1 |-> f[at + i]], n)
         /\ DigitsUpTo([i \in 0 .. n - 1 |-> f[at + i]], n)
         /\ Part(f, at, n) \in 0 .. Power(Base, n) - 1
<1> DEFINE d == [i \in 0 .. n - 1 |-> f[at + i]]
<1>1. \A i \in 0 .. n - 1 : d[i] \in 0 .. Base - 1
  <2>1. \A i \in 0 .. n - 1 : at + i \in 0 .. size - 1
    OBVIOUS
  <2>2. QED
    BY <2>1 DEF IsLimbs
<1> HIDE DEF d
<1>2. DigitsBelow(Base, d, n) /\ DigitsUpTo(d, n)
  BY <1>1, BaseType DEF DigitsBelow, DigitsUpTo
<1>3. FromDigits(Base, d, n) \in 0 .. Power(Base, n) - 1
  <2>1. Base \in Nat \ {0}
    BY BaseType
  <2>2. QED
    BY <1>2, <2>1, FromDigitsBound
<1>4. QED
  BY <1>2, <1>3 DEF Part, Magnitude, d

(* Only the limbs in the part matter. *)
LEMMA PartFrame ==
  ASSUME NEW size \in Nat, NEW f, IsLimbs(f, size), NEW at \in Nat, NEW n \in Nat, at + n <= size,
         NEW g, \A i \in at .. at + n - 1 : g[i] = f[i]
  PROVE  Part(g, at, n) = Part(f, at, n)
<1>1. [i \in 0 .. n - 1 |-> g[at + i]] = [i \in 0 .. n - 1 |-> f[at + i]]
  <2>1. \A i \in 0 .. n - 1 : at + i \in at .. at + n - 1
    OBVIOUS
  <2>2. QED
    BY <2>1
<1>2. QED
  BY <1>1 DEF Part

(* A part of no limbs, and of one. *)
LEMMA PartSmall ==
  ASSUME NEW size \in Nat, NEW f, IsLimbs(f, size), NEW at \in Nat
  PROVE  /\ at <= size => Part(f, at, 0) = 0
         /\ at < size => Part(f, at, 1) = f[at] /\ f[at] \in 0 .. Base - 1
<1>1. Base \in Nat
  BY BaseType
<1>2. ASSUME at <= size PROVE Part(f, at, 0) = 0
  <2>1. DigitsUpTo([i \in 0 .. 0 - 1 |-> f[at + i]], 0)
    BY DEF DigitsUpTo
  <2>2. QED
    BY <1>1, <2>1, FromDigitsType DEF Part, Magnitude
<1>3. ASSUME at < size PROVE Part(f, at, 1) = f[at] /\ f[at] \in 0 .. Base - 1
  <2> DEFINE d == [i \in 0 .. 1 - 1 |-> f[at + i]]
  <2>1. f[at] \in 0 .. Base - 1
    BY <1>3 DEF IsLimbs
  <2>2. d[0] = f[at]
    OBVIOUS
  <2> HIDE DEF d
  <2>3. DigitsUpTo(d, 0 + 1) /\ DigitsUpTo(d, 0)
    BY <2>1, <2>2, <1>1 DEF DigitsUpTo
  <2>4. FromDigits(Base, d, 0 + 1) = FromDigits(Base, d, 0) + d[0] * Power(Base, 0)
        /\ FromDigits(Base, d, 0) = 0
    BY <1>1, <2>3, FromDigitsStep, FromDigitsType
  <2>5. Power(Base, 0) = 1 /\ 0 + 1 = 1
    BY <1>1, PowerOne
  <2>6. FromDigits(Base, d, 1) = f[at]
    BY <1>1, <2>1, <2>2, <2>4, <2>5
  <2>7. QED
    BY <2>1, <2>6 DEF Part, Magnitude, d
<1>4. QED
  BY <1>2, <1>3

(* Two adjacent parts. *)
LEMMA PartSplit ==
  ASSUME NEW size \in Nat, NEW f, IsLimbs(f, size), NEW at \in Nat, NEW n \in Nat, NEW k \in Nat,
         at + n + k <= size
  PROVE  Part(f, at, n + k) = Part(f, at, n) + Power(Base, n) * Part(f, at + n, k)
<1> DEFINE d == [i \in 0 .. n + k - 1 |-> f[at + i]]
           c == [i \in 0 .. n - 1 |-> f[at + i]]
           e == [i \in 0 .. k - 1 |-> f[at + n + i]]
<1>1. n + k \in Nat /\ at + (n + k) <= size /\ at + n <= size /\ Base \in Nat /\ at + n \in Nat
  BY BaseType
<1>2. DigitsUpTo(d, n + k) /\ DigitsUpTo(c, n)
  <2>1. DigitsUpTo(d, n + k)
    <3>1. PICK m \in Nat : m = n + k
      OBVIOUS
    <3>2. DigitsUpTo([i \in 0 .. m - 1 |-> f[at + i]], m)
      BY <1>1, <3>1, PartType
    <3>3. QED
      BY <3>1, <3>2
  <2>2. DigitsUpTo(c, n)
    BY <1>1, PartType, Zenon
  <2>3. QED
    BY <2>1, <2>2
<1>3. \A i \in 0 .. k - 1 : e[i] = d[n + i]
  <2>1. \A i \in 0 .. k - 1 : n + i \in 0 .. n + k - 1 /\ at + (n + i) = at + n + i
    OBVIOUS
  <2>2. QED
    BY <2>1
<1>4. \A i \in 0 .. n - 1 : d[i] = c[i]
  OBVIOUS
<1>5. Part(f, at, n + k) = FromDigits(Base, d, n + k) /\ Part(f, at, n) = FromDigits(Base, c, n)
      /\ Part(f, at + n, k) = FromDigits(Base, e, k)
  BY DEF Part, Magnitude
<1> HIDE DEF d, c, e
<1>6. FromDigits(Base, d, n) = FromDigits(Base, c, n)
  BY <1>1, <1>2, <1>4, FromDigitsFrame
<1>7. FromDigits(Base, d, n + k) = FromDigits(Base, d, n) + Power(Base, n) * FromDigits(Base, e, k)
  BY <1>1, <1>2, <1>3, FromDigitsSplit
<1>8. QED
  BY <1>5, <1>6, <1>7

(* A part whose limbs are the digits of a number. *)
LEMMA PartOfDigits ==
  ASSUME NEW f, NEW at \in Nat, NEW n \in Nat, NEW v \in Int,
         \A i \in 0 .. n - 1 : f[at + i] = Digit(v, i)
  PROVE  Part(f, at, n) = v % Power(Base, n)
<1> DEFINE d == [i \in 0 .. n - 1 |-> f[at + i]]
<1>1. Base \in Nat \ {0}
  BY BaseType
<1>2. \A i \in 0 .. n - 1 : d[i] = (v \div Power(Base, i)) % Base
  BY DEF Digit
<1> HIDE DEF d
<1>3. FromDigits(Base, d, n) = v % Power(Base, n)
  BY <1>1, <1>2, DigitsOfNumber
<1>4. QED
  BY <1>3 DEF Part, Magnitude, d

(* An array with a part overwritten. *)
LEMMA PatchedFacts ==
  ASSUME NEW size \in Nat, NEW f, IsLimbs(f, size), NEW at \in Nat, NEW n \in Nat, at + n <= size,
         NEW v \in Int
  PROVE  /\ IsLimbs(Patched(f, at, n, v), size)
         /\ Part(Patched(f, at, n, v), at, n) = v % Power(Base, n)
         /\ \A i \in 0 .. size - 1 : ~(at <= i /\ i < at + n) => Patched(f, at, n, v)[i] = f[i]
<1>1. DOMAIN f = 0 .. size - 1
  BY DEF IsLimbs
<1>2. ASSUME NEW i \in 0 .. size - 1 PROVE Patched(f, at, n, v)[i] \in 0 .. Base - 1
  <2>1. CASE at <= i /\ i < at + n
    <3>1. i - at \in Nat
      BY <2>1
    <3>2. QED
      BY <1>1, <2>1, <3>1, DigitType DEF Patched
  <2>2. CASE ~(at <= i /\ i < at + n)
    BY <1>1, <2>2 DEF Patched, IsLimbs
  <2>3. QED
    BY <2>1, <2>2
<1>3. IsLimbs(Patched(f, at, n, v), size)
  <2>1. Patched(f, at, n, v) = [i \in 0 .. size - 1 |-> Patched(f, at, n, v)[i]]
    BY <1>1 DEF Patched
  <2>2. QED
    BY <1>2, <2>1 DEF IsLimbs
<1>4. \A i \in 0 .. n - 1 : Patched(f, at, n, v)[at + i] = Digit(v, i)
  <2>1. \A i \in 0 .. n - 1 : /\ at + i \in 0 .. size - 1 /\ (at + i) - at = i
                              /\ at <= at + i /\ at + i < at + n
    OBVIOUS
  <2>2. QED
    BY <1>1, <2>1 DEF Patched
<1>5. Part(Patched(f, at, n, v), at, n) = v % Power(Base, n)
  BY <1>4, PartOfDigits
<1>6. QED
  BY <1>1, <1>3, <1>5 DEF Patched

(* The limbs of a number. *)
LEMMA LimbsFacts ==
  ASSUME NEW n \in Nat, NEW v \in Nat, v < Power(Base, n)
  PROVE  IsLimbs(Limbs(v, n), n) /\ Part(Limbs(v, n), 0, n) = v
<1>1. \A i \in 0 .. n - 1 : Limbs(v, n)[i] = Digit(v, i) /\ Digit(v, i) \in 0 .. Base - 1
  <2>1. v \in Int
    OBVIOUS
  <2>2. ASSUME NEW i \in 0 .. n - 1 PROVE Digit(v, i) \in 0 .. Base - 1
    <3>1. i \in Nat
      OBVIOUS
    <3>2. QED
      BY <2>1, <3>1, DigitType
  <2>3. QED
    BY <2>2 DEF Limbs
<1>2. IsLimbs(Limbs(v, n), n)
  BY <1>1 DEF IsLimbs, Limbs
<1>3. Part(Limbs(v, n), 0, n) = v % Power(Base, n)
  <2>1. \A i \in 0 .. n - 1 : Limbs(v, n)[0 + i] = Digit(v, i)
    BY <1>1
  <2>2. QED
    BY <2>1, PartOfDigits
<1>4. v % Power(Base, n) = v
  <2>1. Power(Base, n) \in Nat \ {0}
    BY BasePower
  <2>2. QED
    BY <2>1, DivSmall
<1>5. QED
  BY <1>2, <1>3, <1>4

-----------------------------------------------------------------------------
(* One digit, on numbers.                                                  *)

(* A window of a dividend: U above the power p, and low below it. The divisor is D above p
   and lowd below it; q and rem are the quotient and the remainder of U by D. *)
Estimated(b, p, D, lowd, U, low, q, rem) ==
  /\ b \in Nat /\ p \in Nat \ {0} /\ D \in Nat /\ b <= D /\ D < b * b
  /\ lowd \in 0 .. p - 1 /\ low \in 0 .. p - 1
  /\ q \in 0 .. b - 1 /\ rem \in 0 .. D - 1 /\ U = q * D + rem

(* The low limbs take less than b out of the remainder. *)
LEMMA LowBorrow ==
  ASSUME NEW b, NEW p, NEW D, NEW lowd, NEW U, NEW low, NEW q, NEW rem,
         Estimated(b, p, D, lowd, U, low, q, rem)
  PROVE  LET part == low - q * lowd
         IN  /\ part \div p \in Int /\ part \div p <= 0 /\ -b < part \div p
             /\ part % p \in 0 .. p - 1 /\ part = p * (part \div p) + (part % p)
             /\ q = 0 => part \div p = 0
<1> USE DEF Estimated
<1>1. PICK part \in Int : part = low - q * lowd
  OBVIOUS
<1>2. PICK h \in Int, l \in 0 .. p - 1 : h = part \div p /\ l = part % p /\ part = p * h + l
  BY DivMod
<1>3. q * lowd \in Nat
  OBVIOUS
<1>4. h <= 0
  <2>1. part < p * 1 /\ 1 \in Int
    BY <1>1, <1>3
  <2>2. part \div p < 1
    BY <2>1, DivBelow
  <2>3. QED
    BY <1>2, <2>2
<1>5. -b < h
  <2>1. q * lowd <= (b - 1) * lowd
    BY MulPos
  <2>2. lowd * (b - 1) <= p * (b - 1)
    <3>1. b - 1 \in Nat /\ lowd <= p
      OBVIOUS
    <3>2. QED
      BY <3>1, MulPos
  <2>3. (b - 1) * lowd = lowd * (b - 1) /\ p * (b - 1) = -(p * (1 - b)) /\ p * (1 - b) \in Int
    OBVIOUS
  <2>4. p * (1 - b) <= part /\ 1 - b \in Int
    BY <1>1, <2>1, <2>2, <2>3
  <2>5. 1 - b <= part \div p
    BY <2>4, DivBelow
  <2>6. QED
    BY <1>2, <2>5
<1>6. ASSUME q = 0 PROVE h = 0
  <2>1. part \in 0 .. p - 1
    BY <1>1, <1>6
  <2>2. QED
    BY <1>2, <2>1, DivSmall
<1>7. QED
  BY <1>1, <1>2, <1>4, <1>5, <1>6

(* Without a borrow out of the top limbs the digit is the estimate. *)
LEMMA DigitEstimated ==
  ASSUME NEW b, NEW p, NEW D, NEW lowd, NEW U, NEW low, NEW q, NEW rem,
         Estimated(b, p, D, lowd, U, low, q, rem),
         NEW h \in Int, h <= 0, NEW l \in 0 .. p - 1, low - q * lowd = p * h + l, 0 <= rem + h
  PROVE  /\ rem + h \in 0 .. D - 1
         /\ U * p + low - q * (D * p + lowd) = (rem + h) * p + l
         /\ (rem + h) * p + l \in 0 .. D * p + lowd - 1
<1> USE DEF Estimated
<1>1. U * p = q * (D * p) + rem * p /\ q * (D * p + lowd) = q * (D * p) + q * lowd
  OBVIOUS
<1>2. (rem + h) * p = rem * p + p * h /\ q * (D * p) \in Int /\ rem * p \in Int /\ p * h \in Int
      /\ q * lowd \in Int
  OBVIOUS
<1>3. U * p + low - q * (D * p + lowd) = (rem + h) * p + l
  BY <1>1, <1>2
<1>4. (rem + h + 1) * p <= D * p
  BY MulPos
<1>5. (rem + h + 1) * p = (rem + h) * p + p /\ (rem + h) * p \in Nat
  OBVIOUS
<1>6. QED
  BY <1>3, <1>4, <1>5

(* After a borrow the divisor is added back, once, and carries out of the top limbs. *)
LEMMA DigitCorrected ==
  ASSUME NEW b, NEW p, NEW D, NEW lowd, NEW U, NEW low, NEW q, NEW rem,
         Estimated(b, p, D, lowd, U, low, q, rem),
         NEW h \in Int, -b < h, q = 0 => h = 0, NEW l \in 0 .. p - 1,
         low - q * lowd = p * h + l, rem + h < 0
  PROVE  LET back == l + lowd
             sum == ((rem + h) % (b * b)) + D + (back \div p)
         IN  /\ q - 1 \in 0 .. b - 1 /\ sum >= b * b
             /\ sum % (b * b) = sum - b * b /\ sum - b * b \in 0 .. b * b - 1
             /\ back % p \in 0 .. p - 1
             /\ U * p + low - (q - 1) * (D * p + lowd) = (sum - b * b) * p + (back % p)
             /\ (sum - b * b) * p + (back % p) \in 0 .. D * p + lowd - 1
<1> USE DEF Estimated
<1>1. PICK back \in Nat : back = l + lowd
  OBVIOUS
<1>2. PICK c \in Int, s \in 0 .. p - 1 : c = back \div p /\ s = back % p /\ back = p * c + s
  <2>1. back \in Int
    OBVIOUS
  <2>2. QED
    BY <2>1, DivMod
<1>3. c \in 0 .. 1
  <2>1. back < p * 2 /\ p * 0 <= back /\ 2 \in Int /\ 0 \in Int /\ back \in Int
    BY <1>1
  <2>2. back \div p < 2 /\ 0 <= back \div p
    BY <2>1, DivBelow
  <2>3. QED
    BY <1>2, <2>2
<1>4. PICK bb \in Nat \ {0} : bb = b * b /\ b <= bb /\ D < bb
  <2>1. b * b \in Nat /\ 1 <= b
    OBVIOUS
  <2>2. 1 * b <= b * b
    BY <2>1, MulPos
  <2>3. QED
    BY <2>1, <2>2
<1>5. (rem + h) % bb = rem + h + bb
  <2>1. rem + h + bb \in 0 .. bb - 1 /\ rem + h = bb * (-1) + (rem + h + bb) /\ -1 \in Int
        /\ rem + h \in Int
    BY <1>4
  <2>2. QED
    BY <2>1, DivUnique
<1>6. PICK e \in Nat : e = rem + h + D + c /\ e <= D
  BY <1>3
<1>7. (e + bb) % bb = e
  <2>1. e \in 0 .. bb - 1 /\ e + bb = bb * 1 + e /\ 1 \in Int /\ e + bb \in Int
    BY <1>4, <1>6
  <2>2. QED
    BY <2>1, DivUnique
<1>8. q - 1 \in 0 .. b - 1
  OBVIOUS
<1>9. U * p + low - (q - 1) * (D * p + lowd) = e * p + s
  <2>1. U * p = q * (D * p) + rem * p
        /\ (q - 1) * (D * p + lowd) = q * (D * p) + q * lowd - D * p - lowd
    OBVIOUS
  <2>2. e * p = rem * p + p * h + D * p + p * c
    BY <1>6
  <2>3. q * (D * p) \in Int /\ rem * p \in Int /\ p * h \in Int /\ q * lowd \in Int /\ D * p \in Int
        /\ p * c \in Int
    BY <1>3
  <2>4. QED
    BY <1>1, <1>2, <2>1, <2>2, <2>3
<1>10. e * p + s \in 0 .. D * p + lowd - 1
  <2>1. CASE c = 0
    <3>1. (e + 1) * p <= D * p
      BY <1>6, <2>1, MulPos
    <3>2. (e + 1) * p = e * p + p /\ e * p \in Nat
      OBVIOUS
    <3>3. QED
      BY <3>1, <3>2
  <2>2. CASE c = 1
    <3>1. s < lowd
      BY <1>1, <1>2, <2>2
    <3>2. e * p <= D * p /\ e * p \in Nat
      BY <1>6, MulPos
    <3>3. QED
      BY <3>1, <3>2
  <2>3. QED
    BY <1>3, <2>1, <2>2
<1>11. QED
  <2>1. ((rem + h) % bb) + D + c = e + bb /\ e + bb >= bb /\ e + bb - bb = e /\ e \in 0 .. bb - 1
    BY <1>4, <1>5, <1>6
  <2>2. QED
    BY <1>1, <1>2, <1>4, <1>7, <1>8, <1>9, <1>10, <2>1

(* The largest digit where the window begins with the top pair of the divisor, W being the
   window without its lowest limb u. *)
BeginsWithDivisor(b, p, D, lowd, u, W, V) ==
  /\ b \in Nat \ {0} /\ p \in Nat \ {0} /\ D \in Nat /\ b <= D /\ lowd \in 0 .. p - 1
  /\ u \in 0 .. b - 1 /\ W \in Nat /\ W < D * p + lowd
  /\ V \in Nat /\ V = b * W + u /\ (D * b) * p <= V

LEMMA DigitSaturated ==
  ASSUME NEW b, NEW p, NEW D, NEW lowd, NEW u, NEW W, NEW V,
         BeginsWithDivisor(b, p, D, lowd, u, W, V)
  PROVE  V - (b - 1) * (D * p + lowd) \in 0 .. D * p + lowd - 1
<1> /\ b \in Nat \ {0} /\ p \in Nat \ {0} /\ D \in Nat /\ b <= D /\ lowd \in 0 .. p - 1
    /\ u \in 0 .. b - 1 /\ W \in Nat /\ W < D * p + lowd
    /\ V \in Nat /\ V = b * W + u /\ (D * b) * p <= V
  BY DEF BeginsWithDivisor
<1>1. PICK d \in Nat : d = D * p + lowd
  OBVIOUS
<1>2. (b - 1) * d = b * d - d
  OBVIOUS
<1>3. b * d = (D * b) * p + b * lowd
  BY <1>1
<1>4. b * lowd <= d
  <2>1. lowd * (b - 1) <= p * (b - 1)
    <3>1. b - 1 \in Nat /\ lowd <= p
      OBVIOUS
    <3>2. QED
      BY <3>1, MulPos
  <2>2. lowd * (b - 1) = b * lowd - lowd
    OBVIOUS
  <2>3. (b - 1) * p <= D * p
    <3>1. b - 1 <= D
      OBVIOUS
    <3>2. QED
      BY <3>1, MulPos
  <2>4. p * (b - 1) = (b - 1) * p
    OBVIOUS
  <2>5. QED
    BY <1>1, <2>1, <2>2, <2>3, <2>4
<1>5. V < b * d
  <2>1. (W + 1) * b <= d * b
    BY <1>1, MulPos
  <2>2. (W + 1) * b = b * W + b /\ d * b = b * d /\ b * W \in Nat
    OBVIOUS
  <2>3. QED
    BY <2>1, <2>2
<1>6. b * d \in Nat /\ (D * b) * p \in Nat /\ b * lowd \in Nat
  OBVIOUS
<1>7. QED
  BY <1>1, <1>2, <1>3, <1>4, <1>5, <1>6

(* A top limb not below that of the divisor leaves room for the second largest digit. *)
LEMMA SecondLargest ==
  ASSUME NEW b \in Nat \ {0}, NEW q \in Nat \ {0}, NEW P \in Nat, P = b * q, 2 <= b,
         NEW d1 \in Nat, b <= 2 * d1, NEW d \in Nat, d < (d1 + 1) * q, NEW top \in Nat, d1 <= top
  PROVE  (b - 2) * d <= top * P
<1>1. d * (b - 2) <= ((d1 + 1) * q) * (b - 2)
  <2>1. b - 2 \in Nat /\ (d1 + 1) * q \in Int
    OBVIOUS
  <2>2. QED
    BY <2>1, MulPos
<1>2. ((d1 + 1) * q) * (b - 2) = (b * d1 + b - 2 * d1 - 2) * q
  OBVIOUS
<1>3. (b * d1 + b - 2 * d1 - 2) * q <= (b * top) * q
  <2>1. d1 * b <= top * b /\ d1 * b = b * d1 /\ top * b = b * top
          /\ b * top \in Int /\ b * d1 \in Int
    BY MulPos
  <2>2. b * d1 + b - 2 * d1 - 2 <= b * top
    BY <2>1
  <2>3. QED
    BY <2>1, <2>2, MulPos
<1>4. (b * top) * q = top * (b * q) /\ d * (b - 2) = (b - 2) * d
  OBVIOUS
<1>5. QED
  BY <1>1, <1>2, <1>3, <1>4

(* Where the largest digit overshoots although the top limb is not below that of the
   divisor, adding the divisor back carries out of the window: P is the power above it. *)
LEMMA TailOvershoot ==
  ASSUME NEW b \in Nat \ {0}, NEW q \in Nat \ {0}, NEW P \in Nat, P = b * q,
         NEW d1 \in Nat, b <= 2 * d1, NEW d \in Nat, d < (d1 + 1) * q, NEW top \in Nat, d1 <= top,
         NEW w \in Nat, NEW cy \in Int, top < cy, NEW rest \in 0 .. P - 1,
         w - (b - 1) * d = rest - cy * P
  PROVE  rest + d >= P
<1>1. (b - 2) * d <= top * P \/ b = 1
  <2> SUFFICES ASSUME b # 1 PROVE (b - 2) * d <= top * P
    OBVIOUS
  <2>1. 2 <= b
    OBVIOUS
  <2>2. QED
    BY <2>1, SecondLargest
<1>2. rest + d = w + (cy * P - (b - 2) * d)
  <2>1. (b - 1) * d = (b - 2) * d + d
    OBVIOUS
  <2>2. (b - 2) * d \in Int /\ cy * P \in Int
    OBVIOUS
  <2>3. QED
    BY <2>1, <2>2
<1>3. (top + 1) * P <= cy * P /\ (top + 1) * P = top * P + P
  <2>1. top + 1 <= cy
    OBVIOUS
  <2>2. QED
    BY <2>1, MulPos
<1>4. (b - 2) * d \in Int /\ cy * P \in Int /\ top * P \in Nat
  OBVIOUS
<1>5. CASE b = 1
  <2>1. (b - 2) * d = -d
    BY <1>5
  <2>2. QED
    BY <1>2, <1>3, <1>4, <2>1
<1>6. QED
  BY <1>1, <1>2, <1>3, <1>4, <1>5

(* A part and the limb above it, the two limbs above it, or the limb below it. *)
LEMMA PartEnds ==
  ASSUME NEW size \in Nat, NEW f, IsLimbs(f, size), NEW at \in Nat, NEW n \in Nat
  PROVE  /\ at + n + 1 <= size =>
              Part(f, at, n + 1) = Part(f, at, n) + Power(Base, n) * f[at + n]
         /\ at + n + 2 <= size =>
              Part(f, at, n + 2) = Part(f, at, n)
                                     + Power(Base, n) * (f[at + n + 1] * Base + f[at + n])
         /\ at + 1 + n <= size => Part(f, at, 1 + n) = f[at] + Base * Part(f, at + 1, n)
<1>1. Base \in Nat /\ Power(Base, 1) = Base /\ at + n \in Nat /\ at + 1 \in Nat
  BY BaseType, PowerOne
<1>2. ASSUME at + n + 1 <= size
      PROVE  Part(f, at, n + 1) = Part(f, at, n) + Power(Base, n) * f[at + n]
  <2>1. Part(f, at + n, 1) = f[at + n]
    BY <1>1, <1>2, PartSmall
  <2>2. Part(f, at, n + 1) = Part(f, at, n) + Power(Base, n) * Part(f, at + n, 1)
    BY <1>2, PartSplit
  <2>3. QED
    BY <2>1, <2>2
<1>3. ASSUME at + n + 2 <= size
      PROVE  Part(f, at, n + 2) = Part(f, at, n)
                                    + Power(Base, n) * (f[at + n + 1] * Base + f[at + n])
  <2>1. /\ Part(f, at + n, 1) = f[at + n] /\ Part(f, at + n + 1, 1) = f[at + n + 1]
        /\ f[at + n] \in 0 .. Base - 1 /\ f[at + n + 1] \in 0 .. Base - 1
    <3>1. at + n + 1 \in Nat /\ at + n < size /\ at + n + 1 < size
      BY <1>3
    <3>2. QED
      BY <1>1, <3>1, PartSmall
  <2>2. Part(f, at + n, 1 + 1)
          = Part(f, at + n, 1) + Power(Base, 1) * Part(f, at + n + 1, 1)
    <3>1. (at + n) + 1 + 1 <= size /\ 1 \in Nat
      BY <1>3
    <3>2. QED
      BY <1>1, <3>1, PartSplit
  <2>3. Part(f, at, n + 2) = Part(f, at, n) + Power(Base, n) * Part(f, at + n, 2)
    BY <1>3, PartSplit
  <2>4. Part(f, at + n, 2) = f[at + n + 1] * Base + f[at + n]
    BY <1>1, <2>1, <2>2
  <2>5. QED
    BY <2>3, <2>4
<1>4. ASSUME at + 1 + n <= size PROVE Part(f, at, 1 + n) = f[at] + Base * Part(f, at + 1, n)
  <2>1. Part(f, at, 1) = f[at]
    BY <1>4, PartSmall
  <2>2. Part(f, at, 1 + n) = Part(f, at, 1) + Power(Base, 1) * Part(f, at + 1, n)
    BY <1>4, PartSplit
  <2>3. QED
    BY <1>1, <2>1, <2>2
<1>5. QED
  BY <1>2, <1>3, <1>4

-----------------------------------------------------------------------------
(* The state of a call.                                                    *)

Arrays == UNION {[0 .. n - 1 -> 0 .. Base - 1] : n \in Nat}

KnuthCalls ==
  [pc : {"digit", "tail", "last", "finish"}, approx : BOOLEAN, num : Nat, den : Nat,
   m : Nat, n : Nat, kept : Nat, shift : Nat, d : Arrays, dinv : Nat, u : Arrays, top : Nat,
   j : Nat, exact : BOOLEAN, sound : BOOLEAN, quotient : Arrays]

(* The sizes of a call fit each other, its divisor is normalized and its reciprocal that of
   the top pair, and no assertion failed. *)
CallFits(k) ==
  /\ k \in KnuthCalls /\ k.sound = TRUE
  /\ 2 <= k.kept /\ k.kept <= k.n /\ k.n <= k.m /\ k.j <= k.m - k.n
  /\ IsLimbs(k.d, k.n) /\ Normalized(k.d[k.n - 1]) /\ Reciprocal3by2(k.dinv, TopPair(k))
  /\ IsLimbs(k.u, k.m + 1) /\ k.top < Base /\ IsLimbs(k.quotient, k.m - k.n + 2)
  /\ k.pc = "tail" => k.j <= k.n - 2
  /\ k.pc = "last" => k.j = 0
  /\ k.approx \/ (k.kept = k.n /\ k.pc \in {"digit", "finish"})

(* Where the digit's window lies. *)
LEMMA WindowLies ==
  ASSUME NEW k, CallFits(k), k.pc # "finish"
  PROVE  /\ k.m \in Nat /\ k.n \in Nat /\ k.j \in Nat /\ k.j + k.n <= k.m
         /\ Low(k) \in Nat /\ Low(k) + 2 <= k.n
         /\ WindowBase(k) \in Nat /\ WindowBase(k) + Low(k) = k.j + k.n - 2
         /\ k.n - 2 - Low(k) \in Nat
<1>1. /\ k.m \in Nat /\ k.n \in Nat /\ k.j \in Nat /\ k.kept \in Nat
      /\ k.pc \in {"digit", "tail", "last", "finish"}
  BY DEF CallFits, KnuthCalls
<1>2. CASE k.pc = "digit"
  <2>1. Low(k) = k.kept - 2
    BY <1>2 DEF Low
  <2>2. QED
    BY <1>1, <2>1 DEF CallFits, WindowBase
<1>3. CASE k.pc # "digit"
  <2>1. Low(k) = k.j /\ k.j <= k.n - 2
    BY <1>1, <1>3 DEF Low, CallFits
  <2>2. QED
    BY <1>1, <2>1 DEF CallFits, WindowBase
<1>4. QED
  BY <1>2, <1>3

(* The divisor's top pair, and the pair with the limbs that the digit takes below it. *)
LEMMA DivisorFacts ==
  ASSUME NEW k, CallFits(k), NEW low \in Nat, low + 2 <= k.n
  PROVE  /\ TopPair(k) \in Nat /\ Base <= TopPair(k) /\ TopPair(k) < Base * Base
         /\ Base * Base <= 2 * TopPair(k)
         /\ Part(k.d, k.n - 2 - low, low) \in 0 .. Power(Base, low) - 1
         /\ Part(k.d, k.n - 2 - low, low + 2)
              = TopPair(k) * Power(Base, low) + Part(k.d, k.n - 2 - low, low)
<1>1. PICK n \in Nat : n = k.n /\ IsLimbs(k.d, n) /\ low + 2 <= n
  BY DEF CallFits, KnuthCalls
<1>2. PICK b \in Nat \ {0} : b = Base /\ b >= 2
  BY BaseType
<1>3. PICK d1 \in 0 .. b - 1, d0 \in 0 .. b - 1 : d1 = k.d[n - 1] /\ d0 = k.d[n - 2] /\ b <= 2 * d1
  <2>1. n - 1 \in 0 .. n - 1 /\ n - 2 \in 0 .. n - 1
    BY <1>1
  <2>2. k.d[n - 1] \in 0 .. b - 1 /\ k.d[n - 2] \in 0 .. b - 1
    BY <1>1, <1>2, <2>1 DEF IsLimbs
  <2>3. b <= 2 * k.d[n - 1]
    BY <1>1, <1>2, <2>2 DEF CallFits, Normalized
  <2>4. QED
    BY <2>2, <2>3
<1>4. PICK D \in Nat : D = d1 * b + d0 /\ TopPair(k) = D
  BY <1>1, <1>2, <1>3 DEF TopPair
<1>5. b <= D /\ D < b * b /\ b * b <= 2 * D
  <2>1. 1 * b <= d1 * b /\ d1 * b <= (b - 1) * b /\ b * b <= (2 * d1) * b
    BY <1>2, <1>3, MulPos
  <2>2. (b - 1) * b = b * b - b /\ (2 * d1) * b = 2 * (d1 * b) /\ d1 * b \in Nat /\ b * b \in Nat
    OBVIOUS
  <2>3. QED
    BY <1>4, <2>1, <2>2
<1>6. PICK at \in Nat : at = n - 2 - low /\ at + low + 2 = n
  BY <1>1
<1>7. Part(k.d, at, low) \in 0 .. Power(Base, low) - 1
  <2>1. at + low <= n
    BY <1>6
  <2>2. QED
    BY <1>1, <2>1, PartType
<1>8. Part(k.d, at, low + 2)
        = Part(k.d, at, low) + Power(Base, low) * (k.d[at + low + 1] * Base + k.d[at + low])
  <2>1. at + low + 2 <= n
    BY <1>6
  <2>2. QED
    BY <1>1, <2>1, PartEnds
<1>9. at + low + 1 = n - 1 /\ at + low = n - 2
  BY <1>6
<1>10. PICK p \in Nat, x \in Nat : p = Power(Base, low) /\ x = Part(k.d, at, low)
  BY <1>7, BasePower
<1>11. Part(k.d, at, low + 2) = D * p + x
  <2>1. Part(k.d, at, low + 2) = x + p * D
    BY <1>2, <1>3, <1>4, <1>8, <1>9, <1>10
  <2>2. QED
    BY <2>1
<1>12. QED
  BY <1>1, <1>2, <1>4, <1>5, <1>6, <1>7, <1>10, <1>11

(* The limb above the window and the window's top limb. *)
High(k) == k.top * Base + k.u[k.j + k.n - 1]

(* Both with the next limb. *)
HighThree(k) == High(k) * Base + k.u[k.j + k.n - 2]

LEMMA HighType ==
  ASSUME NEW k, CallFits(k), k.pc # "finish"
  PROVE  /\ k.top \in 0 .. Base - 1 /\ k.u[k.j + k.n - 1] \in 0 .. Base - 1
         /\ k.u[k.j + k.n - 2] \in 0 .. Base - 1 /\ High(k) \in Nat /\ HighThree(k) \in Nat
<1>1. k.top \in Nat /\ k.top < Base /\ IsLimbs(k.u, k.m + 1) /\ k.n >= 2
  BY DEF CallFits, KnuthCalls
<1>2. k.j + k.n - 1 \in 0 .. (k.m + 1) - 1 /\ k.j + k.n - 2 \in 0 .. (k.m + 1) - 1
  BY <1>1, WindowLies
<1>3. k.u[k.j + k.n - 1] \in 0 .. Base - 1 /\ k.u[k.j + k.n - 2] \in 0 .. Base - 1
  BY <1>1, <1>2 DEF IsLimbs
<1>4. QED
  BY <1>1, <1>3, BaseType DEF High, HighThree

(* The estimate is the quotient by the top pair. *)
LEMMA EstimateFacts ==
  ASSUME NEW k, CallFits(k), k.pc # "finish", High(k) < TopPair(k)
  PROVE  LET step == Estimate(k)
         IN  Estimated(Base, Power(Base, Low(k)), TopPair(k), Part(k.d, k.n - 2 - Low(k), Low(k)),
                       HighThree(k), Part(k.u, WindowBase(k), Low(k)),
                       step.quotient, step.remainder)
<1>1. Low(k) \in Nat /\ Low(k) + 2 <= k.n /\ WindowBase(k) \in Nat
      /\ WindowBase(k) + Low(k) <= k.m + 1 /\ k.m + 1 \in Nat
  BY WindowLies
<1>2. /\ TopPair(k) \in Nat /\ Base <= TopPair(k) /\ TopPair(k) < Base * Base
      /\ Base * Base <= 2 * TopPair(k)
      /\ Part(k.d, k.n - 2 - Low(k), Low(k)) \in 0 .. Power(Base, Low(k)) - 1
  BY <1>1, DivisorFacts
<1>3. Part(k.u, WindowBase(k), Low(k)) \in 0 .. Power(Base, Low(k)) - 1
  <2>1. IsLimbs(k.u, k.m + 1)
    BY DEF CallFits
  <2>2. QED
    BY <1>1, <2>1, PartType
<1>4. Reciprocal3by2(k.dinv, TopPair(k))
  BY DEF CallFits
<1>5. PICK D \in Nat, h \in Nat, u0 \in 0 .. Base - 1 :
        D = TopPair(k) /\ h = High(k) /\ u0 = k.u[k.j + k.n - 2]
  BY <1>2, HighType
<1>6. h \in 0 .. D - 1
  BY <1>5
<1>7. /\ Div3by2Preinv(h, u0, D, k.dinv) = [quotient |-> (h * Base + u0) \div D,
                                            remainder |-> (h * Base + u0) % D]
      /\ (h * Base + u0) \div D \in 0 .. Base - 1 /\ (h * Base + u0) % D \in 0 .. D - 1
  BY <1>2, <1>4, <1>5, <1>6, Div3by2Facts
<1>8. Estimate(k) = Div3by2Preinv(h, u0, D, k.dinv)
  BY <1>5 DEF Estimate, High
<1>9. PICK U \in Nat : U = h * Base + u0 /\ U = HighThree(k)
  BY <1>5, BaseType DEF HighThree
<1>10. PICK q \in Int, r \in 0 .. D - 1 : q = U \div D /\ r = U % D /\ U = D * q + r
  <2>1. U \in Int /\ D \in Nat \ {0}
    BY <1>2, <1>5, BaseType
  <2>2. QED
    BY <2>1, DivMod
<1>11. Estimate(k).quotient = q /\ Estimate(k).remainder = r /\ q \in 0 .. Base - 1
  BY <1>7, <1>8, <1>9, <1>10
<1>12. U = q * D + r
  BY <1>10
<1>13. Power(Base, Low(k)) \in Nat \ {0} /\ Base \in Nat
  BY <1>1, BasePower, BaseType
<1>14. QED
  BY <1>2, <1>3, <1>5, <1>9, <1>10, <1>11, <1>12, <1>13 DEF Estimated

(* What is left of a window, two limbs high above the power p of the base, after a digit q. *)
Remains(p, D, lowd, U, low, q, high, rest) ==
  /\ high \in 0 .. Base * Base - 1 /\ rest \in 0 .. p - 1
  /\ U * p + low - q * (D * p + lowd) = high * p + rest
  /\ high * p + rest < D * p + lowd

(* Whatever the low limbs are, the digit is right after at most one correction. *)
LEMMA SubtractedFacts ==
  ASSUME NEW k, CallFits(k), k.pc # "finish", High(k) < TopPair(k),
         NEW result, result = Subtracted(k, Estimate(k), Low(k))
  PROVE  /\ result.q \in 0 .. Base - 1 /\ result.sound = TRUE
         /\ Remains(Power(Base, Low(k)), TopPair(k), Part(k.d, k.n - 2 - Low(k), Low(k)),
                    HighThree(k), Part(k.u, WindowBase(k), Low(k)),
                    result.q, result.high, result.low)
<1> DEFINE q == Estimate(k).quotient
           rem == Estimate(k).remainder
           b == Base
           p == Power(Base, Low(k))
           D == TopPair(k)
           lowd == Part(k.d, k.n - 2 - Low(k), Low(k))
           U == HighThree(k)
           low == Part(k.u, WindowBase(k), Low(k))
           h == (low - q * lowd) \div p
           l == (low - q * lowd) % p
           sum == ((rem + h) % (b * b)) + D + ((l + lowd) \div p)
<1>1. Estimated(b, p, D, lowd, U, low, q, rem)
  BY EstimateFacts
<1>2. result = IF rem + h >= 0
               THEN [q |-> q, low |-> l, high |-> rem + h, sound |-> TRUE]
               ELSE [q |-> q - 1, low |-> (l + lowd) % p, high |-> sum % (b * b),
                     sound |-> sum >= b * b]
  BY DEF Subtracted
<1> HIDE DEF q, rem, b, p, D, lowd, U, low
<1>3. /\ h \in Int /\ h <= 0 /\ -b < h /\ l \in 0 .. p - 1
      /\ low - q * lowd = p * h + l /\ (q = 0 => h = 0)
  BY <1>1, LowBorrow
<1>4. /\ b \in Nat /\ p \in Nat \ {0} /\ D \in Nat /\ D < b * b /\ q \in 0 .. b - 1
      /\ rem \in Int /\ b = Base
  BY <1>1 DEF Estimated, b
<1> HIDE DEF h, l
<1>5. CASE rem + h >= 0
  <2>1. 0 <= rem + h
    BY <1>3, <1>4, <1>5
  <2>2. /\ rem + h \in 0 .. D - 1
        /\ U * p + low - q * (D * p + lowd) = (rem + h) * p + l
        /\ (rem + h) * p + l \in 0 .. D * p + lowd - 1
    BY <1>1, <1>3, <2>1, DigitEstimated
  <2>3. result.q = q /\ result.low = l /\ result.high = rem + h /\ result.sound = TRUE
    BY <1>2, <1>5
  <2>4. rem + h \in 0 .. b * b - 1
    BY <1>4, <2>2
  <2>5. (rem + h) * p + l < D * p + lowd
    <3>1. lowd \in Int /\ D * p \in Int
      BY <1>1, <1>4 DEF Estimated
    <3>2. QED
      BY <2>2, <3>1
  <2>6. Remains(p, D, lowd, U, low, q, rem + h, l)
    BY <1>3, <1>4, <2>2, <2>4, <2>5 DEF Remains
  <2>7. QED
    BY <1>4, <2>3, <2>6 DEF p, D, lowd, U, low
<1>6. CASE ~(rem + h >= 0)
  <2>1. rem + h < 0
    BY <1>3, <1>4, <1>6
  <2>2. /\ q - 1 \in 0 .. b - 1 /\ sum >= b * b
        /\ sum % (b * b) = sum - b * b /\ sum - b * b \in 0 .. b * b - 1
        /\ (l + lowd) % p \in 0 .. p - 1
        /\ U * p + low - (q - 1) * (D * p + lowd) = (sum - b * b) * p + ((l + lowd) % p)
        /\ (sum - b * b) * p + ((l + lowd) % p) \in 0 .. D * p + lowd - 1
    BY <1>1, <1>3, <2>1, DigitCorrected
  <2> HIDE DEF sum
  <2>3. /\ result.q = q - 1 /\ result.low = (l + lowd) % p /\ result.high = sum - b * b
        /\ result.sound = TRUE
    <3>1. (sum >= b * b) = TRUE
      BY <2>2
    <3>2. result = [q |-> q - 1, low |-> (l + lowd) % p, high |-> sum % (b * b), sound |-> TRUE]
      BY <1>2, <1>6, <3>1, Zenon
    <3>3. QED
      BY <2>2, <3>2
  <2>4. (sum - b * b) * p + ((l + lowd) % p) < D * p + lowd
    <3>1. lowd \in Int /\ D * p \in Int
      BY <1>1, <1>4 DEF Estimated
    <3>2. QED
      BY <2>2, <3>1
  <2>5. Remains(p, D, lowd, U, low, q - 1, sum - b * b, (l + lowd) % p)
    BY <1>4, <2>2, <2>4 DEF Remains
  <2>6. QED
    BY <1>4, <2>2, <2>3, <2>5 DEF p, D, lowd, U, low
<1>7. QED
  BY <1>5, <1>6

(* An array with a part and the limb above it overwritten. *)
LEMMA PatchedTop ==
  ASSUME NEW size \in Nat, NEW f, IsLimbs(f, size), NEW at \in Nat, NEW n \in Nat,
         at + n + 1 <= size, NEW v \in 0 .. Power(Base, n) - 1, NEW x \in 0 .. Base - 1
  PROVE  LET u == [Patched(f, at, n, v) EXCEPT ![at + n] = x]
         IN  /\ IsLimbs(u, size) /\ Part(u, at, n + 1) = v + Power(Base, n) * x
             /\ \A i \in 0 .. size - 1 : i < at => u[i] = f[i]
<1> DEFINE g == Patched(f, at, n, v)
           u == [g EXCEPT ![at + n] = x]
<1>1. /\ IsLimbs(g, size) /\ Part(g, at, n) = v
      /\ \A i \in 0 .. size - 1 : ~(at <= i /\ i < at + n) => g[i] = f[i]
  <2>1. at + n <= size /\ v \in Int
    OBVIOUS
  <2>2. v % Power(Base, n) = v
    BY BasePower, DivSmall
  <2>3. QED
    BY <2>1, <2>2, PatchedFacts
<1> HIDE DEF g
<1>2. PICK c \in 0 .. size - 1 : c = at + n
  OBVIOUS
<1>3. IsLimbs(u, size) /\ u[c] = x /\ \A i \in 0 .. size - 1 : i # c => u[i] = g[i]
  BY <1>1, <1>2 DEF IsLimbs
<1> HIDE DEF u
<1>4. Part(u, at, n) = v
  <2>1. \A i \in at .. at + n - 1 : u[i] = g[i]
    BY <1>2, <1>3
  <2>2. at + n <= size
    OBVIOUS
  <2>3. QED
    BY <1>1, <2>1, <2>2, PartFrame
<1>5. Part(u, at, n + 1) = v + Power(Base, n) * x
  BY <1>2, <1>3, <1>4, PartEnds
<1>6. \A i \in 0 .. size - 1 : i < at => u[i] = f[i]
  BY <1>1, <1>2, <1>3
<1>7. QED
  BY <1>3, <1>5, <1>6 DEF u, g

(* The window with the limb above it, what is left of it in an array u and the limb top, and
   the limbs of the divisor that the digit takes. *)
Window(k) == Part(k.u, WindowBase(k), Low(k) + 2) + k.top * Power(Base, Low(k) + 2)
Rest(k, u, top) == Part(u, WindowBase(k), Low(k) + 1) + top * Power(Base, Low(k) + 1)
Taken(k) == Part(k.d, k.n - 2 - Low(k), Low(k) + 2)

(* A digit, the array and the limb above it that a step may leave: nothing below the window
   is touched. *)
Leaves(k, q, u, top) ==
  /\ q \in 0 .. Base - 1 /\ top \in 0 .. Base - 1 /\ IsLimbs(u, k.m + 1)
  /\ \A i \in 0 .. k.m : i < WindowBase(k) => u[i] = k.u[i]

(* The digit is exact: what is left is the window less so many times the divisor. *)
Divides(k, q, u, top) ==
  /\ Leaves(k, q, u, top)
  /\ Rest(k, u, top) \in Nat /\ Rest(k, u, top) < Taken(k)
  /\ Window(k) = q * Taken(k) + Rest(k, u, top)

(* The window in terms of its top limbs. *)
LEMMA WindowFacts ==
  ASSUME NEW k, CallFits(k), k.pc # "finish"
  PROVE  /\ Window(k) = Part(k.u, WindowBase(k), Low(k)) + HighThree(k) * Power(Base, Low(k))
         /\ Part(k.u, WindowBase(k), Low(k)) \in 0 .. Power(Base, Low(k)) - 1
         /\ Power(Base, Low(k) + 1) = Base * Power(Base, Low(k))
         /\ Power(Base, Low(k) + 2) = Base * Base * Power(Base, Low(k))
<1>1. PICK low \in Nat, at \in Nat, size \in Nat :
        /\ low = Low(k) /\ at = WindowBase(k) /\ size = k.m + 1 /\ at + low + 2 <= size
        /\ at + low = k.j + k.n - 2 /\ k.j \in Nat /\ k.n \in Nat
  <2>1. /\ k.m \in Nat /\ k.n \in Nat /\ k.j \in Nat /\ Low(k) \in Nat /\ WindowBase(k) \in Nat
        /\ WindowBase(k) + Low(k) = k.j + k.n - 2 /\ k.j + k.n <= k.m
    BY WindowLies
  <2>2. k.m + 1 \in Nat /\ WindowBase(k) + Low(k) + 2 <= k.m + 1
    BY <2>1
  <2>3. QED
    BY <2>1, <2>2
<1>2. IsLimbs(k.u, size)
  BY <1>1 DEF CallFits
<1>3. Part(k.u, at, low) \in 0 .. Power(Base, low) - 1
  <2>1. at + low <= size
    BY <1>1
  <2>2. QED
    BY <1>2, <2>1, PartType
<1>4. Part(k.u, at, low + 2)
        = Part(k.u, at, low) + Power(Base, low) * (k.u[at + low + 1] * Base + k.u[at + low])
  BY <1>1, <1>2, PartEnds
<1>5. Power(Base, low + 1) = Base * Power(Base, low)
      /\ Power(Base, low + 2) = Base * Base * Power(Base, low)
  <2>1. low + 1 \in Nat /\ (low + 1) + 1 = low + 2 /\ Base \in Nat
    BY BaseType
  <2>2. Power(Base, low + 1) = Base * Power(Base, low)
        /\ Power(Base, (low + 1) + 1) = Base * Power(Base, low + 1)
    BY <2>1, PowerStep
  <2>3. PICK p \in Nat : p = Power(Base, low)
    BY <2>1, PowerStep
  <2>4. Base * (Base * p) = Base * Base * p
    BY <2>1
  <2>5. QED
    BY <2>1, <2>2, <2>3, <2>4
<1>6. at + low + 1 = k.j + k.n - 1
  BY <1>1
<1>7. PICK p \in Nat, x \in Nat, u1 \in Nat, u0 \in Nat, t \in Nat, b \in Nat :
        /\ p = Power(Base, low) /\ x = Part(k.u, at, low) /\ u1 = k.u[k.j + k.n - 1]
        /\ u0 = k.u[k.j + k.n - 2] /\ t = k.top /\ b = Base
  <2>1. k.top \in Nat /\ k.u[k.j + k.n - 1] \in Nat /\ k.u[k.j + k.n - 2] \in Nat
    BY HighType, BaseType
  <2>2. Power(Base, low) \in Nat /\ Part(k.u, at, low) \in Nat /\ Base \in Nat
    BY <1>3, BasePower, BaseType
  <2>3. QED
    BY <2>1, <2>2
<1>8. Window(k) = x + p * (u1 * b + u0) + t * (b * b * p)
  BY <1>1, <1>4, <1>5, <1>6, <1>7 DEF Window
<1>9. HighThree(k) = (t * b + u1) * b + u0
  BY <1>7 DEF HighThree, High
<1>10. x + p * (u1 * b + u0) + t * (b * b * p) = x + ((t * b + u1) * b + u0) * p
  OBVIOUS
<1>11. QED
  BY <1>1, <1>3, <1>5, <1>7, <1>8, <1>9, <1>10

(* A digit from the estimate is exact. *)
LEMMA WithEstimateFacts ==
  ASSUME NEW k, CallFits(k), k.pc # "finish", High(k) < TopPair(k),
         NEW result, result = Subtracted(k, Estimate(k), Low(k)),
         NEW u, u = [Patched(k.u, WindowBase(k), Low(k), result.low)
                       EXCEPT ![k.j + k.n - 2] = LowLimb(result.high)]
  PROVE  Divides(k, result.q, u, HighLimb(result.high)) /\ result.sound = TRUE
<1>1. PICK low \in Nat, at \in Nat, size \in Nat :
        /\ low = Low(k) /\ at = WindowBase(k) /\ size = k.m + 1 /\ at + low + 2 <= size
        /\ at + low = k.j + k.n - 2
  <2>1. /\ k.m \in Nat /\ k.n \in Nat /\ k.j \in Nat /\ Low(k) \in Nat /\ WindowBase(k) \in Nat
        /\ WindowBase(k) + Low(k) = k.j + k.n - 2 /\ k.j + k.n <= k.m
    BY WindowLies
  <2>2. k.m + 1 \in Nat /\ WindowBase(k) + Low(k) + 2 <= k.m + 1
    BY <2>1
  <2>3. QED
    BY <2>1, <2>2
<1>2. PICK p \in Nat \ {0}, b \in Nat \ {0} : p = Power(Base, low) /\ b = Base
  BY BasePower, BaseType
<1>3. PICK x \in 0 .. p - 1, lowd \in 0 .. p - 1, D \in Nat, U \in Nat, q \in 0 .. b - 1 :
        /\ x = Part(k.u, at, low) /\ lowd = Part(k.d, k.n - 2 - low, low) /\ D = TopPair(k)
        /\ U = HighThree(k) /\ q = result.q
        /\ Remains(p, D, lowd, U, x, q, result.high, result.low)
        /\ Taken(k) = D * p + lowd /\ Window(k) = x + U * p
        /\ Power(Base, low + 1) = b * p
  <2>1. k.n - 2 - low \in Nat /\ low + 2 <= k.n
    BY <1>1, WindowLies
  <2>2. /\ TopPair(k) \in Nat /\ Part(k.d, k.n - 2 - low, low) \in 0 .. p - 1
        /\ Taken(k) = TopPair(k) * p + Part(k.d, k.n - 2 - low, low)
    BY <1>1, <1>2, <2>1, DivisorFacts DEF Taken
  <2>3. /\ result.q \in 0 .. b - 1
        /\ Remains(p, TopPair(k), Part(k.d, k.n - 2 - low, low), HighThree(k),
                   Part(k.u, at, low), result.q, result.high, result.low)
    BY <1>1, <1>2, SubtractedFacts
  <2>4. HighThree(k) \in Nat
    BY HighType
  <2>5. Window(k) = Part(k.u, at, low) + HighThree(k) * p /\ Part(k.u, at, low) \in 0 .. p - 1
        /\ Power(Base, low + 1) = b * p
    BY <1>1, <1>2, WindowFacts
  <2>6. QED
    BY <2>2, <2>3, <2>4, <2>5
<1>4. result.sound = TRUE
  BY SubtractedFacts
<1>5. PICK high \in 0 .. b * b - 1, rest \in 0 .. p - 1 :
        /\ high = result.high /\ rest = result.low
        /\ U * p + x - q * (D * p + lowd) = high * p + rest
        /\ high * p + rest < D * p + lowd
  BY <1>2, <1>3 DEF Remains
<1>6. PICK h1 \in 0 .. b - 1, h0 \in 0 .. b - 1 :
        h1 = HighLimb(high) /\ h0 = LowLimb(high) /\ high = h1 * b + h0
  BY <1>2, <1>5, TwoLimbs
<1>7. /\ IsLimbs(u, size) /\ Part(u, at, low + 1) = rest + p * h0
      /\ \A i \in 0 .. size - 1 : i < at => u[i] = k.u[i]
  <2>1. IsLimbs(k.u, size) /\ at + low + 1 <= size
    BY <1>1 DEF CallFits
  <2>2. rest \in 0 .. Power(Base, low) - 1 /\ h0 \in 0 .. Base - 1
    BY <1>2, <1>5, <1>6
  <2>3. u = [Patched(k.u, at, low, rest) EXCEPT ![at + low] = h0]
    BY <1>1, <1>5, <1>6
  <2> DEFINE v == [Patched(k.u, at, low, rest) EXCEPT ![at + low] = h0]
  <2>4. /\ IsLimbs(v, size) /\ Part(v, at, low + 1) = rest + Power(Base, low) * h0
        /\ \A i \in 0 .. size - 1 : i < at => v[i] = k.u[i]
    BY <2>1, <2>2, PatchedTop
  <2> HIDE DEF v
  <2>5. QED
    BY <1>2, <2>3, <2>4 DEF v
<1>12. Rest(k, u, h1) = high * p + rest
  <2>1. Rest(k, u, h1) = rest + p * h0 + h1 * (b * p)
    BY <1>1, <1>3, <1>7 DEF Rest
  <2>2. rest + p * h0 + h1 * (b * p) = (h1 * b + h0) * p + rest
    OBVIOUS
  <2>3. QED
    BY <1>6, <2>1, <2>2
<1>13. Leaves(k, q, u, h1)
  <2>1. \A i \in 0 .. k.m : i < WindowBase(k) => u[i] = k.u[i]
    <3>1. k.m \in Nat /\ 0 .. k.m = 0 .. size - 1
      <4>1. k.m \in Nat
        BY WindowLies
      <4>2. size - 1 = k.m
        BY <1>1, <4>1
      <4>3. QED
        BY <4>1, <4>2
    <3>2. QED
      BY <1>1, <1>7, <3>1
  <2>2. QED
    BY <1>1, <1>2, <1>6, <1>7, <2>1 DEF Leaves
<1>14. Rest(k, u, h1) \in Nat /\ Rest(k, u, h1) < Taken(k)
       /\ Window(k) = q * Taken(k) + Rest(k, u, h1)
  <2>1. high * p + rest \in Nat
    BY <1>5
  <2>2. q * (D * p + lowd) \in Int /\ U * p \in Int
    OBVIOUS
  <2>3. QED
    BY <1>3, <1>5, <1>12, <2>1, <2>2
<1>15. QED
  BY <1>3, <1>4, <1>5, <1>6, <1>13, <1>14 DEF Divides

(* An array with a part overwritten by a number that fits it. *)
LEMMA PatchedWhole ==
  ASSUME NEW size \in Nat, NEW f, IsLimbs(f, size), NEW at \in Nat, NEW n \in Nat, at + n <= size,
         NEW v \in 0 .. Power(Base, n) - 1
  PROVE  LET u == Patched(f, at, n, v)
         IN  /\ IsLimbs(u, size) /\ Part(u, at, n) = v
             /\ \A i \in 0 .. size - 1 : i < at => u[i] = f[i]
<1> DEFINE g == Patched(f, at, n, v)
<1>1. /\ IsLimbs(g, size) /\ Part(g, at, n) = v
      /\ \A i \in 0 .. size - 1 : ~(at <= i /\ i < at + n) => g[i] = f[i]
  <2>1. at + n <= size /\ v \in Int
    OBVIOUS
  <2>2. v % Power(Base, n) = v
    BY BasePower, DivSmall
  <2>3. QED
    BY <2>1, <2>2, PatchedFacts
<1> HIDE DEF g
<1>2. \A i \in 0 .. size - 1 : i < at => g[i] = f[i]
  BY <1>1
<1>3. QED
  BY <1>1, <1>2 DEF g

(* The window without its lowest limb: what the digit before has left. *)
Begins(k) == Part(k.u, WindowBase(k) + 1, Low(k) + 1) + k.top * Power(Base, Low(k) + 1)

(* The parts of a window as natural numbers. *)
LEMMA WindowType ==
  ASSUME NEW k, CallFits(k), k.pc # "finish"
  PROVE  /\ IsLimbs(k.u, k.m + 1) /\ k.m + 1 \in Nat /\ WindowBase(k) + Low(k) + 2 <= k.m + 1
         /\ Low(k) + 1 \in Nat /\ Low(k) + 2 \in Nat /\ WindowBase(k) + 1 \in Nat
         /\ Begins(k) \in Nat /\ Window(k) \in Nat
         /\ k.u[WindowBase(k)] \in 0 .. Base - 1
         /\ Window(k) = k.u[WindowBase(k)] + Base * Begins(k)
         /\ \E x \in 0 .. Power(Base, Low(k)) - 1 : Begins(k) = x + Power(Base, Low(k)) * High(k)
<1>1. PICK low \in Nat, at \in Nat, size \in Nat :
        /\ low = Low(k) /\ at = WindowBase(k) /\ size = k.m + 1 /\ at + low + 2 <= size
        /\ at + low = k.j + k.n - 2 /\ k.j \in Nat /\ k.n \in Nat
  <2>1. /\ k.m \in Nat /\ k.n \in Nat /\ k.j \in Nat /\ Low(k) \in Nat /\ WindowBase(k) \in Nat
        /\ WindowBase(k) + Low(k) = k.j + k.n - 2 /\ k.j + k.n <= k.m
    BY WindowLies
  <2>2. k.m + 1 \in Nat /\ WindowBase(k) + Low(k) + 2 <= k.m + 1
    BY <2>1
  <2>3. QED
    BY <2>1, <2>2
<1>2. IsLimbs(k.u, size)
  BY <1>1 DEF CallFits
<1>3. PICK p \in Nat \ {0}, b \in Nat \ {0}, t \in Nat, h \in Nat :
        p = Power(Base, low) /\ b = Base /\ t = k.top /\ h = High(k)
  <2>1. k.top \in Nat /\ High(k) \in Nat
    BY HighType
  <2>2. Power(Base, low) \in Nat \ {0} /\ Base \in Nat \ {0}
    BY BasePower, BaseType
  <2>3. QED
    BY <2>1, <2>2
<1>4. Power(Base, low + 1) = b * p /\ Power(Base, low + 2) = b * b * p
  BY <1>1, <1>3, WindowFacts
<1>5. PICK x \in 0 .. p - 1 : x = Part(k.u, at + 1, low)
  <2>1. at + 1 \in Nat /\ at + 1 + low <= size
    BY <1>1
  <2>2. QED
    BY <1>2, <1>3, <2>1, PartType
<1>6. PICK u1 \in 0 .. b - 1 : u1 = k.u[k.j + k.n - 1]
  BY <1>3, HighType
<1>7. Part(k.u, at + 1, low + 1) = x + p * u1
  <2>1. at + 1 \in Nat /\ (at + 1) + low + 1 <= size /\ (at + 1) + low = k.j + k.n - 1
    <3>1. ASSUME NEW J \in Nat, NEW N \in Nat, at + low = J + N - 2 PROVE (at + 1) + low = J + N - 1
      BY <3>1
    <3>2. at + 1 \in Nat /\ (at + 1) + low + 1 <= size
      BY <1>1
    <3>3. QED
      BY <1>1, <3>1, <3>2
  <2>2. Part(k.u, at + 1, low + 1) = Part(k.u, at + 1, low) + Power(Base, low) * k.u[(at + 1) + low]
    BY <1>2, <2>1, PartEnds
  <2>3. QED
    BY <1>3, <1>5, <1>6, <2>1, <2>2
<1>8. Begins(k) = x + p * h
  <2>1. Begins(k) = x + p * u1 + t * (b * p)
    BY <1>1, <1>3, <1>4, <1>7 DEF Begins
  <2>2. h = t * b + u1
    BY <1>3, <1>6 DEF High
  <2>3. x + p * u1 + t * (b * p) = x + p * (t * b + u1)
    OBVIOUS
  <2>4. QED
    BY <2>1, <2>2, <2>3
<1>9. PICK u \in 0 .. b - 1 : u = k.u[at]
  <2>1. at \in 0 .. size - 1
    BY <1>1
  <2>2. QED
    BY <1>2, <1>3, <2>1 DEF IsLimbs
<1>10. Part(k.u, at, low + 2) = u + b * (x + p * u1)
  <2>1. low + 1 \in Nat /\ at + 1 + (low + 1) <= size /\ 1 + (low + 1) = low + 2
    BY <1>1
  <2>2. Part(k.u, at, 1 + (low + 1)) = k.u[at] + Base * Part(k.u, at + 1, low + 1)
    BY <1>2, <2>1, PartEnds
  <2>3. QED
    BY <1>3, <1>7, <1>9, <2>1, <2>2
<1>11. Window(k) = u + b * Begins(k)
  <2>1. Window(k) = u + b * (x + p * u1) + t * (b * b * p)
    BY <1>1, <1>3, <1>4, <1>10 DEF Window
  <2>2. h = t * b + u1
    BY <1>3, <1>6 DEF High
  <2>3. u + b * (x + p * u1) + t * (b * b * p) = u + b * (x + p * (t * b + u1))
    OBVIOUS
  <2>4. QED
    BY <1>8, <2>1, <2>2, <2>3
<1>12. Begins(k) \in Nat
  BY <1>8
<1>13. u + b * Begins(k) \in Nat
  BY <1>12
<1>14. QED
  BY <1>1, <1>2, <1>3, <1>5, <1>8, <1>9, <1>11, <1>12, <1>13

(* A window that begins below the divisor begins with at most its top pair. *)
LEMMA HighFits ==
  ASSUME NEW k, CallFits(k), k.pc # "finish", Begins(k) < Taken(k)
  PROVE  High(k) <= TopPair(k)
<1>1. Low(k) \in Nat /\ Low(k) + 2 <= k.n
  BY WindowLies
<1>2. PICK p \in Nat \ {0} : p = Power(Base, Low(k))
  BY <1>1, BasePower
<1>3. PICK D \in Nat, lowd \in 0 .. p - 1, h \in Nat, x \in 0 .. p - 1 :
        /\ D = TopPair(k) /\ h = High(k) /\ Begins(k) = x + p * h /\ Taken(k) = D * p + lowd
  <2>1. /\ TopPair(k) \in Nat /\ Part(k.d, k.n - 2 - Low(k), Low(k)) \in 0 .. p - 1
        /\ Taken(k) = TopPair(k) * p + Part(k.d, k.n - 2 - Low(k), Low(k))
    BY <1>1, <1>2, DivisorFacts DEF Taken
  <2>2. High(k) \in Nat /\ \E x \in 0 .. p - 1 : Begins(k) = x + p * High(k)
    BY <1>2, HighType, WindowType
  <2>3. QED
    BY <2>1, <2>2
<1>4. ASSUME D < h PROVE FALSE
  <2>1. (D + 1) * p <= h * p
    BY <1>4, MulPos
  <2>2. (D + 1) * p = D * p + p /\ h * p = p * h /\ D * p \in Int /\ h * p \in Int
    OBVIOUS
  <2>3. QED
    BY <1>3, <2>1, <2>2
<1>5. QED
  BY <1>3, <1>4

(* What is written over a window is what is left of it. *)
LEMMA PatchedRest ==
  ASSUME NEW k, CallFits(k), k.pc # "finish", NEW v \in 0 .. Power(Base, Low(k) + 2) - 1
  PROVE  LET u == Patched(k.u, WindowBase(k), Low(k) + 2, v)
         IN  Rest(k, u, u[k.j + k.n - 1]) = v
<1> DEFINE u == Patched(k.u, WindowBase(k), Low(k) + 2, v)
<1>1. PICK low \in Nat, at \in Nat, size \in Nat :
        /\ low = Low(k) /\ at = WindowBase(k) /\ size = k.m + 1 /\ at + (low + 2) <= size
        /\ at + (low + 1) + 1 <= size /\ (low + 1) + 1 = low + 2 /\ low + 1 \in Nat
        /\ low + 2 \in Nat /\ at + (low + 1) = k.j + k.n - 1 /\ IsLimbs(k.u, size)
  <2>1. /\ k.n \in Nat /\ k.j \in Nat /\ Low(k) \in Nat /\ WindowBase(k) \in Nat
        /\ WindowBase(k) + Low(k) = k.j + k.n - 2
    BY WindowLies
  <2>2. IsLimbs(k.u, k.m + 1) /\ k.m + 1 \in Nat /\ WindowBase(k) + Low(k) + 2 <= k.m + 1
    BY WindowType
  <2>3. /\ WindowBase(k) + (Low(k) + 2) <= k.m + 1 /\ WindowBase(k) + (Low(k) + 1) + 1 <= k.m + 1
        /\ WindowBase(k) + (Low(k) + 1) = k.j + k.n - 1 /\ (Low(k) + 1) + 1 = Low(k) + 2
    BY <2>1, <2>2
  <2>4. QED
    BY <2>1, <2>2, <2>3
<1>2. u = Patched(k.u, at, low + 2, v) /\ v \in 0 .. Power(Base, low + 2) - 1
  BY <1>1
<1> HIDE DEF u
<1>3. IsLimbs(u, size) /\ Part(u, at, low + 2) = v
  BY <1>1, <1>2, PatchedWhole
<1>4. PICK e \in Nat :
        e = low + 1 /\ at + e = k.j + k.n - 1 /\ e + 1 = low + 2 /\ at + e + 1 <= size
  BY <1>1
<1>5. Part(u, at, e + 1) = Part(u, at, e) + Power(Base, e) * u[at + e]
  <2>1. PICK f : f = u
    OBVIOUS
  <2>2. IsLimbs(f, size) /\ at + e + 1 <= size
    BY <1>3, <1>4, <2>1
  <2>3. Part(f, at, e + 1) = Part(f, at, e) + Power(Base, e) * f[at + e]
    BY <2>2, PartEnds
  <2>4. QED
    BY <2>1, <2>3
<1>6. Power(Base, e) \in Nat /\ u[at + e] \in Nat
  <2>1. at + e \in 0 .. size - 1
    BY <1>4
  <2>2. u[at + e] \in 0 .. Base - 1
    BY <1>3, <2>1 DEF IsLimbs
  <2>3. QED
    BY <2>2, BasePower, BaseType
<1>7. Power(Base, e) * u[at + e] = u[at + e] * Power(Base, e)
  BY <1>6
<1>8. Rest(k, u, u[k.j + k.n - 1]) = Part(u, at, e) + u[at + e] * Power(Base, e)
  BY <1>1, <1>4 DEF Rest
<1>9. QED
  BY <1>3, <1>4, <1>5, <1>7, <1>8 DEF u

(* The largest digit is exact where the window begins with the divisor's top pair, and the
   borrow is the limb above it. *)
LEMMA SaturatedFacts ==
  ASSUME NEW k, CallFits(k), k.pc # "finish", Begins(k) < Taken(k), High(k) = TopPair(k),
         NEW u, u = Patched(k.u, WindowBase(k), Low(k) + 2, Saturated(k).rest)
  PROVE  Divides(k, Base - 1, u, u[k.j + k.n - 1]) /\ Saturated(k).cy = k.top
<1>1. PICK low \in Nat, at \in Nat, size \in Nat :
        /\ low = Low(k) /\ at = WindowBase(k) /\ size = k.m + 1 /\ at + low + 2 <= size
        /\ at + low = k.j + k.n - 2 /\ IsLimbs(k.u, size) /\ low + 2 <= k.n /\ k.n - 2 - low \in Nat
        /\ k.n \in Nat /\ at + low + 1 = k.j + k.n - 1 /\ k.n - (low + 2) = k.n - 2 - low
  <2>1. /\ k.n \in Nat /\ k.j \in Nat /\ Low(k) \in Nat /\ WindowBase(k) \in Nat
        /\ Low(k) + 2 <= k.n /\ k.n - 2 - Low(k) \in Nat
        /\ WindowBase(k) + Low(k) = k.j + k.n - 2
    BY WindowLies
  <2>2. IsLimbs(k.u, k.m + 1) /\ k.m + 1 \in Nat /\ WindowBase(k) + Low(k) + 2 <= k.m + 1
    BY WindowType
  <2>3. /\ WindowBase(k) + Low(k) + 1 = k.j + k.n - 1
        /\ k.n - (Low(k) + 2) = k.n - 2 - Low(k)
    BY <2>1
  <2>4. QED
    BY <2>1, <2>2, <2>3
<1>2. PICK p \in Nat \ {0}, b \in Nat \ {0}, P \in Nat \ {0}, t \in Nat :
        /\ p = Power(Base, low) /\ b = Base /\ P = Power(Base, low + 2) /\ t = k.top
        /\ t < b /\ P = b * b * p
  <2>1. k.top \in 0 .. Base - 1 /\ low + 2 \in Nat
    BY HighType
  <2>2. Power(Base, low + 2) = Base * Base * Power(Base, low)
    BY <1>1, WindowFacts
  <2>3. /\ Power(Base, low) \in Nat \ {0} /\ Power(Base, low + 2) \in Nat \ {0}
        /\ Base \in Nat \ {0} /\ k.top \in Nat /\ k.top < Base
    BY <2>1, BasePower, BaseType
  <2>4. QED
    BY <2>2, <2>3
<1>3. PICK D \in Nat, lowd \in 0 .. p - 1, d \in Nat :
        /\ D = TopPair(k) /\ b <= D /\ d = D * p + lowd /\ d = Taken(k) /\ d < P
        /\ d = Part(k.d, k.n - (low + 2), low + 2)
  <2>1. /\ TopPair(k) \in Nat /\ b <= TopPair(k)
        /\ Part(k.d, k.n - 2 - low, low) \in 0 .. p - 1
        /\ Taken(k) = TopPair(k) * p + Part(k.d, k.n - 2 - low, low)
    BY <1>1, <1>2, DivisorFacts DEF Taken
  <2>2. IsLimbs(k.d, k.n) /\ low + 2 \in Nat /\ (k.n - 2 - low) + (low + 2) <= k.n
    BY <1>1 DEF CallFits
  <2>3. Part(k.d, k.n - 2 - low, low + 2) \in 0 .. P - 1
    <3>1. PICK e \in Nat, i \in Nat, n \in Nat : e = low + 2 /\ i = k.n - 2 - low /\ n = k.n
      BY <1>1, <2>2
    <3>2. IsLimbs(k.d, n) /\ i + e <= n
      BY <2>2, <3>1
    <3>3. Part(k.d, i, e) \in 0 .. Power(Base, e) - 1
      BY <3>2, PartType
    <3>4. QED
      BY <1>2, <3>1, <3>3
  <2>4. QED
    BY <1>1, <1>2, <2>1, <2>3 DEF Taken
<1>4. PICK V \in Nat, W \in Nat, v \in 0 .. b - 1 :
        /\ V = Window(k) /\ W = Begins(k) /\ V = b * W + v /\ W < d /\ (D * b) * p <= V
  <2>1. /\ Window(k) \in Nat /\ Begins(k) \in Nat /\ k.u[at] \in 0 .. b - 1
        /\ Window(k) = k.u[at] + b * Begins(k)
    BY <1>1, <1>2, WindowType
  <2>2. (D * b) * p <= Window(k)
    <3>1. PICK x \in Nat, u0 \in Nat : /\ x = Part(k.u, at, low) /\ u0 = k.u[k.j + k.n - 2]
                                       /\ Window(k) = x + HighThree(k) * p
      BY <1>1, <1>2, WindowFacts, HighType, BaseType
    <3>2. HighThree(k) = D * b + u0
      BY <1>2, <1>3, <3>1 DEF HighThree
    <3>3. (D * b + u0) * p = (D * b) * p + u0 * p /\ u0 * p \in Nat /\ (D * b) * p \in Nat
      OBVIOUS
    <3>4. QED
      BY <3>1, <3>2, <3>3
  <2>3. QED
    BY <1>3, <2>1, <2>2
<1>5. PICK R \in 0 .. d - 1 : R = V - (b - 1) * d
  <2>1. BeginsWithDivisor(b, p, D, lowd, v, W, V)
    BY <1>3, <1>4 DEF BeginsWithDivisor
  <2>2. V - (b - 1) * (D * p + lowd) \in 0 .. D * p + lowd - 1
    BY <2>1, DigitSaturated
  <2>3. QED
    BY <1>3, <2>2
<1>6. PICK x \in Nat : x = Part(k.u, at, low + 2) /\ V = x + t * P
  <2>1. at + (low + 2) <= size /\ low + 2 \in Nat
    BY <1>1
  <2>2. Part(k.u, at, low + 2) \in Nat
    <3>1. Part(k.u, at, low + 2) \in 0 .. Power(Base, low + 2) - 1
      BY <1>1, <2>1, PartType
    <3>2. QED
      BY <1>2, <3>1
  <2>3. QED
    BY <1>1, <1>2, <1>4, <2>2 DEF Window
<1>7. (x - (b - 1) * d) % P = R /\ (x - (b - 1) * d) \div P = -t
  <2>1. PICK y \in Int : y = x - (b - 1) * d
    OBVIOUS
  <2>2. R \in 0 .. P - 1 /\ -t \in Int /\ y = P * (-t) + R
    <3>1. P * (-t) = -(t * P) /\ (b - 1) * d \in Int /\ t * P \in Int
      OBVIOUS
    <3>2. QED
      BY <1>3, <1>5, <1>6, <2>1, <3>1
  <2>3. y % P = R /\ y \div P = -t
    BY <2>2, DivUnique
  <2>4. QED
    BY <2>1, <2>3
<1>8. Saturated(k).rest = R /\ Saturated(k).cy = t
  <2>1. Saturated(k) = [rest |-> (x - (b - 1) * d) % P, cy |-> -((x - (b - 1) * d) \div P)]
    BY <1>1, <1>2, <1>3, <1>6 DEF Saturated
  <2>2. QED
    BY <1>7, <2>1
<1>9. /\ IsLimbs(u, size) /\ Part(u, at, low + 2) = R
      /\ \A i \in 0 .. size - 1 : i < at => u[i] = k.u[i]
  <2>1. at + (low + 2) <= size /\ low + 2 \in Nat /\ R \in 0 .. Power(Base, low + 2) - 1
    BY <1>1, <1>2, <1>3, <1>5
  <2>2. u = Patched(k.u, at, low + 2, R)
    BY <1>1, <1>8
  <2>3. QED
    BY <1>1, <2>1, <2>2, PatchedWhole
<1>10. PICK c \in 0 .. b - 1 : c = u[k.j + k.n - 1]
  <2>1. k.j + k.n - 1 \in 0 .. size - 1
    BY <1>1
  <2>2. QED
    BY <1>2, <1>9, <2>1 DEF IsLimbs
<1>11. Rest(k, u, c) = R
  <2>1. u = Patched(k.u, WindowBase(k), Low(k) + 2, R) /\ R \in 0 .. Power(Base, Low(k) + 2) - 1
    BY <1>1, <1>2, <1>3, <1>5, <1>8
  <2>2. QED
    BY <1>10, <2>1, PatchedRest
<1>12. Leaves(k, Base - 1, u, c)
  <2>1. \A i \in 0 .. k.m : i < WindowBase(k) => u[i] = k.u[i]
    <3>1. k.m \in Nat
      BY WindowLies
    <3>2. 0 .. k.m = 0 .. size - 1
      <4>1. size - 1 = k.m
        BY <1>1, <3>1
      <4>2. QED
        BY <4>1
    <3>3. QED
      BY <1>1, <1>9, <3>2
  <2>2. QED
    BY <1>1, <1>2, <1>9, <1>10, <2>1 DEF Leaves
<1>13. Window(k) = (Base - 1) * Taken(k) + Rest(k, u, c)
  BY <1>2, <1>3, <1>4, <1>5, <1>11
<1>14. Rest(k, u, c) \in Nat /\ Rest(k, u, c) < Taken(k)
  BY <1>3, <1>5, <1>11
<1>15. QED
  BY <1>2, <1>8, <1>10, <1>12, <1>13, <1>14 DEF Divides

(* The window overwritten by a number that fits it. *)
LEMMA SaturatedLeaves ==
  ASSUME NEW k, CallFits(k), k.pc # "finish", NEW q \in 0 .. Base - 1,
         NEW v \in 0 .. Power(Base, Low(k) + 2) - 1
  PROVE  LET u == Patched(k.u, WindowBase(k), Low(k) + 2, v)
         IN  Leaves(k, q, u, u[k.j + k.n - 1])
<1> DEFINE u == Patched(k.u, WindowBase(k), Low(k) + 2, v)
<1>1. /\ IsLimbs(k.u, k.m + 1) /\ k.m + 1 \in Nat /\ WindowBase(k) + (Low(k) + 2) <= k.m + 1
      /\ WindowBase(k) \in Nat /\ Low(k) + 2 \in Nat
  <2>1. WindowBase(k) \in Nat /\ Low(k) \in Nat
    BY WindowLies
  <2>2. QED
    BY <2>1, WindowType
<1>2. IsLimbs(u, k.m + 1) /\ \A i \in 0 .. k.m + 1 - 1 : i < WindowBase(k) => u[i] = k.u[i]
  BY <1>1, PatchedWhole
<1> HIDE DEF u
<1>3. k.m \in Nat /\ k.j + k.n - 1 \in 0 .. k.m
  <2>1. k.m \in Nat /\ k.n \in Nat /\ k.j \in Nat /\ k.j + k.n <= k.m
        /\ Low(k) + 2 <= k.n /\ Low(k) \in Nat
    BY WindowLies
  <2>2. QED
    BY <2>1
<1>4. k.m + 1 - 1 = k.m
  BY <1>3
<1>5. u[k.j + k.n - 1] \in 0 .. Base - 1
  BY <1>2, <1>3, <1>4 DEF IsLimbs
<1>6. \A i \in 0 .. k.m : i < WindowBase(k) => u[i] = k.u[i]
  BY <1>2, <1>4
<1>7. QED
  BY <1>2, <1>5, <1>6 DEF Leaves, u

(* What the largest digit leaves is a number that fits the window, and the borrow is a number. *)
LEMMA SaturatedType ==
  ASSUME NEW k, CallFits(k), k.pc # "finish"
  PROVE  LET w == Part(k.u, WindowBase(k), Low(k) + 2)
             P == Power(Base, Low(k) + 2)
         IN  /\ Saturated(k).rest \in 0 .. P - 1 /\ Saturated(k).cy \in Int /\ P \in Nat \ {0}
             /\ w \in Nat /\ Taken(k) \in Nat
             /\ Taken(k) = Part(k.d, k.n - (Low(k) + 2), Low(k) + 2)
             /\ w - (Base - 1) * Taken(k) = Saturated(k).rest - Saturated(k).cy * P
<1>1. PICK low \in Nat, n \in Nat : low = Low(k) /\ n = k.n /\ low + 2 <= n /\ n - 2 - low \in Nat
  BY WindowLies
<1>2. PICK P \in Nat \ {0} : P = Power(Base, low + 2)
  <2>1. low + 2 \in Nat
    OBVIOUS
  <2>2. QED
    BY <2>1, BasePower
<1>3. PICK d \in Nat : d = Taken(k)
  <2>1. IsLimbs(k.d, k.n) /\ low + 2 \in Nat /\ (n - 2 - low) + (low + 2) <= n
    BY <1>1 DEF CallFits
  <2>2. Part(k.d, n - 2 - low, low + 2) \in 0 .. Power(Base, low + 2) - 1
    BY <1>1, <2>1, PartType
  <2>3. QED
    BY <1>1, <1>2, <2>2 DEF Taken
<1>4. d = Part(k.d, n - (low + 2), low + 2)
  <2>1. n - (low + 2) = n - 2 - low
    OBVIOUS
  <2>2. QED
    BY <1>1, <1>3, <2>1 DEF Taken
<1>5. PICK w \in Nat : w = Part(k.u, WindowBase(k), low + 2)
  <2>1. /\ IsLimbs(k.u, k.m + 1) /\ k.m + 1 \in Nat /\ WindowBase(k) + (low + 2) <= k.m + 1
        /\ WindowBase(k) \in Nat /\ low + 2 \in Nat
    <3>1. WindowBase(k) \in Nat
      BY WindowLies
    <3>2. QED
      BY <1>1, <3>1, WindowType
  <2>2. Part(k.u, WindowBase(k), low + 2) \in 0 .. Power(Base, low + 2) - 1
    BY <2>1, PartType
  <2>3. QED
    BY <1>2, <2>2
<1>6. PICK y \in Int : y = w - (Base - 1) * d
  BY BaseType
<1>7. y = P * (y \div P) + (y % P) /\ y % P \in 0 .. P - 1 /\ y \div P \in Int
  BY DivMod
<1>8. Saturated(k).rest = y % P /\ Saturated(k).cy = -(y \div P)
  BY <1>1, <1>2, <1>4, <1>5, <1>6 DEF Saturated
<1>9. PICK h \in Int, l \in 0 .. P - 1 : h = y \div P /\ l = y % P
  BY <1>7
<1>10. PICK cy \in Int : cy = -h
  OBVIOUS
<1>11. w - (Base - 1) * d = l - cy * P
  <2>1. P * h + l = l - cy * P
    BY <1>10
  <2>2. QED
    BY <1>6, <1>7, <1>9, <2>1
<1>12. Saturated(k).rest = l /\ Saturated(k).cy = cy
  BY <1>8, <1>9, <1>10
<1>13. QED
  BY <1>1, <1>2, <1>3, <1>4, <1>5, <1>11, <1>12

(* Adding the divisor back to an overshooting digit of the tail carries out of the window, and
   then the digit below the largest is exact. *)
LEMMA TailCarries ==
  ASSUME NEW k, CallFits(k), k.pc # "finish", k.d[k.n - 1] <= k.top, k.top < Saturated(k).cy
  PROVE  LET R == Saturated(k).rest + Taken(k) - Power(Base, Low(k) + 2)
         IN  R \in Nat /\ R < Taken(k) /\ Window(k) = (Base - 2) * Taken(k) + R
<1>1. PICK low \in Nat, n \in Nat : low = Low(k) /\ n = k.n /\ low + 2 <= n /\ n - 2 - low \in Nat
  BY WindowLies
<1>2. PICK P \in Nat \ {0}, w \in Nat, d \in Nat, rest \in Nat, cy \in Int :
        /\ rest \in 0 .. P - 1 /\ P = Power(Base, low + 2) /\ w = Part(k.u, WindowBase(k), low + 2)
        /\ d = Taken(k)
        /\ rest = Saturated(k).rest /\ cy = Saturated(k).cy
        /\ w - (Base - 1) * d = rest - cy * P
  <2>1. PICK P \in Nat \ {0} : P = Power(Base, low + 2)
    BY <1>1, SaturatedType
  <2>2. PICK x \in 0 .. P - 1, cy \in Int, w \in Nat, d \in Nat :
          /\ w = Part(k.u, WindowBase(k), low + 2) /\ d = Taken(k)
          /\ x = Saturated(k).rest /\ cy = Saturated(k).cy
          /\ w - (Base - 1) * d = x - cy * P
    BY <1>1, <2>1, SaturatedType
  <2>3. x \in Nat
    OBVIOUS
  <2>4. QED
    BY <2>1, <2>2, <2>3
<1>3. PICK b \in Nat \ {0}, q \in Nat \ {0} : b = Base /\ q = Power(Base, low + 1) /\ P = b * q
  <2>1. low + 1 \in Nat
    OBVIOUS
  <2>2. (low + 1) + 1 = low + 2
    OBVIOUS
  <2>3. Power(Base, (low + 1) + 1) = Base * Power(Base, low + 1)
    BY <2>1, BaseType, PowerStep
  <2>4. Power(Base, low + 1) \in Nat \ {0} /\ Base \in Nat \ {0}
    BY <2>1, BasePower, BaseType
  <2>5. QED
    BY <1>2, <2>2, <2>3, <2>4
<1>4. PICK d1 \in Nat : d1 = k.d[n - 1] /\ b <= 2 * d1
  <2>1. IsLimbs(k.d, n) /\ Normalized(k.d[n - 1]) /\ n - 1 \in 0 .. n - 1
    BY <1>1 DEF CallFits
  <2>2. k.d[n - 1] \in 0 .. Base - 1
    BY <2>1 DEF IsLimbs
  <2>3. QED
    BY <1>3, <2>1, <2>2 DEF Normalized
<1>5. d < (d1 + 1) * q
  <2>1. IsLimbs(k.d, n) /\ n - 2 - low \in Nat /\ low + 1 \in Nat
    BY <1>1 DEF CallFits
  <2>2. (n - 2 - low) + (low + 1) + 1 <= n /\ (n - 2 - low) + (low + 1) <= n
        /\ (n - 2 - low) + (low + 1) = n - 1 /\ (low + 1) + 1 = low + 2
    OBVIOUS
  <2>3. Part(k.d, n - 2 - low, (low + 1) + 1)
          = Part(k.d, n - 2 - low, low + 1) + Power(Base, low + 1) * k.d[(n - 2 - low) + (low + 1)]
    BY <2>1, <2>2, PartEnds
  <2>4. Part(k.d, n - 2 - low, low + 1) \in 0 .. q - 1
    BY <1>3, <2>1, <2>2, PartType
  <2>5. PICK x \in 0 .. q - 1 : d = x + q * d1
    BY <1>1, <1>2, <1>3, <1>4, <2>2, <2>3, <2>4 DEF Taken
  <2>6. (d1 + 1) * q = q * d1 + q /\ q * d1 \in Nat
    OBVIOUS
  <2>7. QED
    BY <2>5, <2>6
<1>6. PICK top \in Nat : top = k.top /\ d1 <= top /\ top < cy
  <2>1. k.top \in Nat
    BY HighType, BaseType
  <2>2. QED
    BY <1>1, <1>2, <1>4, <2>1
<1>7. w - (b - 1) * d = rest - cy * P
  BY <1>2, <1>3
<1>8. rest + d >= P
  BY <1>3, <1>4, <1>5, <1>6, <1>7, TailOvershoot
<1>9. (b - 2) * d <= top * P /\ 2 <= b
  BY <1>3, <1>4, <1>5, <1>6, SecondLargest, BaseType
<1>10. d < P
  <2>1. low + 2 \in Nat /\ (n - 2 - low) + (low + 2) <= n /\ IsLimbs(k.d, n)
    BY <1>1 DEF CallFits
  <2>2. Part(k.d, n - 2 - low, low + 2) \in 0 .. P - 1
    BY <1>1, <1>2, <2>1, PartType
  <2>3. QED
    BY <1>1, <1>2, <2>2 DEF Taken
<1>11. w + top * P = (b - 2) * d + (rest + d - P)
  <2>1. PICK g \in Nat : g = cy - top /\ 1 <= g
    BY <1>6
  <2>2. (b - 1) * d = (b - 2) * d + d /\ cy * P = top * P + g * P
    BY <2>1
  <2>3. (b - 2) * d \in Int /\ top * P \in Int /\ g * P \in Int
    BY <2>1
  <2>4. w + top * P - (b - 2) * d = rest + d - g * P
    BY <1>7, <2>2, <2>3
  <2>5. g * P < 2 * P
    BY <1>2, <1>9, <1>10, <2>3, <2>4
  <2>6. g = 1
    <3>1. ASSUME 2 <= g PROVE FALSE
      <4>1. 2 * P <= g * P
        BY <3>1, <2>1, MulPos
      <4>2. QED
        BY <2>3, <2>5, <4>1
    <3>2. QED
      BY <2>1, <3>1
  <2>7. g * P = P
    BY <2>6
  <2>8. QED
    BY <2>3, <2>4, <2>7
<1>12. Window(k) = w + top * P
  BY <1>1, <1>2, <1>6 DEF Window
<1>13. rest + d - P \in Nat /\ rest + d - P < d
  BY <1>2, <1>8
<1>14. QED
  BY <1>1, <1>2, <1>3, <1>11, <1>12, <1>13

(* A top limb below that of the divisor is enough for an estimate. *)
LEMMA TopLimbBelow ==
  ASSUME NEW k, CallFits(k), k.pc # "finish", k.top < k.d[k.n - 1]
  PROVE  High(k) < TopPair(k)
<1>1. PICK b \in Nat \ {0} : b = Base
  <2>1. Base \in Nat \ {0}
    BY BaseType
  <2>2. QED
    BY <2>1
<1>9. PICK t \in 0 .. b - 1, u1 \in 0 .. b - 1 : t = k.top /\ u1 = k.u[k.j + k.n - 1]
  BY <1>1, HighType
<1>2. PICK d1 \in 0 .. b - 1, d0 \in 0 .. b - 1 : d1 = k.d[k.n - 1] /\ d0 = k.d[k.n - 2]
  <2>1. k.n \in Nat /\ 2 <= k.n
    BY WindowLies
  <2>2. k.n - 1 \in 0 .. k.n - 1 /\ k.n - 2 \in 0 .. k.n - 1
    BY <2>1
  <2>3. QED
    BY <1>1, <2>2 DEF CallFits, IsLimbs
<1>3. (t + 1) * b <= d1 * b
  <2>1. t + 1 <= d1 /\ t + 1 \in Nat /\ d1 \in Nat
    BY <1>9, <1>2
  <2>2. QED
    BY <2>1, MulPos
<1>4. (t + 1) * b = t * b + b /\ t * b \in Nat /\ d1 * b \in Nat
  OBVIOUS
<1>5. t * b + u1 < d1 * b + d0
  BY <1>3, <1>4
<1>6. High(k) = t * b + u1 /\ TopPair(k) = d1 * b + d0
  BY <1>1, <1>9, <1>2 DEF High, TopPair
<1>7. High(k) < TopPair(k)
  BY <1>5, <1>6
<1>8. QED
  BY <1>7

(* A call with the fields that a digit writes. *)
Updated(k, Q, u, top, pc, j) ==
  [k EXCEPT !.quotient = Q, !.u = u, !.top = top, !.sound = TRUE, !.pc = pc, !.j = j]

(* The quotient with the digit q, the phase after a digit, and the next digit. *)
QuotientWith(k, q) == [k.quotient EXCEPT ![k.j] = q]
NextPc(k) ==
  IF k.j > 0 THEN IF k.pc = "digit" /\ (~k.approx \/ k.j >= k.kept) THEN "digit"
                  ELSE IF k.j > 1 THEN "tail" ELSE "last"
  ELSE "finish"
NextJ(k) == IF k.j > 0 THEN k.j - 1 ELSE k.j

(* The state after a digit whose assertions hold. *)
LEMMA SteppedFields ==
  ASSUME NEW k \in KnuthCalls, NEW q, NEW u, NEW top, NEW sound, sound = TRUE, k.sound = TRUE
  PROVE  Stepped(k, q, u, top, sound) = Updated(k, QuotientWith(k, q), u, top, NextPc(k), NextJ(k))
<1>1. (k.sound /\ sound) = TRUE
  OBVIOUS
<1>2. QED
  BY <1>1 DEF Stepped, KnuthCalls, Updated, QuotientWith, NextPc, NextJ

(* An array of limbs is one of the arrays of a call. *)
LEMMA LimbsAreArrays ==
  ASSUME NEW f, NEW n \in Nat, IsLimbs(f, n)
  PROVE  f \in Arrays
BY DEF IsLimbs, Arrays

(* Operators that read the state of a call only through fields that a digit leaves alone. *)
LEMMA SameDivisor ==
  ASSUME NEW k, NEW c, c.d = k.d, c.n = k.n
  PROVE  TopPair(c) = TopPair(k)
BY DEF TopPair

(* The call c is k after the digit q, with the array u and the limb top in place of the window. *)
Steps(k, q, u, top, c) ==
  /\ CallFits(c)
  /\ c.approx = k.approx /\ c.num = k.num /\ c.den = k.den /\ c.m = k.m /\ c.n = k.n
  /\ c.kept = k.kept /\ c.shift = k.shift /\ c.d = k.d /\ c.u = u /\ c.top = top
  /\ c.quotient = QuotientWith(k, q)
  /\ c.pc = "digit" => k.pc = "digit"
  /\ k.j > 0 => c.pc # "finish" /\ c.j = k.j - 1
  /\ k.j = 0 => c.pc = "finish" /\ c.j = 0
  /\ k.j > 0 /\ k.approx = FALSE => c.pc = "digit"

(* A digit leads from one state of a call to another. *)
LEMMA SteppedFacts ==
  ASSUME NEW k, CallFits(k), k.pc \in {"digit", "tail"}, NEW q,
         NEW u, NEW top, Leaves(k, q, u, top),
         NEW sound, sound = TRUE, NEW c, c = Stepped(k, q, u, top, sound)
  PROVE  Steps(k, q, u, top, c)
<1>1. PICK m \in Nat, n \in Nat, j \in Nat, kept \in Nat :
        /\ m = k.m /\ n = k.n /\ j = k.j /\ kept = k.kept
        /\ 2 <= kept /\ kept <= n /\ n <= m /\ j <= m - n /\ j + n <= m
        /\ (k.pc = "tail" => j <= n - 2) /\ (k.approx \/ kept = n)
  <2>1. k.m \in Nat /\ k.n \in Nat /\ k.j \in Nat /\ k.kept \in Nat
    BY DEF CallFits, KnuthCalls
  <2>2. k.j + k.n <= k.m
    BY WindowLies
  <2>3. QED
    BY <2>1, <2>2 DEF CallFits
<1>2. k \in KnuthCalls /\ k.sound = TRUE /\ k.approx \in BOOLEAN
  BY DEF CallFits, KnuthCalls
<1> DEFINE Q == QuotientWith(k, q)
           x == NextJ(k)
<1>3. IsLimbs(Q, m - n + 2) /\ IsLimbs(u, m + 1) /\ top \in Nat /\ top < Base
  <2>1. IsLimbs(k.quotient, m - n + 2) /\ j \in 0 .. m - n + 1
    BY <1>1 DEF CallFits
  <2>2. q \in 0 .. Base - 1 /\ top \in 0 .. Base - 1 /\ IsLimbs(u, m + 1)
    BY <1>1 DEF Leaves
  <2>3. IsLimbs(Q, m - n + 2)
    BY <1>1, <2>1, <2>2 DEF IsLimbs, QuotientWith
  <2>4. top \in Nat /\ top < Base
    BY <2>2, BaseType
  <2>5. QED
    BY <2>2, <2>3, <2>4
<1>4. Q \in Arrays /\ u \in Arrays
  <2>1. m - n + 2 \in Nat /\ m + 1 \in Nat
    BY <1>1
  <2>2. QED
    BY <1>3, <2>1, LimbsAreArrays
<1> HIDE DEF Q
<1>5. c = Updated(k, Q, u, top, NextPc(k), x)
  BY <1>2, SteppedFields DEF Q
<1> HIDE DEF x
<1>6. NextPc(k) \in {"digit", "tail", "last", "finish"} /\ x \in Nat /\ x <= j
  BY <1>1 DEF NextPc, NextJ, x
<1>7. /\ c \in KnuthCalls
      /\ c.quotient = Q /\ c.u = u /\ c.top = top /\ c.sound = TRUE /\ c.j = x /\ c.pc = NextPc(k)
      /\ c.approx = k.approx /\ c.num = k.num /\ c.den = k.den /\ c.m = k.m /\ c.n = k.n
      /\ c.kept = k.kept /\ c.shift = k.shift /\ c.d = k.d /\ c.dinv = k.dinv
      /\ c.exact = k.exact
  <2>1. PICK pc \in {"digit", "tail", "last", "finish"}, y \in Nat : pc = NextPc(k) /\ y = x
    BY <1>6
  <2>2. c = Updated(k, Q, u, top, pc, y)
    BY <1>5, <2>1
  <2>3. Updated(k, Q, u, top, pc, y) \in KnuthCalls
    BY <1>2, <1>3, <1>4 DEF KnuthCalls, Updated
  <2>4. c.quotient = Q /\ c.u = u /\ c.top = top
    BY <1>2, <1>3, <1>4, <2>2 DEF KnuthCalls, Updated
  <2>5. c.sound = TRUE /\ c.pc = pc /\ c.j = y
    BY <1>2, <1>3, <1>4, <2>2 DEF KnuthCalls, Updated
  <2>6. /\ c.num = k.num /\ c.den = k.den /\ c.m = k.m /\ c.n = k.n
        /\ c.kept = k.kept /\ c.shift = k.shift
    BY <1>2, <1>3, <1>4, <2>2 DEF KnuthCalls, Updated
  <2>7. c.approx = k.approx /\ c.d = k.d /\ c.dinv = k.dinv /\ c.exact = k.exact
    BY <1>2, <1>3, <1>4, <2>2 DEF KnuthCalls, Updated
  <2>8. QED
    BY <2>1, <2>2, <2>3, <2>4, <2>5, <2>6, <2>7
<1>8. c.pc = "digit" => k.pc = "digit"
  BY <1>7 DEF NextPc
<1>9. k.j > 0 => c.pc # "finish" /\ c.j = k.j - 1
  BY <1>7 DEF NextPc, NextJ, x
<1>10. k.j = 0 => c.pc = "finish" /\ c.j = 0
  BY <1>7 DEF NextPc, NextJ, x
<1>11. k.approx = FALSE => k.pc = "digit"
  BY <1>2 DEF CallFits
<1>12. k.j > 0 /\ k.approx = FALSE => c.pc = "digit"
  BY <1>7, <1>11 DEF NextPc
<1>13. c.pc = "tail" => c.j <= n - 2
  <2>1. CASE k.pc = "tail"
    BY <1>1, <1>6, <1>7, <2>1
  <2>2. CASE k.pc # "tail" /\ c.pc = "tail"
    <3>1. k.pc = "digit" /\ k.j > 0 /\ ~(k.j >= k.kept)
      BY <1>7, <2>2 DEF NextPc
    <3>2. j < kept /\ j > 0
      BY <1>1, <3>1
    <3>3. x = j - 1
      BY <1>1, <3>1 DEF NextJ, x
    <3>4. QED
      BY <1>1, <1>7, <3>2, <3>3
  <2>3. QED
    BY <2>1, <2>2
<1>14. c.pc = "last" => c.j = 0
  <2>1. ASSUME c.pc = "last" PROVE c.j = 0
    <3>1. k.j > 0 /\ ~(k.j > 1)
      BY <1>7, <2>1 DEF NextPc
    <3>2. x = 0
      BY <1>1, <3>1 DEF NextJ, x
    <3>3. QED
      BY <1>7, <3>2
  <2>2. QED
    BY <2>1
<1>15. k.approx \/ c.pc \in {"digit", "finish"}
  <2>1. CASE k.approx = FALSE
    <3>1. k.j = 0 \/ k.j > 0
      BY <1>1
    <3>2. QED
      BY <1>10, <1>12, <2>1, <3>1
  <2>2. CASE k.approx = TRUE
    BY <2>2
  <2>3. QED
    BY <1>2, <2>1, <2>2
<1>16. CallFits(c)
  <2>1. c \in KnuthCalls /\ c.sound = TRUE
    BY <1>7
  <2>2. 2 <= c.kept /\ c.kept <= c.n /\ c.n <= c.m /\ c.j <= c.m - c.n
    BY <1>1, <1>6, <1>7
  <2>3. IsLimbs(c.d, c.n) /\ Normalized(c.d[c.n - 1]) /\ Reciprocal3by2(c.dinv, TopPair(c))
    BY <1>7, SameDivisor DEF CallFits
  <2>4. IsLimbs(c.u, c.m + 1) /\ c.top < Base /\ IsLimbs(c.quotient, c.m - c.n + 2)
    BY <1>1, <1>3, <1>7
  <2>5. c.approx \/ (c.kept = c.n /\ c.pc \in {"digit", "finish"})
    BY <1>1, <1>7, <1>15
  <2>6. QED
    BY <1>1, <1>7, <1>13, <1>14, <2>1, <2>2, <2>3, <2>4, <2>5 DEF CallFits
<1>17. QED
  BY <1>7, <1>8, <1>9, <1>10, <1>12, <1>16 DEF Q, Steps

(* Digits above i, the power of the base above i limbs, and what is left in the window above i
   with the limbs below it, make up the shifted dividend. *)
Above(k, i) == Part(k.quotient, i, k.m - k.n + 1 - i)
Leftover(k, i) == Part(k.u, i, k.n - 1) + k.top * Power(Base, k.n - 1)
Balance(k, i) ==
  Above(k, i) * Power(Base, i) * Part(k.d, 0, k.n)
    + (Part(k.u, 0, i) + Power(Base, i) * Leftover(k, i))
    = k.num * Power(2, k.shift)

(* One digit of the sum, on numbers: the window V is one limb v and W above it, and q times
   the divisor D with the rest R. *)
WindowSplits(b, P, D, Q, q, U, v, W, R) ==
  /\ b \in Nat /\ P \in Nat /\ D \in Nat /\ Q \in Nat /\ q \in Nat /\ U \in Nat
  /\ v \in Nat /\ W \in Nat /\ R \in Nat /\ v + b * W = q * D + R

LEMMA BalanceNumbers ==
  ASSUME NEW b, NEW P, NEW D, NEW Q, NEW q, NEW U, NEW v, NEW W, NEW R,
         WindowSplits(b, P, D, Q, q, U, v, W, R)
  PROVE  (q + b * Q) * P * D + (U + P * R) = Q * (b * P) * D + (U + P * v + (b * P) * W)
<1> USE DEF WindowSplits
<1>1. (q + b * Q) * P * D = P * (q * D) + (b * Q) * P * D
  OBVIOUS
<1>2. (b * Q) * P * D = Q * (b * P) * D
  OBVIOUS
<1>3. P * (q * D + R) = P * (q * D) + P * R
  OBVIOUS
<1>4. P * (v + b * W) = P * v + (b * P) * W
  OBVIOUS
<1>5. P * (v + b * W) = P * (q * D + R)
  OBVIOUS
<1>6. PICK x1 \in Int, x2 \in Int, x3 \in Int, x4 \in Int, x5 \in Int :
        /\ x1 = P * (q * D) /\ x2 = Q * (b * P) * D /\ x3 = P * R /\ x4 = P * v /\ x5 = (b * P) * W
  OBVIOUS
<1>7. x1 + x3 = x4 + x5
  BY <1>3, <1>4, <1>5, <1>6
<1>8. (q + b * Q) * P * D = x1 + x2
  BY <1>1, <1>2, <1>6
<1>9. QED
  BY <1>6, <1>7, <1>8

(* Where the window of an exact division lies, and that its digit takes the whole divisor. *)
LEMMA ExactWindow ==
  ASSUME NEW k, CallFits(k), k.pc = "digit", k.approx = FALSE
  PROVE  /\ WindowBase(k) = k.j /\ Low(k) = k.n - 2 /\ Taken(k) = Part(k.d, 0, k.n)
         /\ Begins(k) = Leftover(k, k.j + 1) /\ Low(k) + 1 = k.n - 1
<1>1. k.n \in Nat /\ k.j \in Nat
  BY WindowLies
<1>2. Low(k) = k.n - 2
  BY DEF CallFits, Low
<1>3. WindowBase(k) = k.j /\ k.n - 2 - Low(k) = 0 /\ Low(k) + 2 = k.n /\ Low(k) + 1 = k.n - 1
  BY <1>1, <1>2 DEF WindowBase
<1>4. QED
  BY <1>2, <1>3 DEF Taken, Begins, Leftover

(* The quotient after a digit. *)
LEMMA QuotientWithFacts ==
  ASSUME NEW k, NEW size \in Nat, IsLimbs(k.quotient, size), k.j \in 0 .. size - 1,
         NEW q \in 0 .. Base - 1
  PROVE  /\ IsLimbs(QuotientWith(k, q), size) /\ QuotientWith(k, q)[k.j] = q
         /\ \A i \in 0 .. size - 1 : i # k.j => QuotientWith(k, q)[i] = k.quotient[i]
BY DEF IsLimbs, QuotientWith

(* The digits so far, with one more. *)
LEMMA AboveStep ==
  ASSUME NEW k, CallFits(k), k.pc # "finish", NEW q \in 0 .. Base - 1,
         NEW c, c.quotient = QuotientWith(k, q), c.m = k.m, c.n = k.n
  PROVE  Above(k, k.j + 1) \in Nat /\ Above(c, k.j) = q + Base * Above(k, k.j + 1)
<1>1. PICK j \in Nat, at \in Nat, e \in Nat, size \in Nat :
        /\ j = k.j /\ at = j + 1 /\ at + e <= size /\ j + 1 + e <= size /\ size = k.m - k.n + 2
        /\ k.m - k.n + 1 - at = e /\ k.m - k.n + 1 - j = 1 + e /\ j \in 0 .. size - 1
  <2>1. k.m \in Nat /\ k.n \in Nat /\ k.j \in Nat /\ k.j + k.n <= k.m
    BY WindowLies
  <2>2. /\ k.j + 1 \in Nat /\ k.m - k.n - k.j \in Nat /\ k.m - k.n + 2 \in Nat
        /\ (k.j + 1) + (k.m - k.n - k.j) <= k.m - k.n + 2
        /\ k.j + 1 + (k.m - k.n - k.j) <= k.m - k.n + 2
        /\ k.m - k.n + 1 - (k.j + 1) = k.m - k.n - k.j
        /\ k.m - k.n + 1 - k.j = 1 + (k.m - k.n - k.j) /\ k.j \in 0 .. k.m - k.n + 2 - 1
    BY <2>1
  <2>3. QED
    BY <2>1, <2>2
<1>2. PICK f, g : f = k.quotient /\ g = c.quotient
  OBVIOUS
<1>3. IsLimbs(f, size)
  BY <1>1, <1>2 DEF CallFits
<1>4. IsLimbs(g, size) /\ g[j] = q /\ \A i \in 0 .. size - 1 : i # j => g[i] = f[i]
  <2>1. IsLimbs(k.quotient, size) /\ k.j \in 0 .. size - 1
    BY <1>1, <1>2, <1>3
  <2>2. /\ IsLimbs(QuotientWith(k, q), size) /\ QuotientWith(k, q)[k.j] = q
        /\ \A i \in 0 .. size - 1 : i # k.j => QuotientWith(k, q)[i] = k.quotient[i]
    BY <2>1, QuotientWithFacts
  <2>3. QED
    BY <1>1, <1>2, <2>2
<1>5. \A i \in at .. at + e - 1 : g[i] = f[i]
  <2>1. \A i \in at .. at + e - 1 : i \in 0 .. size - 1 /\ i # j
    BY <1>1
  <2>2. QED
    BY <1>4, <2>1
<1>6. Part(g, at, e) = Part(f, at, e)
  BY <1>1, <1>3, <1>5, PartFrame
<1>7. Part(f, at, e) \in Nat
  <2>1. Part(f, at, e) \in 0 .. Power(Base, e) - 1
    BY <1>1, <1>3, PartType
  <2>2. QED
    BY <2>1, BasePower
<1>8. Part(g, j, 1 + e) = g[j] + Base * Part(g, j + 1, e)
  BY <1>1, <1>4, PartEnds
<1>9. Above(k, k.j + 1) = Part(f, at, e) /\ Above(c, k.j) = Part(g, j, 1 + e)
  BY <1>1, <1>2 DEF Above
<1>10. QED
  BY <1>1, <1>4, <1>6, <1>7, <1>8, <1>9

(* The sum before a digit carries over to after it. *)
LEMMA BalanceStep ==
  ASSUME NEW k, CallFits(k), k.pc = "digit", k.approx = FALSE, Balance(k, k.j + 1),
         NEW q, NEW u, NEW top, Divides(k, q, u, top), NEW c, Steps(k, q, u, top, c)
  PROVE  Balance(c, k.j) /\ Leftover(c, k.j) = Rest(k, u, top)
<1> /\ c.quotient = QuotientWith(k, q) /\ c.u = u /\ c.top = top /\ c.m = k.m /\ c.n = k.n
    /\ c.d = k.d /\ c.num = k.num /\ c.shift = k.shift
  BY DEF Steps
<1>1. PICK m \in Nat, n \in Nat, j \in Nat :
        m = k.m /\ n = k.n /\ j = k.j /\ 2 <= n /\ j + n <= m
          /\ j = WindowBase(k) /\ n - 1 = Low(k) + 1
  <2>1. k.m \in Nat /\ k.n \in Nat /\ k.j \in Nat /\ k.j + k.n <= k.m
        /\ Low(k) + 2 <= k.n /\ Low(k) \in Nat
    BY WindowLies
  <2>2. k.j = WindowBase(k) /\ k.n - 1 = Low(k) + 1
    BY ExactWindow
  <2>3. 2 <= k.n
    BY <2>1
  <2>4. QED
    BY <2>1, <2>2, <2>3
<1>2. PICK b \in Nat \ {0}, P \in Nat \ {0} :
        b = Base /\ P = Power(Base, j) /\ Power(Base, j + 1) = b * P
  <2>1. Base \in Nat \ {0} /\ Power(Base, j) \in Nat \ {0}
    BY BaseType, BasePower
  <2>2. Power(Base, j + 1) = Base * Power(Base, j)
    BY BaseType, PowerStep
  <2>3. QED
    BY <2>1, <2>2
<1>3. PICK D \in Nat : D = Part(k.d, 0, n) /\ D = Taken(k)
  BY <1>1, ExactWindow, SaturatedType
<1>4. PICK v \in 0 .. b - 1, W \in Nat :
        v = k.u[j] /\ W = Leftover(k, j + 1) /\ Window(k) = v + b * W
  BY <1>1, <1>2, ExactWindow, WindowType
<1>5. PICK R \in Nat : R = Rest(k, u, top) /\ v + b * W = q * D + R
  BY <1>3, <1>4 DEF Divides
<1>6. /\ IsLimbs(k.u, m + 1) /\ IsLimbs(u, m + 1) /\ IsLimbs(k.quotient, m - n + 2)
      /\ q \in 0 .. b - 1 /\ \A i \in 0 .. m : i < j => u[i] = k.u[i]
  BY <1>1, <1>2 DEF CallFits, Divides, Leaves
<1>7. PICK U \in Nat : U = Part(k.u, 0, j) /\ U = Part(u, 0, j) /\ Part(k.u, 0, j + 1) = U + P * v
  <2>1. 0 + j <= m + 1 /\ 0 + j + 1 <= m + 1 /\ m + 1 \in Nat /\ 0 \in Nat /\ 0 + j = j
    BY <1>1
  <2>2. Part(k.u, 0, j) \in 0 .. P - 1
    BY <1>2, <1>6, <2>1, PartType
  <2>3. \A i \in 0 .. 0 + j - 1 : u[i] = k.u[i]
    BY <1>1, <1>6
  <2>4. Part(u, 0, j) = Part(k.u, 0, j)
    BY <1>6, <2>1, <2>3, PartFrame
  <2>5. Part(k.u, 0, j + 1) = Part(k.u, 0, j) + Power(Base, j) * k.u[0 + j]
    BY <1>6, <2>1, PartEnds
  <2>6. QED
    BY <1>2, <1>4, <2>1, <2>2, <2>4, <2>5
<1>8. PICK Q \in Nat : Q = Above(k, j + 1) /\ Above(c, j) = q + b * Q
  <2>1. q \in 0 .. Base - 1 /\ k.pc # "finish"
    BY <1>2, <1>6
  <2>2. Above(k, k.j + 1) \in Nat /\ Above(c, k.j) = q + Base * Above(k, k.j + 1)
    BY <2>1, AboveStep
  <2>3. QED
    BY <1>1, <1>2, <2>2
<1>9. Leftover(c, j) = R
  BY <1>1, <1>5 DEF Leftover, Rest
<1>10. (q + b * Q) * P * D + (U + P * R) = Q * (b * P) * D + (U + P * v + (b * P) * W)
  <2>1. q \in Nat /\ b \in Nat /\ P \in Nat /\ v \in Nat
    BY <1>6
  <2>2. WindowSplits(b, P, D, Q, q, U, v, W, R)
    BY <1>5, <2>1 DEF WindowSplits
  <2>3. QED
    BY <2>2, BalanceNumbers
<1>11. Q * (b * P) * D + (U + P * v + (b * P) * W) = k.num * Power(2, k.shift)
  BY <1>1, <1>2, <1>3, <1>4, <1>7, <1>8 DEF Balance
<1>12. Balance(c, j)
  <2>1. Above(c, j) * Power(Base, j) * Part(c.d, 0, c.n)
          + (Part(c.u, 0, j) + Power(Base, j) * Leftover(c, j))
          = (q + b * Q) * P * D + (U + P * R)
    BY <1>1, <1>2, <1>3, <1>7, <1>8, <1>9
  <2>2. c.num * Power(2, c.shift) = k.num * Power(2, k.shift)
    OBVIOUS
  <2>3. QED
    BY <1>10, <1>11, <2>1, <2>2 DEF Balance
<1>13. QED
  BY <1>1, <1>5, <1>9, <1>12

(* An exact division so far: the divisor is the shifted one, and digits and window make up the
   shifted dividend. After the last digit the window is below the divisor. *)
ExactSoFar(k) ==
  /\ Part(k.d, 0, k.n) = k.den * Power(2, k.shift)
  /\ k.pc = "digit" => Balance(k, k.j + 1)
  /\ k.pc = "finish" => k.j = 0 /\ Balance(k, 0) /\ Leftover(k, 0) < Part(k.d, 0, k.n)

(* A call between two digits: what the digit before has left is below the divisor. *)
Running(k) ==
  /\ CallFits(k)
  /\ k.pc = "digit" => Begins(k) < Taken(k)
  /\ k.approx = FALSE => ExactSoFar(k)

(* A call that has ended. *)
Answered(k) ==
  /\ k.pc = "done" /\ k.approx \in BOOLEAN /\ k.sound = TRUE
  /\ k.approx = FALSE => k.quotient = k.num \div k.den /\ k.remainder = k.num % k.den

KnuthHolds(k) == k = KnuthIdle \/ Running(k) \/ Answered(k)

(* An exact digit leads to the next one. *)
LEMMA DigitRuns ==
  ASSUME NEW k, Running(k), k.pc = "digit", NEW q, NEW u, NEW top, Divides(k, q, u, top),
         NEW sound, sound = TRUE, NEW c, c = Stepped(k, q, u, top, sound)
  PROVE  Running(c)
<1>1. Steps(k, q, u, top, c)
  <2>1. CallFits(k) /\ k.pc \in {"digit", "tail"} /\ Leaves(k, q, u, top)
    BY DEF Running, Divides
  <2>2. QED
    BY <2>1, SteppedFacts
<1> USE DEF Steps
<1>2. k.j \in Nat /\ k.n \in Nat /\ Low(k) \in Nat /\ (k.j = 0 \/ k.j > 0)
  <2>1. k.j \in Nat /\ k.n \in Nat /\ Low(k) \in Nat
    BY WindowLies DEF Running
  <2>2. QED
    BY <2>1
<1>3. ASSUME c.pc = "digit" PROVE Begins(c) < Taken(c)
  <2>1. k.j > 0 /\ c.j = k.j - 1
    BY <1>1, <1>2, <1>3
  <2>2. Low(c) = Low(k)
    BY <1>1, <1>3 DEF Low
  <2>3. WindowBase(c) + 1 = WindowBase(k)
    BY <1>1, <1>2, <2>1, <2>2 DEF WindowBase
  <2>4. Begins(c) = Rest(k, u, top)
    BY <1>1, <2>2, <2>3 DEF Begins, Rest
  <2>5. Taken(c) = Taken(k)
    BY <1>1, <2>2 DEF Taken
  <2>6. QED
    BY <2>4, <2>5 DEF Divides
<1>4. ASSUME c.approx = FALSE PROVE ExactSoFar(c)
  <2>1. k.approx = FALSE /\ ExactSoFar(k) /\ CallFits(k)
    BY <1>1, <1>4 DEF Running
  <2>2. Balance(c, k.j) /\ Leftover(c, k.j) = Rest(k, u, top)
    <3>1. Balance(k, k.j + 1)
      BY <2>1 DEF ExactSoFar
    <3> HIDE DEF Steps
    <3>2. QED
      BY <1>1, <2>1, <3>1, BalanceStep
  <2>3. Part(c.d, 0, c.n) = c.den * Power(2, c.shift) /\ Taken(k) = Part(c.d, 0, c.n)
    BY <1>1, <2>1, ExactWindow DEF ExactSoFar
  <2>4. ASSUME c.pc = "digit" PROVE Balance(c, c.j + 1)
    <3>1. k.j > 0
      BY <1>1, <1>2, <2>4
    <3>2. c.j = k.j - 1
      BY <1>1, <3>1
    <3>3. c.j + 1 = k.j
      BY <1>2, <3>2
    <3>4. QED
      BY <2>2, <3>3
  <2>5. ASSUME c.pc = "finish" PROVE c.j = 0 /\ Balance(c, 0) /\ Leftover(c, 0) < Part(c.d, 0, c.n)
    <3>1. k.j = 0 /\ c.j = 0
      BY <1>1, <1>2, <2>5
    <3>2. QED
      BY <2>2, <2>3, <3>1 DEF Divides
  <2>6. QED
    BY <2>3, <2>4, <2>5 DEF ExactSoFar
<1>5. QED
  BY <1>1, <1>3, <1>4 DEF Running

(* In the tail any digit leads to the next one. *)
LEMMA TailRuns ==
  ASSUME NEW k, Running(k), k.pc = "tail", NEW q, NEW u, NEW top, Leaves(k, q, u, top),
         NEW sound, sound = TRUE, NEW c, c = Stepped(k, q, u, top, sound)
  PROVE  Running(c)
<1>1. CallFits(c) /\ c.approx = k.approx /\ (c.pc = "digit" => k.pc = "digit")
  <2>1. CallFits(k) /\ k.pc \in {"digit", "tail"}
    BY DEF Running
  <2>2. Steps(k, q, u, top, c)
    BY <2>1, SteppedFacts
  <2>3. QED
    BY <2>2 DEF Steps
<1>2. c.pc # "digit"
  BY <1>1
<1>3. k.approx # FALSE
  BY DEF Running, CallFits
<1>4. QED
  BY <1>1, <1>2, <1>3 DEF Running

-----------------------------------------------------------------------------
(* The actions.                                                            *)

(* The largest digit. *)
LEMMA LargestDigitHolds ==
  ASSUME Running(knuth), KnuthLargestDigit
  PROVE  Running(knuth')
<1> DEFINE s == Saturated(knuth)
           u == Patched(knuth.u, WindowBase(knuth), Low(knuth) + 2, s.rest)
           sound == s.cy = knuth.top
<1>1. CallFits(knuth) /\ knuth.pc = "digit" /\ Begins(knuth) < Taken(knuth)
  BY DEF Running, KnuthLargestDigit
<1>2. High(knuth) = TopPair(knuth)
  BY DEF KnuthLargestDigit, High
<1>3. Divides(knuth, Base - 1, u, u[knuth.j + knuth.n - 1]) /\ sound = TRUE
  BY <1>1, <1>2, SaturatedFacts
<1>4. knuth' = Stepped(knuth, Base - 1, u, u[knuth.j + knuth.n - 1], sound)
  BY DEF KnuthLargestDigit, WithSaturated
<1> HIDE DEF u, sound
<1>5. QED
  BY <1>1, <1>3, <1>4, DigitRuns

(* A digit from an estimate. *)
LEMMA DigitHolds ==
  ASSUME Running(knuth), KnuthDigit
  PROVE  Running(knuth')
<1> DEFINE result == Subtracted(knuth, Estimate(knuth), Low(knuth))
           u == [Patched(knuth.u, WindowBase(knuth), Low(knuth), result.low)
                   EXCEPT ![knuth.j + knuth.n - 2] = LowLimb(result.high)]
<1>1. CallFits(knuth) /\ knuth.pc = "digit" /\ Begins(knuth) < Taken(knuth)
  BY DEF Running, KnuthDigit
<1>2. High(knuth) < TopPair(knuth)
  <2>1. High(knuth) # TopPair(knuth)
    BY DEF KnuthDigit, High
  <2>2. High(knuth) <= TopPair(knuth)
    BY <1>1, HighFits
  <2>3. High(knuth) \in Nat
    BY <1>1, HighType
  <2>4. Low(knuth) \in Nat /\ Low(knuth) + 2 <= knuth.n
    BY <1>1, WindowLies
  <2>5. TopPair(knuth) \in Nat
    BY <1>1, <2>4, DivisorFacts
  <2>6. QED
    BY <2>1, <2>2, <2>3, <2>5
<1>3. Divides(knuth, result.q, u, HighLimb(result.high)) /\ result.sound = TRUE
  BY <1>1, <1>2, WithEstimateFacts
<1>4. knuth' = Stepped(knuth, result.q, u, HighLimb(result.high), result.sound)
  BY DEF KnuthDigit, WithEstimate
<1> HIDE DEF u, result
<1>5. QED
  BY <1>1, <1>3, <1>4, DigitRuns

(* A digit of the tail from an estimate. *)
LEMMA TailDigitHolds ==
  ASSUME Running(knuth), KnuthTailDigit
  PROVE  Running(knuth')
<1> DEFINE result == Subtracted(knuth, Estimate(knuth), Low(knuth))
           u == [Patched(knuth.u, WindowBase(knuth), Low(knuth), result.low)
                   EXCEPT ![knuth.j + knuth.n - 2] = LowLimb(result.high)]
<1>1. CallFits(knuth) /\ knuth.pc = "tail"
  BY DEF Running, KnuthTailDigit
<1>2. High(knuth) < TopPair(knuth)
  <2>1. knuth.top \in Nat /\ knuth.d[knuth.n - 1] \in Int
    <3>1. knuth.n \in Nat /\ knuth.n - 1 \in 0 .. knuth.n - 1 /\ knuth.top \in Nat
      <4>1. knuth.n \in Nat /\ knuth.m \in Nat /\ knuth.top \in Nat /\ knuth.kept \in Nat
        BY <1>1 DEF CallFits, KnuthCalls
      <4>2. QED
        BY <1>1, <4>1 DEF CallFits
    <3>2. QED
      BY <1>1, <3>1, BaseType DEF CallFits, IsLimbs
  <2>2. ~(knuth.top >= knuth.d[knuth.n - 1])
    BY DEF KnuthTailDigit, TailSaturates
  <2>3. QED
    BY <1>1, <2>1, <2>2, TopLimbBelow
<1>3. Divides(knuth, result.q, u, HighLimb(result.high)) /\ result.sound = TRUE
  BY <1>1, <1>2, WithEstimateFacts
<1>4. knuth' = Stepped(knuth, result.q, u, HighLimb(result.high), result.sound)
  BY DEF KnuthTailDigit, WithEstimate
<1> HIDE DEF u, result
<1>5. Leaves(knuth, result.q, u, HighLimb(result.high))
  BY <1>3 DEF Divides
<1>6. QED
  BY <1>1, <1>3, <1>4, <1>5, TailRuns

(* Giving up on exact digits changes nothing else. *)
LEMMA ExactSet ==
  ASSUME NEW k, CallFits(k), NEW x \in BOOLEAN
  PROVE  LET c == [k EXCEPT !.exact = x] IN CallFits(c) /\ c.pc = k.pc /\ c.approx = k.approx
<1> DEFINE c == [k EXCEPT !.exact = x]
<1>1. /\ c \in KnuthCalls /\ c.pc = k.pc /\ c.approx = k.approx /\ c.sound = k.sound
      /\ c.kept = k.kept /\ c.n = k.n /\ c.m = k.m /\ c.j = k.j /\ c.d = k.d /\ c.dinv = k.dinv
      /\ c.u = k.u /\ c.top = k.top /\ c.quotient = k.quotient
  BY DEF CallFits, KnuthCalls
<1> HIDE DEF c
<1>2. TopPair(c) = TopPair(k)
  BY <1>1, SameDivisor
<1>3. CallFits(c)
  BY <1>1, <1>2 DEF CallFits
<1>4. QED
  BY <1>1, <1>3 DEF c

(* Digits of the tail that can no longer be told from the largest. *)
LEMMA TailLargestHolds ==
  ASSUME Running(knuth), KnuthTailLargest
  PROVE  Running(knuth')
<1> DEFINE s == Saturated(knuth)
           P == Power(Base, Low(knuth) + 2)
           back == s.rest + Part(knuth.d, knuth.n - (Low(knuth) + 2), Low(knuth) + 2)
<1>1. CallFits(knuth) /\ knuth.pc = "tail" /\ knuth.exact \in BOOLEAN /\ knuth.approx # FALSE
  BY DEF Running, KnuthTailLargest, CallFits, KnuthCalls
<1>2. /\ s.rest \in 0 .. P - 1 /\ P \in Nat \ {0} /\ Taken(knuth) \in Nat /\ s.cy \in Int
      /\ back = s.rest + Taken(knuth) /\ Base - 1 \in 0 .. Base - 1 /\ Base - 2 \in 0 .. Base - 1
  <2>1. /\ s.rest \in 0 .. P - 1 /\ P \in Nat \ {0} /\ Taken(knuth) \in Nat /\ s.cy \in Int
    BY <1>1, SaturatedType
  <2>2. Taken(knuth) = Part(knuth.d, knuth.n - (Low(knuth) + 2), Low(knuth) + 2)
    BY <1>1, SaturatedType
  <2>3. QED
    BY <2>1, <2>2, BaseType
<1>3. CASE knuth.top # s.cy /\ knuth.exact /\ knuth.top < s.cy
  <2> DEFINE u == Patched(knuth.u, WindowBase(knuth), Low(knuth) + 2, back % P)
             sound == back >= P
  <2>1. knuth.d[knuth.n - 1] <= knuth.top
    <3>1. knuth.top >= knuth.d[knuth.n - 1]
      BY <1>1, <1>3 DEF KnuthTailLargest, TailSaturates
    <3>2. QED
      BY <3>1
  <2>2. sound = TRUE
    <3>1. s.rest + Taken(knuth) - P \in Nat
      BY <1>1, <1>3, <2>1, TailCarries
    <3>2. s.rest + Taken(knuth) >= P
      <4>1. s.rest \in Int /\ Taken(knuth) \in Int /\ P \in Int
        BY <1>2
      <4>2. QED
        BY <3>1, <4>1
    <3>3. QED
      BY <1>2, <3>2
  <2>3. back % P \in 0 .. P - 1
    <3>1. s.rest + Taken(knuth) \in Int
      BY <1>2
    <3>2. QED
      BY <1>2, <3>1, DivMod
  <2>4. Leaves(knuth, Base - 2, u, u[knuth.j + knuth.n - 1])
    BY <1>1, <1>2, <2>3, SaturatedLeaves
  <2>5. knuth' = Stepped(knuth, Base - 2, u, u[knuth.j + knuth.n - 1], sound)
    BY <1>3 DEF KnuthTailLargest, WithSaturated
  <2> HIDE DEF u, sound
  <2>6. QED
    BY <1>1, <2>2, <2>4, <2>5, TailRuns
<1>4. CASE ~(knuth.top # s.cy /\ knuth.exact /\ knuth.top < s.cy)
  <2> DEFINE u == Patched(knuth.u, WindowBase(knuth), Low(knuth) + 2, s.rest)
             c == Stepped(knuth, Base - 1, u, u[knuth.j + knuth.n - 1], TRUE)
  <2>1. Leaves(knuth, Base - 1, u, u[knuth.j + knuth.n - 1])
    BY <1>1, <1>2, SaturatedLeaves
  <2>2. knuth' = [c EXCEPT !.exact = @ /\ knuth.top = s.cy]
    BY <1>4 DEF KnuthTailLargest, WithSaturated
  <2> HIDE DEF u
  <2>3. Running(c) /\ c.approx # FALSE /\ c.pc # "digit"
    <3>1. Running(c)
      BY <1>1, <2>1, TailRuns
    <3>2. Steps(knuth, Base - 1, u, u[knuth.j + knuth.n - 1], c)
      BY <1>1, <2>1, SteppedFacts
    <3> HIDE DEF c
    <3>3. QED
      BY <1>1, <3>1, <3>2 DEF Steps
  <2> HIDE DEF c
  <2>4. PICK x \in BOOLEAN : knuth' = [c EXCEPT !.exact = x]
    <3>1. (c.exact /\ knuth.top = s.cy) \in BOOLEAN
      OBVIOUS
    <3>2. QED
      BY <2>2, <3>1
  <2>5. CallFits(knuth') /\ knuth'.pc = c.pc /\ knuth'.approx = c.approx
    BY <2>3, <2>4, ExactSet DEF Running
  <2>6. QED
    BY <2>3, <2>5 DEF Running
<1>5. QED
  BY <1>3, <1>4

(* The lowest digit of the approximation. *)
LEMMA LastDigitHolds ==
  ASSUME Running(knuth), KnuthLastDigit
  PROVE  Running(knuth')
<1>1. CallFits(knuth) /\ knuth.pc = "last" /\ knuth.exact \in BOOLEAN /\ knuth.approx # FALSE
  BY DEF Running, KnuthLastDigit, CallFits, KnuthCalls
<1>2. PICK digit : /\ knuth' = [knuth EXCEPT !.quotient[0] = digit, !.pc = "finish"]
                   /\ digit = IF ~TailSaturates THEN Estimate(knuth).quotient
                              ELSE IF knuth.exact /\ knuth.top < Saturated(knuth).cy
                                   THEN Base - 2 ELSE Base - 1
  BY DEF KnuthLastDigit
<1>3. digit \in 0 .. Base - 1
  <2>1. CASE TailSaturates
    BY <1>2, <2>1, BaseType
  <2>2. CASE ~TailSaturates
    <3>1. knuth.top < knuth.d[knuth.n - 1]
      <4>1. knuth.n \in Nat /\ knuth.n - 1 \in 0 .. knuth.n - 1 /\ knuth.top \in Nat
        <5>1. knuth.n \in Nat /\ knuth.m \in Nat /\ knuth.top \in Nat /\ knuth.kept \in Nat
          BY <1>1 DEF CallFits, KnuthCalls
        <5>2. QED
          BY <1>1, <5>1 DEF CallFits
      <4>2. knuth.d[knuth.n - 1] \in Int
        BY <1>1, <4>1, BaseType DEF CallFits, IsLimbs
      <4>3. ~(knuth.top >= knuth.d[knuth.n - 1])
        BY <2>2 DEF TailSaturates
      <4>4. QED
        BY <4>1, <4>2, <4>3
    <3>2. High(knuth) < TopPair(knuth)
      BY <1>1, <3>1, TopLimbBelow
    <3>3. Estimate(knuth).quotient \in 0 .. Base - 1
      BY <1>1, <3>2, EstimateFacts DEF Estimated
    <3>4. QED
      BY <1>2, <2>2, <3>3
  <2>3. QED
    BY <2>1, <2>2
<1>4. /\ knuth.m \in Nat /\ knuth.n \in Nat /\ knuth.kept \in Nat
      /\ 0 \in 0 .. knuth.m - knuth.n + 2 - 1 /\ knuth.m - knuth.n + 2 \in Nat
  <2>1. knuth.m \in Nat /\ knuth.n \in Nat /\ knuth.n <= knuth.m /\ knuth.kept \in Nat
    BY <1>1 DEF CallFits, KnuthCalls
  <2>2. QED
    BY <2>1
<1> DEFINE Q == [knuth.quotient EXCEPT ![0] = digit]
<1>5. IsLimbs(Q, knuth.m - knuth.n + 2)
  BY <1>1, <1>3, <1>4 DEF CallFits, IsLimbs
<1>6. Q \in Arrays
  BY <1>4, <1>5, LimbsAreArrays
<1> HIDE DEF Q
<1>7. knuth' = [knuth EXCEPT !.quotient = Q, !.pc = "finish"]
  BY <1>1, <1>2 DEF Q, CallFits, KnuthCalls
<1>8. /\ knuth' \in KnuthCalls /\ knuth'.pc = "finish" /\ knuth'.approx = knuth.approx
      /\ knuth'.sound = knuth.sound /\ knuth'.kept = knuth.kept /\ knuth'.n = knuth.n
      /\ knuth'.m = knuth.m /\ knuth'.j = knuth.j /\ knuth'.d = knuth.d /\ knuth'.dinv = knuth.dinv
      /\ knuth'.u = knuth.u /\ knuth'.top = knuth.top /\ knuth'.quotient = Q
  BY <1>1, <1>6, <1>7 DEF CallFits, KnuthCalls
<1>9. CallFits(knuth')
  <2>1. PICK c : c = knuth'
    OBVIOUS
  <2>2. TopPair(c) = TopPair(knuth)
    BY <1>8, <2>1, SameDivisor
  <2>3. CallFits(c)
    BY <1>1, <1>5, <1>8, <2>1, <2>2 DEF CallFits
  <2>4. QED
    BY <2>1, <2>3
<1>10. QED
  BY <1>1, <1>8, <1>9 DEF Running

(* Shifting the remainder back, on numbers: z is the power of two, d the divisor. *)
ShiftedDivision(z, d, x, Q, r) ==
  /\ z \in Nat \ {0} /\ d \in Nat /\ x \in Nat /\ Q \in Nat /\ r \in Nat
  /\ Q * (d * z) + r = x * z /\ r < d * z

LEMMA ShiftedBack ==
  ASSUME NEW z, NEW d, NEW x, NEW Q, NEW r, ShiftedDivision(z, d, x, Q, r)
  PROVE  r % z = 0 /\ Q = x \div d /\ r \div z = x % d
<1> USE DEF ShiftedDivision
<1>1. PICK y \in Int : y = x - Q * d
  OBVIOUS
<1>2. r = z * y
  <2>1. Q * (d * z) = (Q * d) * z
    OBVIOUS
  <2>2. z * (x - Q * d) = x * z - (Q * d) * z
    OBVIOUS
  <2>3. PICK a \in Int, b \in Int : a = x * z /\ b = (Q * d) * z
    OBVIOUS
  <2>4. b + r = a
    BY <2>1, <2>3
  <2>5. z * y = a - b
    BY <1>1, <2>2, <2>3
  <2>6. QED
    BY <2>4, <2>5
<1>3. 0 <= y /\ y < d
  <2>1. ASSUME y <= -1 PROVE FALSE
    <3>1. y * z <= (-1) * z
      BY <2>1, MulPos
    <3>2. y * z = z * y /\ (-1) * z = -z
      OBVIOUS
    <3>3. QED
      BY <1>2, <3>1, <3>2
  <2>2. ASSUME d <= y PROVE FALSE
    <3>1. d * z <= y * z
      BY <2>2, MulPos
    <3>2. y * z = z * y /\ d * z \in Int
      OBVIOUS
    <3>3. QED
      BY <1>2, <3>1, <3>2
  <2>3. QED
    BY <2>1, <2>2
<1>4. r % z = 0 /\ r \div z = y
  <2>1. r = z * y + 0 /\ 0 \in 0 .. z - 1 /\ r \in Int
    BY <1>2
  <2>2. QED
    BY <2>1, DivUnique
<1>5. Q = x \div d /\ y = x % d
  <2>1. d \in Nat \ {0} /\ y \in 0 .. d - 1
    BY <1>3
  <2>2. x = d * Q + y
    BY <1>1
  <2>3. x \in Int /\ Q \in Int
    OBVIOUS
  <2>4. QED
    BY <2>1, <2>2, <2>3, DivUnique
<1>6. QED
  BY <1>4, <1>5

(* A part whose top limb is replaced. *)
LEMMA PartReplaced ==
  ASSUME NEW size \in Nat, NEW f, IsLimbs(f, size), NEW n \in Nat, n + 1 <= size,
         NEW x \in 0 .. Base - 1
  PROVE  Part([f EXCEPT ![n] = x], 0, n + 1) = Part(f, 0, n) + Power(Base, n) * x
<1> DEFINE g == [f EXCEPT ![n] = x]
<1>1. IsLimbs(g, size) /\ g[n] = x /\ \A i \in 0 .. 0 + n - 1 : g[i] = f[i]
  BY DEF IsLimbs
<1> HIDE DEF g
<1>2. Part(g, 0, n) = Part(f, 0, n)
  <2>1. 0 \in Nat /\ 0 + n <= size
    OBVIOUS
  <2>2. QED
    BY <1>1, <2>1, PartFrame
<1>3. Part(g, 0, n + 1) = Part(g, 0, n) + Power(Base, n) * g[0 + n]
  <2>1. 0 \in Nat /\ 0 + n + 1 <= size
    OBVIOUS
  <2>2. QED
    BY <1>1, <2>1, PartEnds
<1>4. 0 + n = n
  OBVIOUS
<1>5. QED
  BY <1>1, <1>2, <1>3, <1>4 DEF g

(* The quotient and the remainder of an exact division. *)
LEMMA FinishedExact ==
  ASSUME NEW k, Running(k), k.pc = "finish", k.approx = FALSE
  PROVE  LET Q == Part([k.quotient EXCEPT ![k.m - k.n + 1] = 0], 0, k.m - k.n + 2)
             r == Part([k.u EXCEPT ![k.n - 1] = k.top], 0, k.n)
         IN  /\ r % Power(2, k.shift) = 0 /\ Q = k.num \div k.den
             /\ r \div Power(2, k.shift) = k.num % k.den
<1>1. CallFits(k) /\ ExactSoFar(k) /\ Balance(k, 0)
  BY DEF Running, ExactSoFar
<1>2. PICK m \in Nat, n \in Nat : m = k.m /\ n = k.n /\ 2 <= n /\ n <= m
  <2>1. k.m \in Nat /\ k.n \in Nat /\ k.kept \in Nat
    BY <1>1 DEF CallFits, KnuthCalls
  <2>2. 2 <= k.n /\ k.n <= k.m
    BY <1>1, <2>1 DEF CallFits
  <2>3. QED
    BY <2>1, <2>2
<1>3. PICK z \in Nat \ {0}, d \in Nat, x \in Nat : z = Power(2, k.shift) /\ d = k.den /\ x = k.num
  <2>1. k.shift \in Nat /\ k.den \in Nat /\ k.num \in Nat
    BY <1>1 DEF CallFits, KnuthCalls
  <2>2. Power(2, k.shift) \in Nat \ {0}
    BY <2>1, PowerPositive
  <2>3. QED
    BY <2>1, <2>2
<1>4. PICK top \in 0 .. Base - 1 : top = k.top
  <2>1. k.top \in Nat /\ k.top < Base
    BY <1>1 DEF CallFits, KnuthCalls
  <2>2. QED
    BY <2>1, BaseType
<1>5. PICK u \in Nat, p \in Nat : u = Part(k.u, 0, n - 1) /\ p = Power(Base, n - 1)
  <2>1. 0 + (n - 1) <= m + 1 /\ m + 1 \in Nat /\ n - 1 \in Nat /\ 0 \in Nat /\ IsLimbs(k.u, m + 1)
    BY <1>1, <1>2 DEF CallFits
  <2>2. Part(k.u, 0, n - 1) \in 0 .. Power(Base, n - 1) - 1 /\ Power(Base, n - 1) \in Nat
    BY <2>1, PartType, BasePower
  <2>3. QED
    BY <2>2
<1>6. PICK r \in Nat : /\ r = u + top * p /\ Leftover(k, 0) = r
                       /\ Part([k.u EXCEPT ![k.n - 1] = k.top], 0, k.n) = r
  <2>1. (n - 1) + 1 <= m + 1 /\ m + 1 \in Nat /\ n - 1 \in Nat
        /\ IsLimbs(k.u, m + 1) /\ (n - 1) + 1 = n
    BY <1>1, <1>2 DEF CallFits
  <2>2. Part([k.u EXCEPT ![n - 1] = top], 0, (n - 1) + 1) = u + p * top
    BY <1>5, <2>1, PartReplaced
  <2>3. p * top = top * p /\ u + top * p \in Nat
    BY BaseType
  <2>4. Leftover(k, 0) = u + top * p
    BY <1>2, <1>4, <1>5 DEF Leftover
  <2>5. QED
    BY <1>2, <1>4, <2>1, <2>2, <2>3, <2>4
<1>7. PICK Q \in Nat : /\ Q = Above(k, 0)
                       /\ Part([k.quotient EXCEPT ![k.m - k.n + 1] = 0], 0, k.m - k.n + 2) = Q
  <2>1. PICK e \in Nat : e = m - n + 1
    BY <1>2
  <2>2. IsLimbs(k.quotient, e + 1) /\ e + 1 <= e + 1 /\ e + 1 \in Nat /\ 0 + e <= e + 1 /\ 0 \in Nat
    <3>1. m - n + 2 = e + 1
      BY <2>1
    <3>2. QED
      BY <1>1, <1>2, <3>1 DEF CallFits
  <2>3. 0 \in 0 .. Base - 1
    BY BaseType
  <2>4. Part([k.quotient EXCEPT ![e] = 0], 0, e + 1) = Part(k.quotient, 0, e) + Power(Base, e) * 0
    BY <2>2, <2>3, PartReplaced
  <2>5. Part(k.quotient, 0, e) \in 0 .. Power(Base, e) - 1 /\ Power(Base, e) \in Nat
    BY <2>2, PartType, BasePower
  <2>6. m - n + 1 = e /\ m - n + 2 = e + 1 /\ m - n + 1 - 0 = e
    BY <2>1
  <2>7. QED
    BY <1>2, <2>4, <2>5, <2>6 DEF Above
<1>8. Q * (d * z) + r = x * z /\ r < d * z
  <2>1. Part(k.d, 0, k.n) = d * z /\ r < d * z
    BY <1>1, <1>3, <1>6 DEF ExactSoFar
  <2>2. Power(Base, 0) = 1
    BY BaseType, PowerStep
  <2>3. Part(k.u, 0, 0) = 0
    <3>1. m + 1 \in Nat /\ IsLimbs(k.u, m + 1) /\ 0 \in Nat /\ 0 <= m + 1
      BY <1>1, <1>2 DEF CallFits
    <3>2. QED
      BY <3>1, PartSmall
  <2>4. Q * 1 * (d * z) + (0 + 1 * r) = x * z
    BY <1>1, <1>3, <1>6, <1>7, <2>1, <2>2, <2>3 DEF Balance
  <2>5. QED
    BY <2>1, <2>4
<1>9. r % z = 0 /\ Q = x \div d /\ r \div z = x % d
  <2>1. ShiftedDivision(z, d, x, Q, r)
    BY <1>8 DEF ShiftedDivision
  <2>2. QED
    BY <2>1, ShiftedBack
<1>10. QED
  BY <1>3, <1>6, <1>7, <1>9

(* The end of a call. *)
LEMMA FinishHolds ==
  ASSUME Running(knuth), KnuthFinish
  PROVE  Answered(knuth')
<1> DEFINE Q == Part([knuth.quotient EXCEPT ![knuth.m - knuth.n + 1] = 0], 0, knuth.m - knuth.n + 2)
           r == Part([knuth.u EXCEPT ![knuth.n - 1] = knuth.top], 0, knuth.n)
           z == Power(2, knuth.shift)
           sound == knuth.sound /\ (knuth.approx \/ r % z = 0)
<1>1. knuth.pc = "finish" /\ knuth.approx \in BOOLEAN /\ knuth.sound = TRUE
  BY DEF Running, CallFits, KnuthCalls, KnuthFinish
<1>2. knuth.approx = FALSE =>
        r % z = 0 /\ Q = knuth.num \div knuth.den /\ r \div z = knuth.num % knuth.den
  BY <1>1, FinishedExact
<1>3. knuth' = [pc |-> "done", approx |-> knuth.approx, num |-> knuth.num, den |-> knuth.den,
                quotient |-> Q, remainder |-> r \div z, sound |-> sound]
  BY DEF KnuthFinish
<1>4. sound = TRUE
  BY <1>1, <1>2
<1> HIDE DEF Q, r, z, sound
<1>5. /\ knuth'.pc = "done" /\ knuth'.approx = knuth.approx /\ knuth'.num = knuth.num
      /\ knuth'.den = knuth.den /\ knuth'.quotient = Q /\ knuth'.remainder = r \div z
      /\ knuth'.sound = TRUE
  BY <1>3, <1>4
<1>6. QED
  BY <1>1, <1>2, <1>5 DEF Answered

(* The next call may begin. *)
LEMMA ReturnHolds ==
  ASSUME KnuthReturn
  PROVE  knuth' = KnuthIdle
BY DEF KnuthReturn

(* The top digit of a number. *)
LEMMA TopDigit ==
  ASSUME NEW v \in Nat, NEW n \in Nat, v < Power(Base, n + 1)
  PROVE  /\ Digit(v, n) = v \div Power(Base, n) /\ Digit(v, n) \in 0 .. Base - 1
         /\ v = Power(Base, n) * Digit(v, n) + (v % Power(Base, n))
<1>1. PICK p \in Nat \ {0}, b \in Nat \ {0} :
        p = Power(Base, n) /\ b = Base /\ Power(Base, n + 1) = b * p
  <2>1. Base \in Nat \ {0} /\ Power(Base, n) \in Nat \ {0}
    BY BaseType, BasePower
  <2>2. Power(Base, n + 1) = Base * Power(Base, n)
    BY BaseType, PowerStep
  <2>3. QED
    BY <2>1, <2>2
<1>2. PICK q \in Int : /\ q = v \div p /\ v = p * q + (v % p) /\ v % p \in 0 .. p - 1
  <2>1. v \in Int
    OBVIOUS
  <2>2. v \div p \in Int /\ v % p \in 0 .. p - 1 /\ v = p * (v \div p) + (v % p)
    BY <2>1, DivMod
  <2>3. QED
    BY <2>2
<1>3. PICK r \in 0 .. p - 1 : r = v % p /\ v = p * q + r
  BY <1>2
<1>4. q \in 0 .. b - 1
  <2>1. ASSUME q <= -1 PROVE FALSE
    <3>1. q * p <= (-1) * p
      BY <2>1, MulPos
    <3>2. q * p = p * q /\ (-1) * p = -p
      OBVIOUS
    <3>3. QED
      BY <1>3, <3>1, <3>2
  <2>2. ASSUME b <= q PROVE FALSE
    <3>1. b * p <= q * p
      BY <2>2, MulPos
    <3>2. q * p = p * q
      OBVIOUS
    <3>3. QED
      BY <1>1, <1>3, <3>1, <3>2
  <2>3. QED
    BY <2>1, <2>2
<1>5. q % b = q
  BY <1>4, DivSmall
<1>6. Digit(v, n) = q
  BY <1>1, <1>2, <1>5 DEF Digit
<1>7. QED
  BY <1>1, <1>2, <1>3, <1>4, <1>6

(* A limb x shifted by less than its leading zeros leaves room for the bits shifted in. *)
LEMMA ShiftRoom ==
  ASSUME NEW x \in Nat, NEW s \in 0 .. LimbBits - 1, x * Power(2, s) < Base
  PROVE  (x + 1) * Power(2, s) <= Base
<1>1. PICK z \in Nat \ {0}, w \in Nat \ {0} : z = Power(2, s) /\ Base = w * z
  <2>1. PICK e \in Nat : e + s = LimbBits /\ s \in Nat
    <3>1. LimbBits - s \in Nat /\ (LimbBits - s) + s = LimbBits /\ s \in Nat
      BY LimbAssumption
    <3>2. QED
      BY <3>1
  <2>2. Power(2, e + s) = Power(2, e) * Power(2, s)
    BY <2>1, PowerSum
  <2>3. Power(2, e) \in Nat \ {0} /\ Power(2, s) \in Nat \ {0}
    BY <2>1, PowerPositive
  <2>4. QED
    BY <2>1, <2>2, <2>3, BaseIsPower
<1>2. x < w
  <2>1. ASSUME w <= x PROVE FALSE
    <3>1. w * z <= x * z
      BY <2>1, MulPos
    <3>2. w * z \in Int /\ x * z \in Int
      OBVIOUS
    <3>3. QED
      BY <1>1, <3>1, <3>2
  <2>2. QED
    BY <2>1
<1>3. (x + 1) * z <= w * z
  BY <1>2, MulPos
<1>4. QED
  BY <1>1, <1>3

(* The shifted divisor, on numbers: p is the power below its top limb x. *)
ShiftsTop(b, p, x, z, d, r) ==
  /\ b \in Nat /\ p \in Nat \ {0} /\ x \in Nat /\ z \in Nat \ {0} /\ d \in Nat
  /\ r \in 0 .. p - 1 /\ d = p * x + r /\ (x + 1) * z <= b

LEMMA ShiftedTop ==
  ASSUME NEW b, NEW p, NEW x, NEW z, NEW d, NEW r, ShiftsTop(b, p, x, z, d, r)
  PROVE  d * z < b * p /\ p * (x * z) <= d * z
<1> USE DEF ShiftsTop
<1>1. d * z = p * (x * z) + r * z
  OBVIOUS
<1>2. r * z \in Nat /\ p * (x * z) \in Nat /\ d * z \in Nat
  OBVIOUS
<1>3. r * z < p * z
  <2>1. (r + 1) * z <= p * z
    BY MulPos
  <2>2. (r + 1) * z = r * z + z /\ r * z \in Int /\ p * z \in Int
    OBVIOUS
  <2>3. QED
    BY <2>1, <2>2
<1>4. p * (x * z) + p * z = ((x + 1) * z) * p
  OBVIOUS
<1>5. ((x + 1) * z) * p <= b * p
  BY MulPos
<1>6. p * z \in Int /\ b * p \in Int /\ r * z \in Int
  OBVIOUS
<1>7. QED
  BY <1>1, <1>2, <1>3, <1>4, <1>5, <1>6
(* The divisor, shifted until its top bit is set, has as many limbs as before, and its top limb
   is no smaller than what the shift multiplies by. *)
LEMMA StartDivisor ==
  ASSUME NEW den \in Nat, NEW n \in Nat, 2 <= n, HasLimbs(den, n)
  PROVE  LET s == LeadingZeros(Digit(den, n - 1))
             z == Power(2, s)
             top == Digit(den * z, n - 1)
         IN  /\ s \in Nat /\ z \in Nat \ {0} /\ z < Base /\ den * z \in Nat
             /\ den * z < Power(Base, n)
             /\ top \in 1 .. Base - 1 /\ Normalized(top) /\ z <= top
<1>1. PICK k \in Nat : k = n - 1 /\ k + 1 = n
  OBVIOUS
<1>2. PICK p \in Nat \ {0}, b \in Nat \ {0} :
        p = Power(Base, k) /\ b = Base /\ Power(Base, n) = b * p
  <2>1. Base \in Nat \ {0} /\ Power(Base, k) \in Nat \ {0}
    BY BaseType, BasePower
  <2>2. Power(Base, k + 1) = Base * Power(Base, k)
    BY BaseType, PowerStep
  <2>3. QED
    BY <1>1, <2>1, <2>2
<1>3. den < Power(Base, k + 1) /\ p <= den
  BY <1>1, <1>2 DEF HasLimbs
<1>4. PICK x \in 0 .. b - 1, r \in 0 .. p - 1 : x = Digit(den, k) /\ den = p * x + r
  <2>1. Digit(den, k) \in 0 .. b - 1 /\ den = p * Digit(den, k) + (den % p)
    BY <1>2, <1>3, TopDigit
  <2>2. den % p \in 0 .. p - 1
    <3>1. den \in Int
      OBVIOUS
    <3>2. QED
      BY <3>1, DivMod
  <2>3. QED
    BY <2>1, <2>2
<1>5. x \in 1 .. b - 1
  <2>1. ASSUME x = 0 PROVE FALSE
    <3>1. p * x = 0
      BY <2>1
    <3>2. QED
      BY <1>3, <1>4, <3>1
  <2>2. QED
    BY <2>1
<1>6. PICK s \in Nat, z \in Nat \ {0} :
        /\ s = LeadingZeros(x) /\ z = Power(2, s) /\ b <= 2 * (x * z) /\ x * z < b
        /\ (x + 1) * z <= b
  <2>1. /\ LeadingZeros(x) \in 0 .. LimbBits - 1
        /\ Base <= 2 * (x * Power(2, LeadingZeros(x))) /\ x * Power(2, LeadingZeros(x)) < Base
    BY <1>2, <1>5, LeadingZerosFacts DEF Normalized
  <2>2. LeadingZeros(x) \in Nat
    BY <2>1, LimbAssumption
  <2>3. Power(2, LeadingZeros(x)) \in Nat \ {0}
    BY <2>2, PowerPositive
  <2>4. (x + 1) * Power(2, LeadingZeros(x)) <= Base
    BY <1>5, <2>1, ShiftRoom
  <2>5. QED
    BY <1>2, <2>1, <2>2, <2>3, <2>4
<1>7. PICK D \in Nat : D = den * z /\ D < b * p /\ p * (x * z) <= D
  <2>1. ShiftsTop(b, p, x, z, den, r)
    BY <1>4, <1>5, <1>6 DEF ShiftsTop
  <2>2. den * z < b * p /\ p * (x * z) <= den * z /\ den * z \in Nat
    BY <2>1, ShiftedTop
  <2>3. QED
    BY <2>2
<1>8. PICK top \in 0 .. b - 1 : top = Digit(D, k) /\ top = D \div p
  <2>1. D < Power(Base, k + 1)
    BY <1>1, <1>2, <1>7
  <2>2. QED
    BY <1>2, <2>1, TopDigit
<1>9. x * z <= top
  <2>1. x * z \in Int /\ D \in Int
    BY <1>5
  <2>2. x * z <= D \div p
    BY <1>7, <2>1, DivBelow
  <2>3. QED
    BY <1>8, <2>2
<1>10. z <= x * z
  <2>1. 1 * z <= x * z
    BY <1>5, MulPos
  <2>2. QED
    BY <2>1
<1>11. PICK y \in Nat : y = x * z /\ z <= y /\ y <= top /\ b <= 2 * y /\ y < b
  <2>1. x * z \in Nat
    BY <1>5
  <2>2. QED
    BY <1>6, <1>9, <1>10, <2>1
<1>12. z <= top /\ z < b /\ top \in 1 .. b - 1 /\ b <= 2 * top
  BY <1>8, <1>11
<1>13. QED
  BY <1>1, <1>2, <1>4, <1>6, <1>7, <1>8, <1>12 DEF Normalized

(* The dividend, shifted by as much, has one limb more, which is below what the shift multiplies
   by. *)
LEMMA StartDividend ==
  ASSUME NEW num \in Nat, NEW m \in Nat, HasLimbs(num, m), NEW z \in Nat \ {0}, z < Base
  PROVE  /\ num * z \in Nat /\ num * z < Power(Base, m + 1)
         /\ Digit(num * z, m) \in 0 .. Base - 1 /\ Digit(num * z, m) < z
<1>1. PICK p \in Nat \ {0}, b \in Nat \ {0} :
        p = Power(Base, m) /\ b = Base /\ Power(Base, m + 1) = b * p
  <2>1. Base \in Nat \ {0} /\ Power(Base, m) \in Nat \ {0}
    BY BaseType, BasePower
  <2>2. Power(Base, m + 1) = Base * Power(Base, m)
    BY BaseType, PowerStep
  <2>3. QED
    BY <2>1, <2>2
<1>2. num < p
  BY <1>1 DEF HasLimbs
<1>3. PICK N \in Nat : N = num * z /\ N < p * z
  <2>1. (num + 1) * z <= p * z
    BY <1>2, MulPos
  <2>2. (num + 1) * z = num * z + z /\ num * z \in Nat /\ p * z \in Nat
    OBVIOUS
  <2>3. QED
    BY <2>1, <2>2
<1>4. N < b * p
  <2>1. z * p <= b * p
    BY <1>1, MulPos
  <2>2. z * p = p * z /\ b * p \in Int /\ p * z \in Int
    OBVIOUS
  <2>3. QED
    BY <1>3, <2>1, <2>2
<1>5. Digit(N, m) = N \div p /\ Digit(N, m) \in 0 .. b - 1
  BY <1>1, <1>4, TopDigit
<1>6. N \div p < z
  BY <1>3, DivBelow
<1>7. QED
  BY <1>1, <1>3, <1>4, <1>5, <1>6

(* What the code asserts of the operands of a division of m limbs by n. *)
OperandsFit(num, den) ==
  num \in Nat /\ den \in Nat /\ 2 <= LimbsNeeded(den) /\ LimbsNeeded(den) <= LimbsNeeded(num)

(* The first state of a call of m limbs by n, with the shift z, and what its arrays hold. *)
Starts(c, num, den, approx, m, n, z) ==
  /\ m \in Nat /\ n \in Nat /\ 2 <= n /\ n <= m /\ z \in Nat \ {0}
  /\ c \in KnuthCalls /\ c.sound = TRUE /\ c.approx = approx /\ c.num = num /\ c.den = den
  /\ c.m = m /\ c.n = n /\ c.kept = (IF approx THEN KeptLimbs(m, n) ELSE n)
  /\ c.pc = (IF approx /\ m - n + 1 < c.kept THEN "tail" ELSE "digit")
  /\ z = Power(2, c.shift) /\ c.j = m - n
  /\ IsLimbs(c.d, n) /\ Part(c.d, 0, n) = den * z /\ Normalized(c.d[n - 1]) /\ z <= c.d[n - 1]
  /\ Reciprocal3by2(c.dinv, TopPair(c))
  /\ IsLimbs(c.u, m + 1) /\ Part(c.u, 0, m + 1) = num * z
  /\ c.top = c.u[m] /\ c.top \in 0 .. Base - 1 /\ c.top < z
  /\ IsLimbs(c.quotient, m - n + 2)

LEMMA StartFacts ==
  ASSUME NEW num, NEW den, OperandsFit(num, den), NEW approx \in BOOLEAN
  PROVE  LET c == KnuthStart(num, den, approx)
         IN  Starts(c, num, den, approx, LimbsNeeded(num), LimbsNeeded(den), Power(2, c.shift))
<1>1. PICK m \in Nat, n \in Nat : /\ m = LimbsNeeded(num) /\ n = LimbsNeeded(den)
                                  /\ 2 <= n /\ n <= m
                                  /\ HasLimbs(num, m) /\ HasLimbs(den, n)
  <2>1. HasLimbs(num, LimbsNeeded(num)) /\ HasLimbs(den, LimbsNeeded(den))
    BY LimbsNeededHas DEF OperandsFit
  <2>2. LimbsNeeded(num) \in Nat /\ LimbsNeeded(den) \in Nat
    BY <2>1 DEF HasLimbs
  <2>3. QED
    BY <2>1, <2>2 DEF OperandsFit
<1>2. num \in Nat /\ den \in Nat
  BY DEF OperandsFit
<1>3. PICK s \in Nat, z \in Nat \ {0} :
        /\ s = LeadingZeros(Digit(den, n - 1)) /\ z = Power(2, s) /\ z < Base
        /\ den * z \in Nat /\ den * z < Power(Base, n)
        /\ Digit(den * z, n - 1) \in 1 .. Base - 1 /\ Normalized(Digit(den * z, n - 1))
        /\ z <= Digit(den * z, n - 1)
  BY <1>1, <1>2, StartDivisor
<1>4. /\ num * z \in Nat /\ num * z < Power(Base, m + 1)
      /\ Digit(num * z, m) \in 0 .. Base - 1 /\ Digit(num * z, m) < z
  BY <1>1, <1>2, <1>3, StartDividend
<1> DEFINE d == Limbs(den * z, n)
           u == Limbs(num * z, m + 1)
           kept == IF approx THEN KeptLimbs(m, n) ELSE n
           pc == IF ~approx \/ m - n + 1 >= kept THEN "digit" ELSE "tail"
           dinv == ReciprocalWord3by2(d[n - 1], d[n - 2])
           quotient == [i \in 0 .. m - n + 1 |-> Base - 1]
           c == KnuthStart(num, den, approx)
<1>5. c = [pc |-> pc, approx |-> approx, num |-> num, den |-> den, m |-> m, n |-> n,
           kept |-> kept, shift |-> s, d |-> d, dinv |-> dinv, u |-> u, top |-> Digit(num * z, m),
           j |-> m - n, exact |-> TRUE, sound |-> TRUE, quotient |-> quotient]
  BY <1>1, <1>3 DEF KnuthStart
<1>6. IsLimbs(d, n) /\ Part(d, 0, n) = den * z /\ d[n - 1] = Digit(den * z, n - 1)
  <2>1. IsLimbs(d, n) /\ Part(d, 0, n) = den * z
    BY <1>3, LimbsFacts
  <2>2. n - 1 \in 0 .. n - 1
    BY <1>1
  <2>3. QED
    BY <2>1, <2>2 DEF Limbs
<1>7. IsLimbs(u, m + 1) /\ Part(u, 0, m + 1) = num * z /\ u[m] = Digit(num * z, m)
  <2>1. m + 1 \in Nat /\ m \in 0 .. m + 1 - 1
    OBVIOUS
  <2>2. IsLimbs(u, m + 1) /\ Part(u, 0, m + 1) = num * z
    BY <1>4, <2>1, LimbsFacts
  <2>3. QED
    BY <2>1, <2>2 DEF Limbs
<1> HIDE DEF d, u
<1>8. Reciprocal3by2(dinv, d[n - 1] * Base + d[n - 2]) /\ dinv \in Nat
  <2>1. d[n - 2] \in 0 .. Base - 1
    <3>1. n - 2 \in 0 .. n - 1
      BY <1>1
    <3>2. QED
      BY <1>6, <3>1 DEF IsLimbs
  <2>2. Reciprocal3by2(dinv, d[n - 1] * Base + d[n - 2])
    BY <1>3, <1>6, <2>1, ReciprocalWord3by2Facts
  <2>3. QED
    BY <2>2 DEF Reciprocal3by2
<1> HIDE DEF dinv
<1>9. IsLimbs(quotient, m - n + 2) /\ m - n + 2 \in Nat
  <2>1. m - n + 2 - 1 = m - n + 1 /\ m - n + 2 \in Nat
    BY <1>1
  <2>2. Base - 1 \in 0 .. Base - 1
    BY BaseType
  <2>3. QED
    BY <2>1, <2>2 DEF IsLimbs
<1> HIDE DEF quotient
<1>10. d \in Arrays /\ u \in Arrays /\ quotient \in Arrays
  <2>1. m + 1 \in Nat
    OBVIOUS
  <2>2. QED
    BY <1>6, <1>7, <1>9, <2>1, LimbsAreArrays
<1>11. kept \in Nat /\ pc \in {"digit", "tail"} /\ m - n \in Nat /\ Digit(num * z, m) \in Nat
  <2>1. kept \in Nat
    BY <1>1 DEF KeptLimbs
  <2>2. QED
    BY <1>1, <1>4, <2>1, BaseType
<1>12. pc = IF approx /\ m - n + 1 < kept THEN "tail" ELSE "digit"
  BY <1>1, <1>11
<1> HIDE DEF kept, pc, c
<1>13. c \in KnuthCalls
  BY <1>2, <1>5, <1>8, <1>10, <1>11 DEF KnuthCalls
<1>14. /\ c.pc = pc /\ c.approx = approx /\ c.num = num /\ c.den = den /\ c.m = m /\ c.n = n
       /\ c.kept = kept /\ c.shift = s /\ c.d = d /\ c.dinv = dinv /\ c.u = u
       /\ c.top = Digit(num * z, m) /\ c.j = m - n /\ c.sound = TRUE /\ c.quotient = quotient
  BY <1>5
<1>15. TopPair(c) = d[n - 1] * Base + d[n - 2]
  BY <1>14 DEF TopPair
<1>16. Starts(c, num, den, approx, m, n, z)
  <2>1. c.kept = (IF approx THEN KeptLimbs(m, n) ELSE n)
    BY <1>14 DEF kept
  <2>2. c.pc = (IF approx /\ m - n + 1 < c.kept THEN "tail" ELSE "digit")
    BY <1>12, <1>14
  <2>3. c.top = c.u[m] /\ c.top \in 0 .. Base - 1 /\ c.top < z
    BY <1>4, <1>7, <1>14
  <2>4. IsLimbs(c.d, n) /\ Part(c.d, 0, n) = den * z /\ Normalized(c.d[n - 1]) /\ z <= c.d[n - 1]
    BY <1>3, <1>6, <1>14
  <2>5. QED
    BY <1>1, <1>3, <1>7, <1>8, <1>9, <1>13, <1>14, <1>15, <2>1, <2>2, <2>3, <2>4 DEF Starts
<1>17. z = Power(2, c.shift)
  BY <1>3, <1>14
<1>18. QED
  BY <1>1, <1>16, <1>17 DEF c

(* Before the first digit the window is empty but for the bits shifted into it. *)
LEMMA StartBelow ==
  ASSUME NEW c, NEW num, NEW den, NEW approx \in BOOLEAN, NEW m, NEW n, NEW z,
         Starts(c, num, den, approx, m, n, z), CallFits(c), c.pc # "finish"
  PROVE  Begins(c) < Taken(c)
<1>1. PICK low \in Nat, k \in Nat :
        low = Low(c) /\ k = low + 1 /\ low + 2 <= n /\ n - 2 - low \in Nat
  <2>1. Low(c) \in Nat /\ Low(c) + 2 <= n /\ n - 2 - Low(c) \in Nat /\ Low(c) + 1 \in Nat
    BY WindowLies DEF Starts
  <2>2. QED
    BY <2>1
<1>2. m \in Nat /\ n \in Nat /\ c.m = m /\ c.n = n /\ c.j = m - n
  BY DEF Starts
<1>3. PICK at \in Nat : at = WindowBase(c) + 1 /\ at + k = m
  <2>1. WindowBase(c) \in Nat /\ WindowBase(c) + Low(c) = c.j + c.n - 2
    BY WindowLies
  <2>2. QED
    BY <1>1, <1>2, <2>1
<1>4. PICK p \in Nat \ {0}, z1 \in Nat, top \in Nat, x \in Nat :
        /\ p = Power(Base, k) /\ z1 = z /\ top = c.top /\ top < z1 /\ x = Part(c.u, at, k) /\ x < p
        /\ Begins(c) = x + top * p
  <2>1. IsLimbs(c.u, m + 1) /\ at + k <= m + 1 /\ m + 1 \in Nat
    BY <1>2, <1>3 DEF Starts
  <2>2. Part(c.u, at, k) \in 0 .. Power(Base, k) - 1 /\ Power(Base, k) \in Nat \ {0}
    BY <2>1, PartType, BasePower
  <2>3. c.top \in Nat /\ z \in Nat /\ c.top < z
    BY BaseType DEF Starts
  <2>4. Begins(c) = Part(c.u, at, k) + c.top * Power(Base, k)
    BY <1>1, <1>3 DEF Begins
  <2>5. Part(c.u, at, k) \in Nat /\ Part(c.u, at, k) < Power(Base, k)
    BY <2>2
  <2>6. QED
    BY <2>2, <2>3, <2>4, <2>5
<1>5. PICK dt \in Nat, y \in Nat : dt = c.d[n - 1] /\ z1 <= dt /\ Taken(c) = y + p * dt
  <2>1. IsLimbs(c.d, n) /\ z <= c.d[n - 1] /\ n - 1 \in 0 .. n - 1
    BY <1>1, <1>2 DEF Starts
  <2>2. c.d[n - 1] \in Nat
    BY <2>1, BaseType DEF IsLimbs
  <2>3. PICK a \in Nat : a = n - 2 - low /\ a + k + 1 <= n /\ a + k = n - 1 /\ k + 1 = low + 2
    BY <1>1, <1>2
  <2>4. Part(c.d, a, k + 1) = Part(c.d, a, k) + Power(Base, k) * c.d[a + k]
    BY <1>2, <2>1, <2>3, PartEnds
  <2>5. Part(c.d, a, k) \in Nat
    <3>1. a + k <= n
      BY <1>2, <2>3
    <3>2. Part(c.d, a, k) \in 0 .. Power(Base, k) - 1
      BY <1>2, <2>1, <3>1, PartType
    <3>3. QED
      BY <1>4, <3>2
  <2>6. Taken(c) = Part(c.d, a, k + 1)
    BY <1>1, <1>2, <2>3 DEF Taken
  <2>7. QED
    BY <1>4, <2>1, <2>2, <2>3, <2>4, <2>5, <2>6
<1>6. (top + 1) * p <= dt * p
  <2>1. top + 1 <= dt
    BY <1>4, <1>5
  <2>2. QED
    BY <2>1, MulPos
<1>7. (top + 1) * p = top * p + p /\ dt * p = p * dt /\ top * p \in Int /\ p * dt \in Int
  OBVIOUS
<1>8. x + top * p < y + p * dt
  BY <1>4, <1>6, <1>7
<1>9. QED
  BY <1>4, <1>5, <1>8

(* Before the first digit the window and the limbs below it are the shifted dividend. *)
LEMMA StartBalance ==
  ASSUME NEW c, NEW num, NEW den, NEW approx \in BOOLEAN, NEW m, NEW n, NEW z,
         Starts(c, num, den, approx, m, n, z)
  PROVE  Balance(c, c.j + 1)
<1>1. PICK i \in Nat, k \in Nat : i = m - n + 1 /\ k = n - 1 /\ i + k = m /\ m \in Nat /\ n \in Nat
  <2>1. m \in Nat /\ n \in Nat /\ 2 <= n /\ n <= m
    BY DEF Starts
  <2>2. m - n + 1 \in Nat /\ n - 1 \in Nat /\ (m - n + 1) + (n - 1) = m
    BY <2>1
  <2>3. QED
    BY <2>1, <2>2
<1>2. /\ c.m = m /\ c.n = n /\ c.j = m - n /\ IsLimbs(c.u, m + 1) /\ Part(c.u, 0, m + 1) = num * z
      /\ c.num = num /\ z = Power(2, c.shift) /\ c.top = c.u[m] /\ c.top \in 0 .. Base - 1
      /\ IsLimbs(c.d, n) /\ IsLimbs(c.quotient, m - n + 2)
  BY DEF Starts
<1>3. Above(c, i) = 0
  <2>1. c.m - c.n + 1 - i = 0
    BY <1>1, <1>2
  <2>2. m - n + 2 \in Nat /\ i <= m - n + 2
    BY <1>1
  <2>3. Part(c.quotient, i, 0) = 0
    BY <1>2, <2>2, PartSmall
  <2>4. QED
    BY <2>1, <2>3 DEF Above
<1>4. PICK D \in Nat, P \in Nat, p \in Nat, u0 \in Nat, u1 \in Nat, top \in Nat :
        /\ D = Part(c.d, 0, n) /\ P = Power(Base, i) /\ p = Power(Base, k)
        /\ u0 = Part(c.u, 0, i) /\ u1 = Part(c.u, i, k) /\ top = c.top
  <2>1. Part(c.d, 0, n) \in Nat
    <3>1. 0 \in Nat /\ 0 + n <= n
      BY <1>1
    <3>2. Part(c.d, 0, n) \in 0 .. Power(Base, n) - 1 /\ Power(Base, n) \in Nat
      BY <1>1, <1>2, <3>1, PartType, BasePower
    <3>3. QED
      BY <3>2
  <2>2. Power(Base, i) \in Nat /\ Power(Base, k) \in Nat
    BY BasePower
  <2>3. Part(c.u, 0, i) \in Nat /\ Part(c.u, i, k) \in Nat
    <3>1. 0 \in Nat /\ 0 + i <= m + 1 /\ i + k <= m + 1 /\ m + 1 \in Nat
      BY <1>1
    <3>2. Part(c.u, 0, i) \in 0 .. Power(Base, i) - 1 /\ Part(c.u, i, k) \in 0 .. Power(Base, k) - 1
      BY <1>2, <3>1, PartType
    <3>3. QED
      BY <2>2, <3>2
  <2>4. c.top \in Nat
    BY <1>2, BaseType
  <2>5. QED
    BY <2>1, <2>2, <2>3, <2>4
<1>5. Part(c.u, 0, m + 1) = (u0 + P * u1) + (P * p) * top
  <2>1. Part(c.u, 0, m + 1) = Part(c.u, 0, m) + Power(Base, m) * c.u[0 + m]
    <3>1. 0 \in Nat /\ 0 + m + 1 <= m + 1 /\ m + 1 \in Nat
      BY <1>1
    <3>2. QED
      BY <1>1, <1>2, <3>1, PartEnds
  <2>2. Part(c.u, 0, i + k) = Part(c.u, 0, i) + Power(Base, i) * Part(c.u, 0 + i, k)
    <3>1. 0 \in Nat /\ 0 + i + k <= m + 1 /\ m + 1 \in Nat
      BY <1>1
    <3>2. QED
      BY <1>2, <3>1, PartSplit
  <2>3. Power(Base, i + k) = Power(Base, i) * Power(Base, k)
    BY BaseType, PowerSum
  <2>4. 0 + m = m /\ 0 + i = i
    BY <1>1
  <2>5. QED
    BY <1>1, <1>2, <1>4, <2>1, <2>2, <2>3, <2>4
<1>6. (u0 + P * u1) + (P * p) * top = u0 + P * (u1 + top * p)
  OBVIOUS
<1>7. 0 * P * D = 0
  OBVIOUS
<1>8. Leftover(c, i) = u1 + top * p
  BY <1>1, <1>2, <1>4 DEF Leftover
<1>9. 0 * P * D + (u0 + P * (u1 + top * p)) = num * z
  BY <1>2, <1>5, <1>6, <1>7
<1>10. Balance(c, i)
  BY <1>2, <1>3, <1>4, <1>8, <1>9 DEF Balance
<1>11. c.j + 1 = i
  BY <1>1, <1>2
<1>12. QED
  BY <1>10, <1>11

(* A call begins. *)
LEMMA StartRuns ==
  ASSUME NEW num, NEW den, OperandsFit(num, den), NEW approx \in BOOLEAN
  PROVE  Running(KnuthStart(num, den, approx))
<1> DEFINE c == KnuthStart(num, den, approx)
<1> HIDE DEF c
<1>1. PICK m, n, z : Starts(c, num, den, approx, m, n, z)
  BY StartFacts DEF c
<1>2. /\ m \in Nat /\ n \in Nat /\ 2 <= n /\ n <= m /\ c.m = m /\ c.n = n
      /\ c.kept = (IF approx THEN KeptLimbs(m, n) ELSE n) /\ c.j = m - n
      /\ c.pc = (IF approx /\ m - n + 1 < c.kept THEN "tail" ELSE "digit") /\ c.approx = approx
  BY <1>1 DEF Starts
<1>3. c.kept \in Nat /\ 2 <= c.kept /\ c.kept <= n
  BY <1>2 DEF KeptLimbs
<1>4. c.pc \in {"digit", "tail"} /\ (c.pc = "tail" => c.j <= c.n - 2)
  <2>1. c.pc \in {"digit", "tail"}
    BY <1>2
  <2>2. ASSUME c.pc = "tail" PROVE c.j <= c.n - 2
    <3>1. m - n + 1 < c.kept
      BY <1>2, <2>2
    <3>2. QED
      BY <1>2, <1>3, <3>1
  <2>3. QED
    BY <2>1, <2>2
<1>5. c.approx \/ (c.kept = c.n /\ c.pc \in {"digit", "finish"})
  BY <1>2
<1>6. CallFits(c)
  <2>1. /\ c \in KnuthCalls /\ c.sound = TRUE /\ IsLimbs(c.d, n) /\ Normalized(c.d[n - 1])
        /\ Reciprocal3by2(c.dinv, TopPair(c)) /\ IsLimbs(c.u, m + 1)
        /\ IsLimbs(c.quotient, m - n + 2)
        /\ c.top \in 0 .. Base - 1
    BY <1>1 DEF Starts
  <2>2. c.top < Base
    BY <2>1, BaseType
  <2>3. c.j <= c.m - c.n
    BY <1>2
  <2>4. c.pc # "last"
    BY <1>4
  <2>5. QED
    BY <1>2, <1>3, <1>4, <1>5, <2>1, <2>2, <2>3, <2>4 DEF CallFits
<1>7. Begins(c) < Taken(c)
  BY <1>1, <1>4, <1>6, StartBelow
<1>8. ExactSoFar(c)
  <2>1. Part(c.d, 0, c.n) = c.den * Power(2, c.shift)
    BY <1>1 DEF Starts
  <2>2. Balance(c, c.j + 1)
    BY <1>1, StartBalance
  <2>3. QED
    BY <1>4, <2>1, <2>2 DEF ExactSoFar
<1>9. QED
  BY <1>6, <1>7, <1>8 DEF Running, c

(* Calls begin with operands that fit. *)
LEMMA EnterHolds ==
  ASSUME KnuthEnter
  PROVE  Running(knuth')
<1>1. CASE \E p \in KnuthOperands : knuth' = KnuthStart(p[1], p[2], FALSE)
  <2>1. PICK p \in KnuthOperands : knuth' = KnuthStart(p[1], p[2], FALSE)
    BY <1>1
  <2>2. OperandsFit(p[1], p[2])
    BY KnuthAssumption DEF OperandsFit
  <2>3. Running(KnuthStart(p[1], p[2], FALSE))
    BY <2>2, StartRuns
  <2>4. QED
    BY <2>1, <2>3
<1>2. CASE \E p \in KnuthApprox : knuth' = KnuthStart(p[1], p[2], TRUE)
  <2>1. PICK p \in KnuthApprox : knuth' = KnuthStart(p[1], p[2], TRUE)
    BY <1>2
  <2>2. OperandsFit(p[1], p[2])
    <3>1. LimbsNeeded(p[1]) \in Nat /\ LimbsNeeded(p[2]) \in Nat
      <4>1. p[1] \in Nat /\ p[2] \in Nat
        BY KnuthAssumption
      <4>2. QED
        BY <4>1, LimbsNeededHas DEF HasLimbs
    <3>2. p[1] \in Nat /\ p[2] \in Nat /\ 3 <= LimbsNeeded(p[2])
            /\ LimbsNeeded(p[2]) < LimbsNeeded(p[1])
      BY KnuthAssumption
    <3>3. QED
      BY <3>1, <3>2 DEF OperandsFit
  <2>3. Running(KnuthStart(p[1], p[2], TRUE))
    BY <2>2, StartRuns
  <2>4. QED
    BY <2>1, <2>3
<1>3. QED
  BY <1>1, <1>2 DEF KnuthEnter

(* Each step of a call. *)
LEMMA StepHolds ==
  ASSUME KnuthHolds(knuth), KnuthStep
  PROVE  KnuthHolds(knuth')
<1>1. ASSUME knuth.pc # "idle", knuth.pc # "done" PROVE Running(knuth)
  <2>1. KnuthIdle.pc = "idle"
    BY DEF KnuthIdle
  <2>2. QED
    BY <1>1, <2>1 DEF KnuthHolds, Answered
<1>2. CASE KnuthLargestDigit
  BY <1>1, <1>2, LargestDigitHolds DEF KnuthLargestDigit, KnuthHolds
<1>3. CASE KnuthDigit
  BY <1>1, <1>3, DigitHolds DEF KnuthDigit, KnuthHolds
<1>4. CASE KnuthTailDigit
  BY <1>1, <1>4, TailDigitHolds DEF KnuthTailDigit, KnuthHolds
<1>5. CASE KnuthTailLargest
  BY <1>1, <1>5, TailLargestHolds DEF KnuthTailLargest, KnuthHolds
<1>6. CASE KnuthLastDigit
  BY <1>1, <1>6, LastDigitHolds DEF KnuthLastDigit, KnuthHolds
<1>7. CASE KnuthFinish
  BY <1>1, <1>7, FinishHolds DEF KnuthFinish, KnuthHolds
<1>8. CASE KnuthReturn
  BY <1>8, ReturnHolds DEF KnuthHolds
<1>9. QED
  BY <1>2, <1>3, <1>4, <1>5, <1>6, <1>7, <1>8 DEF KnuthStep

(* Every schoolbook division, exact or approximate, is at all times idle, between two digits of
   which each was exact where that is promised, or at its end with the right answer: the
   invariant behind SchoolbookDivision. *)
THEOREM SchoolbookStates == Spec => []KnuthHolds(knuth)
<1>1. Init => KnuthHolds(knuth)
  BY DEF Init, KnuthInit, KnuthHolds
<1>2. KnuthHolds(knuth) /\ [Next]_vars => KnuthHolds(knuth)'
  <2> SUFFICES ASSUME KnuthHolds(knuth), [Next]_vars PROVE KnuthHolds(knuth')
    OBVIOUS
  <2>1. CASE Enter
    <3>1. KnuthEnter \/ knuth' = knuth
      BY <2>1 DEF Enter
    <3>2. QED
      BY <3>1, EnterHolds DEF KnuthHolds
  <2>2. CASE KnuthRuns
    BY <2>2, StepHolds DEF KnuthRuns
  <2>3. CASE BzRunsOn
    <3>1. knuth' = knuth
      BY <2>3 DEF BzRunsOn
    <3>2. QED
      BY <3>1
  <2>4. CASE BarRuns
    <3>1. knuth' = knuth
      BY <2>4 DEF BarRuns
    <3>2. QED
      BY <3>1
  <2>5. CASE DwRuns
    <3>1. knuth' = knuth
      BY <2>5 DEF DwRuns
    <3>2. QED
      BY <3>1
  <2>6. CASE UNCHANGED vars
    <3>1. knuth' = knuth
      BY <2>6 DEF vars
    <3>2. QED
      BY <3>1
  <2>7. QED
    BY <2>1, <2>2, <2>3, <2>4, <2>5, <2>6 DEF Next
<1>3. QED
  BY <1>1, <1>2, PTL DEF Spec

(* What is left of the dividend, in one number. *)
LEMMA RemainingFacts ==
  ASSUME NEW k, Running(k), k.pc = "digit", k.approx = FALSE
  PROVE  /\ Part(k.quotient, k.j + 1, k.m - k.n - k.j) * Power(Base, k.j + 1)
              * (k.den * Power(2, k.shift))
              + Remaining(k) = k.num * Power(2, k.shift)
         /\ WindowTop(k) < k.den * Power(2, k.shift)
<1>1. CallFits(k) /\ Begins(k) < Taken(k) /\ ExactSoFar(k)
  BY DEF Running
<1>2. PICK i \in Nat, e \in Nat, n \in Nat, m \in Nat :
        /\ i = k.j + 1 /\ e = k.n - 1 /\ n = k.n /\ m = k.m /\ i + e = k.j + k.n /\ i + e <= m + 1
        /\ k.m - k.n + 1 - i = k.m - k.n - k.j
  <2>1. k.m \in Nat /\ k.n \in Nat /\ k.j \in Nat /\ k.j + k.n <= k.m /\ Low(k) + 2 <= k.n
        /\ Low(k) \in Nat
    BY <1>1, WindowLies
  <2>2. /\ k.j + 1 \in Nat /\ k.n - 1 \in Nat /\ (k.j + 1) + (k.n - 1) = k.j + k.n
        /\ k.j + k.n <= k.m + 1 /\ k.m - k.n + 1 - (k.j + 1) = k.m - k.n - k.j
    BY <2>1
  <2>3. QED
    BY <2>1, <2>2
<1>3. WindowTop(k) = Leftover(k, k.j + 1)
  BY DEF WindowTop, Leftover
<1>4. WindowTop(k) < k.den * Power(2, k.shift)
  BY <1>1, <1>3, ExactWindow DEF ExactSoFar
<1>5. PICK P \in Nat, p \in Nat, u0 \in Nat, u1 \in Nat, top \in Nat :
        /\ P = Power(Base, i) /\ p = Power(Base, e)
        /\ u0 = Part(k.u, 0, i) /\ u1 = Part(k.u, i, e) /\ top = k.top
  <2>1. Power(Base, i) \in Nat /\ Power(Base, e) \in Nat
    BY BasePower
  <2>2. Part(k.u, 0, i) \in Nat /\ Part(k.u, i, e) \in Nat
    <3>1. 0 \in Nat /\ 0 + i <= m + 1 /\ i + e <= m + 1 /\ m + 1 \in Nat /\ IsLimbs(k.u, m + 1)
      BY <1>1, <1>2 DEF CallFits
    <3>2. Part(k.u, 0, i) \in 0 .. Power(Base, i) - 1 /\ Part(k.u, i, e) \in 0 .. Power(Base, e) - 1
      BY <3>1, PartType
    <3>3. QED
      BY <2>1, <3>2
  <2>3. k.top \in Nat
    BY <1>1 DEF CallFits, KnuthCalls
  <2>4. QED
    BY <2>1, <2>2, <2>3
<1>6. Remaining(k) = u0 + P * (u1 + top * p)
  <2>1. Part(k.u, 0, i + e) = Part(k.u, 0, i) + Power(Base, i) * Part(k.u, 0 + i, e)
    <3>1. 0 \in Nat /\ 0 + i + e <= m + 1 /\ m + 1 \in Nat /\ IsLimbs(k.u, m + 1)
      BY <1>1, <1>2 DEF CallFits
    <3>2. QED
      BY <3>1, PartSplit
  <2>2. Power(Base, i + e) = Power(Base, i) * Power(Base, e)
    BY BaseType, PowerSum
  <2>3. 0 + i = i
    OBVIOUS
  <2>4. Remaining(k) = (u0 + P * u1) + top * (P * p)
    BY <1>2, <1>5, <2>1, <2>2, <2>3 DEF Remaining
  <2>5. (u0 + P * u1) + top * (P * p) = u0 + P * (u1 + top * p)
    OBVIOUS
  <2>6. QED
    BY <2>4, <2>5
<1>7. Leftover(k, i) = u1 + top * p
  BY <1>2, <1>5 DEF Leftover
<1>8. Above(k, i) = Part(k.quotient, k.j + 1, k.m - k.n - k.j)
  BY <1>2 DEF Above
<1>9. Balance(k, i) /\ Part(k.d, 0, k.n) = k.den * Power(2, k.shift)
  BY <1>1, <1>2 DEF ExactSoFar
<1>10. Above(k, i) * Power(Base, k.j + 1) * (k.den * Power(2, k.shift)) + Remaining(k)
         = k.num * Power(2, k.shift)
  BY <1>2, <1>5, <1>6, <1>7, <1>9 DEF Balance
<1>11. QED
  BY <1>4, <1>8, <1>10

(* divide_unsigned is exact for every operand and every width of a limb: its digits and what is
   left make up the dividend, what is left stays below the divisor, no assertion about a
   borrow or a carry fails in it or in divide_unsigned_approx, and it ends with the quotient and
   the remainder. *)
THEOREM SchoolbookIsExact == Spec => []SchoolbookDivision
<1>1. KnuthHolds(knuth) => SchoolbookDivision
  <2>1. CASE knuth = KnuthIdle
    <3>1. knuth.pc = "idle"
      BY <2>1 DEF KnuthIdle
    <3>2. QED
      BY <3>1 DEF SchoolbookDivision
  <2>2. CASE Running(knuth)
    <3>1. /\ knuth.pc \in {"digit", "tail", "last", "finish"} /\ knuth.sound = TRUE
          /\ knuth.approx \in BOOLEAN
      BY <2>2 DEF Running, CallFits, KnuthCalls
    <3>2. ASSUME knuth.pc = "digit", ~knuth.approx
          PROVE  LET d == knuth.den * Power(2, knuth.shift)
                     above == knuth.m - knuth.n - knuth.j
                 IN  /\ Part(knuth.quotient, knuth.j + 1, above) * Power(Base, knuth.j + 1) * d
                          + Remaining(knuth) = knuth.num * Power(2, knuth.shift)
                     /\ WindowTop(knuth) < d
      <4>1. knuth.approx = FALSE
        BY <3>1, <3>2
      <4>2. QED
        BY <2>2, <3>2, <4>1, RemainingFacts
    <3>3. QED
      BY <3>1, <3>2 DEF SchoolbookDivision
  <2>3. CASE Answered(knuth)
    BY <2>3 DEF Answered, SchoolbookDivision
  <2>4. QED
    BY <2>1, <2>2, <2>3 DEF KnuthHolds
<1>2. QED
  BY <1>1, SchoolbookStates, PTL

-----------------------------------------------------------------------------
(* The approximation (divide_unsigned_approx).                             *)

(* x is the divisor times the digits so far, y the divisor moved to the place of the last of
   them, N the dividend. The digits are not too low; as long as they are exact, what is left
   and x make up the dividend, up to the slack s for what the dropped limbs of the divisor would
   have taken; afterwards even the next higher digits would not exceed it. *)
Near(x, y, N, s, left, exact) ==
  /\ N < x + y
  /\ exact => N <= x + left /\ x + left <= N + s
  /\ ~exact => x + y <= N + s

(* A digit on numbers: Z limbs below the window W, H the place of the window, E the part of the
   divisor D that is taken, err what is dropped, q the digit, R what is left of the window. *)
DigitTaken(b, p, D, E, H, err, a, W, Z, q, R, N, s, t) ==
  /\ b \in Nat /\ p \in Nat /\ D \in Nat /\ E \in Nat /\ H \in Nat /\ err \in Nat /\ a \in Nat
  /\ W \in Nat /\ Z \in Nat /\ q \in Nat /\ R \in Nat /\ N \in Nat /\ s \in Nat /\ t \in Nat
  /\ p * D = H * E + err /\ err < H /\ Z < H /\ s + q * err <= t
  /\ W = q * E + R

(* What the digit and the window add up to. *)
LEMMA TakenSum ==
  ASSUME NEW b, NEW p, NEW D, NEW E, NEW H, NEW err, NEW a, NEW W, NEW Z, NEW q, NEW R, NEW N,
         NEW s, NEW t, DigitTaken(b, p, D, E, H, err, a, W, Z, q, R, N, s, t)
  PROVE  /\ (q + b * a) * p * D + (Z + H * R) = a * (b * p) * D + (Z + H * W) + q * err
         /\ (q + b * a) * p * D \in Nat /\ a * (b * p) * D \in Nat /\ q * err \in Nat
         /\ (b * p) * D \in Nat /\ p * D \in Nat /\ H * R \in Nat /\ H * W \in Nat /\ H * E \in Nat
<1> USE DEF DigitTaken
<1>1. PICK A \in Nat, B \in Nat, C \in Nat, F \in Nat, K \in Nat, M \in Nat :
        /\ A = a * (b * p) * D /\ B = q * (p * D) /\ C = q * (H * E) /\ F = q * err
        /\ K = H * R /\ M = H * W
  OBVIOUS
<1>2. (q + b * a) * p * D = B + A
  BY <1>1
<1>3. q * (H * E + err) = C + F
  BY <1>1
<1>4. B = C + F
  BY <1>1, <1>3
<1>5. M = C + K
  <2>1. H * (q * E + R) = q * (H * E) + H * R
    OBVIOUS
  <2>2. QED
    BY <1>1, <2>1
<1>6. (q + b * a) * p * D + (Z + H * R) = A + (Z + M) + F
  BY <1>1, <1>2, <1>4, <1>5
<1>7. (q + b * a) * p * D \in Nat
  BY <1>2
<1>8. (b * p) * D \in Nat /\ p * D \in Nat /\ H * E \in Nat
  OBVIOUS
<1>9. QED
  BY <1>1, <1>6, <1>7, <1>8

(* An exact digit. *)
LEMMA NearExact ==
  ASSUME NEW b, NEW p, NEW D, NEW E, NEW H, NEW err, NEW a, NEW W, NEW Z, NEW q, NEW R, NEW N,
         NEW s, NEW t, DigitTaken(b, p, D, E, H, err, a, W, Z, q, R, N, s, t), R < E,
         Near(a * (b * p) * D, (b * p) * D, N, s, Z + H * W, TRUE)
  PROVE  Near((q + b * a) * p * D, p * D, N, t, Z + H * R, TRUE)
<1> USE DEF DigitTaken
<1>1. PICK x \in Nat, A \in Nat, F \in Nat, K \in Nat, M \in Nat, y \in Nat, T \in Nat :
        /\ x = (q + b * a) * p * D /\ A = a * (b * p) * D /\ F = q * err /\ K = H * R
        /\ M = H * W /\ y = p * D /\ T = H * E /\ x + (Z + K) = A + (Z + M) + F
  BY TakenSum
<1>2. N <= A + (Z + M) /\ A + (Z + M) <= N + s
  BY <1>1 DEF Near
<1>3. K + H <= T
  <2>1. (R + 1) * H <= E * H
    BY MulPos
  <2>2. (R + 1) * H = H * R + H /\ E * H = H * E
    OBVIOUS
  <2>3. QED
    BY <1>1, <2>1, <2>2
<1>4. T <= y
  BY <1>1
<1>5. Z < H /\ s + F <= t
  BY <1>1
<1>6. N < x + y /\ N <= x + (Z + K) /\ x + (Z + K) <= N + t
  BY <1>1, <1>2, <1>3, <1>4, <1>5
<1>7. QED
  BY <1>1, <1>6 DEF Near

(* The largest digit, as long as what it leaves is kept. *)
LEMMA NearLargest ==
  ASSUME NEW b, NEW p, NEW D, NEW E, NEW H, NEW err, NEW a, NEW W, NEW Z, NEW q, NEW R, NEW N,
         NEW s, NEW t, DigitTaken(b, p, D, E, H, err, a, W, Z, q, R, N, s, t), q + 1 = b,
         Near(a * (b * p) * D, (b * p) * D, N, s, Z + H * W, TRUE)
  PROVE  Near((q + b * a) * p * D, p * D, N, t, Z + H * R, TRUE)
<1> USE DEF DigitTaken
<1>1. PICK x \in Nat, A \in Nat, F \in Nat, K \in Nat, M \in Nat, y \in Nat, Y \in Nat :
        /\ x = (q + b * a) * p * D /\ A = a * (b * p) * D /\ F = q * err /\ K = H * R
        /\ M = H * W /\ y = p * D /\ Y = (b * p) * D /\ x + (Z + K) = A + (Z + M) + F
  BY TakenSum
<1>2. N < A + Y /\ N <= A + (Z + M) /\ A + (Z + M) <= N + s
  BY <1>1 DEF Near
<1>3. x + y = A + Y
  <2>1. (q + b * a) * p * D + p * D = (q + 1 + b * a) * p * D
    OBVIOUS
  <2>2. (b + b * a) * p * D = a * (b * p) * D + (b * p) * D
    OBVIOUS
  <2>3. QED
    BY <1>1, <2>1, <2>2
<1>4. s + F <= t
  BY <1>1
<1>5. N < x + y /\ N <= x + (Z + K) /\ x + (Z + K) <= N + t
  BY <1>1, <1>2, <1>3, <1>4
<1>6. QED
  BY <1>1, <1>5 DEF Near

(* The largest digit, which leaves more than the window holds: the digits stay exact no more. *)
LEMMA NearGivesUp ==
  ASSUME NEW b, NEW p, NEW D, NEW E, NEW H, NEW err, NEW a, NEW W, NEW Z, NEW q, NEW R, NEW N,
         NEW s, NEW t, DigitTaken(b, p, D, E, H, err, a, W, Z, q, R, N, s, t), q + 1 = b, E < R,
         Near(a * (b * p) * D, (b * p) * D, N, s, Z + H * W, TRUE), NEW left
  PROVE  Near((q + b * a) * p * D, p * D, N, t, left, FALSE)
<1> USE DEF DigitTaken
<1>1. PICK x \in Nat, A \in Nat, F \in Nat, K \in Nat, M \in Nat, y \in Nat, T \in Nat :
        /\ x = (q + b * a) * p * D /\ A = a * (b * p) * D /\ F = q * err /\ K = H * R
        /\ M = H * W /\ y = p * D /\ T = H * E /\ x + (Z + K) = A + (Z + M) + F
  BY TakenSum
<1>2. Near(x, y, N, t, Z + K, TRUE)
  BY <1>1, NearLargest
<1>3. N < x + y /\ x + (Z + K) <= N + t
  BY <1>2 DEF Near
<1>4. T + H <= K
  <2>1. (E + 1) * H <= R * H
    BY MulPos
  <2>2. (E + 1) * H = H * E + H /\ R * H = H * R
    OBVIOUS
  <2>3. QED
    BY <1>1, <2>1, <2>2
<1>5. y < T + H
  BY <1>1
<1>6. x + y <= N + t
  BY <1>1, <1>3, <1>4, <1>5
<1>7. QED
  BY <1>1, <1>3, <1>6 DEF Near

(* The largest digit after that. *)
LEMMA NearSaturated ==
  ASSUME NEW b \in Nat, NEW p \in Nat, NEW D \in Nat, NEW a \in Nat, NEW q \in Nat, q + 1 = b,
         NEW N \in Nat, NEW s \in Nat, NEW t \in Nat, s <= t, NEW old, NEW left,
         Near(a * (b * p) * D, (b * p) * D, N, s, old, FALSE)
  PROVE  Near((q + b * a) * p * D, p * D, N, t, left, FALSE)
<1>1. PICK x \in Nat, A \in Nat, y \in Nat, Y \in Nat :
        /\ x = (q + b * a) * p * D /\ A = a * (b * p) * D /\ y = p * D /\ Y = (b * p) * D
  OBVIOUS
<1>2. N < A + Y /\ A + Y <= N + s
  BY <1>1 DEF Near
<1>3. x + y = A + Y
  <2>1. (q + b * a) * p * D + p * D = (q + 1 + b * a) * p * D
    OBVIOUS
  <2>2. (b + b * a) * p * D = a * (b * p) * D + (b * p) * D
    OBVIOUS
  <2>3. QED
    BY <1>1, <2>1, <2>2
<1>4. N < x + y /\ x + y <= N + t
  BY <1>2, <1>3
<1>5. QED
  BY <1>1, <1>4 DEF Near

-----------------------------------------------------------------------------
(* What a digit does to the sum of digits and window.                      *)

(* An array with a limb above it, split in two. *)
LEMMA PartsAdd ==
  ASSUME NEW size \in Nat, NEW f, IsLimbs(f, size), NEW i \in Nat, NEW e \in Nat, i + e <= size,
         NEW top \in Nat
  PROVE  /\ Part(f, 0, i + e) + top * Power(Base, i + e)
              = Part(f, 0, i) + Power(Base, i) * (Part(f, i, e) + top * Power(Base, e))
         /\ Part(f, 0, i) \in Nat /\ Part(f, 0, i) < Power(Base, i)
<1>1. PICK P \in Nat, p \in Nat : P = Power(Base, i) /\ p = Power(Base, e)
  <2>1. Power(Base, i) \in Nat /\ Power(Base, e) \in Nat
    BY BasePower
  <2>2. QED
    BY <2>1
<1>2. PICK x \in Nat, y \in Nat : x = Part(f, 0, i) /\ x < P /\ y = Part(f, i, e)
  <2>1. 0 \in Nat /\ 0 + i <= size
    OBVIOUS
  <2>2. Part(f, 0, i) \in 0 .. Power(Base, i) - 1 /\ Part(f, i, e) \in 0 .. Power(Base, e) - 1
    BY <2>1, PartType
  <2>3. QED
    BY <1>1, <2>2
<1>3. Part(f, 0, i + e) = x + P * y
  <2>1. 0 \in Nat /\ 0 + i + e <= size /\ 0 + i = i
    OBVIOUS
  <2>2. Part(f, 0, i + e) = Part(f, 0, i) + Power(Base, i) * Part(f, 0 + i, e)
    BY <2>1, PartSplit
  <2>3. QED
    BY <1>1, <1>2, <2>1, <2>2
<1>4. Power(Base, i + e) = P * p
  BY <1>1, BaseType, PowerSum
<1>5. (x + P * y) + top * (P * p) = x + P * (y + top * p)
  OBVIOUS
<1>6. QED
  BY <1>1, <1>2, <1>3, <1>4, <1>5

(* The limbs below the window. *)
Below(k) == Part(k.u, 0, WindowBase(k))

(* What is left of the dividend before a digit. *)
LEMMA RemainingWindow ==
  ASSUME NEW k, CallFits(k), k.pc # "finish"
  PROVE  /\ Remaining(k) = Below(k) + Power(Base, WindowBase(k)) * Window(k)
         /\ Below(k) \in Nat /\ Below(k) < Power(Base, WindowBase(k))
<1>1. PICK i \in Nat, e \in Nat, size \in Nat, top \in Nat :
        /\ i = WindowBase(k) /\ e = Low(k) + 2 /\ i + e = k.j + k.n /\ size = k.m + 1
        /\ i + e <= size /\ top = k.top
  <2>1. /\ k.n \in Nat /\ k.j \in Nat /\ WindowBase(k) \in Nat /\ Low(k) \in Nat /\ k.m \in Nat
        /\ WindowBase(k) + Low(k) = k.j + k.n - 2 /\ k.j + k.n <= k.m
    BY WindowLies
  <2>2. /\ WindowBase(k) + (Low(k) + 2) = k.j + k.n /\ k.m + 1 \in Nat /\ Low(k) + 2 \in Nat
        /\ WindowBase(k) + (Low(k) + 2) <= k.m + 1
    BY <2>1
  <2>3. k.top \in Nat
    BY DEF CallFits, KnuthCalls
  <2>4. QED
    BY <2>1, <2>2, <2>3
<1>2. IsLimbs(k.u, size)
  BY <1>1 DEF CallFits
<1>3. /\ Part(k.u, 0, i + e) + top * Power(Base, i + e)
           = Part(k.u, 0, i) + Power(Base, i) * (Part(k.u, i, e) + top * Power(Base, e))
      /\ Part(k.u, 0, i) \in Nat /\ Part(k.u, 0, i) < Power(Base, i)
  BY <1>1, <1>2, PartsAdd
<1>4. QED
  BY <1>1, <1>3 DEF Remaining, Window, Below

(* What is left of it after. *)
LEMMA RemainingAfter ==
  ASSUME NEW k, CallFits(k), k.pc # "finish", NEW q, NEW u, NEW top, Leaves(k, q, u, top),
         NEW c, c.u = u, c.top = top, c.n = k.n, c.j + 1 = k.j, c.j \in Nat
  PROVE  Remaining(c) = Below(k) + Power(Base, WindowBase(k)) * Rest(k, u, top)
<1>1. PICK i \in Nat, e \in Nat, size \in Nat, t \in Nat :
        /\ i = WindowBase(k) /\ e = Low(k) + 1 /\ i + e = c.j + k.n /\ size = k.m + 1
        /\ i + e <= size /\ t = top
  <2>1. /\ k.n \in Nat /\ k.j \in Nat /\ WindowBase(k) \in Nat /\ Low(k) \in Nat /\ k.m \in Nat
        /\ WindowBase(k) + Low(k) = k.j + k.n - 2 /\ k.j + k.n <= k.m
    BY WindowLies
  <2>2. /\ WindowBase(k) + (Low(k) + 1) = c.j + k.n /\ k.m + 1 \in Nat /\ Low(k) + 1 \in Nat
        /\ WindowBase(k) + (Low(k) + 1) <= k.m + 1
    BY <2>1
  <2>3. top \in Nat
    BY BaseType DEF Leaves
  <2>4. QED
    BY <2>1, <2>2, <2>3
<1>2. IsLimbs(u, size) /\ IsLimbs(k.u, size) /\ \A x \in 0 .. 0 + i - 1 : u[x] = k.u[x]
  <2>1. \A x \in 0 .. k.m : x < WindowBase(k) => u[x] = k.u[x]
    BY DEF Leaves
  <2>2. k.m \in Nat
    BY WindowLies
  <2>3. QED
    BY <1>1, <2>1, <2>2 DEF CallFits, Leaves
<1>3. Part(u, 0, i + e) + t * Power(Base, i + e)
        = Part(u, 0, i) + Power(Base, i) * (Part(u, i, e) + t * Power(Base, e))
  BY <1>1, <1>2, PartsAdd
<1>4. Part(u, 0, i) = Part(k.u, 0, i)
  <2>1. 0 \in Nat /\ 0 + i <= size
    BY <1>1
  <2>2. QED
    BY <1>2, <2>1, PartFrame
<1>5. QED
  BY <1>1, <1>3, <1>4 DEF Remaining, Rest, Below

(* The divisor at the place of a digit: what the digit takes of it, and what it drops. *)
LEMMA DivisorPlaced ==
  ASSUME NEW k, CallFits(k), k.pc # "finish"
  PROVE  \E err \in Nat :
           /\ Power(Base, k.j) * Part(k.d, 0, k.n) = Power(Base, WindowBase(k)) * Taken(k) + err
           /\ err < Power(Base, WindowBase(k))
           /\ Low(k) = k.n - 2 => err = 0
<1>1. PICK a \in Nat, j \in Nat, e \in Nat, n \in Nat :
        /\ a = k.n - 2 - Low(k) /\ j = k.j /\ e = Low(k) + 2 /\ n = k.n /\ a + e = n
        /\ j + a = WindowBase(k) /\ (Low(k) = k.n - 2 => a = 0)
  <2>1. /\ k.n \in Nat /\ k.j \in Nat /\ WindowBase(k) \in Nat /\ Low(k) \in Nat /\ k.m \in Nat
        /\ WindowBase(k) + Low(k) = k.j + k.n - 2 /\ k.n - 2 - Low(k) \in Nat
    BY WindowLies
  <2>2. /\ k.j + (k.n - 2 - Low(k)) = WindowBase(k) /\ (k.n - 2 - Low(k)) + (Low(k) + 2) = k.n
        /\ Low(k) + 2 \in Nat /\ (Low(k) = k.n - 2 => k.n - 2 - Low(k) = 0)
    BY <2>1
  <2>3. QED
    BY <2>1, <2>2
<1>2. IsLimbs(k.d, n)
  BY <1>1 DEF CallFits
<1>3. PICK P \in Nat \ {0}, Q \in Nat \ {0} :
        P = Power(Base, j) /\ Q = Power(Base, a) /\ Power(Base, j + a) = P * Q
  <2>1. Power(Base, j) \in Nat \ {0} /\ Power(Base, a) \in Nat \ {0}
    BY BasePower
  <2>2. Power(Base, j + a) = Power(Base, j) * Power(Base, a)
    BY BaseType, PowerSum
  <2>3. QED
    BY <2>1, <2>2
<1>4. PICK x \in Nat, y \in Nat : /\ x = Part(k.d, 0, a) /\ x < Q /\ y = Taken(k)
                                  /\ (a = 0 => x = 0) /\ Part(k.d, 0, n) = x + Q * y
  <2>1. 0 \in Nat /\ 0 + a <= n /\ 0 + a + e <= n /\ 0 + a = a /\ a + e <= n /\ 0 <= n
    BY <1>1
  <2>2. Part(k.d, 0, a) \in 0 .. Power(Base, a) - 1 /\ Part(k.d, a, e) \in 0 .. Power(Base, e) - 1
    BY <1>2, <2>1, PartType
  <2>3. Part(k.d, 0, a + e) = Part(k.d, 0, a) + Power(Base, a) * Part(k.d, 0 + a, e)
    BY <1>2, <2>1, PartSplit
  <2>4. Part(k.d, 0, 0) = 0
    BY <1>2, <2>1, PartSmall
  <2>5. Part(k.d, a, e) = Taken(k)
    BY <1>1 DEF Taken
  <2>6. Part(k.d, a, e) \in Nat
    BY <2>2, BasePower
  <2>7. QED
    BY <1>1, <1>3, <2>1, <2>2, <2>3, <2>4, <2>5, <2>6
<1>5. PICK err \in Nat : err = P * x
  OBVIOUS
<1>6. P * (x + Q * y) = (P * Q) * y + err
  BY <1>5
<1>7. err < P * Q
  <2>1. (x + 1) * P <= Q * P
    BY <1>4, MulPos
  <2>2. (x + 1) * P = P * x + P /\ Q * P = P * Q
    OBVIOUS
  <2>3. QED
    BY <1>5, <2>1, <2>2
<1>8. a = 0 => err = 0
  BY <1>4, <1>5
<1>9. QED
  BY <1>1, <1>3, <1>4, <1>6, <1>7, <1>8

-----------------------------------------------------------------------------
(* The state of an approximation.                                          *)

(* The digits that may have taken too little before the digit j and after it, and how much of
   the dividend such a digit can be short of. *)
Spent(k) == IF k.pc = "digit" THEN 0 ELSE k.kept - 2 - k.j
SpentAfter(k) == IF k.pc = "digit" THEN 0 ELSE k.kept - 1 - k.j
Slack(k) == Base * Power(Base, k.n - 2)

(* The shifted divisor and dividend. *)
ShiftedDivisor(k) == Part(k.d, 0, k.n)
ShiftedDividend(k) == k.num * Power(2, k.shift)

(* The sum of the digits up to j, and how near to the dividend it is. *)
NearBefore(k) ==
  Near(Above(k, k.j + 1) * Power(Base, k.j + 1) * ShiftedDivisor(k),
       Power(Base, k.j + 1) * ShiftedDivisor(k), ShiftedDividend(k), Spent(k) * Slack(k),
       Remaining(k), k.exact)
NearAtEnd(k, left, exact) ==
  Near(Above(k, 0) * ShiftedDivisor(k), ShiftedDivisor(k), ShiftedDividend(k),
       (k.kept - 1) * Slack(k), left, exact)

(* While the divisor is taken whole every digit is exact; the tail drops more of it with each
   digit. *)
Approaching(k) ==
  /\ ShiftedDivisor(k) = k.den * Power(2, k.shift)
  /\ 2 * (k.kept - 1) <= Base
  /\ k.pc = "digit" => k.exact = TRUE /\ k.kept = k.n /\ k.kept - 1 <= k.j
  /\ k.pc = "tail" => 1 <= k.j
  /\ k.pc \in {"tail", "last"} => k.j <= k.kept - 2
  /\ k.pc # "finish" => NearBefore(k)
  /\ k.pc = "finish" => \E left \in Nat, exact \in BOOLEAN : NearAtEnd(k, left, exact)

(* A digit q of which R is left: exact as long as the digits are, or the largest. *)
Outcome(k, q, R, exact) ==
  /\ q \in 0 .. Base - 1 /\ R \in Nat
  /\ exact = TRUE => /\ k.exact = TRUE /\ Window(k) = q * Taken(k) + R
                     /\ R < Taken(k) \/ q + 1 = Base
  /\ exact = FALSE => /\ q + 1 = Base
                      /\ k.exact = TRUE =>
                           \E S \in Nat : Window(k) = q * Taken(k) + S /\ Taken(k) < S

(* The types of what a digit works on. *)
LEMMA DigitTypes ==
  ASSUME NEW k, CallFits(k), k.pc # "finish", Approaching(k)
  PROVE  /\ Power(Base, k.j) \in Nat /\ ShiftedDivisor(k) \in Nat /\ Taken(k) \in Nat
         /\ Power(Base, WindowBase(k)) \in Nat /\ Above(k, k.j + 1) \in Nat /\ Window(k) \in Nat
         /\ ShiftedDividend(k) \in Nat /\ Spent(k) * Slack(k) \in Nat
         /\ SpentAfter(k) * Slack(k) \in Nat /\ Spent(k) * Slack(k) <= SpentAfter(k) * Slack(k)
         /\ Power(Base, k.j + 1) = Base * Power(Base, k.j) /\ k.exact \in BOOLEAN
<1>1. /\ k.n \in Nat /\ k.j \in Nat /\ WindowBase(k) \in Nat /\ k.kept \in Nat /\ k.n >= 2
      /\ k.shift \in Nat /\ k.num \in Nat /\ k.exact \in BOOLEAN /\ k.kept <= k.n
      /\ k.pc \in {"digit", "tail", "last", "finish"}
  <2>1. k.n \in Nat /\ k.j \in Nat /\ WindowBase(k) \in Nat /\ Low(k) \in Nat /\ Low(k) + 2 <= k.n
    BY WindowLies
  <2>2. QED
    BY <2>1 DEF CallFits, KnuthCalls
<1>2. ShiftedDivisor(k) \in Nat
  <2>1. 0 \in Nat /\ 0 + k.n <= k.n
    BY <1>1
  <2>2. Part(k.d, 0, k.n) \in 0 .. Power(Base, k.n) - 1 /\ Power(Base, k.n) \in Nat
    BY <1>1, <2>1, PartType, BasePower DEF CallFits
  <2>3. QED
    BY <2>2 DEF ShiftedDivisor
<1>3. Taken(k) \in Nat /\ Window(k) \in Nat
  BY SaturatedType, WindowType
<1>4. Above(k, k.j + 1) \in Nat
  <2>1. 0 \in 0 .. Base - 1
    BY BaseType
  <2>2. PICK c : c = [quotient |-> QuotientWith(k, 0), m |-> k.m, n |-> k.n]
    OBVIOUS
  <2>3. c.quotient = QuotientWith(k, 0) /\ c.m = k.m /\ c.n = k.n
    BY <2>2
  <2>4. QED
    BY <2>1, <2>3, AboveStep
<1>5. ShiftedDividend(k) \in Nat
  <2>1. Power(2, k.shift) \in Nat
    BY <1>1, PowerPositive
  <2>2. QED
    BY <1>1, <2>1 DEF ShiftedDividend
<1>6. Slack(k) \in Nat
  <2>1. k.n - 2 \in Nat
    BY <1>1
  <2>2. Power(Base, k.n - 2) \in Nat /\ Base \in Nat
    BY <2>1, BasePower, BaseType
  <2>3. QED
    BY <2>2 DEF Slack
<1>7. Spent(k) \in Nat /\ SpentAfter(k) \in Nat /\ Spent(k) <= SpentAfter(k)
  BY <1>1 DEF Spent, SpentAfter, Approaching
<1>8. Spent(k) * Slack(k) <= SpentAfter(k) * Slack(k)
  BY <1>6, <1>7, MulPos
<1>9. Power(Base, k.j) \in Nat /\ Power(Base, WindowBase(k)) \in Nat
      /\ Power(Base, k.j + 1) = Base * Power(Base, k.j)
  BY <1>1, BasePower, BaseType, PowerStep
<1>10. Spent(k) * Slack(k) \in Nat /\ SpentAfter(k) * Slack(k) \in Nat
  BY <1>6, <1>7
<1>11. QED
  BY <1>1, <1>2, <1>3, <1>4, <1>5, <1>8, <1>9, <1>10

(* What a digit drops of the divisor fits the slack. *)
LEMMA SlackFits ==
  ASSUME NEW k, CallFits(k), k.pc # "finish", Approaching(k), NEW q \in 0 .. Base - 1,
         NEW err \in Nat, err < Power(Base, WindowBase(k)), Low(k) = k.n - 2 => err = 0
  PROVE  Spent(k) * Slack(k) + q * err <= SpentAfter(k) * Slack(k)
<1>1. PICK b \in Nat, G \in Nat, n \in Nat, j \in Nat, s \in Nat :
        /\ b = Base /\ q \in 0 .. b - 1 /\ n = k.n /\ j = k.j /\ G = Power(Base, n - 2)
        /\ s = Spent(k)
  <2>1. k.n \in Nat /\ k.j \in Nat /\ Low(k) \in Nat /\ Low(k) + 2 <= k.n /\ k.kept \in Nat
    BY WindowLies DEF CallFits, KnuthCalls
  <2>2. Spent(k) \in Nat
    BY <2>1 DEF Spent, Approaching, CallFits, KnuthCalls
  <2>3. k.n - 2 \in Nat
    BY <2>1
  <2>4. Power(Base, k.n - 2) \in Nat /\ Base \in Nat
    BY <2>3, BasePower, BaseType
  <2>5. QED
    BY <2>1, <2>2, <2>4
<1>2. PICK S \in Nat : S = Slack(k) /\ S = b * G
  BY <1>1 DEF Slack
<1>3. CASE k.pc = "digit"
  <2>1. Low(k) = k.n - 2
    BY <1>3 DEF Low, Approaching
  <2>2. err = 0
    BY <2>1
  <2>3. SpentAfter(k) = s
    BY <1>1, <1>3 DEF Spent, SpentAfter
  <2>4. q * err = 0 /\ s * S + 0 <= s * S
    BY <2>2
  <2>5. QED
    BY <1>1, <1>2, <2>3, <2>4
<1>4. CASE k.pc # "digit"
  <2>1. Low(k) = j
    BY <1>1, <1>4 DEF Low
  <2>2. WindowBase(k) = n - 2
    BY <1>1, <2>1 DEF WindowBase
  <2>3. err < G
    BY <1>1, <2>2
  <2>4. SpentAfter(k) = s + 1
    <3>1. k.kept \in Nat
      BY DEF CallFits, KnuthCalls
    <3>2. QED
      BY <1>1, <1>4, <3>1 DEF Spent, SpentAfter
  <2>5. q * err <= b * G
    <3>1. q * err <= b * err
      BY <1>1, MulPos
    <3>2. err * b <= G * b
      BY <2>3, MulPos
    <3>3. err * b = b * err /\ G * b = b * G /\ q * err \in Int /\ b * err \in Int /\ b * G \in Int
      BY <1>1
    <3>4. QED
      BY <3>1, <3>2, <3>3
  <2>6. s * S + q * err <= (s + 1) * S
    <3>1. (s + 1) * S = s * S + S /\ s * S \in Int /\ q * err \in Int
      BY <1>1
    <3>2. QED
      BY <1>2, <2>5, <3>1
  <2>7. QED
    BY <1>1, <1>2, <2>4, <2>6
<1>5. QED
  BY <1>3, <1>4

(* The sum after a digit is as near to the dividend. *)
LEMMA OutcomeNear ==
  ASSUME NEW k, CallFits(k), k.pc # "finish", Approaching(k), NEW q, NEW R, NEW exact \in BOOLEAN,
         Outcome(k, q, R, exact)
  PROVE  Near((q + Base * Above(k, k.j + 1)) * Power(Base, k.j) * ShiftedDivisor(k),
              Power(Base, k.j) * ShiftedDivisor(k), ShiftedDividend(k),
              SpentAfter(k) * Slack(k), Below(k) + Power(Base, WindowBase(k)) * R, exact)
<1>1. PICK b \in Nat, p \in Nat, D \in Nat, E \in Nat, H \in Nat, a \in Nat, W \in Nat, Z \in Nat,
           N \in Nat, s \in Nat, t \in Nat :
        /\ b = Base /\ p = Power(Base, k.j) /\ D = ShiftedDivisor(k) /\ E = Taken(k)
        /\ H = Power(Base, WindowBase(k)) /\ a = Above(k, k.j + 1) /\ W = Window(k)
        /\ Z = Below(k) /\ N = ShiftedDividend(k) /\ s = Spent(k) * Slack(k)
        /\ t = SpentAfter(k) * Slack(k)
        /\ Power(Base, k.j + 1) = b * p /\ s <= t
  BY DigitTypes, RemainingWindow, BaseType
<1>2. PICK err \in Nat : p * D = H * E + err /\ err < H /\ s + q * err <= t
  <2>1. PICK err \in Nat :
           /\ Power(Base, k.j) * Part(k.d, 0, k.n) = Power(Base, WindowBase(k)) * Taken(k) + err
           /\ err < Power(Base, WindowBase(k))
           /\ Low(k) = k.n - 2 => err = 0
    BY DivisorPlaced
  <2>2. q \in 0 .. Base - 1
    BY DEF Outcome
  <2>3. Spent(k) * Slack(k) + q * err <= SpentAfter(k) * Slack(k)
    BY <2>1, <2>2, SlackFits
  <2>4. QED
    BY <1>1, <2>1, <2>3 DEF ShiftedDivisor
<1>3. Z < H /\ Remaining(k) = Z + H * W
  BY <1>1, RemainingWindow
<1>4. Near(a * (b * p) * D, (b * p) * D, N, s, Z + H * W, k.exact)
  BY <1>1, <1>3 DEF Approaching, NearBefore
<1>5. q \in Nat /\ R \in Nat /\ q <= b - 1
  BY <1>1 DEF Outcome
<1>6. ASSUME NEW S \in Nat, W = q * E + S
      PROVE  DigitTaken(b, p, D, E, H, err, a, W, Z, q, S, N, s, t)
  BY <1>1, <1>2, <1>3, <1>5, <1>6 DEF DigitTaken
<1>7. Near((q + b * a) * p * D, p * D, N, t, Z + H * R, exact)
  <2>1. CASE exact = TRUE
    <3>1. k.exact = TRUE /\ W = q * E + R /\ (R < E \/ q + 1 = b)
      BY <1>1, <2>1 DEF Outcome
    <3>2. DigitTaken(b, p, D, E, H, err, a, W, Z, q, R, N, s, t)
      BY <1>5, <1>6, <3>1
    <3>3. Near(a * (b * p) * D, (b * p) * D, N, s, Z + H * W, TRUE)
      BY <1>4, <3>1
    <3>4. Near((q + b * a) * p * D, p * D, N, t, Z + H * R, TRUE)
      BY <3>1, <3>2, <3>3, NearExact, NearLargest
    <3>5. QED
      BY <2>1, <3>4
  <2>2. CASE exact = FALSE
    <3>1. q + 1 = b
      BY <1>1, <2>2 DEF Outcome
    <3>2. CASE k.exact = TRUE
      <4>1. PICK S \in Nat : W = q * E + S /\ E < S
        BY <1>1, <2>2, <3>2 DEF Outcome
      <4>2. DigitTaken(b, p, D, E, H, err, a, W, Z, q, S, N, s, t)
        BY <1>6, <4>1
      <4>3. Near(a * (b * p) * D, (b * p) * D, N, s, Z + H * W, TRUE)
        BY <1>4, <3>2
      <4>4. Near((q + b * a) * p * D, p * D, N, t, Z + H * R, FALSE)
        BY <3>1, <4>1, <4>2, <4>3, NearGivesUp
      <4>5. QED
        BY <2>2, <4>4
    <3>3. CASE k.exact = FALSE
      <4>1. Near(a * (b * p) * D, (b * p) * D, N, s, Z + H * W, FALSE)
        BY <1>4, <3>3
      <4>2. Near((q + b * a) * p * D, p * D, N, t, Z + H * R, FALSE)
        BY <1>1, <1>5, <3>1, <4>1, NearSaturated
      <4>3. QED
        BY <2>2, <4>2
    <3>4. k.exact \in BOOLEAN
      BY DigitTypes
    <3>5. QED
      BY <3>2, <3>3, <3>4
  <2>3. QED
    BY <2>1, <2>2
<1>8. QED
  BY <1>1, <1>7

(* A digit that the divisor divides. *)
LEMMA DividesOutcome ==
  ASSUME NEW k, NEW q, NEW u, NEW top, Divides(k, q, u, top), k.exact = TRUE
  PROVE  Outcome(k, q, Rest(k, u, top), TRUE)
BY DEF Divides, Leaves, Outcome

(* The taken limbs fit the window. *)
LEMMA TakenFits ==
  ASSUME NEW k, CallFits(k), k.pc # "finish"
  PROVE  Taken(k) \in Nat /\ Taken(k) < Power(Base, Low(k) + 2)
<1>1. k.n \in Nat /\ k.n - 2 - Low(k) \in Nat /\ Low(k) \in Nat
  BY WindowLies
<1>2. Low(k) + 2 \in Nat /\ (k.n - 2 - Low(k)) + (Low(k) + 2) <= k.n /\ IsLimbs(k.d, k.n)
  BY <1>1 DEF CallFits
<1>3. Part(k.d, k.n - 2 - Low(k), Low(k) + 2) \in 0 .. Power(Base, Low(k) + 2) - 1
  BY <1>1, <1>2, PartType
<1>4. Power(Base, Low(k) + 2) \in Nat
  BY <1>2, BasePower
<1>5. QED
  BY <1>3, <1>4 DEF Taken

(* The largest digit, and what the borrow says of it. *)
LEMMA SaturatedOutcome ==
  ASSUME NEW k, CallFits(k), k.pc # "finish", k.exact \in BOOLEAN,
         k.exact = TRUE => Saturated(k).cy <= k.top
  PROVE  Outcome(k, Base - 1, Saturated(k).rest, k.exact /\ k.top = Saturated(k).cy)
<1>0. PICK top \in Nat, b \in Nat : top = k.top /\ b = Base
  BY BaseType DEF CallFits, KnuthCalls
<1>1. PICK P \in Nat \ {0}, w \in Nat, d \in Nat, rest \in Nat, cy \in Int :
        /\ rest < P /\ d < P /\ P = Power(Base, Low(k) + 2)
        /\ w = Part(k.u, WindowBase(k), Low(k) + 2) /\ d = Taken(k)
        /\ rest = Saturated(k).rest /\ cy = Saturated(k).cy
        /\ w - (b - 1) * d = rest - cy * P
  <2>1. PICK P \in Nat \ {0} : P = Power(Base, Low(k) + 2)
    BY SaturatedType
  <2>2. PICK x \in 0 .. P - 1, cy \in Int, w \in Nat, d \in Nat :
          /\ w = Part(k.u, WindowBase(k), Low(k) + 2) /\ d = Taken(k)
          /\ x = Saturated(k).rest /\ cy = Saturated(k).cy
          /\ w - (Base - 1) * d = x - cy * P
    BY <2>1, SaturatedType
  <2>3. d < P /\ x \in Nat /\ x < P
    BY <2>1, <2>2, TakenFits
  <2>4. w - (b - 1) * d = x - cy * P
    BY <1>0, <2>2
  <2>5. QED
    BY <2>1, <2>2, <2>3, <2>4
<1>2. PICK e \in Int : e = top - cy
  OBVIOUS
<1>3. Window(k) = (b - 1) * d + rest + e * P
  <2>1. Window(k) = w + top * P
    BY <1>0, <1>1 DEF Window
  <2>2. e * P = top * P - cy * P
    BY <1>2
  <2>3. PICK x \in Int, y \in Int, z \in Int : x = (b - 1) * d /\ y = cy * P /\ z = top * P
    OBVIOUS
  <2>4. w - x = rest - y
    BY <1>0, <1>1, <2>3
  <2>5. w + z = x + rest + (z - y)
    BY <2>4
  <2>6. QED
    BY <2>1, <2>2, <2>3, <2>5
<1>4. (b - 1) \in 0 .. b - 1 /\ (b - 1) + 1 = b
  BY <1>0, <1>1, BaseType
<1>5. CASE k.exact = TRUE /\ top = cy
  <2>1. (k.exact /\ k.top = Saturated(k).cy) = TRUE
    BY <1>0, <1>1, <1>5
  <2>2. Window(k) = (b - 1) * d + rest
    BY <1>2, <1>3, <1>5
  <2>3. Outcome(k, b - 1, rest, TRUE)
    BY <1>0, <1>1, <1>4, <1>5, <2>2 DEF Outcome
  <2>4. QED
    BY <1>0, <1>1, <2>1, <2>3
<1>6. CASE k.exact = TRUE /\ top # cy
  <2>1. (k.exact /\ k.top = Saturated(k).cy) = FALSE
    BY <1>0, <1>1, <1>6
  <2>2. e >= 1
    BY <1>0, <1>1, <1>2, <1>6
  <2>3. PICK S \in Nat : S = rest + e * P /\ d < S
    <3>1. 1 * P <= e * P
      BY <2>2, MulPos
    <3>2. rest + e * P \in Nat /\ d < rest + e * P
      BY <1>0, <1>1, <2>2, <3>1
    <3>3. QED
      BY <3>2
  <2>4. Window(k) = (b - 1) * d + S
    BY <1>3, <2>3
  <2>5. Outcome(k, b - 1, rest, FALSE)
    BY <1>0, <1>1, <1>4, <2>3, <2>4 DEF Outcome
  <2>6. QED
    BY <1>0, <1>1, <2>1, <2>5
<1>7. CASE k.exact = FALSE
  <2>1. (k.exact /\ k.top = Saturated(k).cy) = FALSE
    BY <1>7
  <2>2. Outcome(k, b - 1, rest, FALSE)
    BY <1>0, <1>1, <1>4, <1>7 DEF Outcome
  <2>3. QED
    BY <1>0, <1>1, <2>1, <2>2
<1>8. QED
  BY <1>5, <1>6, <1>7

-----------------------------------------------------------------------------
(* The digits of the approximation.                                        *)

(* The fields of a call that no digit changes, and the call c after the digit q of k. *)
SameCall(k, c) ==
  /\ c.num = k.num /\ c.den = k.den /\ c.m = k.m /\ c.n = k.n /\ c.kept = k.kept
  /\ c.shift = k.shift /\ c.d = k.d
Follows(k, q, u, top, exact, c) ==
  /\ SameCall(k, c) /\ c.quotient = QuotientWith(k, q) /\ c.u = u /\ c.top = top
  /\ c.pc = NextPc(k) /\ c.j = NextJ(k) /\ c.exact = exact
Approximating(k) ==
  CallFits(k) /\ k.pc \in {"digit", "tail"} /\ k.approx = TRUE /\ Approaching(k)

(* A digit leads from a near sum to a near sum. *)
LEMMA OutcomeApproaches ==
  ASSUME NEW k, Approximating(k), NEW q, NEW u, NEW top, Leaves(k, q, u, top),
         NEW exact \in BOOLEAN, Outcome(k, q, Rest(k, u, top), exact),
         NEW c, Follows(k, q, u, top, exact, c), k.pc = "digit" => exact = TRUE
  PROVE  Approaching(c)
<1> /\ CallFits(k) /\ k.pc \in {"digit", "tail"} /\ k.approx = TRUE /\ Approaching(k)
    /\ SameCall(k, c) /\ c.quotient = QuotientWith(k, q) /\ c.u = u /\ c.top = top
    /\ c.pc = NextPc(k) /\ c.j = NextJ(k) /\ c.exact = exact
  BY DEF Approximating, Follows
<1>1. /\ k.j \in Nat /\ k.kept \in Nat /\ k.n \in Nat /\ k.m \in Nat /\ 2 <= k.kept
      /\ Low(k) \in Nat /\ WindowBase(k) \in Nat
  BY WindowLies DEF CallFits, KnuthCalls
<1>2. k.j > 0
  BY <1>1 DEF Approaching
<1>3. c.j = k.j - 1 /\ c.j \in Nat /\ c.j + 1 = k.j
  BY <1>1, <1>2 DEF NextJ
<1>4. /\ c.pc = (IF k.pc = "digit" /\ k.j >= k.kept THEN "digit"
                 ELSE IF k.j > 1 THEN "tail" ELSE "last")
  BY <1>2 DEF NextPc
<1>5. /\ Spent(c) = SpentAfter(k) /\ Slack(c) = Slack(k) /\ ShiftedDivisor(c) = ShiftedDivisor(k)
      /\ ShiftedDividend(c) = ShiftedDividend(k)
  <2>1. Slack(c) = Slack(k) /\ ShiftedDivisor(c) = ShiftedDivisor(k)
        /\ ShiftedDividend(c) = ShiftedDividend(k) /\ c.kept = k.kept
    BY DEF Slack, ShiftedDivisor, ShiftedDividend, SameCall
  <2>2. CASE c.pc = "digit"
    BY <1>4, <2>1, <2>2 DEF Spent, SpentAfter
  <2>3. CASE c.pc # "digit" /\ k.pc = "digit"
    <3>1. k.j = k.kept - 1
      BY <1>1, <1>4, <2>3 DEF Approaching
    <3>2. k.kept - 2 - c.j = 0
      BY <1>1, <1>3, <3>1
    <3>3. QED
      BY <2>1, <2>3, <3>2 DEF Spent, SpentAfter
  <2>4. CASE c.pc # "digit" /\ k.pc # "digit"
    <3>1. k.kept - 2 - c.j = k.kept - 1 - k.j
      BY <1>1, <1>3
    <3>2. QED
      BY <2>1, <2>4, <3>1 DEF Spent, SpentAfter
  <2>5. QED
    BY <2>2, <2>3, <2>4
<1>6. Above(c, c.j + 1) = q + Base * Above(k, k.j + 1)
  <2>1. q \in 0 .. Base - 1 /\ k.pc # "finish"
    BY DEF Outcome
  <2>2. c.m = k.m /\ c.n = k.n
    BY DEF SameCall
  <2>3. QED
    BY <1>3, <2>1, <2>2, AboveStep
<1>7. Remaining(c) = Below(k) + Power(Base, WindowBase(k)) * Rest(k, u, top)
  <2>1. c.n = k.n /\ k.pc # "finish"
    BY DEF SameCall
  <2>2. QED
    BY <1>3, <2>1, RemainingAfter
<1>8. NearBefore(c)
  <2>1. k.pc # "finish"
    OBVIOUS
  <2>2. Near((q + Base * Above(k, k.j + 1)) * Power(Base, k.j) * ShiftedDivisor(k),
             Power(Base, k.j) * ShiftedDivisor(k), ShiftedDividend(k),
             SpentAfter(k) * Slack(k),
             Below(k) + Power(Base, WindowBase(k)) * Rest(k, u, top), exact)
    BY <2>1, OutcomeNear
  <2>3. QED
    BY <1>3, <1>5, <1>6, <1>7, <2>2 DEF NearBefore
<1>9. c.pc = "digit" => c.exact = TRUE /\ c.kept = c.n /\ c.kept - 1 <= c.j
  <2>1. ASSUME c.pc = "digit" PROVE c.exact = TRUE /\ c.kept = c.n /\ c.kept - 1 <= c.j
    <3>1. k.pc = "digit" /\ k.j >= k.kept
      BY <1>4, <2>1
    <3>2. k.kept - 1 <= c.j
      BY <1>1, <1>3, <3>1
    <3>3. QED
      BY <3>1, <3>2 DEF SameCall, Approaching
  <2>2. QED
    BY <2>1
<1>10. c.pc = "tail" => 1 <= c.j
  BY <1>1, <1>3, <1>4
<1>11. c.pc \in {"tail", "last"} => c.j <= c.kept - 2
  <2>1. c.kept = k.kept
    BY DEF SameCall
  <2>2. ASSUME c.pc \in {"tail", "last"} PROVE c.j <= k.kept - 2
    <3>1. CASE k.pc = "tail"
      BY <1>1, <1>3, <3>1 DEF Approaching
    <3>2. CASE k.pc = "digit"
      <4>1. ~(k.j >= k.kept)
        BY <1>4, <2>2, <3>2
      <4>2. QED
        BY <1>1, <1>3, <4>1
    <3>3. QED
      BY <3>1, <3>2
  <2>3. QED
    BY <2>1, <2>2
<1>12. c.pc # "finish"
  BY <1>4
<1>13. ShiftedDivisor(c) = c.den * Power(2, c.shift) /\ 2 * (c.kept - 1) <= Base
  BY <1>5 DEF SameCall, Approaching
<1>14. QED
  BY <1>8, <1>9, <1>10, <1>11, <1>12, <1>13 DEF Approaching

(* The state after a digit follows. *)
LEMMA SteppedFollows ==
  ASSUME NEW k, Approximating(k), NEW q, NEW u, NEW top,
         Leaves(k, q, u, top), NEW sound, sound = TRUE, NEW c, c = Stepped(k, q, u, top, sound)
  PROVE  Follows(k, q, u, top, k.exact, c) /\ c.approx = k.approx /\ CallFits(c)
<1>1. Steps(k, q, u, top, c)
  BY SteppedFacts DEF Approximating
<1>2. k \in KnuthCalls /\ k.sound = TRUE
  BY DEF Approximating, CallFits
<1>3. c = Updated(k, QuotientWith(k, q), u, top, NextPc(k), NextJ(k))
  BY <1>2, SteppedFields
<1>4. c.pc = NextPc(k) /\ c.j = NextJ(k) /\ c.exact = k.exact
  BY <1>2, <1>3 DEF Updated, KnuthCalls
<1>5. QED
  BY <1>1, <1>4 DEF Steps, SameCall, Follows

(* Digits that the divisor divides. *)
LEMMA DividesApproaches ==
  ASSUME NEW k, Approximating(k), k.exact = TRUE, NEW q, NEW u, NEW top, Divides(k, q, u, top),
         NEW sound, sound = TRUE, NEW c, c = Stepped(k, q, u, top, sound)
  PROVE  Approaching(c)
<1>1. Leaves(k, q, u, top)
  BY DEF Divides
<1>2. Follows(k, q, u, top, TRUE, c)
  <2>1. Follows(k, q, u, top, k.exact, c)
    BY <1>1, SteppedFollows
  <2>2. QED
    BY <2>1
<1>3. Outcome(k, q, Rest(k, u, top), TRUE)
  BY DividesOutcome
<1>4. QED
  BY <1>1, <1>2, <1>3, OutcomeApproaches

(* The largest digit, while the divisor is taken whole. *)
LEMMA LargestDigitApproaches ==
  ASSUME Running(knuth), Approximating(knuth), KnuthLargestDigit
  PROVE  Approaching(knuth')
<1> DEFINE s == Saturated(knuth)
           u == Patched(knuth.u, WindowBase(knuth), Low(knuth) + 2, s.rest)
           sound == s.cy = knuth.top
<1>1. CallFits(knuth) /\ knuth.pc = "digit" /\ Begins(knuth) < Taken(knuth)
  BY DEF Running, KnuthLargestDigit
<1>2. High(knuth) = TopPair(knuth)
  BY DEF KnuthLargestDigit, High
<1>3. Divides(knuth, Base - 1, u, u[knuth.j + knuth.n - 1]) /\ sound = TRUE
  BY <1>1, <1>2, SaturatedFacts
<1>4. knuth' = Stepped(knuth, Base - 1, u, u[knuth.j + knuth.n - 1], sound)
  BY DEF KnuthLargestDigit, WithSaturated
<1>5. knuth.exact = TRUE
  BY <1>1 DEF Approximating, Approaching
<1> HIDE DEF u, sound
<1>6. QED
  BY <1>3, <1>4, <1>5, DividesApproaches

(* A digit from an estimate. *)
LEMMA DigitApproaches ==
  ASSUME Running(knuth), Approximating(knuth), KnuthDigit
  PROVE  Approaching(knuth')
<1> DEFINE result == Subtracted(knuth, Estimate(knuth), Low(knuth))
           u == [Patched(knuth.u, WindowBase(knuth), Low(knuth), result.low)
                   EXCEPT ![knuth.j + knuth.n - 2] = LowLimb(result.high)]
<1>1. CallFits(knuth) /\ knuth.pc = "digit" /\ Begins(knuth) < Taken(knuth)
  BY DEF Running, KnuthDigit
<1>2. High(knuth) < TopPair(knuth)
  <2>1. High(knuth) # TopPair(knuth)
    BY DEF KnuthDigit, High
  <2>2. High(knuth) <= TopPair(knuth)
    BY <1>1, HighFits
  <2>3. High(knuth) \in Nat
    BY <1>1, HighType
  <2>4. Low(knuth) \in Nat /\ Low(knuth) + 2 <= knuth.n
    BY <1>1, WindowLies
  <2>5. TopPair(knuth) \in Nat
    BY <1>1, <2>4, DivisorFacts
  <2>6. QED
    BY <2>1, <2>2, <2>3, <2>5
<1>3. Divides(knuth, result.q, u, HighLimb(result.high)) /\ result.sound = TRUE
  BY <1>1, <1>2, WithEstimateFacts
<1>4. knuth' = Stepped(knuth, result.q, u, HighLimb(result.high), result.sound)
  BY DEF KnuthDigit, WithEstimate
<1>5. knuth.exact = TRUE
  BY <1>1 DEF Approximating, Approaching
<1> HIDE DEF u, result
<1>6. QED
  BY <1>3, <1>4, <1>5, DividesApproaches

(* A digit that can be told from the largest has an estimate. *)
LEMMA NotSaturated ==
  ASSUME CallFits(knuth), knuth.pc # "finish", ~TailSaturates
  PROVE  knuth.exact = TRUE /\ High(knuth) < TopPair(knuth)
<1>1. knuth.exact = TRUE
  BY DEF TailSaturates, CallFits, KnuthCalls
<1>2. knuth.top \in Nat /\ knuth.d[knuth.n - 1] \in Int
  <2>1. knuth.n \in Nat /\ knuth.n - 1 \in 0 .. knuth.n - 1 /\ knuth.top \in Nat
    <3>1. knuth.n \in Nat /\ knuth.m \in Nat /\ knuth.top \in Nat /\ knuth.kept \in Nat
      BY DEF CallFits, KnuthCalls
    <3>2. QED
      BY <3>1 DEF CallFits
  <2>2. QED
    BY <2>1, BaseType DEF CallFits, IsLimbs
<1>3. ~(knuth.top >= knuth.d[knuth.n - 1])
  BY DEF TailSaturates
<1>4. knuth.top < knuth.d[knuth.n - 1]
  BY <1>2, <1>3
<1>5. QED
  BY <1>1, <1>4, TopLimbBelow

(* A digit of the tail from an estimate. *)
LEMMA TailDigitApproaches ==
  ASSUME Approximating(knuth), KnuthTailDigit
  PROVE  Approaching(knuth')
<1> DEFINE result == Subtracted(knuth, Estimate(knuth), Low(knuth))
           u == [Patched(knuth.u, WindowBase(knuth), Low(knuth), result.low)
                   EXCEPT ![knuth.j + knuth.n - 2] = LowLimb(result.high)]
<1>1. CallFits(knuth) /\ knuth.pc # "finish" /\ ~TailSaturates
  BY DEF Approximating, KnuthTailDigit
<1>2. knuth.exact = TRUE /\ High(knuth) < TopPair(knuth)
  BY <1>1, NotSaturated
<1>3. Divides(knuth, result.q, u, HighLimb(result.high)) /\ result.sound = TRUE
  BY <1>1, <1>2, WithEstimateFacts
<1>4. knuth' = Stepped(knuth, result.q, u, HighLimb(result.high), result.sound)
  BY DEF KnuthTailDigit, WithEstimate
<1> HIDE DEF u, result
<1>5. QED
  BY <1>2, <1>3, <1>4, DividesApproaches

(* A digit of the tail that was taken to be the largest and is one below. *)
LEMMA SecondLargestDivides ==
  ASSUME NEW k, CallFits(k), k.pc # "finish", k.d[k.n - 1] <= k.top, k.top < Saturated(k).cy,
         NEW back, back = Saturated(k).rest + Part(k.d, k.n - (Low(k) + 2), Low(k) + 2),
         NEW u, u = Patched(k.u, WindowBase(k), Low(k) + 2, back % Power(Base, Low(k) + 2))
  PROVE  /\ Divides(k, Base - 2, u, u[k.j + k.n - 1]) /\ back >= Power(Base, Low(k) + 2)
         /\ k.exact = TRUE => Outcome(k, Base - 2, back - Power(Base, Low(k) + 2), TRUE)
<1>1. PICK P \in Nat \ {0}, rest \in Nat, d \in Nat :
        /\ P = Power(Base, Low(k) + 2) /\ rest = Saturated(k).rest /\ rest < P /\ d = Taken(k)
        /\ back = rest + d /\ d < P
  <2>1. PICK P \in Nat \ {0} : P = Power(Base, Low(k) + 2)
    BY SaturatedType
  <2>2. /\ Saturated(k).rest \in 0 .. P - 1 /\ Taken(k) \in Nat
        /\ Taken(k) = Part(k.d, k.n - (Low(k) + 2), Low(k) + 2)
    BY <2>1, SaturatedType
  <2>3. Saturated(k).rest \in Nat /\ Saturated(k).rest < P
    BY <2>2
  <2>4. QED
    BY <2>1, <2>2, <2>3, TakenFits
<1>2. PICK R \in Nat : R = rest + d - P /\ R < d /\ Window(k) = (Base - 2) * d + R
  BY <1>1, TailCarries
<1>3. R < P /\ back = P * 1 + R /\ back >= P /\ back \in Int /\ R = back - P
  BY <1>1, <1>2
<1>4. back % P = R
  <2>1. Decomposed(back, P, 1, R)
    BY <1>3 DEF Decomposed
  <2>2. QED
    BY <2>1, DivIs
<1>5. Base - 2 \in 0 .. Base - 1
  BY BaseType
<1>6. R \in 0 .. Power(Base, Low(k) + 2) - 1
  BY <1>1, <1>3
<1>7. u = Patched(k.u, WindowBase(k), Low(k) + 2, R)
  BY <1>1, <1>4
<1>8. Leaves(k, Base - 2, u, u[k.j + k.n - 1]) /\ Rest(k, u, u[k.j + k.n - 1]) = R
  BY <1>5, <1>6, <1>7, SaturatedLeaves, PatchedRest
<1>9. Divides(k, Base - 2, u, u[k.j + k.n - 1])
  BY <1>1, <1>2, <1>8 DEF Divides
<1>10. k.exact = TRUE => Outcome(k, Base - 2, R, TRUE)
  BY <1>1, <1>2, <1>5 DEF Outcome
<1>11. QED
  BY <1>1, <1>3, <1>9, <1>10

(* Digits of the tail that can no longer be told from the largest. *)
LEMMA TailLargestApproaches ==
  ASSUME Approximating(knuth), KnuthTailLargest
  PROVE  Approaching(knuth')
<1> DEFINE s == Saturated(knuth)
           P == Power(Base, Low(knuth) + 2)
           back == s.rest + Part(knuth.d, knuth.n - (Low(knuth) + 2), Low(knuth) + 2)
<1>1. /\ CallFits(knuth) /\ knuth.pc = "tail" /\ knuth.exact \in BOOLEAN /\ knuth.pc # "finish"
      /\ knuth.top \in Nat /\ s.cy \in Int /\ s.rest \in 0 .. P - 1
  <2>1. CallFits(knuth) /\ knuth.pc = "tail" /\ knuth.exact \in BOOLEAN /\ knuth.top \in Nat
    BY DEF Approximating, KnuthTailLargest, CallFits, KnuthCalls
  <2>2. s.cy \in Int /\ s.rest \in 0 .. P - 1
    BY <2>1, SaturatedType
  <2>3. QED
    BY <2>1, <2>2
<1>2. CASE knuth.top # s.cy /\ knuth.exact /\ knuth.top < s.cy
  <2> DEFINE u == Patched(knuth.u, WindowBase(knuth), Low(knuth) + 2, back % P)
             sound == back >= P
  <2>1. knuth.d[knuth.n - 1] <= knuth.top /\ knuth.exact = TRUE
    <3>1. knuth.top >= knuth.d[knuth.n - 1] /\ knuth.exact = TRUE
      BY <1>1, <1>2 DEF KnuthTailLargest, TailSaturates
    <3>2. QED
      BY <3>1
  <2>2. Divides(knuth, Base - 2, u, u[knuth.j + knuth.n - 1]) /\ sound = TRUE
    BY <1>1, <1>2, <2>1, SecondLargestDivides
  <2>3. knuth' = Stepped(knuth, Base - 2, u, u[knuth.j + knuth.n - 1], sound)
    BY <1>2 DEF KnuthTailLargest, WithSaturated
  <2> HIDE DEF u, sound
  <2>4. QED
    BY <2>1, <2>2, <2>3, DividesApproaches
<1>3. CASE ~(knuth.top # s.cy /\ knuth.exact /\ knuth.top < s.cy)
  <2> DEFINE u == Patched(knuth.u, WindowBase(knuth), Low(knuth) + 2, s.rest)
             c == Stepped(knuth, Base - 1, u, u[knuth.j + knuth.n - 1], TRUE)
             exact == knuth.exact /\ knuth.top = s.cy
  <2>1. Leaves(knuth, Base - 1, u, u[knuth.j + knuth.n - 1])
        /\ Rest(knuth, u, u[knuth.j + knuth.n - 1]) = s.rest
    <3>1. Base - 1 \in 0 .. Base - 1
      BY BaseType
    <3>2. QED
      BY <1>1, <3>1, SaturatedLeaves, PatchedRest
  <2>2. knuth' = [c EXCEPT !.exact = @ /\ knuth.top = s.cy]
    BY <1>3 DEF KnuthTailLargest, WithSaturated
  <2>3. Outcome(knuth, Base - 1, s.rest, exact)
    <3>1. knuth.exact = TRUE => s.cy <= knuth.top
      BY <1>1, <1>3
    <3>2. QED
      BY <1>1, <3>1, SaturatedOutcome
  <2> HIDE DEF u
  <2>4. PICK top : top = u[knuth.j + knuth.n - 1]
    OBVIOUS
  <2>5. Follows(knuth, Base - 1, u, top, knuth.exact, c) /\ CallFits(c)
    BY <2>1, <2>4, SteppedFollows
  <2> HIDE DEF c
  <2>6. Follows(knuth, Base - 1, u, top, exact, knuth')
    <3>1. c \in KnuthCalls /\ c.exact = knuth.exact
      BY <2>5 DEF CallFits, Follows
    <3>2. knuth' = [c EXCEPT !.exact = exact]
      BY <2>2, <3>1 DEF KnuthCalls
    <3> HIDE DEF exact
    <3>3. /\ knuth'.exact = exact /\ knuth'.num = c.num /\ knuth'.den = c.den /\ knuth'.m = c.m
          /\ knuth'.n = c.n /\ knuth'.kept = c.kept /\ knuth'.shift = c.shift /\ knuth'.d = c.d
          /\ knuth'.quotient = c.quotient /\ knuth'.u = c.u /\ knuth'.top = c.top
          /\ knuth'.pc = c.pc /\ knuth'.j = c.j
      BY <3>1, <3>2 DEF KnuthCalls
    <3>4. QED
      BY <2>5, <3>3 DEF Follows, SameCall
  <2>7. exact \in BOOLEAN
    OBVIOUS
  <2> HIDE DEF exact
  <2>8. QED
    BY <1>1, <2>1, <2>3, <2>4, <2>6, <2>7, OutcomeApproaches
<1>4. QED
  BY <1>2, <1>3

(* The quotient by the top pair alone is exact for a window of three limbs. *)
LEMMA LastOutcome ==
  ASSUME NEW k, CallFits(k), k.pc = "last", k.exact = TRUE, High(k) < TopPair(k)
  PROVE  \E R \in Nat : Outcome(k, Estimate(k).quotient, R, TRUE)
<1>1. /\ k.pc # "finish" /\ Low(k) = 0 /\ Power(Base, Low(k)) = 1 /\ k.n \in Nat /\ 0 + 2 <= k.n
      /\ 0 \in Nat
  <2>1. k.n \in Nat /\ Low(k) \in Nat /\ Low(k) + 2 <= k.n
    BY WindowLies
  <2>2. Low(k) = 0
    BY DEF Low, CallFits
  <2>3. QED
    BY <2>1, <2>2, BaseType, PowerStep
<1>2. PICK D \in Nat, U \in Nat, q \in 0 .. Base - 1, r \in Nat :
        /\ D = TopPair(k) /\ U = HighThree(k) /\ q = Estimate(k).quotient /\ U = q * D + r /\ r < D
  <2>1. Estimated(Base, Power(Base, Low(k)), TopPair(k), Part(k.d, k.n - 2 - Low(k), Low(k)),
                  HighThree(k), Part(k.u, WindowBase(k), Low(k)),
                  Estimate(k).quotient, Estimate(k).remainder)
    BY <1>1, EstimateFacts
  <2>2. PICK D, U, q, r : /\ D = TopPair(k) /\ U = HighThree(k) /\ q = Estimate(k).quotient
                          /\ r = Estimate(k).remainder
    OBVIOUS
  <2>3. D \in Nat /\ q \in 0 .. Base - 1 /\ r \in 0 .. D - 1 /\ U = q * D + r
    BY <2>1, <2>2 DEF Estimated
  <2>4. U \in Nat
    BY <1>1, <2>2, HighType
  <2>5. r \in Nat /\ r < D
    BY <2>3
  <2>6. QED
    BY <2>2, <2>3, <2>4, <2>5
<1>3. Window(k) = U
  <2>1. Part(k.u, WindowBase(k), Low(k)) \in 0 .. 1 - 1
    BY <1>1, WindowFacts
  <2>2. Part(k.u, WindowBase(k), Low(k)) = 0
    BY <2>1
  <2>3. Window(k) = 0 + U * 1
    BY <1>1, <1>2, <2>2, WindowFacts
  <2>4. QED
    BY <2>3
<1>4. Taken(k) = D
  <2>1. /\ Part(k.d, k.n - 2 - 0, 0) \in 0 .. Power(Base, 0) - 1
        /\ Part(k.d, k.n - 2 - 0, 0 + 2) = TopPair(k) * Power(Base, 0) + Part(k.d, k.n - 2 - 0, 0)
    BY <1>1, DivisorFacts
  <2>2. Part(k.d, k.n - 2 - 0, 0) = 0 /\ Power(Base, 0) = 1
    BY <1>1, <2>1
  <2>3. Part(k.d, k.n - 2 - 0, 0 + 2) = D * 1 + 0
    BY <1>2, <2>1, <2>2
  <2>4. QED
    BY <1>1, <2>3 DEF Taken
<1>5. Outcome(k, q, r, TRUE)
  BY <1>2, <1>3, <1>4 DEF Outcome
<1>6. QED
  BY <1>2, <1>5

(* After the last digit the quotient is near. *)
LEMMA LastDigitApproaches ==
  ASSUME CallFits(knuth), Approaching(knuth), knuth.approx = TRUE, KnuthLastDigit
  PROVE  Approaching(knuth')
<1>1. /\ knuth.pc = "last" /\ knuth.pc # "finish" /\ knuth.exact \in BOOLEAN /\ knuth.j = 0
      /\ knuth.top \in Nat /\ knuth \in KnuthCalls
  BY DEF KnuthLastDigit, CallFits, KnuthCalls
<1>2. PICK digit : /\ knuth' = [knuth EXCEPT !.quotient[0] = digit, !.pc = "finish"]
                   /\ digit = IF ~TailSaturates THEN Estimate(knuth).quotient
                              ELSE IF knuth.exact /\ knuth.top < Saturated(knuth).cy
                                   THEN Base - 2 ELSE Base - 1
  BY DEF KnuthLastDigit
<1>3. PICK R \in Nat, exact \in BOOLEAN : Outcome(knuth, digit, R, exact)
  <2>1. CASE ~TailSaturates
    <3>1. knuth.exact = TRUE /\ High(knuth) < TopPair(knuth)
      BY <1>1, <2>1, NotSaturated
    <3>2. \E R \in Nat : Outcome(knuth, Estimate(knuth).quotient, R, TRUE)
      BY <1>1, <3>1, LastOutcome
    <3>3. QED
      BY <1>2, <2>1, <3>2
  <2>2. CASE TailSaturates /\ knuth.exact /\ knuth.top < Saturated(knuth).cy
    <3>1. knuth.d[knuth.n - 1] <= knuth.top /\ knuth.exact = TRUE
      <4>1. knuth.top >= knuth.d[knuth.n - 1]
        BY <1>1, <2>2 DEF TailSaturates
      <4>2. QED
        BY <1>1, <2>2, <4>1
    <3>2. PICK R : Outcome(knuth, Base - 2, R, TRUE)
      BY <1>1, <2>2, <3>1, SecondLargestDivides
    <3>3. digit = Base - 2 /\ R \in Nat
      BY <1>2, <2>2, <3>2 DEF Outcome
    <3>4. QED
      BY <3>2, <3>3
  <2>3. CASE TailSaturates /\ ~(knuth.exact /\ knuth.top < Saturated(knuth).cy)
    <3>1. knuth.exact = TRUE => Saturated(knuth).cy <= knuth.top
      <4>1. Saturated(knuth).cy \in Int
        BY <1>1, SaturatedType
      <4>2. QED
        BY <1>1, <2>3, <4>1
    <3>2. Outcome(knuth, Base - 1, Saturated(knuth).rest,
                  knuth.exact /\ knuth.top = Saturated(knuth).cy)
      BY <1>1, <3>1, SaturatedOutcome
    <3>3. (knuth.exact /\ knuth.top = Saturated(knuth).cy) \in BOOLEAN
      OBVIOUS
    <3>4. digit = Base - 1 /\ Saturated(knuth).rest \in Nat
      BY <1>2, <2>3, <3>2 DEF Outcome
    <3>5. QED
      BY <3>2, <3>3, <3>4
  <2>4. QED
    BY <2>1, <2>2, <2>3
<1>4. digit \in 0 .. Base - 1 /\ R \in Nat
  BY <1>3 DEF Outcome
<1>5. PICK c : c = knuth'
  OBVIOUS
<1>6. SameCall(knuth, c) /\ c.quotient = QuotientWith(knuth, digit) /\ c.pc = "finish"
  BY <1>1, <1>2, <1>5 DEF KnuthCalls, SameCall, QuotientWith
<1>7. Above(c, 0) = digit + Base * Above(knuth, knuth.j + 1)
  <2>1. c.m = knuth.m /\ c.n = knuth.n
    BY <1>6 DEF SameCall
  <2>2. QED
    BY <1>1, <1>4, <1>6, <2>1, AboveStep
<1>8. PICK left \in Nat : left = Below(knuth) + Power(Base, WindowBase(knuth)) * R
  <2>1. Below(knuth) \in Nat /\ Power(Base, WindowBase(knuth)) \in Nat
    BY <1>1, RemainingWindow, DigitTypes
  <2>2. QED
    BY <1>4, <2>1
<1>9. NearAtEnd(c, left, exact)
  <2>1. Near((digit + Base * Above(knuth, knuth.j + 1)) * Power(Base, knuth.j)
               * ShiftedDivisor(knuth),
             Power(Base, knuth.j) * ShiftedDivisor(knuth), ShiftedDividend(knuth),
             SpentAfter(knuth) * Slack(knuth), left, exact)
    BY <1>1, <1>3, <1>8, OutcomeNear
  <2>2. PICK a \in Nat, D \in Nat, kept \in Nat :
          /\ a = Above(c, 0) /\ D = ShiftedDivisor(knuth) /\ kept = knuth.kept
          /\ Power(Base, knuth.j) = 1
    <3>1. Above(knuth, knuth.j + 1) \in Nat /\ ShiftedDivisor(knuth) \in Nat
      BY <1>1, DigitTypes
    <3>2. knuth.kept \in Nat /\ Power(Base, 0) = 1 /\ Base \in Nat
      BY <1>1, BaseType, PowerStep DEF KnuthCalls
    <3>3. Above(c, 0) \in Nat
      BY <1>4, <1>7, <3>1, <3>2
    <3>4. QED
      BY <1>1, <3>1, <3>2, <3>3
  <2>3. SpentAfter(knuth) = kept - 1
    BY <1>1, <2>2 DEF SpentAfter
  <2>4. a * 1 * D = a * D /\ 1 * D = D
    OBVIOUS
  <2>5. /\ Slack(c) = Slack(knuth) /\ ShiftedDivisor(c) = D
        /\ ShiftedDividend(c) = ShiftedDividend(knuth) /\ c.kept = kept
    BY <1>6, <2>2 DEF SameCall, Slack, ShiftedDivisor, ShiftedDividend
  <2>6. Near(a * 1 * D, 1 * D, ShiftedDividend(knuth), (kept - 1) * Slack(knuth), left, exact)
    BY <1>7, <2>1, <2>2, <2>3
  <2>7. QED
    BY <2>2, <2>4, <2>5, <2>6 DEF NearAtEnd
<1>10. ShiftedDivisor(c) = c.den * Power(2, c.shift) /\ 2 * (c.kept - 1) <= Base
  BY <1>6 DEF SameCall, ShiftedDivisor, Approaching
<1>11. Approaching(c)
  BY <1>6, <1>9, <1>10 DEF Approaching
<1>12. QED
  BY <1>5, <1>11

(* The slack on numbers: k dropped digits, a divisor D with the top pair tp above the power G. *)
LEMMA SlackBelow ==
  ASSUME NEW b \in Nat, NEW G \in Nat, NEW k \in Nat, NEW tp \in Nat, NEW low \in Nat,
         2 * k <= b, b * b <= 2 * tp
  PROVE  k * (b * G) <= tp * G + low
<1>1. (2 * k) * (b * G) <= b * (b * G)
  <2>1. b * G \in Nat
    OBVIOUS
  <2>2. QED
    BY <2>1, MulPos
<1>2. (b * b) * G <= (2 * tp) * G
  <2>1. b * b \in Nat
    OBVIOUS
  <2>2. QED
    BY <2>1, MulPos
<1>3. PICK x \in Nat, y \in Nat, z \in Nat :
        /\ x = k * (b * G) /\ (2 * k) * (b * G) = 2 * x
        /\ y = tp * G /\ (2 * tp) * G = 2 * y /\ z = b * (b * G) /\ (b * b) * G = z
  OBVIOUS
<1>4. 2 * x <= z /\ z <= 2 * y
  BY <1>1, <1>2, <1>3
<1>5. QED
  BY <1>3, <1>4

(* All that the dropped limbs would have taken is less than the divisor. *)
LEMMA SlackBound ==
  ASSUME NEW k, CallFits(k), Approaching(k)
  PROVE  (k.kept - 1) * Slack(k) \in Nat /\ (k.kept - 1) * Slack(k) <= ShiftedDivisor(k)
<1>1. PICK n \in Nat, c \in Nat, low \in Nat :
        n = k.n /\ c = k.kept - 1 /\ low = n - 2 /\ low + 2 = n /\ n - 2 - low = 0
  <2>1. k.n \in Nat /\ k.kept \in Nat /\ 2 <= k.kept /\ k.kept <= k.n
    BY DEF CallFits, KnuthCalls
  <2>2. /\ k.kept - 1 \in Nat /\ k.n - 2 \in Nat /\ (k.n - 2) + 2 = k.n
        /\ k.n - 2 - (k.n - 2) = 0
    BY <2>1
  <2>3. QED
    BY <2>1, <2>2
<1>2. PICK b \in Nat, G \in Nat, tp \in Nat, x \in Nat :
        /\ b = Base /\ G = Power(Base, low) /\ tp = TopPair(k) /\ x = Part(k.d, 0, low)
        /\ b * b <= 2 * tp /\ Part(k.d, 0, low + 2) = tp * G + x
  <2>1. low + 2 <= k.n /\ k.n - 2 - low = 0
    BY <1>1
  <2>2. /\ TopPair(k) \in Nat /\ Base * Base <= 2 * TopPair(k)
        /\ Part(k.d, k.n - 2 - low, low) \in 0 .. Power(Base, low) - 1
        /\ Part(k.d, k.n - 2 - low, low + 2)
             = TopPair(k) * Power(Base, low) + Part(k.d, k.n - 2 - low, low)
    BY <2>1, DivisorFacts
  <2>3. Base \in Nat /\ Power(Base, low) \in Nat
    BY BaseType, BasePower
  <2>4. Part(k.d, 0, low) \in Nat
    BY <2>1, <2>2, <2>3
  <2>5. QED
    BY <2>1, <2>2, <2>3, <2>4
<1>3. c * (b * G) <= tp * G + x
  <2>1. 2 * c <= b
    BY <1>1, <1>2 DEF Approaching
  <2>2. QED
    BY <1>2, <2>1, SlackBelow
<1>4. Slack(k) = b * G /\ ShiftedDivisor(k) = tp * G + x
  BY <1>1, <1>2 DEF Slack, ShiftedDivisor
<1>5. c * (b * G) \in Nat
  OBVIOUS
<1>6. QED
  BY <1>1, <1>3, <1>4, <1>5

(* Close to the dividend, on numbers: the shifted quotient is the quotient or one above. *)
NearQuotient(A, d, x, z) ==
  /\ A \in Nat /\ d \in Nat /\ x \in Nat /\ z \in Nat \ {0}
  /\ x * z < A * (d * z) + d * z /\ A * (d * z) <= x * z + d * z

LEMMA NearQuotientClose ==
  ASSUME NEW A, NEW d, NEW x, NEW z, NearQuotient(A, d, x, z)
  PROVE  A - (x \div d) \in {0, 1}
<1> USE DEF NearQuotient
<1>1. PICK a \in Nat : a = A * d
  OBVIOUS
<1>2. A * (d * z) + d * z = (a + d) * z /\ x * z + d * z = (x + d) * z /\ A * (d * z) = a * z
  BY <1>1
<1>3. x < a + d
  <2>1. ASSUME a + d <= x PROVE FALSE
    <3>1. (a + d) * z <= x * z
      BY <2>1, MulPos
    <3>2. (a + d) * z \in Int /\ x * z \in Int
      OBVIOUS
    <3>3. QED
      BY <1>2, <3>1, <3>2
  <2>2. QED
    BY <2>1
<1>4. a <= x + d
  <2>1. ASSUME x + d + 1 <= a PROVE FALSE
    <3>1. (x + d + 1) * z <= a * z
      BY <2>1, MulPos
    <3>2. (x + d + 1) * z = (x + d) * z + z /\ (x + d) * z \in Int /\ a * z \in Int
      OBVIOUS
    <3>3. QED
      BY <1>2, <3>1, <3>2
  <2>2. QED
    BY <2>1
<1>5. d \in Nat \ {0}
  <2>1. d = 0 => a = 0
    BY <1>1
  <2>2. QED
    BY <1>3, <2>1
<1>6. PICK q \in Int, r \in 0 .. d - 1 : q = x \div d /\ x = d * q + r
  BY <1>5, DivMod
<1>7. ~(q >= A + 1)
  <2>1. ASSUME A + 1 <= q PROVE FALSE
    <3>1. (A + 1) * d <= q * d
      BY <2>1, MulPos
    <3>2. (A + 1) * d = a + d /\ q * d = d * q
      BY <1>1
    <3>3. QED
      BY <1>3, <1>6, <3>1, <3>2
  <2>2. QED
    BY <2>1
<1>8. ~(q + 2 <= A)
  <2>1. ASSUME q + 2 <= A PROVE FALSE
    <3>1. (q + 2) * d <= A * d
      BY <2>1, MulPos
    <3>2. (q + 2) * d = d * q + d + d
      OBVIOUS
    <3>3. QED
      BY <1>1, <1>4, <1>6, <3>1, <3>2
  <2>2. QED
    BY <2>1
<1>9. A - q \in {0, 1}
  BY <1>7, <1>8
<1>10. QED
  BY <1>6, <1>9

(* The limb above the digits of the quotient is cleared. *)
LEMMA QuotientCleared ==
  ASSUME NEW k, CallFits(k)
  PROVE  /\ Part([k.quotient EXCEPT ![k.m - k.n + 1] = 0], 0, k.m - k.n + 2) = Above(k, 0)
         /\ Above(k, 0) \in Nat
<1>1. PICK e \in Nat :
        /\ e = k.m - k.n + 1 /\ k.m - k.n + 2 = e + 1 /\ k.m - k.n + 1 - 0 = e
        /\ e + 1 <= e + 1 /\ e + 1 \in Nat /\ 0 + e <= e + 1 /\ 0 \in Nat
  <2>1. k.m \in Nat /\ k.n \in Nat /\ k.n <= k.m
    BY DEF CallFits, KnuthCalls
  <2>2. k.m - k.n + 1 \in Nat
    BY <2>1
  <2>3. QED
    BY <2>1, <2>2
<1>2. IsLimbs(k.quotient, e + 1)
  BY <1>1 DEF CallFits
<1>3. 0 \in 0 .. Base - 1
  BY BaseType
<1>4. Part([k.quotient EXCEPT ![e] = 0], 0, e + 1) = Part(k.quotient, 0, e) + Power(Base, e) * 0
  BY <1>1, <1>2, <1>3, PartReplaced
<1>5. Part(k.quotient, 0, e) \in 0 .. Power(Base, e) - 1 /\ Power(Base, e) \in Nat
  BY <1>1, <1>2, PartType, BasePower
<1>6. QED
  BY <1>1, <1>4, <1>5 DEF Above

(* The quotient of an approximation that has ended. *)
LEMMA FinishedClose ==
  ASSUME NEW k, CallFits(k), Approaching(k), k.pc = "finish"
  PROVE  Part([k.quotient EXCEPT ![k.m - k.n + 1] = 0], 0, k.m - k.n + 2) - (k.num \div k.den)
           \in {0, 1}
<1>1. PICK A \in Nat, t \in Nat : /\ A = Above(k, 0) /\ t = (k.kept - 1) * Slack(k)
                                  /\ t <= ShiftedDivisor(k)
  BY QuotientCleared, SlackBound
<1>2. PICK z \in Nat \ {0}, d \in Nat, x \in Nat :
        /\ z = Power(2, k.shift) /\ d = k.den /\ x = k.num /\ ShiftedDivisor(k) = d * z
        /\ ShiftedDividend(k) = x * z
  <2>1. k.shift \in Nat /\ k.den \in Nat /\ k.num \in Nat
    BY DEF CallFits, KnuthCalls
  <2>2. Power(2, k.shift) \in Nat \ {0}
    BY <2>1, PowerPositive
  <2>3. QED
    BY <2>1, <2>2 DEF Approaching, ShiftedDividend
<1>3. PICK left \in Nat, exact \in BOOLEAN : NearAtEnd(k, left, exact)
  BY DEF Approaching
<1>4. PICK a \in Nat, D \in Nat, N \in Nat : a = A * (d * z) /\ D = d * z /\ N = x * z
  OBVIOUS
<1>5. Near(a, D, N, t, left, exact)
  BY <1>1, <1>2, <1>3, <1>4 DEF NearAtEnd
<1>6. N < a + D /\ a <= N + D
  <2>1. CASE exact = TRUE
    <3>1. N < a + D /\ a + left <= N + t
      BY <1>5, <2>1 DEF Near
    <3>2. t <= D
      BY <1>1, <1>2, <1>4
    <3>3. QED
      BY <3>1, <3>2
  <2>2. CASE exact = FALSE
    <3>1. N < a + D /\ a + D <= N + t
      BY <1>5, <2>2 DEF Near
    <3>2. t <= D
      BY <1>1, <1>2, <1>4
    <3>3. QED
      BY <3>1, <3>2
  <2>3. QED
    BY <2>1, <2>2
<1>7. A - (x \div d) \in {0, 1}
  <2>1. NearQuotient(A, d, x, z)
    BY <1>4, <1>6 DEF NearQuotient
  <2>2. QED
    BY <2>1, NearQuotientClose
<1>8. QED
  BY <1>1, <1>2, <1>7, QuotientCleared

(* What is asserted of the operands of an approximation, and the sum before its first digit. *)
ApproximationFits(num, den) ==
  /\ OperandsFit(num, den)
  /\ 3 <= LimbsNeeded(den) /\ LimbsNeeded(den) < LimbsNeeded(num)
  /\ 2 * (KeptLimbs(LimbsNeeded(num), LimbsNeeded(den)) - 1) <= Base

(* A number of m limbs is less than one of n limbs moved up by the difference and one more. *)
LEMMA LimbsApart ==
  ASSUME NEW m \in Nat, NEW n \in Nat, 2 <= n, n < m, NEW x \in Nat, NEW y \in Nat,
         HasLimbs(x, m), HasLimbs(y, n)
  PROVE  x < Power(Base, m - n + 1) * y
<1>1. PICK P \in Nat \ {0}, Q \in Nat \ {0} :
        P = Power(Base, m - n + 1) /\ Q = Power(Base, n - 1) /\ Power(Base, m) = P * Q
  <2>1. PICK i \in Nat, e \in Nat : i = m - n + 1 /\ e = n - 1 /\ i + e = m
    <3>1. m - n + 1 \in Nat /\ n - 1 \in Nat /\ (m - n + 1) + (n - 1) = m
      OBVIOUS
    <3>2. QED
      BY <3>1
  <2>2. Power(Base, i + e) = Power(Base, i) * Power(Base, e)
    BY BaseType, PowerSum
  <2>3. Power(Base, i) \in Nat \ {0} /\ Power(Base, e) \in Nat \ {0}
    BY BasePower
  <2>4. QED
    BY <2>1, <2>2, <2>3
<1>2. x < P * Q /\ Q <= y
  BY <1>1 DEF HasLimbs
<1>3. Q * P <= y * P
  BY <1>2, MulPos
<1>4. Q * P = P * Q /\ y * P = P * y /\ P * Q \in Int /\ P * y \in Int
  OBVIOUS
<1>5. QED
  BY <1>1, <1>2, <1>3, <1>4

(* Before the first digit all of the dividend is left. *)
LEMMA StartNear ==
  ASSUME NEW c, NEW num, NEW den, NEW m, NEW n, NEW z, Starts(c, num, den, TRUE, m, n, z),
         num \in Nat, den \in Nat, HasLimbs(num, m), HasLimbs(den, n), n < m,
         Spent(c) = 0, Slack(c) \in Nat, c.exact = TRUE
  PROVE  NearBefore(c)
<1>1. /\ m \in Nat /\ n \in Nat /\ z \in Nat \ {0} /\ c.j + 1 = m - n + 1 /\ c.j + c.n = m
      /\ c.m = m /\ c.n = n /\ c.num = num /\ 2 <= n /\ z = Power(2, c.shift)
      /\ Part(c.d, 0, n) = den * z /\ IsLimbs(c.u, m + 1) /\ Part(c.u, 0, m + 1) = num * z
      /\ c.top = c.u[m] /\ c.top \in 0 .. Base - 1 /\ IsLimbs(c.quotient, m - n + 2)
  BY DEF Starts
<1>2. Above(c, c.j + 1) = 0
  <2>1. PICK i \in Nat : i = m - n + 1 /\ i <= m - n + 2 /\ m - n + 2 \in Nat
    BY <1>1
  <2>2. Part(c.quotient, i, 0) = 0
    BY <1>1, <2>1, PartSmall
  <2>3. c.m - c.n + 1 - i = 0
    BY <1>1, <2>1
  <2>4. QED
    BY <1>1, <2>1, <2>2, <2>3 DEF Above
<1>3. PICK N \in Nat : N = num * z
  BY <1>1
<1>4. Remaining(c) = N
  <2>1. 0 \in Nat /\ 0 + m + 1 <= m + 1 /\ m + 1 \in Nat /\ 0 + m = m /\ 0 + m <= m + 1
    BY <1>1
  <2>2. Part(c.u, 0, m + 1) = Part(c.u, 0, m) + Power(Base, m) * c.u[0 + m]
    BY <1>1, <2>1, PartEnds
  <2>3. PICK p \in Nat, t \in Nat, x \in Nat :
          p = Power(Base, m) /\ t = c.top /\ x = Part(c.u, 0, m)
    <3>1. Power(Base, m) \in Nat /\ c.top \in Nat
      BY <1>1, BasePower, BaseType
    <3>2. Part(c.u, 0, m) \in 0 .. Power(Base, m) - 1
      BY <1>1, <2>1, PartType
    <3>3. QED
      BY <3>1, <3>2
  <2>4. Remaining(c) = x + t * p
    BY <1>1, <2>3 DEF Remaining
  <2>5. x + p * t = N
    BY <1>1, <1>3, <2>1, <2>2, <2>3
  <2>6. QED
    BY <2>4, <2>5
<1>5. PICK P \in Nat, y \in Nat : /\ P = Power(Base, c.j + 1)
                                  /\ y = Power(Base, c.j + 1) * ShiftedDivisor(c) /\ N < y
  <2>1. PICK i \in Nat, P \in Nat : i = m - n + 1 /\ P = Power(Base, i) /\ c.j + 1 = i
    <3>1. m - n + 1 \in Nat
      BY <1>1
    <3>2. Power(Base, m - n + 1) \in Nat
      BY <3>1, BasePower
    <3>3. QED
      BY <1>1, <3>1, <3>2
  <2>2. num < P * den
    BY <1>1, <2>1, LimbsApart
  <2>3. (num + 1) * z <= (P * den) * z
    BY <1>1, <2>2, MulPos
  <2>4. (num + 1) * z = num * z + z /\ (P * den) * z = P * (den * z) /\ P * (den * z) \in Nat
    BY <1>1
  <2>5. N < P * (den * z)
    BY <1>1, <1>3, <2>3, <2>4
  <2>6. ShiftedDivisor(c) = den * z
    BY <1>1 DEF ShiftedDivisor
  <2>7. QED
    BY <2>1, <2>4, <2>5, <2>6
<1>6. ShiftedDividend(c) = N
  BY <1>1, <1>3 DEF ShiftedDividend
<1>7. PICK S \in Nat, D \in Nat : S = Slack(c) /\ D = ShiftedDivisor(c) /\ y = P * D
  <2>1. den * z \in Nat /\ ShiftedDivisor(c) = den * z
    BY <1>1 DEF ShiftedDivisor
  <2>2. QED
    BY <1>5, <2>1
<1>8. 0 * P * D = 0
  <2>1. D = den * z /\ den * z \in Nat
    BY <1>1, <1>7 DEF ShiftedDivisor
  <2>2. QED
    BY <2>1
<1>9. Near(0, y, N, 0, N, TRUE)
  BY <1>5 DEF Near
<1>10. 0 * S = 0
  OBVIOUS
<1>11. Near(0 * P * D, P * D, N, 0 * S, N, TRUE)
  BY <1>7, <1>8, <1>9, <1>10
<1>12. QED
  BY <1>2, <1>4, <1>5, <1>6, <1>7, <1>11 DEF NearBefore

(* An approximation begins. *)
LEMMA StartApproaches ==
  ASSUME NEW num, NEW den, ApproximationFits(num, den)
  PROVE  Approaching(KnuthStart(num, den, TRUE))
<1> DEFINE c == KnuthStart(num, den, TRUE)
<1>1. c.exact = TRUE
  BY DEF KnuthStart
<1> HIDE DEF c
<1>2. PICK m, n, z : /\ m = LimbsNeeded(num) /\ n = LimbsNeeded(den)
                     /\ Starts(c, num, den, TRUE, m, n, z)
  <2>1. OperandsFit(num, den)
    BY DEF ApproximationFits
  <2>2. QED
    BY <2>1, StartFacts DEF c
<1>3. num \in Nat /\ den \in Nat /\ HasLimbs(num, m) /\ HasLimbs(den, n)
  <2>1. num \in Nat /\ den \in Nat
    BY DEF ApproximationFits, OperandsFit
  <2>2. QED
    BY <1>2, <2>1, LimbsNeededHas
<1>4. /\ m \in Nat /\ n \in Nat /\ 3 <= n /\ n < m /\ c.m = m /\ c.n = n /\ c.j = m - n
      /\ c.kept = KeptLimbs(m, n) /\ 2 * (KeptLimbs(m, n) - 1) <= Base
      /\ c.pc = (IF m - n + 1 < c.kept THEN "tail" ELSE "digit")
      /\ Part(c.d, 0, n) = den * z /\ c.den = den /\ z = Power(2, c.shift)
  BY <1>2 DEF Starts, ApproximationFits
<1>5. \/ c.kept = m - n + 2 /\ m - n + 2 < n
      \/ c.kept = n /\ ~(m - n + 2 < n)
  BY <1>4 DEF KeptLimbs
<1>6. c.pc = "digit" => c.kept = c.n /\ c.kept - 1 <= c.j
  <2>1. ASSUME c.pc = "digit" PROVE c.kept = n /\ c.kept - 1 <= m - n
    <3>1. ~(m - n + 1 < c.kept)
      BY <1>4, <2>1
    <3>2. QED
      BY <1>4, <1>5, <3>1
  <2>2. QED
    BY <1>4, <2>1
<1>7. c.pc = "tail" => c.kept - 2 = c.j
  <2>1. ASSUME c.pc = "tail" PROVE c.kept - 2 = m - n
    <3>1. m - n + 1 < c.kept
      BY <1>4, <2>1
    <3>2. QED
      BY <1>4, <1>5, <3>1
  <2>2. QED
    BY <1>4, <2>1
<1>8. c.pc \in {"digit", "tail"} /\ c.pc # "finish"
  BY <1>4
<1>9. c.j \in Nat /\ 1 <= c.j /\ c.kept \in Nat
  BY <1>4, <1>5
<1>10. Spent(c) = 0
  <2>1. CASE c.pc = "digit"
    BY <2>1 DEF Spent
  <2>2. CASE c.pc = "tail"
    <3>1. c.kept - 2 - c.j = 0
      BY <1>7, <1>9, <2>2
    <3>2. QED
      BY <2>2, <3>1 DEF Spent
  <2>3. QED
    BY <1>8, <2>1, <2>2
<1>11. Slack(c) \in Nat
  <2>1. n - 2 \in Nat
    BY <1>4
  <2>2. Power(Base, n - 2) \in Nat /\ Base \in Nat
    BY <2>1, BasePower, BaseType
  <2>3. QED
    BY <1>4, <2>2 DEF Slack
<1>12. NearBefore(c)
  <2>1. n < m
    BY <1>4
  <2>2. QED
    BY <1>1, <1>2, <1>3, <1>10, <1>11, <2>1, StartNear
<1>13. c.pc \in {"tail", "last"} => c.j <= c.kept - 2
  BY <1>7, <1>8, <1>9
<1>14. ShiftedDivisor(c) = c.den * Power(2, c.shift) /\ 2 * (c.kept - 1) <= Base
  BY <1>4 DEF ShiftedDivisor
<1>15. Approaching(c)
  BY <1>1, <1>6, <1>8, <1>9, <1>12, <1>13, <1>14 DEF Approaching
<1>16. QED
  BY <1>15 DEF c

(* Every approximation stays near, and is close at its end. *)
ApproximationNear(k) ==
  k.pc # "idle" /\ k.approx = TRUE =>
    IF k.pc = "done" THEN k.quotient - (k.num \div k.den) \in {0, 1} ELSE Approaching(k)

(* A call begins. *)
LEMMA EnterNear ==
  ASSUME KnuthEnter
  PROVE  ApproximationNear(knuth')
<1>1. CASE \E p \in KnuthOperands : knuth' = KnuthStart(p[1], p[2], FALSE)
  <2>1. knuth'.approx = FALSE
    BY <1>1 DEF KnuthStart
  <2>2. QED
    BY <2>1 DEF ApproximationNear
<1>2. CASE \E p \in KnuthApprox : knuth' = KnuthStart(p[1], p[2], TRUE)
  <2>1. PICK p \in KnuthApprox : knuth' = KnuthStart(p[1], p[2], TRUE)
    BY <1>2
  <2>2. ApproximationFits(p[1], p[2])
    <3>1. LimbsNeeded(p[1]) \in Nat /\ LimbsNeeded(p[2]) \in Nat
      <4>1. p[1] \in Nat /\ p[2] \in Nat
        BY KnuthAssumption
      <4>2. QED
        BY <4>1, LimbsNeededHas DEF HasLimbs
    <3>2. /\ p[1] \in Nat /\ p[2] \in Nat /\ 3 <= LimbsNeeded(p[2])
          /\ LimbsNeeded(p[2]) < LimbsNeeded(p[1])
          /\ 2 * (KeptLimbs(LimbsNeeded(p[1]), LimbsNeeded(p[2])) - 1) <= Base
      BY KnuthAssumption
    <3>3. OperandsFit(p[1], p[2])
      BY <3>1, <3>2 DEF OperandsFit
    <3>4. QED
      BY <3>2, <3>3 DEF ApproximationFits
  <2>3. Approaching(knuth') /\ knuth'.pc # "done"
    <3>1. Approaching(KnuthStart(p[1], p[2], TRUE))
      BY <2>2, StartApproaches
    <3>2. KnuthStart(p[1], p[2], TRUE).pc # "done"
      BY DEF KnuthStart
    <3>3. QED
      BY <2>1, <3>1, <3>2
  <2>4. QED
    BY <2>3 DEF ApproximationNear
<1>3. QED
  BY <1>1, <1>2 DEF KnuthEnter

(* The phases of a call that runs on. *)
LEMMA StillRunning ==
  ASSUME Approaching(knuth'), Running(knuth')
  PROVE  ApproximationNear(knuth')
<1>1. knuth'.pc # "done"
  BY DEF Running, CallFits, KnuthCalls
<1>2. QED
  BY <1>1 DEF ApproximationNear

(* Each step of a call. *)
LEMMA StepNear ==
  ASSUME KnuthHolds(knuth), ApproximationNear(knuth), KnuthStep
  PROVE  ApproximationNear(knuth')
<1>1. ASSUME knuth.pc # "idle", knuth.pc # "done" PROVE Running(knuth) /\ CallFits(knuth)
  <2>1. KnuthIdle.pc = "idle"
    BY DEF KnuthIdle
  <2>2. QED
    BY <1>1, <2>1 DEF KnuthHolds, Answered, Running
<1>2. CASE KnuthReturn
  <2>1. knuth'.pc = "idle"
    BY <1>2 DEF KnuthReturn, KnuthIdle
  <2>2. QED
    BY <2>1 DEF ApproximationNear
<1>3. CASE KnuthFinish
  <2>1. Running(knuth) /\ CallFits(knuth) /\ knuth.pc = "finish"
    BY <1>1, <1>3 DEF KnuthFinish
  <2>2. knuth'.pc = "done" /\ knuth'.approx = knuth.approx
        /\ knuth'.num = knuth.num /\ knuth'.den = knuth.den
        /\ knuth'.quotient = Part([knuth.quotient EXCEPT ![knuth.m - knuth.n + 1] = 0],
                                  0, knuth.m - knuth.n + 2)
    BY <1>3 DEF KnuthFinish
  <2>3. ASSUME knuth.approx = TRUE
        PROVE  knuth'.quotient - (knuth'.num \div knuth'.den) \in {0, 1}
    <3>1. Approaching(knuth)
      BY <2>1, <2>3 DEF ApproximationNear
    <3>2. QED
      BY <2>1, <2>2, <3>1, FinishedClose
  <2>4. QED
    BY <2>2, <2>3 DEF ApproximationNear
<1>4. CASE KnuthLargestDigit \/ KnuthDigit \/ KnuthTailDigit \/ KnuthTailLargest \/ KnuthLastDigit
  <2>1. Running(knuth) /\ CallFits(knuth) /\ knuth.pc \in {"digit", "tail", "last"}
    <3>1. knuth.pc \in {"digit", "tail", "last"}
      BY <1>4 DEF KnuthLargestDigit, KnuthDigit, KnuthTailDigit, KnuthTailLargest, KnuthLastDigit
    <3>2. QED
      BY <1>1, <3>1
  <2>2. Running(knuth') /\ knuth'.approx = knuth.approx
    <3>1. Running(knuth')
      BY <1>4, <2>1, LargestDigitHolds, DigitHolds, TailDigitHolds, TailLargestHolds,
         LastDigitHolds
    <3>2. knuth'.approx = knuth.approx
      <4>1. \A q, u, top, c : /\ Stepped(knuth, q, u, top, c).approx = knuth.approx
                              /\ "approx" \in DOMAIN Stepped(knuth, q, u, top, c)
        BY <2>1 DEF CallFits, KnuthCalls, Stepped
      <4>2. CASE KnuthLargestDigit
        BY <4>1, <4>2 DEF KnuthLargestDigit, WithSaturated
      <4>3. CASE KnuthDigit
        BY <4>1, <4>3 DEF KnuthDigit, WithEstimate
      <4>4. CASE KnuthTailDigit
        BY <4>1, <4>4 DEF KnuthTailDigit, WithEstimate
      <4>5. CASE KnuthTailLargest
        <5> DEFINE s == Saturated(knuth)
                   P == Power(Base, Low(knuth) + 2)
                   back == s.rest + Part(knuth.d, knuth.n - (Low(knuth) + 2), Low(knuth) + 2)
        <5>1. CASE knuth.top # s.cy /\ knuth.exact /\ knuth.top < s.cy
          <6>1. knuth' = WithSaturated(knuth, Base - 2, back % P, back >= P)
            BY <4>5, <5>1 DEF KnuthTailLargest
          <6>2. QED
            BY <4>1, <6>1 DEF WithSaturated
        <5>2. CASE ~(knuth.top # s.cy /\ knuth.exact /\ knuth.top < s.cy)
          <6> DEFINE c == WithSaturated(knuth, Base - 1, s.rest, TRUE)
          <6>1. knuth' = [c EXCEPT !.exact = c.exact /\ knuth.top = s.cy]
            BY <4>5, <5>2 DEF KnuthTailLargest
          <6> DEFINE u == Patched(knuth.u, WindowBase(knuth), Low(knuth) + 2, s.rest)
          <6>2. c = Stepped(knuth, Base - 1, u, u[knuth.j + knuth.n - 1], TRUE)
            BY DEF WithSaturated
          <6> HIDE DEF c, u
          <6>3. c.approx = knuth.approx /\ "approx" \in DOMAIN c
            BY <4>1, <6>2
          <6>4. \A x : [c EXCEPT !.exact = x].approx = c.approx
            BY <6>3
          <6>5. QED
            BY <6>1, <6>3, <6>4
        <5>3. QED
          BY <5>1, <5>2
      <4>6. CASE KnuthLastDigit
        BY <4>1, <4>6 DEF KnuthLastDigit
      <4>7. QED
        BY <1>4, <4>2, <4>3, <4>4, <4>5, <4>6
    <3>3. QED
      BY <3>1, <3>2
  <2>3. CASE knuth.approx = TRUE
    <3>1. Approaching(knuth)
      BY <2>1, <2>3 DEF ApproximationNear
    <3>2. CASE KnuthLastDigit
      BY <2>1, <2>2, <2>3, <3>1, <3>2, LastDigitApproaches, StillRunning
    <3>3. CASE ~KnuthLastDigit
      <4>1. knuth.pc \in {"digit", "tail"}
        BY <1>4, <3>3 DEF KnuthLargestDigit, KnuthDigit, KnuthTailDigit, KnuthTailLargest
      <4>2. Approximating(knuth)
        BY <2>1, <2>3, <3>1, <4>1 DEF Approximating
      <4>3. Approaching(knuth')
        BY <1>4, <2>1, <3>3, <4>2, LargestDigitApproaches, DigitApproaches, TailDigitApproaches,
           TailLargestApproaches
      <4>4. QED
        BY <2>2, <4>3, StillRunning
    <3>4. QED
      BY <3>2, <3>3
  <2>4. CASE knuth.approx # TRUE
    BY <2>2, <2>4 DEF ApproximationNear
  <2>5. QED
    BY <2>3, <2>4
<1>5. QED
  BY <1>2, <1>3, <1>4 DEF KnuthStep

(* divide_unsigned_approx is never below the quotient and at most one above it, for all operands
   and every width of a limb, as long as the digits that drop divisor limbs are at most half the
   base: every digit is exact or the largest, and what the dropped limbs would have taken in all
   of the digits together is less than the divisor. *)
THEOREM ApproximationIsClose == Spec => []ApproximateDigits
<1>1. Init => ApproximationNear(knuth)
  <2>1. KnuthIdle.pc = "idle"
    BY DEF KnuthIdle
  <2>2. QED
    BY <2>1 DEF Init, KnuthInit, ApproximationNear
<1>2. KnuthHolds(knuth) /\ ApproximationNear(knuth) /\ [Next]_vars => ApproximationNear(knuth)'
  <2> SUFFICES ASSUME KnuthHolds(knuth), ApproximationNear(knuth), [Next]_vars
               PROVE  ApproximationNear(knuth')
    OBVIOUS
  <2>1. CASE KnuthEnter
    BY <2>1, EnterNear
  <2>2. CASE KnuthStep
    BY <2>2, StepNear
  <2>3. CASE knuth' = knuth
    BY <2>3
  <2>4. KnuthEnter \/ KnuthStep \/ knuth' = knuth
    BY DEF Next, vars, Enter, KnuthRuns, BzRunsOn, BarRuns, DwRuns
  <2>5. QED
    BY <2>1, <2>2, <2>3, <2>4
<1>3. ApproximationNear(knuth) => ApproximateDigits
  BY DEF ApproximationNear, ApproximateDigits
<1>4. QED
  BY <1>1, <1>2, <1>3, SchoolbookStates, PTL DEF Spec

=============================================================================
