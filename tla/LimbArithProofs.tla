--------------------------- MODULE LimbArithProofs ---------------------------
(***************************************************************************)
(* What the operators of LimbArith compute: proofs for every limb width.   *)
(* First the facts about natural numbers that they rest on: induction over *)
(* sets of numbers, functions defined by recursion, division with          *)
(* remainder.                                                              *)
(*                                                                         *)
(* The induction theorems of the library take a predicate.  Here a         *)
(* predicate is the set of the numbers that satisfy it, so that every fact *)
(* is first-order.                                                         *)
(***************************************************************************)

EXTENDS LimbArith, NaturalsInduction, WellFoundedInduction, TLAPS

(***************************************************************************)
(* Induction and recursion.                                                *)
(***************************************************************************)

(* The order of the naturals is well-founded. *)
LEMMA LessWF == IsWellFoundedOn({p \in Nat \X Nat : p[1] < p[2]}, Nat)
<1>1. OpToRel(<, Nat) = {p \in Nat \X Nat : p[1] < p[2]}
  BY DEF OpToRel
<1> QED
  BY <1>1, NatLessThanWellFounded

(* A set of naturals that is not empty has a smallest element. *)
LEMMA Smallest ==
  ASSUME NEW S \in SUBSET Nat, S # {}
  PROVE  \E m \in S : \A n \in S : m <= n
<1>1. PICK m \in S : \A n \in Nat : <<n, m>> \in {p \in Nat \X Nat : p[1] < p[2]} => n \notin S
  BY LessWF, WFMin, Zenon
<1>2. \A n \in S : m <= n
  <2> TAKE n \in S
  <2>1. n \in Nat /\ m \in Nat
    OBVIOUS
  <2>2. ~(n < m)
    BY <1>1, <2>1
  <2> QED
    BY <2>1, <2>2
<1> QED
  BY <1>2

(* A set that holds 0, and with each number its successor, holds all of them. *)
LEMMA Induction ==
  ASSUME NEW S \in SUBSET Nat, 0 \in S, \A n \in S : n + 1 \in S
  PROVE  S = Nat
<1> SUFFICES ASSUME Nat \ S # {} PROVE FALSE
  OBVIOUS
<1>1. PICK m \in Nat \ S : \A n \in Nat \ S : m <= n
  BY Smallest
<1>2. m - 1 \in Nat /\ m - 1 \notin Nat \ S
  BY <1>1
<1>3. QED
  BY <1>2

(* step computes the values 1 .. n of a function into X from the previous ones *)
IsStep(step, n, X) == step \in [(0 .. n - 1) \X X -> X]

(* f is the function that starts with c and whose values follow each other by step *)
Runs(f, n, X, c, step) ==
  f \in [0 .. n -> X] /\ f[0] = c /\ \A k \in 0 .. n - 1 : f[k + 1] = step[<<k, f[k]>>]

(* A start and a step define the values of a function up to n. *)
LEMMA RecursionExists ==
  ASSUME NEW n \in Nat, NEW X, NEW c \in X, NEW step, IsStep(step, n, X)
  PROVE  \E f : Runs(f, n, X, c, step)
<1> USE DEF IsStep
<1> DEFINE Starts(f, m) == f[0] = c /\ \A k \in 0 .. m - 1 : f[k + 1] = step[<<k, f[k]>>]
           S == {m \in Nat : m <= n => \E f \in [0 .. m -> X] : Starts(f, m)}
<1>1. 0 \in S
  <2>1. Starts([k \in 0 .. 0 |-> c], 0) /\ [k \in 0 .. 0 |-> c] \in [0 .. 0 -> X]
    OBVIOUS
  <2>2. QED
    BY <2>1
<1>2. ASSUME NEW m \in S PROVE m + 1 \in S
  <2> SUFFICES ASSUME m + 1 <= n PROVE \E f \in [0 .. m + 1 -> X] : Starts(f, m + 1)
    OBVIOUS
  <2>1. PICK f \in [0 .. m -> X] : Starts(f, m)
    BY <1>2
  <2> DEFINE g == [k \in 0 .. m + 1 |-> IF k = m + 1 THEN step[<<m, f[m]>>] ELSE f[k]]
  <2>2. f[m] \in X /\ m \in 0 .. n - 1
    OBVIOUS
  <2>3. step[<<m, f[m]>>] \in X
    BY <2>2
  <2>4. g \in [0 .. m + 1 -> X]
    BY <2>3
  <2>5. g[m + 1] = step[<<m, f[m]>>] /\ \A k \in 0 .. m : g[k] = f[k]
    OBVIOUS
  <2> HIDE DEF g
  <2>6. ASSUME NEW k \in 0 .. m PROVE g[k + 1] = step[<<k, g[k]>>]
    <3>1. CASE k = m
      BY <2>5, <3>1
    <3>2. CASE k < m
      <4>1. k \in 0 .. m - 1 /\ g[k] = f[k] /\ g[k + 1] = f[k + 1]
        BY <2>5, <3>2
      <4>2. QED
        BY <2>1, <4>1
    <3>3. QED
      BY <3>1, <3>2
  <2>7. 0 .. (m + 1) - 1 = 0 .. m /\ 0 \in 0 .. m
    OBVIOUS
  <2>8. Starts(g, m + 1)
    BY <2>1, <2>5, <2>6, <2>7
  <2>9. QED
    BY <2>4, <2>8
<1> HIDE DEF S
<1>3. n \in S
  BY <1>1, <1>2, Induction DEF S
<1>4. QED
  BY <1>3 DEF S, Runs

(* Functions that start alike and stay alike from each number to the next agree. *)
LEMMA RecursionUnique ==
  ASSUME NEW n \in Nat, NEW f, NEW g, f[0] = g[0],
         \A k \in 0 .. n - 1 : f[k] = g[k] => f[k + 1] = g[k + 1]
  PROVE  \A k \in 0 .. n : f[k] = g[k]
<1> DEFINE S == {k \in Nat : k <= n => f[k] = g[k]}
<1>1. 0 \in S
  OBVIOUS
<1>2. ASSUME NEW k \in S PROVE k + 1 \in S
  <2> SUFFICES ASSUME k + 1 <= n PROVE f[k + 1] = g[k + 1]
    OBVIOUS
  <2>1. k \in 0 .. n - 1 /\ f[k] = g[k]
    BY <1>2
  <2>2. QED
    BY <2>1
<1> HIDE DEF S
<1>3. S = Nat
  BY <1>1, <1>2, Induction DEF S
<1>4. QED
  BY <1>3 DEF S

(***************************************************************************)
(* Products and quotients.                                                 *)
(***************************************************************************)

(* Multiplying by a natural number keeps the order. *)
LEMMA MulPos ==
  ASSUME NEW a \in Int, NEW b \in Int, NEW c \in Nat, a <= b
  PROVE  a * c <= b * c
  OBVIOUS

(* The quotient rounds down, the remainder is a digit. *)
LEMMA DivMod ==
  ASSUME NEW x \in Int, NEW b \in Nat \ {0}
  PROVE  x \div b \in Int /\ x % b \in 0 .. b - 1 /\ x = b * (x \div b) + (x % b)
  OBVIOUS
(* There is one such quotient and remainder. *)
LEMMA DivUnique ==
  ASSUME NEW x \in Int, NEW b \in Nat \ {0}, NEW q \in Int, NEW r \in 0 .. b - 1, x = b * q + r
  PROVE  x \div b = q /\ x % b = r
<1> DEFINE p == x \div b
<1>1. p \in Int /\ x % b \in 0 .. b - 1 /\ x = b * p + (x % b)
  BY DivMod
<1> HIDE DEF p
<1>2. ~(p >= q + 1)
  <2> SUFFICES ASSUME p >= q + 1 PROVE FALSE
    OBVIOUS
  <2>1. (q + 1) * b <= p * b
    BY <1>1, MulPos
  <2>2. (q + 1) * b = b * q + b /\ p * b = b * p
    BY <1>1
  <2>3. QED
    BY <1>1, <2>1, <2>2
<1>3. ~(q >= p + 1)
  <2> SUFFICES ASSUME q >= p + 1 PROVE FALSE
    OBVIOUS
  <2>1. (p + 1) * b <= q * b
    BY <1>1, MulPos
  <2>2. (p + 1) * b = b * p + b /\ q * b = b * q
    BY <1>1
  <2>3. QED
    BY <1>1, <2>1, <2>2
<1>4. p = q
  BY <1>1, <1>2, <1>3
<1>5. QED
  BY <1>1, <1>4 DEF p

(* q and r are the quotient and the remainder of x by b. *)
Decomposed(x, b, q, r) ==
  x \in Int /\ b \in Nat \ {0} /\ q \in Int /\ r \in 0 .. b - 1 /\ x = b * q + r

LEMMA DivIs ==
  ASSUME NEW x, NEW b, NEW q, NEW r, Decomposed(x, b, q, r)
  PROVE  x \div b = q /\ x % b = r
<1>1. x \in Int /\ b \in Nat \ {0} /\ q \in Int /\ r \in 0 .. b - 1 /\ x = b * q + r
  BY DEF Decomposed
<1>2. QED
  BY <1>1, DivUnique

(* Dividing by a product is dividing twice. *)
LEMMA ModTwoSteps ==
  ASSUME NEW x \in Int, NEW b \in Nat \ {0}, NEW c \in Nat \ {0}
  PROVE  /\ b * c \in Nat \ {0}
         /\ x \div (b * c) = (x \div b) \div c
         /\ x % (b * c) = (x % b) + b * ((x \div b) % c)
<1> DEFINE y == x \div b
<1>1. y \in Int /\ x % b \in 0 .. b - 1 /\ x = b * y + (x % b)
  BY DivMod
<1>2. y \div c \in Int /\ y % c \in 0 .. c - 1 /\ y = c * (y \div c) + (y % c)
  BY <1>1, DivMod
<1>3. PICK z \in Int, r \in 0 .. b - 1, t \in 0 .. c - 1 : z = y \div c /\ r = x % b /\ t = y % c
  BY <1>1, <1>2
<1> HIDE DEF y
<1>4. b * c \in Nat \ {0}
  OBVIOUS
<1>5. x = (b * c) * z + (r + b * t)
  BY <1>1, <1>2, <1>3
<1>6. b * t \in Nat /\ t * b <= (c - 1) * b
  BY MulPos
<1>7. r + b * t \in 0 .. b * c - 1
  BY <1>6
<1>8. x \div (b * c) = z /\ x % (b * c) = r + b * t
  BY <1>4, <1>5, <1>7, DivUnique
<1>9. QED
  BY <1>3, <1>4, <1>8 DEF y

(* A quotient is below a bound exactly when the number is below the bound times the divisor. *)
LEMMA DivBelow ==
  ASSUME NEW x \in Int, NEW b \in Nat \ {0}, NEW c \in Int
  PROVE  (x \div b < c <=> x < b * c) /\ (c <= x \div b <=> b * c <= x)
<1>1. PICK y \in Int, r \in 0 .. b - 1 : y = x \div b /\ x = b * y + r
  BY DivMod
<1>2. CASE y < c
  <2>1. (y + 1) * b <= c * b
    BY <1>2, MulPos
  <2>2. (y + 1) * b = b * y + b /\ c * b = b * c
    OBVIOUS
  <2>3. x < b * c
    BY <1>1, <2>1, <2>2
  <2>4. QED
    BY <1>1, <1>2, <2>3
<1>3. CASE c <= y
  <2>1. c * b <= y * b
    BY <1>3, MulPos
  <2>2. c * b = b * c /\ y * b = b * y
    OBVIOUS
  <2>3. b * c <= x
    BY <1>1, <2>1, <2>2
  <2>4. QED
    BY <1>1, <1>3, <2>3
<1>4. QED
  BY <1>2, <1>3
(* The quotient of a natural number is one, no larger than the number, *)
LEMMA DivNat ==
  ASSUME NEW x \in Nat, NEW b \in Nat \ {0}
  PROVE  x \div b \in Nat /\ x \div b <= x
<1>1. x \div b \in Int /\ 0 <= x \div b
  BY DivMod, DivBelow
<1>2. PICK y \in Nat : y = x \div b
  BY <1>1
<1>3. b * y <= x
  BY <1>2, DivBelow
<1>4. 1 * y <= b * y
  BY MulPos
<1>5. QED
  BY <1>2, <1>3, <1>4
(* and smaller if the divisor is at least 2. *)
LEMMA DivLess ==
  ASSUME NEW x \in Nat, NEW b \in Nat, b >= 2, x > 0
  PROVE  x \div b < x
<1>1. 2 * x <= b * x
  BY MulPos
<1>2. x < b * x
  BY <1>1
<1>3. QED
  BY <1>2, DivBelow
(* A number below the divisor is its own remainder. *)
LEMMA DivSmall ==
  ASSUME NEW b \in Nat \ {0}, NEW x \in 0 .. b - 1
  PROVE  x \div b = 0 /\ x % b = x
  BY DivUnique
(* A multiple of the divisor adds to the quotient only. *)
LEMMA DivMultiple ==
  ASSUME NEW b \in Nat \ {0}, NEW c \in Int, NEW x \in Int
  PROVE  (b * c + x) \div b = c + (x \div b) /\ (b * c + x) % b = x % b
<1>1. PICK y \in Int, r \in 0 .. b - 1 : y = x \div b /\ r = x % b /\ x = b * y + r
  BY DivMod
<1>2. b * c + x = b * (c + y) + r
  BY <1>1
<1>3. b * c + x \in Int /\ c + y \in Int
  OBVIOUS
<1>4. QED
  BY <1>1, <1>2, <1>3, DivUnique

(***************************************************************************)
(* Powers.                                                                 *)
(***************************************************************************)

(* Power is the function its recursion describes. *)
LEMMA PowerFunction ==
  ASSUME NEW b \in Nat, NEW n \in Nat
  PROVE  \E p \in [0 .. n -> Nat] : /\ p[0] = 1 /\ \A k \in 0 .. n - 1 : p[k + 1] = b * p[k]
                                    /\ Power(b, n) = p[n]
<1>1. PICK step : /\ IsStep(step, n, Nat)
                  /\ \A k \in 0 .. n - 1, x \in Nat : step[<<k, x>>] = b * x
  <2>1. IsStep([x \in (0 .. n - 1) \X Nat |-> b * x[2]], n, Nat)
    BY DEF IsStep
  <2>2. QED
    BY <2>1
<1>2. PICK one \in Nat : one = 1
  OBVIOUS
<1>3. PICK f : Runs(f, n, Nat, one, step)
  BY <1>1, RecursionExists
<1>4. /\ f \in [0 .. n -> Nat] /\ f[0] = 1
      /\ \A k \in 0 .. n - 1 : f[k + 1] = b * f[k]
  <2>1. f \in [0 .. n -> Nat] /\ f[0] = 1
    BY <1>2, <1>3 DEF Runs
  <2>2. ASSUME NEW k \in 0 .. n - 1 PROVE f[k + 1] = b * f[k]
    <3>1. f[k] \in Nat /\ f[k + 1] = step[<<k, f[k]>>]
      BY <1>3, <2>1 DEF Runs
    <3>2. QED
      BY <1>1, <3>1
  <2>3. QED
    BY <2>1, <2>2
<1> DEFINE Is(p) == p = [k \in 0 .. n |-> IF k = 0 THEN 1 ELSE b * p[k - 1]]
           q == CHOOSE p : Is(p)
<1>5. Is(f)
  <2>1. ASSUME NEW k \in 0 .. n, k # 0 PROVE f[k] = b * f[k - 1]
    <3>1. k - 1 \in 0 .. n - 1 /\ (k - 1) + 1 = k
      BY <2>1
    <3>2. QED
      BY <1>4, <3>1
  <2>2. QED
    BY <1>4, <2>1
<1>6. Is(q) /\ Power(b, n) = q[n]
  BY <1>5 DEF Power
<1> HIDE DEF q
<1>7. q[0] = 1 /\ \A k \in 0 .. n - 1 : q[k + 1] = b * q[k]
  BY <1>6
<1>8. q[0] = f[0] /\ \A k \in 0 .. n - 1 : q[k] = f[k] => q[k + 1] = f[k + 1]
  BY <1>4, <1>7
<1>9. \A k \in 0 .. n : q[k] = f[k]
  BY <1>8, RecursionUnique
<1>10. q \in [0 .. n -> Nat]
  BY <1>4, <1>6, <1>9
<1>11. QED
  BY <1>6, <1>7, <1>10

(* The recursion of a power, which later proofs use instead of its definition. *)
LEMMA PowerStep ==
  ASSUME NEW b \in Nat, NEW n \in Nat
  PROVE  /\ Power(b, n) \in Nat
         /\ Power(b, 0) = 1
         /\ Power(b, n + 1) = b * Power(b, n)
<1>1. PICK p \in [0 .. n -> Nat] : /\ p[0] = 1 /\ \A k \in 0 .. n - 1 : p[k + 1] = b * p[k]
                                  /\ Power(b, n) = p[n]
  BY PowerFunction
<1>2. PICK q \in [0 .. n + 1 -> Nat] :
        /\ q[0] = 1 /\ \A k \in 0 .. (n + 1) - 1 : q[k + 1] = b * q[k]
        /\ Power(b, n + 1) = q[n + 1]
  <2>1. n + 1 \in Nat
    OBVIOUS
  <2>2. QED
    BY <2>1, PowerFunction
<1>3. PICK o \in [0 .. 0 -> Nat] : o[0] = 1 /\ Power(b, 0) = o[0]
  BY PowerFunction
<1>4. q[0] = p[0] /\ \A k \in 0 .. n - 1 : q[k] = p[k] => q[k + 1] = p[k + 1]
  <2>1. ASSUME NEW k \in 0 .. n - 1, q[k] = p[k] PROVE q[k + 1] = p[k + 1]
    <3>1. k \in 0 .. (n + 1) - 1
      OBVIOUS
    <3>2. QED
      BY <1>1, <1>2, <2>1, <3>1
  <2>2. QED
    BY <1>1, <1>2, <2>1
<1>5. q[n] = p[n]
  <2>1. \A k \in 0 .. n : q[k] = p[k]
    BY <1>4, RecursionUnique, ZenonT(60)
  <2>2. QED
    BY <2>1
<1>6. Power(b, n + 1) = b * q[n]
  BY <1>2
<1>7. p[n] \in Nat
  OBVIOUS
<1>8. QED
  BY <1>1, <1>3, <1>5, <1>6, <1>7

(* A power of a positive number is positive. *)
LEMMA PowerPositive ==
  ASSUME NEW b \in Nat \ {0}, NEW n \in Nat
  PROVE  Power(b, n) \in Nat \ {0}
<1> DEFINE S == {k \in Nat : Power(b, k) # 0}
<1>1. 0 \in S
  BY PowerStep
<1>2. ASSUME NEW k \in S PROVE k + 1 \in S
  <2>1. Power(b, k) \in Nat \ {0} /\ Power(b, k + 1) = b * Power(b, k)
    BY PowerStep
  <2>2. PICK p \in Nat \ {0} : p = Power(b, k)
    BY <2>1
  <2>3. b * p # 0
    OBVIOUS
  <2>4. QED
    BY <2>1, <2>2, <2>3
<1> HIDE DEF S
<1>3. n \in S
  BY <1>1, <1>2, Induction DEF S
<1>4. QED
  BY <1>3, PowerStep DEF S

(* Powers multiply as their exponents add. *)
LEMMA PowerSum ==
  ASSUME NEW b \in Nat, NEW m \in Nat, NEW n \in Nat
  PROVE  Power(b, m + n) = Power(b, m) * Power(b, n)
<1> DEFINE S == {k \in Nat : Power(b, m + k) = Power(b, m) * Power(b, k)}
<1>1. 0 \in S
  BY PowerStep
<1>2. ASSUME NEW k \in S PROVE k + 1 \in S
  <2>1. /\ Power(b, (m + k) + 1) = b * Power(b, m + k)
        /\ Power(b, k + 1) = b * Power(b, k)
        /\ m + k \in Nat /\ Power(b, m + k) = Power(b, m) * Power(b, k)
    BY PowerStep
  <2>2. PICK p \in Nat, q \in Nat : p = Power(b, m) /\ q = Power(b, k)
    BY PowerStep
  <2>3. b * (p * q) = p * (b * q)
    OBVIOUS
  <2>4. m + (k + 1) = (m + k) + 1
    OBVIOUS
  <2>5. QED
    BY <2>1, <2>2, <2>3, <2>4
<1> HIDE DEF S
<1>3. n \in S
  BY <1>1, <1>2, Induction DEF S
<1>4. QED
  BY <1>3 DEF S

(* A larger exponent makes a power no smaller. *)
LEMMA PowerGrows ==
  ASSUME NEW b \in Nat \ {0}, NEW m \in Nat, NEW n \in Nat, m <= n
  PROVE  Power(b, m) <= Power(b, n)
<1>1. n - m \in Nat /\ m + (n - m) = n
  OBVIOUS
<1>2. Power(b, n) = Power(b, m) * Power(b, n - m)
  BY <1>1, PowerSum
<1>3. PICK p \in Nat, q \in Nat \ {0} : p = Power(b, m) /\ q = Power(b, n - m)
  BY <1>1, PowerPositive
<1>4. 1 * p <= q * p /\ q * p = p * q
  BY MulPos
<1>5. QED
  BY <1>2, <1>3, <1>4

(* The first powers. *)
LEMMA PowerOne ==
  ASSUME NEW b \in Nat
  PROVE  Power(b, 0) = 1 /\ Power(b, 1) = b
<1>1. Power(b, 0 + 1) = b * Power(b, 0) /\ Power(b, 0) = 1
  BY PowerStep
<1>2. b * 1 = b
  OBVIOUS
<1>3. QED
  BY <1>1, <1>2

(* Powers of a power. *)
LEMMA PowerPower ==
  ASSUME NEW b \in Nat, NEW m \in Nat, NEW n \in Nat
  PROVE  Power(Power(b, m), n) = Power(b, m * n)
<1> DEFINE S == {k \in Nat : Power(Power(b, m), k) = Power(b, m * k)}
<1>1. 0 \in S
  <2>1. m * 0 = 0
    OBVIOUS
  <2>2. QED
    BY <2>1, PowerStep
<1>2. ASSUME NEW k \in S PROVE k + 1 \in S
  <2>1. m * (k + 1) = m + m * k /\ m * k \in Nat
    OBVIOUS
  <2>2. Power(b, m + m * k) = Power(b, m) * Power(b, m * k)
    BY <2>1, PowerSum
  <2>3. Power(Power(b, m), k + 1) = Power(b, m) * Power(Power(b, m), k)
    BY PowerStep
  <2>4. QED
    BY <2>1, <2>2, <2>3
<1> HIDE DEF S
<1>3. n \in S
  BY <1>1, <1>2, Induction DEF S
<1>4. QED
  BY <1>3 DEF S

(* The powers of two are what their recursion describes. *)
LEMMA TwoToPower == ASSUME NEW n \in Nat PROVE TwoTo[n] = Power(2, n)
<1> DEFINE Is(f) == f = [k \in Nat |-> IF k = 0 THEN 1 ELSE 2 * f[k - 1]]
           powers == [k \in Nat |-> Power(2, k)]
<1>1. ASSUME NEW k \in Nat PROVE powers[k] = IF k = 0 THEN 1 ELSE 2 * powers[k - 1]
  <2>1. CASE k = 0
    BY <2>1, PowerStep
  <2>2. CASE k # 0
    <3>1. k - 1 \in Nat /\ (k - 1) + 1 = k
      BY <2>2
    <3>2. Power(2, (k - 1) + 1) = 2 * Power(2, k - 1)
      BY <3>1, PowerStep
    <3>3. QED
      BY <2>2, <3>1, <3>2
  <2>3. QED
    BY <2>1, <2>2
<1>2. Is(powers)
  BY <1>1
<1>3. Is(TwoTo)
  <2>1. TwoTo = CHOOSE f : Is(f)
    BY DEF TwoTo
  <2>2. QED
    BY <1>2, <2>1, Zenon
<1>4. TwoTo[0] = 1 /\ \A k \in Nat : TwoTo[k + 1] = 2 * TwoTo[k]
  BY <1>3
<1> DEFINE S == {k \in Nat : TwoTo[k] = Power(2, k)}
<1>5. 0 \in S
  BY <1>4, PowerStep
<1>6. ASSUME NEW k \in S PROVE k + 1 \in S
  <2>1. k \in Nat /\ TwoTo[k] = Power(2, k)
    BY <1>6
  <2>2. Power(2, k + 1) = 2 * Power(2, k)
    BY <2>1, PowerStep
  <2>3. TwoTo[k + 1] = 2 * TwoTo[k]
    BY <1>4, <2>1
  <2>4. QED
    BY <2>1, <2>2, <2>3
<1> HIDE DEF S
<1>7. n \in S
  BY <1>5, <1>6, Induction DEF S
<1>8. QED
  BY <1>7 DEF S

(* The base of the limbs. *)
LEMMA BaseIsPower == Base = Power(2, LimbBits)
  BY LimbAssumption, TwoToPower DEF Base

(* A limb has at least one bit. *)
LEMMA BaseType == Base \in Nat /\ Base >= 2
<1>1. LimbBits \in Nat /\ 1 <= LimbBits
  BY LimbAssumption
<1>2. Power(2, 1) <= Power(2, LimbBits)
  BY <1>1, PowerGrows
<1>3. Power(2, LimbBits) \in Nat
  BY <1>1, PowerStep
<1>4. QED
  BY <1>2, <1>3, PowerOne, BaseIsPower

(* The numbers of n limbs. *)
LEMMA BasePower == ASSUME NEW n \in Nat PROVE Power(Base, n) \in Nat \ {0}
  BY BaseType, PowerPositive

(* The width of a limb makes powers of the base even. *)
LEMMA PowerEven ==
  ASSUME NEW n \in Nat \ {0}
  PROVE  \E e \in Nat \ {0} : Power(Base, n) = 2 * e
<1>1. PICK b \in Nat \ {0} : Base = 2 * b
  <2>1. LimbBits - 1 \in Nat /\ LimbBits = (LimbBits - 1) + 1
    BY LimbAssumption
  <2>2. Power(2, LimbBits) = 2 * Power(2, LimbBits - 1) /\ Power(2, LimbBits - 1) \in Nat \ {0}
    BY <2>1, PowerStep, PowerPositive
  <2>3. QED
    BY <2>2, BaseIsPower
<1>2. n - 1 \in Nat /\ n = (n - 1) + 1
  OBVIOUS
<1>3. PICK p \in Nat \ {0} : Power(Base, n) = Base * p
  <2>1. Power(Base, n) = Base * Power(Base, n - 1) /\ Power(Base, n - 1) \in Nat \ {0}
    BY <1>2, BaseType, PowerStep, BasePower
  <2>2. QED
    BY <2>1
<1>4. PICK e \in Nat : e = b * p
  OBVIOUS
<1>5. e # 0
  <2>1. 1 * p <= b * p
    BY MulPos
  <2>2. QED
    BY <1>4, <2>1
<1>6. (2 * b) * p = 2 * e
  BY <1>4
<1>7. QED
  BY <1>1, <1>3, <1>5, <1>6

(***************************************************************************)
(* Positional notation.                                                    *)
(***************************************************************************)

(* The lowest n digits of d are numbers. *)
DigitsUpTo(d, n) == \A i \in 0 .. n - 1 : d[i] \in Int

(* s holds the sums of the lowest digits. *)
Sums(s, b, d, n) ==
  /\ s \in [0 .. n -> Int] /\ s[0] = 0
  /\ \A k \in 0 .. n - 1 : s[k + 1] = s[k] + d[k] * Power(b, k)

(* FromDigits is the function its recursion describes. *)
LEMMA FromDigitsFunction ==
  ASSUME NEW b \in Nat, NEW n \in Nat, NEW d, DigitsUpTo(d, n)
  PROVE  \E s : Sums(s, b, d, n) /\ FromDigits(b, d, n) = s[n]
<1> DEFINE Term(k) == d[k] * Power(b, k)
<1>1. PICK step : /\ IsStep(step, n, Int)
                  /\ \A k \in 0 .. n - 1, x \in Int : step[<<k, x>>] = x + Term(k)
  <2>1. \A k \in 0 .. n - 1 : Term(k) \in Int
    <3>1. ASSUME NEW k \in 0 .. n - 1 PROVE Term(k) \in Int
      <4>1. d[k] \in Int /\ k \in Nat
        BY DEF DigitsUpTo
      <4>2. Power(b, k) \in Nat
        BY <4>1, PowerStep
      <4>3. QED
        BY <4>1, <4>2
    <3>2. QED
      BY <3>1
  <2> HIDE DEF Term
  <2>2. IsStep([x \in (0 .. n - 1) \X Int |-> x[2] + Term(x[1])], n, Int)
    BY <2>1 DEF IsStep
  <2>3. QED
    BY <2>2
<1> HIDE DEF Term
<1>2. PICK zero \in Int : zero = 0
  OBVIOUS
<1>3. PICK f : Runs(f, n, Int, zero, step)
  BY <1>1, RecursionExists
<1>4. /\ f \in [0 .. n -> Int] /\ f[0] = 0
      /\ \A k \in 0 .. n - 1 : f[k + 1] = f[k] + Term(k)
  <2>1. f \in [0 .. n -> Int] /\ f[0] = 0
    BY <1>2, <1>3 DEF Runs
  <2>2. ASSUME NEW k \in 0 .. n - 1 PROVE f[k + 1] = f[k] + Term(k)
    <3>1. f[k] \in Int /\ f[k + 1] = step[<<k, f[k]>>]
      BY <1>3, <2>1 DEF Runs
    <3>2. QED
      BY <1>1, <3>1
  <2>3. QED
    BY <2>1, <2>2
<1> DEFINE Is(s) == s = [k \in 0 .. n |-> IF k = 0 THEN 0
                                          ELSE s[k - 1] + d[k - 1] * Power(b, k - 1)]
           q == CHOOSE s : Is(s)
<1>5. Is(f)
  <2>1. ASSUME NEW k \in 0 .. n, k # 0 PROVE f[k] = f[k - 1] + d[k - 1] * Power(b, k - 1)
    <3>1. k - 1 \in 0 .. n - 1 /\ (k - 1) + 1 = k
      BY <2>1
    <3>2. QED
      BY <1>4, <3>1 DEF Term
  <2>2. QED
    BY <1>4, <2>1
<1>6. Is(q) /\ FromDigits(b, d, n) = q[n]
  BY <1>5 DEF FromDigits
<1> HIDE DEF q
<1>7. q[0] = 0 /\ \A k \in 0 .. n - 1 : q[k + 1] = q[k] + Term(k)
  <2>1. ASSUME NEW k \in 0 .. n - 1 PROVE q[k + 1] = q[k] + Term(k)
    <3>1. k + 1 \in 0 .. n /\ k + 1 # 0 /\ (k + 1) - 1 = k
      OBVIOUS
    <3>2. q[k + 1] = q[(k + 1) - 1] + d[(k + 1) - 1] * Power(b, (k + 1) - 1)
      BY <1>6, <3>1
    <3>3. QED
      BY <3>1, <3>2 DEF Term
  <2>2. q[0] = 0
    BY <1>6
  <2>3. QED
    BY <2>1, <2>2
<1>8. q[0] = f[0] /\ \A k \in 0 .. n - 1 : q[k] = f[k] => q[k + 1] = f[k + 1]
  BY <1>4, <1>7
<1>9. \A k \in 0 .. n : q[k] = f[k]
  BY <1>8, RecursionUnique
<1>10. q \in [0 .. n -> Int]
  BY <1>4, <1>6, <1>9
<1>11. QED
  BY <1>6, <1>7, <1>10 DEF Term, Sums

(* The recursion of a digit sum. *)
LEMMA FromDigitsStep ==
  ASSUME NEW b \in Nat, NEW n \in Nat, NEW d, DigitsUpTo(d, n + 1)
  PROVE  FromDigits(b, d, n + 1) = FromDigits(b, d, n) + d[n] * Power(b, n)
<1>1. DigitsUpTo(d, n)
  BY DEF DigitsUpTo
<1>2. PICK s : Sums(s, b, d, n) /\ FromDigits(b, d, n) = s[n]
  BY <1>1, FromDigitsFunction
<1>3. n + 1 \in Nat /\ (n + 1) - 1 = n
  OBVIOUS
<1>4. PICK t : Sums(t, b, d, n + 1) /\ FromDigits(b, d, n + 1) = t[n + 1]
  BY <1>3, FromDigitsFunction
<1>5. t[0] = s[0] /\ \A k \in 0 .. n - 1 : t[k] = s[k] => t[k + 1] = s[k + 1]
  <2>1. \A k \in 0 .. n - 1 : k \in 0 .. (n + 1) - 1
    OBVIOUS
  <2>2. QED
    BY <1>2, <1>4, <2>1 DEF Sums
<1>6. \A k \in 0 .. n : t[k] = s[k]
  BY <1>5, RecursionUnique
<1>7. t[n] = s[n] /\ t[n + 1] = t[n] + d[n] * Power(b, n)
  <2>1. n \in 0 .. n /\ n \in 0 .. (n + 1) - 1
    OBVIOUS
  <2>2. QED
    BY <1>4, <1>6, <2>1 DEF Sums
<1>8. QED
  BY <1>2, <1>4, <1>7

(* The empty sum, and the type of any other. *)
LEMMA FromDigitsType ==
  ASSUME NEW b \in Nat, NEW n \in Nat, NEW d, DigitsUpTo(d, n)
  PROVE  FromDigits(b, d, 0) = 0 /\ FromDigits(b, d, n) \in Int
<1>1. PICK s : Sums(s, b, d, n) /\ FromDigits(b, d, n) = s[n]
  BY FromDigitsFunction
<1>2. PICK t : Sums(t, b, d, 0) /\ FromDigits(b, d, 0) = t[0]
  <2>1. DigitsUpTo(d, 0)
    BY DEF DigitsUpTo
  <2>2. QED
    BY <2>1, FromDigitsFunction
<1>3. QED
  BY <1>1, <1>2 DEF Sums

(* Only the digits summed matter. *)
LEMMA FromDigitsFrame ==
  ASSUME NEW b \in Nat, NEW n \in Nat, NEW d, DigitsUpTo(d, n), NEW e,
         \A i \in 0 .. n - 1 : e[i] = d[i]
  PROVE  FromDigits(b, e, n) = FromDigits(b, d, n)
<1> DEFINE S == {k \in Nat : k <= n => FromDigits(b, e, k) = FromDigits(b, d, k)}
<1>1. 0 \in S
  <2>1. DigitsUpTo(d, 0) /\ DigitsUpTo(e, 0)
    BY DEF DigitsUpTo
  <2>2. QED
    BY <2>1, FromDigitsType
<1>2. ASSUME NEW k \in S PROVE k + 1 \in S
  <2> SUFFICES ASSUME k + 1 <= n PROVE FromDigits(b, e, k + 1) = FromDigits(b, d, k + 1)
    OBVIOUS
  <2>1. DigitsUpTo(d, k + 1) /\ DigitsUpTo(e, k + 1) /\ e[k] = d[k]
    BY DEF DigitsUpTo
  <2>2. QED
    BY <2>1, FromDigitsStep
<1> HIDE DEF S
<1>3. n \in S
  BY <1>1, <1>2, Induction DEF S
<1>4. QED
  BY <1>3 DEF S

(* The lowest n digits are digits to the base b. *)
DigitsBelow(b, d, n) == \A i \in 0 .. n - 1 : d[i] \in 0 .. b - 1

(* A sum of n digits to the base b is below the power n of b. *)
LEMMA FromDigitsBound ==
  ASSUME NEW b \in Nat \ {0}, NEW n \in Nat, NEW d, DigitsBelow(b, d, n)
  PROVE  FromDigits(b, d, n) \in 0 .. Power(b, n) - 1
<1> DEFINE S == {k \in Nat : k <= n => FromDigits(b, d, k) \in 0 .. Power(b, k) - 1}
<1>1. 0 \in S
  <2>1. DigitsUpTo(d, 0)
    BY DEF DigitsUpTo
  <2>2. QED
    BY <2>1, FromDigitsType, PowerStep
<1>2. ASSUME NEW k \in S PROVE k + 1 \in S
  <2> SUFFICES ASSUME k + 1 <= n PROVE FromDigits(b, d, k + 1) \in 0 .. Power(b, k + 1) - 1
    OBVIOUS
  <2>1. DigitsUpTo(d, k + 1) /\ d[k] \in 0 .. b - 1
    BY DEF DigitsUpTo, DigitsBelow
  <2>2. /\ FromDigits(b, d, k + 1) = FromDigits(b, d, k) + d[k] * Power(b, k)
        /\ Power(b, k + 1) = b * Power(b, k)
    BY <2>1, FromDigitsStep, PowerStep
  <2>3. PICK p \in Nat : p = Power(b, k)
    BY PowerStep
  <2>4. PICK x \in Nat, c \in 0 .. b - 1 : x = FromDigits(b, d, k) /\ c = d[k] /\ x < p
    BY <2>1, <2>3
  <2>5. c * p \in Nat /\ c * p <= (b - 1) * p /\ (b - 1) * p = b * p - p /\ b * p \in Nat
    BY MulPos
  <2>6. PICK y \in Nat, z \in Nat : y = c * p /\ z = b * p
    BY <2>5
  <2>7. x + y \in 0 .. z - 1
    BY <2>4, <2>5, <2>6
  <2>8. QED
    BY <2>2, <2>3, <2>4, <2>6, <2>7
<1> HIDE DEF S
<1>3. n \in S
  BY <1>1, <1>2, Induction DEF S
<1>4. QED
  BY <1>3 DEF S

(* Zero digits at the top add nothing. *)
LEMMA FromDigitsZeros ==
  ASSUME NEW b \in Nat, NEW n \in Nat, NEW d, DigitsUpTo(d, n), NEW m \in 0 .. n,
         \A i \in m .. n - 1 : d[i] = 0
  PROVE  FromDigits(b, d, n) = FromDigits(b, d, m)
<1> DEFINE S == {k \in Nat : m + k <= n => FromDigits(b, d, m + k) = FromDigits(b, d, m)}
<1>1. 0 \in S
  OBVIOUS
<1>2. ASSUME NEW k \in S PROVE k + 1 \in S
  <2> SUFFICES ASSUME m + (k + 1) <= n
               PROVE  FromDigits(b, d, m + (k + 1)) = FromDigits(b, d, m)
    OBVIOUS
  <2>1. /\ DigitsUpTo(d, (m + k) + 1) /\ DigitsUpTo(d, m) /\ d[m + k] = 0
        /\ m + k \in Nat /\ m \in Nat /\ m + (k + 1) = (m + k) + 1
    BY DEF DigitsUpTo
  <2>2. FromDigits(b, d, (m + k) + 1) = FromDigits(b, d, m + k) + 0 * Power(b, m + k)
    BY <2>1, FromDigitsStep
  <2>3. FromDigits(b, d, m) \in Int /\ Power(b, m + k) \in Nat
    BY <2>1, FromDigitsType, PowerStep
  <2>4. QED
    BY <2>1, <2>2, <2>3
<1> HIDE DEF S
<1>3. n - m \in S
  <2>1. n - m \in Nat
    OBVIOUS
  <2>2. QED
    BY <1>1, <1>2, <2>1, Induction DEF S
<1>4. m + (n - m) = n
  OBVIOUS
<1>5. QED
  BY <1>3, <1>4 DEF S

(* The lowest n digits of a number, summed, are its remainder by the power n. *)
LEMMA DigitsOfNumber ==
  ASSUME NEW b \in Nat \ {0}, NEW n \in Nat, NEW v \in Int, NEW d,
         \A i \in 0 .. n - 1 : d[i] = (v \div Power(b, i)) % b
  PROVE  DigitsBelow(b, d, n) /\ FromDigits(b, d, n) = v % Power(b, n)
<1>1. ASSUME NEW i \in 0 .. n - 1 PROVE d[i] \in 0 .. b - 1
  <2>1. i \in Nat /\ Power(b, i) \in Nat \ {0}
    BY PowerPositive
  <2>2. v \div Power(b, i) \in Int
    BY <2>1, DivMod
  <2>3. QED
    BY <2>2, DivMod
<1>2. DigitsBelow(b, d, n) /\ DigitsUpTo(d, n)
  BY <1>1 DEF DigitsBelow, DigitsUpTo
<1> DEFINE S == {k \in Nat : k <= n => FromDigits(b, d, k) = v % Power(b, k)}
<1>3. 0 \in S
  <2>1. DigitsUpTo(d, 0)
    BY DEF DigitsUpTo
  <2>2. v % 1 = 0
    BY DivMod
  <2>3. QED
    BY <2>1, <2>2, FromDigitsType, PowerStep
<1>4. ASSUME NEW k \in S PROVE k + 1 \in S
  <2> SUFFICES ASSUME k + 1 <= n PROVE FromDigits(b, d, k + 1) = v % Power(b, k + 1)
    OBVIOUS
  <2>1. DigitsUpTo(d, k + 1) /\ d[k] = (v \div Power(b, k)) % b
    BY <1>2 DEF DigitsUpTo
  <2>2. FromDigits(b, d, k + 1) = FromDigits(b, d, k) + d[k] * Power(b, k)
    BY <2>1, FromDigitsStep
  <2>3. PICK p \in Nat \ {0} : p = Power(b, k)
    BY PowerPositive
  <2>4. v % (p * b) = (v % p) + p * ((v \div p) % b)
    BY ModTwoSteps
  <2>5. PICK c \in Int : c = (v \div p) % b
    BY <1>1, <2>1, <2>3
  <2>6. b * p = p * b /\ c * p = p * c
    OBVIOUS
  <2>7. Power(b, k + 1) = b * p
    BY <2>3, PowerStep
  <2>8. QED
    BY <2>1, <2>2, <2>3, <2>4, <2>5, <2>6, <2>7
<1> HIDE DEF S
<1>5. n \in S
  BY <1>3, <1>4, Induction DEF S
<1>6. QED
  BY <1>2, <1>5 DEF S

(* Conversely the digits of a sum are the digits summed. *)
LEMMA DigitOfSum ==
  ASSUME NEW b \in Nat \ {0}, NEW n \in Nat, NEW d, DigitsBelow(b, d, n), NEW i \in 0 .. n - 1
  PROVE  (FromDigits(b, d, n) \div Power(b, i)) % b = d[i]
<1> DEFINE Q(k) == (FromDigits(b, d, k) \div Power(b, i)) % b
           S == {k \in Nat : i + 1 + k <= n => Q(i + 1 + k) = d[i]}
<1>1. ASSUME NEW k \in Nat, k <= n PROVE DigitsBelow(b, d, k) /\ DigitsUpTo(d, k)
  BY <1>1 DEF DigitsBelow, DigitsUpTo
<1>2. PICK p \in Nat \ {0} : p = Power(b, i)
  <2>1. i \in Nat
    OBVIOUS
  <2>2. QED
    BY <2>1, PowerPositive
<1>3. 0 \in S
  <2>1. i \in Nat /\ i <= n /\ i + 1 <= n /\ i + 1 \in Nat /\ d[i] \in 0 .. b - 1
    BY DEF DigitsBelow
  <2>2. PICK x \in 0 .. p - 1 : x = FromDigits(b, d, i)
    BY <1>1, <1>2, <2>1, FromDigitsBound
  <2>3. FromDigits(b, d, i + 1) = x + d[i] * p
    BY <1>1, <1>2, <2>1, <2>2, FromDigitsStep
  <2>4. x + d[i] * p = p * d[i] + x /\ x \in Int /\ d[i] \in Int
    BY <2>1
  <2>5. (p * d[i] + x) \div p = d[i] + (x \div p)
    BY <2>4, DivMultiple
  <2>6. x \div p = 0 /\ d[i] % b = d[i]
    BY <2>1, DivSmall
  <2>7. Q(i + 1) = d[i]
    BY <1>2, <2>3, <2>4, <2>5, <2>6
  <2>8. i + 1 + 0 = i + 1
    OBVIOUS
  <2>9. QED
    BY <2>7, <2>8
<1>4. ASSUME NEW k \in S PROVE k + 1 \in S
  <2> SUFFICES ASSUME i + 1 + (k + 1) <= n PROVE Q(i + 1 + (k + 1)) = d[i]
    OBVIOUS
  <2> DEFINE m == i + 1 + k
  <2>1. m \in Nat /\ m < n /\ i + 1 + (k + 1) = m + 1 /\ d[m] \in Nat /\ m + 1 <= n
    BY DEF DigitsBelow
  <2>2. Q(m) = d[i]
    BY <2>1
  <2>3. FromDigits(b, d, m + 1) = FromDigits(b, d, m) + d[m] * Power(b, m)
    BY <1>1, <2>1, FromDigitsStep
  <2>4. Power(b, m) = p * (b * Power(b, k)) /\ Power(b, k) \in Nat
    <3>1. m = i + (k + 1) /\ i \in Nat /\ k + 1 \in Nat
      OBVIOUS
    <3>2. Power(b, m) = Power(b, i) * Power(b, k + 1)
      BY <3>1, PowerSum
    <3>3. QED
      BY <1>2, <3>2, PowerStep
  <2> HIDE DEF m
  <2>5. PICK z \in Nat, c \in Nat, x \in Int :
          z = Power(b, k) /\ c = d[m] /\ x = FromDigits(b, d, m)
    BY <1>1, <2>1, <2>4, FromDigitsType
  <2>6. x + c * (p * (b * z)) = p * (b * (c * z)) + x /\ b * (c * z) \in Int /\ c * z \in Int
    OBVIOUS
  <2>7. (p * (b * (c * z)) + x) \div p = b * (c * z) + (x \div p) /\ x \div p \in Int
    BY <2>6, DivMultiple, DivMod
  <2>8. (b * (c * z) + (x \div p)) % b = (x \div p) % b
    BY <2>6, <2>7, DivMultiple
  <2>9. QED
    BY <1>2, <2>1, <2>2, <2>3, <2>4, <2>5, <2>6, <2>7, <2>8
<1> HIDE DEF S
<1>5. n - (i + 1) \in S
  <2>1. n - (i + 1) \in Nat
    OBVIOUS
  <2>2. QED
    BY <1>3, <1>4, <2>1, Induction DEF S
<1>6. i + 1 + (n - (i + 1)) = n
  OBVIOUS
<1>7. QED
  BY <1>5, <1>6 DEF S

(***************************************************************************)
(* Limbs.                                                                  *)
(***************************************************************************)

(* limbs is the function the recursion of LimbsNeeded describes. *)
Counts(limbs, n) ==
  /\ limbs \in [0 .. n -> Nat]
  /\ \A w \in 0 .. n : limbs[w] = IF w < Base THEN 1 ELSE 1 + limbs[w \div Base]

(* There is such a function. *)
LEMMA CountsExist == ASSUME NEW n \in Nat PROVE \E limbs : Counts(limbs, n)
<1> DEFINE S == {k \in Nat : \E limbs : Counts(limbs, k)}
<1>1. 0 \in S
  <2>1. Counts([w \in 0 .. 0 |-> 1], 0)
    BY BaseType DEF Counts
  <2>2. QED
    BY <2>1
<1>2. ASSUME NEW k \in S PROVE k + 1 \in S
  <2>1. PICK f : Counts(f, k)
    OBVIOUS
  <2>2. (k + 1) \div Base \in 0 .. k
    BY BaseType, DivLess, DivNat
  <2> DEFINE next == IF k + 1 < Base THEN 1 ELSE 1 + f[(k + 1) \div Base]
             g == [w \in 0 .. k + 1 |-> IF w = k + 1 THEN next ELSE f[w]]
  <2>3. next \in Nat
    BY <2>1, <2>2 DEF Counts
  <2>4. /\ g \in [0 .. k + 1 -> Nat] /\ g[k + 1] = next
        /\ \A w \in 0 .. k : g[w] = f[w]
    BY <2>1, <2>3 DEF Counts
  <2> HIDE DEF g
  <2>5. ASSUME NEW w \in 0 .. k + 1
        PROVE  g[w] = IF w < Base THEN 1 ELSE 1 + g[w \div Base]
    <3>1. CASE w = k + 1
      BY <2>2, <2>4, <3>1
    <3>2. CASE w # k + 1
      <4>1. w \in 0 .. k /\ w \div Base \in 0 .. k
        BY <3>2, BaseType, DivNat
      <4>2. QED
        BY <2>1, <2>4, <4>1 DEF Counts
    <3>3. QED
      BY <3>1, <3>2
  <2>6. Counts(g, k + 1)
    BY <2>4, <2>5 DEF Counts
  <2>7. QED
    BY <2>6
<1> HIDE DEF S
<1>3. QED
  BY <1>1, <1>2, Induction DEF S

(* LimbsNeeded is its value at the number itself. *)
LEMMA LimbsNeededCounts ==
  ASSUME NEW v \in Nat
  PROVE  \E limbs : Counts(limbs, v) /\ LimbsNeeded(v) = limbs[v]
<1> DEFINE Is(f) == f = [w \in 0 .. v |-> IF w < Base THEN 1 ELSE 1 + f[w \div Base]]
           q == CHOOSE f : Is(f)
<1>1. PICK f : Counts(f, v)
  BY CountsExist
<1>2. Is(f)
  BY <1>1 DEF Counts
<1>3. Is(q) /\ LimbsNeeded(v) = q[v]
  BY <1>2 DEF LimbsNeeded
<1> HIDE DEF q
<1>4. \A w \in 0 .. v : q[w] = IF w < Base THEN 1 ELSE 1 + q[w \div Base]
  BY <1>3
<1> DEFINE S == {k \in Nat : \A w \in 0 .. k : w <= v => q[w] = f[w]}
<1>5. 0 \in S
  BY <1>1, <1>4, BaseType DEF Counts
<1>6. ASSUME NEW k \in S PROVE k + 1 \in S
  <2> SUFFICES ASSUME k + 1 <= v PROVE q[k + 1] = f[k + 1]
    OBVIOUS
  <2>1. (k + 1) \div Base \in 0 .. k /\ k + 1 \in 0 .. v
    BY BaseType, DivLess, DivNat
  <2>2. q[(k + 1) \div Base] = f[(k + 1) \div Base]
    BY <2>1
  <2>3. QED
    BY <1>1, <1>4, <2>1, <2>2 DEF Counts
<1> HIDE DEF S
<1>7. v \in S
  BY <1>5, <1>6, Induction DEF S
<1>8. \A w \in 0 .. v : q[w] = f[w]
  BY <1>7 DEF S
<1>9. q \in [0 .. v -> Nat]
  BY <1>1, <1>3, <1>8 DEF Counts
<1>10. QED
  BY <1>3, <1>4, <1>9 DEF Counts

(* v has n limbs. *)
HasLimbs(v, n) ==
  /\ n \in Nat \ {0} /\ v < Power(Base, n)
  /\ n = 1 \/ Power(Base, n - 1) <= v

(* LimbsNeeded counts the limbs. *)
LEMMA LimbsNeededHas == ASSUME NEW v \in Nat PROVE HasLimbs(v, LimbsNeeded(v))
<1>1. PICK c : Counts(c, v) /\ LimbsNeeded(v) = c[v]
  BY LimbsNeededCounts
<1> DEFINE S == {k \in Nat : \A w \in 0 .. k : w <= v => HasLimbs(w, c[w])}
<1>2. ASSUME NEW w \in 0 .. v, w < Base PROVE HasLimbs(w, c[w])
  BY <1>1, <1>2, BaseType, PowerOne DEF Counts, HasLimbs
<1>3. 0 \in S
  BY <1>2, BaseType
<1>4. ASSUME NEW k \in S PROVE k + 1 \in S
  <2> SUFFICES ASSUME k + 1 <= v, ~(k + 1 < Base) PROVE HasLimbs(k + 1, c[k + 1])
    BY <1>2
  <2>1. PICK w \in 0 .. k : w = (k + 1) \div Base
    BY BaseType, DivLess, DivNat
  <2>2. HasLimbs(w, c[w])
    BY <2>1
  <2>3. PICK m \in Nat \ {0} : m = c[w]
    BY <2>2 DEF HasLimbs
  <2>4. c[k + 1] = 1 + m
    BY <1>1, <2>1, <2>3 DEF Counts
  <2>5. k + 1 < Power(Base, m + 1)
    <3>1. Power(Base, m + 1) = Base * Power(Base, m) /\ Power(Base, m) \in Nat
      BY BaseType, PowerStep
    <3>2. w < Power(Base, m)
      BY <2>2, <2>3 DEF HasLimbs
    <3>3. QED
      BY <2>1, <3>1, <3>2, BaseType, DivBelow
  <2>6. Power(Base, m) <= k + 1
    <3>1. CASE m = 1
      BY <3>1, BaseType, PowerOne
    <3>2. CASE m # 1
      <4>1. m - 1 \in Nat /\ (m - 1) + 1 = m
        BY <3>2
      <4>2. Power(Base, m) = Base * Power(Base, m - 1) /\ Power(Base, m - 1) \in Nat
        BY <4>1, BaseType, PowerStep
      <4>3. Power(Base, m - 1) <= w
        BY <2>2, <2>3, <3>2 DEF HasLimbs
      <4>4. QED
        BY <2>1, <4>2, <4>3, BaseType, DivBelow
    <3>3. QED
      BY <3>1, <3>2
  <2>7. (1 + m) - 1 = m /\ 1 + m = m + 1 /\ 1 + m \in Nat \ {0}
    OBVIOUS
  <2>8. QED
    BY <2>4, <2>5, <2>6, <2>7 DEF HasLimbs
<1> HIDE DEF S
<1>5. v \in S
  BY <1>3, <1>4, Induction DEF S
<1>6. QED
  BY <1>1, <1>5 DEF S

(* A number has one limb count. *)
LEMMA HasLimbsUnique ==
  ASSUME NEW v \in Nat, NEW n, HasLimbs(v, n)
  PROVE  n = LimbsNeeded(v)
<1>1. ASSUME NEW k \in Nat \ {0}, NEW m \in Nat \ {0}, k < m, HasLimbs(v, k), HasLimbs(v, m)
      PROVE  FALSE
  <2>1. m - 1 \in Nat /\ k <= m - 1
    BY <1>1
  <2>2. Power(Base, k) <= Power(Base, m - 1)
    BY <2>1, BaseType, PowerGrows
  <2>3. v < Power(Base, k) /\ Power(Base, m - 1) <= v
    BY <1>1 DEF HasLimbs
  <2>4. Power(Base, k) \in Nat /\ Power(Base, m - 1) \in Nat
    BY <2>1, BaseType, PowerStep
  <2>5. QED
    BY <2>2, <2>3, <2>4
<1>2. HasLimbs(v, LimbsNeeded(v))
  BY LimbsNeededHas
<1>3. n \in Nat \ {0} /\ LimbsNeeded(v) \in Nat \ {0}
  BY <1>2 DEF HasLimbs
<1>4. QED
  BY <1>1, <1>2, <1>3

(* A smaller number has no more limbs. *)
LEMMA LimbsNeededBelow ==
  ASSUME NEW v \in Nat, NEW n \in Nat \ {0}
  PROVE  v < Power(Base, n) <=> LimbsNeeded(v) <= n
<1>1. PICK m \in Nat \ {0} : m = LimbsNeeded(v) /\ HasLimbs(v, m)
  BY LimbsNeededHas DEF HasLimbs
<1>2. ASSUME m <= n PROVE v < Power(Base, n)
  <2>1. Power(Base, m) <= Power(Base, n) /\ v < Power(Base, m)
    BY <1>1, <1>2, BaseType, PowerGrows DEF HasLimbs
  <2>2. Power(Base, m) \in Nat /\ Power(Base, n) \in Nat
    BY BasePower
  <2>3. QED
    BY <2>1, <2>2
<1>3. ASSUME n < m PROVE ~(v < Power(Base, n))
  <2>1. n <= m - 1 /\ m - 1 \in Nat /\ m # 1
    BY <1>3
  <2>2. Power(Base, n) <= Power(Base, m - 1)
    BY <2>1, BaseType, PowerGrows
  <2>3. Power(Base, n) \in Nat /\ Power(Base, m - 1) \in Nat
    BY <2>1, BasePower
  <2>4. QED
    BY <1>1, <2>1, <2>2, <2>3 DEF HasLimbs
<1>4. QED
  BY <1>1, <1>2, <1>3

(* A single limb. *)
LEMMA LimbsOfSmall ==
  ASSUME NEW v \in Nat, v < Base
  PROVE  LimbsNeeded(v) = 1
<1>1. Power(Base, 1) = Base
  BY BaseType, PowerOne
<1>2. HasLimbs(v, 1)
  BY <1>1 DEF HasLimbs
<1>3. QED
  BY <1>2, HasLimbsUnique

(* An array of size limbs; a limb that was never written is Base. *)
IsArray(limbs, size) == limbs \in [0 .. size - 1 -> 0 .. Base]

(* The lowest n limbs were written. *)
IsWritten(limbs, n) == \A i \in 0 .. n - 1 : limbs[i] < Base

(* What an array and its written part mean to FromDigits. *)
LEMMA ArrayDigits ==
  ASSUME NEW size \in Nat, NEW limbs, IsArray(limbs, size), NEW n \in 0 .. size
  PROVE  DigitsUpTo(limbs, n) /\ (IsWritten(limbs, n) => DigitsBelow(Base, limbs, n))
  BY BaseType DEF IsArray, IsWritten, DigitsUpTo, DigitsBelow

(* The magnitude of limbs that were written, or not. *)
LEMMA MagnitudeType ==
  ASSUME NEW size \in Nat, NEW limbs, IsArray(limbs, size), NEW n \in 0 .. size
  PROVE  /\ Magnitude(limbs, n) \in Nat
         /\ IsWritten(limbs, n) => Magnitude(limbs, n) < Power(Base, n)
<1>1. DigitsUpTo(limbs, n) /\ n \in Nat
  BY ArrayDigits
<1>2. ASSUME IsWritten(limbs, n) PROVE Magnitude(limbs, n) \in 0 .. Power(Base, n) - 1
  BY <1>2, ArrayDigits, BaseType, FromDigitsBound DEF Magnitude
<1> DEFINE S == {k \in Nat : k <= n => Magnitude(limbs, k) \in Nat}
<1>3. 0 \in S
  <2>1. DigitsUpTo(limbs, 0)
    BY DEF DigitsUpTo
  <2>2. QED
    BY <2>1, BaseType, FromDigitsType DEF Magnitude
<1>4. ASSUME NEW k \in S PROVE k + 1 \in S
  <2> SUFFICES ASSUME k + 1 <= n PROVE Magnitude(limbs, k + 1) \in Nat
    OBVIOUS
  <2>1. DigitsUpTo(limbs, k + 1) /\ limbs[k] \in Nat
    BY BaseType DEF IsArray, DigitsUpTo
  <2>2. Magnitude(limbs, k + 1) = Magnitude(limbs, k) + limbs[k] * Power(Base, k)
    BY <2>1, BaseType, FromDigitsStep DEF Magnitude
  <2>3. PICK p \in Nat, c \in Nat : p = Power(Base, k) /\ c = limbs[k]
    BY <2>1, BasePower
  <2>4. c * p \in Nat /\ Magnitude(limbs, k) \in Nat
    OBVIOUS
  <2>5. QED
    BY <2>2, <2>3, <2>4
<1> HIDE DEF S
<1>5. n \in S
  <2>1. S \in SUBSET Nat
    BY DEF S
  <2>2. S = Nat
    BY <1>3, <1>4, <2>1, Induction
  <2>3. QED
    BY <1>1, <2>2
<1>6. Power(Base, n) \in Nat
  BY <1>1, BasePower
<1>7. QED
  BY <1>2, <1>5, <1>6 DEF S

(* A digit is a limb. *)
LEMMA DigitType ==
  ASSUME NEW v \in Int, NEW i \in Nat
  PROVE  Digit(v, i) \in 0 .. Base - 1
<1>1. PICK x \in Int : x = v \div Power(Base, i)
  BY BasePower, DivMod
<1>2. x % Base \in 0 .. Base - 1
  BY BaseType, DivMod
<1>3. QED
  BY <1>1, <1>2 DEF Digit

(* The limbs of v in place of the lowest n. *)
LEMMA WrittenFacts ==
  ASSUME NEW size \in Nat, NEW limbs, IsArray(limbs, size), NEW n \in 0 .. size, NEW v \in Int
  PROVE  /\ IsArray(Written(limbs, n, v), size)
         /\ IsWritten(Written(limbs, n, v), n)
         /\ Magnitude(Written(limbs, n, v), n) = v % Power(Base, n)
         /\ \A i \in 0 .. n - 1 : Written(limbs, n, v)[i] = Digit(v, i)
         /\ \A i \in n .. size - 1 : Written(limbs, n, v)[i] = limbs[i]
<1> DEFINE W == Written(limbs, n, v)
<1>1. \A i \in 0 .. size - 1 : i < n => W[i] = Digit(v, i)
  BY DEF Written, IsArray
<1>2. \A i \in 0 .. size - 1 : ~(i < n) => W[i] = limbs[i]
  BY DEF Written, IsArray
<1>3. DOMAIN W = 0 .. size - 1 /\ W = [i \in 0 .. size - 1 |-> W[i]]
  BY DEF Written, IsArray
<1> HIDE DEF W
<1>4. \A i \in 0 .. n - 1 : W[i] = Digit(v, i) /\ W[i] \in 0 .. Base - 1
  <2>1. \A i \in 0 .. n - 1 : i \in 0 .. size - 1 /\ i < n /\ i \in Nat
    OBVIOUS
  <2>2. QED
    BY <1>1, <2>1, DigitType
<1>5. \A i \in 0 .. size - 1 : W[i] \in 0 .. Base
  BY <1>2, <1>4, BaseType DEF IsArray
<1>6. IsArray(W, size)
  BY <1>3, <1>5 DEF IsArray
<1>7. IsWritten(W, n)
  BY <1>4, BaseType DEF IsWritten
<1>8. FromDigits(Base, W, n) = v % Power(Base, n)
  <2>1. \A i \in 0 .. n - 1 : W[i] = (v \div Power(Base, i)) % Base
    BY <1>4 DEF Digit
  <2>2. n \in Nat /\ Base \in Nat \ {0}
    BY BaseType
  <2>3. QED
    BY <2>1, <2>2, DigitsOfNumber
<1>9. \A i \in n .. size - 1 : W[i] = limbs[i]
  BY <1>2
<1>10. QED
  BY <1>4, <1>6, <1>7, <1>8, <1>9 DEF W, Magnitude

(* The magnitude depends on the limbs it covers only. *)
LEMMA MagnitudeFrame ==
  ASSUME NEW size \in Nat, NEW limbs, IsArray(limbs, size), NEW n \in 0 .. size,
         NEW other, \A i \in 0 .. n - 1 : other[i] = limbs[i]
  PROVE  Magnitude(other, n) = Magnitude(limbs, n)
<1>1. DigitsUpTo(limbs, n) /\ n \in Nat /\ Base \in Nat
  BY ArrayDigits, BaseType
<1>2. QED
  BY <1>1, FromDigitsFrame DEF Magnitude

(* Zero limbs at the top add nothing to it, *)
LEMMA MagnitudeZeros ==
  ASSUME NEW size \in Nat, NEW limbs, IsArray(limbs, size), NEW n \in 0 .. size, NEW m \in 0 .. n,
         \A i \in m .. n - 1 : limbs[i] = 0
  PROVE  Magnitude(limbs, n) = Magnitude(limbs, m)
<1>1. DigitsUpTo(limbs, n) /\ n \in Nat /\ Base \in Nat
  BY ArrayDigits, BaseType
<1>2. QED
  BY <1>1, FromDigitsZeros DEF Magnitude

(* and a top limb that is not zero makes it large. *)
LEMMA MagnitudeTop ==
  ASSUME NEW size \in Nat, NEW limbs, IsArray(limbs, size), NEW n \in 1 .. size,
         limbs[n - 1] # 0
  PROVE  Power(Base, n - 1) <= Magnitude(limbs, n)
<1>1. n - 1 \in Nat /\ n - 1 \in 0 .. size /\ (n - 1) + 1 = n /\ n \in 0 .. size
  OBVIOUS
<1>2. DigitsUpTo(limbs, n) /\ limbs[n - 1] \in Nat /\ limbs[n - 1] >= 1
  BY <1>1, ArrayDigits, BaseType DEF IsArray
<1>3. Magnitude(limbs, n) = Magnitude(limbs, n - 1) + limbs[n - 1] * Power(Base, n - 1)
  BY <1>1, <1>2, BaseType, FromDigitsStep DEF Magnitude
<1>4. Magnitude(limbs, n - 1) \in Nat
  BY <1>1, MagnitudeType
<1>5. PICK p \in Nat, c \in Nat : p = Power(Base, n - 1) /\ c = limbs[n - 1] /\ 1 <= c
  BY <1>1, <1>2, BasePower
<1>6. 1 * p <= c * p
  BY <1>5, MulPos
<1>7. QED
  BY <1>3, <1>4, <1>5, <1>6

(* The top limb and the rest. *)
LEMMA MagnitudeSplit ==
  ASSUME NEW size \in Nat, NEW limbs, IsArray(limbs, size), NEW n \in 1 .. size,
         IsWritten(limbs, n)
  PROVE  /\ limbs[n - 1] \in Nat /\ limbs[n - 1] < Base
         /\ \E low \in Nat : /\ low < Power(Base, n - 1)
                             /\ Magnitude(limbs, n) = low + limbs[n - 1] * Power(Base, n - 1)
<1>1. n - 1 \in Nat /\ n - 1 \in 0 .. size /\ (n - 1) + 1 = n /\ n \in 0 .. size
  OBVIOUS
<1>2. DigitsUpTo(limbs, n) /\ limbs[n - 1] \in Nat /\ limbs[n - 1] < Base
  BY <1>1, ArrayDigits, BaseType DEF IsArray, IsWritten
<1>3. Magnitude(limbs, n) = Magnitude(limbs, n - 1) + limbs[n - 1] * Power(Base, n - 1)
  BY <1>1, <1>2, BaseType, FromDigitsStep DEF Magnitude
<1>4. IsWritten(limbs, n - 1)
  BY <1>1 DEF IsWritten
<1>5. Magnitude(limbs, n - 1) \in Nat /\ Magnitude(limbs, n - 1) < Power(Base, n - 1)
  BY <1>1, <1>4, MagnitudeType
<1>6. QED
  BY <1>2, <1>3, <1>5

(* TrimmedSize counts the limbs of the magnitude. *)
LEMMA TrimmedFacts ==
  ASSUME NEW size \in Nat, NEW limbs, IsArray(limbs, size), NEW n \in 1 .. size
  PROVE  /\ TrimmedSize(limbs, n) \in 1 .. n
         /\ \A i \in TrimmedSize(limbs, n) .. n - 1 : limbs[i] = 0
         /\ Magnitude(limbs, TrimmedSize(limbs, n)) = Magnitude(limbs, n)
         /\ IsWritten(limbs, n) => TrimmedSize(limbs, n) = LimbsNeeded(Magnitude(limbs, n))
<1> DEFINE Fits(k) == \A i \in k .. n - 1 : limbs[i] = 0
           S == {k \in 1 .. n : Fits(k)}
<1>1. PICK k \in S : \A m \in S : k <= m
  <2>1. n \in S /\ S \subseteq Nat
    OBVIOUS
  <2> HIDE DEF S
  <2>2. QED
    BY <2>1, Smallest
<1>2. k = 1 \/ limbs[k - 1] # 0
  <2> SUFFICES ASSUME k # 1, limbs[k - 1] = 0 PROVE FALSE
    OBVIOUS
  <2>1. k - 1 \in 1 .. n
    OBVIOUS
  <2>2. \A i \in k - 1 .. n - 1 : i = k - 1 \/ i \in k .. n - 1
    OBVIOUS
  <2>3. k - 1 \in S
    BY <2>1, <2>2
  <2>4. QED
    BY <1>1, <2>3
<1> DEFINE t == TrimmedSize(limbs, n)
<1>3. t \in 1 .. n /\ (t = 1 \/ limbs[t - 1] # 0) /\ Fits(t)
  BY <1>1, <1>2 DEF TrimmedSize
<1> HIDE DEF t, S
<1>4. t \in 0 .. n /\ n \in 0 .. size /\ t \in 0 .. size /\ t \in 1 .. size /\ t \in Nat \ {0}
  BY <1>3
<1>5. Magnitude(limbs, n) = Magnitude(limbs, t)
  BY <1>3, <1>4, MagnitudeZeros
<1>6. ASSUME IsWritten(limbs, n) PROVE t = LimbsNeeded(Magnitude(limbs, n))
  <2>1. IsWritten(limbs, t)
    BY <1>3, <1>6 DEF IsWritten
  <2>2. Magnitude(limbs, t) \in Nat /\ Magnitude(limbs, t) < Power(Base, t)
    BY <1>4, <2>1, MagnitudeType
  <2>3. t = 1 \/ Power(Base, t - 1) <= Magnitude(limbs, t)
    BY <1>3, <1>4, MagnitudeTop
  <2>4. HasLimbs(Magnitude(limbs, t), t)
    BY <1>4, <2>2, <2>3 DEF HasLimbs
  <2>5. QED
    BY <1>5, <2>2, <2>4, HasLimbsUnique
<1>7. QED
  BY <1>3, <1>5, <1>6 DEF t

(* Limbs first to last less one set to zero. *)
LEMMA ClearedFacts ==
  ASSUME NEW size \in Nat, NEW limbs, IsArray(limbs, size), NEW first \in Nat, NEW last \in Nat
  PROVE  /\ IsArray(Cleared(limbs, first, last), size)
         /\ \A i \in 0 .. size - 1 :
              /\ first <= i /\ i < last => Cleared(limbs, first, last)[i] = 0
              /\ ~(first <= i /\ i < last) => Cleared(limbs, first, last)[i] = limbs[i]
  BY BaseType DEF IsArray, Cleared

(* A number that is not zero has a digit at its top, and none above. *)
LEMMA DigitZero ==
  ASSUME NEW v \in Nat, NEW i \in Nat, v < Power(Base, i)
  PROVE  Digit(v, i) = 0
<1>1. PICK p \in Nat \ {0} : p = Power(Base, i)
  BY BasePower
<1>2. v \in 0 .. p - 1
  BY <1>1
<1>3. v \div p = 0
  BY <1>2, DivSmall
<1>4. 0 % Base = 0
  BY BaseType, DivSmall
<1>5. QED
  BY <1>1, <1>3, <1>4 DEF Digit

(* A sum of digits is that of the lowest ones and, raised by their number, of the others. *)
LEMMA FromDigitsSplit ==
  ASSUME NEW b \in Nat, NEW n \in Nat, NEW k \in Nat, NEW d, DigitsUpTo(d, n + k),
         NEW e, \A i \in 0 .. k - 1 : e[i] = d[n + i]
  PROVE  FromDigits(b, d, n + k) = FromDigits(b, d, n) + Power(b, n) * FromDigits(b, e, k)
<1>1. ASSUME NEW i \in Nat, i <= k PROVE DigitsUpTo(d, n + i) /\ DigitsUpTo(e, i)
  <2>1. \A j \in 0 .. i - 1 : j \in 0 .. k - 1 /\ n + j \in 0 .. n + k - 1
    BY <1>1
  <2>2. QED
    BY <1>1, <2>1 DEF DigitsUpTo
<1> DEFINE S == {i \in Nat : i <= k =>
                   FromDigits(b, d, n + i)
                     = FromDigits(b, d, n) + Power(b, n) * FromDigits(b, e, i)}
<1>2. PICK p \in Nat : p = Power(b, n)
  BY PowerStep
<1>3. 0 \in S
  <2>1. DigitsUpTo(d, n + 0) /\ DigitsUpTo(e, 0) /\ n + 0 = n
    BY <1>1
  <2>2. FromDigits(b, e, 0) = 0 /\ FromDigits(b, d, n) \in Int
    BY <2>1, FromDigitsType
  <2>3. QED
    BY <1>2, <2>1, <2>2
<1>4. ASSUME NEW i \in S PROVE i + 1 \in S
  <2> SUFFICES ASSUME i + 1 <= k
               PROVE  FromDigits(b, d, n + (i + 1))
                        = FromDigits(b, d, n) + Power(b, n) * FromDigits(b, e, i + 1)
    OBVIOUS
  <2>1. /\ DigitsUpTo(d, (n + i) + 1) /\ DigitsUpTo(e, i + 1)
        /\ DigitsUpTo(e, i) /\ DigitsUpTo(d, n + 0)
        /\ (n + i) + 1 = n + (i + 1) /\ n + i \in Nat /\ n + 0 = n
    BY <1>1
  <2>2. FromDigits(b, d, (n + i) + 1) = FromDigits(b, d, n + i) + d[n + i] * Power(b, n + i)
        /\ FromDigits(b, e, i + 1) = FromDigits(b, e, i) + e[i] * Power(b, i)
    BY <2>1, FromDigitsStep
  <2>3. e[i] = d[n + i]
    OBVIOUS
  <2>4. PICK c \in Int, x \in Int, y \in Int, q \in Nat :
          /\ c = d[n + i] /\ x = FromDigits(b, d, n) /\ y = FromDigits(b, e, i) /\ q = Power(b, i)
    <3>1. d[n + i] \in Int
      BY <2>1 DEF DigitsUpTo
    <3>2. FromDigits(b, d, n) \in Int /\ FromDigits(b, e, i) \in Int /\ Power(b, i) \in Nat
      BY <2>1, FromDigitsType, PowerStep
    <3>3. QED
      BY <3>1, <3>2
  <2>5. Power(b, n + i) = p * q
    BY <1>2, <2>4, PowerSum
  <2>6. FromDigits(b, d, n + i) = x + p * y
    BY <1>2, <2>4
  <2>7. p * (y + c * q) = p * y + c * (p * q)
    OBVIOUS
  <2>8. QED
    BY <1>2, <2>1, <2>2, <2>3, <2>4, <2>5, <2>6, <2>7
<1> HIDE DEF S
<1>5. k \in S
  BY <1>3, <1>4, Induction DEF S
<1>6. QED
  BY <1>5 DEF S

-----------------------------------------------------------------------------
(***************************************************************************)
(* The bitwise operations: the limb by limb complements of sign and        *)
(* magnitude amount to two's complement over every number of bits that is  *)
(* enough.                                                                 *)
(***************************************************************************)

Ops == {"and", "or", "xor"}

SignedValue(neg, mag) == IF neg THEN -mag ELSE mag

(***************************************************************************)
(* Bits.                                                                   *)
(***************************************************************************)

(* The operation on two bits, and on the bits of the signs. *)
LEMMA BitOpFacts ==
  ASSUME NEW op \in Ops
  PROVE  /\ \A a, b \in {0, 1} : BitOp(op, a, b) \in {0, 1}
         /\ \A p, q \in BOOLEAN : /\ ResultNegative(op, p, q) \in BOOLEAN
                                  /\ BitOp(op, AsBit(p), AsBit(q)) = AsBit(ResultNegative(op, p, q))
<1>1. ASSUME NEW a \in {0, 1}, NEW b \in {0, 1} PROVE BitOp(op, a, b) \in {0, 1}
  <2>1. BitOp("and", a, b) = a * b /\ BitOp("or", a, b) = a + b - a * b
        /\ BitOp("xor", a, b) = (a + b) % 2
    BY DEF BitOp
  <2>2. a * b \in {0, 1} /\ a + b - a * b \in {0, 1} /\ (a + b) % 2 \in {0, 1}
    OBVIOUS
  <2>3. QED
    BY <2>1, <2>2 DEF Ops
<1>2. ASSUME NEW p \in BOOLEAN, NEW q \in BOOLEAN
      PROVE  /\ ResultNegative(op, p, q) \in BOOLEAN
             /\ BitOp(op, AsBit(p), AsBit(q)) = AsBit(ResultNegative(op, p, q))
  <2>1. CASE op = "and"
    <3>1. ResultNegative(op, p, q) = (p /\ q) /\ BitOp(op, AsBit(p), AsBit(q)) = AsBit(p) * AsBit(q)
      BY <2>1 DEF ResultNegative, BitOp
    <3>2. AsBit(p) = (IF p THEN 1 ELSE 0) /\ AsBit(q) = (IF q THEN 1 ELSE 0)
          /\ AsBit(p /\ q) = (IF p /\ q THEN 1 ELSE 0)
      BY DEF AsBit
    <3>3. BitOp(op, AsBit(p), AsBit(q)) = AsBit(p /\ q)
      BY <3>1, <3>2
    <3>4. (p /\ q) \in BOOLEAN
      OBVIOUS
    <3>5. QED
      BY <3>1, <3>3, <3>4
  <2>2. CASE op = "or"
    <3>1. ResultNegative(op, p, q) = (p \/ q)
          /\ BitOp(op, AsBit(p), AsBit(q)) = AsBit(p) + AsBit(q) - AsBit(p) * AsBit(q)
      BY <2>2 DEF ResultNegative, BitOp
    <3>2. AsBit(p) = (IF p THEN 1 ELSE 0) /\ AsBit(q) = (IF q THEN 1 ELSE 0)
          /\ AsBit(p \/ q) = (IF p \/ q THEN 1 ELSE 0)
      BY DEF AsBit
    <3>3. BitOp(op, AsBit(p), AsBit(q)) = AsBit(p \/ q)
      BY <3>1, <3>2
    <3>4. (p \/ q) \in BOOLEAN
      OBVIOUS
    <3>5. QED
      BY <3>1, <3>3, <3>4
  <2>3. CASE op = "xor"
    <3>1. /\ ResultNegative(op, p, q) = (p # q)
          /\ BitOp(op, AsBit(p), AsBit(q)) = (AsBit(p) + AsBit(q)) % 2
      BY <2>3 DEF ResultNegative, BitOp
    <3>2. AsBit(p) = (IF p THEN 1 ELSE 0) /\ AsBit(q) = (IF q THEN 1 ELSE 0)
          /\ AsBit(p # q) = (IF p # q THEN 1 ELSE 0)
      BY DEF AsBit
    <3>3. BitOp(op, AsBit(p), AsBit(q)) = AsBit(p # q)
      BY <3>1, <3>2
    <3>4. (p # q) \in BOOLEAN
      OBVIOUS
    <3>5. QED
      BY <3>1, <3>3, <3>4
  <2>4. QED
    BY <2>1, <2>2, <2>3 DEF Ops
<1>3. QED
  BY <1>1, <1>2

LEMMA BitType ==
  ASSUME NEW x \in Int, NEW i \in Nat
  PROVE  Bit(x, i) \in {0, 1}
<1>1. PICK p \in Nat \ {0} : p = Power(2, i)
  BY PowerPositive
<1>2. x \div p \in Int
  BY DivMod
<1>3. QED
  BY <1>1, <1>2 DEF Bit

(* Past the magnitude every bit is the sign. *)
LEMMA SignBits ==
  ASSUME NEW x \in Int, NEW m \in Nat, -Power(2, m) <= x, x < Power(2, m), NEW i \in Nat, m <= i
  PROVE  Bit(x, i) = AsBit(x < 0)
<1>1. PICK p \in Nat \ {0} : p = Power(2, i)
  BY PowerPositive
<1>2. PICK q \in Nat : q = Power(2, m) /\ q <= p
  <2>1. Power(2, m) \in Nat
    BY PowerPositive
  <2>2. Power(2, m) <= Power(2, i)
    BY PowerGrows
  <2>3. QED
    BY <1>1, <2>1, <2>2
<1>3. CASE x < 0
  <2>1. x + p \in 0 .. p - 1 /\ -1 \in Int /\ x = p * (-1) + (x + p)
    BY <1>2, <1>3
  <2>2. x \div p = -1
    BY <2>1, DivUnique
  <2>3. QED
    BY <1>1, <1>3, <2>2 DEF Bit, AsBit
<1>4. CASE ~(x < 0)
  <2>1. x \in 0 .. p - 1
    BY <1>2, <1>4
  <2>2. x \div p = 0
    BY <2>1, DivSmall
  <2>3. QED
    BY <1>1, <1>4, <2>2 DEF Bit, AsBit
<1>5. QED
  BY <1>3, <1>4

(* The low bits of a number are those of its remainder. *)
LEMMA BitOfRemainder ==
  ASSUME NEW x \in Int, NEW n \in Nat, NEW j \in 0 .. n - 1
  PROVE  Bit(x % Power(2, n), j) = Bit(x, j)
<1>1. j \in Nat /\ n - j - 1 \in Nat /\ n - j \in Nat /\ (n - j - 1) + 1 = n - j
      /\ j + (n - j) = n
  OBVIOUS
<1>2. PICK p \in Nat \ {0}, h \in Nat, g \in Nat, t \in Nat \ {0} :
        p = Power(2, j) /\ h = Power(2, n - j - 1) /\ g = Power(2, n - j) /\ t = Power(2, n)
  <2>1. Power(2, j) \in Nat \ {0} /\ Power(2, n - j - 1) \in Nat /\ Power(2, n - j) \in Nat
    BY <1>1, PowerPositive
  <2>2. Power(2, n) \in Nat \ {0}
    BY PowerPositive
  <2>3. QED
    BY <2>1, <2>2
<1>3. t = p * g /\ g = 2 * h
  <2>1. Power(2, j + (n - j)) = Power(2, j) * Power(2, n - j)
    BY <1>1, PowerSum
  <2>2. Power(2, (n - j - 1) + 1) = 2 * Power(2, n - j - 1)
    BY <1>1, PowerStep
  <2>3. QED
    BY <1>1, <1>2, <2>1, <2>2
<1>4. PICK q \in Int, r \in Int : q = x \div t /\ r = x % t /\ x = t * q + r
  BY DivMod
<1>5. x = p * (g * q) + r
  <2>1. t * q = p * (g * q)
    BY <1>3
  <2>2. QED
    BY <1>4, <2>1
<1>6. PICK s \in Int : s = r \div p
  BY DivMod
<1>7. x \div p = g * q + s
  <2>1. g * q \in Int
    OBVIOUS
  <2>2. QED
    BY <1>5, <1>6, <2>1, DivMultiple
<1>8. (g * q + s) % 2 = s % 2
  <2>1. h * q \in Int /\ g * q = 2 * (h * q) /\ 2 \in Nat \ {0}
    BY <1>3
  <2>2. (2 * (h * q) + s) % 2 = s % 2
    BY <2>1, DivMultiple
  <2>3. QED
    BY <2>1, <2>2
<1>9. QED
  BY <1>2, <1>4, <1>6, <1>7, <1>8 DEF Bit

(* The bits of a limb are bits of the number. *)
LEMMA BitOfDigit ==
  ASSUME NEW x \in Int, NEW i \in Nat, NEW j \in 0 .. LimbBits - 1
  PROVE  Bit(Digit(x, i), j) = Bit(x, LimbBits * i + j)
<1>1. LimbBits \in Nat /\ j \in Nat /\ LimbBits * i \in Nat
  BY LimbAssumption
<1>2. PICK b \in Nat \ {0}, p \in Nat \ {0} : b = Power(Base, i) /\ p = Power(2, j)
  <2>1. Power(Base, i) \in Nat \ {0} /\ Power(2, j) \in Nat \ {0}
    BY <1>1, BasePower, PowerPositive
  <2>2. QED
    BY <2>1
<1>3. Power(2, LimbBits * i + j) = b * p
  <2>1. Power(2, LimbBits * i + j) = Power(2, LimbBits * i) * Power(2, j)
    BY <1>1, PowerSum
  <2>2. Power(2, LimbBits * i) = Power(Base, i)
    BY <1>1, PowerPower, BaseIsPower
  <2>3. QED
    BY <1>2, <2>1, <2>2
<1>4. PICK y \in Int : y = x \div b
  BY DivMod
<1>5. x \div (b * p) = y \div p
  BY <1>4, ModTwoSteps, ZenonT(60)
<1>6. Bit(x, LimbBits * i + j) = Bit(y, j)
  BY <1>2, <1>3, <1>5 DEF Bit
<1>7. Bit(y % Power(2, LimbBits), j) = Bit(y, j)
  BY <1>1, BitOfRemainder
<1>8. QED
  BY <1>2, <1>4, <1>6, <1>7, BaseIsPower DEF Digit

(***************************************************************************)
(* Bits of the result.                                                     *)
(***************************************************************************)

(* Ones above the low digits of a binary number. *)
LEMMA FromDigitsOnes ==
  ASSUME NEW n \in Nat, NEW d, DigitsUpTo(d, n), NEW m \in 0 .. n,
         \A i \in m .. n - 1 : d[i] = 1
  PROVE  FromDigits(2, d, n) = FromDigits(2, d, m) + Power(2, n) - Power(2, m)
<1> DEFINE Claim(k) == FromDigits(2, d, m + k)
                         = FromDigits(2, d, m) + Power(2, m + k) - Power(2, m)
           S == {k \in Nat : m + k <= n => Claim(k)}
<1>1. m \in Nat /\ FromDigits(2, d, m) \in Int /\ Power(2, m) \in Nat
  <2>1. DigitsUpTo(d, m) /\ m \in Nat
    BY DEF DigitsUpTo
  <2>2. QED
    BY <2>1, FromDigitsType, PowerStep
<1>2. 0 \in S
  BY <1>1
<1>3. ASSUME NEW k \in S PROVE k + 1 \in S
  <2> SUFFICES ASSUME m + (k + 1) <= n PROVE Claim(k + 1)
    OBVIOUS
  <2>1. /\ DigitsUpTo(d, (m + k) + 1) /\ d[m + k] = 1
        /\ m + k \in Nat /\ m + (k + 1) = (m + k) + 1
    BY DEF DigitsUpTo
  <2>2. FromDigits(2, d, (m + k) + 1) = FromDigits(2, d, m + k) + 1 * Power(2, m + k)
    BY <2>1, FromDigitsStep
  <2>3. Power(2, m + k) \in Nat /\ Power(2, (m + k) + 1) = 2 * Power(2, m + k)
    BY <2>1, PowerStep
  <2>4. Claim(k)
    OBVIOUS
  <2>5. QED
    BY <1>1, <2>1, <2>2, <2>3, <2>4
<1> HIDE DEF S
<1>4. n - m \in S
  <2>1. n - m \in Nat
    OBVIOUS
  <2>2. QED
    BY <1>2, <1>3, <2>1, Induction DEF S
<1>5. m + (n - m) = n
  OBVIOUS
<1>6. QED
  BY <1>4, <1>5 DEF S

(* The operation on the low bits of two numbers. *)
LEMMA BitsOpFacts ==
  ASSUME NEW op \in Ops, NEW x \in Int, NEW y \in Int, NEW n \in Nat
  PROVE  /\ BitsOp(op, x, y, n) \in 0 .. Power(2, n) - 1
         /\ \A i \in 0 .. n - 1 : Bit(BitsOp(op, x, y, n), i) = BitOp(op, Bit(x, i), Bit(y, i))
<1> DEFINE d == [i \in 0 .. n - 1 |-> BitOp(op, Bit(x, i), Bit(y, i))]
<1>1. DigitsBelow(2, d, n)
  <2>1. ASSUME NEW i \in 0 .. n - 1 PROVE BitOp(op, Bit(x, i), Bit(y, i)) \in {0, 1}
    BY BitType, BitOpFacts
  <2>2. QED
    BY <2>1 DEF DigitsBelow
<1>2. BitsOp(op, x, y, n) = FromDigits(2, d, n)
  BY DEF BitsOp
<1>3. \A i \in 0 .. n - 1 : d[i] = BitOp(op, Bit(x, i), Bit(y, i))
  OBVIOUS
<1> HIDE DEF d
<1>4. FromDigits(2, d, n) \in 0 .. Power(2, n) - 1
  BY <1>1, FromDigitsBound
<1>5. \A i \in 0 .. n - 1 : (FromDigits(2, d, n) \div Power(2, i)) % 2 = d[i]
  BY <1>1, DigitOfSum
<1>6. QED
  BY <1>2, <1>3, <1>4, <1>5 DEF Bit

(* The operation on two limbs gives the limb of the result. *)
LEMMA LimbOpDigit ==
  ASSUME NEW op \in Ops, NEW x \in Int, NEW y \in Int, NEW n \in Nat, NEW i \in 0 .. n - 1
  PROVE  LimbOp(op, Digit(x, i), Digit(y, i)) = Digit(BitsOp(op, x, y, LimbBits * n), i)
<1> DEFINE f == BitsOp(op, x, y, LimbBits * n)
           d == [j \in 0 .. LimbBits - 1 |-> BitOp(op, Bit(Digit(x, i), j), Bit(Digit(y, i), j))]
<1>1. LimbBits \in Nat \ {0} /\ LimbBits * n \in Nat /\ i \in Nat /\ i + 1 <= n
  BY LimbAssumption
<1>2. f \in Nat /\ \A k \in 0 .. LimbBits * n - 1 : Bit(f, k) = BitOp(op, Bit(x, k), Bit(y, k))
  <2>1. Power(2, LimbBits * n) \in Nat
    BY <1>1, PowerPositive
  <2>2. QED
    BY <1>1, <2>1, BitsOpFacts
<1> HIDE DEF f
<1>3. PICK z \in 0 .. Base - 1 : z = Digit(f, i)
  <2>1. f \in Int
    BY <1>2
  <2>2. Digit(f, i) \in 0 .. Base - 1
    BY <1>1, <2>1, DigitType
  <2>3. QED
    BY <2>2
<1>4. ASSUME NEW j \in 0 .. LimbBits - 1 PROVE d[j] = (z \div Power(2, j)) % 2
  <2>1. LimbBits * i + j \in 0 .. LimbBits * n - 1
    <3>1. (i + 1) * LimbBits <= n * LimbBits
      BY <1>1, MulPos
    <3>2. (i + 1) * LimbBits = LimbBits * i + LimbBits /\ n * LimbBits = LimbBits * n
          /\ LimbBits * i \in Nat
      BY <1>1
    <3>3. QED
      BY <1>1, <3>1, <3>2
  <2>2. d[j] = BitOp(op, Bit(x, LimbBits * i + j), Bit(y, LimbBits * i + j))
    BY <1>1, BitOfDigit
  <2>3. Bit(z, j) = Bit(f, LimbBits * i + j)
    BY <1>1, <1>2, <1>3, BitOfDigit
  <2>4. QED
    BY <1>2, <2>1, <2>2, <2>3 DEF Bit
<1>5. LimbOp(op, Digit(x, i), Digit(y, i)) = FromDigits(2, d, LimbBits)
  BY DEF LimbOp, BitsOp
<1> HIDE DEF d
<1>6. FromDigits(2, d, LimbBits) = z % Power(2, LimbBits)
  BY <1>1, <1>3, <1>4, BaseType, DigitsOfNumber
<1>7. z % Base = z
  BY <1>3, BaseType
<1>8. QED
  BY <1>3, <1>5, <1>6, <1>7, BaseIsPower DEF f

(* Enough bits are those past which every bit is the sign of the result. *)
LEMMA MeaningFromLow ==
  ASSUME NEW op \in Ops, NEW x \in Int, NEW y \in Int, NEW bits \in Nat, NEW m \in 0 .. bits,
         \A i \in m .. bits - 1 :
           BitOp(op, Bit(x, i), Bit(y, i)) = AsBit(ResultNegative(op, x < 0, y < 0))
  PROVE  BitwiseMeaning(op, x, y, bits)
           = BitsOp(op, x, y, m) - (IF ResultNegative(op, x < 0, y < 0) THEN Power(2, m) ELSE 0)
<1> DEFINE d == [i \in 0 .. bits - 1 |-> BitOp(op, Bit(x, i), Bit(y, i))]
           e == [i \in 0 .. m - 1 |-> BitOp(op, Bit(x, i), Bit(y, i))]
           neg == ResultNegative(op, x < 0, y < 0)
<1>1. m \in Nat /\ m <= bits
  OBVIOUS
<1>2. \A i \in 0 .. bits - 1 : d[i] \in {0, 1}
  BY BitType, BitOpFacts
<1>3. DigitsUpTo(d, bits) /\ DigitsUpTo(d, m)
  BY <1>1, <1>2 DEF DigitsUpTo
<1>4. \A i \in 0 .. m - 1 : e[i] = d[i]
  BY <1>1
<1>5. \A i \in m .. bits - 1 : d[i] = AsBit(neg)
  OBVIOUS
<1>6. BitsOp(op, x, y, bits) = FromDigits(2, d, bits) /\ BitsOp(op, x, y, m) = FromDigits(2, e, m)
  BY DEF BitsOp
<1> HIDE DEF d, e, neg
<1>7. FromDigits(2, e, m) = FromDigits(2, d, m) /\ FromDigits(2, d, m) \in Int
  BY <1>1, <1>3, <1>4, FromDigitsFrame, FromDigitsType
<1>8. Power(2, m) \in Nat /\ Power(2, bits) \in Nat
  BY <1>1, PowerPositive
<1>9. CASE neg
  <2>1. \A i \in m .. bits - 1 : d[i] = 1
    BY <1>5, <1>9 DEF AsBit
  <2>2. FromDigits(2, d, bits) = FromDigits(2, d, m) + Power(2, bits) - Power(2, m)
    BY <1>3, <2>1, FromDigitsOnes
  <2>3. QED
    BY <1>6, <1>7, <1>8, <1>9, <2>2 DEF BitwiseMeaning, neg
<1>10. CASE ~neg
  <2>1. \A i \in m .. bits - 1 : d[i] = 0
    BY <1>5, <1>10 DEF AsBit
  <2>2. FromDigits(2, d, bits) = FromDigits(2, d, m)
    BY <1>3, <2>1, FromDigitsZeros
  <2>3. QED
    BY <1>6, <1>7, <1>8, <1>10, <2>2 DEF BitwiseMeaning, neg
<1>11. QED
  BY <1>9, <1>10

(***************************************************************************)
(* Complements.                                                            *)
(***************************************************************************)

(* the carry into limb i of the complement: every limb before it was zero *)
CarryAt(mag, neg, i) == AsBit(neg /\ mag % Power(Base, i) = 0)

(* A remainder grows by the next digit. *)
LEMMA RemainderStep ==
  ASSUME NEW x \in Nat, NEW i \in Nat
  PROVE  x % Power(Base, i + 1) = (x % Power(Base, i)) + Power(Base, i) * Digit(x, i)
<1>1. PICK p \in Nat \ {0} : p = Power(Base, i)
  BY BasePower
<1>2. PICK b \in Nat \ {0} : b = Base
  BY BaseType
<1>3. Power(Base, i + 1) = p * b
  BY <1>1, <1>2, BaseType, PowerStep
<1>4. x \in Int
  OBVIOUS
<1>5. x % (p * b) = (x % p) + p * ((x \div p) % b)
  BY <1>4, ModTwoSteps, ZenonT(60)
<1>6. QED
  BY <1>1, <1>2, <1>3, <1>5 DEF Digit

(* One limb of the complement is the digit of the negated number. *)
LEMMA ComplementedFacts ==
  ASSUME NEW mag \in Nat, NEW neg \in BOOLEAN, NEW i \in Nat
  PROVE  Complemented(Digit(mag, i), neg, CarryAt(mag, neg, i))
           = [limb |-> Digit(SignedValue(neg, mag), i), carry |-> CarryAt(mag, neg, i + 1)]
<1>1. PICK b \in Nat, p \in Nat \ {0}, pb \in Nat \ {0} :
        b = Base /\ b >= 2 /\ p = Power(Base, i) /\ pb = Power(Base, i + 1) /\ pb = p * b
  <2>1. Power(Base, i) \in Nat \ {0} /\ Power(Base, i + 1) \in Nat \ {0}
    BY BasePower
  <2>2. Power(Base, i + 1) = Power(Base, i) * Base
    BY <2>1, BaseType, PowerStep
  <2>3. QED
    BY <2>1, <2>2, BaseType
<1>2. PICK q \in Int, r \in 0 .. p - 1 :
        q = mag \div p /\ r = mag % p /\ mag = p * q + r
  BY DivMod
<1>3. b \in Nat \ {0}
  BY <1>1
<1>4. PICK h \in Int, d \in 0 .. b - 1 : h = q \div b /\ d = q % b /\ q = b * h + d
  BY <1>3, DivMod
<1>5. Digit(mag, i) = d
  BY <1>1, <1>2, <1>4 DEF Digit
<1>6. mag % pb = r + p * d
  BY <1>1, <1>2, <1>5, RemainderStep
<1>7. mag % pb = 0 <=> r = 0 /\ d = 0
  <2>1. p * d \in Nat
    BY <1>4
  <2>2. d # 0 => 1 * p <= d * p
    BY <1>4, MulPos
  <2>3. QED
    BY <1>6, <2>1, <2>2
<1>8. CASE ~neg
  <2>1. CarryAt(mag, neg, i) = 0 /\ CarryAt(mag, neg, i + 1) = 0 /\ SignedValue(neg, mag) = mag
    BY <1>8 DEF CarryAt, AsBit, SignedValue
  <2>2. QED
    BY <1>8, <2>1 DEF Complemented
<1>9. CASE neg
  <2>1. CarryAt(mag, neg, i) = (IF r = 0 THEN 1 ELSE 0) /\ SignedValue(neg, mag) = -mag
    BY <1>1, <1>2, <1>9 DEF CarryAt, AsBit, SignedValue
  <2>2. CarryAt(mag, neg, i + 1) = (IF r = 0 /\ d = 0 THEN 1 ELSE 0)
    BY <1>1, <1>7, <1>9 DEF CarryAt, AsBit
  <2>3. PICK c \in {0, 1} : c = IF r = 0 THEN 1 ELSE 0
    OBVIOUS
  <2>4. (-mag) \div p = -q - 1 + c
    <3>1. CASE r = 0
      <4>1. -mag \in Int /\ -q \in Int /\ 0 \in 0 .. p - 1 /\ -mag = p * (-q) + 0
        BY <1>2, <3>1
      <4>2. QED
        BY <2>3, <3>1, <4>1, DivUnique
    <3>2. CASE r # 0
      <4>1. p * (-q - 1) = -(p * q) - p
        OBVIOUS
      <4>2. -mag \in Int /\ -q - 1 \in Int /\ p - r \in 0 .. p - 1 /\ -mag = p * (-q - 1) + (p - r)
        BY <1>2, <3>2, <4>1
      <4>3. QED
        BY <2>3, <3>2, <4>2, DivUnique
    <3>3. QED
      BY <3>1, <3>2
  <2>5. PICK sum \in 0 .. b : sum = b - 1 - d + c
    BY <1>4, <2>3
  <2>6. -q - 1 + c = b * (-h - 1) + sum
    <3>1. b * (-h - 1) = -(b * h) - b
      OBVIOUS
    <3>2. QED
      BY <1>4, <2>5, <3>1
  <2>7. sum % b = (-q - 1 + c) % b
    <3>1. PICK g \in Int : g = -h - 1
      OBVIOUS
    <3>2. sum \in Int
      OBVIOUS
    <3>3. (b * g + sum) % b = sum % b
      BY <1>3, <3>2, DivMultiple
    <3>4. QED
      BY <2>6, <3>1, <3>3
  <2>8. sum \div b = IF r = 0 /\ d = 0 THEN 1 ELSE 0
    <3>1. CASE r = 0 /\ d = 0
      <4>1. sum = b * 1 + 0 /\ 0 \in 0 .. b - 1 /\ sum \in Int /\ 1 \in Int
        BY <1>1, <2>3, <2>5, <3>1
      <4>2. QED
        BY <1>3, <3>1, <4>1, DivUnique
    <3>2. CASE ~(r = 0 /\ d = 0)
      <4>1. sum \in 0 .. b - 1
        BY <1>1, <1>4, <2>3, <2>5, <3>2
      <4>2. QED
        BY <1>3, <3>2, <4>1, DivSmall
    <3>3. QED
      BY <3>1, <3>2
  <2>9. Digit(-mag, i) = sum % b
    BY <1>1, <2>4, <2>7 DEF Digit
  <2>10. Complemented(d, neg, c) = [limb |-> sum % b, carry |-> sum \div b]
    BY <1>1, <1>9, <2>5 DEF Complemented
  <2>11. QED
    BY <1>5, <2>1, <2>2, <2>3, <2>8, <2>9, <2>10
<1>10. QED
  BY <1>8, <1>9

(* Past the limbs of the result every bit is its sign. *)
LEMMA HighBits ==
  ASSUME NEW op \in Ops, NEW negl \in BOOLEAN, NEW negr \in BOOLEAN,
         NEW sizel \in Nat \ {0}, NEW sizer \in Nat \ {0},
         NEW v \in Nat, v < Power(Base, sizel), negl => v # 0,
         NEW w \in Nat, w < Power(Base, sizer), negr => w # 0,
         NEW i \in Nat, LimbBits * ResultSize(op, negl, negr, sizel, sizer) <= i
  PROVE  BitOp(op, Bit(SignedValue(negl, v), i), Bit(SignedValue(negr, w), i))
           = AsBit(ResultNegative(op, negl, negr))
<1> DEFINE n == ResultSize(op, negl, negr, sizel, sizer)
           a == Bit(SignedValue(negl, v), i)
           b == Bit(SignedValue(negr, w), i)
<1>1. LimbBits \in Nat \ {0}
  BY LimbAssumption
<1>2. ASSUME NEW neg \in BOOLEAN, NEW m \in Nat, NEW u \in Nat, u < Power(Base, m), neg => u # 0,
             m <= n, n \in Nat
      PROVE  Bit(SignedValue(neg, u), i) = AsBit(neg)
  <2>1. LimbBits * m \in Nat /\ Power(2, LimbBits * m) = Power(Base, m)
    BY <1>1, PowerPower, BaseIsPower
  <2>2. LimbBits * m <= i
    <3>1. m * LimbBits <= n * LimbBits
      BY <1>1, <1>2, MulPos
    <3>2. m * LimbBits = LimbBits * m /\ n * LimbBits = LimbBits * n /\ LimbBits * n \in Nat
      BY <1>1, <1>2
    <3>3. QED
      BY <2>1, <3>1, <3>2
  <2>3. PICK x \in Int : x = SignedValue(neg, u) /\ -u <= x /\ x <= u /\ (x < 0) = neg
    BY <1>2 DEF SignedValue
  <2>4. PICK p \in Nat : p = Power(2, LimbBits * m)
    BY <2>1, PowerPositive
  <2>5. -p <= x /\ x < p
    BY <1>2, <2>1, <2>3, <2>4
  <2>6. Bit(x, i) = AsBit(x < 0)
    BY <2>1, <2>2, <2>4, <2>5, SignBits
  <2>7. QED
    BY <2>3, <2>6
<1>3. a \in {0, 1} /\ b \in {0, 1}
  <2>1. SignedValue(negl, v) \in Int /\ SignedValue(negr, w) \in Int
    BY DEF SignedValue
  <2>2. QED
    BY <2>1, BitType
<1>4. n \in {sizel, sizer}
  BY DEF ResultSize
<1>5. CASE sizel <= n /\ sizer <= n
  <2>1. a = AsBit(negl) /\ b = AsBit(negr)
    BY <1>2, <1>4, <1>5
  <2>2. QED
    BY <2>1, BitOpFacts
<1>6. CASE op = "and" /\ ~negl /\ sizel <= n
  <2>1. a = 0
    BY <1>2, <1>4, <1>6 DEF AsBit
  <2>2. BitOp(op, a, b) = 0 * b
    BY <1>6, <2>1 DEF BitOp
  <2>3. AsBit(ResultNegative(op, negl, negr)) = 0
    BY <1>6 DEF ResultNegative, AsBit
  <2>4. QED
    BY <1>3, <2>2, <2>3
<1>7. CASE op = "and" /\ ~negr /\ sizer <= n
  <2>1. b = 0
    BY <1>2, <1>4, <1>7 DEF AsBit
  <2>2. BitOp(op, a, b) = a * 0
    BY <1>7, <2>1 DEF BitOp
  <2>3. AsBit(ResultNegative(op, negl, negr)) = 0
    BY <1>7 DEF ResultNegative, AsBit
  <2>4. QED
    BY <1>3, <2>2, <2>3
<1>8. QED
  <2>1. ~(op = "and" /\ ~(negl /\ negr)) => sizel <= n /\ sizer <= n
    BY DEF ResultSize
  <2>2. op = "and" /\ ~negl /\ ~negr => sizel <= n \/ sizer <= n
    BY <1>4
  <2>3. op = "and" /\ ~negl /\ negr => sizel <= n
    BY DEF ResultSize
  <2>4. op = "and" /\ negl /\ ~negr => sizer <= n
    BY DEF ResultSize
  <2> HIDE DEF n, a, b
  <2>5. QED
    BY <1>5, <1>6, <1>7, <2>1, <2>2, <2>3, <2>4 DEF a, b

(***************************************************************************)
(* The loop over the limbs.                                                *)
(***************************************************************************)

(* limbs, zero past the given size, are the digits of mag *)
Shows(limbs, size, mag) == \A i \in Nat : LimbOr0(limbs, size, i) = Digit(mag, i)

(* Numbers below a power have no digits from there on. *)
LEMMA DigitPast ==
  ASSUME NEW mag \in Nat, NEW n \in Nat, mag < Power(Base, n), NEW i \in Nat, n <= i
  PROVE  Digit(mag, i) = 0
<1>1. Power(Base, n) <= Power(Base, i) /\ Power(Base, n) \in Nat /\ Power(Base, i) \in Nat
  BY BaseType, BasePower, PowerGrows
<1>2. mag < Power(Base, i)
  BY <1>1
<1>3. QED
  BY <1>2, DigitZero

(* The written limbs of an object, and the digits of an operand. *)
LEMMA ShowsMagnitude ==
  ASSUME NEW size \in Nat, NEW limbs, IsArray(limbs, size), NEW n \in 0 .. size,
         IsWritten(limbs, n)
  PROVE  Shows(limbs, n, Magnitude(limbs, n))
<1> DEFINE v == Magnitude(limbs, n)
<1>1. v \in Nat /\ v < Power(Base, n) /\ n \in Nat
  BY MagnitudeType
<1>2. DigitsBelow(Base, limbs, n)
  BY ArrayDigits
<1>3. \A i \in 0 .. n - 1 : (FromDigits(Base, limbs, n) \div Power(Base, i)) % Base = limbs[i]
  BY <1>1, <1>2, BaseType, DigitOfSum
<1>4. \A i \in 0 .. n - 1 : limbs[i] = Digit(v, i)
  BY <1>3 DEF Digit, Magnitude
<1> HIDE DEF v
<1>5. ASSUME NEW i \in Nat PROVE LimbOr0(limbs, n, i) = Digit(v, i)
  BY <1>1, <1>4, DigitPast DEF LimbOr0
<1>6. QED
  BY <1>5 DEF Shows, v

LEMMA ShowsDigits ==
  ASSUME NEW n \in Nat, NEW w \in Nat, w < Power(Base, n)
  PROVE  Shows([i \in 0 .. n - 1 |-> Digit(w, i)], n, w)
  BY DigitPast DEF Shows, LimbOr0

(* Every step complements, combines and complements digits of numbers. *)
LEMMA BitwiseStepFacts ==
  ASSUME NEW op \in Ops, NEW negl \in BOOLEAN, NEW negr \in BOOLEAN,
         NEW sizel, NEW sizer, NEW l, NEW r,
         NEW v \in Nat, Shows(l, sizel, v), NEW w \in Nat, Shows(r, sizer, w),
         NEW n \in Nat, NEW i \in 0 .. n - 1, NEW negout \in BOOLEAN,
         negout = ResultNegative(op, negl, negr), NEW f \in Nat,
         f = BitsOp(op, SignedValue(negl, v), SignedValue(negr, w), LimbBits * n),
         NEW carries, carries.l = CarryAt(v, negl, i), carries.r = CarryAt(w, negr, i),
         carries.out = CarryAt(f, negout, i)
  PROVE  BitwiseStep(op, l, sizel, negl, r, sizer, negr, carries, i)
           = [limb |-> Digit(SignedValue(negout, f), i), l |-> CarryAt(v, negl, i + 1),
              r |-> CarryAt(w, negr, i + 1), out |-> CarryAt(f, negout, i + 1)]
<1>1. i \in Nat /\ LimbOr0(l, sizel, i) = Digit(v, i) /\ LimbOr0(r, sizer, i) = Digit(w, i)
  BY DEF Shows
<1>2. PICK x \in Int, y \in Int : x = SignedValue(negl, v) /\ y = SignedValue(negr, w)
  BY DEF SignedValue
<1>3. Complemented(LimbOr0(l, sizel, i), negl, carries.l)
        = [limb |-> Digit(x, i), carry |-> CarryAt(v, negl, i + 1)]
  BY <1>1, <1>2, ComplementedFacts
<1>4. Complemented(LimbOr0(r, sizer, i), negr, carries.r)
        = [limb |-> Digit(y, i), carry |-> CarryAt(w, negr, i + 1)]
  BY <1>1, <1>2, ComplementedFacts
<1>5. LimbOp(op, Digit(x, i), Digit(y, i)) = Digit(f, i)
  BY <1>2, LimbOpDigit
<1>6. Complemented(Digit(f, i), negout, carries.out)
        = [limb |-> Digit(SignedValue(negout, f), i), carry |-> CarryAt(f, negout, i + 1)]
  BY <1>1, ComplementedFacts
<1>7. BitwiseStep(op, l, sizel, negl, r, sizer, negr, carries, i)
        = LET left   == Complemented(LimbOr0(l, sizel, i), negl, carries.l)
              right  == Complemented(LimbOr0(r, sizer, i), negr, carries.r)
              result == Complemented(LimbOp(op, left.limb, right.limb), negout, carries.out)
          IN  [limb |-> result.limb, l |-> left.carry, r |-> right.carry, out |-> result.carry]
  BY DEF BitwiseStep
<1>8. QED
  BY <1>3, <1>4, <1>5, <1>6, <1>7

(* The limbs that eval_bitwise writes are the digits of the result, and its last carry is   *)
(* out only for the negative power of the base.                                             *)
LEMMA EvalBitwiseFacts ==
  ASSUME NEW op \in Ops, NEW negl \in BOOLEAN, NEW negr \in BOOLEAN,
         NEW sizel, NEW sizer, NEW l, NEW r,
         NEW v \in Nat, Shows(l, sizel, v), NEW w \in Nat, Shows(r, sizer, w),
         NEW n \in Nat, n = ResultSize(op, negl, negr, sizel, sizer),
         NEW negout \in BOOLEAN, negout = ResultNegative(op, negl, negr), NEW f \in Nat,
         f = BitsOp(op, SignedValue(negl, v), SignedValue(negr, w), LimbBits * n)
  PROVE  EvalBitwise(op, l, sizel, negl, r, sizer, negr)
           = [limbs |-> [i \in 0 .. n - 1 |-> Digit(SignedValue(negout, f), i)], size |-> n,
              extra |-> negout /\ f = 0]
<1> DEFINE Step(carries, i) == BitwiseStep(op, l, sizel, negl, r, sizer, negr, carries, i)
           State(i) == [limb |-> IF i = 0 THEN 0 ELSE Digit(SignedValue(negout, f), i - 1),
                        l |-> CarryAt(v, negl, i), r |-> CarryAt(w, negr, i),
                        out |-> CarryAt(f, negout, i)]
           start == [limb |-> 0, l |-> AsBit(negl), r |-> AsBit(negr), out |-> AsBit(negout)]
           g == [i \in 0 .. n |-> State(i)]
           Is(q) == q = [i \in 0 .. n |-> IF i = 0 THEN start ELSE Step(q[i - 1], i - 1)]
           loop == CHOOSE q : Is(q)
<1>1. State(0) = start
  <2>1. ASSUME NEW m \in Nat, NEW neg \in BOOLEAN PROVE CarryAt(m, neg, 0) = AsBit(neg)
    <3>1. Power(Base, 0) = 1 /\ m % 1 = 0
      BY BaseType, PowerOne
    <3>2. QED
      BY <2>1, <3>1 DEF CarryAt
  <2>2. QED
    BY <2>1
<1>2. ASSUME NEW i \in 0 .. n - 1 PROVE Step(State(i), i) = State(i + 1)
  <2>1. /\ State(i).l = CarryAt(v, negl, i) /\ State(i).r = CarryAt(w, negr, i)
        /\ State(i).out = CarryAt(f, negout, i)
    OBVIOUS
  <2>2. State(i + 1) = [limb |-> Digit(SignedValue(negout, f), i), l |-> CarryAt(v, negl, i + 1),
                        r |-> CarryAt(w, negr, i + 1), out |-> CarryAt(f, negout, i + 1)]
    <3>1. i + 1 # 0 /\ (i + 1) - 1 = i
      OBVIOUS
    <3>2. QED
      BY <3>1
  <2> HIDE DEF State
  <2>3. QED
    BY <2>1, <2>2, BitwiseStepFacts
<1> HIDE DEF State, Step, start
<1>3. Is(g)
  <2>1. ASSUME NEW i \in 0 .. n, i # 0 PROVE g[i] = Step(g[i - 1], i - 1)
    <3>1. i - 1 \in 0 .. n - 1 /\ i - 1 \in 0 .. n /\ (i - 1) + 1 = i
      BY <2>1
    <3>2. QED
      BY <1>2, <3>1
  <2>2. QED
    BY <1>1, <2>1
<1>4. Is(loop)
  BY <1>3
<1>5. EvalBitwise(op, l, sizel, negl, r, sizer, negr)
        = [limbs |-> [i \in 0 .. n - 1 |-> loop[i + 1].limb], size |-> n,
           extra |-> negout /\ loop[n].out = 1]
  BY DEF EvalBitwise, Step, start
<1> HIDE DEF loop
<1>6. loop[0] = start /\ \A k \in 0 .. n - 1 : loop[k + 1] = Step(loop[k], k)
  <2>1. ASSUME NEW k \in 0 .. n - 1 PROVE loop[k + 1] = Step(loop[k], k)
    <3>1. k + 1 \in 0 .. n /\ k + 1 # 0 /\ (k + 1) - 1 = k
      OBVIOUS
    <3>2. QED
      BY <1>4, <3>1
  <2>2. QED
    BY <1>4, <2>1
<1>7. \A k \in 0 .. n : loop[k] = g[k]
  <2>1. g[0] = start /\ \A k \in 0 .. n - 1 : g[k + 1] = Step(g[k], k)
    BY <1>1, <1>2
  <2> HIDE DEF g
  <2>2. QED
    BY <1>6, <2>1, RecursionUnique
<1>8. ASSUME NEW i \in 0 .. n - 1 PROVE loop[i + 1].limb = Digit(SignedValue(negout, f), i)
  <2>1. i + 1 \in 0 .. n /\ i + 1 # 0 /\ (i + 1) - 1 = i
    OBVIOUS
  <2>2. loop[i + 1] = State(i + 1)
    BY <1>7, <2>1
  <2>3. QED
    BY <2>1, <2>2 DEF State
<1>9. loop[n].out = 1 <=> negout /\ f = 0
  <2>1. loop[n] = State(n)
    BY <1>7
  <2>2. loop[n].out = CarryAt(f, negout, n)
    BY <2>1 DEF State
  <2>3. f < Power(Base, n)
    <3>1. SignedValue(negl, v) \in Int /\ SignedValue(negr, w) \in Int
      BY DEF SignedValue
    <3>2. LimbBits \in Nat /\ LimbBits * n \in Nat
      BY LimbAssumption
    <3>3. f \in 0 .. Power(2, LimbBits * n) - 1 /\ Power(2, LimbBits * n) \in Nat
      BY <3>1, <3>2, BitsOpFacts, PowerPositive
    <3>4. Power(2, LimbBits * n) = Power(Base, n)
      BY <3>2, PowerPower, BaseIsPower
    <3>5. QED
      BY <3>3, <3>4
  <2>4. PICK p \in Nat \ {0} : p = Power(Base, n)
    BY BasePower
  <2>5. f % p = f
    BY <2>3, <2>4, DivSmall
  <2>6. QED
    BY <2>2, <2>4, <2>5 DEF CarryAt, AsBit
<1>10. QED
  BY <1>5, <1>8, <1>9

(***************************************************************************)
(* What the operations mean.                                               *)
(***************************************************************************)

(* The result in its own limbs: the operation on the low bits, less a power of the base *)
(* when it is negative.                                                                 *)
LEMMA BitwiseMeans ==
  ASSUME NEW op \in Ops, NEW negl \in BOOLEAN, NEW negr \in BOOLEAN,
         NEW sizel \in Nat \ {0}, NEW sizer \in Nat \ {0},
         NEW v \in Nat, v < Power(Base, sizel), negl => v # 0,
         NEW w \in Nat, w < Power(Base, sizer), negr => w # 0,
         NEW n \in Nat, n = ResultSize(op, negl, negr, sizel, sizer),
         NEW negout \in BOOLEAN, negout = ResultNegative(op, negl, negr),
         NEW x \in Int, x = SignedValue(negl, v), NEW y \in Int, y = SignedValue(negr, w),
         NEW bits \in Nat, LimbBits * n <= bits
  PROVE  /\ BitsOp(op, x, y, LimbBits * n) \in 0 .. Power(Base, n) - 1
         /\ BitwiseMeaning(op, x, y, bits)
              = BitsOp(op, x, y, LimbBits * n) - (IF negout THEN Power(Base, n) ELSE 0)
<1>1. PICK m \in 0 .. bits : m = LimbBits * n /\ m \in Nat
  BY LimbAssumption
<1>2. Power(2, m) = Power(Base, n)
  BY <1>1, LimbAssumption, PowerPower, BaseIsPower
<1>3. (x < 0) = negl /\ (y < 0) = negr
  BY DEF SignedValue
<1>4. ASSUME NEW i \in m .. bits - 1
      PROVE  BitOp(op, Bit(x, i), Bit(y, i)) = AsBit(ResultNegative(op, x < 0, y < 0))
  <2>1. i \in Nat /\ LimbBits * ResultSize(op, negl, negr, sizel, sizer) <= i
    BY <1>1
  <2>2. BitOp(op, Bit(x, i), Bit(y, i)) = AsBit(ResultNegative(op, negl, negr))
    BY <2>1, HighBits
  <2>3. QED
    BY <1>3, <2>2
<1>5. BitwiseMeaning(op, x, y, bits)
        = BitsOp(op, x, y, m) - (IF ResultNegative(op, x < 0, y < 0) THEN Power(2, m) ELSE 0)
  BY <1>4, MeaningFromLow
<1>6. ResultNegative(op, x < 0, y < 0) = negout
  BY <1>3
<1>7. BitsOp(op, x, y, m) \in 0 .. Power(2, m) - 1
  BY <1>1, BitsOpFacts
<1>8. QED
  BY <1>1, <1>2, <1>5, <1>6, <1>7

(* A number with itself. *)
LEMMA BitwiseSame ==
  ASSUME NEW op \in Ops, NEW x \in Int, NEW bits \in Nat, -Power(2, bits) <= x, x < Power(2, bits)
  PROVE  BitwiseMeaning(op, x, x, bits) = IF op = "xor" THEN 0 ELSE x
<1> DEFINE d == [i \in 0 .. bits - 1 |-> BitOp(op, Bit(x, i), Bit(x, i))]
<1>1. PICK p \in Nat \ {0} : p = Power(2, bits)
  BY PowerPositive
<1>2. BitsOp(op, x, x, bits) = FromDigits(2, d, bits)
  BY DEF BitsOp
<1>3. CASE op = "xor"
  <2>1. ASSUME NEW i \in 0 .. bits - 1 PROVE d[i] = 0
    <3>1. BitOp(op, Bit(x, i), Bit(x, i)) = (Bit(x, i) + Bit(x, i)) % 2
      BY <1>3 DEF BitOp
    <3>2. PICK a \in {0, 1} : a = Bit(x, i)
      BY BitType
    <3>3. (a + a) % 2 = 0
      OBVIOUS
    <3>4. QED
      BY <3>1, <3>2, <3>3
  <2> HIDE DEF d
  <2>2. DigitsUpTo(d, bits) /\ DigitsUpTo(d, 0)
    BY <2>1 DEF DigitsUpTo
  <2>3. FromDigits(2, d, bits) = FromDigits(2, d, 0)
    BY <2>1, <2>2, FromDigitsZeros
  <2>4. FromDigits(2, d, 0) = 0
    BY <2>2, FromDigitsType
  <2>5. ~ResultNegative(op, x < 0, x < 0)
    BY <1>3 DEF ResultNegative
  <2>6. QED
    BY <1>2, <1>3, <2>3, <2>4, <2>5 DEF BitwiseMeaning
<1>4. CASE op # "xor"
  <2>1. ASSUME NEW i \in 0 .. bits - 1 PROVE d[i] = (x \div Power(2, i)) % 2
    <3>1. PICK a \in {0, 1} : a = Bit(x, i)
      BY BitType
    <3>2. BitOp(op, a, a) = a
      <4>1. CASE op = "and"
        BY <4>1 DEF BitOp
      <4>2. CASE op = "or"
        <5>1. BitOp(op, a, a) = a + a - a * a
          BY <4>2 DEF BitOp
        <5>2. QED
          BY <5>1
      <4>3. QED
        BY <1>4, <4>1, <4>2 DEF Ops
    <3>3. QED
      BY <3>1, <3>2 DEF Bit
  <2> HIDE DEF d
  <2>2. FromDigits(2, d, bits) = x % Power(2, bits)
    BY <2>1, DigitsOfNumber
  <2>3. ResultNegative(op, x < 0, x < 0) = (x < 0)
    BY <1>4 DEF ResultNegative, Ops
  <2>4. x % p = IF x < 0 THEN x + p ELSE x
    <3>1. CASE x < 0
      <4>1. x + p \in 0 .. p - 1 /\ -1 \in Int /\ x = p * (-1) + (x + p)
        BY <1>1, <3>1
      <4>2. QED
        BY <3>1, <4>1, DivUnique
    <3>2. CASE ~(x < 0)
      <4>1. x \in 0 .. p - 1
        BY <1>1, <3>2
      <4>2. QED
        BY <3>2, <4>1, DivSmall
    <3>3. QED
      BY <3>1, <3>2
  <2>5. BitwiseMeaning(op, x, x, bits)
          = (x % p) - (IF ResultNegative(op, x < 0, x < 0) THEN p ELSE 0)
    BY <1>1, <1>2, <2>2 DEF BitwiseMeaning
  <2>6. CASE x < 0
    <3>1. ResultNegative(op, x < 0, x < 0)
      BY <2>3, <2>6
    <3>2. QED
      BY <1>4, <2>4, <2>5, <2>6, <3>1
  <2>7. CASE ~(x < 0)
    <3>1. ~ResultNegative(op, x < 0, x < 0)
      BY <2>3, <2>7
    <3>2. QED
      BY <1>4, <2>4, <2>5, <2>7, <3>1
  <2>8. QED
    BY <2>6, <2>7
<1>5. QED
  BY <1>3, <1>4

=============================================================================
