------------------------------ MODULE MCMultiply ------------------------------
(***************************************************************************)
(* A small instance of the multiplication subsystem: limbs of two bits     *)
(* where limbs are counted, of 32 bits and their real constants for the    *)
(* Toom-Cook kernels, and the portable cutoffs for the workspace.          *)
(***************************************************************************)

EXTENDS Multiplication

\* n limbs that hold v
Num(n, v) == [i \in 0 .. n - 1 |-> Digit(v, i)]

\* buffers of zeros, of the largest limbs, and of both in turn
MCLeftovers == {[i \in {0} |-> 0], [i \in {0} |-> Base - 1], [i \in {0, 1} |-> i * (Base - 1)]}

\* Karatsuba: five limbs are split once, seven and eight twice; 15 limbs fit TLC's integers
KaraNumbers ==
  {Num(5, v) : v \in {1023, 256, 257, 768, 1008, 15}}
  \cup {Num(6, v) : v \in {4095, 1025}} \cup {Num(7, v) : v \in {16383, 4096, 255, 12291}}
  \cup {Num(8, v) : v \in {32767, 16384, 27306, 17407}}
MCKaraOperands ==
  {p \in KaraNumbers \X KaraNumbers : Size(p[1]) + Size(p[2]) <= 15}

\* the dispatcher: full, lowest and highest limbs, and limbs of zeros inside
DispNumbers(n) ==
  {Num(n, v) : v \in {Base ^ n - 1, Base ^ (n - 1), Base ^ n - Base ^ (n - 1) + 2}}
  \cup (IF n > 3 THEN {Num(n, Base ^ n - 1 - Base ^ (n \div 2) + Base),
                       Num(n, Base ^ (n - 1) + Base ^ (n \div 2) + 3)} ELSE {})
DispShapes == {<<1, 3>>, <<2, 3>>, <<3, 3>>, <<3, 7>>, <<3, 12>>, <<10, 4>>, <<4, 11>>,
               <<5, 5>>, <<5, 8>>, <<5, 9>>, <<6, 9>>, <<7, 7>>}
MCDispOperands ==
  UNION {DispNumbers(z[1]) \X DispNumbers(z[2]) : z \in DispShapes}
MCZones == <<[min |-> 3, num |-> 7, den |-> 4], [min |-> 5, num |-> 3, den |-> 2]>>

\* the wrapped product: halves that are 0, 1, -1 or the modulus, in every combination
Halves4 == {x + 16 * y : x, y \in {0, 1, 7, 8, 15}}
Halves8 == {x + 256 * y : x \in {0, 1, 16, 254, 255}, y \in {0, 1, 128, 255}}
MCWrapOperands ==
  {[w |-> 4, a |-> Num(4, x), b |-> Num(4, y)] : x, y \in Halves4}
  \cup {[w |-> 8, a |-> Num(8, x), b |-> Num(8, y)] : x, y \in Halves8}
  \cup {[w |-> 8, a |-> Num(5, x % 1024), b |-> Num(4, y)] : x \in Halves8, y \in {1, 120, 255}}
  \cup {[w |-> 6, a |-> Num(6, x % 4096), b |-> Num(2, y)] : x \in Halves8, y \in {0, 1, 15}}

\* Toom-Cook: limbs that make the even or the odd part of an operand, or both, the largest
FullLimb == Minus(PowerOf2(32), Wide(1))
ToomNumber(n, pattern) ==
  [i \in 1 .. n |->
     CASE pattern = "full" -> FullLimb
       [] pattern = "even" -> IF i % 2 = 1 THEN FullLimb ELSE IF i = n THEN Wide(1) ELSE <<>>
       [] pattern = "odd"  -> IF i % 2 = 0 THEN FullLimb ELSE IF i = n THEN Wide(1) ELSE <<>>
       [] pattern = "top"  -> IF i = n THEN FullLimb ELSE <<>>
       [] pattern = "steps" -> Wide(i * i + 1)]
ToomPatterns == {"full", "even", "odd", "top", "steps"}
\* shapes that every kernel takes, or refuses for the kernels below it
ToomShapes == {<<3, 3>>, <<4, 4>>, <<5, 6>>, <<6, 6>>, <<6, 7>>, <<8, 8>>, <<9, 8>>, <<8, 10>>}
MCToomOperands ==
  {<<ToomNumber(z[1], p), ToomNumber(z[2], q)>> :
     z \in ToomShapes, p \in ToomPatterns, q \in ToomPatterns}
MCToomCutoffs == [toom3 |-> 3, toom4 |-> 4, toom65 |-> 6, toom85 |-> 8]

\* sizes at the cutoffs of the portable build, balanced and as unbalanced as each tier takes
WsBalanced == {48, 60, 72, 299, 300, 399, 400, 401, 1199, 1599, 1600, 2000, 2400, 2413,
               14999, 15000, 15007, 24000}
MCWsProducts ==
  UNION {{<<n, n>>, <<n, (n * 9) \div 8>>, <<n, (n * 3) \div 2 - 1>>} : n \in WsBalanced}
  \cup {<<48, 383>>, <<399, 3191>>}
\* one of each kernel, where an operand of a recursive call may have lost half of its limbs
MCWsTrimmed == {<<60, 89>>, <<401, 600>>, <<1600, 1600>>, <<2000, 2999>>, <<399, 3191>>}
MCWsCutoffs == [fallback |-> 40, karatsuba |-> 48, toom3 |-> 400, toom4 |-> 1600,
                toom65 |-> 2400, toom85 |-> 15000]
MCWsSquareCutoffs == [karatsuba |-> 72, toom3 |-> 300, toom4 |-> 2000, toom65 |-> 2400,
                      toom85 |-> 24000]
===============================================================================
