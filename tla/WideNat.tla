------------------------------- MODULE WideNat -------------------------------
(***************************************************************************)
(* Natural numbers wider than the 32-bit integers of TLC, so that kernels  *)
(* whose correctness depends on the real limb width can be run on it.      *)
(*                                                                         *)
(* A wide number is the sequence of its digits in base 2^DigitBits, lowest *)
(* first, without leading zeros: zero is the empty sequence, and two wide  *)
(* numbers are equal iff the sequences are.                                *)
(***************************************************************************)

EXTENDS Integers, Sequences

DigitBits == 12
Radix == 2 ^ DigitBits

DigitAt(x, i) == IF i \in DOMAIN x THEN x[i] ELSE 0

\* the number whose digits are those of the function d on 1 .. n, leading zeros dropped
Trim(d, n) ==
  LET size == CHOOSE k \in 0 .. n : (k = 0 \/ d[k] # 0) /\ \A i \in k + 1 .. n : d[i] = 0
  IN  [i \in 1 .. size |-> d[i]]

\* Carries propagated through the column sums col[1] .. col[n], which may be negative: the
\* digits of the number they stand for. The carry out of the last column is dropped, so
\* the columns must be enough. f takes the columns lo .. hi with what is carried into them,
\* the lower half first.
Normal(col, n) ==
  LET f[lo \in 1 .. n, hi \in 1 .. n, c \in Int] ==
        IF lo = hi THEN LET sum == col[lo] + c
                        IN  [carry |-> sum \div Radix, digits |-> <<sum % Radix>>]
        ELSE LET mid   == (lo + hi) \div 2
                 lower == f[lo, mid, c]
                 upper == f[mid + 1, hi, lower.carry]
             IN  [carry |-> upper.carry, digits |-> lower.digits \o upper.digits]
  IN  IF n = 0 THEN <<>> ELSE Trim(f[1, n, 0].digits, n)

Longer(x, y) == IF Len(x) < Len(y) THEN Len(y) ELSE Len(x)

\* of a natural number that TLC has
Wide(v) == Normal([i \in 1 .. 3 |-> IF i = 1 THEN v ELSE 0], 3)

Plus(x, y) ==
  LET n == Longer(x, y) + 1
  IN  Normal([i \in 1 .. n |-> DigitAt(x, i) + DigitAt(y, i)], n)

\* x - y, where x is not less than y
Minus(x, y) == Normal([i \in 1 .. Len(x) |-> x[i] - DigitAt(y, i)], Len(x))

Less(x, y) ==
  \/ Len(x) < Len(y)
  \/ /\ Len(x) = Len(y)
     /\ \E i \in DOMAIN x : x[i] < y[i] /\ \A j \in i + 1 .. Len(x) : x[j] = y[j]

Times(x, y) ==
  LET n == Len(x) + Len(y)
      Low(i)  == IF i > Len(y) THEN i - Len(y) + 1 ELSE 1
      High(i) == IF i < Len(x) THEN i ELSE Len(x)
      column(i) ==
        LET f[j \in Low(i) - 1 .. High(i)] ==
              IF j < Low(i) THEN 0 ELSE f[j - 1] + x[j] * DigitAt(y, i + 1 - j)
        IN  f[High(i)]
  IN  IF x = <<>> \/ y = <<>> THEN <<>>
      ELSE Normal([i \in 1 .. n |-> IF Low(i) > High(i) THEN 0 ELSE column(i)], n)

PowerOf2(n) ==
  [i \in 1 .. n \div DigitBits + 1 |->
     IF i = n \div DigitBits + 1 THEN 2 ^ (n % DigitBits) ELSE 0]

\* x * 2^n
ShiftedUp(x, n) == Times(x, PowerOf2(n))

\* Quotient and remainder by a natural number below 2^27: each digit is brought down in
\* three parts, so that a partial remainder never exceeds what TLC holds.
DivideSmall(x, d) ==
  LET part == 2 ^ (DigitBits \div 3)
      n == Len(x)
      f[i \in 0 .. n] ==
        IF i = 0 THEN [rem |-> 0, digits |-> <<>>]
        ELSE LET above == f[i - 1]
                 digit == x[n + 1 - i]
                 high  == above.rem * part + (digit \div (part * part))
                 mid   == (high % d) * part + ((digit \div part) % part)
                 low   == (mid % d) * part + (digit % part)
                 q     == ((high \div d) * part + (mid \div d)) * part + (low \div d)
             IN  [rem |-> low % d, digits |-> <<q>> \o above.digits]
  IN  [quotient |-> Trim(f[n].digits, n), remainder |-> f[n].rem]

\* x \div 2^n and x % 2^n, for n up to 27
ShiftedDown(x, n) == DivideSmall(x, 2 ^ n).quotient
LowBits(x, n) == DivideSmall(x, 2 ^ n).remainder

\* x < 2^bits
Within(x, bits) == Less(x, PowerOf2(bits))

\* the sum of the wide numbers of a sequence
Total(s) == LET f[i \in 0 .. Len(s)] == IF i = 0 THEN <<>> ELSE Plus(f[i - 1], s[i])
            IN  f[Len(s)]

-----------------------------------------------------------------------------
(* Limbs of wide numbers.                                                  *)

One == <<1>>
Ones(n) == [i \in 1 .. n |-> Radix - 1]
LimbPower(n) == [i \in 1 .. n + 1 |-> IF i = n + 1 THEN 1 ELSE 0]

AboveLimbs(x, n) == SubSeq(x, n + 1, Len(x))
BelowLimbs(x, n) == IF Len(x) <= n THEN x ELSE Trim(x, n)
UpLimbs(x, n) == IF x = <<>> THEN x ELSE [i \in 1 .. n |-> 0] \o x

TopBits(x) == CHOOSE b \in 1 .. DigitBits : 2 ^ (b - 1) <= x[Len(x)] /\ x[Len(x)] < 2 ^ b
WideBits(x) == (Len(x) - 1) * DigitBits + TopBits(x)

\* the largest digit q with q * d <= x, found bit by bit, where x < Radix * d
QuotientDigit(x, d) ==
  LET search[b \in 0 .. DigitBits, q \in 0 .. Radix - 1] ==
        IF b = 0 THEN q
        ELSE LET up == q + 2 ^ (b - 1)
             IN  search[b - 1, IF Less(x, Times(<<up>>, d)) THEN q ELSE up]
  IN  search[DigitBits, 0]

\* what divide_unsigned returns as quotient (KnuthDivision)
WideQuotient(x, d) ==
  LET n == IF Len(x) < Len(d) THEN 0 ELSE Len(x) - Len(d) + 1
      f[i \in 0 .. n, rest \in Seq(0 .. Radix - 1)] ==
        IF i = 0 THEN <<>>
        ELSE LET down == Plus(UpLimbs(rest, 1), Wide(x[i]))
                 q == QuotientDigit(down, d)
             IN  Append(f[i - 1, Minus(down, Times(Wide(q), d))], q)
  IN  Trim(f[n, AboveLimbs(x, n)], n)
=============================================================================
