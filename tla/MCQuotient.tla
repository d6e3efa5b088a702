------------------------------ MODULE MCQuotient ------------------------------
(***************************************************************************)
(* Divisors of a few limbs and one of sixteen limbs that is halved three   *)
(* times, each time with the remainder just below what saturates.          *)
(***************************************************************************)

EXTENDS ApproximateQuotient

\* top limb half the radix, the others all ones
HalfAndOnes(n) == [i \in 1 .. n |-> IF i = n THEN Radix \div 2 ELSE Radix - 1]

\* A window of the divisor d of n limbs whose quotient is all ones but for the lowest limb,
\* which is low, when the lower half of the divisor is left out as often as it is halved.
WidestWindow(n, threshold, low) ==
  LET window[k \in 0 .. n] ==
        LET d == HalfAndOnes(k)
            h == k \div 2
        IN  IF k % 2 # 0 \/ k < threshold THEN Times([Ones(k) EXCEPT ![1] = low], d)
            ELSE Plus(UpLimbs(Times(Ones(h), d), h), UpLimbs(window[h], h))
  IN  window[n]

MCAqOperands ==
  {[num |-> AboveLimbs(WidestWindow(n, 3, low), 1), den |-> HalfAndOnes(n), threshold |-> 3] :
     n \in {4, 8, 16}, low \in {4, 5, 6}}
===============================================================================
