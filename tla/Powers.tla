-------------------------------- MODULE Powers --------------------------------
(***************************************************************************)
(* Powers as a recursive function, which proofs can unfold one step at a   *)
(* time; the operator ^ of the standard modules has no definition.         *)
(***************************************************************************)

EXTENDS Integers

\* b ^ n
Power(b, n) == LET p[k \in 0 .. n] == IF k = 0 THEN 1 ELSE b * p[k - 1] IN p[n]
===============================================================================
