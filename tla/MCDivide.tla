------------------------------- MODULE MCDivide -------------------------------
(***************************************************************************)
(* A small instance of the division subsystem: limbs of three bits where   *)
(* limbs are counted, of twelve where they must hold the constants of the  *)
(* code, and the cutoffs of two real builds for the workspaces.            *)
(***************************************************************************)

EXTENDS Division

\* numbers of n limbs, the top one of tops, the others of rest
Numbers(n, tops, rest) ==
  {SumFunction(f) :
     f \in {[i \in 0 .. n - 1 |-> g[i] * Base ^ i] :
              g \in {h \in [0 .. n - 1 -> tops \cup rest] :
                       h[n - 1] \in tops /\ \A i \in 0 .. n - 2 : h[i] \in rest}}}

\* normalized and unnormalized divisors, dividends that share their top limbs
MCKnuthOperands ==
  (Numbers(4, {1, 4, 7}, {0, 1, 4, 7}) \X Numbers(2, {1, 4, 5}, {0, 3, 7}))
  \cup (Numbers(5, {3, 4, 7}, {0, 3, 7}) \X Numbers(3, {1, 4}, {0, 4, 7}))
MCKnuthApprox ==
  (Numbers(4, {3, 4}, {0, 4, 7}) \X Numbers(3, {1, 4}, {0, 4, 7}))
  \cup (Numbers(5, {1, 4, 7}, {0, 3, 7}) \X Numbers(4, {1, 4}, {0, 7}))
  \cup (Numbers(6, {2, 4, 7}, {0, 7}) \X Numbers(4, {2, 4}, {0, 7}))

\* blocks of two, three and four limbs, two levels of halving
BzPairs ==
  (Numbers(6, {4, 7}, {0, 7}) \X Numbers(4, {1, 4}, {0, 7}))
  \cup (Numbers(5, {1, 4, 7}, {0, 7}) \X Numbers(2, {1, 4}, {0, 1, 7}))
  \cup (Numbers(5, {3, 4}, {0, 7}) \X Numbers(3, {1, 4}, {0, 7}))
BzCalls(pairs, thresholds) ==
  {[num |-> p[1], den |-> p[2], threshold |-> th] : p \in pairs, th \in thresholds}
MCBzOperands == BzCalls(BzPairs, {2})
MCBzQuotients ==
  BzCalls(BzPairs, {2}) \cup BzCalls(Numbers(5, {4, 7}, {0, 7}) \X Numbers(3, {1}, {0, 7}), {3, 4})
  \cup BzCalls(Numbers(5, {7}, {0, 7}) \X Numbers(4, {1}, {0}), {5})

\* Barrett: divisors of two to six limbs, the recursion ends at two; two dividends each
Wides(n, tops, rest) ==
  {s \in [1 .. n -> tops \cup rest] : s[n] \in tops /\ \A i \in 1 .. n - 1 : s[i] \in rest}
MCBarOperands ==
  {[den |-> d, nums |-> <<x, y>>, threshold |-> 2] :
     d \in Wides(2, {1, 2048, Radix - 1}, {0, Radix - 1}) \cup Wides(3, {2048, Radix - 1}, {0, 777})
           \cup Wides(5, {2048, Radix - 1}, {0, Radix - 1}) \cup Wides(6, {2048, 4000}, {777}),
     x \in {Ones(7), <<5, 6, 7, 8, 9, 1>>}, y \in {Ones(6), Ones(10), LimbPower(6)}}

\* the cutoffs of an x86-64 and an AArch64 build, and sizes at their gates
X86 == [cutoff |-> 160, offset |-> 64, march |-> 512, march8 |-> 4096, quarter |-> 49152,
        balanced |-> 196608, reciprocal |-> 512, cyclic |-> 36864]
AArch64 == [cutoff |-> 40, offset |-> 10, march |-> 9, march8 |-> 2048, quarter |-> 49152,
            balanced |-> 131072, reciprocal |-> 64, cyclic |-> 8192]
MCDwBuilds == {X86, AArch64}
MCDwDivisions ==
  {<<3, 2>>, <<40, 9>>, <<41, 2>>, <<62, 2>>, <<63, 3>>, <<144, 9>>, <<150, 9>>, <<200, 100>>,
   <<224, 160>>, <<321, 161>>, <<700, 637>>, <<1000, 319>>, <<9000, 513>>, <<9000, 517>>,
   <<20000, 1025>>, <<50000, 12000>>, <<70000, 4111>>, <<200000, 65536>>}
===============================================================================
