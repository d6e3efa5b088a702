------------------------------- MODULE MCValues -------------------------------
(***************************************************************************)
(* Operands for the run of Values: limbs of 4 bits, numbers below 2^28.    *)
(***************************************************************************)

EXTENDS Values

\* numbers of n limbs, the top one from tops and the others from rest
Numbers(n, tops, rest) ==
  {SumFunction([i \in 0 .. n - 1 |-> h[i] * Base ^ i]) :
     h \in {g \in [0 .. n - 1 -> tops \cup rest] :
              g[n - 1] \in tops /\ \A i \in 0 .. n - 2 : g[i] \in rest}}

\* Lehmer windows that certify many quotients, one, and none; single limbs and zeros
MCNumGcds ==
  (Numbers(3, {1, 9, 15}, {0, 6, 15}) \X Numbers(3, {1, 9, 15}, {0, 15}))
  \cup (Numbers(4, {1, 13}, {0, 7, 15}) \X Numbers(3, {1, 15}, {3, 12}))
  \cup (Numbers(5, {3, 15}, {0, 7}) \X Numbers(5, {8}, {1, 15}))
  \cup (Numbers(5, {3, 15}, {0, 7}) \X {0, 1, 12, 15, 16})
  \cup ({0, 1, 12, 15, 16} \X Numbers(3, {3, 15}, {0, 7}))
  \cup ((0 .. 15) \X {0, 1, 6, 8, 15})
MCNumLcms ==
  (Numbers(3, {1, 6}, {0, 15}) \X Numbers(3, {1, 9}, {0, 6}))
  \cup ((0 .. 17) \X {0, 1, 6, 15, 17}) \cup ({0, 15, 1000, 4000} \X {0, 1, 9, 16})
MCNumMidpoints ==
  ((-17 .. 17) \X {-16, -15, -1, 0, 1, 8, 17})
  \cup ({300, 301, -300} \X {0, 1, -1, -301, 302, 303})
  \cup ({0, 1, -1, -301, 302, 303} \X {300, 301, -300})

\* an odd base of two digits to a chunk, and even ones whose powers drop zero limbs
Bases == {3, 6, 10, 12}
LongestDigits(base) == IF base = 3 THEN 16 ELSE IF base = 6 THEN 8 ELSE 7
DigitPatterns(n, base) ==
  {[i \in 1 .. n |-> base - 1], [i \in 1 .. n |-> IF i = 1 THEN 1 ELSE 0],
   [i \in 1 .. n |-> IF i < n THEN 0 ELSE 1], [i \in 1 .. n |-> (i * 5) % base],
   [i \in 1 .. n |-> IF i % 4 \in {1, 2} THEN 0 ELSE base - 1]}
MCConvInputs ==
  UNION {{[base |-> base, digits |-> d, group |-> group] :
            d \in UNION {DigitPatterns(n, base) : n \in 1 .. LongestDigits(base)},
            group \in {1, 2, 4}} : base \in Bases}
ValuesNear(base) ==
  {base ^ k + e : k \in 0 .. LongestDigits(base), e \in {-1, 0, 1}}
  \cup {(base - 1) * base ^ k : k \in 0 .. 6} \cup {5 * base ^ k + 7 : k \in 0 .. 6}
  \cup {0, 99999, 1234567}
MCConvOutputs ==
  UNION {{[base |-> base, value |-> v, group |-> group] :
            v \in ValuesNear(base), group \in {2, 4}} : base \in Bases}

\* Buffers of every size up to one more than the text; all bases but those above the limb
TextValues(base) ==
  {0, 1, 9, 15, 16, 17, 256, 4095, 4096, 65536, 1048575, 134217727} \cup {base ^ 3, base ^ 4 - 1}
Negatable(calls) == {c \in calls : c.value = 0 => ~c.neg}
MCTextPrints ==
  UNION {Negatable({[base |-> base, value |-> v, neg |-> neg, room |-> room] :
                      v \in TextValues(base), room \in (0 .. 9) \cup {26, 27, 28},
                      neg \in BOOLEAN}) : base \in {2, 3, 8, 10}}
MCTextStrings ==
  UNION {Negatable({[base |-> base, value |-> v, neg |-> neg] :
                      v \in TextValues(base) \cup {5 * base ^ k + 7 : k \in 0 .. 6},
                      neg \in BOOLEAN}) : base \in {3, 4, 5, 6, 8, 10, 12, 16}}

\* Text with and without a sign, with leading zeros, an end before the end, a prefix; into
\* storage in place and on the heap, where old limbs may reach above the new ones
Signs == {<<>>, <<Hyphen>>}
Digits(base) ==
  {<<>>} \cup UNION {DigitPatterns(n, base) : n \in 1 .. (IF base < 4 THEN 12 ELSE 7)}
Destinations == {[cap |-> 2, used |-> 1], [cap |-> 2, used |-> 2], [cap |-> 5, used |-> 5],
                 [cap |-> 9, used |-> 3]}
Parse(base, chars, d) == [base |-> base, chars |-> chars, cap |-> d.cap, used |-> d.used]
MCTextParses ==
  UNION {{Parse(base, sign \o run \o end, d) :
            sign \in Signs, run \in Digits(base), end \in {<<>>, <<Other>>},
            d \in Destinations} : base \in {2, 3, 8, 10, 16}}
  \cup {Parse(0, start \o run \o end, d) :
          start \in {<<>>, <<Hyphen>>, <<0>>, <<0, LetterB>>, <<0, LetterX>>},
          run \in {<<>>, <<7, 0, 1>>, <<1, 0, 1, 1, 0, 1>>, <<9>>}, end \in {<<>>, <<15>>},
          d \in {[cap |-> 2, used |-> 2], [cap |-> 9, used |-> 3]}}
===============================================================================
