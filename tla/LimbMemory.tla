------------------------------ MODULE LimbMemory ------------------------------
(***************************************************************************)
(* Named arrays of limbs and the spans into them. A memory maps each array *)
(* to its limbs (a function from 0 .. n-1), a span is a window of one      *)
(* array. What is written through one span shows through every other span  *)
(* over the same limbs, as in std::span.                                   *)
(***************************************************************************)

EXTENDS LimbArith, Functions

Span(area, at, n) == [area |-> area, at |-> at, n |-> n]
First(s, n) == [s EXCEPT !.n = n]
Subspan(s, k) == [s EXCEPT !.at = s.at + k, !.n = s.n - k]

Limb(mem, s, i) == mem[s.area][s.at + i]

\* the number in a span
Value(mem, s) == Magnitude([i \in 0 .. s.n - 1 |-> Limb(mem, s, i)], s.n)

\* the span overwritten by the digits of v, modulo its width
Store(mem, s, v) ==
  [mem EXCEPT ![s.area] =
     [i \in DOMAIN mem[s.area] |->
        IF s.at <= i /\ i < s.at + s.n THEN Digit(v, i - s.at) ELSE mem[s.area][i]]]

Fill(mem, s) == Store(mem, s, 0)

\* trimmed_size_span, which leaves one limb of a zero
Trimmed(mem, s) == TrimmedSize([i \in 0 .. s.n - 1 |-> Limb(mem, s, i)], s.n)
TrimmedSpan(mem, s) == First(s, Trimmed(mem, s))

\* an array of n limbs that holds v, and one whose limbs are all x
ArrayOf(n, v) == [i \in 0 .. n - 1 |-> Digit(v, i)]
Filled(n, x) == [i \in 0 .. n - 1 |-> x]

LargerOf(x, y)  == IF x < y THEN y ELSE x
SmallerOf(x, y) == IF x < y THEN x ELSE y
===============================================================================
