---------------------------- MODULE BaseConversion ----------------------------
(***************************************************************************)
(* Conversion between limbs and the digits of a base that is not a power   *)
(* of two (base_conversion.hpp). Digits are packed into chunks, the most   *)
(* that fit a limb; a ladder of squared powers of the chunk's base         *)
(* combines chunks pairwise on the way in and splits the value on the way  *)
(* out. One step per power, group of chunks, pair and field.               *)
(***************************************************************************)

EXTENDS WideOps, LimbMemory, Sequences

CONSTANTS
  ConvInputs,   \* records: base, digits (most significant first), group of the leaves
  ConvOutputs   \* records: base, value, group

VARIABLE conv

ConvIdle == [pc |-> "idle"]
ConvInit == conv = ConvIdle

-----------------------------------------------------------------------------
(* Bases (base_tables.hpp).                                                *)

RoundedUpBy(n, d) == (n + d - 1) \div d
PowerOfTwoBase(base) == \E k \in 1 .. 5 : base = 2 ^ k
DigitBitsOf(base) == CHOOSE k \in 1 .. 5 : base = 2 ^ k

\* limb_max_input_digits and limb_max_power, where 0 stands for the whole limb
DigitsPerLimb(base) ==
  IF PowerOfTwoBase(base) THEN LimbBits \div DigitBitsOf(base)
  ELSE CHOOSE k \in 1 .. LimbBits : base ^ k < Base /\ base ^ (k + 1) >= Base
MaxPower(base) == (base ^ DigitsPerLimb(base)) % Base

\* log2 of the bases from 2 to 36 in sixteenths, rounded up
Log2Sixteenths ==
  <<16, 26, 32, 38, 42, 45, 48, 51, 54, 56, 58, 60, 61, 63, 64, 66, 67, 68, 70, 71, 72, 73, 74,
    75, 76, 77, 77, 78, 79, 80, 80, 81, 82, 83, 83>>

\* its inverse in parts of 256, rounded up
InverseLog2 ==
  <<256, 162, 128, 111, 100, 92, 86, 81, 78, 75, 72, 70, 68, 66, 64, 63, 62, 61, 60, 59, 58, 57,
    56, 56, 55, 54, 54, 53, 53, 52, 52, 51, 51, 50, 50>>

CeilMulLog2(n, base) == RoundedUpBy(n * Log2Sixteenths[base - 1], 16)
CeilDivLog2(n, base) ==
  IF base = 2 THEN n ELSE RoundedUpBy(n * InverseLog2[base - 1], 256)

\* limbs that n digits may need, and digits that a value may need
LimbBound(n, base) == RoundedUpBy(CeilMulLog2(n, base), LimbBits)
DigitBound(value, base) ==
  IF BitWidth(value) <= 1 THEN 1 ELSE CeilDivLog2(BitWidth(value) - 1, base) + 1

ChunkCount(n, base) == RoundedUpBy(n, DigitsPerLimb(base))
BitCeil(n) == CHOOSE p \in {2 ^ k : k \in 0 .. 10} : n <= p /\ (p = 1 \/ p < 2 * n)

\* digits of a value, most significant first, by repeated division
DigitsOf(value, base) ==
  LET f[v \in Nat] == IF v < base THEN <<v>> ELSE Append(f[v \div base], v % base)
  IN  f[value]
NumberOf(digits, base) ==
  LET f[i \in 0 .. Len(digits)] == IF i = 0 THEN 0 ELSE f[i - 1] * base + digits[i]
  IN  f[Len(digits)]

-----------------------------------------------------------------------------
(* The chain of powers. An entry is the power without its low zero limbs.  *)

FirstPower(base) == [value |-> MaxPower(base), low |-> 0, slot |-> 1]
PowerLimbs(entry) == LimbsNeeded(entry.value)
PowerValue(entry) == entry.value * Base ^ entry.low

\* Mutant: a squared power that completes a zero limb keeps it, but counts it as dropped
DropCounted(square, r) ==
  [value |-> square, drop |-> IF 2 * r >= LimbBits THEN 1 ELSE 0]

\* the square without the limb that its trailing zeros complete
DropLowLimb(square, r) ==
  IF 2 * r >= LimbBits THEN [value |-> square \div Base, drop |-> 1]
  ELSE [value |-> square, drop |-> 0]

\* append_squared_power; r counts the trailing zero bits that are left
Appended(c, slot) ==
  LET prev == c.table[Len(c.table)]
      square == prev.value * prev.value
      next == DropLowLimb(square, c.r)
  IN  [c EXCEPT !.table = Append(@, [value |-> next.value, low |-> 2 * prev.low + next.drop,
                                     slot |-> slot]),
                !.r = 2 * @ - next.drop * LimbBits,
                !.sound = @ /\ slot >= 2 * PowerLimbs(prev)
                            /\ (next.drop = 1 => square % Base = 0)]

\* entry[j] of the table
PowerAt(c, j) == c.table[j + 1]

-----------------------------------------------------------------------------
(* Digits to limbs.                                                        *)

\* basecase_digits_to_limbs: the number, and the limbs written by the Horner steps
Horner(digits, base) ==
  LET cpl == DigitsPerLimb(base)
      n == Len(digits)
      top == IF n % cpl = 0 THEN cpl ELSE n % cpl
      f[i \in 0 .. (n - top) \div cpl] ==
        IF i = 0 THEN [value |-> NumberOf(SubSeq(digits, 1, top), base), size |-> 1]
        ELSE LET before == f[i - 1]
                 at == top + (i - 1) * cpl
                 v == before.value * MaxPower(base)
                        + NumberOf(SubSeq(digits, at + 1, at + cpl), base)
             IN  [value |-> v,
                  size |-> IF v < Base ^ before.size THEN before.size ELSE before.size + 1]
  IN  f[(n - top) \div cpl]

\* limbs of scratch asked for in advance
InputScratch(chunks, group) == IF chunks < 2 * group THEN chunks ELSE 3 * BitCeil(chunks) - 1

\* limbs of scratch in use: the two arenas and the slots of the powers
ScratchUsed(c) ==
  LET slots[j \in 0 .. Len(c.table)] == IF j = 0 THEN 0 ELSE slots[j - 1] + c.table[j].slot
  IN  2 * c.arena + slots[Len(c.table)]

Garbage(n) == Filled(n, Base - 1)

ConvRead ==
  /\ conv = ConvIdle
  /\ \E c \in ConvInputs :
       LET chunks == ChunkCount(Len(c.digits), c.base)
           arena == BitCeil(chunks)
           start == [pc |-> "power", op |-> "read", base |-> c.base, digits |-> c.digits,
                     group |-> c.group, chunks |-> chunks, arena |-> arena, sound |-> TRUE,
                     table |-> <<FirstPower(c.base)>>, r |-> TrailingZeros(MaxPower(c.base)),
                     mem |-> [x |-> Garbage(arena), y |-> Garbage(arena)],
                     cur |-> "x", next |-> "y", todo |-> 0, k |-> 0, level |-> 0]
           short == Horner(c.digits, c.base)
       IN  conv' = IF chunks < 2 * c.group
                   THEN [pc |-> "done", op |-> "read", base |-> c.base, digits |-> c.digits,
                         value |-> short.value, count |-> short.size,
                         sound |-> short.size <= chunks]
                   ELSE start

\* as many powers as the ladder has levels
ConvReadPower ==
  /\ conv.pc = "power" /\ conv.op = "read"
  /\ IF 2 ^ Len(conv.table) < conv.chunks
     THEN conv' = Appended(conv, 2 ^ Len(conv.table))
     ELSE LET groups == RoundedUpBy(conv.chunks, conv.group)
          IN  conv' = [conv EXCEPT !.pc = "leaf", !.k = groups, !.todo = 0,
                                   !.mem = Fill(@, Span("x", 0, groups * conv.group)),
                                   !.level = TrailingZeros(conv.group)]

\* the next group of chunks from the low end, into its own stride; the top one may be short
ConvLeaf ==
  /\ conv.pc = "leaf"
  /\ LET span == conv.group * DigitsPerLimb(conv.base)
         end == Len(conv.digits) - conv.todo * span
         start == IF end > span THEN end - span ELSE 0
         leaf == Horner(SubSeq(conv.digits, start + 1, end), conv.base)
         last == conv.todo + 1 = conv.k
     IN  conv' = [conv EXCEPT
           !.mem = Store(@, Span("x", conv.todo * conv.group, leaf.size), leaf.value),
           !.sound = @ /\ leaf.size <= conv.group,
           !.todo = IF last THEN 0 ELSE @ + 1, !.pc = IF last THEN "ladder" ELSE @]

Stride == 2 ^ conv.level
Element(i) == Span(conv.cur, i * Stride, Stride)
Destination(p) == Span(conv.next, p * 2 * Stride, 2 * Stride)

\* combine_level: the next pair of the level, lo + P * hi
ConvCombine ==
  /\ conv.pc = "ladder"
  /\ conv.k > 1 /\ conv.todo < conv.k \div 2
  /\ LET p == conv.todo
         lo == Value(conv.mem, Element(2 * p))
         hi == Value(conv.mem, Element(2 * p + 1))
         power == PowerAt(conv, conv.level)
         fits == /\ PowerLimbs(power) + power.low <= Stride
                 /\ LimbsNeeded(lo + PowerValue(power) * hi) <= 2 * Stride
     IN  conv' = [conv EXCEPT
           !.mem = Store(@, Destination(p), IF hi = 0 THEN lo ELSE lo + PowerValue(power) * hi),
           !.sound = @ /\ (hi # 0 => fits),
           !.todo = @ + 1]

\* a lone top element moves up as it is, with zeros above
LoneTop(mem, dst, stride, v) == Store(mem, dst, v)

\* the end of a level: the arenas change roles
ConvLevel ==
  /\ conv.pc = "ladder"
  /\ conv.k > 1 /\ conv.todo = conv.k \div 2
  /\ conv' = [conv EXCEPT
       !.mem = IF conv.k % 2 = 0 THEN @
               ELSE LoneTop(@, Destination(conv.todo), Stride,
                            Value(conv.mem, Element(conv.k - 1))),
       !.k = RoundedUpBy(@, 2), !.level = @ + 1, !.todo = 0,
       !.cur = conv.next, !.next = conv.cur]

ConvReadEnd ==
  /\ conv.pc = "ladder" /\ conv.k = 1
  /\ LET result == Span(conv.cur, 0, conv.arena)
     IN  conv' = [pc |-> "done", op |-> "read", base |-> conv.base, digits |-> conv.digits,
                  value |-> Value(conv.mem, result), count |-> Trimmed(conv.mem, result),
                  sound |-> /\ conv.sound /\ Stride = conv.arena
                            /\ ScratchUsed(conv) = InputScratch(conv.chunks, conv.group)]

-----------------------------------------------------------------------------
(* Limbs to digits.                                                        *)

\* write_chunk_digits: a chunk in exactly n digits, and without leading zeros
Padded(chunk, n, base) == [i \in 1 .. n |-> (chunk \div base ^ (n - i)) % base]

\* chunk i of a field whose highest chunk other than 0 is top
FieldDigits(chunk, i, top, keep, base) ==
  IF keep \/ i < top THEN Padded(chunk, DigitsPerLimb(base), base)
  ELSE IF i = top THEN DigitsOf(chunk, base) ELSE <<>>

\* basecase_limbs_to_digits: chunks are divided off from the low end, written from the high
Field(value, chunks, keep, base) ==
  LET peel[i \in 0 .. chunks] ==
        IF i = 0 THEN [rest |-> value, staging |-> <<>>, top |-> 0]
        ELSE LET before == peel[i - 1]
                 step == ShortDivide(before.rest, MaxPower(base))
             IN  IF before.rest = 0 THEN [before EXCEPT !.staging = Append(@, 0)]
                 ELSE [rest |-> step.quotient, staging |-> Append(before.staging, step.remainder),
                       top |-> IF step.remainder # 0 THEN i - 1 ELSE before.top]
      all == peel[chunks]
      write[i \in 0 .. chunks] ==
        IF i = 0 THEN <<>>
        ELSE FieldDigits(all.staging[i], i - 1, all.top, keep, base) \o write[i - 1]
  IN  [digits |-> write[chunks], sound |-> all.rest = 0]

ConvWrite ==
  /\ conv = ConvIdle
  /\ \E c \in ConvOutputs :
       LET chunks == RoundedUpBy(DigitBound(c.value, c.base), DigitsPerLimb(c.base))
           whole == Field(c.value, chunks, FALSE, c.base)
       IN  conv' = IF chunks <= c.group
                   THEN [pc |-> "done", op |-> "write", base |-> c.base, value |-> c.value,
                         digits |-> whole.digits, sound |-> whole.sound]
                   ELSE [pc |-> "power", op |-> "write", base |-> c.base, value |-> c.value,
                         group |-> c.group, sound |-> TRUE, digits |-> <<>>, fields |-> <<>>,
                         table |-> <<FirstPower(c.base)>>,
                         r |-> TrailingZeros(MaxPower(c.base))]

\* the square of the last power is certain to exceed the value
LastPower(powerBits, valueBits) == 2 * powerBits - 1 > valueBits

PowerBits(entry) == (entry.low + PowerLimbs(entry) - 1) * LimbBits
                      + BitWidth(Digit(entry.value, PowerLimbs(entry) - 1))

\* build_power_table_for_value, then the field of the whole value
ConvWritePower ==
  /\ conv.pc = "power" /\ conv.op = "write"
  /\ LET top == conv.table[Len(conv.table)]
     IN  conv' = IF LastPower(PowerBits(top), BitWidth(conv.value))
                 THEN [conv EXCEPT !.pc = "emit",
                         !.fields = <<[v |-> conv.value, level |-> Len(conv.table) - 1,
                                       keep |-> FALSE]>>]
                 ELSE Appended(conv, 2 * PowerLimbs(top))

TopField == conv.fields[Len(conv.fields)]
OtherFields == SubSeq(conv.fields, 1, Len(conv.fields) - 1)
FieldChunks == 2 ^ (TopField.level + 1)

\* value_reaches_power
Reaches(v, power) ==
  \/ BitWidth(v) > PowerBits(power)
  \/ BitWidth(v) = PowerBits(power) /\ v \div Base ^ power.low >= power.value

ConvEmitField ==
  /\ conv.pc = "emit" /\ conv.fields # <<>>
  /\ FieldChunks <= conv.group
  /\ \E f \in {Field(TopField.v, FieldChunks, TopField.keep, conv.base)} :
       conv' = [conv EXCEPT !.fields = OtherFields, !.digits = @ \o f.digits,
                            !.sound = @ /\ f.sound]

\* the high half is zero: written out, or left out at the top
ConvEmitLow ==
  /\ conv.pc = "emit" /\ conv.fields # <<>>
  /\ FieldChunks > conv.group
  /\ ~Reaches(TopField.v, PowerAt(conv, TopField.level))
  /\ LET zeros == (FieldChunks \div 2) * DigitsPerLimb(conv.base)
     IN  conv' = [conv EXCEPT
           !.fields = Append(OtherFields, [TopField EXCEPT !.level = @ - 1]),
           !.digits = @ \o [i \in 1 .. (IF TopField.keep THEN zeros ELSE 0) |-> 0]]

\* The limbs above the power's low zero limbs are divided by its stored value; the low limbs
\* of the field go below the remainder. The quotient's field is written first.
ConvEmitSplit ==
  /\ conv.pc = "emit" /\ conv.fields # <<>>
  /\ FieldChunks > conv.group
  /\ Reaches(TopField.v, PowerAt(conv, TopField.level))
  /\ LET power == PowerAt(conv, TopField.level)
         high == TopField.v \div Base ^ power.low
         low == TopField.v % Base ^ power.low
         below == TopField.level - 1
     IN  conv' = [conv EXCEPT
           !.fields = OtherFields \o
             <<[v |-> (high % power.value) * Base ^ power.low + low, level |-> below,
                keep |-> TRUE],
               [v |-> high \div power.value, level |-> below, keep |-> TopField.keep]>>,
           !.sound = @ /\ TopField.level >= 1 /\ LimbsNeeded(high) >= PowerLimbs(power)]

ConvWriteEnd ==
  /\ conv.pc = "emit" /\ conv.fields = <<>>
  /\ conv' = [pc |-> "done", op |-> "write", base |-> conv.base, value |-> conv.value,
              digits |-> conv.digits, sound |-> conv.sound]

ConvReturn == conv.pc = "done" /\ conv' = ConvIdle

ConvEnter == ConvRead \/ ConvWrite

ConvStep == \/ ConvReadPower \/ ConvLeaf \/ ConvCombine \/ ConvLevel \/ ConvReadEnd
            \/ ConvWritePower \/ ConvEmitField \/ ConvEmitLow \/ ConvEmitSplit
            \/ ConvWriteEnd \/ ConvReturn

-----------------------------------------------------------------------------
(* Properties.                                                             *)

\* Both directions give the same number whatever the size of the leaves, of a lone group at
\* the top and of the zero limbs that are left out of a power. On the way out every field
\* is below the square of its power, so that interior fields are exactly as wide as their
\* zeros. Digits and limbs stay within the bounds they were sized by, and the ladder
\* uses exactly the scratch it asked for.
ConversionExact ==
  /\ conv.pc # "idle" => conv.sound
  /\ conv.pc \in {"leaf", "ladder", "emit"} =>
       \A j \in 1 .. Len(conv.table) :
         PowerValue(conv.table[j]) = MaxPower(conv.base) ^ (2 ^ (j - 1))
  /\ conv.pc = "emit" =>
       \A i \in DOMAIN conv.fields :
         LET power == PowerValue(PowerAt(conv, conv.fields[i].level))
         IN  conv.fields[i].v \div power < power
  /\ conv.pc = "done" /\ conv.op = "read" =>
       /\ conv.value = NumberOf(conv.digits, conv.base)
       /\ conv.count = LimbsNeeded(conv.value)
       /\ conv.count <= LimbBound(Len(conv.digits), conv.base)
  /\ conv.pc = "done" /\ conv.op = "write" =>
       /\ conv.digits = DigitsOf(conv.value, conv.base)
       /\ Len(conv.digits) <= DigitBound(conv.value, conv.base)
================================================================================
