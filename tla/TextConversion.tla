---------------------------- MODULE TextConversion ----------------------------
(***************************************************************************)
(* to_chars into a caller's buffer, to_string, from_chars into an object   *)
(* that has been used before, and from_chars_auto_base (charconv.hpp,      *)
(* string.hpp). Characters are their digit values. One step per chunk or   *)
(* block of digits; the kernels for long values are those of               *)
(* BaseConversion, used here by what they return.                          *)
(***************************************************************************)

EXTENDS BaseConversion, FiniteSets

CONSTANTS
  TextPrints,       \* records: base, value, neg, room
  TextStrings,      \* records: base, value, neg
  TextParses,       \* records: base (0: by prefix), chars, cap and used of the destination
  PrintChunks,      \* fast_output_basecase_chunks
  ParseChunks,      \* fast_input_charconv_min_chunks
  InplaceLimbs      \* inplace_capacity

VARIABLE text

TextIdle == [pc |-> "idle"]
TextInit == text = TextIdle

Hyphen == -1
Other  == -2   \* any character that is neither a letter nor a digit

\* bits that one block of digits stands for, in a base that is a power of two
BlockBits(base) == IF MaxPower(base) = 0 THEN LimbBits ELSE TrailingZeros(MaxPower(base))

Reversed(s) == [i \in DOMAIN s |-> s[Len(s) + 1 - i]]
Zeros(n) == [i \in 1 .. n |-> 0]
RoomLeft == text.room - Len(text.out)

-----------------------------------------------------------------------------
(* Printing.                                                               *)

\* std::to_chars of one limb, where the caller's buffer ends after the room that is left
StdToChars(t, digits, pc) ==
  IF Len(t.out) + Len(digits) <= t.room THEN [t EXCEPT !.out = @ \o digits, !.pc = pc]
  ELSE [t EXCEPT !.pc = "too_large"]

Sign(neg) == IF neg THEN <<Hyphen>> ELSE <<>>

\* to_chars_impl up to the first digit of a value other than 0
Printing(op, c, room) ==
  LET start == [pc |-> "print", op |-> op, base |-> c.base, value |-> c.value, neg |-> c.neg,
                room |-> room, out |-> Sign(c.neg), rest |-> c.value, at |-> 0]
  IN  CASE room = 0 -> [start EXCEPT !.pc = "too_large", !.out = <<>>]
        [] room # 0 /\ c.value = 0 -> [start EXCEPT !.pc = "printed", !.out = <<0>>]
        [] room # 0 /\ c.value # 0 ->
             IF Len(start.out) = room THEN [start EXCEPT !.pc = "too_large"] ELSE start

TextPrint ==
  /\ text = TextIdle
  /\ \E c \in TextPrints : text' = Printing("chars", c, c.room)

\* required_digits of to_basic_string
StringRoom(value, base) == DigitBound(value, base) + 1

TextString ==
  /\ text = TextIdle
  /\ \E c \in TextStrings : text' = Printing("string", c, StringRoom(c.value, c.base))

TextPrintLimb ==
  /\ text.pc = "print" /\ text.value < Base
  /\ text' = StdToChars(text, DigitsOf(text.value, text.base), "printed")

\* the bits above the whole blocks
TextPrintHead ==
  /\ text.pc = "print" /\ text.value >= Base /\ PowerOfTwoBase(text.base)
  /\ LET lead == BitWidth(text.value) % BlockBits(text.base)
         at == BitWidth(text.value) - lead
         head == (text.value \div 2 ^ at) % Base
     IN  text' = IF lead = 0 THEN [text EXCEPT !.at = at, !.pc = "blocks"]
                 ELSE StdToChars([text EXCEPT !.at = at], DigitsOf(head, text.base), "blocks")

\* one block: digit by digit, each of which may be one too many
TextPrintBlock ==
  /\ text.pc = "blocks"
  /\ LET at == text.at - BlockBits(text.base)
         chunk == text.value \div 2 ^ at % 2 ^ BlockBits(text.base)
         digits == Padded(chunk, DigitsPerLimb(text.base), text.base)
     IN  text' = IF Len(digits) <= RoomLeft
                 THEN [text EXCEPT !.out = @ \o digits, !.at = at,
                                   !.pc = IF at < BlockBits(text.base) THEN "printed" ELSE @]
                 ELSE [text EXCEPT !.out = @ \o SubSeq(digits, 1, RoomLeft), !.pc = "too_large"]

\* fast_limbs_to_digits_profitable
FastPrint(value, base) ==
  RoundedUpBy(DigitBound(value, base), DigitsPerLimb(base)) > PrintChunks

\* the kernel's digits are counted before they are copied
TextPrintKernel ==
  /\ text.pc = "print" /\ text.value >= Base /\ ~PowerOfTwoBase(text.base)
  /\ FastPrint(text.value, text.base)
  /\ text' = StdToChars(text, DigitsOf(text.value, text.base), "printed")

ChunkFits(left, width) == left >= width

\* a chunk from the low end, its digits in reverse and padded to the chunk's width
TextPrintChunk ==
  /\ \/ /\ text.pc = "print" /\ ~PowerOfTwoBase(text.base)
        /\ ~FastPrint(text.value, text.base)
     \/ text.pc = "chunks"
  /\ text.rest >= Base
  /\ LET width == DigitsPerLimb(text.base)
         step == ShortDivide(text.rest, MaxPower(text.base))
         digits == DigitsOf(step.remainder, text.base)
     IN  text' = IF ChunkFits(RoomLeft, width)
                 THEN [text EXCEPT !.pc = "chunks", !.rest = step.quotient,
                         !.out = @ \o Reversed(digits) \o Zeros(width - Len(digits))]
                 ELSE [text EXCEPT !.pc = "too_large"]

\* the last limb without padding; then everything after the sign is turned around
TextPrintTop ==
  /\ text.pc = "chunks" /\ text.rest < Base
  /\ LET sign == Len(Sign(text.neg))
         all == StdToChars(text, Reversed(DigitsOf(text.rest, text.base)), "printed")
     IN  text' = IF all.pc = "too_large" THEN all
                 ELSE [all EXCEPT !.out = SubSeq(@, 1, sign)
                                            \o Reversed(SubSeq(@, sign + 1, Len(@)))]

-----------------------------------------------------------------------------
(* The destination of a parse: storage, of which count limbs are in use.   *)

DstValue(d) == Magnitude(d.limbs, d.count)
DstOf(c) ==
  [limbs |-> [i \in 0 .. c.cap - 1 |-> IF i < c.used \/ c.cap > InplaceLimbs THEN Base - 1 ELSE 0],
   count |-> c.used, inplace |-> c.cap = InplaceLimbs, neg |-> TRUE]

\* set_zero
DstZeroed(d) ==
  [d EXCEPT !.limbs = [i \in DOMAIN @ |-> IF i = 0 \/ d.inplace THEN 0 ELSE @[i]],
            !.count = 1, !.neg = FALSE]

\* grow: limbs above the count are zero in a new block, and whatever they were in an old one
DstGrown(d, n) ==
  LET cap == Cardinality(DOMAIN d.limbs)
  IN  IF n <= cap THEN d
      ELSE [d EXCEPT !.inplace = FALSE,
                     !.limbs = [i \in 0 .. LargerOf(n, 2 * cap) - 1 |->
                                  IF i < d.count THEN d.limbs[i] ELSE 0]]

\* negate, for a leading minus sign
Negated(d, neg) == [d EXCEPT !.neg = neg /\ ~(d.count = 1 /\ d.limbs[0] = 0)]

\* unchecked_trim_magnitude before that
DstClosed(d, neg) == Negated([d EXCEPT !.count = TrimmedSize(d.limbs, @)], neg)

\* a value computed in place, as by *= and +=: limbs above it keep what they were
DstAssigned(d, v) ==
  [d EXCEPT !.limbs = Written(d.limbs, LimbsNeeded(v), v), !.count = LimbsNeeded(v),
            !.neg = FALSE]

\* unchecked_init_magnitude_bits_at
DstBitsAt(d, bits, offset) ==
  LET limb == offset \div LimbBits
      shift == offset % LimbBits
      g == DstGrown(d, IF shift = 0 THEN limb + 1 ELSE limb + 2)
      high == bits \div 2 ^ (LimbBits - shift)
      top == IF shift # 0 /\ high # 0 THEN limb + 2 ELSE limb + 1
  IN  [g EXCEPT
         !.limbs = [i \in DOMAIN @ |->
                      CASE i = limb /\ shift = 0 -> bits
                        [] i = limb /\ shift # 0 ->
                             LimbOp("or", @[i], (bits * 2 ^ shift) % Base)
                        [] i = limb + 1 /\ shift # 0 -> LimbOp("or", @[i], high)
                        [] OTHER -> @[i]],
         !.count = LargerOf(@, top)]

-----------------------------------------------------------------------------
(* Parsing.                                                                *)

IsDigit(c, base) == 0 <= c /\ c < base

\* the part of the text from the first character that may be a digit to the last that is
DigitRun(chars, base) ==
  LET first == IF chars # <<>> /\ chars[1] = Hyphen THEN 2 ELSE 1
      last == CHOOSE k \in first - 1 .. Len(chars) :
                /\ \A i \in first .. k : IsDigit(chars[i], base)
                /\ k < Len(chars) => ~IsDigit(chars[k + 1], base)
  IN  SubSeq(chars, first, last)

\* from_chars up to the end of the digits
Parsing(base, chars, d) ==
  LET start == [pc |-> "parse", op |-> "parse", base |-> base, chars |-> chars,
                neg |-> chars # <<>> /\ chars[1] = Hyphen, digits |-> DigitRun(chars, base),
                left |-> 0, bits |-> 0, dst |-> d, before |-> d]
  IN  IF start.digits = <<>> THEN [start EXCEPT !.pc = "invalid"]
      ELSE [start EXCEPT !.left = Len(start.digits)]

TextParse ==
  /\ text = TextIdle
  /\ \E c \in TextParses : c.base # 0 /\ text' = Parsing(c.base, c.chars, DstOf(c))

LetterB == 11
LetterX == 33

\* from_chars_auto_base: the base from the prefix, which does not belong to the digits
AutoBase(chars) ==
  CASE Len(chars) <= 1 \/ chars[1] # 0 -> [base |-> 10, chars |-> chars]
    [] OTHER ->
         CASE chars[2] = LetterB -> [base |-> 2, chars |-> SubSeq(chars, 3, Len(chars))]
           [] chars[2] = LetterX -> [base |-> 16, chars |-> SubSeq(chars, 3, Len(chars))]
           [] OTHER -> [base |-> 8, chars |-> chars]

TextParseAuto ==
  /\ text = TextIdle
  /\ \E c \in TextParses :
       /\ c.base = 0
       /\ text' = IF c.chars = <<>> \/ ~IsDigit(c.chars[1], 10)
                  THEN [Parsing(10, <<>>, DstOf(c)) EXCEPT !.chars = c.chars]
                  ELSE Parsing(AutoBase(c.chars).base, AutoBase(c.chars).chars, DstOf(c))

\* Mutant: the limbs that the blocks are combined with keep what they were
BlocksReadyStale(d, base, n) == DstGrown(DstZeroed(d), n)

\* Blocks of a whole limb are stored, other blocks are combined with what is there.
BlocksReady(d, base, n) ==
  LET ready == DstGrown(DstZeroed(d), n)
  IN  IF MaxPower(base) = 0 THEN ready
      ELSE [ready EXCEPT !.limbs = [i \in DOMAIN @ |-> IF i < n THEN 0 ELSE @[i]]]

TextParseReady ==
  /\ text.pc = "parse" /\ PowerOfTwoBase(text.base)
  /\ LET n == Len(text.digits)
         needed == IF MaxPower(text.base) = 0 THEN ChunkCount(n, text.base)
                   ELSE RoundedUpBy(n * DigitBitsOf(text.base), LimbBits)
     IN  text' = [text EXCEPT !.pc = "fill", !.dst = BlocksReady(@, text.base, needed)]

\* the next block from the low end
TextParseBlock ==
  /\ text.pc = "fill"
  /\ LET n == SmallerOf(text.left, DigitsPerLimb(text.base))
         block == NumberOf(SubSeq(text.digits, text.left - n + 1, text.left), text.base)
         limb == text.bits \div LimbBits
         placed == IF MaxPower(text.base) = 0
                   THEN [text.dst EXCEPT !.limbs[limb] = block, !.count = limb + 1]
                   ELSE DstBitsAt(text.dst, block, text.bits)
         last == n = text.left
     IN  text' = [text EXCEPT !.left = @ - n, !.bits = @ + BlockBits(text.base),
                              !.dst = IF last THEN DstClosed(placed, text.neg) ELSE placed,
                              !.pc = IF last THEN "parsed" ELSE @]

\* fast_digits_to_limbs_profitable, for a value that may not fit in place
FastParse(n, base) ==
  /\ ChunkCount(n, base) >= ParseChunks
  /\ LimbBound(n, base) > InplaceLimbs

\* digits_to_limbs writes every limb of the bound
TextParseKernel ==
  /\ text.pc = "parse" /\ ~PowerOfTwoBase(text.base)
  /\ FastParse(Len(text.digits), text.base)
  /\ LET bound == LimbBound(Len(text.digits), text.base)
         value == NumberOf(text.digits, text.base)
         ready == DstGrown(DstZeroed(text.dst), bound)
     IN  text' = [text EXCEPT !.pc = "parsed", !.left = 0,
                    !.dst = DstClosed([ready EXCEPT !.limbs = Written(@, bound, value),
                                                    !.count = LimbsNeeded(value)],
                                      text.neg)]

\* room for all digits, then the first block, which leaves whole blocks to follow
TextParseFirst ==
  /\ text.pc = "parse" /\ ~PowerOfTwoBase(text.base)
  /\ ~FastParse(Len(text.digits), text.base)
  /\ LET n == Len(text.digits)
         width == DigitsPerLimb(text.base)
         first == IF n % width = 0 THEN width ELSE n % width
         ready == DstGrown(text.dst, LimbBound(n, text.base))
         cleared == IF ready.inplace THEN DstZeroed(ready) ELSE ready
     IN  text' = [text EXCEPT !.pc = "horner", !.left = n - first,
                    !.dst = DstAssigned(cleared,
                                        NumberOf(SubSeq(text.digits, 1, first), text.base))]

\* out *= max_pow and out += digits, or the end of the digits
TextParseNext ==
  /\ text.pc = "horner"
  /\ LET n == Len(text.digits)
         at == n - text.left
         block == NumberOf(SubSeq(text.digits, at + 1, at + DigitsPerLimb(text.base)), text.base)
     IN  text' = IF text.left = 0
                 THEN [text EXCEPT !.pc = "parsed", !.dst = Negated(@, text.neg)]
                 ELSE [text EXCEPT !.left = @ - DigitsPerLimb(text.base),
                         !.dst = DstAssigned(@, DstValue(@) * MaxPower(text.base) + block)]

TextReturn ==
  /\ text.pc \in {"printed", "too_large", "parsed", "invalid"}
  /\ text' = TextIdle

TextEnter == TextPrint \/ TextString \/ TextParse \/ TextParseAuto

TextStep == \/ TextPrintLimb \/ TextPrintHead \/ TextPrintBlock \/ TextPrintKernel
            \/ TextPrintChunk \/ TextPrintTop
            \/ TextParseReady \/ TextParseBlock \/ TextParseKernel \/ TextParseFirst
            \/ TextParseNext \/ TextReturn

-----------------------------------------------------------------------------
(* Properties.                                                             *)

\* Nothing is written past the end of the buffer, at any chunk. A print fails exactly when
\* sign and digits do not fit, which for a string is never, and otherwise leaves exactly
\* them. A parse leaves the number of its digits, canonical, whatever limbs the destination
\* held and wherever a block crosses a limb, and an in-place tail of zeros; text that
\* does not begin with a number leaves the destination as it was.
TextExact ==
  /\ text.pc # "idle" /\ text.op # "parse" =>
       Len(text.out) <= text.room
  /\ text.pc \in {"printed", "too_large"} =>
       \E expected \in {Sign(text.neg) \o DigitsOf(text.value, text.base)} :
         IF text.pc = "printed" THEN text.out = expected
         ELSE Len(expected) > text.room /\ text.op # "string"
  /\ text.pc = "parsed" =>
       \E value \in {NumberOf(text.digits, text.base)} :
         /\ DstValue(text.dst) = value
         /\ text.dst.count = LimbsNeeded(value)
         /\ text.dst.neg = (text.neg /\ value # 0)
         /\ text.dst.inplace =>
              \A i \in DOMAIN text.dst.limbs : i >= text.dst.count => text.dst.limbs[i] = 0
  /\ text.pc = "invalid" => text.dst = text.before
================================================================================
