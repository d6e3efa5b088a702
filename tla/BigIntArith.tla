----------------------------- MODULE BigIntArith -----------------------------
(***************************************************************************)
(* The compound operators of basic_big_int (basic_big_int.hpp): the paths  *)
(* that update an object in its own storage, limb by limb as far as sign,  *)
(* limb count, capacity, allocation failure and the order of the writes go.*)
(*                                                                         *)
(* One object acc is the destination of every call; the other operand is a *)
(* big integer, an integer type whose limbs are not trimmed, or acc itself.*)
(* A call that throws ends the behaviour: what it leaves behind is the     *)
(* subject of properties of its own.                                       *)
(***************************************************************************)

EXTENDS LimbArith

CONSTANTS
  InplaceCapacity,  \* inplace_capacity
  MaxLimbs,         \* max_limbs
  StackLimbs,       \* stack_limbs: products up to this size are formed on the stack
  StackDividend,    \* dividends up to this many limbs are divided with stack scratch
  KernelDividend,   \* from here on a division kernel may allocate workspace of its own
  OperandMagnitudes,\* magnitudes of the other operand
  IntegerLimbs,     \* limb counts of integer types
  MaxShift          \* largest shift distance

ASSUME ArithAssumption ==
  /\ InplaceCapacity \in Nat \ {0}
  /\ MaxLimbs \in Nat /\ InplaceCapacity <= MaxLimbs
  /\ StackLimbs \in Nat /\ InplaceCapacity < StackLimbs
  /\ StackDividend \in Nat /\ KernelDividend \in Nat /\ StackDividend < KernelDividend
  /\ MaxShift \in Nat
  /\ 0 \in OperandMagnitudes /\ OperandMagnitudes \subseteq Nat
  /\ IntegerLimbs \subseteq Nat \ {0}

VARIABLES
  acc,   \* the destination: capacity (0 in place), neg, count, limbs
  call   \* the call just made: op, rhs (the other operand, or a number), outcome

vars == <<acc, call>>

(***************************************************************************)
(* The object.                                                             *)
(***************************************************************************)

\* a limb of a runtime block that was never written
Uninitialized == Base

Room(r) == IF r.capacity = 0 THEN InplaceCapacity ELSE r.capacity
MagnitudeOf(r) == Magnitude(r.limbs, r.count)
IntegerOf(neg, mag) == IF neg THEN -mag ELSE mag
ValueOf(r) == IntegerOf(r.neg, MagnitudeOf(r))

InplaceZero == [capacity |-> 0, neg |-> FALSE, count |-> 1,
                limbs |-> [i \in 0 .. InplaceCapacity - 1 |-> 0]]

\* the other operand: its sign, magnitude and limb span size
Operands ==
  {rhs \in [neg : BOOLEAN, mag : OperandMagnitudes, size : 1 .. MaxLimbs] :
     /\ rhs.neg => rhs.mag # 0
     /\ \/ rhs.size = LimbsNeeded(rhs.mag)
        \/ rhs.size \in IntegerLimbs /\ rhs.mag < Power(Base, rhs.size)}
Self == [neg |-> acc.neg, mag |-> MagnitudeOf(acc), size |-> acc.count]

\* a shift distance or a limb count, and 0 where a call has no operand
Number(n) == [neg |-> FALSE, mag |-> n, size |-> 0]

(***************************************************************************)
(* Storage and small steps on it.                                          *)
(***************************************************************************)

\* the capacity grow and storage_for_overwrite ask for
GrownCapacity(r, n) ==
  LET wanted == IF n > 2 * Room(r) THEN n ELSE 2 * Room(r)
  IN  IF wanted > MaxLimbs THEN MaxLimbs ELSE wanted

\* grow: the limbs the count covers are copied, the rest of the new block is zero
Grown(r, n) ==
  IF n <= Room(r) THEN r
  ELSE [r EXCEPT !.capacity = GrownCapacity(r, n),
                 !.limbs = [i \in 0 .. GrownCapacity(r, n) - 1 |->
                              IF i < r.count THEN r.limbs[i] ELSE 0]]

\* storage_for_overwrite
Overwritable(r, n) ==
  IF n <= Room(r) THEN r
  ELSE [r EXCEPT !.capacity = GrownCapacity(r, n),
                 !.limbs = [i \in 0 .. GrownCapacity(r, n) - 1 |-> Uninitialized]]

\* the lowest n limbs become those of v, and n the count
WithLimbs(r, n, v) == [r EXCEPT !.limbs = Written(@, n, v), !.count = n]

\* unchecked_trim_magnitude
Trimmed(r) == [r EXCEPT !.count = TrimmedSize(r.limbs, r.count)]

Signed(r, neg) == [r EXCEPT !.neg = neg]

\* Mutant: the sign is set on a zero result too
SignedEvenIfZero(r, neg) == Signed(r, neg)

SignedUnlessZero(r, neg) == [r EXCEPT !.neg = neg /\ MagnitudeOf(r) # 0]

\* Mutant: the old limbs stay behind
TailNotCleared(r, oldCount) == r

\* clear_inline_tail(oldCount)
TailCleared(r, oldCount) ==
  IF r.capacity = 0 THEN [r EXCEPT !.limbs = Cleared(@, r.count, oldCount)] ELSE r

\* set_zero
Zeroed(r) ==
  [r EXCEPT !.limbs = Cleared(@, 0, IF r.capacity = 0 THEN InplaceCapacity ELSE 1),
            !.count = 1, !.neg = FALSE]

(***************************************************************************)
(* How a call ends.                                                        *)
(***************************************************************************)

Running == call.outcome = "ok"

Ends(op, rhs, outcome, r) ==
  /\ acc' = r
  /\ call' = [op |-> op, rhs |-> rhs, outcome |-> outcome]

Returns(op, rhs, r) == Ends(op, rhs, "ok", r)

\* room for n limbs can be had, perhaps by allocating
Attainable(r, n) == n <= Room(r) \/ n <= MaxLimbs

\* grow(n) or storage_for_overwrite(n) throws while the object is r
Throws(op, rhs, r, n) ==
  /\ n > Room(r)
  /\ Ends(op, rhs, IF n > MaxLimbs THEN "length_error" ELSE "bad_alloc", r)

\* room for n limbs is requested while the object is r; the call then completes with done
Requests(op, rhs, r, n, done) ==
  \/ Throws(op, rhs, r, n)
  \/ Attainable(r, n) /\ Returns(op, rhs, done)

\* The limbs of r are overwritten with the lowest n of v, and room for the carry limb is
\* requested only afterwards. neg is what the sign bit becomes at the very end.
Carries(op, rhs, r, n, v, neg) ==
  LET low == WithLimbs(r, n, v)
  IN  \/ /\ v < Power(Base, n)
         /\ Returns(op, rhs, Signed(low, neg))
      \/ /\ v >= Power(Base, n)
         /\ Requests(op, rhs, low, n + 1, Signed(WithLimbs(Grown(low, n + 1), n + 1, v), neg))

(***************************************************************************)
(* Addition and subtraction.                                               *)
(***************************************************************************)

\* add_in_place
AddInPlace(op, rhs, neg) ==
  LET n == acc.count
      m == LimbsNeeded(rhs.mag)
      v == MagnitudeOf(acc)
  IN  \/ /\ acc.neg = neg /\ m <= n
         /\ Carries(op, rhs, acc, n, v + rhs.mag, neg)
      \/ /\ acc.neg = neg /\ m > n
         /\ \/ Throws(op, rhs, acc, m)
            \/ Attainable(acc, m) /\ Carries(op, rhs, Grown(acc, m), m, v + rhs.mag, neg)
      \/ /\ acc.neg # neg /\ v = rhs.mag
         /\ Returns(op, rhs, Zeroed(acc))
      \/ /\ acc.neg # neg /\ v > rhs.mag
         /\ Returns(op, rhs, Trimmed(WithLimbs(acc, n, v - rhs.mag)))
      \/ /\ acc.neg # neg /\ v < rhs.mag
         /\ Requests(op, rhs, acc, m,
                     Signed(Trimmed(WithLimbs(Grown(acc, m), m, rhs.mag - v)), neg))

AddAssign(rhs) == Running /\ AddInPlace("+=", rhs, rhs.neg)
SubAssign(rhs) == Running /\ AddInPlace("-=", rhs, ~rhs.neg)
AddAssignSelf == AddAssign(Self)
SubAssignSelf == Running /\ Returns("-=", Self, Zeroed(acc))

\* unchecked_increment_magnitude of r
IncrementMagnitude(op, rhs, r) == Carries(op, rhs, r, r.count, MagnitudeOf(r) + 1, r.neg)

\* operator++
Increment ==
  /\ Running
  /\ IF acc.neg
       THEN LET less == Trimmed(WithLimbs(acc, acc.count, MagnitudeOf(acc) - 1))
            IN  Returns("++", Number(0), SignedUnlessZero(less, TRUE))
       ELSE IncrementMagnitude("++", Number(0), acc)

\* operator--; the magnitude 0 becomes 1
Decrement ==
  /\ Running
  /\ \/ acc.neg /\ IncrementMagnitude("--", Number(0), acc)
     \/ /\ ~acc.neg /\ MagnitudeOf(acc) > 0
        /\ Returns("--", Number(0), Trimmed(WithLimbs(acc, acc.count, MagnitudeOf(acc) - 1)))
     \/ /\ ~acc.neg /\ MagnitudeOf(acc) = 0
        /\ Returns("--", Number(0), Signed(WithLimbs(acc, 1, 1), TRUE))

\* negate, as unary minus of a value about to expire
Negate == Running /\ Returns("negate", Number(0), SignedUnlessZero(acc, ~acc.neg))

(***************************************************************************)
(* Shifts.                                                                 *)
(***************************************************************************)

\* Mutant: a limb is added for every bit shift
ShiftedSizeSpare(r, s) ==
  r.count + (s \div LimbBits) + (IF s % LimbBits # 0 THEN 1 ELSE 0)

\* new_n in shift_left: one more limb when the leading zeros cannot absorb the bit shift
ShiftedSize(r, s) ==
  r.count + (s \div LimbBits)
    + (IF r.limbs[r.count - 1] * Power(2, s % LimbBits) >= Base THEN 1 ELSE 0)

\* shift_left
ShiftLeft(s) ==
  /\ Running
  /\ \/ /\ s = 0 \/ acc.limbs[acc.count - 1] = 0
        /\ Returns("<<=", Number(s), acc)
     \/ /\ s # 0 /\ acc.limbs[acc.count - 1] # 0
        /\ LET n == ShiftedSize(acc, s)
           IN  Requests("<<=", Number(s), acc, n,
                        WithLimbs(Grown(acc, n), n, MagnitudeOf(acc) * Power(2, s)))

\* a negative value that loses bits is rounded towards minus infinity
RoundsDown(v, s, neg) == neg /\ v % Power(2, s) # 0

\* shift_right
ShiftRight(s) ==
  LET v     == MagnitudeOf(acc)
      whole == s \div LimbBits
      n     == acc.count - whole
      kept  == TailCleared(Trimmed(WithLimbs(acc, n, v \div Power(2, s))), acc.count)
  IN  /\ Running
      /\ \/ s = 0 /\ Returns(">>=", Number(s), acc)
         \/ /\ s # 0 /\ n <= 0
            /\ Returns(">>=", Number(s),
                 IF acc.neg THEN Signed(WithLimbs(Zeroed(acc), 1, 1), TRUE) ELSE Zeroed(acc))
         \/ /\ s # 0 /\ n > 0 /\ ~RoundsDown(v, s, acc.neg)
            /\ Returns(">>=", Number(s), kept)
         \/ /\ s # 0 /\ n > 0 /\ RoundsDown(v, s, acc.neg)
            /\ IncrementMagnitude(">>=", Number(s), kept)

(***************************************************************************)
(* Bitwise operations.                                                     *)
(***************************************************************************)

BitwiseOps == [and |-> "&=", or |-> "|=", xor |-> "^="]

\* bitwise_in_place; the limbs of the operand are rhs.size digits
BitwiseInPlace(op, rhs) ==
  LET old    == acc.count
      rlimbs == [i \in 0 .. rhs.size - 1 |-> Digit(rhs.mag, i)]
      eval   == EvalBitwise(op, acc.limbs, old, acc.neg, rlimbs, rhs.size, rhs.neg)
      negout == ResultNegative(op, acc.neg, rhs.neg)
      room   == eval.size + (IF negout THEN 1 ELSE 0)
      zeroed == [Grown(acc, room) EXCEPT !.limbs = Cleared(@, old, room)]
      extra  == IF eval.extra THEN 1 ELSE 0
      result == [zeroed EXCEPT !.count = eval.size + extra,
                   !.limbs = [i \in DOMAIN @ |-> IF i < eval.size THEN eval.limbs[i]
                                ELSE IF eval.extra /\ i = eval.size THEN 1 ELSE @[i]]]
  IN  Requests(BitwiseOps[op], rhs, acc, room, SignedUnlessZero(Trimmed(result), negout))

BitwiseAssign(op, rhs) == Running /\ BitwiseInPlace(op, rhs)

BitwiseAssignSelf(op) ==
  Running /\ Returns(BitwiseOps[op], Self, IF op = "xor" THEN Zeroed(acc) ELSE acc)

(***************************************************************************)
(* Multiplication.                                                         *)
(***************************************************************************)

\* Mutant: the old block is given up before the new one is there
OverwritesAfterRelease(op, rhs, r, n, v, neg) ==
  \/ Throws(op, rhs, [InplaceZero EXCEPT !.neg = r.neg], n)
  \/ /\ Attainable(r, n)
     /\ Returns(op, rhs,
          SignedUnlessZero(TailCleared(WithLimbs(Overwritable(r, n), n, v), r.count), neg))

\* room for n limbs whose old content is dropped, then the limbs of v and the sign
Overwrites(op, rhs, r, n, v, neg) ==
  Requests(op, rhs, r, n,
           SignedUnlessZero(TailCleared(WithLimbs(Overwritable(r, n), n, v), r.count), neg))

\* multiply_in_place
MultiplyInPlace(rhs) ==
  LET v   == MagnitudeOf(acc)
      la  == acc.count
      lb  == LimbsNeeded(rhs.mag)
      neg == acc.neg # rhs.neg
      sig == LimbsNeeded(v * rhs.mag)
      \* the product in a fresh object that is moved from afterwards
      product == [WithLimbs(Overwritable(InplaceZero, la + lb), la + lb, v * rhs.mag)
                    EXCEPT !.count = sig]
  IN  \/ /\ v = 0 \/ rhs.mag = 0
         /\ Returns("*=", rhs, Zeroed(acc))
      \/ /\ v # 0 /\ rhs.mag # 0 /\ lb = 1
         /\ Carries("*=", rhs, acc, la, v * rhs.mag, neg)
      \/ /\ v # 0 /\ lb # 1 /\ la + lb <= StackLimbs
         /\ Overwrites("*=", rhs, acc, sig, v * rhs.mag, neg)
      \/ /\ v # 0 /\ lb # 1 /\ la + lb > StackLimbs
         /\ \/ /\ la + lb <= MaxLimbs
               /\ Returns("*=", rhs, Signed(product, neg))
            \/ Ends("*=", rhs, IF la + lb > MaxLimbs THEN "length_error" ELSE "bad_alloc", acc)

MulAssign(rhs) == Running /\ MultiplyInPlace(rhs)
MulAssignSelf == MulAssign(Self)

(***************************************************************************)
(* Division, truncating. The divisor is not zero.                          *)
(***************************************************************************)

\* divmod_into after the value was moved out: acc starts over as an in-place zero, so
\* every later failure loses the value
DivideGeneral(op, rhs) ==
  LET v     == MagnitudeOf(acc)
      n     == acc.count
      left  == InplaceZero
      qcap  == n - LimbsNeeded(rhs.mag) + 1
      q     == v \div rhs.mag
      quot  == [WithLimbs(Overwritable(left, qcap), qcap, q) EXCEPT !.count = LimbsNeeded(q)]
  IN  \/ /\ v = 0 \/ (v < rhs.mag /\ op = "/=")
         /\ Returns(op, rhs, left)
      \/ /\ v # 0 /\ v < rhs.mag /\ op = "%="
         /\ Overwrites(op, rhs, left, n, v, acc.neg)
      \/ /\ v >= rhs.mag
         /\ \/ Ends(op, rhs, "bad_alloc", left)   \* the scratch allocation
            \/ /\ op = "/=" /\ n >= KernelDividend   \* the kernel's, over a fresh quotient
               /\ Ends(op, rhs, "bad_alloc", Overwritable(left, qcap))
            \/ /\ op = "/="
               /\ Requests(op, rhs, left, qcap, SignedUnlessZero(quot, acc.neg # rhs.neg))
            \/ /\ op = "%="
               /\ Overwrites(op, rhs, left, LimbsNeeded(v % rhs.mag), v % rhs.mag, acc.neg)

\* Mutant: a short division, too, moves the value out and allocates the quotient
DivideShortMovedOut(op, rhs) == DivideGeneral(op, rhs)

\* divmod_in_place_short: the quotient overwrites the dividend, also for a remainder
DivideShort(op, rhs) ==
  LET v    == MagnitudeOf(acc)
      quot == WithLimbs(acc, acc.count, v \div rhs.mag)
  IN  IF op = "/="
        THEN Returns(op, rhs, SignedUnlessZero(Trimmed(quot), acc.neg # rhs.neg))
        ELSE Returns(op, rhs, SignedUnlessZero(
               TailCleared(WithLimbs(quot, 1, v % rhs.mag), acc.count), acc.neg))

\* divide_in_place_small: long division with scratch on the stack
DivideSmall(op, rhs) ==
  LET v      == MagnitudeOf(acc)
      q      == v \div rhs.mag
      qcap   == acc.count - LimbsNeeded(rhs.mag) + 1
      quot   == [WithLimbs(acc, qcap, q) EXCEPT !.count = LimbsNeeded(q)]
      rem    == WithLimbs(acc, LimbsNeeded(v % rhs.mag), v % rhs.mag)
  IN  IF op = "/="
        THEN Returns(op, rhs, SignedUnlessZero(TailCleared(quot, acc.count), acc.neg # rhs.neg))
        ELSE Returns(op, rhs, SignedUnlessZero(TailCleared(rem, acc.count), acc.neg))

\* operator/= and operator%=: a long division stays in place while its scratch fits the stack
DivideAssign(op, rhs) ==
  LET m == LimbsNeeded(rhs.mag)
      small == m >= 2 /\ acc.count >= m /\ MagnitudeOf(acc) # 0 /\ acc.count <= StackDividend
  IN  /\ Running /\ rhs.mag # 0
      /\ \/ m = 1 /\ DivideShort(op, rhs)
         \/ m # 1 /\ small /\ DivideSmall(op, rhs)
         \/ m # 1 /\ ~small /\ DivideGeneral(op, rhs)

DivideAssignSelf(op) ==
  /\ Running /\ MagnitudeOf(acc) # 0
  /\ Returns(op, Self, IF op = "/=" THEN WithLimbs(Zeroed(acc), 1, 1) ELSE Zeroed(acc))

(***************************************************************************)
(* Assignment from an integer, and capacity.                               *)
(***************************************************************************)

\* operator=(T&&) for an integer type of rhs.size limbs: grow first, then the value is
\* written and trimmed, then limbs up to the old count are cleared
AssignInteger(rhs) ==
  LET written == Trimmed(WithLimbs(Grown(acc, rhs.size), rhs.size, rhs.mag))
      cleared == [written EXCEPT !.limbs = Cleared(@, written.count, acc.count)]
  IN  /\ Running /\ rhs.size \in IntegerLimbs
      /\ Requests("=", rhs, acc, rhs.size, Signed(cleared, rhs.neg))

\* reserve_representation
Reserve(n) == Running /\ Requests("reserve", Number(n), acc, n, Grown(acc, n))

(***************************************************************************)
(* The specification.                                                      *)
(***************************************************************************)

Init ==
  /\ acc = InplaceZero
  /\ call = [op |-> "none", rhs |-> Number(0), outcome |-> "ok"]

OperandStep ==
  \E rhs \in Operands :
    \/ AssignInteger(rhs)
    \/ AddAssign(rhs)
    \/ SubAssign(rhs)
    \/ MulAssign(rhs)
    \/ \E op \in {"/=", "%="} : DivideAssign(op, rhs)
    \/ \E op \in DOMAIN BitwiseOps : BitwiseAssign(op, rhs)

SelfStep ==
  \/ AddAssignSelf
  \/ SubAssignSelf
  \/ MulAssignSelf
  \/ \E op \in {"/=", "%="} : DivideAssignSelf(op)
  \/ \E op \in DOMAIN BitwiseOps : BitwiseAssignSelf(op)

UnaryStep ==
  \/ Increment
  \/ Decrement
  \/ Negate
  \/ \E s \in 0 .. MaxShift : ShiftLeft(s) \/ ShiftRight(s)
  \/ \E n \in 0 .. MaxLimbs + 1 : Reserve(n)

Next == OperandStep \/ SelfStep \/ UnaryStep

Spec == Init /\ [][Next]_vars

(***************************************************************************)
(* Properties.                                                             *)
(***************************************************************************)

\* Every limb that counts was written.
CountedLimbsWritten == \A i \in 0 .. acc.count - 1 : acc.limbs[i] < Base

\* The count lies within the storage and, unless a call threw, its limbs were written.
TypeOK ==
  /\ acc.capacity \in {0} \cup (InplaceCapacity + 1) .. MaxLimbs
  /\ acc.neg \in BOOLEAN
  /\ acc.count \in 1 .. Room(acc)
  /\ acc.limbs \in [0 .. Room(acc) - 1 -> 0 .. Base]
  /\ Running => CountedLimbsWritten

\* Until a call throws, the top limb is not zero unless the value is, and zero is not
\* negative: no path forgets to trim or to clear the sign.
CanonicalForm ==
  Running => /\ acc.count = LimbsNeeded(MagnitudeOf(acc))
             /\ acc.neg => MagnitudeOf(acc) # 0

\* Every in-place limb past the count is zero.
TailZero == acc.capacity = 0 => \A i \in acc.count .. InplaceCapacity - 1 : acc.limbs[i] = 0

\* TailZero as the code states it of itself.
InlineTailZero == Running => TailZero

\* Every call but the bitwise ones keeps the in-place tail zero.
TailKept ==
  [][TailZero /\ call'.outcome = "ok" /\ call'.op \notin {"&=", "|=", "^="} => TailZero']_vars

Abs(x) == IF x < 0 THEN -x ELSE x

Truncated(x, y) ==
  LET q == Abs(x) \div Abs(y)
  IN  IF (x < 0) = (y < 0) THEN q ELSE -q

\* what op means for the value x of acc, and y of the other operand
Meaning(op, x, rhs) ==
  IF op = "++" THEN x + 1
  ELSE IF op = "--" THEN x - 1
  ELSE IF op = "negate" THEN -x
  ELSE IF op = "reserve" THEN x
  ELSE IF op = "<<=" THEN x * Power(2, rhs.mag)
  ELSE IF op = ">>=" THEN x \div Power(2, rhs.mag)
  ELSE LET y    == IntegerOf(rhs.neg, rhs.mag)
           bits == LimbBits * MaxLimbs + 1
       IN  CASE op = "=" -> y
             [] op = "+=" -> x + y
             [] op = "-=" -> x - y
             [] op = "*=" -> x * y
             [] op = "/=" -> Truncated(x, y)
             [] op = "%=" -> x - y * Truncated(x, y)
             [] op = "&=" -> BitwiseMeaning("and", x, y, bits)
             [] op = "|=" -> BitwiseMeaning("or", x, y, bits)
             [] op = "^=" -> BitwiseMeaning("xor", x, y, bits)

\* A call that returns leaves exactly the integer its operator means, whatever the sizes,
\* signs and storage of the operands, and also when both are the same object.
ExactResult ==
  [][call'.outcome = "ok" => ValueOf(acc') = Meaning(call'.op, ValueOf(acc), call'.rhs)]_vars

\* A throw is harmless, or costs exactly what the code's order of steps makes it cost:
\* an operator that carries keeps the low limbs of the result and loses the carry limb,
\* a division loses the value and leaves one limb behind, zero unless it is a fresh block's.
FailureCost ==
  [][call'.outcome # "ok" =>
       \/ acc' = acc
       \/ /\ call'.op \in {"+=", "-=", "++", "--", "*="}
          /\ LET exact == Abs(Meaning(call'.op, ValueOf(acc), call'.rhs))
             IN  /\ exact >= Power(Base, acc'.count)
                 /\ MagnitudeOf(acc') = exact % Power(Base, acc'.count)
          /\ acc'.count = Room(acc')
       \/ /\ call'.op \in {"/=", "%="}
          /\ acc'.count = 1 /\ ~acc'.neg
          /\ acc'.limbs[0] # 0 => call'.op = "/=" /\ acc'.capacity # 0]_vars

\* These never allocate, so they never throw: a right shift even when rounding carries,
\* negation, and division by a single limb.
NeverThrows ==
  [][\/ call'.op \in {">>=", "negate"}
     \/ call'.op \in {"/=", "%="} /\ call'.rhs.mag < Base
     => call'.outcome = "ok" /\ acc'.capacity = acc.capacity]_vars

\* These throw only when the result does not fit the storage there is.
ThrowsOnlyWhenFull ==
  [][call'.op \in {"<<=", "++", "--"} /\ call'.outcome # "ok" =>
       LET exact == Meaning(call'.op, ValueOf(acc), call'.rhs)
       IN  LimbsNeeded(Abs(exact)) > Room(acc)]_vars

(***************************************************************************)
(* Claims of the code that do not hold (see README): InlineTailZero and    *)
(* CountedLimbsWritten above, and one that a throw can break.              *)
(***************************************************************************)

\* The sign bit is never set for a zero magnitude.
NoNegativeZero == acc.neg => MagnitudeOf(acc) # 0
=============================================================================
