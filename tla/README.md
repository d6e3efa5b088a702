# Verification of beman.big_int

TLA+ models of `beman::big_int` (`src/`, a C++ library of arbitrary-precision
integers), TLC configurations that check them on small instances, and proofs
checked by TLAPS. Paths below are relative to the repository; `basic_big_int.hpp`
is `src/include/beman/big_int/basic_big_int.hpp`.

Run, in this directory:

    tlc -config storage_pmr.cfg MCBigIntStorage
    tlc -config arith.cfg MCBigIntArith
    tlc -config multiply.cfg MCMultiply
    tlc -config divide.cfg MCDivide
    tlc -config values.cfg MCValues
    tlapm BigIntStorageProofs.tla
    tlapm LimbArithProofs.tla
    tlapm LimbMemoryProofs.tla
    tlapm BigIntArithProofs.tla
    tlapm KnuthDivisionProofs.tla
    tlapm BlockDivisionProofs.tla
    tlapm MultiplicationProofs.tla
    tlapm KaratsubaProofs.tla

## 1. Inventory

The library is sequential: there are no threads, callbacks, messages or persisted
state. What is hard in it is storage that lives in a union, allocators that
differ and fail, the order of writes and allocations inside one call, operands that
are the same object, and arithmetic whose rare branches random tests miss.

| component | code | state | operations | what makes it correct |
|---|---|---|---|---|
| storage of `basic_big_int` | `basic_big_int.hpp` | `m_capacity`, `m_size_and_sign`, union `m_storage`, `m_alloc`; heap blocks | constructors, assignment, swap, destructor, `reserve`, `shrink_to_fit` | each block has one owner that can free it; strong guarantee; callers see values only |
| compound operators | `basic_big_int.hpp` | one object, the limbs of its storage | `+= -= *= /= %= <<= >>= &= \|= ^= ++ --`, negation, integer assignment | exact result, canonical form, zero in-place tail, known cost of a throw |
| value-returning operators, `div_rem` family, comparison, `to<T>` | `basic_big_int.hpp` | a fresh result | `add_into`, `multiply_into`, `assign_shifted_*`, `dispatch_bitwise`, `div_rem*` | same values as the compound forms; rounding modes; reads of the in-place tail |
| scratch allocator | `detail/scratch_allocator.hpp` | bump pointer into one block | `allocate`, `deallocate` in LIFO order | the planned size is never exceeded |
| span primitives, wide arithmetic | `detail/span_ops.hpp`, `detail/wide_ops.hpp` | none | carry and borrow chains, shifts, comparison | equal arithmetic modulo the span width |
| multiplication kernels | `detail/mul_impl.hpp`, `src/mul_dispatch.cpp`, `karatsuba.cpp`, `toom_cook_*.cpp`, `mulmod_bnm1.cpp` | output and scratch spans | tier choice, recursion, evaluation and interpolation | exact product; evaluation points' signs; workspace bound |
| FFT and NTT | `src/fft_mul*.cpp`, `ntt*.cpp`, `detail/ntt*.hpp`, `detail/mod_arith.hpp` | residue arrays | transforms, CRT | inverse of the transform; no loss in the recombination |
| division kernels | `detail/div_impl.hpp`, `src/divide.cpp` | remainder window, quotient | Knuth, Burnikel-Ziegler, Barrett, approximate quotient | quotient and remainder; at most the claimed corrections |
| gcd and numeric functions | `detail/gcd_impl.hpp`, `numeric.hpp` | the two magnitudes, cofactors | Lehmer steps, `lcm`, `midpoint`, `pow` | gcd preserved by each step, progress |
| character and base conversion | `charconv.hpp`, `detail/base_conversion.hpp`, `base_tables.hpp` | destination, digit blocks | `from_chars`, `to_chars` | round trip; a reused destination shows no old limbs |
| strings, formatting, literals | `string.hpp`, `format.hpp`, `literals.hpp` | none of their own | layout over the conversions | — |
| floating-point conversion | `detail/floats.hpp` | none | rounding to and from a binary format | nearest-even, range |
| hashing | `detail/siphash.hpp` | four words | keyed mixing | equal values hash equally, which is canonical form |
| limits, configuration, constant evaluation | `limits.hpp`, `detail/config.hpp`, `copy_to_runtime.hpp` | none | constants | — |
| SIMD and assembly kernels | `*.s`, `detail/simd/` | none | what the portable kernels compute | — |
| module interface, printers | `module/`, `extra/` | none | — | — |

How they interact: an operator of `basic_big_int` looks at sign, limb counts and
aliasing, requests room from the storage component, and hands spans of limbs to a
kernel. A kernel takes its workspace from a scratch allocator that sits on a stack
buffer or on one block from the same allocator. Afterwards the operator trims the
count, clears the in-place tail and sets the sign. The storage component and the
operators share the members of the object, and each relies on what the other leaves:
`shrink_to_fit` on a trimmed count, `to<T>` and comparison on a zero tail, `is_zero`
on an unsigned zero.

Hard behaviours (each is listed with its line in `PROJECT.json` under `hazards`):

- *Ownership over unequal allocators.* `assign_value`, the move constructors and
  `swap` decide between taking a buffer, reusing one, copying, and replacing one, by
  four traits and a comparison made at run time. A wrong branch frees through an
  allocator that cannot free, at a later and unrelated call.
- *Failure in the middle.* Any allocation may throw. What was overwritten or
  released before matters (`add_in_place` writes low limbs first, division moves the
  value out first).
- *Aliasing.* `x += x`, `x = std::move(x)`, `x /= x`.
- *Boundaries.* `max_limbs`, doubling past it, the in-place capacity, results that
  become zero, carries into a new limb, two's complement of unequal lengths.
- *Stale limbs.* In-place limbs past the count are read by `inplace_to_bit_uint`; kernels
  work in buffers that earlier calls used, and `from_chars` in an object that held
  another value.
- *Estimates and their corrections.* Quotient digits, windows, reciprocals and Lehmer
  quotients are guessed from leading limbs and then corrected or rejected. On 64-bit
  limbs the rare branches have probabilities around 2^-60.
- *Workspace planned in advance.* Each recursive kernel sizes one buffer by a formula and
  then allocates from it by bumping a pointer, through gates that hand uneven
  operands to other kernels.
- *Termination.* Loops that fix a reciprocal or reduce a pair of operands, and recursion
  whose halves are not always smaller.

## 2. Plan

Order of work, most important first.

1. `BigIntValue` (abstract), `BigIntStorage`, and its proofs: ownership, legality of
   deallocation, strong guarantee, canonical objects, refinement. *Done, except the
   constructor from a range of unknown size (section 7).*
2. `LimbArith` (pure), `BigIntArith`: compound operators on one object, which composes
   the limb arithmetic with the storage steps of item 1 at the level of single limbs.
   *Done.* The abstract specification is integer arithmetic: `ExactResult`.
3. Multiplication: the recursive kernels, the dispatchers, the product modulo B^w - 1 and
   the workspace, composed in `Multiplication`. *Done.*
4. Division: schoolbook, block-wise and Barrett kernels and their workspaces, composed in
   `Division`. *Done.*
5. Numeric functions, base conversion and text, composed in `Values`. *Done.*
6. Value-returning operators, `div_rem` rounding modes, comparison, `to<T>`, as further
   operators over `LimbArith`, checked against the same `Meaning`. *Open.*
7. Conversion to and from floating point (`floats.hpp`) with a few bits of significand,
   and the modular number-theoretic transform over a small prime. *Open.*

Theorems worth proving, in order. *Done*: everything the runs check of `BigIntStorage`, its
refinement of `BigIntValue` included; everything they check of `BigIntArith`; the wide
division steps; both properties of `KnuthDivision` and of `BlockDivision`; the product modulo
B^w - 1; both properties of `ProductDispatch`; the Karatsuba recursion; the workspace of all
recursive products and of all divisions. *Open*: the interpolations of Toom-Cook; Barrett
division; the modules of item 5. No module that is to be proved about declares a RECURSIVE
operator.

## 3. Modules and their correspondence to the code

### `BigIntStorage`

| here | in the code |
|---|---|
| `obj[o].capacity`, `.neg`/`.count`, `.storage`, `.alloc` | `m_capacity`, `m_size_and_sign`, `m_storage`, `m_alloc` |
| `.alloc = NoAlloc` | before construction or after destruction |
| `.storage` is a block address or a magnitude | the union of `data.limbs` pointer and `limbs` array; which one is `m_capacity` = 0 |
| `block[b]` | an allocation: the allocator it came from, its limb count, its limbs |
| `misuse` | a `deallocate` whose preconditions were broken (dead block, wrong count, unequal allocator) |
| `call` | the call just made, its operands, and `ok`, `bad_alloc`, `length_error` or `terminated` (a throw out of a `noexcept` function) |

A magnitude is a token with a limb count. `Copied` makes limbs junk when a copy is
too short or runs past its room, so a wrong size shows as a wrong value.
`Returned(n)` lets `allocate_at_least` return up to `Surplus` limbs more.

| action | code |
|---|---|
| `Construct`, `ConstructFromLimbs` | converting constructors; random-access constructor from limbs |
| `CopyConstruct`, `CopyConstructWith`, `MoveConstruct`, `MoveConstructWith` | copy and move constructors, with and without an allocator |
| `CopyAssign`, `MoveAssign` | `operator=` through `assign_value`: `SelfAssign`, `Steals`/`TakeOver`, `AssignInBuffer`, `AssignInplace`, `AssignFresh` are its branches |
| `Swap` | `swap`, with or without the allocators |
| `Reserve`, `ShrinkToFit`, `AssignInteger`, `Destroy` | `reserve` and `reserve_representation` through `grow`; `shrink_to_fit`; `operator=(T&&)`; the destructor |

Each action is a whole call. Nothing outside can observe the middle of a call, and the
order of its steps shows in its failing alternatives: a failure is a disjunct with the
state the code would leave there.

### `BigIntValue`

What a caller is promised: a live object holds one integer; a call changes the
integers it names and no other; a failing call changes none; the source of a move holds
zero or its old value. `BigIntStorage` instantiates it as `V` with `value` mapped to
the sign and the limbs each live object points to.

### `LimbArith` and `Powers`

Pure operators, no state beyond the constant `LimbBits`: powers and positional notation
(`Power`, `Magnitude`, `Digit`, `LimbsNeeded`), `TrimmedSize`, and `EvalBitwise`, which
follows the limb loop of `eval_bitwise_into_spans` with its three carries.
`BitwiseMeaning` is the reference it is compared with. Recursion is written with
recursive functions, so that it can be proved about.

### `BigIntArith`

One object `acc`: capacity, sign, count, and every limb of its storage, in-place
tail included. `Uninitialized` (= `Base`) marks a limb of a fresh block that was not
written. The helpers keep the code's names in spirit: `Grown` is `grow` (new limbs
zero), `Overwritable` is `storage_for_overwrite` (new limbs unwritten), `Trimmed`,
`TailCleared`, `Zeroed` are `unchecked_trim_magnitude`, `clear_inline_tail`,
`set_zero`. Carry chains are taken as arithmetic modulo `Base^n` (`Written`); what is
kept is which limbs are written before which allocation is requested (`Carries`).
`AddInPlace`, `MultiplyInPlace`, `BitwiseInPlace`, `ShiftLeft`, `ShiftRight`,
`DivideShort`, `DivideSmall`, `DivideGeneral` and so on are the functions of those
names. The other operand is another big integer, an integer type whose limbs are not
trimmed (`IntegerLimbs`), or the object itself (the `...Self` actions).

Two thresholds of the code decide only where scratch comes from and are constants:
`StackLimbs` (products formed on the stack; 64 in the code) and `StackDividend`
(dividends divided with scratch on the stack). `KernelDividend` stands for the size
from which a division kernel may allocate workspace of its own. Products formed on the
stack are too short for any tier that allocates. The multiplication and division
kernels are exact by assumption here; `Multiplication` and `Division` check that.

### Kernels: `Multiplication`, `Division`, `Values`

Each of these three modules composes components that never run at the same time: a call
is chosen, runs step by step to its end, and the component is idle again. A call is a
record (or a stack of frames, where the code recurses) with a program counter; a step runs
from one interesting point of the code to the next. Kernels that call other kernels use
them by what they return, and the property of the callee is checked in the same run:
a leaf of a block division is a schoolbook division, whose exactness is
`SchoolbookDivision`; a Toom-Cook product multiplies its pieces exactly, which is what
`ToomProduct` says of the smaller call.

| module | code | what a step is |
|---|---|---|
| `LimbMemory` | `std::span` over limbs, `trimmed_size_span` | pure: named arrays and windows into them, so that what is written through one span shows through another |
| `UnwrittenMemory` | allocations and results that are not zeroed | pure: what limbs hold before they are written, a pattern over and over |
| `WideNat` | - | pure: numbers beyond TLC's integers, as digit sequences |
| `WideOps` | `wide_ops.hpp` in its portable form, `divide_short_preinv_in_place` | pure: carries, funnel shifts, reciprocals, the 2/1 and 3/2 division steps |
| `Karatsuba` | `karatsuba.cpp` | from one recursive call to the next, in a frame of the recursion, over real buffers with leftovers |
| `ProductDispatch` | dispatchers of `mul_impl.hpp`, `mul_dispatch.cpp` | one piece of a sliced product, one hand-over between tiers |
| `WrapProduct` | `mulmod_bnm1.cpp` | fold, half product, recombination of the product modulo B^w - 1 |
| `ToomCook` | `toom_cook_3/4/6_5/8_5.cpp` | one instruction of an interpolation; the four kernels and their squares are programs over named buffers |
| `Workspace` | `scratch_allocator.hpp`, the `*_storage_size` functions of `mul_impl.hpp` | allocate, recursive call, fall back to a lower tier, deallocate; sizes only |
| `KnuthDivision` | `divide_unsigned`, `divide_unsigned_approx` | one quotient digit |
| `BlockDivision` | Burnikel-Ziegler and `divide_quotient` in `divide.cpp` | one node of the recursion, one window of the march, the check of an approximate quotient |
| `ApproximateQuotient` | `divide_quotient` again, by its numbers | one exact window, one halving of the approximate one, the check |
| `BarrettDivision` | `reciprocal_span`, `barrett_march`, `divide_barrett_preinv` | one Newton step, one fix, one window, one correction |
| `DivisionSizes`, `DivisionWorkspace` | plans and `*_storage_size` functions of `div_impl.hpp`, allocations of `divide.cpp` | allocate and deallocate in nested arenas; sizes only |
| `NumericFunctions` | `numeric.hpp`, `gcd_impl.hpp` | one division, pass, simulated quotient or update of gcd; lcm and midpoint at once |
| `BaseConversion` | `base_conversion.hpp`, `base_tables.hpp` | one power, leaf, pair or field |
| `TextConversion` | `charconv.hpp`, `to_basic_string` | one chunk or block of digits |

Names are the code's where that is possible; state is the code's state at that point: in
`NumericFunctions`, `num.mem` is the three limb buffers of gcd and `num.u`, `num.v`, `num.t`
the operands that rotate through them; in `BaseConversion`, `conv.table` is the power table
(each entry without its `low` zero limbs), `conv.mem` the two arenas of the ladder and
`conv.fields` the call stack of `emit_digits`; in `TextConversion`, `text.dst` is the object
that is parsed into, its unused limbs included, and `text.out` what was written to the
caller's buffer.

Free choices, where the code decides by something that is not modelled: which sizes go to
the transforms (`ProductDispatch`, `WrapProduct`), and whether bits must be shifted or
limbs trim in `DivisionWorkspace`.

Kernels used by what they return: a division in `ApproximateQuotient` or `BarrettDivision` is
one step (`WideQuotient`, the quotient of `divide_unsigned`, and of the recursion of
`divide.cpp` in the exact windows of `ApproximateQuotient`), and so is a wrapped product in
`BarrettDivision` (`ProductsMod`, for `multiply_mod_bnm1`). That these kernels return this is
what the runs `divide` and `multiply` show of their step-by-step models, `KnuthDivision`,
`BlockDivision` and `WrapProduct`.

### `MCBigIntStorage`, `MCBigIntArith`, `MCMultiply`, `MCDivide`, `MCQuotient`, `MCValues`

Constant values for TLC; symmetry and view for the first two.

### Proof modules

| module | about |
|---|---|
| `BigIntStorageProofs` | `BigIntStorage`: ownership, values, refinement |
| `LimbArithProofs` | induction over sets of numbers, functions defined by recursion, division with remainder; what the operators of `LimbArith` compute: powers, digits, limb counts, trimmed sizes, the bitwise loop against two's complement |
| `BigIntArithProofs` | `BigIntArith` |
| `LimbMemoryProofs` | `LimbMemory`: what is stored through one span and what other spans show |
| `KnuthDivisionProofs` | the division steps of `WideOps`; `KnuthDivision`, in the composition `Division` |
| `BlockDivisionProofs` | `BlockDivision` and `DivisionWorkspace` in the same composition |
| `MultiplicationProofs` | `WrapProduct`, `ProductDispatch` and `Workspace` in the composition `Multiplication` |
| `KaratsubaProofs` | `Karatsuba` in the same composition |

## 4. Runs

Deadlock checking is off in the runs of storage and arithmetic: after `terminated`, or
after a throw in `BigIntArith`, no call is possible. It is on for `multiply`, `divide` and
`values`, where a call that could not go on would be an error.

Fairness. The storage and arithmetic runs state none: each call is one step, and what the
program calls next is not the library's business. `Multiplication` and `Division` have
loops and recursion whose end is not obvious, and assume only that a function that was
called goes on executing: weak fairness of the steps of each kernel while it is not idle.
It is written with `[]<>` instead of `WF_`, using that a kernel which is not idle always
has a step, because evaluating `ENABLED` of these steps takes too long. New calls are not
assumed.

| run | shows |
|---|---|
| `storage_pmr` | two unequal allocators that never propagate (as `std::pmr`), any allocation may throw: types, ownership, no leak, legal deallocation, canonical objects, the strong guarantee, when `noexcept` move assignment may end the program, small values never fail, refinement of `BigIntValue` |
| `storage_propagating` | two unequal allocators that propagate on copy, move and swap, surplus from `allocate_at_least`, two limbs in place: ownership, legal deallocation, which allocator each object has, refinement |
| `arith` | every operator in sequence on one object: exact results, canonical form, tail, cost of a throw, operators that may not throw |
| `multiply` | every multiplication kernel through its recursion and its signs: each product exact, each interpolation step free of borrows and remainders, each workspace large enough; every call returns |
| `divide` | every division kernel through estimates and corrections: quotient and remainder exact, approximations within their stated error, each arena large enough; every call returns |
| `values` | gcd, lcm, midpoint; digits to limbs and limbs to digits through the ladder; text into buffers of every size and into objects that held something else |
| `storage_rep_capacity`, `storage_construct_throws`, `arith_inline_tail`, `arith_negative_zero`, `arith_unwritten`, `divide_quotient` | statements of the documentation, of comments or of a test that the code does not keep (section 6) |

Properties worth knowing:

- `Owned`, `Exclusive`, `NoLeak` (together `Ownership`): block and object relate one to one,
  in number, size and allocator, after any sequence of calls and failures.
- `FailureChangesNothing`: the strong guarantee, capacities and allocators included.
- `MoveAssignTerminatesRarely`: `std::terminate` in exactly the case the comment in
  the code names.
- `ImplementsValues`: aliasing, moved-from and swapped objects have the promised value.
- `ExactResult`: every operator against integer arithmetic, `>>=` as floor, `/=` as
  truncation, bitwise as infinite two's complement.
- `FailureCost`: what a throw leaves. The operators document no guarantee, so this is
  the strongest statement that holds: the operators that carry keep the low limbs of
  the result, division loses the value, all others change nothing.
- `TailKept`: every operator but the bitwise ones keeps the in-place tail zero.
- `NeverThrows`, `ThrowsOnlyWhenFull`: right shifts, negation and single-limb division
  never allocate; `<<=`, `++`, `--` only when the result does not fit.
- `KaratsubaProduct`, `SlicedProduct`, `WrappedProduct`, `ToomProduct`: products in buffers
  with leftovers, pieces of zeros, and halves that are 0, 1 or -1 modulo B^h +/- 1.
- `ToomStepsExact`: no interpolation step borrows, leaves a remainder or outgrows its
  buffer, which is what makes the in-place programs right; `LastPieceShort`: the last slice
  fits the buffer sized for a slice.
- `WorkspaceFits`, `DivisionScratchFits`: the size formulas against what the recursion
  takes, with the cutoffs of real builds and across every gate; one operand of the
  chain may trim to half on its way down.
- `SchoolbookDivision`, `ApproximateDigits`, `WindowsDivide`, `QuotientAlone`,
  `BarrettDivides`: exact results, at most the corrections the comments claim, and the
  error of the approximate forms: one unit for the schoolbook kernel, two for every halving
  and one for the leaf of the recursion. `divide_quotient` allows for one per halving and two,
  so `QuotientAlone` says that it is exact where a window is halved at most once, and otherwise
  at most one too large (section 6).
- `MultiplyReturns`, `DivideReturns`: recursion and fix loops end. A call below the cutoff
  of five limbs would recurse on itself, and a verdict of the wrong sign would run the
  loop that fixes a reciprocal away from the answer.
- `NumericExact`: a quotient certified by the top two limbs is that of the full operands,
  no pass changes the greatest common divisor, and the in-place tail is clean.
  `GcdShrinks`: each division, binary step or update makes the operands smaller.
- `ConversionExact`: the ladder with dropped zero limbs, lone top groups and interior
  fields of zeros; the scratch it asked for is exactly what it uses.
- `TextExact`: nothing is written past the caller's buffer, a print fails exactly when it
  does not fit, a parse shows nothing of the old value.

### Bounds

- Two objects: every operation has at most two operands, and a third object would only
  hold a block of its own. Three blocks: two owned and the new one that is
  secured before an old one is released; allocation fails otherwise, as it may anyway.
- Two allocators: equality has two outcomes.
- Magnitudes of one, two and three limbs with `InplaceCapacity` 1 or 2 and `MaxLimbs`
  3: below, at and above the in-place capacity, doubling reached and clamped, requests
  above the limit (`Reserve` goes to `MaxLimbs + 1`).
- Limbs of two bits, two in place, at most four: all limb counts and both sides of every
  threshold (`StackLimbs` 3, `StackDividend` 3, `KernelDividend` 4) occur; operands are
  the ends of each limb count, and the accumulated value ranges over everything that
  sequences of operators reach, which is every value of up to four limbs. Shifts go to
  `MaxShift` = 7, one bit short of the whole storage.
- `multiply`: limbs of two bits, five to eight limbs for Karatsuba (one and two splits, odd
  and even), three to twelve for the dispatchers with cutoffs of three to six that keep the
  code's order; Toom-Cook with 32-bit limbs, because its constants need them, on
  operands whose even or odd parts vanish or are full, in shapes that each kernel accepts and
  refuses; unwritten buffers of zeros, of the largest limbs, and of both in turn; workspace
  with the cutoffs of the portable build at and around each gate.
- `divide`: limbs of three bits, where digit estimates are wrong by two and add-back is
  common; up to six limbs by four, two levels of halving; Barrett with limbs of 12 bits
  (a residue's sign is read against 64), two dividends per reciprocal, recursion to two
  levels; workspaces with the cutoffs of an x86-64 and an AArch64 build.
- `values`: limbs of four bits. gcd up to five limbs: windows that certify several
  quotients, one, or none, operands in place and on the heap. Conversion in bases 3, 6, 10
  and 12 up to 16 digits with leaves of 1, 2 and 4 chunks: three levels of powers; bases 6
  and 12 complete zero limbs. Text in bases 2 to 16 with buffers from none to one more
  character than needed. Base 32 and bases from 17 on do not fit a limb of four bits; they
  take the same branches as 8 and 10.
- `SYMMETRY`: objects and addresses occur in the specification only through equality and
  quantification, and there is no liveness property. Allocators are left out of the
  symmetry because `ClassOf` and `Selected` tell them apart.
- `VIEW` of `arith`: the next step and the invariants depend on `acc` and on whether a
  call threw, not on what the last call was; action properties are evaluated on every
  step from every viewed state, and they read `call'` only.

## 5. Proofs

| module | theorem | statement |
|---|---|---|
| `BigIntStorageProofs` | `TypeCorrect` | `Spec => []TypeOK` |
| | `BlocksOwned`, `BlocksExclusive`, `NothingLeaks` | `Spec => []Owned`, `[]Exclusive`, `[]NoLeak` |
| | `OwnershipHolds` | `Spec => []Ownership` |
| | `DeallocationLegal` | `Spec => []NoMisuse` |
| | `StrongGuarantee` | `Spec => FailureChangesNothing` |
| | `StorageCanonical` | `Spec => []Canonical` |
| | `AllocatorsPropagate` | `Spec => AllocatorPropagation` |
| | `MoveAssignRarelyFails` | `Spec => MoveAssignTerminatesRarely` |
| | `SmallConstructionHolds` | `Spec => SmallConstructionSucceeds` |
| | `StorageImplementsValues` | `Spec => ImplementsValues`, that is `Spec => V!Spec` |
| `BigIntArithProofs` | `StaysObject` | the inductive invariant, `IsObject` and `Canonical` until a call throws |
| | `TypeCorrect`, `StaysCanonical` | `Spec => []TypeOK`, `[]CanonicalForm` |
| | `ResultsExact` | `Spec => ExactResult` |
| | `TailStaysZero`, `FailuresCost` | `Spec => TailKept`, `FailureCost` |
| | `NeverThrowing`, `ThrowsWhenFull` | `Spec => NeverThrows`, `ThrowsOnlyWhenFull` |
| `KnuthDivisionProofs` | `NarrowingDivFacts` | two limbs by one, bit by bit: quotient and remainder |
| | `ReciprocalWord3by2Facts` | the reciprocal of a normalized pair of limbs is exact |
| | `Div3by2Facts` | the 3/2 step gives quotient limb and remainder |
| | `SchoolbookStates` | `Spec => []KnuthHolds(knuth)`, the inductive invariant |
| | `SchoolbookIsExact` | `Spec => []SchoolbookDivision` |
| | `ApproximationIsClose` | `Spec => []ApproximateDigits` |
| `BlockDivisionProofs` | `BlockDivisionStates` | `Spec => []BzHolds(bz)`, the inductive invariant |
| | `WindowsAreExact` | `Spec => []WindowsDivide` |
| | `QuotientAloneIsRight` | `Spec => []QuotientAlone` |
| | `DivisionScratchSuffices` | `Spec => []DivisionScratchFits` |
| `MultiplicationProofs` | `MultiplyModBnm1IsRight` | `Spec => []WrappedProduct` |
| | `LastPieceIsShort` | `Spec => []LastPieceShort` |
| | `SlicedProductIsRight` | `Spec => []SlicedProduct` |
| | `WorkspaceSuffices` | `Spec => []WorkspaceFits` |
| `KaratsubaProofs` | `KaratsubaProductIsRight` | `Spec => []KaratsubaProduct` |

Each holds for every value of the constants that satisfies the assumptions of its module:

- `StorageAssumption`: the constants are of the expected kind, the in-place
  capacity is between 1 and `max_limbs`, every magnitude has between 1 and `max_limbs`
  limbs and zero has one, addresses are not magnitudes, `Absent` is no value, and an
  allocator type that is always equal has equal instances. `POCCA`, `POCMA` and `POCS`
  are any booleans; in particular nothing links them to `AlwaysEqual`.
- `LimbAssumption`: a limb has at least one bit.
- `ArithAssumption`: at least one limb in place and at most the limit, thresholds in the
  order the code has them, any set of operands with zero in it.
- `KnuthAssumption`: what `divide_unsigned` and `divide_unsigned_approx` assert of the lengths
  of their operands. For the approximation also that the digits for which limbs of the divisor
  are dropped are at most half the base. The code nowhere says so, but needs it: each of those
  digits may add an error of up to the base, and together they must stay below the divisor. Limbs are
  counted in 31 bits (`m_size_and_sign`) and have 32 or 64, so it always holds.
- `BzAssumption`: what `divide_burnikel_ziegler` and `divide_quotient` assert of the lengths of
  their operands, and a threshold of at least two, which the code asserts of its cutoff. For `divide_quotient` also that twice the number of halvings is less than a limb holds;
  there are fewer halvings than bits in a size, so it always is.
- `DwAssumption`: a divisor of at least one limb that is no longer than its dividend, and cutoffs
  that are numbers; that of block-wise division is positive. The code asserts of each cutoff
  that it is at least two (`div_impl.hpp:404`, `:762`, `:781`); no order among them is needed.
- `LeftoversAssumption`: the patterns that unwritten buffers hold consist of limbs. A pattern may
  be as long as the buffer, so that a buffer may hold anything.
- `WrapAssumption`: what `multiply_mod_bnm1` asserts of the lengths of its operands, limbs of at
  least two bits (the limb above a half holds up to three), and a default cutoff of at least two.
- `DispAssumption`: what `mul_slice_zones_valid` asserts of the table of zones, a Toom-Cook 3
  cutoff of at least five, and operands of one limb or more.
- `WsAssumption`: sizes of products with the smaller first, and cutoffs of at least 36 for
  Karatsuba and 61 for the Toom-Cook kernels. The code does not state such bounds, but the size
  formulas need them: near a low cutoff the limbs that each level adds for carries and rounding
  outweigh the rest. The lowest cutoffs of its builds are 40 and 300.
- `KaraAssumption`: operands of one limb or more; cutoffs of at least five, which the code
  asserts because smaller ones recurse forever; an override, where there is one, of at least
  three, from which on a half is shorter than the whole; and enough workspace for the cutoff. A
  call of s limbs takes blocks of `2 * s` limbs and a few more for each level, so the limbs of
  workspace per limb (`KaraPerLimb`, 5 in the code) and the cutoff depend on each other: five
  suffice from a cutoff of 20 on, and the smallest of the code is 40. The assertion of the code
  guards against endless recursion only, not against a workspace too small. The run has cutoffs of
  five and 20 limbs per limb.

*Ownership.* `NoMisuse` is not inductive: whether the next `deallocate` is legal depends
on what the object believes of its block. `Owned` says it is right to believe it, but
is not inductive either: releasing or rewriting one object's block must not touch
another's (`Exclusive`), and `TypeOK` is needed to know that the union holds a pointer
exactly when the capacity says so. The invariant is
`Inv == TypeOK /\ Ownership /\ NoMisuse`. Every call changes the heap in one of five
ways, and each has a lemma that it preserves `Inv`: `ReplaceKeepsInv` (secure a new
block, release the old), `RewriteKeepsInv` (write the storage there is),
`ReleaseKeepsInv`, `HandOverKeepsInv` (take a buffer over), `SwapKeepsInv`. The lemmas
per action reduce each branch of each call to one of them, and `NextKeepsInv` puts them
together. The proof of `Swap` is where the precondition of `swap` (allocators are
swapped or compare equal) is needed; that of `AssignByCopy` needs that the buffer is
kept only when the allocator that takes over can free it.

*Values.* `Canonical` alone is not inductive: a block may be rewritten through one object
while another believes it holds its limbs. With ownership it is: the invariant is
`CInv == Inv /\ Canonical`. The same five ways to change the heap have lemmas
(`ReplaceHolds`, `RewriteHolds`, `ReleaseHolds`, `HandOverHolds`, `SwapHolds`) that say
what the named objects hold afterwards and that all others are `Untouched`; the blocks
of the others are apart by `Exclusive`, and from free ones by `Owned`. That a copy is
whole needs the last conjunct of `Canonical`, that the count is within the capacity:
`reserve` copies `count` limbs to a block of at least the old capacity, so nothing is
lost only because of it.

*Refinement.* The mapping sends a live object to its sign and the limbs it points to. The
`...Delivers` lemmas restate the five changes as `Held(o)' = v`, the `...Step` lemmas turn
what was delivered into an action of `BigIntValue`, and the `...Steps` lemmas do it for
each action. A refused call maps to `Fail`. `CInv` is needed because an object whose limbs
are junk is no value, and a self-move must deliver its own value.

*Failures and allocators of the storage.* `AllocatorPropagation`, `MoveAssignTerminatesRarely`
and `SmallConstructionSucceeds` speak of single calls. They follow from `CInv` by
cases over the branches of each call; `SmallConstructionSucceeds` needs that a value that
fits in place takes one of the branches that do not allocate.

*Induction over data.* The induction theorems of the library take a predicate as a
parameter, which the provers cannot instantiate. `LimbArithProofs` states induction over a
set instead: a set of naturals that is not empty has a smallest element, so a set that contains
zero and with each number the next contains all (`Smallest`, `Induction`). In the same
way `RecursionExists` and `RecursionUnique` say that a recursive function over `0 .. n` is
what its equations say, from which `PowerStep` and `FromDigitsStep` follow. The rest of
`LimbArithProofs` follows from these: `DigitsOfNumber` (digits and numbers correspond),
`MagnitudeSplit` (a span in two parts), `TrimmedFacts`, and `EvalBitwiseFacts` and
`BitwiseMeans`, that the loop with three carries leaves the magnitude of the two's
complement result for operands of unequal length, with induction on the limbs done and a
carry that is "all limbs so far were zero".

*Compound operators.* The inductive invariant is that the object is well formed (`IsObject`)
and, until a call throws, `Canonical`. After a throw nothing more is called, and `Canonical`
need not hold (findings `arith_negative_zero` and `arith_unwritten`). `GoodStep` is
the conjunction of everything the properties ask of one step. Each
helper of the code has a lemma that says what the object then stores: `Stores` (limbs make up a
number, count given), `Settles` (the same trimmed, signed and canonical) and `ZeroFrom` (the tail).
The `...Good` lemma of each action composes those facts and no definitions of the helpers,
and `ReturnsGood` and `ThrowsGood` conclude for both outcomes. The cases that need
arithmetic of their own are carries (`CarriesGood`: which limbs were written when the
growth throws), `ShiftRightMeans` (floor division for negative numbers through
the bits shifted out), `ShiftedSizeExact` (the size `<<=` requests is the size of the
result, the reason for `ThrowsOnlyWhenFull`), and division (`DivisionSetting`: what
long division has destroyed at each allocation).

*Schoolbook division.* From the bottom up. `NarrowingDivFacts` is the loop that shifts the
dividend in bit by bit and whose remainder loses its top bit. `ReciprocalWord3by2Facts` follows how
far the reciprocal of one limb misses that of two through its two refinements.
`Div3by2Facts` bounds the residual of the 3/2 step: it lies within one divisor of the
right range on either side, so its remainder modulo the square of the base tells which correction to make. Then a
digit works on a window: `Div3by2` is exact for the top three limbs against the top two, so
against the whole divisor it is right or one too large, and one add-back repairs it; the
saturated digit is right because the window begins with the divisor's top limbs
(`BeginsWithDivisor`). The invariant `KnuthHolds` says that digits so far times divisor plus
what is left equal the shifted dividend (`Balance`), that the window begins below the divisor,
and that every assertion about a borrow or a carry has held.

*Approximate quotients.* `ApproximateDigits` is about digits estimated with fewer and fewer limbs
of the divisor. The invariant `Approaching` says that the quotient so far is not too
low, that while digits are exact for the limbs taken it misses the dividend by
a slack of `Spent * Base ^ (n - 1)` at most, and that afterwards, when all
digits are the largest, even one more would be within it (`Near`). At the end the slack is below
the divisor, because its top bit is set and there are at most half as many digits
as the base; so the quotient is at most one too large.

*Division by halves.* A state of `BlockDivision` is a stack of calls over three arrays: the shifted
dividend, the shifted divisor and the quotient. That a call which returns has divided its window is
not inductive: a caller must know it of limbs that were written two calls ago. A call changes the
limbs of its window and of its quotient only (`BzKeeps`), and those of the calls above lie within
(`Nested`), so what a call has finished stays. The invariant `BzStack` says of the call that runs
how far it has come (`Stands`: as it was entered; the upper half done; an estimate to be
multiplied; a remainder with a carry, perhaps negative, to be corrected; divided), and of each call
below what is left once the call above returns (`Waits`), so that a return only has to put the two
together (`PopUpper`, `PopLower`, `PopEstimate`, `PopApprox`, `PopWindow`). Of the march it says that the blocks
of the quotient so far times the divisor and what is left of the dividend make up the dividend
(`Marches`). That two corrections are enough comes from the top bit of the divisor: its upper
half is at least half the power of the base, which every call hands on (`UpperNormalized`). That a
window's upper limbs are below the divisor when a window is entered is the last window's remainder, and for the first
the bit that the plan leaves free above the dividend (`SetUp`, `MarchStarts`).

*The quotient alone.* An approximate window keeps no remainder. What is kept instead is
`Approximates`: the quotient is not too low, and what it claims exceeds the window by at most `Lift`, one
power of the base for every halving and one divisor for the leaf. A power of the base is at most
two divisors, which makes two units for every halving (`ApproximationWithin`). Of the leaf,
`divide_unsigned_approx`, this takes only that it is never below and at most one above,
which `ApproximationIsClose` proves. The quotient of the extended dividend then misses by less
than a few units of the fraction limb, so without it the quotient is right or one too large
(`FractionTells`), and where the slack of the code covers the error, the product that is formed
for a small fraction finds which (`BzVerifyHolds`).

*Workspace of divisions.* A division is there a list of steps that is expanded from its head. The
invariant `DwHolds` says that the steps which are left lead from the arenas there are to some
(`Leads`): what they take, give back, open and close can be followed to the end, and every call
on the way finds the room it needs in the innermost arena (`HasRoom`) and leaves the arenas as
they were. So a step that takes, opens or closes keeps it by itself (`LeadsFirst`), and of an
expansion remains to show that its steps need no more than the call had (`Fits`, `Brings`; one
lemma for each action). What a call needs is the part of the size formula that is meant for
it: a window its own limbs or six leaves, whichever is more, since a padded divisor halves down to
a leaf of no more than the cutoff (`PaddedHalvesDown`, `LeafBelow`); a reciprocal
`ReciprocalStorage` of its own size, where the wrap of a refinement is either the whole product,
for which the formula is just enough, or less than an eighth above its operands (`WrapInIs`,
`RefineRoom`); `multiply_mod_bnm1` three wraps and 16 limbs, and so does each of its halves.

*The product modulo B^w - 1.* The recursion is a stack of frames over one memory. Each frame has a
place where its blocks begin (`Start`), which depends on its width alone, since every call hands
on half of it and takes two halves of scratch; its operands lie below. So what is stored for a
frame changes the operands of no frame under it (`Keeps`, `TaskKept`), and the invariant
`WrapHolds` can say of each frame that it still has the same product to form, of each frame that
waits that the call above it forms it modulo B^h - 1 (`Awaits`), and of the frame that runs where it
stands: the residue modulo B^h - 1 in the low half of the result, the one modulo B^h + 1
in its block (`TopFits`). `FoldM1Facts`, `FoldP1Facts` and `MultiplyP1Facts` say that folding and
the negation by an operand B^h keep the residue. `HalvedFacts` needs that the base is even,
`RecombinedFacts` follows the carry and the borrow around the top limb, and `CoprimeModuli`
concludes from the two residues to the product of the moduli. The value that the cyclic
transform leaves is any representative.

*Pieces of a sliced product.* Pieces are cut while `mul_should_slice` says so. `ShouldSliceAbove`:
a remainder between one and two short operands is still cut only if a zone or the shape that
Toom-Cook 3 refuses asks for it, and then it is longer than the short one, so what is left is never
empty; `LastPieceFacts` follows with induction on the number of cuts. The rest of the proof says that every
frame of the stack keeps these sizes (`DispHolds`).

*Products of the dispatcher.* That a call which returns has formed its product is not inductive:
a piece is formed on top of limbs that hold earlier pieces, or in a buffer that is added to them
later, by a call that may slice again. From the bottom up: `Fills(mem, new, size, s, v)` says that
a step leaves v in the span s and every other limb as it was. `StoreFills`, `MultiplyLongFills` and
`SquareLongFills` say it of the kernels, the two schoolbook ones by induction on the rows that
were added, whose carries stay within the limbs that are there. The invariant `DispWell` says of each slicing
that the limbs below the piece i hold the product of the pieces so far (`Done`), or, while the
call above forms a piece, that they will once its product is added (`Waits`, `Rest`). The call above may write
its destination only; that lies in the result at a place of no finished piece, or in the buffer of its caller
(`Above`), and so no frame that waits loses what it relies on (`BelowKept`). `LastPieceFacts` is what makes
a piece's product fit that buffer.

*Workspace of the recursive products.* The invariant `WsWell` places the blocks of the frames one
above the other and says of each frame (`WsFits`) that before it allocates, the estimate for its
size fits above its callers, and afterwards the estimate for every call it may make fits
above its block. `BlockFits` is the step from one to the other, level by level: block plus estimate for
`k + 1` limbs are at most the estimate for the whole, where only the operands that pass the gates
of the level count (`PieceLimbsAre`). `ChildrenAre` bounds the calls, the unbalanced splits
of Toom-Cook 6.5 and 8.5 included. Handing over to a lower level keeps the estimate because the
factors do not fall with the level (`StorageSizeType`).

*Products of the Karatsuba kernels.* The workspace is reused without being cleared, and the two
ends of a result are the results of recursive calls, so that a call has its product is not
inductive. Each frame has a region, its result and the scratch from its block on
(`Inside`), and changes nothing outside of it (`Confined`). The invariant `KaraWell` says that the
regions are nested (`Nested`): that of a call is a part of the result of its caller or of its
block, with the scratch above that block. So what a caller has finished stays: the low product in the low part of the
result (`LowDone`), then the high product in the high part (`HighDone`), both with zeros above
what they trim to, so that the whole result is their combination (`HalvesMakeUp`); the product of
the sums is formed in a block, apart from the result. What a caller waits for is the product in
the part it gave to the call above (`WaitsFor`). The kernel at the bottom
writes only as many limbs as its trimmed operands have, and the rest of the window must
have been zeroed (`RestZero`). Its own product is one step of the model; `MultiplyLongFills` is
about the schoolbook loop. The workspace left above the block of a frame is at least
what the rest of the recursion takes; this is where the cutoff meets `KaraPerLimb`. Finally `SumsForm`
and `KaraCrossWell` follow the carry limbs of the two sums and the subtraction of both products from
the middle one, which never borrows.

Only model-checked: of `multiply` the Toom-Cook kernels (`ToomStepsExact`, `ToomProduct`), of `divide`
the Barrett kernel (`BarrettDivides`), and every property of `values` (`NumericExact`, `GcdShrinks`,
`ConversionExact`, `TextExact`).
`BigIntArithProofs` takes products and quotients of the kernels as exact; for division
`SchoolbookIsExact` and `WindowsAreExact` prove it of the schoolbook and the block-wise kernel.
Inside the latter, leaves and products are single steps that divide and multiply exactly. Out of the prover's
reach: liveness (`MultiplyReturns`, `DivideReturns`).

## 6. Where documentation and code disagree

Each is a run that TLC must find violated.

- `arith_inline_tail`. `bitwise_in_place` lowers the count without
  `clear_inline_tail`. `basic_big_int.hpp:627-628` calls the zero tail an invariant
  that `inplace_to_bit_uint` relies on. It matters when two or more limbs are in place
  (`basic_big_int<128>`): after `x &= 1`, conversions and comparisons read old limbs.
- `arith_unwritten`. Long division moves the value out, takes a fresh block for the
  quotient, and then calls a kernel that may itself allocate. If that throws, the
  object counts one limb that nobody wrote.
- `arith_negative_zero`. Operators that carry overwrite the low limbs and then ask for
  room. If that throws after `-(2^64 - 1) - 1`, a zero magnitude keeps the sign bit,
  which `basic_big_int.hpp:1029` excludes.
- `storage_rep_capacity`. After a copy assignment that replaced a propagating allocator, a
  block may be smaller than the in-place capacity, and `representation_capacity`
  reports the latter (`big_int_type.adoc:724`: "can be held without allocating").
- `storage_construct_throws`. The helpers of the converting constructors are `noexcept`, so
  an allocation failure ends the program; `big_int_type.adoc:359` promises an
  exception.

- `divide_quotient`. `divappr_quotient_slack` adds one for each halving
  (`div_impl.hpp:486-487`); the error may grow by two, since the remainder keeps up to a
  quotient's worth of the divisor's dropped half and the normalized divisor may be half the
  power of the base. `MCQuotient` builds the divisor (half the base above limbs of all
  ones) and the dividend for three halvings: the approximation is six above the quotient, the
  slack is five, the fraction limb is five, and the quotient comes out one too large, which
  `division_divappr.test.cpp:377` rules out "on every input". Its dividends are random, and
  there the excess stays small. With limbs of 64 bits the same construction makes `operator/`
  wrong for divisors of 1280 limbs (cutoff 160, four halvings); `operator%` and `div_rem` divide with
  exact windows and are right.

## 7. Not modelled

- Value-returning operators, the `div_rem` family, comparison and `to<T>` (item 6 of the
  plan), floating-point conversion and the number-theoretic transform (item 7).
- The floating-point FFT (rounding TLC cannot evaluate), the cost model that chooses
  transforms, the SIMD and assembly variants of kernels, SipHash (no property survives a
  small width), and the debugger printers.
- Constant evaluation: `if consteval` paths replace stack buffers, uninitialized limbs and
  the faster tiers.
- Formatting and the digit separators of literals, which are layout.
- In `values`: the signs that gcd and lcm drop first, the choice of allocator, operands
  whose storage is handed over, allocations that fail inside a conversion, and the
  reciprocals attached to large powers (`divide_barrett_preinv` itself is in `divide`).
- The constructor from a range of unknown size. Read against the code it is wrong: an
  empty object already counts one limb (`basic_big_int.hpp:1259`), and `push_back_limb`
  (3566) writes after the limbs that count, so the limbs of the range land one position
  too high and the value is multiplied by the base; a later growth that throws also
  leaks the first block, since the object is not complete. `BigIntStorage` keeps magnitudes
  as tokens and has no limb positions to state this with.
- `shrink_to_fit` returns for a block of exactly the limbs in use before asking whether they fit
  in place, which `big_int_type.adoc:739` says it asks. `BigIntStorage` models the code; no
  property is about it.
- `BigIntStorage` does not distinguish the two reserve functions, since `reserve` only
  converts bits to limbs first, and treats construction from a floating-point value as
  construction from an integer of the same width.
