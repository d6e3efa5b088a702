--------------------------- MODULE MCBigIntStorage ---------------------------
(***************************************************************************)
(* Instances of BigIntStorage for TLC: two objects, magnitudes of one to   *)
(* three limbs, two allocators, and three addresses (two owned blocks and  *)
(* the new one that is secured before an old one is released).             *)
(***************************************************************************)

EXTENDS BigIntStorage, TLC

CONSTANTS o1, o2, a1, a2, b1, b2, b3, zero, one, two, three

MCLimbsOf == (zero :> 1) @@ (one :> 1) @@ (two :> 2) @@ (three :> 3)

\* the allocators compare unequal, as two polymorphic allocators on different resources
Unequal == (a1 :> 1) @@ (a2 :> 2)

\* the allocators compare equal, as all std::allocators do
Equal == (a1 :> 1) @@ (a2 :> 1)

\* a copy is placed on the default resource (polymorphic_allocator)
SelectDefault == (a1 :> a1) @@ (a2 :> a1)

\* a copy keeps the allocator of its source
SelectSame == (a1 :> a1) @@ (a2 :> a2)

\* objects and addresses are interchangeable; allocators are not (ClassOf, Selected)
Symmetry == Permutations(Objects) \cup Permutations(Blocks)
==============================================================================
