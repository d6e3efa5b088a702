\* propagating allocators: a block smaller than the in-place capacity
CONSTANTS
  o1 = o1
  o2 = o2
  a1 = a1
  a2 = a2
  b1 = b1
  b2 = b2
  b3 = b3
  zero = zero
  one = one
  two = two
  three = three
  Objects = {o1, o2}
  Allocators = {a1, a2}
  Blocks = {b1, b2, b3}
  Magnitudes = {zero, one, two, three}
  Zero = zero
  LimbsOf <- MCLimbsOf
  ClassOf <- Unequal
  Selected <- SelectSame
  AlwaysEqual = FALSE
  POCCA = TRUE
  POCMA = TRUE
  POCS = TRUE
  InplaceCapacity = 2
  MaxLimbs = 3
  Surplus = 0
  MaxWidth = 3
  NoAlloc = NoAlloc
  Junk = Junk
  Absent = Absent
SPECIFICATION Spec
SYMMETRY Symmetry
\* std::terminate ends the program
CHECK_DEADLOCK FALSE
INVARIANTS
  RepresentationCapacityHolds
