SPECIFICATION Spec
CONSTANTS
  SizeMax = 63
  PtrSize = 4
  HeapAlign = 8
  HeapEnd = 32
  Sizes = {0, 1, 4, 5, 9, 16, 56, 57, 60, 63}
  Aligns = {1, 2, 4, 8, 16}
  MaxLive = 2
INVARIANTS MultipleOfAlign BlockHolds
PROPERTY NoSpuriousFailure
