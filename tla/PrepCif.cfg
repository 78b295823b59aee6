SPECIFICATION Spec
CONSTANTS
  Structs <- MCStructs
  NoElements = NoElements
  Rank <- MCRank
  Shapes <- MCShapes
  Calls <- MCCalls
  MaxArgs = 2
INVARIANTS OffsetsFit LayoutRight OffsetsRight
INVARIANTS CifSound FixedArgs
