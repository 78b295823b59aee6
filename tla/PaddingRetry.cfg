SPECIFICATION Spec
CONSTANTS
  Structs <- MCStructs
  NoElements = NoElements
  Rank <- MCRank
  Shapes <- MCShapes
  Calls <- MCCalls
  MaxArgs = 2
INVARIANT SizeIncludesPadding
