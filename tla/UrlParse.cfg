SPECIFICATION ParseSpec
CONSTANT MaxLen = 7
INVARIANTS SplitRight NothingLost
CHECK_DEADLOCK FALSE
