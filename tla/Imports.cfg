SPECIFICATION MCSpec
CONSTANTS
  Ints <- MCInts
  Pointers = {1, 2}
  Lengths = {1, 2}
INVARIANTS RoundTrip AreaFits FreedOnce Understood
