SPECIFICATION Spec
CONSTANTS
  Versions = {1, 2}
  Settings <- MCSettings
  MaxMakes = 3
INVARIANTS BuiltAsAsked BuiltFromVersion DistWhole Published
CHECK_DEADLOCK FALSE
