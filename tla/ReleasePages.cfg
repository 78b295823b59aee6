SPECIFICATION Spec
CONSTANTS
  LastTag = 3
  Files <- MCFiles
  PreTags = {3}
  ApiMayFail = TRUE
  MaxRuns = 4
INVARIANTS TypeOK ManifestTrue IndexVerifies SuccessIsIndexed
PROPERTIES IndexAdvances
CHECK_DEADLOCK FALSE
