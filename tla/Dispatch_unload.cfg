\* sessionlimit is unloaded.
SPECIFICATION Spec
CONSTANTS
  Reloaded = {{"sessionlimit"}}
  MaxHandles = 3
INVARIANTS SafeToUnload
CHECK_DEADLOCK FALSE
