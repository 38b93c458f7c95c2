CONSTANTS
  Files = {f1, f2}
  None = None
  MaxWrites = 1
  MaxCrashes = 1
  MaxFailures = 0
SPECIFICATION Spec
PROPERTY SavedSessionKept
