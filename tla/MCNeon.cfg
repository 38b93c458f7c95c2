CONSTANTS
  Files = {f1, f2}
  None = None
  MaxWrites = 3
  MaxCrashes = 2
  MaxFailures = 2
SPECIFICATION Spec
INVARIANTS
  TypeOK
  SkippedIsStored
PROPERTIES
  BackupHoldsSession
  NeverOlder
  Saved
