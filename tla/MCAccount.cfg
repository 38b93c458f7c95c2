SPECIFICATION Spec
CONSTANTS
  Attempts = {f1, f2}
  Ipc = ipc
  Boot = boot
  Lazy = lazy
  None = none
  MaxLogouts = 2
INVARIANTS
  TypeOK
  ReentryBounded
  SnapshotConsistent
  AttemptUndisturbed
PROPERTIES
  SessionKept
  ServiceImplemented
  CodeDelivered
