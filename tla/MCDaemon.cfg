CONSTANTS
  Calls = {c1, c2}
  None = None
  MaxFires = 2
  Base = 2
  MaxText = 6
  MaxPayload = 12
SPECIFICATION Spec
CHECK_DEADLOCK FALSE
INVARIANTS
  TypeOK
  RefsOwned
  CallsResolved
  MessagesOutlive
  LockHeldBriefly
PROPERTIES
  PublishedWhole
  HandlersReturn
  ServiceImplemented
