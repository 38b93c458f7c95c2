CONSTANTS
  U16 = 3
  U32 = 28
  U64 = 256
  kMaxPayload = 25
  MAX_HTTP_BODY = 24
  MaxSample = 4
SPECIFICATION Spec
INVARIANTS
  TypeOK
  ReadsInside
  FrontDecides
  SamplesFound
