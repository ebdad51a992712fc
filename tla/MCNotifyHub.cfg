SPECIFICATION FairHubSpec
CONSTANTS
  Clients = {"a", "b"}
  Claims <- MCClaims
  Envelopes <- MCEnvelopes
  RegisterCap = 1
  UnregisterCap = 1
  BroadcastCap = 1
  SendCap = 1
  MaxEvents = 2
INVARIANTS
  GapsAreLogged
  PanicOnlyByOverflow
PROPERTIES
  GoneIsForgotten
CHECK_DEADLOCK FALSE
