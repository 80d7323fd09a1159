\* One try per request, so that one frame lost or late is a call that fails, or
\* an answer that the next call finds; besides, a network is lost or a user
\* changes something.  The card has NTP.CFG with MODE=SERVER.
CONSTANTS
  MaxTries = 1
  MaxStale = 1
  ReqRoom = 1
  RespRoom = 1
  NumHandles = 2
  CardFails = FALSE
  Cards <- MCCards
  Zones <- MCZones
  Addresses = {"ip1"}
  MaxFaults = 1
  MaxEvents = 1
SPECIFICATION FairSpec
INVARIANTS NotesTrue
PROPERTIES CatchesUp
