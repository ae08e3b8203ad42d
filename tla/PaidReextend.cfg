SPECIFICATION FairSpec
CONSTANTS
  r1 = r1
  r2 = r2
  Relay <- Relays
  BAD = BAD
  UNKNOWN = UNKNOWN
  NONE = NONE
  MaxLines = 3
  MaxHops = 4
  MaxPayhashes = 2
CHECK_DEADLOCK FALSE
INVARIANT
  HopsPaid
