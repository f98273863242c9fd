CONSTANTS
  Channel = {x}
  Caller = {c1}
  Pinger = pinger
  Closer = closer
  MaxConn = 2
  MaxRetries = 1
  Faults = {"read"}
  MayStop = FALSE
SPECIFICATION WsSpec
INVARIANT TrackedIsServed
CHECK_DEADLOCK FALSE
