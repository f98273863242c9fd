CONSTANTS
  Channel = {x}
  Caller = {c1}
  Pinger = pinger
  Closer = closer
  MaxConn = 3
  MaxRetries = 1
  Faults = {"read", "write", "dial", "peerClose"}
  MayStop = TRUE
SPECIFICATION WsFairSpec
INVARIANTS WsTypeOK ServedIsTracked FirstConnServesTracked ReadsUntilServerCloses
PROPERTIES Reconnects StopsInTheEnd
CHECK_DEADLOCK FALSE
