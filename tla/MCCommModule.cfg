\* Start-up, pools smaller than the traffic, the loopback port, a port closed; draining.
SPECIFICATION FairSpec
CONSTANTS
  Senders = {s1}
  OutPackets = {out1, out2, out3}
  AirPackets = {air1}
  PortOf <- MCPortOf
  Blocks = {b1, b2}
  MaxConsole = 1
  Link = Link
  TxWorker = TxWorker
  LoopbackPort = LINK
  ConsolePort = PING
  InitOrder <- MCInitOrder
  LINK = LINK
  PING = PING
  s1 = s1
  b1 = b1
  b2 = b2
  out1 = out1
  out2 = out2
  out3 = out3
  air1 = air1
CHECK_DEADLOCK FALSE
INVARIANTS TypeOK OneOwner
PROPERTIES ImplementsRouter Drains
