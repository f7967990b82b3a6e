SPECIFICATION ContactsSpec
CONSTANTS
  alice = alice
  bob = bob
  a1 = a1
  b1 = b1
  Users <- MCUsers
  Conns = {a1, b1}
  Owner <- MCOwner
  Envelope <- MCEnvelope
  NoConn = NoConn
  OutboxSize = 1
  Commands <- AddAcceptDecline
  MaxCmds = 2
  NoiseKinds = {"socket", "crash"}
  MaxNoise = 1
  DBFaults = TRUE
INVARIANT SidebarIsTrue
CHECK_DEADLOCK FALSE
