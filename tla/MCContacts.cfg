SPECIFICATION ContactsSpec
CONSTANTS
  alice = alice
  bob = bob
  a1 = a1
  b1 = b1
  Users <- MCUsers
  Conns = {a1, b1}
  Owner <- MCOwner
  Envelope <- MCEnvelope
  NoConn = NoConn
  OutboxSize = 4
  Commands <- EveryCommand
  MaxCmds = 3
  NoiseKinds = {}
  MaxNoise = 0
  DBFaults = FALSE
INVARIANTS ContactsTypeOK SidebarIsTrue NoRequestStranded
PROPERTY AcceptedStays
CHECK_DEADLOCK FALSE
