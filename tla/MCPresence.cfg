CONSTANTS
  alice = alice
  bob = bob
  a1 = a1
  a2 = a2
  b1 = b1
  Users <- MCUsers
  Conns <- MCConns
  Owner <- MCOwner
  Contact <- MCContact
  Envelope <- PresenceEnvelope
  OutboxSize = 1
  NoConn = NoConn
  MaxBursts = 1
  NoiseKinds = {"socket", "db", "crash", "frames"}
  MaxNoise = 1
SPECIFICATION PresenceSpec
INVARIANTS PresenceTypeOK SettledIsRight TypingIsBacked
CHECK_DEADLOCK FALSE
SYMMETRY Symmetry
