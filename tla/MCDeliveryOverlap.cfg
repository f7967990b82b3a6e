CONSTANTS
  alice = alice
  bob = bob
  a1 = a1
  a2 = a2
  b1 = b1
  b2 = b2
  Users <- MCUsers
  Conns <- RecipientTwice
  Owner <- MCOwner
  OutboxSize = 2
  Envelope <- DeliveryEnvelope
  NoConn = NoConn
  Senders = {alice}
  Flaky = {bob}
  MaxMsgs = 1
  NoiseKinds = {"socket"}
  MaxNoise = 1
  DBFaults = FALSE
SPECIFICATION DeliverySpec
INVARIANTS NoStranded HubTypeOK RegisteredIsLive LiveIsKnown
SYMMETRY Symmetry
CHECK_DEADLOCK FALSE
