CONSTANTS
  alice = alice
  bob = bob
  a1 = a1
  a2 = a2
  b1 = b1
  b2 = b2
  Users <- MCUsers
  Conns <- OneEach
  Owner <- MCOwner
  OutboxSize = 1
  Envelope <- DeliveryEnvelope
  NoConn = NoConn
  Senders = {alice}
  Flaky = {alice, bob}
  MaxMsgs = 1
  NoiseKinds = {"socket", "crash", "frames"}
  MaxNoise = 2
  DBFaults = TRUE
SPECIFICATION DeliverySpec
INVARIANTS DeliveryTypeOK AcksAreTrue TicksAreTrue
PROPERTIES ImplementsHub
CHECK_DEADLOCK FALSE
