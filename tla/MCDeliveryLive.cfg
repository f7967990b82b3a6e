CONSTANTS
  alice = alice
  bob = bob
  a1 = a1
  a2 = a2
  b1 = b1
  b2 = b2
  Users <- MCUsers
  Conns <- OneEach
  Owner <- MCOwner
  OutboxSize = 1
  Envelope <- DeliveryEnvelope
  NoConn = NoConn
  Senders = {alice}
  Flaky = {alice, bob}
  MaxMsgs = 1
  NoiseKinds = {"socket", "crash", "frames"}
  MaxNoise = 1
  DBFaults = FALSE
SPECIFICATION DeliveryFairSpec
PROPERTIES EventuallyDelivered ClosedUnwinds DeadSocketLeavesHub
CHECK_DEADLOCK FALSE
