CONSTANTS
  alice = alice
  bob = bob
  a1 = a1
  a2 = a2
  b1 = b1
  b2 = b2
  Users <- MCUsers
  Conns <- SenderTwice
  Owner <- MCOwner
  OutboxSize = 2
  Envelope <- DeliveryEnvelope
  NoConn = NoConn
  Senders = {alice}
  Flaky = {alice, bob}
  MaxMsgs = 1
  NoiseKinds = {"socket"}
  MaxNoise = 1
  DBFaults = FALSE
SPECIFICATION DeliverySpec
INVARIANTS PumpsJustUnwind
CHECK_DEADLOCK FALSE
