CONSTANTS
  alice = alice
  bob = bob
  carol = carol
  t1 = t1
  t2 = t2
  f1 = f1
  f2 = f2
  r1 = r1
  r2 = r2
  c1 = c1
  Users = {alice, bob, carol}
  Actors = {alice, bob}
  Clients = {c1}
  Tokens = {t1, t2}
  Requests = {r1, r2}
  Files = {f1, f2}
  Convs <- MCConvs
  None = None
  TTL = 1
  MaxTime = 1
  MaxNoise = 1
  MaxParts = 2
SPECIFICATION FileTransferSpec
INVARIANTS FilesTypeOK FilesMatchRows SentFilesAreShared
PROPERTY SessionsLast
CHECK_DEADLOCK FALSE
SYMMETRY Symmetry
CONSTRAINT Bounds
