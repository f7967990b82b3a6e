CONSTANTS
  MaxLogins = 2
  MaxLinks = 4
  MaxLosses = 3
  MaxLaunches = 1
SPECIFICATION ClientFairSpec
INVARIANTS ClientTypeOK RetryIsPending ChatIsAlive LogoutIsRemembered
PROPERTIES NoSocketLeftRunning ReconnectsOnceReachable
CHECK_DEADLOCK FALSE
