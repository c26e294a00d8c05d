SPECIFICATION FairSpec
CONSTANTS
  r1 = r1  r2 = r2  r3 = r3  w1 = w1
  alice = alice  pay = pay  read = read  decoy = decoy
  x = x  y = y  k1 = k1  k2 = k2
  None = None
  Agent = {alice}
  Alias = {pay, read, decoy}
  PinAlias = {pay}
  CanaryAlias = {decoy}
  Request = {r1, r2}
  Worker = {w1}
  WorkerOf <- OneWorker
  Action <- PayAndDecoy
  Code = {k1, k2}
  MaxAttempts = 2
  Counted = {pay}
  VelocityMax = 1
  MaxInFlight = 1
  Revocable = {alice}
  Disableable = {pay}
  DeadlineCanHit = FALSE
  TransportMayLie = TRUE
INVARIANTS KillSwitchHolds WithinVelocity
PROPERTIES Settles ExecutionSpec
CHECK_DEADLOCK FALSE
