SPECIFICATION Spec
CONSTANTS
  r1 = r1  r2 = r2  r3 = r3  w1 = w1
  alice = alice  pay = pay  read = read  decoy = decoy
  x = x  y = y  k1 = k1  k2 = k2
  None = None
  Agent = {alice}
  Alias = {pay, read, decoy}
  PinAlias = {pay}
  CanaryAlias = {decoy}
  Request = {r1, r2, r3}
  Worker = {w1}
  WorkerOf <- OneWorker
  Action <- PayTwoWays
  Code = {k1, k2}
  MaxAttempts = 2
  Counted = {}
  VelocityMax = 0
  MaxInFlight = 2
  Revocable = {}
  Disableable = {}
  DeadlineCanHit = TRUE
  TransportMayLie = FALSE
INVARIANTS TypeOK RecordBeforeExecute ExecutedAsApproved OneActionPerCode AttemptsAccounted AnswersAreTrue AdmissionExact
SYMMETRY SwapNames
CHECK_DEADLOCK FALSE
