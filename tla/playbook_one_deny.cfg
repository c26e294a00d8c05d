SPECIFICATION Spec
CONSTANTS
  h1 = h1  h2 = h2  w1 = w1  w2 = w2
  salaries = salaries  bait = bait
  d1 = d1  d2 = d2  canary = canary  probe = probe
  Handlers = {h1, h2}
  Workers = {w1, w2}
  WorkerOf <- OnePerWorker
  Entitlements = {salaries, bait}
  Decoys = {bait}
  GrantTtls = {2}
  CacheTtl = 1
  CacheSize = 1
  Daemons = {d1, d2}
  Subjects = {canary, probe}
  SingleShot = {canary}
  Other = other
  BurstThreshold = 2
  Window = 1
  Cooldown = 1
  ScanLimit = 2
  AlertLimit = 1
  MaxEvents = 1
  MaxFaults = 0
INVARIANT FrozenByOwnDenies
CHECK_DEADLOCK FALSE
