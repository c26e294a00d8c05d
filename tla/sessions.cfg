SPECIFICATION SessionsSpec
CONSTANTS
  t1 = t1  t2 = t2  top = top  mid = mid  low = low  pay = pay  read = read  hr = hr
  None = None
  Tasks = {t1, t2}
  Sessions = {top, mid, low}
  Agents = {top, mid, low}
  Caps = {pay, read}
  Compartments = {hr}
  AgentOf <- MCAgentOf
  TokenCaps <- MCTokenCaps
  TokenComp <- MCTokenComp
  TokenExp <- MCTokenExp
  Tokens <- MCTokens
  Leeway = 1
  Bodies <- MCBodies
  MaxDepth = 2
  MaxGrants = 2
  Switches = {revoked}
  revoked = revoked
  MaxClock = 1
  MaxCuts = 1
  v1 = v1  v2 = v2  p1 = p1  p2 = p2
  a1 = a1  a2 = a2  h1 = h1
  Verifiers = {v1, v2}
  Offset <- MCOffset
  Earliest = 0
  Latest = 1
  Proofs = {p1, p2}
  Iat <- MCIat
  MaxAge = 2
  Skew = 3
  Timeout = 1
  MaxNow = 9
  Ceremonies = {a1, a2}
  Challenges = {h1}
  NoChallenge = NoChallenge
  Period = 1
  Drift = 1
  TryLimit = 1
  TryWindow = 2
  MaxSecrets = 2
  MaxCeremonies = 4
  MaxLosses = 1
  LastTick = 3
SYMMETRY SwapNames
INVARIANTS TypesOK ChainSevered AuthorityShrinks FactorSound SingleUse
PROPERTIES LifetimeShrinks
CHECK_DEADLOCK FALSE
