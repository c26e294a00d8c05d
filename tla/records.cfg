SPECIFICATION RecordsSpec
CONSTANTS
  c1 = c1  c2 = c2  f1 = f1  f2 = f2
  NoProc = NoProc
  Closer = {c1, c2}
  Verifier = {}
  File = {f1, f2}
  FileOf <- TwoFiles
  HotEpochs = 1
  MaxLeaves = 2
  KeepEpochs = 1
  MinStride = 1
  MaxSeq = 3
  MaxFaults = 1
  ExportFile = f1
  PageSize = 1
  r1 = r1  r2 = r2
  Record = {r1, r2}
  MaxTree = 5
  Emitter = {c1, c2}
  NoEmitter = NoProc
  MaxLines = 3
  MaxLineFaults = 2
  p1 = p1  p2 = p2  door = door  shelf = shelf
  Boots = {p1, p2}
  Scope = {door, shelf}
  Licences <- MCLicences
  Deployments <- MCDeployments
  MaxStarts = 3
  LastDay = 1
SYMMETRY SwapBoots
INVARIANTS TypesOK LapseLosesNothing AlarmOnlyOnSplit EvidenceHolds UpSound KeysAgree
CHECK_DEADLOCK FALSE
