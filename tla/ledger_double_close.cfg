SPECIFICATION Spec
CONSTANTS
  c1 = c1  c2 = c2  v1 = v1  f1 = f1  f2 = f2
  NoProc = NoProc
  Closer = {c1, c2}
  Verifier = {v1}
  File = {f1}
  FileOf <- OneFile
  HotEpochs = 1
  MaxLeaves = 2
  KeepEpochs = 1
  MinStride = 1
  MaxSeq = 2
  MaxFaults = 1
INVARIANTS NeverSealedTwice
