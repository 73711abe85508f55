SPECIFICATION Spec
CONSTANTS
  Pods = {p1, p2}
  Stamped = {p1, p2}
  Residents = {p2}
  NumDb = 2
  MaxTries = 1
  UseProjectedSA = TRUE
  Renewers = {}
  Revokers = {rv1}
  WatchRestarts = TRUE
INVARIANT AdmissionInv
PROPERTY KeepsAdmissionContract
