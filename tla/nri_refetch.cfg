SPECIFICATION Spec
CONSTANTS
  Pods = {p1, p2}
  Stamped = {p1}
  Residents = {p2}
  Injected = {p1}
  NumDb = 1
  MaxTries = 2
  UseProjectedSA = TRUE
  Renewers = {}
  Revokers = {rv1}
  WatchRestarts = TRUE
INVARIANT IInv TInv
