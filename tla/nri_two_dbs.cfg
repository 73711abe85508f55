SPECIFICATION Spec
CONSTANTS
  Pods = {p1, p2}
  Stamped = {p1}
  Residents = {p2}
  Injected = {p1}
  NumDb = 2
  MaxTries = 1
  UseProjectedSA = TRUE
  Renewers = {}
  Revokers = {rv1}
  WatchRestarts = TRUE
INVARIANT TypeOK ValidTokensTracked
PROPERTY KeepsContract
