SPECIFICATION Spec
CONSTANTS
  Pods = {p1, p2}
  Stamped = {p1, p2}
  Residents = {p2}
  NumDb = 1
  MaxTries = 1
  UseProjectedSA = FALSE
  Renewers = {}
  Revokers = {rv1}
  WatchRestarts = TRUE
INVARIANT HeldCredentialsValid
