SPECIFICATION Spec
CONSTANTS
  Pods = {p1, p2}
  Stamped = {}
  Residents = {p2}
  Injected = {p1}
  NumDb = 1
  MaxTries = 1
  UseProjectedSA = TRUE
  Renewers = {rn1}
  Revokers = {rv1, rv2}
  WatchRestarts = FALSE
SYMMETRY RevokerSymmetry
INVARIANT HeldCredentialsValid ValidTokensTracked
