SPECIFICATION FairSpec
CONSTANTS
  Pods = {p1, p2}
  Stamped = {}
  Residents = {p2}
  Injected = {p1}
  NumDb = 1
  MaxTries = 1
  UseProjectedSA = TRUE
  Renewers = {rn1}
  Revokers = {rv1}
  WatchRestarts = TRUE
PROPERTY GonePodsPurged GonePodsRevoked RevokerSparesLivePods
