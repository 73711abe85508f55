SPECIFICATION FairSpec
CONSTANTS
  Pods = {p1, p2}
  Stamped = {p1, p2}
  Residents = {p2}
  NumDb = 1
  MaxTries = 1
  UseProjectedSA = FALSE
  Renewers = {rn1}
  Revokers = {rv1}
  WatchRestarts = TRUE
INVARIANT WInv
PROPERTY GonePodsPurged OnlySweepsTakeLive KeepsAdmissionContract
