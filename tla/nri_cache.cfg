SPECIFICATION FairSpec
CONSTANTS
  Pods = {p1}
  Containers = {c1}
  Placeholders = {p1}
  MaxConcurrent = 1
  MaxSaves = 2
  MaxRestarts = 1
INVARIANT NriCacheTypeOK CacheInv
PROPERTY MappingNeverReplaced PermitsComeBack DeadPodsEvicted ContainersStart
