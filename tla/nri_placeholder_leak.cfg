SPECIFICATION Spec
CONSTANTS
  Pods = {p1, p2}
  Containers = {c1, c2}
  Placeholders = {p1}
  MaxConcurrent = 1
  MaxSaves = 2
  MaxRestarts = 0
INVARIANT NoPlaceholderLeaks
