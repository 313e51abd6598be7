SPECIFICATION CacheSpec
CONSTANTS
  Threads = {t1, t2}
  Keys = {k1, k2, k3}
  Calls <- OneKey
  Capacity = 2
  MaxWindows = 4
  Free = Free
INVARIANTS WindowsAccounted 
PROPERTIES EvictionSparesUsers CallsEnd
