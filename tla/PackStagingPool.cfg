SPECIFICATION Spec
CONSTANTS
  t1 = t1
  t2 = t2
  c1 = c1
  c2 = c2
  c3 = c3
  c4 = c4
  s1 = s1
  s2 = s2
  Free = Free
  NoSlot = NoSlot
  Threads <- MCThreads
  Comms <- MCComms
  Streams <- MCStreams
  NumSlots <- MCNumSlots
  BucketSize <- MCBucketSize
  Requests <- MCRequests
  MemoCapacity = 3
SYMMETRY MCSymmetry
INVARIANTS SlotExclusive LiveReservationKept ReuseOrdered BalancedWaves
PROPERTY StableSlot
