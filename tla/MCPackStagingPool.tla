-------------------------- MODULE MCPackStagingPool --------------------------
(* Two threads, four communicators and two streams on one bucket of two      *)
(* slots; the memo is full after three mappings and one request fits nothing.*)
EXTENDS PackStagingPool, TLC

CONSTANTS t1, t2, c1, c2, c3, c4, s1, s2
MCThreads == {t1, t2}
MCComms == {c1, c2, c3, c4}
MCStreams == {s1, s2}
MCNumSlots == <<2>>
MCBucketSize == <<1>>
MCRequests == {1, 2}
MCSymmetry == Permutations(MCThreads) \cup Permutations(MCComms) \cup Permutations(MCStreams)
=============================================================================
