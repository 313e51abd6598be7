------------------------ MODULE PackStagingPool_proofs ------------------------
(***************************************************************************)
(* The safety of the PACK staging pool, proved for any number of threads,  *)
(* communicators, streams, buckets and slots.                              *)
(*                                                                         *)
(* The inductive invariant adds four facts to TypeOK: the in-flight count  *)
(* counts the calls, what the flags of an idle slot say about its device   *)
(* work, the bucket of a mapping, and that a call that holds a slot is the *)
(* only one to.  The order of the proof is that of the dependencies: the   *)
(* count justifies reclaiming, which keeps live reservations, which keeps  *)
(* holders apart, which keeps device work ordered.                         *)
(***************************************************************************)
EXTENDS PackStagingPool, FiniteSetTheorems, TLAPS

(* The in-flight count of the API lock is the number of calls in flight. *)
FlightCount == inFlight = Cardinality(InCall)

(* What an idle slot's flags promise its next user: with an event recorded,   *)
(* the event covers all work and its stream is ordered; without, no work is   *)
(* outstanding.                                                               *)
IdleSlotOrdered ==
  \A sl \in Slots \ (reserved \cup poisoned) :
    IF sl \in eventRecorded
      THEN sl \in covered /\ lastStream[sl] \in ordered[sl]
      ELSE ordered[sl] = Streams

(* A mapping stays within its bucket. *)
MemoInBucket ==
  \A c \in Comms, b \in Buckets : memo[<<c, b>>] # NoSlot => memo[<<c, b>>][1] = b

HolderHasStream == \A t \in Threads : pc[t] = "held" => stream[t] \in Streams

IInv ==
  /\ TypeOK
  /\ FlightCount
  /\ LiveReservationKept
  /\ SlotExclusive
  /\ IdleSlotOrdered
  /\ ReuseOrdered
  /\ MemoInBucket
  /\ HolderHasStream

-----------------------------------------------------------------------------
(* A slot is a bucket and an index below its slot count. *)
LEMMA SlotShape ==
  ASSUME NEW sl \in Slots
  PROVE  /\ sl[1] \in Buckets /\ sl[2] \in 0 .. NumSlots[sl[1]] - 1
         /\ sl = <<sl[1], sl[2]>>
BY DEF Slots

(* A communicator without a slot in a bucket is offered one of that bucket,   *)
(* a communicator with one is offered it again.                               *)
LEMMA CandidateBucket ==
  ASSUME MemoInBucket, NEW c \in Comms, NEW b \in Buckets, NEW sl \in Slots,
         Candidate(c, b, sl)
  PROVE  sl[1] = b
BY DEF Candidate, NextHealthy, MemoInBucket

(* A committed mapping leaves the pool's tables well typed: the cursor wraps. *)
LEMMA CommitType ==
  ASSUME TypeOK, NEW c \in Comms, NEW b \in Buckets, NEW sl \in Slots,
         sl[1] = b, Commit(c, b, sl)
  PROVE  /\ allocated' \subseteq Slots
         /\ memo' \in [Comms \X Buckets -> Slots \cup {NoSlot}]
         /\ cursor' \in [Buckets -> Nat]
         /\ \A a \in Buckets : cursor'[a] < NumSlots[a]
<1>1. sl[2] \in Nat /\ NumSlots[b] \in Nat \ {0}
  BY SlotShape, PoolAssumption
<1>2. (sl[2] + 1) % NumSlots[b] \in 0 .. NumSlots[b] - 1
  BY <1>1
<1>3. allocated' \subseteq Slots /\ memo' \in [Comms \X Buckets -> Slots \cup {NoSlot}]
  BY DEF TypeOK, Commit
<1>4. cursor' \in [Buckets -> Nat] /\ \A a \in Buckets : cursor'[a] < NumSlots[a]
  BY <1>1, <1>2, PoolAssumption DEF TypeOK, Commit
<1> QED BY <1>3, <1>4

-----------------------------------------------------------------------------
(* The initial state satisfies the invariant. *)
LEMMA InitIInv == Init => IInv
<1> SUFFICES ASSUME Init PROVE IInv
  OBVIOUS
<1>1. TypeOK
  BY PoolAssumption DEF Init, TypeOK
<1>2. FlightCount
  BY FS_EmptySet DEF Init, FlightCount, InCall
<1> QED BY <1>1, <1>2 DEF Init, IInv, LiveReservationKept, SlotExclusive,
      IdleSlotOrdered, ReuseOrdered, MemoInBucket, HolderHasStream, Holds

(* What every outcome of a request for a slot does to the call itself. *)
LEMMA AcquireCall ==
  ASSUME NEW t \in Threads, Acquire(t)
  PROVE  /\ apiLock = t /\ pc[t] = "entry"
         /\ \E p \in {"held", "leave"} : pc' = [pc EXCEPT ![t] = p]
         /\ UNCHANGED <<apiLock, inFlight>>
<1>1. CASE RejectRequest(t)
  BY <1>1 DEF RejectRequest, Acquiring, Fail
<1>2. ASSUME NEW c \in Comms, NEW b \in Buckets, NEW sl \in Slots,
             \/ RejectSlot(t, c, b, sl)
             \/ AllocationFails(t, c, b, sl)
             \/ MemoFull(t, c, b, sl)
             \/ \E s \in Streams : WaitFails(t, c, b, sl, s) \/ Grant(t, c, b, sl, s)
      PROVE  /\ apiLock = t /\ pc[t] = "entry"
             /\ \E p \in {"held", "leave"} : pc' = [pc EXCEPT ![t] = p]
             /\ UNCHANGED <<apiLock, inFlight>>
  BY <1>2 DEF RejectSlot, AllocationFails, MemoFull, WaitFails, Grant, Usable, Acquiring, Fail
<1> QED BY <1>1, <1>2 DEF Acquire

(* The in-flight count of the API lock follows the calls. *)
LEMMA CountPreserved ==
  ASSUME TypeOK, FlightCount, NEW t \in Threads, Step(t)
  PROVE  FlightCount'
<1>0. IsFiniteSet(InCall)
  BY PoolAssumption, FS_Subset DEF InCall
<1>1. CASE Enter(t)
  <2>1. InCall' = InCall \cup {t} /\ t \notin InCall
    BY <1>1 DEF Enter, InCall, TypeOK
  <2> QED BY <1>0, <1>1, <2>1, FS_AddElement DEF FlightCount, Enter
<1>2. CASE Leave(t)
  <2>1. InCall' = InCall \ {t} /\ t \in InCall
    BY <1>2 DEF Leave, InCall, TypeOK
  <2> QED BY <1>0, <1>2, <2>1, FS_RemoveElement DEF FlightCount, Leave
<1>3. CASE ~Enter(t) /\ ~Leave(t)
  <2>1. inFlight' = inFlight
    BY <1>3, AcquireCall DEF Step, OpenWindow, CloseWindow, EnqueueWork, RecordEvent,
       RecordFails, FenceFails, Release, ReturnEarly, PackStagingFinalize, callVars
  <2>2. CASE pc' = pc
    BY <2>1, <2>2 DEF FlightCount, InCall
  <2>3. CASE pc[t] # "idle" /\ \E p \in {"held", "leave"} : pc' = [pc EXCEPT ![t] = p]
    <3>1. InCall' = InCall
      BY <2>3 DEF InCall, TypeOK
    <3> QED BY <2>1, <3>1 DEF FlightCount
  <2>4. CASE Acquire(t)
    BY <2>3, <2>4, AcquireCall
  <2> QED BY <1>3, <2>2, <2>3, <2>4 DEF Step, OpenWindow, CloseWindow, ReturnEarly,
        EnqueueWork, RecordEvent, RecordFails, FenceFails, Release, Holds,
        PackStagingFinalize, callVars
<1> QED BY <1>1, <1>2, <1>3

(* With at most one call in flight, a call holds no slot but its own. *)
LEMMA AloneInFlight ==
  ASSUME TypeOK, FlightCount, inFlight <= 1,
         NEW t \in InCall, NEW u \in InCall
  PROVE  t = u
<1>0. IsFiniteSet(InCall)
  BY PoolAssumption, FS_Subset DEF InCall
<1>1. /\ IsFiniteSet(InCall \ {t}) /\ Cardinality(InCall \ {t}) = Cardinality(InCall) - 1
      /\ Cardinality(InCall) \in Nat /\ Cardinality(InCall \ {t}) \in Nat
  BY <1>0, FS_RemoveElement, FS_CardinalityType
<1>2. Cardinality(InCall \ {t}) = 0
  BY <1>1 DEF FlightCount
<1> QED BY <1>1, <1>2, FS_EmptySet

-----------------------------------------------------------------------------
(* Types are preserved by every step. *)
LEMMA TypePreserved ==
  ASSUME IInv, NEW t \in Threads, Step(t), FlightCount'
  PROVE  TypeOK'
<1> USE DEF IInv
<1>0. inFlight' \in Nat
  <2>1. IsFiniteSet(InCall')
    BY PoolAssumption, FS_Subset DEF InCall
  <2> QED BY <2>1, FS_CardinalityType DEF FlightCount
<1>1. CASE Enter(t) \/ OpenWindow(t) \/ CloseWindow(t) \/ Leave(t) \/ ReturnEarly(t)
  BY <1>0, <1>1 DEF TypeOK, Enter, OpenWindow, CloseWindow, Leave, ReturnEarly,
     holdVars, flagVars, mapVars, devVars
<1>2. CASE Acquire(t)
  <2>1. CASE RejectRequest(t)
    BY <1>0, <2>1 DEF TypeOK, RejectRequest, Fail, holdVars, flagVars, mapVars, devVars
  <2>2. ASSUME NEW c \in Comms, NEW b \in Buckets, NEW sl \in Slots, RejectSlot(t, c, b, sl)
        PROVE  TypeOK'
    BY <1>0, <2>2 DEF TypeOK, RejectSlot, Reclaim, Fail, holdVars, flagVars, mapVars, devVars
  <2>3. ASSUME NEW c \in Comms, NEW b \in Buckets, NEW sl \in Slots,
               AllocationFails(t, c, b, sl) \/ MemoFull(t, c, b, sl)
        PROVE  TypeOK'
    BY <1>0, <2>3 DEF TypeOK, AllocationFails, MemoFull, Fail, holdVars, flagVars, mapVars,
       devVars
  <2>4. ASSUME NEW c \in Comms, NEW b \in Buckets, NEW sl \in Slots, NEW s \in Streams,
               WaitFails(t, c, b, sl, s) \/ Grant(t, c, b, sl, s)
        PROVE  TypeOK'
    <3>1. sl[1] = b /\ Commit(c, b, sl)
      BY <2>4, CandidateBucket DEF WaitFails, Grant, Usable
    <3>2. /\ allocated' \subseteq Slots
          /\ memo' \in [Comms \X Buckets -> Slots \cup {NoSlot}]
          /\ cursor' \in [Buckets -> Nat]
          /\ \A a \in Buckets : cursor'[a] < NumSlots[a]
      BY <3>1, CommitType
    <3>3. CASE WaitFails(t, c, b, sl, s)
      BY <1>0, <3>2, <3>3 DEF TypeOK, WaitFails, Fail, holdVars, flagVars, devVars
    <3>4. CASE Grant(t, c, b, sl, s)
      BY <1>0, <3>2, <3>4 DEF TypeOK, Grant
    <3> QED BY <2>4, <3>3, <3>4
  <2> QED BY <1>2, <2>1, <2>2, <2>3, <2>4 DEF Acquire
<1>3. ASSUME NEW sl \in Slots,
             \/ EnqueueWork(t, sl) \/ RecordEvent(t, sl)
             \/ RecordFails(t, sl) \/ FenceFails(t, sl)
      PROVE  TypeOK'
  <2>1. stream[t] \in Streams
    BY <1>3 DEF EnqueueWork, RecordEvent, RecordFails, FenceFails, Release, Holds,
       HolderHasStream
  <2>2. CASE EnqueueWork(t, sl)
    BY <1>0, <2>1, <2>2 DEF TypeOK, EnqueueWork, callVars, holdVars, flagVars, mapVars
  <2>3. CASE RecordEvent(t, sl) \/ RecordFails(t, sl) \/ FenceFails(t, sl)
    BY <1>0, <2>1, <2>3 DEF TypeOK, RecordEvent, RecordFails, FenceFails, Release, mapVars,
       devVars
  <2> QED BY <1>3, <2>2, <2>3
<1>4. CASE PackStagingFinalize(t)
  BY <1>0, <1>4, PoolAssumption DEF TypeOK, PackStagingFinalize, callVars
<1> QED BY <1>1, <1>2, <1>3, <1>4 DEF Step

(* A reservation is reclaimed or released under nobody but its owner. *)
LEMMA ReservationPreserved ==
  ASSUME IInv, NEW t \in Threads, Step(t)
  PROVE  LiveReservationKept'
<1> USE DEF IInv
<1> SUFFICES ASSUME NEW u \in Threads, NEW q \in Slots, Holds(u, q)'
             PROVE  q \in reserved' \ poisoned'
  BY DEF LiveReservationKept
<1>1. CASE Enter(t) \/ OpenWindow(t) \/ CloseWindow(t) \/ Leave(t) \/ ReturnEarly(t)
  BY <1>1 DEF TypeOK, Enter, OpenWindow, CloseWindow, Leave, ReturnEarly, Holds,
     LiveReservationKept, holdVars, flagVars
<1>2. CASE Acquire(t)
  <2>1. CASE RejectRequest(t)
    BY <2>1 DEF TypeOK, RejectRequest, Fail, Holds, LiveReservationKept, holdVars, flagVars
  <2>2. ASSUME NEW c \in Comms, NEW b \in Buckets, NEW sl \in Slots, RejectSlot(t, c, b, sl)
        PROVE  q \in reserved' \ poisoned'
    <3>1. pc[t] = "entry" /\ u # t /\ Holds(u, q)
      BY <2>2 DEF RejectSlot, Acquiring, Fail, Holds, TypeOK, holdVars
    <3>2. CASE Abandoned(sl)
      <4>1. t \in InCall /\ u \in InCall /\ inFlight <= 1
        BY <3>1, <3>2 DEF InCall, Holds, Abandoned
      <4> QED BY <3>1, <4>1, AloneInFlight
    <3>3. CASE ~Abandoned(sl)
      BY <2>2, <3>1, <3>3 DEF RejectSlot, LiveReservationKept, flagVars
    <3> QED BY <3>2, <3>3
  <2>3. ASSUME NEW c \in Comms, NEW b \in Buckets, NEW sl \in Slots,
               \/ AllocationFails(t, c, b, sl) \/ MemoFull(t, c, b, sl)
               \/ \E s \in Streams : WaitFails(t, c, b, sl, s)
        PROVE  q \in reserved' \ poisoned'
    BY <2>3 DEF TypeOK, AllocationFails, MemoFull, WaitFails, Fail, Holds,
       LiveReservationKept, holdVars, flagVars
  <2>4. ASSUME NEW c \in Comms, NEW b \in Buckets, NEW sl \in Slots, NEW s \in Streams,
               Grant(t, c, b, sl, s)
        PROVE  q \in reserved' \ poisoned'
    BY <2>4 DEF TypeOK, Grant, Usable, Holds, LiveReservationKept
  <2> QED BY <1>2, <2>1, <2>2, <2>3, <2>4 DEF Acquire
<1>3. ASSUME NEW sl \in Slots, EnqueueWork(t, sl)
      PROVE  q \in reserved' \ poisoned'
  BY <1>3 DEF TypeOK, EnqueueWork, Holds, LiveReservationKept, callVars, holdVars, flagVars
<1>4. ASSUME NEW sl \in Slots, RecordEvent(t, sl) \/ RecordFails(t, sl) \/ FenceFails(t, sl)
      PROVE  q \in reserved' \ poisoned'
  <2>1. Holds(t, sl) /\ reserved' = reserved \ {sl} /\ poisoned' \subseteq poisoned \cup {sl}
    BY <1>4 DEF RecordEvent, RecordFails, FenceFails, Release
  <2>2. u # t /\ Holds(u, q)
    BY <1>4 DEF TypeOK, RecordEvent, RecordFails, FenceFails, Release, Holds
  <2>3. q # sl
    BY <2>1, <2>2 DEF SlotExclusive
  <2> QED BY <2>1, <2>2, <2>3 DEF LiveReservationKept
<1>5. CASE PackStagingFinalize(t)
  BY <1>5 DEF PackStagingFinalize, InCall, Holds, callVars
<1> QED BY <1>1, <1>2, <1>3, <1>4, <1>5 DEF Step

(* Only a grant makes a call a holder, and then of a slot that was not        *)
(* reserved and on a stream of its own.                                       *)
LEMMA NewHolder ==
  ASSUME IInv, NEW t \in Threads, Step(t),
         NEW u \in Threads, NEW q \in Slots, Holds(u, q)', ~Holds(u, q)
  PROVE  /\ u = t
         /\ \E c \in Comms, b \in Buckets, s \in Streams : Grant(t, c, b, q, s)
<1> USE DEF IInv
<1>1. ~(Enter(t) \/ OpenWindow(t) \/ CloseWindow(t) \/ Leave(t) \/ ReturnEarly(t))
  BY DEF TypeOK, Enter, OpenWindow, CloseWindow, Leave, ReturnEarly, Holds, holdVars
<1>2. ASSUME NEW sl \in Slots,
             \/ EnqueueWork(t, sl) \/ RecordEvent(t, sl)
             \/ RecordFails(t, sl) \/ FenceFails(t, sl)
      PROVE  FALSE
  BY <1>2 DEF TypeOK, EnqueueWork, RecordEvent, RecordFails, FenceFails, Release, Holds,
     callVars, holdVars
<1>3. ~PackStagingFinalize(t)
  BY DEF PackStagingFinalize, InCall, Holds, callVars
<1>4. ~RejectRequest(t)
  BY DEF TypeOK, RejectRequest, Fail, Holds, holdVars
<1>5. PICK c \in Comms, b \in Buckets, sl \in Slots :
        \/ RejectSlot(t, c, b, sl)
        \/ AllocationFails(t, c, b, sl)
        \/ MemoFull(t, c, b, sl)
        \/ \E s \in Streams : WaitFails(t, c, b, sl, s) \/ Grant(t, c, b, sl, s)
  BY <1>1, <1>2, <1>3, <1>4 DEF Step, Acquire
<1>6. PICK s \in Streams : Grant(t, c, b, sl, s)
  BY <1>5 DEF TypeOK, RejectSlot, AllocationFails, MemoFull, WaitFails, Fail, Holds, holdVars
<1>7. u = t /\ q = sl
  BY <1>6 DEF TypeOK, Grant, Usable, Acquiring, Holds
<1> QED BY <1>6, <1>7

(* Two calls cannot come to hold one slot. *)
LEMMA ExclusivePreserved ==
  ASSUME IInv, NEW t \in Threads, Step(t)
  PROVE  SlotExclusive'
<1> USE DEF IInv
<1> SUFFICES ASSUME NEW u \in Threads, NEW v \in Threads, NEW q \in Slots,
                    Holds(u, q)', Holds(v, q)'
             PROVE  u = v
  BY DEF SlotExclusive
<1>1. CASE Holds(u, q) /\ Holds(v, q)
  BY <1>1 DEF SlotExclusive
<1>2. CASE ~Holds(u, q) /\ Holds(v, q)
  BY <1>2, NewHolder DEF Grant, Usable, LiveReservationKept
<1>3. CASE Holds(u, q) /\ ~Holds(v, q)
  BY <1>3, NewHolder DEF Grant, Usable, LiveReservationKept
<1>4. CASE ~Holds(u, q) /\ ~Holds(v, q)
  BY <1>4, NewHolder
<1> QED BY <1>1, <1>2, <1>3, <1>4

(* Device work on a slot stays ordered: an idle slot's flags tell its next    *)
(* user what to wait for, and a holder's stream is behind all earlier work.   *)
LEMMA OrderPreserved ==
  ASSUME IInv, NEW t \in Threads, Step(t), LiveReservationKept'
  PROVE  IdleSlotOrdered' /\ ReuseOrdered'
<1> USE DEF IInv
<1>1. CASE Enter(t) \/ OpenWindow(t) \/ CloseWindow(t) \/ Leave(t) \/ ReturnEarly(t)
  BY <1>1 DEF TypeOK, Enter, OpenWindow, CloseWindow, Leave, ReturnEarly, Holds,
     IdleSlotOrdered, ReuseOrdered, holdVars, flagVars, devVars
<1>2. CASE Acquire(t)
  <2>1. CASE RejectRequest(t)
    BY <2>1 DEF TypeOK, RejectRequest, Fail, Holds, IdleSlotOrdered, ReuseOrdered,
       holdVars, flagVars, devVars
  <2>2. ASSUME NEW c \in Comms, NEW b \in Buckets, NEW sl \in Slots, RejectSlot(t, c, b, sl)
        PROVE  IdleSlotOrdered' /\ ReuseOrdered'
    BY <2>2 DEF TypeOK, RejectSlot, Reclaim, Fail, Holds, IdleSlotOrdered, ReuseOrdered,
       holdVars, flagVars, devVars
  <2>3. ASSUME NEW c \in Comms, NEW b \in Buckets, NEW sl \in Slots,
               \/ AllocationFails(t, c, b, sl) \/ MemoFull(t, c, b, sl)
               \/ \E s \in Streams : WaitFails(t, c, b, sl, s)
        PROVE  IdleSlotOrdered' /\ ReuseOrdered'
    BY <2>3 DEF TypeOK, AllocationFails, MemoFull, WaitFails, Fail, Holds,
       IdleSlotOrdered, ReuseOrdered, holdVars, flagVars, devVars
  <2>4. ASSUME NEW c \in Comms, NEW b \in Buckets, NEW sl \in Slots, NEW s \in Streams,
               Grant(t, c, b, sl, s)
        PROVE  IdleSlotOrdered' /\ ReuseOrdered'
    <3>1. s \in ordered'[sl] /\ \A q \in Slots : ordered[q] \subseteq ordered'[q]
      <4>1. sl \in Slots \ (reserved \cup poisoned)
        BY <2>4 DEF Grant, Usable
      <4>2. CASE NeedsWait(sl, s)
        BY <2>4, <4>1, <4>2 DEF Grant, NeedsWait, IdleSlotOrdered, TypeOK
      <4>3. CASE ~NeedsWait(sl, s)
        BY <2>4, <4>1, <4>3 DEF Grant, NeedsWait, IdleSlotOrdered, TypeOK
      <4> QED BY <4>2, <4>3
    <3>2. IdleSlotOrdered'
      BY <2>4 DEF Grant, IdleSlotOrdered, TypeOK
    <3>3. ASSUME NEW u \in Threads, NEW q \in Slots, Holds(u, q)'
          PROVE  stream'[u] \in ordered'[q]
      <4>1. CASE u = t
        BY <2>4, <3>1, <3>3, <4>1 DEF Grant, Holds, TypeOK
      <4>2. CASE u # t
        BY <2>4, <3>1, <3>3, <4>2 DEF Grant, Holds, TypeOK, ReuseOrdered
      <4> QED BY <4>1, <4>2
    <3> QED BY <3>2, <3>3 DEF ReuseOrdered
  <2> QED BY <1>2, <2>1, <2>2, <2>3, <2>4 DEF Acquire
<1>3. ASSUME NEW sl \in Slots, EnqueueWork(t, sl)
      PROVE  IdleSlotOrdered' /\ ReuseOrdered'
  <2>1. IdleSlotOrdered'
    BY <1>3 DEF TypeOK, EnqueueWork, IdleSlotOrdered, LiveReservationKept, flagVars
  <2>2. ReuseOrdered'
    BY <1>3 DEF TypeOK, EnqueueWork, ReuseOrdered, SlotExclusive, Holds, callVars, holdVars
  <2> QED BY <2>1, <2>2
<1>4. ASSUME NEW sl \in Slots, RecordEvent(t, sl) \/ RecordFails(t, sl) \/ FenceFails(t, sl)
      PROVE  IdleSlotOrdered' /\ ReuseOrdered'
  <2>1. /\ Holds(t, sl) /\ stream[t] \in ordered[sl]
        /\ reserved' = reserved \ {sl}
        /\ lastStream' = [lastStream EXCEPT ![sl] = stream[t]]
    BY <1>4 DEF RecordEvent, RecordFails, FenceFails, Release, ReuseOrdered
  <2>2. IdleSlotOrdered'
    BY <1>4, <2>1 DEF TypeOK, RecordEvent, RecordFails, FenceFails, IdleSlotOrdered, devVars
  <2>3. \A q \in Slots : ordered[q] \subseteq ordered'[q]
    BY <1>4 DEF TypeOK, RecordEvent, RecordFails, FenceFails, devVars
  <2>4. \A u \in Threads, q \in Slots : Holds(u, q)' => Holds(u, q) /\ stream'[u] = stream[u]
    BY <1>4 DEF TypeOK, RecordEvent, RecordFails, FenceFails, Release, Holds
  <2> QED BY <2>2, <2>3, <2>4 DEF ReuseOrdered
<1>5. CASE PackStagingFinalize(t)
  BY <1>5 DEF PackStagingFinalize, InCall, Holds, IdleSlotOrdered, ReuseOrdered, callVars
<1> QED BY <1>1, <1>2, <1>3, <1>4, <1>5 DEF Step

(* What a step does to the communicators' mappings: it keeps them, adds one   *)
(* of the right bucket, or ends the epoch.                                    *)
LEMMA MemoStep ==
  ASSUME IInv, NEW t \in Threads, Step(t)
  PROVE  \/ memo' = memo \/ Reset
         \/ \E c \in Comms, b \in Buckets, sl \in Slots :
              /\ sl[1] = b /\ memo[<<c, b>>] \in {NoSlot, sl}
              /\ memo' = [memo EXCEPT ![<<c, b>>] = sl]
<1> USE DEF IInv
<1>1. CASE Acquire(t)
  <2>1. CASE memo' = memo
    BY <2>1
  <2>2. CASE memo' # memo
    <3>1. PICK c \in Comms, b \in Buckets, sl \in Slots, s \in Streams :
            WaitFails(t, c, b, sl, s) \/ Grant(t, c, b, sl, s)
      BY <1>1, <2>2 DEF Acquire, RejectRequest, RejectSlot, AllocationFails, MemoFull, mapVars
    <3>2. Candidate(c, b, sl) /\ memo' = [memo EXCEPT ![<<c, b>>] = sl]
      BY <3>1 DEF WaitFails, Grant, Usable, Commit
    <3>3. sl[1] = b /\ memo[<<c, b>>] \in {NoSlot, sl}
      BY <3>2, CandidateBucket DEF Candidate
    <3> QED BY <3>2, <3>3
  <2> QED BY <2>1, <2>2
<1>2. CASE PackStagingFinalize(t)
  BY <1>2 DEF PackStagingFinalize, Reset
<1>3. CASE ~Acquire(t) /\ ~PackStagingFinalize(t)
  BY <1>3 DEF Step, Enter, OpenWindow, CloseWindow, Leave, ReturnEarly, EnqueueWork,
     RecordEvent, RecordFails, FenceFails, Release, mapVars
<1> QED BY <1>1, <1>2, <1>3

(* Mappings stay within their buckets. *)
LEMMA MappingPreserved ==
  ASSUME IInv, NEW t \in Threads, Step(t)
  PROVE  MemoInBucket'
<1>1. memo \in [Comms \X Buckets -> Slots \cup {NoSlot}] /\ MemoInBucket
  BY DEF IInv, TypeOK
<1>2. CASE memo' = memo \/ Reset
  BY <1>1, <1>2 DEF MemoInBucket, Reset
<1>3. ASSUME NEW c \in Comms, NEW b \in Buckets, NEW sl \in Slots,
             sl[1] = b, memo' = [memo EXCEPT ![<<c, b>>] = sl]
      PROVE  MemoInBucket'
  BY <1>1, <1>3 DEF MemoInBucket
<1> QED BY <1>2, <1>3, MemoStep

(* A call that comes to hold a slot takes its stream with it. *)
LEMMA StreamPreserved ==
  ASSUME IInv, NEW t \in Threads, Step(t)
  PROVE  HolderHasStream'
<1> USE DEF IInv
<1>1. CASE Acquire(t)
  <2>1. CASE RejectRequest(t)
    BY <2>1 DEF TypeOK, RejectRequest, Fail, HolderHasStream, holdVars
  <2>2. ASSUME NEW c \in Comms, NEW b \in Buckets, NEW sl \in Slots,
               \/ RejectSlot(t, c, b, sl) \/ AllocationFails(t, c, b, sl)
               \/ MemoFull(t, c, b, sl)
               \/ \E s \in Streams : WaitFails(t, c, b, sl, s)
        PROVE  HolderHasStream'
    BY <2>2 DEF TypeOK, RejectSlot, AllocationFails, MemoFull, WaitFails, Fail,
       HolderHasStream, holdVars
  <2>3. ASSUME NEW c \in Comms, NEW b \in Buckets, NEW sl \in Slots, NEW s \in Streams,
               Grant(t, c, b, sl, s)
        PROVE  HolderHasStream'
    BY <2>3 DEF TypeOK, Grant, HolderHasStream
  <2> QED BY <1>1, <2>1, <2>2, <2>3 DEF Acquire
<1>2. CASE ~Acquire(t)
  BY <1>2 DEF TypeOK, Step, Enter, OpenWindow, CloseWindow, Leave, ReturnEarly, EnqueueWork,
     RecordEvent, RecordFails, FenceFails, Release, PackStagingFinalize, HolderHasStream,
     callVars, holdVars
<1> QED BY <1>1, <1>2

-----------------------------------------------------------------------------
(* The invariant is inductive. *)
LEMMA NextIInv == IInv /\ [Next]_vars => IInv'
<1> SUFFICES ASSUME IInv, [Next]_vars PROVE IInv'
  OBVIOUS
<1>1. ASSUME NEW t \in Threads, Step(t)
      PROVE  IInv'
  <2>1. FlightCount'
    BY <1>1, CountPreserved DEF IInv
  <2>2. LiveReservationKept'
    BY <1>1, ReservationPreserved
  <2> QED BY <1>1, <2>1, <2>2, TypePreserved, ExclusivePreserved, OrderPreserved,
        MappingPreserved, StreamPreserved DEF IInv
<1>2. CASE UNCHANGED vars
  BY <1>2 DEF vars, callVars, holdVars, flagVars, mapVars, devVars, IInv, TypeOK, FlightCount,
     InCall, LiveReservationKept, SlotExclusive, IdleSlotOrdered, ReuseOrdered, MemoInBucket,
     HolderHasStream, Holds
<1> QED BY <1>1, <1>2 DEF Next

(* The invariant holds in every reachable state of the pool. *)
THEOREM InvariantCorrect == Spec => []IInv
BY InitIInv, NextIInv, PTL DEF Spec

(* Every variable of the pool keeps its type: in particular the round-robin   *)
(* cursor of a bucket always names one of its slots (pack_staging.cc:245-250).*)
THEOREM TypeCorrect == Spec => []TypeOK
<1>1. IInv => TypeOK
  BY DEF IInv
<1> QED BY <1>1, InvariantCorrect, PTL

(* A live call's reservation is never taken for an abandoned one, whichever   *)
(* windows of the API lock the other calls slip through: the in-flight count  *)
(* that stagingReservationIsAbandoned reads is enough.                        *)
THEOREM ReservationCorrect == Spec => []LiveReservationKept
<1>1. IInv => LiveReservationKept
  BY DEF IInv
<1> QED BY <1>1, InvariantCorrect, PTL

(* No two live calls hold one physical slot. *)
THEOREM ExclusionCorrect == Spec => []SlotExclusive
<1>1. IInv => SlotExclusive
  BY DEF IInv
<1> QED BY <1>1, InvariantCorrect, PTL

(* A holder's stream is ordered behind all earlier device work on its slot,   *)
(* through every failure of event record, wait and fence.                     *)
THEOREM OrderCorrect == Spec => []ReuseOrdered
<1>1. IInv => ReuseOrdered
  BY DEF IInv
<1> QED BY <1>1, InvariantCorrect, PTL

(* Within an epoch a communicator keeps the slot it was first given in a      *)
(* bucket, and a granted call works on that slot.                             *)
THEOREM StabilityCorrect == Spec => StableSlot
<1> DEFINE Stable ==
      \A t \in Threads, m \in Comms \X Buckets :
        /\ memo[m] # NoSlot => memo'[m] = memo[m] \/ Reset
        /\ pc[t] = "entry" /\ pc'[t] = "held" =>
             current'[t].slot = memo'[<<current'[t].comm, current'[t].slot[1]>>]
<1>1. ASSUME IInv, NEW u \in Threads, Step(u)
      PROVE  Stable
  <2>1. /\ memo \in [Comms \X Buckets -> Slots \cup {NoSlot}]
        /\ pc \in [Threads -> {"idle", "entry", "held", "leave"}]
    BY <1>1 DEF IInv, TypeOK
  <2>2. ASSUME NEW m \in Comms \X Buckets, memo[m] # NoSlot
        PROVE  memo'[m] = memo[m] \/ Reset
    BY <1>1, <2>1, <2>2, MemoStep
  <2>3. ASSUME NEW t \in Threads, pc[t] = "entry", pc'[t] = "held"
        PROVE  current'[t].slot = memo'[<<current'[t].comm, current'[t].slot[1]>>]
    <3>1. PICK c \in Comms, b \in Buckets, sl \in Slots, s \in Streams :
            Grant(t, c, b, sl, s)
      <4>1. Acquire(u) /\ u = t
        BY <1>1, <2>1, <2>3, AcquireCall DEF Step, Enter, OpenWindow, CloseWindow, Leave,
           ReturnEarly, EnqueueWork, RecordEvent, RecordFails, FenceFails, Release,
           PackStagingFinalize, callVars
      <4>2. ~Fail(t)
        BY <2>1, <2>3 DEF Fail
      <4> QED BY <4>1, <4>2 DEF Acquire, RejectRequest, RejectSlot, AllocationFails,
            MemoFull, WaitFails
    <3>2. current'[t].slot = sl /\ current'[t].comm = c
      BY <1>1, <3>1 DEF Grant, IInv, TypeOK
    <3>3. sl[1] = b
      BY <1>1, <3>1, CandidateBucket DEF IInv, Grant, Usable
    <3> QED BY <2>1, <3>1, <3>2, <3>3 DEF Grant, Commit
  <2> QED BY <2>2, <2>3
<1>2. ASSUME UNCHANGED vars
      PROVE  Stable
  BY <1>2 DEF vars, callVars, mapVars
<1>3. IInv /\ [Next]_vars => [Stable]_vars
  BY <1>1, <1>2 DEF Next
<1> QED BY <1>3, InvariantCorrect, PTL DEF Spec, StableSlot

-----------------------------------------------------------------------------
(* Round-robin waves.  In a bucket without a poisoned slot, the slots      *)
(* before the cursor have one communicator more than those from the cursor *)
(* on; the cursor therefore wraps exactly when a wave is complete.         *)
Mapped(b, i) == {c \in Comms : memo[<<c, b>>] = <<b, i>>}
Healthy(b) == \A i \in 0 .. NumSlots[b] - 1 : <<b, i>> \notin poisoned
Wave(b, q) ==
  \A i \in 0 .. NumSlots[b] - 1 :
    /\ IsFiniteSet(Mapped(b, i))
    /\ Cardinality(Mapped(b, i)) = IF i < cursor[b] THEN q + 1 ELSE q
Waves == \A b \in Buckets : Healthy(b) => \E q \in Nat : Wave(b, q)

LEMMA Wrap ==
  ASSUME NEW n \in Nat \ {0}, NEW i \in 0 .. n - 1
  PROVE  /\ (i + 0) % n = i
         /\ (i + 1) % n = IF i + 1 = n THEN 0 ELSE i + 1
<1>1. i \in Nat /\ n \in Nat /\ n > 0 /\ i < n
  OBVIOUS
<1>2. i % n = i
  BY <1>1, Z3
<1>3. i + 1 < n => (i + 1) % n = i + 1
  BY <1>1, Z3
<1>4. n % n = 0
  BY <1>1, Z3
<1> QED
  BY <1>1, <1>2, <1>3, <1>4

(* A new communicator of a healthy bucket gets the slot at the cursor.     *)
LEMMA AtCursor ==
  ASSUME TypeOK, NEW b \in Buckets, NEW sl \in Slots, Healthy(b), NextHealthy(b, sl)
  PROVE  sl = <<b, cursor[b]>> /\ cursor[b] \in 0 .. NumSlots[b] - 1
<1>1. NumSlots[b] \in Nat \ {0} /\ cursor[b] \in 0 .. NumSlots[b] - 1
  BY PoolAssumption DEF TypeOK
<1>2. (cursor[b] + 0) % NumSlots[b] = cursor[b]
  BY <1>1, Wrap
<1>3. PICK k \in 0 .. NumSlots[b] - 1 :
        /\ sl = <<b, (cursor[b] + k) % NumSlots[b]>>
        /\ \A j \in 0 .. k - 1 : <<b, (cursor[b] + j) % NumSlots[b]>> \in poisoned
  BY DEF NextHealthy
<1>4. <<b, (cursor[b] + 0) % NumSlots[b]>> \notin poisoned
  BY <1>1, <1>2 DEF Healthy
<1>5. k = 0
  BY <1>1, <1>3, <1>4
<1> QED
  BY <1>1, <1>2, <1>3, <1>5

(* A step keeps the tables, ends the epoch, or commits a mapping.          *)
LEMMA TableStep ==
  ASSUME NEW t \in Threads, Step(t)
  PROVE  \/ /\ poisoned \subseteq poisoned'
            /\ \/ UNCHANGED <<memo, cursor>>
               \/ \E c \in Comms, b \in Buckets, sl \in Slots :
                    Candidate(c, b, sl) /\ Commit(c, b, sl)
         \/ Reset /\ cursor' = [b \in Buckets |-> 0]
<1>1. CASE Acquire(t)
  <2>1. CASE RejectRequest(t)
    BY <2>1 DEF RejectRequest, mapVars, flagVars
  <2>2. ASSUME NEW c \in Comms, NEW b \in Buckets, NEW sl \in Slots,
               \/ RejectSlot(t, c, b, sl) \/ AllocationFails(t, c, b, sl)
               \/ MemoFull(t, c, b, sl)
        PROVE  poisoned \subseteq poisoned' /\ UNCHANGED <<memo, cursor>>
    BY <2>2 DEF RejectSlot, AllocationFails, MemoFull, Reclaim, mapVars, flagVars
  <2>3. ASSUME NEW c \in Comms, NEW b \in Buckets, NEW sl \in Slots, NEW s \in Streams,
               WaitFails(t, c, b, sl, s) \/ Grant(t, c, b, sl, s)
        PROVE  poisoned' = poisoned /\ Candidate(c, b, sl) /\ Commit(c, b, sl)
    BY <2>3 DEF WaitFails, Grant, Usable, flagVars
  <2> QED
    BY <1>1, <2>1, <2>2, <2>3 DEF Acquire
<1>2. CASE PackStagingFinalize(t)
  BY <1>2 DEF PackStagingFinalize, Reset
<1>3. CASE ~Acquire(t) /\ ~PackStagingFinalize(t)
  BY <1>3 DEF Step, Enter, OpenWindow, CloseWindow, Leave, ReturnEarly, EnqueueWork,
     RecordEvent, RecordFails, FenceFails, Release, mapVars, flagVars
<1> QED
  BY <1>1, <1>2, <1>3

LEMMA CommitWaves ==
  ASSUME IInv, Waves, NEW c \in Comms, NEW b \in Buckets, NEW sl \in Slots,
         Candidate(c, b, sl), Commit(c, b, sl), poisoned \subseteq poisoned'
  PROVE  Waves'
<1>1. /\ memo \in [Comms \X Buckets -> Slots \cup {NoSlot}] /\ NoSlot \notin Slots
      /\ memo' = [memo EXCEPT ![<<c, b>>] = sl]
      /\ cursor \in [Buckets -> Nat] /\ sl[1] = b
  BY CandidateBucket, PoolAssumption DEF IInv, TypeOK, Commit
<1>2. SUFFICES ASSUME NEW a \in Buckets, Healthy(a)'
               PROVE  \E q \in Nat : Wave(a, q)'
  BY DEF Waves
<1>3. Healthy(a)
  BY <1>2 DEF Healthy
<1>4. PICK q \in Nat : Wave(a, q)
  BY <1>3 DEF Waves
<1>5. CASE a # b \/ memo[<<c, b>>] # NoSlot
  <2>1. cursor'[a] = cursor[a]
    BY <1>1, <1>5 DEF Commit
  <2>2. \A d \in Comms : memo'[<<d, a>>] = memo[<<d, a>>]
    BY <1>1, <1>5 DEF Candidate
  <2>3. \A i : Mapped(a, i)' = Mapped(a, i)
    BY <2>2 DEF Mapped
  <2> QED
    BY <1>4, <2>1, <2>3 DEF Wave
<1>6. CASE a = b /\ memo[<<c, b>>] = NoSlot
  <2> DEFINE n == NumSlots[b]
  <2>0. PICK k \in Nat : k = cursor[b]
    BY DEF IInv, TypeOK
  <2>1. sl = <<b, k>> /\ k \in 0 .. n - 1 /\ n \in Nat \ {0}
    BY <1>3, <1>6, <2>0, AtCursor, PoolAssumption DEF Candidate, IInv
  <2>2. cursor'[b] = IF k + 1 = n THEN 0 ELSE k + 1
    <3>1. cursor'[b] = (k + 1) % n
      BY <1>1, <1>6, <2>1 DEF Commit
    <3> QED
      BY <2>1, <3>1, Wrap
  <2>3. ASSUME NEW i \in 0 .. n - 1, i # k
        PROVE  Mapped(b, i)' = Mapped(b, i)
    <3>1. \A d \in Comms : memo'[<<d, b>>] = <<b, i>> <=> memo[<<d, b>>] = <<b, i>>
      <4>1. <<b, i>> \in Slots
        BY DEF Slots
      <4> QED
        BY <1>1, <1>6, <2>1, <2>3, <4>1
    <3> QED
      BY <3>1 DEF Mapped
  <2>4. Mapped(b, k)' = Mapped(b, k) \cup {c} /\ c \notin Mapped(b, k)
    <3>1. <<b, k>> # NoSlot
      BY <1>1, <2>1
    <3>2. \A d \in Comms : memo'[<<d, b>>] = <<b, k>> <=> memo[<<d, b>>] = <<b, k>> \/ d = c
      BY <1>1, <2>1
    <3>3. c \notin Mapped(b, k)
      BY <1>6, <3>1 DEF Mapped
    <3>4. ASSUME NEW d
          PROVE  d \in Mapped(b, k)' <=> d \in Mapped(b, k) \/ d = c
      BY <3>2 DEF Mapped
    <3> QED
      BY <3>3, <3>4
  <2>5. \A i \in 0 .. n - 1 :
          /\ IsFiniteSet(Mapped(b, i))
          /\ Cardinality(Mapped(b, i)) = IF i < k THEN q + 1 ELSE q
    BY <1>4, <1>6, <2>0 DEF Wave
  <2>6. IsFiniteSet(Mapped(b, k)') /\ Cardinality(Mapped(b, k)') = q + 1
    BY <2>1, <2>4, <2>5, FS_AddElement
  <2>7. CASE k + 1 = n
    <3>1. ASSUME NEW i \in 0 .. n - 1
          PROVE  IsFiniteSet(Mapped(b, i)') /\ Cardinality(Mapped(b, i)') = q + 1
      BY <2>1, <2>3, <2>5, <2>6, <2>7
    <3>2. cursor'[b] = 0
      BY <2>2, <2>7
    <3>3. Wave(b, q + 1)'
      BY <3>1, <3>2 DEF Wave
    <3> QED
      BY <1>4, <1>6, <3>3
  <2>8. CASE k + 1 # n
    <3>1. Wave(b, q)'
      BY <2>1, <2>2, <2>3, <2>5, <2>6, <2>8 DEF Wave
    <3> QED
      BY <1>4, <1>6, <3>1
  <2> QED
    BY <2>7, <2>8
<1> QED
  BY <1>5, <1>6

LEMMA WavesInvariance == Spec => []Waves
<1>1. Init => Waves
  <2> SUFFICES ASSUME Init, NEW b \in Buckets PROVE Wave(b, 0)
    BY DEF Waves
  <2>1. ASSUME NEW i \in 0 .. NumSlots[b] - 1
        PROVE  Mapped(b, i) = {}
    <3>1. <<b, i>> # NoSlot
      BY PoolAssumption DEF Slots
    <3> QED
      BY <3>1 DEF Init, Mapped
  <2>2. \A i \in 0 .. NumSlots[b] - 1 : ~(i < cursor[b])
    BY PoolAssumption DEF Init
  <2> QED
    BY <2>1, <2>2, FS_EmptySet DEF Wave
<1>2. ASSUME IInv, Waves, NEW t \in Threads, Step(t)
      PROVE  Waves'
  <2>1. CASE poisoned \subseteq poisoned' /\ UNCHANGED <<memo, cursor>>
    BY <1>2, <2>1 DEF Waves, Healthy, Wave, Mapped
  <2>2. ASSUME NEW c \in Comms, NEW b \in Buckets, NEW sl \in Slots,
               Candidate(c, b, sl), Commit(c, b, sl), poisoned \subseteq poisoned'
        PROVE  Waves'
    BY <1>2, <2>2, CommitWaves
  <2>3. CASE Reset /\ cursor' = [b \in Buckets |-> 0]
    <3> SUFFICES ASSUME NEW b \in Buckets PROVE Wave(b, 0)'
      BY DEF Waves
    <3>1. ASSUME NEW i \in 0 .. NumSlots[b] - 1
          PROVE  Mapped(b, i)' = {}
      <4>1. <<b, i>> # NoSlot
        BY PoolAssumption DEF Slots
      <4> QED
        BY <2>3, <4>1 DEF Reset, Mapped
    <3>2. \A i \in 0 .. NumSlots[b] - 1 : ~(i < cursor'[b])
      BY <2>3, PoolAssumption
    <3> QED
      BY <3>1, <3>2, FS_EmptySet DEF Wave
  <2> QED
    BY <1>2, <2>1, <2>2, <2>3, TableStep
<1>3. IInv /\ Waves /\ [Next]_vars => Waves'
  <2>1. CASE UNCHANGED vars
    BY <2>1 DEF vars, flagVars, mapVars, Waves, Healthy, Wave, Mapped
  <2> QED
    BY <1>2, <2>1 DEF Next
<1> QED
  BY <1>1, <1>3, InvariantCorrect, PTL DEF Spec

(* In a bucket that lost no slot the communicators are spread evenly over  *)
(* the slots, in whatever order allocations, event waits and the memo      *)
(* failed in between.                                                      *)
THEOREM WavesBalanced == Spec => []BalancedWaves
<1>1. ASSUME TypeOK, Waves, NEW b \in Buckets, Healthy(b),
             NEW i \in 0 .. NumSlots[b] - 1, NEW j \in 0 .. NumSlots[b] - 1
      PROVE  Load(<<b, i>>) <= Load(<<b, j>>) + 1
  <2>1. PICK q \in Nat : Wave(b, q)
    BY <1>1 DEF Waves
  <2>2. Load(<<b, i>>) = Cardinality(Mapped(b, i)) /\ Load(<<b, j>>) = Cardinality(Mapped(b, j))
    BY DEF Load, Mapped
  <2> QED
    BY <2>1, <2>2 DEF Wave
<1>2. TypeOK /\ Waves => BalancedWaves
  BY <1>1 DEF BalancedWaves, Healthy
<1> QED
  BY <1>2, TypeCorrect, WavesInvariance, PTL
===============================================================================
