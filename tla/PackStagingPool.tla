--------------------------- MODULE PackStagingPool ---------------------------
(***************************************************************************)
(* The bounded PACK staging pool of nccl_m2n (src/nccl_m2n/src/            *)
(* pack_staging.cc) as its callers drive it: public reshard calls of       *)
(* several host threads, serialized by the M2N API lock except in the      *)
(* windows where M2nApiUnlock drops it (m2n_init.cc:192-217).              *)
(*                                                                         *)
(* A call reserves one physical slot, enqueues device work on it along a   *)
(* stream and records a completion event when it leaves.  A slot belongs   *)
(* to a best-fit bucket; a communicator keeps its slot of a bucket for the *)
(* whole epoch; distinct communicators share slots in round-robin waves.   *)
(*                                                                         *)
(* One CUDA device is modelled: the pools of distinct devices share        *)
(* nothing but the mutex, and every pool function runs under the API lock. *)
(***************************************************************************)
EXTENDS Integers, FiniteSets

CONSTANTS
  Threads,     \* host threads that make public M2N calls
  Comms,       \* communicators
  Streams,     \* work streams
  NumSlots,    \* sequence: the slots of each bucket (NCCL_RESHARD_PACK_BUFFSIZES)
  BucketSize,  \* sequence: the size of each bucket, ascending
  Requests,    \* the request sizes (areaBytes) the calls make
  MemoCapacity,\* entries of the communicator memo (commSlots)
  Free,        \* the API lock has no holder
  NoSlot       \* no mapping, no current slot (-1, nullptr)

Buckets == DOMAIN NumSlots
Slots == UNION {{b} \X (0 .. NumSlots[b] - 1) : b \in Buckets}

ASSUME PoolAssumption ==
  /\ IsFiniteSet(Threads)
  /\ Free \notin Threads
  /\ NoSlot \notin Slots
  /\ \A b \in Buckets : NumSlots[b] \in Nat \ {0}
  /\ MemoCapacity \in Nat

VARIABLES
  apiLock,       \* holder of gM2nApiMutex
  inFlight,      \* gM2nApiInFlightCalls
  pc,            \* where each thread's call stands
  stream,        \* the work stream of the call that holds a slot
  current,       \* gCurrentStagingComm and gCurrentStagingSlot of each thread
  reserved,      \* slots whose reserved flag is set
  poisoned,      \* slots whose poisoned flag is set
  allocated,     \* slots with a buffer and an event
  eventRecorded, \* slots whose eventRecorded flag is set
  lastStream,    \* stream of the last completion event of a slot
  memo,          \* commSlots: the slot a communicator keeps in a bucket
  cursor,        \* nextSlotCursor of each bucket
  ordered,       \* device: streams whose next operation runs after all work on the slot
  covered        \* device: slots whose last event was recorded after all work on them

callVars == <<apiLock, inFlight, pc>>
holdVars == <<stream, current>>
flagVars == <<reserved, poisoned, eventRecorded, lastStream>>
mapVars  == <<allocated, memo, cursor>>
devVars  == <<ordered, covered>>
vars == <<callVars, holdVars, flagVars, mapVars, devVars>>

InCall == {t \in Threads : pc[t] # "idle"}
Memos  == {m \in Comms \X Buckets : memo[m] # NoSlot}

(* The slot a call has reserved and may put device work on. *)
Holds(t, sl) == pc[t] = "held" /\ current[t] # NoSlot /\ current[t].slot = sl

-----------------------------------------------------------------------------
Init ==
  /\ apiLock = Free
  /\ inFlight = 0
  /\ pc = [t \in Threads |-> "idle"]
  /\ stream = [t \in Threads |-> NoSlot]
  /\ current = [t \in Threads |-> NoSlot]
  /\ reserved = {} /\ poisoned = {} /\ allocated = {} /\ eventRecorded = {}
  /\ lastStream = [sl \in Slots |-> NoSlot]
  /\ memo = [m \in Comms \X Buckets |-> NoSlot]
  /\ cursor = [b \in Buckets |-> 0]
  /\ ordered = [sl \in Slots |-> Streams]
  /\ covered = {}

-----------------------------------------------------------------------------
(* The API lock (m2n_init.cc:196-217). The in-flight count only moves under it. *)

Enter(t) ==
  /\ pc[t] = "idle" /\ apiLock = Free
  /\ apiLock' = t
  /\ inFlight' = inFlight + 1
  /\ pc' = [pc EXCEPT ![t] = "entry"]
  /\ UNCHANGED <<holdVars, flagVars, mapVars, devVars>>

(* M2nApiUnlock around a blocking collective, before or after the slot is taken. *)
OpenWindow(t) ==
  /\ apiLock = t /\ pc[t] \in {"entry", "held"}
  /\ apiLock' = Free
  /\ UNCHANGED <<inFlight, pc, holdVars, flagVars, mapVars, devVars>>

CloseWindow(t) ==
  /\ pc[t] # "idle" /\ apiLock = Free
  /\ apiLock' = t
  /\ UNCHANGED <<inFlight, pc, holdVars, flagVars, mapVars, devVars>>

Leave(t) ==
  /\ apiLock = t /\ pc[t] = "leave"
  /\ apiLock' = Free
  /\ inFlight' = inFlight - 1
  /\ pc' = [pc EXCEPT ![t] = "idle"]
  /\ UNCHANGED <<holdVars, flagVars, mapVars, devVars>>

-----------------------------------------------------------------------------
(* acquireStagingSlot *)

(* The first bucket that fits the request. *)
BestFit(n, b) ==
  /\ BucketSize[b] >= n
  /\ \A a \in Buckets : a < b => BucketSize[a] < n

(* The first slot of bucket b that is not poisoned, searched from the cursor. *)
NextHealthy(b, sl) ==
  \E k \in 0 .. NumSlots[b] - 1 :
    /\ sl = <<b, (cursor[b] + k) % NumSlots[b]>>
    /\ sl \notin poisoned
    /\ \A j \in 0 .. k - 1 : <<b, (cursor[b] + j) % NumSlots[b]>> \in poisoned

(* Faulty variant: a communicator whose slot is poisoned moves to a healthy one. *)
CandidateMoves(c, b, sl) ==
  IF memo[<<c, b>>] \notin {NoSlot} \cup poisoned
    THEN sl = memo[<<c, b>>] ELSE NextHealthy(b, sl)

(* The slot a call of communicator c is given in bucket b. *)
Candidate(c, b, sl) ==
  IF memo[<<c, b>>] # NoSlot THEN sl = memo[<<c, b>>] ELSE NextHealthy(b, sl)

(* Faulty variant: a reservation is abandoned whoever else is in flight. *)
AbandonedAlways(sl) == sl \in reserved

(* A reservation met by the only call in flight. *)
Abandoned(sl) == sl \in reserved /\ inFlight <= 1

(* Faulty variant: an abandoned slot is reused at once. *)
ReclaimForReuse(sl) ==
  /\ reserved' = reserved \ {sl}
  /\ eventRecorded' = eventRecorded \ {sl}
  /\ UNCHANGED <<poisoned, lastStream>>

Reclaim(sl) ==
  /\ reserved' = reserved \ {sl}
  /\ eventRecorded' = eventRecorded \ {sl}
  /\ poisoned' = poisoned \cup {sl}
  /\ UNCHANGED lastStream

Acquiring(t) == apiLock = t /\ pc[t] = "entry"

Fail(t) ==
  /\ pc' = [pc EXCEPT ![t] = "leave"]
  /\ UNCHANGED <<apiLock, inFlight, holdVars, devVars>>

(* No bucket fits, or the bucket has no healthy slot for a new communicator. *)
RejectRequest(t) ==
  /\ Acquiring(t)
  /\ \/ \E n \in Requests : \A b \in Buckets : ~BestFit(n, b)
     \/ \E n \in Requests, c \in Comms, b \in Buckets :
          BestFit(n, b) /\ \A sl \in Slots : ~Candidate(c, b, sl)
  /\ Fail(t) /\ UNCHANGED <<flagVars, mapVars>>

(* The slot is unusable: reclaimed as abandoned just now, poisoned, or reserved. *)
RejectSlot(t, c, b, sl) ==
  /\ Acquiring(t) /\ Candidate(c, b, sl)
  /\ \/ Abandoned(sl) /\ Reclaim(sl)
     \/ ~Abandoned(sl) /\ sl \in poisoned \cup reserved /\ UNCHANGED flagVars
  /\ Fail(t) /\ UNCHANGED mapVars

(* Faulty variant: the reserved flag is not looked at. *)
UsableUnchecked(t, c, b, sl) ==
  Acquiring(t) /\ Candidate(c, b, sl) /\ sl \notin poisoned

Usable(t, c, b, sl) ==
  Acquiring(t) /\ Candidate(c, b, sl) /\ sl \notin reserved \cup poisoned

AllocationFails(t, c, b, sl) ==
  /\ Usable(t, c, b, sl) /\ sl \notin allocated
  /\ Fail(t) /\ UNCHANGED <<flagVars, mapVars>>

MemoFull(t, c, b, sl) ==
  /\ Usable(t, c, b, sl) /\ memo[<<c, b>>] = NoSlot
  /\ Cardinality(Memos) >= MemoCapacity
  /\ allocated' = allocated \cup {sl}
  /\ Fail(t) /\ UNCHANGED <<flagVars, memo, cursor>>

(* Faulty variant: the cursor never moves. *)
CommitKeepsCursor(c, b, sl) ==
  /\ memo[<<c, b>>] = NoSlot => Cardinality(Memos) < MemoCapacity
  /\ allocated' = allocated \cup {sl}
  /\ memo' = [memo EXCEPT ![<<c, b>>] = sl]
  /\ UNCHANGED cursor

(* The mapping is committed: a new one moves the cursor past its slot. *)
Commit(c, b, sl) ==
  /\ memo[<<c, b>>] = NoSlot => Cardinality(Memos) < MemoCapacity
  /\ allocated' = allocated \cup {sl}
  /\ memo' = [memo EXCEPT ![<<c, b>>] = sl]
  /\ cursor' = IF memo[<<c, b>>] = NoSlot
                 THEN [cursor EXCEPT ![b] = (sl[2] + 1) % NumSlots[b]]
                 ELSE cursor

NeedsWait(sl, s) == sl \in eventRecorded /\ lastStream[sl] # s

(* cudaStreamWaitEvent fails: the mapping stays, the slot is not reserved. *)
WaitFails(t, c, b, sl, s) ==
  /\ Usable(t, c, b, sl) /\ NeedsWait(sl, s)
  /\ Commit(c, b, sl)
  /\ Fail(t) /\ UNCHANGED flagVars

(* The stream waits for the slot's last event when another stream recorded it. *)
Grant(t, c, b, sl, s) ==
  /\ Usable(t, c, b, sl)
  /\ Commit(c, b, sl)
  /\ ordered' = IF NeedsWait(sl, s) /\ sl \in covered
                  THEN [ordered EXCEPT ![sl] = @ \cup {s}] ELSE ordered
  /\ reserved' = reserved \cup {sl}
  /\ current' = [current EXCEPT ![t] = [comm |-> c, slot |-> sl]]
  /\ stream' = [stream EXCEPT ![t] = s]
  /\ pc' = [pc EXCEPT ![t] = "held"]
  /\ UNCHANGED <<apiLock, inFlight, poisoned, eventRecorded, lastStream, covered>>

Acquire(t) ==
  \/ RejectRequest(t)
  \/ \E n \in Requests, c \in Comms, b \in Buckets, sl \in Slots :
       /\ BestFit(n, b)
       /\ \/ RejectSlot(t, c, b, sl)
          \/ AllocationFails(t, c, b, sl)
          \/ MemoFull(t, c, b, sl)
          \/ \E s \in Streams : WaitFails(t, c, b, sl, s) \/ Grant(t, c, b, sl, s)

-----------------------------------------------------------------------------
(* A call that holds a slot: pack, transfer and unpack go to its stream. *)
EnqueueWork(t, sl) ==
  /\ Holds(t, sl) /\ apiLock = t
  /\ ordered' = [ordered EXCEPT ![sl] = {stream[t]}]
  /\ covered' = covered \ {sl}
  /\ UNCHANGED <<callVars, holdVars, flagVars, mapVars>>

(* packStagingRecordEvent: the reservation is released whatever the outcome. *)
Release(t, sl) ==
  /\ Holds(t, sl) /\ apiLock = t
  /\ lastStream' = [lastStream EXCEPT ![sl] = stream[t]]
  /\ reserved' = reserved \ {sl}
  /\ current' = [current EXCEPT ![t] = NoSlot]
  /\ stream' = [stream EXCEPT ![t] = NoSlot]
  /\ pc' = [pc EXCEPT ![t] = "leave"]
  /\ UNCHANGED <<apiLock, inFlight, mapVars>>

RecordEvent(t, sl) ==
  /\ Release(t, sl)
  /\ eventRecorded' = eventRecorded \cup {sl}
  /\ covered' = IF stream[t] \in ordered[sl] THEN covered \cup {sl} ELSE covered \ {sl}
  /\ UNCHANGED <<poisoned, ordered>>

(* cudaEventRecord fails: the stream is synchronized instead ... *)
RecordFails(t, sl) ==
  /\ Release(t, sl)
  /\ eventRecorded' = eventRecorded \ {sl}
  /\ ordered' = IF stream[t] \in ordered[sl] THEN [ordered EXCEPT ![sl] = Streams] ELSE ordered
  /\ UNCHANGED <<poisoned, covered>>

(* ... and when that fails too the work is unknown and the slot is poisoned. *)
FenceFails(t, sl) ==
  /\ Release(t, sl)
  /\ eventRecorded' = eventRecorded \ {sl}
  /\ poisoned' = poisoned \cup {sl}
  /\ UNCHANGED devVars

(* A caller of ensurePackStagingBuffer that returns early without recording:   *)
(* the reservation outlives the call (the comment at pack_staging.cc:158-173). *)
ReturnEarly(t) ==
  /\ pc[t] = "held" /\ apiLock = t
  /\ pc' = [pc EXCEPT ![t] = "leave"]
  /\ stream' = [stream EXCEPT ![t] = NoSlot]
  /\ UNCHANGED <<apiLock, inFlight, current, flagVars, mapVars, devVars>>

(* packStagingFinalize, run by the finalization that ends the epoch: no call is *)
(* in flight and all its work is complete (nccl_m2n.h:255-260).                 *)
PackStagingFinalize(t) ==
  /\ apiLock = Free /\ InCall = {}
  /\ reserved' = {} /\ poisoned' = {} /\ allocated' = {} /\ eventRecorded' = {}
  /\ lastStream' = [sl \in Slots |-> NoSlot]
  /\ memo' = [m \in Comms \X Buckets |-> NoSlot]
  /\ cursor' = [b \in Buckets |-> 0]
  /\ current' = [current EXCEPT ![t] = NoSlot]
  /\ ordered' = [sl \in Slots |-> Streams]
  /\ covered' = {}
  /\ UNCHANGED <<callVars, stream>>

Step(t) ==
  \/ Enter(t) \/ OpenWindow(t) \/ CloseWindow(t) \/ Leave(t)
  \/ Acquire(t)
  \/ ReturnEarly(t)
  \/ \E sl \in Slots :
       EnqueueWork(t, sl) \/ RecordEvent(t, sl) \/ RecordFails(t, sl) \/ FenceFails(t, sl)
  \/ PackStagingFinalize(t)

Next == \E t \in Threads : Step(t)
Spec == Init /\ [][Next]_vars

-----------------------------------------------------------------------------
(* Every variable keeps its type. *)
TypeOK ==
  /\ apiLock \in Threads \cup {Free}
  /\ inFlight \in Nat
  /\ pc \in [Threads -> {"idle", "entry", "held", "leave"}]
  /\ stream \in [Threads -> Streams \cup {NoSlot}]
  /\ current \in [Threads -> [comm : Comms, slot : Slots] \cup {NoSlot}]
  /\ reserved \subseteq Slots /\ poisoned \subseteq Slots
  /\ allocated \subseteq Slots /\ eventRecorded \subseteq Slots
  /\ lastStream \in [Slots -> Streams \cup {NoSlot}]
  /\ memo \in [Comms \X Buckets -> Slots \cup {NoSlot}]
  /\ cursor \in [Buckets -> Nat]
  /\ \A b \in Buckets : cursor[b] < NumSlots[b]
  /\ ordered \in [Slots -> SUBSET Streams]
  /\ covered \subseteq Slots

(* No two live calls hold one physical staging slot, although the API lock is *)
(* dropped between a reservation and its release and an abandoned reservation *)
(* is reclaimed by whichever call meets it.                                   *)
SlotExclusive ==
  \A t, u \in Threads, sl \in Slots : Holds(t, sl) /\ Holds(u, sl) => t = u

(* The slot a live call works on is never taken for abandoned or found        *)
(* poisoned under it: "no M2N call in flight besides this one" (line 169)     *)
(* really means that no live call owns the reservation.                       *)
LiveReservationKept ==
  \A t \in Threads, sl \in Slots : Holds(t, sl) => sl \in reserved \ poisoned

(* Device work never overlaps on a slot: when a call may enqueue work, its    *)
(* stream is ordered after all work that earlier users put on the slot, even  *)
(* when an event could not be recorded or the slot changed streams.           *)
ReuseOrdered ==
  \A t \in Threads, sl \in Slots : Holds(t, sl) => stream[t] \in ordered[sl]

(* Round-robin waves: in a bucket with no poisoned slot the communicators are *)
(* spread evenly over the slots, whatever allocations failed in between.      *)
Load(sl) == Cardinality({c \in Comms : memo[<<c, sl[1]>>] = sl})
BalancedWaves ==
  \A b \in Buckets : (\A i \in 0 .. NumSlots[b] - 1 : <<b, i>> \notin poisoned) =>
    \A i, j \in 0 .. NumSlots[b] - 1 : Load(<<b, i>>) <= Load(<<b, j>>) + 1

(* A communicator never changes slots within an epoch: the window its ranks   *)
(* registered in lockstep is the one every later call of that size class uses,*)
(* poisoned or not.                                                           *)
Reset == memo' = [m \in Comms \X Buckets |-> NoSlot]
StableSlot ==
  [][\A t \in Threads, m \in Comms \X Buckets :
       /\ memo[m] # NoSlot => memo'[m] = memo[m] \/ Reset
       /\ pc[t] = "entry" /\ pc'[t] = "held" =>
            current'[t].slot = memo'[<<current'[t].comm, current'[t].slot[1]>>]]_vars
=============================================================================
