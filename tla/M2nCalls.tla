------------------------------ MODULE M2nCalls ------------------------------
(***************************************************************************)
(* The reshard calls of one process, from the user's host threads to the   *)
(* CUDA streams:                                                           *)
(*   m2n_group.cc            groups: recording, buckets, fused or entry by *)
(*                           entry execution, the entry an error names;    *)
(*   reshard_staging.cu      ncclReshard, the PIPE plan cache;             *)
(*   reshard_call_setup.*    work streams, DevComms looked up or created;  *)
(*   reshard_cache.cc        DevComm slots, staging buffers, events;       *)
(*   reshard_split_comm.cu   control slots, the resources of a split call. *)
(* Every call holds the API lock, and drops it around what is collective   *)
(* (creating a DevComm, registering a window, host RMA) and while it waits *)
(* for a DevComm's mutex.  The kernels it enqueues are ordered only by     *)
(* their streams and by the events it records and waits for.               *)
(*                                                                         *)
(* A PACK call is one step here: PackStagingPool and PackGroup model it.   *)
(* The split communicators exist (SplitComms models their creation), and   *)
(* windows are not evicted (WindowCache models that).                      *)
(***************************************************************************)
EXTENDS Integers, FiniteSets, SequencesExt

CONSTANTS
  Threads,       \* host threads
  Settings,      \* records [algo, internal, split]: the copy algorithm (PIPE, HOST,
                 \* PIPE over host RMA, PACK, DIRECT), NCCL_RESHARD_USE_INTERNAL_STREAMS,
                 \* and whether split communicators may be used
  Scripts,       \* what the threads do: functions from Threads to sequences of steps
  LaneOf,        \* the commB lane of each parent communicator
  DevCommSlots,  \* gReshardDevCommCacheCapacity
  ControlSlots,  \* STAGING_PIPE_CONTROL_SLOTS
  MaxFaults      \* bound: operations that fail

(* A step of a script: [op], "start", "end" or "abort" of a group, or a call, *)
(* [op |-> "reshard", handle, comm, stream, shape, wide, flaw]; flaw: "none", *)
(* "header" (a descriptor header the group refuses), or "value" (an argument  *)
(* ncclReshard refuses).                                                      *)

CallsAssumption ==
  /\ "free" \notin Threads /\ DevCommSlots \in Nat /\ ControlSlots \in Nat
  /\ \A s \in Scripts, t \in Threads :
       /\ s[t] \in Seq({s[t][i] : i \in DOMAIN s[t]})
       /\ \A i \in DOMAIN s[t] : s[t][i].op = "reshard" => s[t][i].comm \in DOMAIN LaneOf

VARIABLES
  setting, script,  \* the choices made at the start
  at,         \* at[t]: the steps thread t has begun
  group,      \* gM2nGroupState of each thread
  running,    \* the group a thread is executing: what it recorded, the units left, what it issued
  apiLock,    \* holder of gM2nApiMutex, or "free"
  pc,         \* where a thread stands in its call
  call,       \* the entry it executes
  todo,       \* what the call has yet to obtain, in order
  held,       \* what it holds: the buffer, the plan missed, the DevComm slots in use
  buffers,    \* gStagingPool: the entry of each communicator
  control,    \* gPersistentControlSlots: each communicator's shapes, in slot order
  windows,    \* windows registered and cached
  devs,       \* gDevcommCache
  lanes,      \* CommBSharedEntry: completion event and poison of each lane
  tail,       \* per stream, the kernels that precede whatever is enqueued next
  kernels,    \* ghost: the kernels enqueued, in order
  done,       \* kernels known to have finished, by a synchronized stream
  quarantine, \* gReshardResourceQuarantineRequired
  faults,     \* operations that have failed
  last        \* ghost: how each thread's last group ended

choices == <<setting, script>>
threadVars == <<at, group, running, pc, call, todo, held>>
cacheVars == <<buffers, control, windows, devs, lanes>>
streamVars == <<tail, kernels, done, quarantine>>
callsVars == <<choices, threadVars, apiLock, cacheVars, streamVars, faults, last>>

NoCall == [op |-> "none"]
NoGroup == [active |-> FALSE, depth |-> 0, error |-> FALSE, entries |-> <<>>]
NotRunning == [on |-> FALSE, entries |-> <<>>, units |-> <<>>, issued |-> <<>>]
Nothing == [buffer |-> FALSE, missed |-> FALSE, plan |-> 0, dev |-> 0, uses |-> <<>>]
Slots == 1 .. DevCommSlots
FreeSlot == [state |-> "free", key |-> <<>>, holder |-> "free", poisoned |-> FALSE, event |-> {}]
NoPlan == [shape |-> "none", hostValid |-> FALSE, host |-> "none", deviceValid |-> FALSE, device |-> "none"]
NoBuffer == [allocated |-> FALSE, reserved |-> FALSE, poisoned |-> FALSE, event |-> {},
             plans |-> [i \in 1 .. ControlSlots |-> NoPlan]]

Goto(t, p) == pc' = [pc EXCEPT ![t] = p]

(* The streams work is enqueued on: NULL names the legacy default stream.    *)
Stream(e) == IF e.stream = "NULL" THEN "legacy" ELSE e.stream
CallerStream(e) == <<"caller", Stream(e)>>
Pooled == setting.internal
WorkStream(e) == IF Pooled THEN <<"pool", e.comm>> ELSE CallerStream(e)
Entries ==
  UNION {{script[t][i] : i \in {j \in DOMAIN script[t] : script[t][j].op = "reshard"}} : t \in Threads}
Comms == {e.comm : e \in Entries}
Streams == {CallerStream(e) : e \in Entries} \cup {<<"pool", c>> : c \in Comms}

-----------------------------------------------------------------------------
(* What a call obtains, in the order of ncclReshard.                         *)

Get(what, key) == [do |-> what, key |-> key]
Splits(e) == setting.split /\ setting.algo \in {"PIPE", "HOST"} /\ e.wide
UsesDevComm == setting.algo # "HOST"
CommA(e) == <<e.comm, "A">>
CommB == <<"shared", "B">>
DevComm(key) == IF UsesDevComm THEN <<Get("dev", key)>> ELSE <<>>

Needs(e) ==
  CASE setting.algo = "PACK" -> <<>>
    [] Splits(e) ->
         <<Get("buffer", <<>>), Get("plan", <<>>), Get("window", CommA(e))>> \o DevComm(CommA(e))
           \o <<Get("window", CommB)>> \o DevComm(CommB)
    [] setting.algo = "DIRECT" ->
         <<Get("probe", <<e.comm, "probe">>), Get("buffer", <<>>), Get("window", <<e.comm, "all">>),
           Get("dev", <<e.comm, e.shape>>)>>
    [] OTHER ->
         <<Get("probe", <<e.comm, "probe">>), Get("buffer", <<>>), Get("window", <<e.comm, "all">>),
           Get("plan", <<>>)>> \o DevComm(<<e.comm, "main">>)

Wants(t, what) == pc[t] = "obtain" /\ todo[t] # <<>> /\ Head(todo[t]).do \in what
Key(t) == Head(todo[t]).key
Obtained(t) == todo' = [todo EXCEPT ![t] = Tail(@)]
Comm(t) == call[t].comm
Work(t) == WorkStream(call[t])
Entry(t) == buffers[Comm(t)]

-----------------------------------------------------------------------------
(* The group API *)

(* Faulty variant: NULL and cudaStreamLegacy are told apart.                 *)
ContextRaw(e) == <<e.handle, e.comm, e.stream>>

(* groupContextMatches *)
Context(e) == <<e.handle, e.comm, Stream(e)>>

(* partitionGroupEntries: the entries' numbers, bucket by bucket in order of *)
(* first appearance.                                                         *)
Filed(entries, buckets, i) ==
  LET mine == {b \in DOMAIN buckets : Context(entries[buckets[b][1]]) = Context(entries[i])}
  IN  IF mine = {} THEN Append(buckets, <<i>>)
      ELSE [buckets EXCEPT ![Min(mine)] = Append(buckets[Min(mine)], i)]

Buckets(entries) ==
  LET filed[i \in 0 .. Len(entries)] == IF i = 0 THEN <<>> ELSE Filed(entries, filed[i - 1], i)
  IN  filed[Len(entries)]

(* The entries of a bucket that have one topology. *)
Bin(entries, bucket, shape) ==
  LET bin[n \in 0 .. Len(bucket)] ==
        IF n = 0 THEN <<>>
        ELSE IF entries[bucket[n]].shape = shape THEN Append(bin[n - 1], bucket[n]) ELSE bin[n - 1]
  IN  bin[Len(bucket)]

(* The bins of a fused bucket, the larger first. *)
Bins(entries, bucket) ==
  LET shapes == {entries[i].shape : i \in Range(bucket)}
      bin == [s \in shapes |-> Bin(entries, bucket, s)]
      before(s) == {r \in shapes : \/ Len(bin[r]) > Len(bin[s])
                                   \/ Len(bin[r]) = Len(bin[s]) /\ Head(bin[r]) < Head(bin[s])}
  IN  [n \in 1 .. Cardinality(shapes) |->
         bin[CHOOSE s \in shapes : Cardinality(before(s)) = n - 1]]

Fuses(bucket) == setting.algo = "PACK" /\ ~setting.split /\ Len(bucket) > 1
Flawed(entries, bucket) == {i \in Range(bucket) : entries[i].flaw = "value"}

(* What a bucket is executed as.  A fused bucket is validated as a whole     *)
(* before its first bin.                                                     *)
Units(entries, bucket) ==
  IF ~Fuses(bucket) THEN [n \in DOMAIN bucket |-> <<bucket[n]>>]
  ELSE IF Flawed(entries, bucket) = {} THEN Bins(entries, bucket)
  ELSE <<<<Min(Flawed(entries, bucket))>>>>

AllUnits(entries) ==
  LET buckets == Buckets(entries)
      units[b \in 0 .. Len(buckets)] == IF b = 0 THEN <<>> ELSE units[b - 1] \o Units(entries, buckets[b])
  IN  units[Len(buckets)]

Step(t) == script[t][at[t] + 1]
Steps(t, op) == pc[t] = "user" /\ ~running[t].on /\ at[t] < Len(script[t]) /\ Step(t).op = op
Advance(t) == at' = [at EXCEPT ![t] = @ + 1]

GroupStart(t) ==
  /\ Steps(t, "start") /\ Advance(t)
  /\ LET g == group[t]
     IN  group' = [group EXCEPT ![t] =
           IF g.active THEN [g EXCEPT !.depth = g.depth + 1]
           ELSE [active |-> TRUE, depth |-> 1, error |-> FALSE, entries |-> <<>>]]
  /\ UNCHANGED <<choices, running, pc, call, todo, held, apiLock, cacheVars, streamVars, faults, last>>

(* m2nGroupEnqueueReshard: an error that was recorded sticks. *)
Enqueue(t) ==
  /\ Steps(t, "reshard") /\ group[t].active /\ Advance(t)
  /\ LET g == group[t]
     IN  group' = [group EXCEPT ![t] =
           IF g.error THEN g
           ELSE IF Step(t).flaw = "header" THEN [g EXCEPT !.error = TRUE]
           ELSE [g EXCEPT !.entries = Append(g.entries, Step(t))]]
  /\ UNCHANGED <<choices, running, pc, call, todo, held, apiLock, cacheVars, streamVars, faults, last>>

GroupAbort(t) ==
  /\ Steps(t, "abort") /\ Advance(t)
  /\ group' = [group EXCEPT ![t] = NoGroup]
  /\ UNCHANGED <<choices, running, pc, call, todo, held, apiLock, cacheVars, streamVars, faults, last>>

Outcome(entries, issued, error, named) ==
  [entries |-> entries, issued |-> issued, error |-> error, named |-> named]

(* The outermost end of a group that recorded an error returns it. *)
Refused(t) == group[t].error

GroupEnd(t) ==
  /\ Steps(t, "end") /\ Advance(t)
  /\ IF group[t].depth > 1
     THEN group' = [group EXCEPT ![t].depth = @ - 1] /\ UNCHANGED <<running, last>>
     ELSE LET entries == group[t].entries
              units == AllUnits(entries)
          IN  /\ group' = [group EXCEPT ![t] = NoGroup]
              /\ IF ~group[t].active \/ Refused(t)
                 THEN UNCHANGED running /\ last' = [last EXCEPT ![t] = Outcome(entries, <<>>, TRUE, 0)]
                 ELSE IF units = <<>>
                 THEN UNCHANGED running /\ last' = [last EXCEPT ![t] = Outcome(<<>>, <<>>, FALSE, 0)]
                 ELSE /\ running' = [running EXCEPT ![t] =
                           [on |-> TRUE, entries |-> entries, units |-> units, issued |-> <<>>]]
                      /\ UNCHANGED last
  /\ UNCHANGED <<choices, pc, call, todo, held, apiLock, cacheVars, streamVars, faults>>

(* Faulty variant: the entry's place among the units. *)
IndexOfUnit(r) == Len(r.issued) + 1

(* indexGroupError: the recorded index of the entry that failed. *)
Index(r) == Head(Head(r.units))

(* The call is over.  An error ends the group it belongs to. *)
Return(t, ok) ==
  /\ Goto(t, "user")
  /\ call' = [call EXCEPT ![t] = NoCall]
  /\ todo' = [todo EXCEPT ![t] = <<>>]
  /\ held' = [held EXCEPT ![t] = Nothing]
  /\ LET r == running[t]
         issued == r.issued \o Head(r.units)
     IN  IF ~r.on THEN UNCHANGED <<running, last>>
         ELSE IF ~ok
         THEN /\ running' = [running EXCEPT ![t] = NotRunning]
              /\ last' = [last EXCEPT ![t] = Outcome(r.entries, r.issued, TRUE, Index(r))]
         ELSE IF Len(r.units) = 1
         THEN /\ running' = [running EXCEPT ![t] = NotRunning]
              /\ last' = [last EXCEPT ![t] = Outcome(r.entries, issued, FALSE, 0)]
         ELSE /\ running' = [running EXCEPT ![t].units = Tail(@), ![t].issued = issued]
              /\ UNCHANGED last

-----------------------------------------------------------------------------
(* Streams and events.  An event stands for the kernels before its record.   *)

(* After a failed call the caller's stream follows the work stream, too.     *)
JoinCaller(tails, e) ==
  IF Pooled THEN [tails EXCEPT ![CallerStream(e)] = @ \cup tails[WorkStream(e)]] ELSE tails
JoinWork(tails, e) ==
  IF Pooled THEN [tails EXCEPT ![WorkStream(e)] = @ \cup tails[CallerStream(e)]] ELSE tails
WaitFor(tails, e, event) == [tails EXCEPT ![WorkStream(e)] = @ \cup event]

(* Faulty variant: the lock is not released on an error. *)
HoldersKept(t, table) == table

(* The mutexes of the DevComms the call uses are released. *)
Release(t, table) ==
  [i \in Slots |-> IF table[i].holder = t THEN [table[i] EXCEPT !.holder = "free"] ELSE table[i]]

(* The error path before the launch: the guards record the staging event,    *)
(* join the caller's stream and release the mutexes.  Nothing was enqueued.  *)
Fail(t, table) ==
  /\ apiLock' = "free"
  /\ devs' = Release(t, table)
  /\ buffers' = IF held[t].buffer
                THEN [buffers EXCEPT ![Comm(t)].reserved = FALSE, ![Comm(t)].event = tail[Work(t)]]
                ELSE buffers
  /\ tail' = JoinCaller(tail, call[t])
  /\ Return(t, FALSE)
  /\ UNCHANGED <<choices, at, group, control, windows, lanes, kernels, done, quarantine>>

MayFault == faults < MaxFaults
Fault == MayFault /\ faults' = faults + 1

-----------------------------------------------------------------------------
(* ncclReshard *)

(* The call of the script, or the next unit of the group being executed. *)
Issues(t) ==
  /\ pc[t] = "user"
  /\ \/ running[t].on
     \/ ~running[t].on /\ ~group[t].active /\ at[t] < Len(script[t]) /\ Step(t).op = "reshard"
Issued(t) == IF running[t].on THEN running[t].entries[Index(running[t])] ELSE Step(t)

(* Up to the first use of the caches: validation, and the work stream.       *)
Begin(t) ==
  /\ Issues(t) /\ apiLock = "free"
  /\ IF running[t].on THEN UNCHANGED at ELSE Advance(t)
  /\ LET e == Issued(t)
     IN  IF e.flaw = "none"
         THEN /\ apiLock' = t
              /\ Goto(t, "obtain")
              /\ call' = [call EXCEPT ![t] = e]
              /\ todo' = [todo EXCEPT ![t] = Needs(e)]
              /\ tail' = JoinWork(tail, e)
              /\ UNCHANGED <<running, held, last>>
         ELSE Return(t, FALSE) /\ UNCHANGED <<apiLock, tail>>
  /\ UNCHANGED <<choices, group, cacheVars, kernels, done, quarantine, faults>>

(* The control slot of the shape: 0 when none is left. *)
ControlSlot(c, shape) ==
  LET mine == SelectInSeq(control[c], LAMBDA s : s = shape)
  IN  IF mine # 0 THEN mine ELSE IF Len(control[c]) < ControlSlots THEN Len(control[c]) + 1 ELSE 0

(* Faulty variant: the work stream does not wait for the buffer's last use.  *)
BufferEventIgnored(t) == {}

(* cudaStreamWaitEvent of ensureStagingBufferPool *)
BufferEvent(t) == Entry(t).event

(* reshardGetOrCreatePersistentControlSlot and ensureStagingBufferPool *)
TakeBuffer(t) ==
  /\ Wants(t, {"buffer"})
  /\ LET slot == ControlSlot(Comm(t), call[t].shape)
         pipe == setting.algo # "DIRECT"
     IN  /\ control' = IF pipe /\ slot > Len(control[Comm(t)])
                       THEN [control EXCEPT ![Comm(t)] = Append(@, call[t].shape)] ELSE control
         /\ IF Entry(t).reserved \/ Entry(t).poisoned \/ (pipe /\ slot = 0)
            THEN /\ apiLock' = "free" /\ devs' = Release(t, devs)
                 /\ tail' = JoinCaller(tail, call[t])
                 /\ Return(t, FALSE)
                 /\ UNCHANGED buffers
            ELSE /\ tail' = WaitFor(tail, call[t], BufferEvent(t))
                 /\ buffers' = [buffers EXCEPT ![Comm(t)].allocated = TRUE, ![Comm(t)].reserved = TRUE]
                 /\ held' = [held EXCEPT ![t].buffer = TRUE, ![t].plan = slot]
                 /\ Obtained(t)
                 /\ UNCHANGED <<pc, call, running, apiLock, devs, last>>
  /\ UNCHANGED <<choices, at, group, windows, lanes, kernels, done, quarantine, faults>>

TakeWindow(t) ==
  /\ Wants(t, {"window"}) /\ Key(t) \in windows
  /\ Obtained(t)
  /\ UNCHANGED <<choices, at, group, running, pc, call, held, apiLock, cacheVars, streamVars, faults, last>>

(* A window that is missing is registered with the lock dropped. *)
OpenRegistration(t) ==
  /\ Wants(t, {"window"}) /\ Key(t) \notin windows
  /\ apiLock' = "free" /\ Goto(t, "registering")
  /\ UNCHANGED <<choices, at, group, running, call, todo, held, cacheVars, streamVars, faults, last>>

Register(t) ==
  /\ pc[t] = "registering" /\ apiLock = "free"
  /\ apiLock' = t /\ Goto(t, "obtain")
  /\ windows' = windows \cup {Key(t)}
  /\ Obtained(t)
  /\ UNCHANGED <<choices, at, group, running, call, held, buffers, control, devs, lanes, streamVars, faults, last>>

RegisterFails(t) ==
  /\ pc[t] = "registering" /\ apiLock = "free" /\ Fault
  /\ Fail(t, devs)

(* Faulty variant: a miss only marks the device copy stale. *)
InvalidateDevice(p, shape) == [p EXCEPT !.shape = shape, !.host = "partial", !.hostValid = TRUE, !.deviceValid = FALSE]

(* stagingInvalidatePipePlanEntry, and the parameters written over *)
Invalidate(p, shape) == [p EXCEPT !.shape = shape, !.host = "partial", !.hostValid = FALSE, !.deviceValid = FALSE]

(* stagingGetPipePlanEntry.  A shape prefers the plan slot of its control    *)
(* slot, which no other shape has.                                           *)
TakePlan(t) ==
  /\ Wants(t, {"plan"})
  /\ LET p == Entry(t).plans[held[t].plan]
     IN  IF p.hostValid /\ p.shape = call[t].shape THEN UNCHANGED <<buffers, held>>
         ELSE /\ buffers' = [buffers EXCEPT ![Comm(t)].plans[held[t].plan] = Invalidate(p, call[t].shape)]
              /\ held' = [held EXCEPT ![t].missed = TRUE]
  /\ Obtained(t)
  /\ UNCHANGED <<choices, at, group, running, pc, call, apiLock, control, windows, devs, lanes, streamVars, faults, last>>

-----------------------------------------------------------------------------
(* reshardGetOrCreateDevCommWithRequirements *)

Matching(key) == {i \in Slots : devs[i].state = "valid" /\ devs[i].key = key}
Unused == {i \in Slots : devs[i].state = "free"}
Mine(t) == {i \in Slots : devs[i].state = "reserved" /\ devs[i].holder = t}

(* A hit goes on to wait for the DevComm's mutex; with internal streams the  *)
(* uses are not serialized.                                                  *)
FindDevComm(t) ==
  /\ Wants(t, {"probe", "dev"}) /\ Matching(Key(t)) # {}
  /\ held' = [held EXCEPT ![t].dev = Min(Matching(Key(t)))]
  /\ IF Pooled THEN Goto(t, "take") /\ UNCHANGED apiLock ELSE Goto(t, "mutex") /\ apiLock' = "free"
  /\ UNCHANGED <<choices, at, group, running, call, todo, cacheVars, streamVars, faults, last>>

(* reserveDevCommCacheEntry: the first slot neither valid nor reserved. *)
Reserve(t) == [devs EXCEPT ![Min(Unused)].state = "reserved", ![Min(Unused)].holder = t]

OpenCreation(t) ==
  /\ Wants(t, {"probe", "dev"}) /\ Matching(Key(t)) = {} /\ Unused # {}
  /\ devs' = Reserve(t)
  /\ apiLock' = "free" /\ Goto(t, "creating")
  /\ UNCHANGED <<choices, at, group, running, call, todo, held, buffers, control, windows, lanes, streamVars, faults, last>>

CapacityExhausted(t) ==
  /\ Wants(t, {"probe", "dev"}) /\ Matching(Key(t)) = {} /\ Unused = {}
  /\ Fail(t, devs) /\ UNCHANGED faults

(* ncclDevCommCreate, then cacheDevComm into the reserved slot; the call uses *)
(* the first DevComm of the key, which may be another thread's.              *)
Create(t) ==
  /\ pc[t] = "creating" /\ apiLock = "free"
  /\ held' = [held EXCEPT ![t].dev = Min(Mine(t) \cup Matching(Key(t)))]
  /\ devs' = [i \in Slots |-> IF i \in Mine(t) THEN [FreeSlot EXCEPT !.state = "valid", !.key = Key(t)] ELSE devs[i]]
  /\ IF Pooled THEN apiLock' = t /\ Goto(t, "take") ELSE UNCHANGED apiLock /\ Goto(t, "mutex")
  /\ UNCHANGED <<choices, at, group, running, call, todo, buffers, control, windows, lanes, streamVars, faults, last>>

(* Faulty variant: an error leaves the slot reserved. *)
UnreservedNot(t) == devs

(* ~ReshardDevCommCacheReservation *)
Unreserved(t) == [i \in Slots |-> IF i \in Mine(t) THEN FreeSlot ELSE devs[i]]

CreateFails(t) ==
  /\ pc[t] = "creating" /\ apiLock = "free" /\ Fault
  /\ Fail(t, Unreserved(t))

(* reshardPrepareDevCommUse: the mutex without the API lock, then the lock   *)
(* with the mutex held.                                                      *)
LockUse(t) ==
  /\ pc[t] = "mutex"
  /\ devs[held[t].dev].holder = "free"
  /\ devs' = [devs EXCEPT ![held[t].dev].holder = t]
  /\ Goto(t, "take")
  /\ UNCHANGED <<choices, at, group, running, call, todo, held, apiLock, buffers, control, windows, lanes, streamVars, faults, last>>

(* Faulty variant: the work stream does not wait for the DevComm's last use. *)
DevCommEventIgnored(i) == {}

DevCommEvent(i) == IF Pooled THEN {} ELSE devs[i].event

(* A probe is recorded and released at once; no kernel uses it. *)
TakeDevComm(t) ==
  /\ pc[t] = "take" /\ apiLock = IF Pooled THEN t ELSE "free"
  /\ LET i == held[t].dev
         probe == Head(todo[t]).do = "probe"
         tails == WaitFor(tail, call[t], DevCommEvent(i))
     IN  IF devs[i].poisoned
         THEN Fail(t, devs) /\ UNCHANGED faults
         ELSE /\ apiLock' = t /\ Goto(t, "obtain") /\ Obtained(t)
              /\ tail' = tails
              /\ IF probe
                 THEN /\ devs' = [devs EXCEPT ![i].holder = "free", ![i].event = tails[Work(t)]]
                      /\ UNCHANGED held
                 ELSE /\ held' = [held EXCEPT ![t].uses = Append(@, i)]
                      /\ UNCHANGED devs
              /\ UNCHANGED <<choices, at, group, running, call, buffers, control, windows, lanes,
                             kernels, done, quarantine, faults, last>>

-----------------------------------------------------------------------------
(* The launch, and the events recorded behind it *)

(* Faulty variant: the lane is not waited for.                               *)
LaneIgnored(e) == {}

LaneEvent(e) == IF Splits(e) THEN lanes[LaneOf[e.comm]].event ELSE {}

(* stagingFinalizePipeHostPlan after a miss, stagingEnsurePipeDevicePlan.    *)
Finalized(p, missed) == IF missed THEN [p EXCEPT !.host = p.shape, !.hostValid = TRUE, !.deviceValid = FALSE] ELSE p
Uploaded(p) == IF p.deviceValid THEN p ELSE [p EXCEPT !.device = p.host, !.deviceValid = TRUE]

Kernel(t, before, plan) ==
  [comm |-> Comm(t), shape |-> call[t].shape, plan |-> plan, uses |-> Range(held[t].uses),
   lane |-> IF Splits(call[t]) THEN LaneOf[Comm(t)] ELSE -1, before |-> before]

(* Records go to the DevComms in order, the lane, and always the buffer. The *)
(* first failure skips the rest but the buffer: the stream is synchronized,  *)
(* and when that fails too the resource is poisoned.                         *)
Parts(t) == [n \in DOMAIN held[t].uses |-> <<"dev", held[t].uses[n]>>]
              \o (IF Splits(call[t]) THEN <<<<"lane", LaneOf[Comm(t)]>>>> ELSE <<>>)
NoFault == [part |-> 0, sync |-> TRUE]
Recorded(t, fault) == Range(IF fault.part = 0 THEN Parts(t) ELSE SubSeq(Parts(t), 1, fault.part - 1))
Poisoned(t, fault) == IF fault.part = 0 \/ fault.sync THEN {} ELSE {(Parts(t) \o <<<<"buffer", 0>>>>)[fault.part]}

(* reshardStartWorkStream and reshardSplitPrepareCommBResourceLane *)
Prepared(t) == WaitFor(JoinWork(tail, call[t]), call[t], LaneEvent(call[t]))

(* The kernel is enqueued (unless the launch fails), and its events recorded. *)
Enqueues(t, tails, launched, fault) ==
  LET e == call[t]
      n == Len(kernels) + 1
      plan == IF held[t].plan = 0 THEN NoPlan
              ELSE Uploaded(Finalized(Entry(t).plans[held[t].plan], held[t].missed))
      before == tails[Work(t)]
      after == IF launched THEN before \cup {n} ELSE before
      event == after
  IN  /\ kernels' = IF launched
                    THEN Append(kernels, Kernel(t, before \cup done, IF setting.algo = "DIRECT" THEN e.shape ELSE plan.device))
                    ELSE kernels
      /\ done' = IF fault.part # 0 /\ fault.sync THEN done \cup after ELSE done
      /\ quarantine' = (quarantine \/ Poisoned(t, fault) # {})
      /\ devs' = [i \in Slots |->
           LET d == IF <<"dev", i>> \in Recorded(t, fault) THEN [devs[i] EXCEPT !.event = event] ELSE devs[i]
               p == IF <<"dev", i>> \in Poisoned(t, fault) THEN [d EXCEPT !.poisoned = TRUE] ELSE d
           IN  IF p.holder = t THEN [p EXCEPT !.holder = "free"] ELSE p]
      /\ lanes' = [l \in DOMAIN lanes |->
           [event |-> IF <<"lane", l>> \in Recorded(t, fault) THEN event ELSE lanes[l].event,
            poisoned |-> lanes[l].poisoned \/ <<"lane", l>> \in Poisoned(t, fault)]]
      /\ buffers' = [buffers EXCEPT
           ![Comm(t)].reserved = FALSE,
           ![Comm(t)].event = IF fault.part = Len(Parts(t)) + 1 THEN @ ELSE event,
           ![Comm(t)].poisoned = @ \/ <<"buffer", 0>> \in Poisoned(t, fault),
           ![Comm(t)].plans = IF held[t].plan = 0 THEN @ ELSE [@ EXCEPT ![held[t].plan] = plan]]
      /\ tail' = JoinCaller([tails EXCEPT ![Work(t)] = after], e)

FaultsOf(t) == {[part |-> p, sync |-> s] : p \in 1 .. Len(Parts(t)) + 1, s \in BOOLEAN}
Ready(t) == pc[t] = "obtain" /\ todo[t] = <<>> /\ setting.algo # "PACK"
LanePoisoned(t) == Splits(call[t]) /\ lanes[LaneOf[Comm(t)]].poisoned

Launch(t) ==
  /\ Ready(t) /\ setting.algo # "HOST" /\ ~LanePoisoned(t)
  /\ \/ Enqueues(t, Prepared(t), TRUE, NoFault) /\ Return(t, TRUE) /\ UNCHANGED faults
     \/ Fault /\ Enqueues(t, Prepared(t), FALSE, NoFault) /\ Return(t, FALSE)
     \/ Fault /\ \E f \in FaultsOf(t) : Enqueues(t, Prepared(t), TRUE, f) /\ Return(t, FALSE)
  /\ apiLock' = "free"
  /\ UNCHANGED <<choices, at, group, control, windows>>

LaneUnavailable(t) ==
  /\ Ready(t) /\ LanePoisoned(t)
  /\ Fail(t, devs) /\ UNCHANGED faults

(* Host RMA is submitted with the API lock dropped. *)
OpenHostRma(t) ==
  /\ Ready(t) /\ setting.algo = "HOST" /\ ~LanePoisoned(t)
  /\ apiLock' = "free" /\ Goto(t, "submitting")
  /\ tail' = Prepared(t)
  /\ UNCHANGED <<choices, at, group, running, call, todo, held, cacheVars, kernels, done, quarantine, faults, last>>

CloseHostRma(t) ==
  /\ pc[t] = "submitting" /\ apiLock = "free"
  /\ \/ Enqueues(t, tail, TRUE, NoFault) /\ Return(t, TRUE) /\ UNCHANGED faults
     \/ Fault /\ Enqueues(t, tail, FALSE, NoFault) /\ Return(t, FALSE)
     \/ Fault /\ \E f \in FaultsOf(t) : Enqueues(t, tail, TRUE, f) /\ Return(t, FALSE)
  /\ UNCHANGED <<choices, at, group, control, windows, apiLock>>

(* A PACK call, or one bin of a fused bucket. *)
Pack(t) ==
  /\ pc[t] = "obtain" /\ setting.algo = "PACK"
  /\ \/ UNCHANGED faults /\ Return(t, TRUE)
     \/ Fault /\ Return(t, FALSE)
  /\ apiLock' = "free"
  /\ tail' = JoinCaller(tail, call[t])
  /\ UNCHANGED <<choices, at, group, cacheVars, kernels, done, quarantine>>

-----------------------------------------------------------------------------
CallsInit ==
  /\ setting \in Settings /\ script \in Scripts
  /\ at = [t \in Threads |-> 0]
  /\ group = [t \in Threads |-> NoGroup]
  /\ running = [t \in Threads |-> NotRunning]
  /\ apiLock = "free"
  /\ pc = [t \in Threads |-> "user"]
  /\ call = [t \in Threads |-> NoCall]
  /\ todo = [t \in Threads |-> <<>>]
  /\ held = [t \in Threads |-> Nothing]
  /\ buffers = [c \in Comms |-> NoBuffer]
  /\ control = [c \in Comms |-> <<>>]
  /\ windows = {}
  /\ devs = [i \in Slots |-> FreeSlot]
  /\ lanes = [l \in Range(LaneOf) |-> [event |-> {}, poisoned |-> FALSE]]
  /\ tail = [s \in Streams |-> {}]
  /\ kernels = <<>> /\ done = {} /\ quarantine = FALSE /\ faults = 0
  /\ last = [t \in Threads |-> Outcome(<<>>, <<>>, FALSE, 0)]

CallStep(t) ==
  \/ GroupStart(t) \/ Enqueue(t) \/ GroupAbort(t) \/ GroupEnd(t)
  \/ Begin(t)
  \/ TakeBuffer(t) \/ TakeWindow(t) \/ OpenRegistration(t) \/ Register(t) \/ RegisterFails(t)
  \/ TakePlan(t)
  \/ FindDevComm(t) \/ OpenCreation(t) \/ CapacityExhausted(t) \/ Create(t) \/ CreateFails(t)
  \/ LockUse(t) \/ TakeDevComm(t)
  \/ Launch(t) \/ LaneUnavailable(t) \/ OpenHostRma(t) \/ CloseHostRma(t) \/ Pack(t)

CallsNext == \E t \in Threads : CallStep(t)

CallsSpec == CallsInit /\ [][CallsNext]_callsVars

-----------------------------------------------------------------------------
(* Two kernels that use one thing: the later waits for the earlier. *)
Ordered(share(_, _)) ==
  \A j \in DOMAIN kernels : \A i \in 1 .. j - 1 :
    share(kernels[i], kernels[j]) => i \in kernels[j].before

(* No two kernels use a communicator's staging buffer at the same time,       *)
(* whatever streams their calls came on and whichever threads made them: the  *)
(* reservation keeps a second call out between taking the buffer and          *)
(* recording its event (reshard_cache.cc:421-437).                            *)
BuffersOrdered == Ordered(LAMBDA a, b : a.comm = b.comm)

(* Nor a DevComm, when NCCL_RESHARD_USE_INTERNAL_STREAMS=0: two parents share *)
(* commB's (reshard_internal.h:518-531).  An epoch in which GPU work could    *)
(* not be fenced is excepted: the records that follow the failed one are      *)
(* skipped.                                                                   *)
DevCommsOrdered ==
  (~quarantine /\ ~Pooled) => Ordered(LAMBDA a, b : a.uses \cap b.uses # {})

(* Nor a lane of commB, with internal streams too (reshard_split_comm.cu:     *)
(* 1247-1288): the device kernels of parents that share a lane follow each    *)
(* other.  Host RMA submits with the lock dropped between wait and record.    *)
LanesOrdered ==
  (~quarantine /\ setting.algo # "HOST") => Ordered(LAMBDA a, b : a.lane # -1 /\ a.lane = b.lane)

(* Every kernel reads the plan of its own call's shape, though the plan       *)
(* outlives the call and a call may fail after it has written half of one.    *)
PlanRight == \A i \in DOMAIN kernels : kernels[i].plan = kernels[i].shape

Calling == {t \in Threads : pc[t] # "user"}

(* What is held is held by a call in flight: the API lock, DevComm slots and  *)
(* mutexes, and each staging buffer by exactly one.  A call that fails, at    *)
(* whatever step, leaves nothing behind for the next to find taken.           *)
HeldByCalls ==
  /\ apiLock # "free" => apiLock \in Calling
  /\ \A i \in Slots : (devs[i].state = "reserved" \/ devs[i].holder # "free") => devs[i].holder \in Calling
  /\ \A c \in Comms :
       Cardinality({t \in Calling : held[t].buffer /\ Comm(t) = c}) = IF buffers[c].reserved THEN 1 ELSE 0

Finished(t) == pc[t] = "user" /\ ~running[t].on /\ at[t] = Len(script[t])
Waits(t) ==
  \/ pc[t] = "mutex" /\ devs[held[t].dev].holder # "free"
  \/ /\ apiLock # "free"
     /\ \/ pc[t] \in {"registering", "creating", "submitting"}
        \/ pc[t] = "take" /\ ~Pooled
        \/ Issues(t)

(* Some thread can always go on until all are done: the API lock and the      *)
(* mutexes of the DevComms are never waited for in a circle.                  *)
NobodyStuck == (\E t \in Threads : ~Finished(t)) => \E t \in Threads : ~Finished(t) /\ ~Waits(t)

(* The context of a call and the order of the buckets, as the header states   *)
(* them (nccl_m2n.h:288-297), not as the code computes them.                  *)
SameContext(a, b) ==
  /\ a.handle = b.handle /\ a.comm = b.comm
  /\ a.stream = b.stream \/ {a.stream, b.stream} = {"NULL", "legacy"}
FirstOf(g, i) == Min({j \in DOMAIN g.entries : SameContext(g.entries[i], g.entries[j])})
Fused == setting.algo = "PACK" /\ ~setting.split

(* A group issues its entries bucket by bucket in order of first appearance,  *)
(* and within a bucket as they were recorded, but for a fused one.            *)
IssuedInOrder ==
  \A t \in Threads : LET g == last[t] IN \A m, n \in DOMAIN g.issued :
    m < n => \/ FirstOf(g, g.issued[m]) < FirstOf(g, g.issued[n])
             \/ /\ FirstOf(g, g.issued[m]) = FirstOf(g, g.issued[n])
                /\ (Fused \/ g.issued[m] < g.issued[n])

(* What a group reports is what happened.  A group that ends well has issued  *)
(* every entry, once; one that names an entry has not issued it, nor anything *)
(* of a later bucket, nor (unless fused) anything behind it in its bucket,    *)
(* and has issued all that came before; one that recorded an error issues     *)
(* nothing (m2n_group.cc:188-217, 316-350).                                   *)
ErrorsExact ==
  \A t \in Threads :
    LET g == last[t]
        issued == Range(g.issued)
        bucket(i) == FirstOf(g, i)
    IN  /\ Len(g.issued) = Cardinality(issued)
        /\ ~g.error => issued = DOMAIN g.entries
        /\ (g.error /\ g.named = 0) => issued = {}
        /\ g.named # 0 => \A i \in DOMAIN g.entries :
             /\ bucket(i) < bucket(g.named) => i \in issued
             /\ (bucket(i) > bucket(g.named) \/ i = g.named) => i \notin issued
             /\ (bucket(i) = bucket(g.named) /\ ~Fused) => (i \in issued <=> i < g.named)
=============================================================================
