----------------------------- MODULE ReshardPaths -----------------------------
(***************************************************************************)
(* What a reshard call of src/nccl_m2n goes through beside the PACK copy   *)
(* over host RMA (PackRma): the public calls with their caches and groups  *)
(* (M2nCalls), the split communicators (SplitComms), fused PACK buckets    *)
(* and their kernels (PackGroup), and the PIPE engine: its plan            *)
(* (StagingPlan), its device kernels (PipeChannel) and its host-RMA        *)
(* schedule (PipeHostRma).  A behaviour is of one of them; the variables   *)
(* that it does not have are 0.                                            *)
(***************************************************************************)
EXTENDS StagingPlan

CONSTANTS
  Threads, Settings, Scripts, LaneOf, DevCommSlots, ControlSlots, MaxFaults, \* M2nCalls
  Processes, Plans, Packs, Lanes, Capacity, MaxEntries, LsaSize,             \* SplitComms
  Submissions,                                                               \* PackGroup
  Programs, Depth, Tiles,                                                    \* PipeChannel
  Transfers                                                                  \* PipeHostRma

VARIABLES
  path, \* the model that the behaviour is of
  setting, script, group, running, apiLock, held, buffers, control, windows, devs,
  lanes, kernels, quarantine, faults, last, \* of M2nCalls
  ask, here, shared, known, commAs, minted, said, result, lane, ran, \* of SplitComms
  sub, bins, epochs, refused, signal, staging, output, \* of PackGroup
  prog, live, post, recv, pull, queued, unpacked, loaded, scattered, fifo, region,
  localTail, putCounter, cursorTail, head, cursorHead, ready, readyShadow, posted,
  flying, \* of PipeChannel
  tx, ops, packed, landed, wire, copied, \* of PipeHostRma
  at, pc, todo, seen, plan, tail, done, pack, got \* of several

Api == INSTANCE M2nCalls
Splitting == INSTANCE SplitComms
Fusing == INSTANCE PackGroup
Pipe == INSTANCE PipeChannel
Rma == INSTANCE PipeHostRma

ASSUME PathsAssumption ==
  Pipe!PipeAssumption /\ Api!CallsAssumption /\ Splitting!SplitAssumption

onlyCalls == <<setting, script, group, running, apiLock, held, buffers, control,
               windows, devs, lanes, kernels, quarantine, faults, last>>
onlySplit == <<ask, here, shared, known, commAs, minted, said, result, lane, ran>>
onlyGroup == <<sub, bins, epochs, refused, signal, staging, output>>
onlyPlan == <<size, stage, lb, reps, desc, bound, chans, groups, offered, expected>>
onlyChannel == <<prog, live, post, recv, pull, queued, unpacked, loaded, scattered,
                 fifo, region, localTail, putCounter, cursorTail, head, cursorHead,
                 ready, readyShadow, posted, flying>>
onlyHost == <<tx, ops, packed, landed, wire, copied>>
sharedVars == <<at, pc, todo, call, tail, done, plan, pack, got, seen>>
pathVars == <<path, sharedVars, onlyCalls, onlySplit, onlyGroup, onlyPlan, onlyChannel, onlyHost>>

NoCalls ==
  /\ setting = 0 /\ script = 0 /\ group = 0 /\ running = 0 /\ apiLock = 0
  /\ held = 0 /\ buffers = 0 /\ control = 0 /\ windows = 0 /\ devs = 0
  /\ lanes = 0 /\ kernels = 0 /\ quarantine = 0 /\ faults = 0 /\ last = 0
NoSplit ==
  /\ ask = 0 /\ here = 0 /\ shared = 0 /\ known = 0 /\ commAs = 0 /\ minted = 0
  /\ said = 0 /\ result = 0 /\ lane = 0 /\ ran = 0
NoGroup ==
  /\ sub = 0 /\ bins = 0 /\ epochs = 0 /\ refused = 0 /\ signal = 0 /\ staging = 0
  /\ output = 0
NoPlan ==
  /\ size = 0 /\ stage = 0 /\ lb = 0 /\ reps = 0 /\ desc = 0 /\ bound = 0
  /\ chans = 0 /\ groups = 0 /\ offered = 0 /\ expected = 0
NoChannel ==
  /\ prog = 0 /\ live = 0 /\ post = 0 /\ recv = 0 /\ pull = 0 /\ queued = 0
  /\ unpacked = 0 /\ loaded = 0 /\ scattered = 0 /\ fifo = 0 /\ region = 0
  /\ localTail = 0 /\ putCounter = 0 /\ cursorTail = 0 /\ head = 0
  /\ cursorHead = 0 /\ ready = 0 /\ readyShadow = 0 /\ posted = 0 /\ flying = 0
NoHost ==
  /\ tx = 0 /\ ops = 0 /\ packed = 0 /\ landed = 0 /\ wire = 0 /\ copied = 0

PathInit ==
  \/ /\ path = "calls" /\ Api!CallsInit
     /\ NoSplit /\ NoGroup /\ NoPlan /\ NoChannel /\ NoHost
     /\ plan = 0 /\ pack = 0 /\ got = 0 /\ seen = 0
  \/ /\ path = "split" /\ Splitting!SplitInit
     /\ NoCalls /\ NoGroup /\ NoPlan /\ NoChannel /\ NoHost
     /\ todo = 0 /\ call = 0 /\ tail = 0 /\ done = 0 /\ seen = 0
  \/ /\ path = "group" /\ Fusing!PackInit
     /\ NoCalls /\ NoSplit /\ NoPlan /\ NoChannel /\ NoHost
     /\ call = 0 /\ tail = 0 /\ done = 0 /\ pack = 0 /\ got = 0
  \/ /\ path = "plan" /\ Init
     /\ NoCalls /\ NoSplit /\ NoGroup /\ NoChannel /\ NoHost
     /\ at = 0 /\ pc = 0 /\ todo = 0 /\ tail = 0 /\ done = 0 /\ plan = 0
     /\ pack = 0 /\ got = 0 /\ seen = 0
  \/ /\ path = "channel" /\ Pipe!PipeInit
     /\ NoCalls /\ NoSplit /\ NoGroup /\ NoPlan /\ NoHost
     /\ pc = 0 /\ todo = 0 /\ call = 0 /\ done = 0 /\ plan = 0 /\ seen = 0
  \/ /\ path = "host" /\ Rma!HostInit
     /\ NoCalls /\ NoSplit /\ NoGroup /\ NoPlan /\ NoChannel
     /\ at = 0 /\ pc = 0 /\ todo = 0 /\ call = 0 /\ tail = 0 /\ plan = 0
     /\ pack = 0 /\ got = 0

PathNext ==
  \/ /\ path = "calls" /\ Api!CallsNext
     /\ UNCHANGED <<path, onlySplit, onlyGroup, onlyPlan, onlyChannel, onlyHost, plan,
                     pack, got, seen>>
  \/ /\ path = "split" /\ Splitting!SplitNext
     /\ UNCHANGED <<path, onlyCalls, onlyGroup, onlyPlan, onlyChannel, onlyHost, todo,
                     call, tail, done, seen>>
  \/ /\ path = "group" /\ Fusing!PackNext
     /\ UNCHANGED <<path, onlyCalls, onlySplit, onlyPlan, onlyChannel, onlyHost, call,
                     tail, done, pack, got>>
  \/ /\ path = "plan" /\ Next
     /\ UNCHANGED <<path, onlyCalls, onlySplit, onlyGroup, onlyChannel, onlyHost, at,
                     pc, todo, tail, done, plan, pack, got, seen>>
  \/ /\ path = "channel" /\ Pipe!PipeNext
     /\ UNCHANGED <<path, onlyCalls, onlySplit, onlyGroup, onlyPlan, onlyHost, pc, todo,
                     call, done, plan, seen>>
  \/ /\ path = "host" /\ Rma!HostNext
     /\ UNCHANGED <<path, onlyCalls, onlySplit, onlyGroup, onlyPlan, onlyChannel, at,
                     pc, todo, call, tail, plan, pack, got>>

PathSpec == PathInit /\ [][PathNext]_pathVars

-----------------------------------------------------------------------------
(* Two kernels that use the same staging buffer, DevComm or commB lane run    *)
(* one after the other, whatever streams and threads their calls came on      *)
(* (reshard_cache.cc:421-437, reshard_internal.h:518-531,                     *)
(* reshard_split_comm.cu:1247-1288), and each reads the plan of its own       *)
(* call's shape, though the plan outlives the call.                           *)
ResourcesOrdered ==
  path = "calls" => Api!BuffersOrdered /\ Api!DevCommsOrdered /\ Api!LanesOrdered /\ Api!PlanRight

(* What is held is held by a call in flight: the API lock, DevComm slots and  *)
(* mutexes, and each staging buffer by exactly one.  A call that fails, at    *)
(* whatever step, leaves nothing behind for the next to find taken.           *)
HeldByCalls == path = "calls" => Api!HeldByCalls

(* A group issues its entries bucket by bucket in order of first appearance,  *)
(* and what it reports is what happened: an entry that is named has not been  *)
(* issued, nor anything behind it; all that came before has                   *)
(* (m2n_group.cc:188-217, 316-350).                                           *)
GroupsExact == path = "calls" => Api!IssuedInOrder /\ Api!ErrorsExact

(* The ranks of a parent take the same decision and the same handles, lane    *)
(* and namespace, and two parents on one commB never share a namespace        *)
(* (reshard_split_comm.cu:560-1160).                                          *)
SplitsAgree == path = "split" => Splitting!SameSplit /\ Splitting!NamespacesApart

(* What a destination of a fused bucket unpacks for an entry and a source     *)
(* shard is the part that they share, whatever the bin, the ring and the      *)
(* domains it came through, and although each rank derives the offsets alone; *)
(* a split call's ring stays on its rails (reshard_user_window.cu:1016-1285). *)
BucketsRight == path = "group" => Fusing!EntriesRight /\ Fusing!RingOnRail

(* Two ranks that accept a PIPE call agree on every edge between them, though *)
(* each computes it with a formula of its own; every destination rank is      *)
(* reached by each source shard it needs, once; a follower finds its chunks   *)
(* where its handler receives them (staging_prepare.cc:595-1120,              *)
(* staging_buffer.cc:522-1126).                                               *)
PlansMeet ==
  path = "plan" =>
    EdgesMeet /\ ArrivesOnce /\ FollowersRead /\ SplitReaches

(* What a rank of a PIPE call copies out is this call's data, in order and    *)
(* whole, in both engines: no slot is filled again before all its readers are *)
(* done, and between calls the counters of an edge agree                      *)
(* (staging_kernel.cu:957-1010, 1335-1394, reshard_staging.cu:1934-2582).     *)
PipesDeliver ==
  /\ path = "channel" => Pipe!UnpackRight /\ Pipe!CursorsMeet
  /\ path = "host" => Rma!CopiesRight /\ Rma!CountersEven

(* Nobody waits for ever: not a thread for the API lock or a DevComm's mutex, *)
(* not a rank for a collective of the split, for a signal, or for a credit,   *)
(* in whatever order calls, kernels and streams get on.                       *)
NobodyStuck ==
  /\ path = "calls" => Api!NobodyStuck
  /\ path = "split" => Splitting!NobodyWaits
  /\ path = "group" => Fusing!KernelsMeet
  /\ path = "channel" => Pipe!KernelsEnd
  /\ path = "host" => Rma!TransfersEnd
=============================================================================
