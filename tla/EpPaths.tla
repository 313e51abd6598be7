------------------------------- MODULE EpPaths -------------------------------
(***************************************************************************)
(* Three views of src/nccl_ep: groups and handles on the host (EpHost),    *)
(* the high-throughput kernels and their rounds (HtDevice), and the slots  *)
(* tokens are given (HtSlots).  A behaviour is of one of them; the         *)
(* variables that it does not have are 0.                                  *)
(***************************************************************************)
EXTENDS EpHost

CONSTANTS
  NPipes, Stages, InFlight, NMap, WaveSize, Empty, Loads, CPipes, CStages, OStages, \* HtDevice
  RoundSetups,           \* the Setups of HtRounds
  ScanSetups, PullSetups \* of HtScan and HtPull

VARIABLES
  path, \* "host", "device" or "slots"
  load, r2a, ready, lerm, g2s, s2g, loading, smem, full, drained, staged, groups,
  phase, src, loads, stage, lastFlag, filled, freed, red, ostage, stores, counter,
  chunkDone, n2n, wire, signals, heard, grain, op, blk, todo, head, grid, lsaFlag,
  expLsa, expGin, bar, guards, signal, input, packed, rows, second, counts, got, \* of HtDevice
  published, gate, recv, em, zones, cursor, permuted, dead, flow, pos, source,
  inbox, slots, places, chunks, retained, laid, layout, recvs, moved, padded,
  staging, left, \* of HtSlots
  s2d, map, arrived, out, setup, sums \* of both

Device == INSTANCE HtDevice WITH Setups <- RoundSetups
Slots == INSTANCE HtSlots WITH Setups <- ScanSetups

ASSUME Device!DeviceAssumption /\ Slots!SlotsAssumption

onlyHost == <<group, handles, updates, landing, scratch, saved, fleet, log, held,
              next, size, binding>>
onlyDevice == <<load, r2a, ready, lerm, g2s, s2g, loading, smem, full, drained,
                staged, groups, phase, src, loads, stage, lastFlag, filled, freed,
                red, ostage, stores, counter, chunkDone, n2n, wire, signals, heard,
                grain, op, blk, todo, head, grid, lsaFlag, expLsa, expGin, bar,
                guards, signal, input, packed, rows, second, counts, got>>
onlySlots == <<published, gate, recv, em, zones, cursor, permuted, dead, flow, pos,
               source, inbox, slots, places, chunks, retained, laid, layout, recvs,
               moved, padded, staging, left>>
sharedVars == <<result, at, s2d, map, arrived, out, setup, sums>>
pathVars == <<path, sharedVars, onlyHost, onlyDevice, onlySlots>>

NoHost ==
  /\ group = 0 /\ handles = 0 /\ updates = 0 /\ landing = 0 /\ scratch = 0
  /\ saved = 0 /\ fleet = 0 /\ log = 0 /\ held = 0 /\ next = 0 /\ size = 0
  /\ binding = 0
NoDevice ==
  /\ load = 0 /\ r2a = 0 /\ ready = 0 /\ lerm = 0 /\ g2s = 0 /\ s2g = 0
  /\ loading = 0 /\ smem = 0 /\ full = 0 /\ drained = 0 /\ staged = 0
  /\ groups = 0 /\ phase = 0 /\ src = 0 /\ loads = 0 /\ stage = 0 /\ lastFlag = 0
  /\ filled = 0 /\ freed = 0 /\ red = 0 /\ ostage = 0 /\ stores = 0 /\ counter = 0
  /\ chunkDone = 0 /\ n2n = 0 /\ wire = 0 /\ signals = 0 /\ heard = 0 /\ grain = 0
  /\ op = 0 /\ blk = 0 /\ todo = 0 /\ head = 0 /\ grid = 0 /\ lsaFlag = 0
  /\ expLsa = 0 /\ expGin = 0 /\ bar = 0 /\ guards = 0 /\ signal = 0 /\ input = 0
  /\ packed = 0 /\ rows = 0 /\ second = 0 /\ counts = 0 /\ got = 0
NoSlots ==
  /\ published = 0 /\ gate = 0 /\ recv = 0 /\ em = 0 /\ zones = 0 /\ cursor = 0
  /\ permuted = 0 /\ dead = 0 /\ flow = 0 /\ pos = 0 /\ source = 0 /\ inbox = 0
  /\ slots = 0 /\ places = 0 /\ chunks = 0 /\ retained = 0 /\ laid = 0
  /\ layout = 0 /\ recvs = 0 /\ moved = 0 /\ padded = 0 /\ staging = 0 /\ left = 0

PathInit ==
  \/ /\ path = "host" /\ HostInit /\ NoDevice /\ NoSlots
     /\ s2d = 0 /\ map = 0 /\ arrived = 0 /\ out = 0 /\ setup = 0 /\ sums = 0
  \/ /\ path = "device" /\ Device!DeviceInit /\ NoHost /\ NoSlots
     /\ at = 0
  \/ /\ path = "slots" /\ Slots!SlotsInit /\ NoHost /\ NoDevice
     /\ result = 0

PathNext ==
  \/ /\ path = "host" /\ HostNext
     /\ UNCHANGED <<path, onlyDevice, onlySlots, s2d, map, arrived, out, setup, sums>>
  \/ /\ path = "device" /\ Device!DeviceNext
     /\ UNCHANGED <<path, onlyHost, onlySlots, at>>
  \/ /\ path = "slots" /\ Slots!SlotsNext
     /\ UNCHANGED <<path, onlyHost, onlyDevice, result>>

PathSpec == PathInit /\ [][PathNext]_pathVars

-----------------------------------------------------------------------------
(* Creating a group, binding outputs and destroying the group do not strand a *)
(* rank in a collective its peers never enter, though each checks its own     *)
(* configuration and environment (nccl_ep.cc:2980-4290).  Blocks, warps and   *)
(* ranks do not all wait for one another: mbarriers, chunk flags, signals,    *)
(* the guard of a round, counts of a scan, cursors of a pull.  Nothing is     *)
(* undone, so each ends.                                                      *)
NobodyStuck ==
  /\ path = "host" => NobodyStranded
  /\ path = "device" => Device!NobodyStuck
  /\ path = "slots" => Slots!NobodyStuck

(* Ranks that have made a group have the same one, and those that write an    *)
(* output directly into a peer's window all have that peer's binding of this  *)
(* call (nccl_ep.cc: vote and import of endpoints, bind of outputs).          *)
GroupsAgree == path = "host" => SameGroup /\ OutputsBound

(* An operation reads what its own handle's last dispatch left, whatever      *)
(* other handles of the group did in between; what the header allows is       *)
(* accepted, the rows a forward delivers are those of its layout, and no      *)
(* region that it or a kernel uses is larger than what was allocated.         *)
HandlesExact == path = "host" => ReadsOwn /\ LegalAccepted /\ RowsDelivered /\ StorageCovers

(* A dispatch kernel stores every token at every rank that has a slot for it, *)
(* once; the combine that follows sends and stores whole sums of the right    *)
(* tokens, whatever order the copies of its rings end in.                     *)
KernelsDeliver == path = "device" => Device!DispatchDelivers /\ Device!CombineDelivers

(* Rows and sums are of their own round: no rank that is a round ahead, and   *)
(* no put that is late, has written to a buffer that a round still reads.     *)
RoundsApart == path = "device" => Device!RowsOfThisRound /\ Device!SumsOfThisRound

(* Scan: each rank works out alone where tokens go, and all come to the same; *)
(* slots and zones have no gaps and no stale rows, and combine waits for just *)
(* the tokens that kept a row.                                                *)
MapsRight == path = "slots" => Slots!MapsAgree /\ Slots!BuffersFilled /\ Slots!KeptRight

(* Pull: rows hold the tokens they were claimed for, as they are in this      *)
(* dispatch, and sums add what is sent in this combine.                       *)
PullsRight == path = "slots" => Slots!RowsRight /\ Slots!SumsRight
=============================================================================
