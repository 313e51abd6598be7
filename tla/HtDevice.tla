------------------------------ MODULE HtDevice ------------------------------
(***************************************************************************)
(* The high-throughput kernels at two grains: one block of a rank with its *)
(* warps and rings, dispatch and then combine (HtKernels), and the rounds  *)
(* of several operations on all the ranks (HtRounds).  A behaviour is of   *)
(* one of the two; the variables of the other are 0.                       *)
(***************************************************************************)
EXTENDS HtKernels

CONSTANT Setups \* see HtRounds

VARIABLES
  grain,  \* "kernels" or "rounds"
  setup, op, blk, todo, head, grid, lsaFlag, expLsa, expGin, bar, guards, signal,
  input, packed, rows, second, counts, sums, got \* of HtRounds, which shares out, wire and red

R == INSTANCE HtRounds

DeviceAssumption == RingAssumption /\ CombineAssumption /\ R!GuardAssumption

onlyRounds == <<setup, op, blk, todo, head, grid, lsaFlag, expLsa, expGin, bar, guards, signal,
                input, packed, rows, second, counts, sums, got>>
onlyKernels == <<load, r2a, mapVars, arrived, g2sVars, smem, full, drained, s2g, staged, groups,
                 phase, src, loads, stage, lastFlag, filled, freed, ostage, stores, result,
                 counter, chunkDone, n2n, signals, heard>>
deviceVars == <<grain, onlyRounds, onlyKernels, out, wire, red>>

KernelsChosen ==
  /\ grain = "kernels" /\ KernelsInit
  /\ setup = 0 /\ op = 0 /\ blk = 0 /\ todo = 0 /\ head = 0 /\ grid = 0 /\ lsaFlag = 0
  /\ expLsa = 0 /\ expGin = 0 /\ bar = 0 /\ guards = 0 /\ signal = 0 /\ input = 0
  /\ packed = 0 /\ rows = 0 /\ second = 0 /\ counts = 0 /\ sums = 0 /\ got = 0

RoundsChosen ==
  /\ grain = "rounds" /\ R!Init
  /\ load = 0 /\ r2a = 0 /\ s2d = 0 /\ ready = 0 /\ map = 0 /\ lerm = 0 /\ arrived = 0
  /\ g2s = 0 /\ loading = 0 /\ smem = 0 /\ full = 0 /\ drained = 0 /\ s2g = 0 /\ staged = 0
  /\ groups = 0 /\ phase = 0 /\ src = 0 /\ loads = 0 /\ stage = 0 /\ lastFlag = 0
  /\ filled = 0 /\ freed = 0 /\ ostage = 0 /\ stores = 0 /\ result = 0 /\ counter = 0
  /\ chunkDone = 0 /\ n2n = 0 /\ signals = 0 /\ heard = 0

DeviceInit == KernelsChosen \/ RoundsChosen

DeviceNext ==
  \/ grain = "kernels" /\ KernelsNext /\ UNCHANGED <<grain, onlyRounds>>
  \/ grain = "rounds" /\ R!Next /\ UNCHANGED <<grain, onlyKernels>>

DeviceSpec == DeviceInit /\ [][DeviceNext]_deviceVars

-----------------------------------------------------------------------------
(* At the kernels' grain.  A dispatch kernel stores, at every rank that has a *)
(* slot for a token, that token and no other, and leaves none out.            *)
DispatchDelivers == grain = "kernels" => StoresRightToken /\ AllDelivered

(* A combine kernel stores and sends whole sums of the right tokens only, and *)
(* all of them, with every signal a remote team waits for.                    *)
CombineDelivers == grain = "kernels" => SumsRight /\ PutsFinished /\ Complete

(* At the rounds' grain.  The rows a user reads after a dispatch, also the    *)
(* secondary ones, are of that dispatch: no rank that is ahead and no late    *)
(* put has written to them.                                                   *)
RowsOfThisRound == grain = "rounds" => R!RowsOfThisRound

(* A combine adds up outputs and sums of its own round only. *)
SumsOfThisRound == grain = "rounds" => R!SumsOfThisRound

(* Warps never wait for a contribution nobody loads, and ranks never for a   *)
(* flag that has moved past the value they poll for or a signal of a round   *)
(* nobody runs: until both kernels, or the programs of all ranks, have       *)
(* ended, somebody can go on.  No step is ever undone, so they do end.       *)
Ended == IF grain = "kernels" THEN phase = "end" ELSE R!ProgramEnded
NobodyStuck == Ended \/ ENABLED DeviceNext
=============================================================================
