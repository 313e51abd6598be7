------------------------------ MODULE HtKernels ------------------------------
(***************************************************************************)
(* The dispatch kernel (HtDispatchRing) and the combine kernel             *)
(* (HtCombineRing) of one step, launched on one stream by                  *)
(* src/nccl_ep/nccl_ep.cc, each with one block.  Combine reads the gate    *)
(* and the rows dispatch leaves: a gate that is set for a token without a  *)
(* slot would have the RED warps wait for a contribution nobody loads.     *)
(***************************************************************************)
EXTENDS HtDispatchRing

CONSTANTS
  CPipes, CStages, OStages \* see HtCombineRing

CombineAssumption == {CPipes, CStages, OStages} \subseteq Nat \ {0}

VARIABLES
  src, loads, stage, lastFlag, filled, freed, red, ostage, stores, result,
  counter, chunkDone, n2n, wire, signals, heard \* of the combine kernel

Combine == INSTANCE HtCombineRing

cvars == <<src, loads, stage, lastFlag, filled, freed, red, ostage, stores, result,
           counter, chunkDone, n2n, wire, signals, heard>>
allVars == <<vars, cvars>>
kernelVars == <<r2a, mapVars, arrived, g2sVars, smem, full, drained, s2gVars>>

KernelsInit ==
  /\ Init
  /\ src = <<>> /\ loads = <<>> /\ stage = <<>> /\ lastFlag = <<>> /\ filled = <<>>
  /\ freed = <<>> /\ red = <<>> /\ ostage = <<>> /\ stores = <<>> /\ result = <<>>
  /\ counter = 0 /\ chunkDone = {} /\ n2n = <<>> /\ wire = {} /\ signals = {} /\ heard = {}

(* The combine kernel starts when the dispatch kernel has ended. *)
Launch ==
  /\ phase = "done" /\ phase' = "combine"
  /\ Combine!CombineLaunch
  /\ UNCHANGED <<load, kernelVars>>

CombineRuns == phase = "combine" /\ Combine!CombineStep /\ UNCHANGED <<phase, kernelVars>>

Finish ==
  /\ phase = "combine" /\ Combine!CombineEnded /\ phase' = "end"
  /\ UNCHANGED <<load, kernelVars, cvars>>

KernelsNext == (Next /\ UNCHANGED cvars) \/ Launch \/ CombineRuns \/ Finish

KernelsSpec == KernelsInit /\ [][KernelsNext]_allVars

-----------------------------------------------------------------------------
SumsRight == phase \in {"combine", "end"} => Combine!SumsRight
PutsFinished == phase \in {"combine", "end"} => Combine!PutsFinished
Complete == phase = "end" => Combine!Complete
=============================================================================
