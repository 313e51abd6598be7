------------------------------- MODULE HtSlots -------------------------------
(***************************************************************************)
(* The two ways a high-throughput group of src/nccl_ep places the tokens   *)
(* it receives: routing maps that a preprocessing kernel computes from the *)
(* gathered routing (HtScan), or slots that receivers claim while they     *)
(* pull (HtPull).  A group is of one of the two; the variables of the      *)
(* other are 0.                                                            *)
(***************************************************************************)
EXTENDS HtScan

CONSTANT PullSetups \* the Setups of HtPull

VARIABLES
  flow,   \* "scan" or "pull"
  pos, arrived, source, inbox, slots, places, chunks, map, retained, laid, layout, recvs,
  moved, padded, out, staging, left, sums \* of HtPull, which shares setup and at

Pull == INSTANCE HtPull WITH Setups <- PullSetups

SlotsAssumption == SetupsAssumption /\ Pull!SetupsAssumption

onlyScan == <<published, gate, rows, zones, cursor, permuted, dead>>
onlyPull == <<pos, arrived, source, inbox, slots, places, chunks, map, retained, laid, layout,
              recvs, moved, padded, out, staging, left, sums>>
slotVars == <<flow, setup, at, onlyScan, onlyPull>>

ScanChosen ==
  /\ flow = "scan" /\ Init
  /\ pos = 0 /\ arrived = 0 /\ source = 0 /\ inbox = 0 /\ slots = 0 /\ places = 0
  /\ chunks = 0 /\ map = 0 /\ retained = 0 /\ laid = 0 /\ layout = 0 /\ recvs = 0
  /\ moved = 0 /\ padded = 0 /\ out = 0 /\ staging = 0 /\ left = 0 /\ sums = 0

PullChosen ==
  /\ flow = "pull" /\ Pull!Init
  /\ published = 0 /\ gate = 0 /\ s2d = 0 /\ recv = 0 /\ em = 0 /\ zones = 0
  /\ cursor = 0 /\ permuted = 0 /\ dead = 0

SlotsInit == ScanChosen \/ PullChosen

SlotsNext ==
  \/ flow = "scan" /\ Next /\ UNCHANGED <<flow, onlyPull>>
  \/ flow = "pull" /\ Pull!Next /\ UNCHANGED <<flow, onlyScan>>

SlotsSpec == SlotsInit /\ [][SlotsNext]_slotVars

-----------------------------------------------------------------------------
(* Scan: what a rank stores to a team member is what that member, on its own, *)
(* has worked out it will receive.                                            *)
MapsAgree == flow = "scan" => SendersAgree

(* Scan: received slots are taken without gaps up to the count that is told,  *)
(* and the zone of an expert is its rows, then cleared ones, nothing else.    *)
BuffersFilled == flow = "scan" => SlotsFilled /\ ZonesWhole

(* Scan: combine waits for the tokens that kept a row, and for no others, and *)
(* a retained row holds its own token, also one from another team.            *)
KeptRight == flow = "scan" => GateIffKept /\ PayloadRight

(* Pull: after a dispatch the rows of the experts hold the tokens they were   *)
(* claimed for, as they are in this dispatch, and all the others are clear.   *)
RowsRight == flow = "pull" => Pull!RowsRight

(* Pull: a combine adds what the ranks that kept a token send for it in this  *)
(* combine, and nothing else.                                                 *)
SumsRight == flow = "pull" => Pull!SumsRight

(* Blocks and ranks that wait for one another's counts, barriers, chunks and  *)
(* cursors do not all wait: until all are through or one has trapped, some    *)
(* step is possible, and every step gets nearer to the end.                   *)
NobodyStuck == (IF flow = "scan" THEN Scanned ELSE Pull!Pulled) \/ ENABLED SlotsNext
=============================================================================
