------------------------------ MODULE EpLayout ------------------------------
(***************************************************************************)
(* What a high-throughput group stores and what its handles use            *)
(* (src/nccl_ep/nccl_ep.cc).  Group storage is sized once, before any      *)
(* handle and its layout exist, by asking what an EXPERT_MAJOR handle      *)
(* would need; a handle block is sized per layout and top-k; which of the  *)
(* metadata paths a handle takes is decided by the same predicates.        *)
(*                                                                         *)
(* A group is a record                                                     *)
(*   [mode, teams, team, tokens, recv, topk, experts, eager, drop,         *)
(*    zero_copy, policy, scan, unfused]                                    *)
(* mode is ht_em_mode; teams and team are rdma_team_size and               *)
(* lsa_team_size; tokens, recv and topk are max_dispatch_tokens_per_rank,  *)
(* max_recv_tokens and config.num_topk (0: unset); scan and unfused the    *)
(* environment's ht_ag_scan_mode and ht_count_unfused.  Sizes count rows   *)
(* or elements, not bytes.                                                 *)
(***************************************************************************)
EXTENDS Integers, FiniteSets

CONSTANTS
  MaxTopk,         \* MAX_NUM_TOPK
  CountMaxTopk,    \* kEpCountMaxTopk
  MaxExperts,      \* kTopkIdxInvalid
  MaxLocalExperts, \* 65536 / MAX_NUM_TOPK
  FlatChunk,       \* kFlatMetadataChunkTokens
  MinChunk         \* the smallest dispatch_tokens_per_chunk that may be selected

ASSUME SizesAssumption ==
  {MaxTopk, CountMaxTopk, MaxExperts, MaxLocalExperts, FlatChunk, MinChunk} \subseteq Nat \ {0}

Flat == "flat"
Major == "expert major"
Layouts == {Flat, Major}

Permute == "local permute"
LocalDup == "local dup"
NvlinkDup == "nvlink dup"
PullPush == "pull push"

LOCAL Least(a, b) == IF a < b THEN a ELSE b
LOCAL CeilDiv(a, b) == (a + b - 1) \div b

nRanks(g) == g.teams * g.team
LocalExperts(g) == g.experts \div nRanks(g)
-----------------------------------------------------------------------------
(* Which way the metadata goes.                                             *)
ForceScan(g) == g.policy = "force scan" \/ (g.policy = "auto" /\ g.scan)
ForceUnfused(g) == g.policy = "auto" /\ g.unfused

(* EXPERT_MAJOR rows made from FLAT ones at the receiver; staging indexed by EM slot. *)
EmPermute(g, l) == l = Major /\ g.mode \in {Permute, PullPush}
BySlot(g, l) == l = Major /\ g.mode \in {NvlinkDup, LocalDup}

(* Counts pushed to every rank's published rows, fused with dispatch. *)
FlatPushCount(g, l) == l = Flat /\ ~ForceScan(g) /\ g.teams = 1 /\ g.mode = Permute
PushCount(g, l) ==
  \/ ~ForceScan(g) /\ g.teams = 1 /\ EmPermute(g, l) /\ g.mode = Permute
  \/ FlatPushCount(g, l)

(* Counts pulled from inboxes in dispatch. *)
Pull(g, l) == l \in Layouts /\ g.mode = PullPush
PullCount(g, l) ==
  /\ ~ForceScan(g) /\ g.teams = 1 /\ ~g.eager /\ Pull(g, l)
  /\ l = Flat \/ LocalExperts(g) <= MaxLocalExperts
PullCountActive(g, l, fused) == PullCount(g, l) /\ (l = Flat => ~ForceUnfused(g) /\ fused)
FlatMapsDeferred(g, l, fused) == l = Flat /\ PullCountActive(g, l, fused)

(* REQUIRE_FUSED accepts only handles that have a fused path. *)
FusedAccepted(g, l, k) ==
  g.policy = "require fused" =>
    /\ ~g.eager /\ g.teams = 1 /\ k <= MaxTopk
    /\ l = Flat => FlatPushCount(g, l) \/ PullCount(g, l)
    /\ IF g.mode = PullPush THEN g.experts <= MaxExperts /\ PullCount(g, l) ELSE PushCount(g, l)

(* Sparse weights travel compact when a row of them and their expert ids is smaller *)
(* than a dense one.                                                                *)
CompactRow(k) == (((6 * k + 15) \div 16) * 4)
CompactWire(g, k) == g.mode # PullPush /\ k > 0 /\ CompactRow(k) < LocalExperts(g) * g.team
-----------------------------------------------------------------------------
(* Rows a rank can receive before the top-k fan-out. *)
FlatRecv(g) == Least(g.recv, g.tokens * nRanks(g))

(* A count row of the pull flow: per rank and expert, in FLAT layout per chunk too. *)
PullCountRow(g, l) ==
  nRanks(g) + g.experts + (IF l = Flat THEN CeilDiv(g.tokens, FlatChunk) * nRanks(g) ELSE 0)

(* Faulty variant: the question is asked of a FLAT handle. *)
StagingRowsFlat(g) ==
  IF BySlot(g, Flat) THEN g.recv
  ELSE IF g.mode = PullPush THEN g.tokens * nRanks(g) ELSE FlatRecv(g)

(* What the group asks before any handle exists. *)
StagingRows(g) ==
  IF BySlot(g, Major) THEN g.recv
  ELSE IF g.mode = PullPush THEN g.tokens * nRanks(g) ELSE FlatRecv(g)

(* The inboxes of the pull flow hold the longer FLAT count row and the widest top-k row. *)
InboxStride(g) == PullCountRow(g, Flat) + g.tokens * MaxTopk
InboxSize(g) == IF \E l \in Layouts : PullCount(g, l) THEN nRanks(g) * InboxStride(g) ELSE 0

TablesOf(g, size) == IF PushCount(g, Major) THEN size ELSE 0
TokenRows(g, rows) == IF g.zero_copy /\ g.mode # PullPush THEN 0 ELSE rows
DenseRow(g) == LocalExperts(g) * g.team

(* The regions of the mega buffer that peers write or read. *)
MegaBuffer(g) ==
  LET pull == g.mode = PullPush IN
  [dispatch_token |-> TokenRows(g, IF pull THEN g.tokens ELSE StagingRows(g)),
   dispatch_prob |-> IF pull THEN g.tokens * MaxTopk ELSE StagingRows(g) * DenseRow(g),
   lerm |-> TablesOf(g, g.recv),
   published |-> TablesOf(g, nRanks(g) * (nRanks(g) + g.experts)),
   combine_token |-> TokenRows(g, StagingRows(g)),
   combine_prob |-> IF pull THEN 0 ELSE StagingRows(g) * DenseRow(g),
   inbox |-> InboxSize(g)]

(* Scratch of the group that its handles share. *)
WeightRow(g) == IF g.topk > 0 THEN g.topk ELSE CountMaxTopk
CountScratch(g) ==
  [cursors |-> LocalExperts(g) + 1,
   weights |-> IF g.mode = Permute THEN FlatRecv(g) * WeightRow(g) ELSE 0]
PullCursors(g) == IF InboxSize(g) > 0 THEN g.team + LocalExperts(g) + 2 ELSE 0
ScanWorkspace(g) == IF PushCount(g, Major) THEN 0 ELSE 1
RoutingTables(g) ==
  [topk_map |-> IF g.mode = PullPush THEN nRanks(g) * g.tokens * MaxTopk ELSE 0,
   routing_map |-> IF g.mode = PullPush THEN 0 ELSE nRanks(g) * g.tokens]

(* Buffers between teams: their rows are for the other teams only. *)
GinBuffer(g) == IF g.teams = 1 THEN 0 ELSE g.tokens * (g.teams - 1)
-----------------------------------------------------------------------------
(* The parts of a handle block.                                             *)
LermRows(g, l) == IF BySlot(g, l) THEN g.recv ELSE FlatRecv(g)
GroupRow(g, k) == Least(k, LocalExperts(g))

PrivateCount(g) ==
  CeilDiv(g.tokens, MinChunk) * g.team + g.teams  \* own_chunk_rank, per_src_lteam_num_tokens
    + g.tokens                                    \* token_dst_rank_bitmap
    + (nRanks(g) + 1) * (nRanks(g) + g.experts)   \* own_row, cached_cnt_rows

HandleBlock(g, l, k) ==
  LET push == PushCount(g, l)
      pull == Pull(g, l)
      major(size) == IF l = Major THEN size ELSE 0
      fanout == major(IF g.mode = LocalDup THEN 1 ELSE 0)
      perSlot == l = Major /\ ~EmPermute(g, l)
  IN [ler |-> IF push THEN FlatRecv(g) ELSE IF pull /\ l = Flat THEN 0 ELSE LermRows(g, l),
      wire_pos |-> IF CompactWire(g, k) THEN LermRows(g, l) * (IF perSlot THEN 1 ELSE k) ELSE 0,
      s2d |-> IF pull /\ (l = Major \/ ~g.drop) THEN 0
              ELSE g.teams * g.tokens * (IF perSlot THEN k ELSE g.team),
      topk_idx |-> g.tokens * k,
      counts |-> major(LocalExperts(g)),
      offsets |-> major(LocalExperts(g) + 1),
      groups |-> fanout * (g.recv \div 2) * GroupRow(g, k),
      flat2em |-> IF EmPermute(g, l) THEN FlatRecv(g) * k ELSE 0,
      count_scratch |-> IF push THEN PrivateCount(g) ELSE 0,
      recv_slot_to_src |-> IF pull THEN FlatRecv(g) ELSE 0,
      srcpos |-> IF pull THEN FlatRecv(g) * k ELSE 0,
      own_row |-> IF PullCount(g, l) THEN PullCountRow(g, l) ELSE 0,
      cached_rows |-> IF PullCount(g, l) THEN major(nRanks(g) * (nRanks(g) + g.experts)) ELSE 0]

(* Scan scratch is allocated for the first handle that asks and shared from then on. *)
ScanScratch(g, l) ==
  [rank_mask |-> IF PushCount(g, l) THEN 0 ELSE g.teams * g.tokens * g.team,
   scan_tmp |-> IF PushCount(g, l) THEN 0 ELSE g.team,
   recv_slots |-> IF EmPermute(g, l) /\ ~PushCount(g, l) THEN g.tokens * nRanks(g) ELSE 0]
Ensured(have, need) == [x \in DOMAIN have |-> IF have[x] = 0 THEN need[x] ELSE have[x]]
ScratchFits(have, need) == \A x \in DOMAIN need : need[x] > 0 => have[x] >= need[x]

(* A handle's block is as large as ncclEpHandleMemSize says. *)
HandleMemSize(g, l, k) ==
  LET b == HandleBlock(g, l, k) IN
    b.ler + b.wire_pos + b.s2d + b.topk_idx + b.counts + b.offsets + b.groups + b.flat2em
      + b.count_scratch + b.recv_slot_to_src + b.srcpos + b.own_row + b.cached_rows

(* ncclEpInitHandle: which handles a group has. *)
HandleAccepted(g, l, k) ==
  /\ FusedAccepted(g, l, k) /\ k > 0
  /\ Pull(g, l) => k <= MaxTopk /\ g.experts <= MaxExperts
  /\ IF g.topk > 0 THEN k <= g.topk ELSE ~(g.eager /\ l = Major)
  /\ EmPermute(g, l) => k <= CountMaxTopk
  /\ BySlot(g, l) /\ ~g.zero_copy => g.recv >= nRanks(g) * g.tokens * k
-----------------------------------------------------------------------------
(* What the kernels of a handle index at most.                              *)
Rows(g, l) == IF BySlot(g, l) THEN g.recv ELSE FlatRecv(g)
Windowed(g, rows) == IF g.zero_copy THEN 0 ELSE rows

MegaUse(g, l, k) ==
  LET pull == Pull(g, l)
      prob == IF CompactWire(g, k) THEN CompactRow(k) ELSE DenseRow(g)
  IN
  [dispatch_token |-> IF pull THEN g.tokens ELSE Windowed(g, Rows(g, l)),
   dispatch_prob |-> IF pull THEN g.tokens * k ELSE Rows(g, l) * prob,
   lerm |-> IF PushCount(g, l) THEN FlatRecv(g) ELSE 0,
   published |-> IF PushCount(g, l) THEN nRanks(g) * (nRanks(g) + g.experts) ELSE 0,
   combine_token |-> IF pull THEN g.tokens * nRanks(g) ELSE Windowed(g, Rows(g, l)),
   combine_prob |-> IF pull THEN 0 ELSE Rows(g, l) * prob,
   inbox |-> IF PullCount(g, l)
             THEN (nRanks(g) - 1) * InboxStride(g) + PullCountRow(g, l) + g.tokens * k ELSE 0]

ScratchUse(g, l, k) ==
  [weights |-> IF EmPermute(g, l) /\ g.mode = Permute THEN FlatRecv(g) * k ELSE 0,
   cursors |-> IF EmPermute(g, l) THEN LocalExperts(g) + 1 ELSE 0,
   pull_cursors |-> IF PullCount(g, l) THEN g.team + LocalExperts(g) + 2 ELSE 0,
   workspace |-> IF l = Major /\ ~PushCount(g, l) THEN 1 ELSE 0,
   topk_map |-> IF Pull(g, l) THEN nRanks(g) * g.tokens * k ELSE 0,
   routing_map |-> IF Pull(g, l) \/ PushCount(g, l) THEN 0 ELSE nRanks(g) * g.tokens]

GroupScratch(g) ==
  [weights |-> CountScratch(g).weights, cursors |-> CountScratch(g).cursors, pull_cursors |-> PullCursors(g),
   workspace |-> ScanWorkspace(g), topk_map |-> RoutingTables(g).topk_map, routing_map |-> RoutingTables(g).routing_map]

(* Group storage that was sized for any handle covers this one. *)
Covers(g, l, k) ==
  /\ \A x \in DOMAIN MegaBuffer(g) : MegaUse(g, l, k)[x] <= MegaBuffer(g)[x]
  /\ \A x \in DOMAIN GroupScratch(g) : ScratchUse(g, l, k)[x] <= GroupScratch(g)[x]
=============================================================================
