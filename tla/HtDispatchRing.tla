--------------------------- MODULE HtDispatchRing ---------------------------
(***************************************************************************)
(* One block of the high-throughput dispatch kernel                        *)
(* (src/nccl_ep/device/ht_ep.cuh, dispatch_kernel_impl): its pipelines of  *)
(* a G2S warp, which loads tokens into a ring of shared-memory stages, and *)
(* an S2G warp, which stores each staged token to the ranks that its row   *)
(* of the sparse-to-dense map names; and, in count mode, the MAP warps     *)
(* that build those rows while the pipelines run.                          *)
(*                                                                         *)
(* Work comes in units: unit chunk * teams + j is what team j steps behind *)
(* this one sent of the block's chunk-th chunk (j = 0: this rank's own     *)
(* tokens).  An mbarrier is its phase bit; a wait for parity P passes when *)
(* the bit differs from P.  Copies of the TMA engine end in any order.     *)
(* Blocks share no state but the counters of the kernel's tail.            *)
(***************************************************************************)
EXTENDS Integers, FiniteSets, SequencesExt

CONSTANTS
  NPipes,    \* NUM_PIPELINES
  Stages,    \* STAGES_PER_PIPELINE
  InFlight,  \* IN_FLIGHT_S2G
  NMap,      \* NUM_MAP_WARPS
  WaveSize,  \* tokens one warp-wide step of a MAP warp covers
  Empty,     \* the entry -1 of a row
  Loads      \* what a block may have to dispatch (see LoadsAssumption)

(* A load says whether the handle is in count mode, whether the receiver's    *)
(* local_dup is on, and how many teams (LSA_TEAMS) there are, and gives for   *)
(* every unit its tokens: whether a token is routed to this team, and the row *)
(* it has once slots are assigned, per entry the rank it goes to or Empty.    *)
(* Count mode runs with one team; the scan has already cleared the gate of a  *)
(* token all of whose entries it dropped.                                     *)
LoadsAssumption ==
  \A l \in Loads :
    /\ l.teams \in Nat \ {0} /\ l.count => l.teams = 1
    /\ \A u \in DOMAIN l.units : \A i \in DOMAIN l.units[u] :
         /\ Range(l.units[u][i].row) # {Empty} => l.units[u][i].routed
         /\ l.units[u][i].routed => l.count \/ Range(l.units[u][i].row) # {Empty}

RingAssumption ==
  /\ {NPipes, Stages, NMap, WaveSize} \subseteq Nat \ {0} /\ InFlight \in Nat
  /\ InFlight < Stages
  /\ LoadsAssumption

VARIABLES
  load,     \* the block's load; never changes
  r2a,      \* rdma_to_attn_map: the gated tokens of each unit
  s2d,      \* sparse_to_dense_map: the row of each token of each unit
  ready,    \* s2d_chunks_ready: units each MAP warp has published
  map,      \* where each MAP warp stands
  lerm,     \* the <<unit, token, rank>> whose expert bitmap has been written
  arrived,  \* remote units whose tail signal has the expected value
  g2s, s2g, \* where the two warps of each pipeline stand
  loading,  \* loads under way of each pipeline: <<stage, token>>
  smem,     \* the token in each stage
  full,     \* the producer mbarrier of each stage
  drained,  \* the consumer mbarrier of each stage
  staged,   \* the s2d-map ring (scan mode): the unit in each stage, its mbarrier,
            \* and the unit that is being loaded
  groups,   \* stores under way of each pipeline: [n, stage, token, ranks]
  out,      \* the <<token, rank, content>> stored so far
  phase     \* run, then clear the gate, then tail, then done

mapVars == <<s2d, ready, map, lerm>>
g2sVars == <<g2s, loading>>
s2gVars == <<s2g, staged, groups, out>>
vars == <<load, r2a, mapVars, arrived, g2sVars, smem, full, drained, s2gVars, phase>>

Pipes == 0 .. NPipes - 1
Maps == 0 .. NMap - 1
Units == 0 .. Len(load.units) - 1
Tokens(u) == DOMAIN load.units[u + 1]
Token(u, i) == load.units[u + 1][i]
NoToken == <<>>

(* Chunks go round the pipelines; a pipeline takes all teams of a chunk. *)
NextUnit(p, u) ==
  LET later == {v \in Units : v > u /\ (v \div load.teams) % NPipes = p}
  IN IF later = {} THEN Len(load.units) ELSE CHOOSE v \in later : \A w \in later : v <= w

(* ring_advance *)
Advance(w) ==
  IF w.stage + 1 = Stages THEN [w EXCEPT !.stage = 0, !.parity = 1 - @]
                          ELSE [w EXCEPT !.stage = @ + 1]

(* The flags of a unit, read 16 tokens at a time: here, at once. *)
Flagged(u) == SelectSeq([i \in Tokens(u) |-> <<u, i>>], LAMBDA t : t[2] \in r2a[u])

Flip(bits, p, s) == [bits EXCEPT ![p][s] = 1 - @]

-----------------------------------------------------------------------------
(* The head: warp 0 initialises the mbarriers, the MAP counters are zeroed.   *)
(* The rows are preset to empty in count mode and final in scan mode.         *)
Init ==
  /\ load \in Loads
  /\ r2a = [u \in Units |-> {i \in Tokens(u) : Token(u, i).routed}]
  /\ s2d = [u \in Units |-> [i \in Tokens(u) |->
             IF load.count THEN [e \in DOMAIN Token(u, i).row |-> Empty] ELSE Token(u, i).row]]
  /\ ready = [w \in Maps |-> 0] /\ lerm = {}
  /\ map = [w \in Maps |-> [at |-> IF load.count THEN "build" ELSE "done", unit |-> w]]
  /\ arrived = {}
  /\ g2s = [p \in Pipes |-> [unit |-> NextUnit(p, -1), todo |-> <<>>,
                             stage |-> 0, parity |-> 1, made |-> 0]]
  /\ s2g = [p \in Pipes |-> [at |-> "start", unit |-> NextUnit(p, -1), todo |-> <<>>,
                             stage |-> 0, parity |-> 0, n |-> 0, flying |-> 0,
                             mapStage |-> 0, mapParity |-> 0]]
  /\ loading = [p \in Pipes |-> {}] /\ groups = [p \in Pipes |-> {}]
  /\ smem = [p \in Pipes |-> [s \in 0 .. Stages - 1 |-> NoToken]]
  /\ full = [p \in Pipes |-> [s \in 0 .. Stages - 1 |-> 0]]
  /\ drained = [p \in Pipes |-> [s \in 0 .. Stages - 1 |-> 0]]
  /\ staged = [p \in Pipes |-> [s \in {0, 1} |-> [unit |-> -1, bit |-> 0, next |-> -1]]]
  /\ out = {} /\ phase = "run"

-----------------------------------------------------------------------------
(* MAP warps *)

(* build_s2d: a warp assigns the slots of its next unit. *)
BuildUnit(w) ==
  /\ phase = "run" /\ map[w].at = "build"
  /\ IF map[w].unit \in Units
       THEN /\ s2d' = [s2d EXCEPT ![map[w].unit] = [i \in Tokens(map[w].unit) |-> Token(map[w].unit, i).row]]
            /\ map' = [map EXCEPT ![w].at = "publish"]
       ELSE /\ map' = [map EXCEPT ![w] = [at |-> "lerm", unit |-> 0]]
            /\ UNCHANGED s2d
  /\ UNCHANGED <<load, r2a, ready, lerm, arrived, g2sVars, smem, full, drained, s2gVars, phase>>

PublishUnit(w) ==
  /\ phase = "run" /\ map[w].at = "publish"
  /\ ready' = [ready EXCEPT ![w] = @ + 1]
  /\ map' = [map EXCEPT ![w] = [at |-> "build", unit |-> @.unit + NMap]]
  /\ UNCHANGED <<load, r2a, s2d, lerm, arrived, g2sVars, smem, full, drained, s2gVars, phase>>

(* s2d_unit_wait: the warp that builds unit u has published it. *)
UnitReady(u) == ready[u % NMap] > u \div NMap

(* The ranks a row's entries go to.  With local_dup only the first of a run   *)
(* of entries to one rank is sent; the receiver copies it to the others.      *)
RowRanks(row) ==
  {row[e] : e \in {f \in DOMAIN row :
     /\ row[f] # Empty
     /\ ~(load.dup /\ f > 1 /\ row[f - 1] = row[f])}}

(* The waves of a unit are dealt to the MAP warps, last warp first. *)
WaveOwner(u, i) ==
  LET waves == (Len(load.units[1]) + WaveSize - 1) \div WaveSize
  IN (NMap - 1) - ((u * waves + (i - 1) \div WaveSize) % NMap)

(* build_lerm: the expert bitmaps of the tokens of a warp's waves, at the     *)
(* slots it reads back from the rows.                                         *)
BuildLerm(w) ==
  /\ phase = "run" /\ map[w].at = "lerm"
  /\ IF map[w].unit \in Units
       THEN LET u == map[w].unit
                mine == {i \in Tokens(u) : WaveOwner(u, i) = w} IN
            /\ UnitReady(u)
            /\ lerm' = lerm \cup UNION {{<<u, i, d>> : d \in RowRanks(s2d[u][i])} : i \in mine}
            /\ map' = [map EXCEPT ![w].unit = u + 1]
       ELSE map' = [map EXCEPT ![w].at = "done"] /\ UNCHANGED lerm
  /\ UNCHANGED <<load, r2a, s2d, ready, arrived, g2sVars, smem, full, drained, s2gVars, phase>>

-----------------------------------------------------------------------------
(* The G2S warp of a pipeline *)

(* The put of a chunk and its tail signal arrive from a remote team. *)
RemoteArrives(u) ==
  /\ phase = "run" /\ u \in Units \ arrived /\ u % load.teams # 0
  /\ arrived' = arrived \cup {u}
  /\ UNCHANGED <<load, r2a, mapVars, g2sVars, smem, full, drained, s2gVars, phase>>

(* resolve_source: the unit is this rank's own, or its tail signal is in. *)
SourceReady(u) == u % load.teams = 0 \/ u \in arrived

(* The warp goes on to its next unit and reads the flags. *)
G2sEnter(p) ==
  LET w == g2s[p] IN
  /\ phase = "run" /\ w.todo = <<>> /\ w.unit \in Units
  /\ SourceReady(w.unit) /\ (load.count => UnitReady(w.unit))
  /\ g2s' = [g2s EXCEPT ![p].unit = NextUnit(p, @), ![p].todo = Flagged(w.unit)]
  /\ UNCHANGED <<load, r2a, mapVars, arrived, loading, smem, full, drained, s2gVars, phase>>

(* Once every stage has been used, the consumer must have let go of this one. *)
StageFree(w, p) == w.made < Stages \/ drained[p][w.stage] # w.parity

G2sIssue(p) ==
  LET w == g2s[p] IN
  /\ phase = "run" /\ w.todo # <<>> /\ StageFree(w, p)
  /\ loading' = [loading EXCEPT ![p] = @ \cup {<<w.stage, Head(w.todo)>>}]
  /\ g2s' = [g2s EXCEPT ![p] = Advance([w EXCEPT !.todo = Tail(@), !.made = @ + 1])]
  /\ UNCHANGED <<load, r2a, mapVars, arrived, smem, full, drained, s2gVars, phase>>

(* A load ends: its bytes complete the phase of the producer mbarrier. *)
LoadEnds(p, l) ==
  /\ l \in loading[p]
  /\ loading' = [loading EXCEPT ![p] = @ \ {l}]
  /\ smem' = [smem EXCEPT ![p][l[1]] = l[2]]
  /\ full' = Flip(full, p, l[1])
  /\ UNCHANGED <<load, r2a, mapVars, arrived, g2s, drained, s2gVars, phase>>

-----------------------------------------------------------------------------
(* The S2G warp of a pipeline *)

(* Scan mode: the slice of a unit is loaded into a stage of the map ring. *)
Prefetch(p, s, u) ==
  staged' = IF load.count \/ u \notin Units THEN staged
            ELSE [staged EXCEPT ![p][s].next = u]

S2gStart(p) ==
  /\ phase = "run" /\ s2g[p].at = "start"
  /\ Prefetch(p, 0, s2g[p].unit)
  /\ s2g' = [s2g EXCEPT ![p].at = "prefetch"]
  /\ UNCHANGED <<load, r2a, mapVars, arrived, g2sVars, smem, full, drained, groups, out, phase>>

MapLoadEnds(p, s) ==
  /\ staged[p][s].next # -1
  /\ staged' = [staged EXCEPT ![p][s] = [unit |-> @.next, bit |-> 1 - @.bit, next |-> -1]]
  /\ UNCHANGED <<load, r2a, mapVars, arrived, g2sVars, smem, full, drained, s2g, groups, out, phase>>

(* Before it takes a unit the warp prefetches the slice of the one after. *)
S2gPrefetch(p) ==
  LET w == s2g[p] IN
  /\ phase = "run" /\ w.at = "prefetch" /\ w.unit \in Units
  /\ Prefetch(p, 1 - w.mapStage, NextUnit(p, w.unit))
  /\ s2g' = [s2g EXCEPT ![p].at = "enter"]
  /\ UNCHANGED <<load, r2a, mapVars, arrived, g2sVars, smem, full, drained, groups, out, phase>>

(* Faulty variant: the rows are read whether they are there or not. *)
RowsAssumed(p) == TRUE

(* The rows of its unit are there: built, or staged. *)
RowsReady(p) ==
  LET w == s2g[p] IN
  IF load.count THEN UnitReady(w.unit) ELSE staged[p][w.mapStage].bit # w.mapParity

S2gEnter(p) ==
  LET w == s2g[p] IN
  /\ phase = "run" /\ w.at = "enter" /\ RowsReady(p)
  /\ s2g' = [s2g EXCEPT ![p].at = "walk", ![p].todo = Flagged(w.unit)]
  /\ UNCHANGED <<load, r2a, mapVars, arrived, g2sVars, smem, full, drained, staged, groups, out, phase>>

(* The row of token t: read from global memory, or from the stage. *)
Row(p, t) ==
  IF load.count THEN s2d[t[1]][t[2]]
  ELSE LET v == staged[p][s2g[p].mapStage].unit
       IN IF v # -1 /\ t[2] \in Tokens(v) THEN s2d[v][t[2]] ELSE <<>>

TooMany(w) == w.flying + 1 > InFlight

(* The stage of the next gated token is full: its stores are issued. *)
S2gStore(p) ==
  LET w == s2g[p] IN
  /\ phase = "run" /\ w.at = "walk" /\ w.todo # <<>>
  /\ full[p][w.stage] # w.parity
  /\ groups' = [groups EXCEPT ![p] = @ \cup {[n |-> w.n + 1, stage |-> w.stage, token |-> Head(w.todo),
                                              ranks |-> RowRanks(Row(p, Head(w.todo)))]}]
  /\ LET v == [w EXCEPT !.todo = Tail(@), !.n = @ + 1, !.flying = @ + 1]
     IN s2g' = [s2g EXCEPT ![p] = IF TooMany(w) THEN [v EXCEPT !.at = "retire"] ELSE Advance(v)]
  /\ UNCHANGED <<load, r2a, mapVars, arrived, g2sVars, smem, full, drained, staged, out, phase>>

(* All but the last InFlight stores have read their stages: the oldest of     *)
(* those stages goes back to the producer.                                    *)
S2gRetire(p) ==
  LET w == s2g[p] IN
  /\ phase = "run" /\ w.at = "retire"
  /\ \A g \in groups[p] : g.n > w.n - InFlight
  /\ drained' = Flip(drained, p, (w.stage - InFlight + Stages) % Stages)
  /\ s2g' = [s2g EXCEPT ![p] = Advance([w EXCEPT !.at = "walk", !.flying = @ - 1])]
  /\ UNCHANGED <<load, r2a, mapVars, arrived, g2sVars, smem, full, staged, groups, out, phase>>

(* The unit is done; the ring of slices moves on. *)
S2gLeave(p) ==
  LET w == s2g[p] IN
  /\ phase = "run" /\ w.at = "walk" /\ w.todo = <<>>
  /\ s2g' = [s2g EXCEPT ![p] = [w EXCEPT !.at = "prefetch", !.unit = NextUnit(p, @),
               !.mapStage = 1 - @, !.mapParity = IF w.mapStage = 1 THEN 1 - @ ELSE @]]
  /\ UNCHANGED <<load, r2a, mapVars, arrived, g2sVars, smem, full, drained, staged, groups, out, phase>>

(* A group of stores reads its stage. *)
StoreEnds(p, g) ==
  /\ g \in groups[p]
  /\ groups' = [groups EXCEPT ![p] = @ \ {g}]
  /\ out' = out \cup {<<g.token, d, smem[p][g.stage]>> : d \in g.ranks}
  /\ UNCHANGED <<load, r2a, mapVars, arrived, g2sVars, smem, full, drained, s2g, staged, phase>>

(* The final wait for all groups. *)
S2gDrain(p) ==
  LET w == s2g[p] IN
  /\ phase = "run" /\ w.at = "prefetch" /\ w.unit \notin Units /\ groups[p] = {}
  /\ s2g' = [s2g EXCEPT ![p].at = "done"]
  /\ UNCHANGED <<load, r2a, mapVars, arrived, g2sVars, smem, full, drained, staged, groups, out, phase>>

-----------------------------------------------------------------------------
(* Every warp of the block has come to the end of its part. *)
BlockSynced ==
  /\ \A p \in Pipes : s2g[p].at = "done" /\ g2s[p].unit \notin Units /\ g2s[p].todo = <<>>
  /\ \A w \in Maps : map[w].at = "done"

(* Count mode: the combine gate of a token all of whose slots have been       *)
(* dropped is cleared.                                                        *)
ClearGate ==
  /\ phase = "run" /\ BlockSynced
  /\ r2a' = IF load.count
              THEN [u \in Units |-> {i \in r2a[u] : Range(s2d[u][i]) # {Empty}}]
              ELSE r2a
  /\ phase' = "tail"
  /\ UNCHANGED <<load, mapVars, arrived, g2sVars, smem, full, drained, s2gVars>>

(* The tail: the completion barrier of the team (module HtRounds). *)
LeaveKernel ==
  /\ phase = "tail"
  /\ phase' = "done"
  /\ UNCHANGED <<load, r2a, mapVars, arrived, g2sVars, smem, full, drained, s2gVars>>

Pipeline(p) ==
  \/ G2sEnter(p) \/ G2sIssue(p) \/ S2gStart(p) \/ S2gPrefetch(p) \/ S2gEnter(p)
  \/ S2gStore(p) \/ S2gRetire(p) \/ S2gLeave(p) \/ S2gDrain(p)
  \/ \E l \in loading[p] : LoadEnds(p, l)
  \/ \E s \in {0, 1} : MapLoadEnds(p, s)
  \/ \E g \in groups[p] : StoreEnds(p, g)

MapWarp(w) == BuildUnit(w) \/ PublishUnit(w) \/ BuildLerm(w)

Next ==
  \/ \E p \in Pipes : Pipeline(p)
  \/ \E w \in Maps : MapWarp(w)
  \/ \E u \in Units : RemoteArrives(u)
  \/ ClearGate \/ LeaveKernel

(* Warps of a resident block all run; copies and puts end. *)
Fairness == WF_vars(Next)

Spec == Init /\ [][Next]_vars /\ Fairness

-----------------------------------------------------------------------------
(* The pairs of a token and a rank that has a slot for it. *)
Kept ==
  UNION {UNION {{<<u, i, d>> : d \in Range(Token(u, i).row) \ {Empty}} : i \in Tokens(u)} : u \in Units}

(* A store sends the token whose row it follows: a stage is not loaded again  *)
(* while a store still reads it, nor stored from before its load has ended.   *)
StoresRightToken == \A o \in out : o[3] = o[1]

(* When the kernel ends every token is at every rank that has a slot for it,  *)
(* nowhere else, and in count mode its expert bitmap is there too.            *)
AllDelivered ==
  phase = "done" =>
    /\ {<<o[1][1], o[1][2], o[2]>> : o \in out} = Kept
    /\ load.count => lerm = Kept

=============================================================================
