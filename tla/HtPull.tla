------------------------------- MODULE HtPull -------------------------------
(***************************************************************************)
(* The pull-push flow of the high-throughput path: dispatch reads the rows *)
(* of its peers over NVLink, combine writes to them (dispatch_pull,        *)
(* dispatch_pull_flat, combine_push, combine_push_flat and combine_reduce  *)
(* of src/nccl_ep/device/ht_ep.cuh, one LSA team, maps built in dispatch). *)
(*                                                                         *)
(* Every rank publishes its routing to the inboxes of its peers; the MAP   *)
(* warps of a receiver give each token that comes to it a receive slot,    *)
(* and in EXPERT_MAJOR layout each of its experts a row, by atomic cursors *)
(* chunk by chunk; in FLAT layout slots follow from counts, and a sender   *)
(* computes those of its own tokens.  Payload warps pull the rows of a     *)
(* published chunk while others are being built.  Combine sends each slot  *)
(* back into the staging row that token has for this rank; its rank adds   *)
(* the rows of those ranks that its own routing names.                     *)
(*                                                                         *)
(* What a buffer holds is the number of the operation it was written for.  *)
(* A rank is one stream: the grid barriers around the team barriers are in *)
(* HtRounds, and a step here is the work of one warp on one chunk or row.  *)
(* A rank has a few MAP warps, which deal out the chunks of the sources in   *)
(* turn, and one payload warp, which takes chunks and slots in order.      *)
(***************************************************************************)
EXTENDS Integers, Sequences, FiniteSets

(* [expertMajor, routes, epr, chunk, warps, cap, align, drop, program].            *)
(* routes[h][r][t] is the set of <<rank, expert>> of token t of rank r for handle  *)
(* h; program lists the <<kind, handle>> that all ranks run.                       *)
CONSTANT Setups

Forward == "forward"   \* dispatch that builds the maps of its handle
Backward == "backward" \* dispatch with the maps as they are
Combine == "combine"

(* A dispatch and a combine without maps are refused (fwd_maps_built). *)
SetupsAssumption ==
  \A s \in Setups : \A i \in DOMAIN s.program :
    /\ s.program[i][1] \in {Forward, Backward, Combine} /\ s.program[i][2] \in DOMAIN s.routes
    /\ \E j \in 1 .. i : s.program[j] = <<Forward, s.program[i][2]>>

VARIABLES
  setup,    \* chosen once
  pos,      \* the operation a rank runs or runs next
  at,       \* where in it
  arrived,  \* the team barriers a rank has arrived at
  source,   \* the operation the rows are of that peers pull from a rank
  inbox,    \* inbox[r][s]: the handle whose routing s has published to r
  slots,    \* rank_cursor: slots claimed for the tokens of each source
  places,   \* expert_cursor: rows claimed of each expert
  chunks,   \* where each <<source, chunk>> stands; its first slot once claimed
  map,      \* map[h][r]: the receive slots [slot, src, tok, to] of a handle
  retained, \* retained[h][r]: own <<token, rank, slot>>, FLAT layout
  laid,     \* the ranks whose layout outputs are published (layout_ready)
  layout,   \* expert_token_offsets and per_expert_counts_active: [base, active]
  recvs,    \* recvs[h][r]: num_recv_tokens_dev
  moved,    \* the slots payload warps have pulled or pushed in this operation
  padded,   \* the ranks whose pad warps are through
  out,      \* the dispatch output of a rank, row by row
  staging,  \* staging[r][t][s]: where s pushes for token t of r
  left,     \* the tokens combine_reduce has left
  sums      \* sums[r][t]: the <<rank, operation>> that were added

buffers == <<source, out, staging, sums>>
maps == <<map, retained, recvs, layout>>
cursors == <<slots, places, chunks>>
work == <<laid, moved, padded, left>>
vars == <<setup, pos, at, arrived, inbox, buffers, maps, cursors, work>>

None == -1
Todo == -1
Built == -2
Ranks == DOMAIN setup.routes[1]
Handles == DOMAIN setup.routes
Tokens == DOMAIN setup.routes[1][1]
Experts == 1 .. setup.epr
NumChunks == (Len(setup.routes[1][1]) + setup.chunk - 1) \div setup.chunk
Work == Ranks \X (1 .. NumChunks)
Order(w) == (w[2] - 1) * Cardinality(Ranks) + w[1] - 1

Kind(r) == setup.program[pos[r]][1]
Handle(r) == setup.program[pos[r]][2]
At(r, where) == pos[r] <= Len(setup.program) /\ at[r] = where
Runs(r, kinds) == At(r, "run") /\ Kind(r) \in kinds

MinOf(a, b) == IF a < b THEN a ELSE b

(* The experts of rank d that a token of s is routed to by a handle's snapshot, *)
(* and by what s has published to d.                                            *)
Routed(h, s, t, d) == {e \in Experts : <<d, e>> \in setup.routes[h][s][t]}
Hits(d, s, t) == Routed(inbox[d][s], s, t, d)
Comes(d) == {x \in Ranks \X Tokens : Hits(d, x[1], x[2]) # {}}

(* Slots are rank-major; zones follow from the count rows. *)
FirstSlot(d, s) == Cardinality({x \in Comes(d) : x[1] < s})
FlatTotal(d) == Cardinality(Comes(d))
Count(d, e) == Cardinality({x \in Comes(d) : e \in Hits(d, x[1], x[2])})
Padded(c) == ((c + setup.align - 1) \div setup.align) * setup.align
Zone(d, e) ==
  LET start[k \in 1 .. setup.epr + 1] == IF k = 1 THEN 0 ELSE start[k - 1] + Padded(Count(d, k - 1))
  IN start[e]
ZonesTotal(d) == Zone(d, setup.epr + 1)

Init ==
  /\ setup \in Setups
  /\ pos = [r \in Ranks |-> 1] /\ at = [r \in Ranks |-> "ready"] /\ arrived = [r \in Ranks |-> 0]
  /\ source = [r \in Ranks |-> 0] /\ inbox = [r \in Ranks |-> [s \in Ranks |-> 1]]
  /\ slots = [r \in Ranks |-> [s \in Ranks |-> 0]] /\ places = [r \in Ranks |-> [e \in Experts |-> 0]]
  /\ chunks = [r \in Ranks |-> [w \in Work |-> Built]]
  /\ map = [h \in Handles |-> [r \in Ranks |-> {}]] /\ retained = map
  /\ recvs = [h \in Handles |-> [r \in Ranks |-> 0]]
  /\ layout = [r \in Ranks |-> [base |-> [e \in 1 .. setup.epr + 1 |-> 0], active |-> places[r]]]
  /\ laid = {} /\ padded = {} /\ moved = [r \in Ranks |-> {}] /\ left = moved
  /\ out = [r \in Ranks |-> [i \in 0 .. setup.cap - 1 |-> <<0, 0, 0>>]]
  /\ staging = [r \in Ranks |-> [t \in Tokens |-> [s \in Ranks |-> 0]]]
  /\ sums = [r \in Ranks |-> [t \in Tokens |-> {}]]
-----------------------------------------------------------------------------
(* The rows of a dispatch are copied to where peers read them (the staging  *)
(* buffer, when the input is no registered window).                         *)
StageRows(r) == source' = [source EXCEPT ![r] = pos[r]]

(* Its blocks publish the routing of the handle to the inboxes of all ranks. *)
PublishRouting(r) == inbox' = [d \in Ranks |-> [inbox[d] EXCEPT ![r] = Handle(r)]]

(* The last of them resets the cursors. *)
ResetCursors(r) ==
  /\ slots' = [slots EXCEPT ![r] = [s \in Ranks |-> 0]]
  /\ places' = [places EXCEPT ![r] = [e \in Experts |-> 0]]
  /\ chunks' = [chunks EXCEPT ![r] = [w \in Work |-> Todo]]
  /\ laid' = laid \ {r} /\ padded' = padded \ {r}

(* Then the rank arrives at the head barrier. *)
ArriveHead(r) ==
  /\ At(r, "ready") /\ at' = [at EXCEPT ![r] = "head"]
  /\ arrived' = [arrived EXCEPT ![r] = @ + 1]
  /\ moved' = [moved EXCEPT ![r] = {}]
  /\ UNCHANGED <<setup, pos, out, staging, sums, maps, left>>

EnterDispatch(r) ==
  /\ ArriveHead(r) /\ Kind(r) # Combine /\ StageRows(r)
  /\ IF Kind(r) = Forward THEN PublishRouting(r) /\ ResetCursors(r)
     ELSE UNCHANGED <<inbox, cursors, laid, padded>>

EnterCombine(r) ==
  /\ ArriveHead(r) /\ Kind(r) = Combine
  /\ UNCHANGED <<source, inbox, cursors, laid, padded>>

(* Faulty variant: a rank passes the barrier when it has arrived itself. *)
MetAlone(r) == TRUE

Met(r) == \A p \in Ranks : arrived[p] >= arrived[r]

(* The maps of the handle are written from here on. *)
LeaveHead(r) ==
  /\ At(r, "head") /\ Met(r) /\ at' = [at EXCEPT ![r] = "run"]
  /\ IF Kind(r) = Forward
     THEN /\ map' = [map EXCEPT ![Handle(r)][r] = {}]
          /\ retained' = [retained EXCEPT ![Handle(r)][r] = {}]
     ELSE UNCHANGED <<map, retained>>
  /\ UNCHANGED <<setup, pos, arrived, inbox, buffers, recvs, layout, cursors, work>>

Room(d, e) == setup.cap - MinOf(Zone(d, e), setup.cap)

(* Without the drop policy what does not fit is fatal. *)
Overflows(r) ==
  ~setup.drop /\ (FlatTotal(r) > setup.cap \/ (setup.expertMajor /\ ZonesTotal(r) > setup.cap))

(* Block 0 writes the layout outputs and releases them to the pad warps.      *)
LayOut(r) ==
  /\ Runs(r, {Forward}) /\ r \notin laid
  /\ IF Overflows(r)
     THEN at' = [at EXCEPT ![r] = "trap"] /\ UNCHANGED <<laid, layout, recvs>>
     ELSE    /\ laid' = laid \cup {r}
             /\ recvs' = [recvs EXCEPT ![Handle(r)][r] = MinOf(FlatTotal(r), setup.cap)]
             /\ layout' = [layout EXCEPT ![r] =
                   [base |-> [e \in 1 .. setup.epr + 1 |-> MinOf(Zone(r, e), setup.cap)],
                    active |-> [e \in Experts |-> MinOf(Count(r, e), Room(r, e))]]]
             /\ UNCHANGED at
  /\ UNCHANGED <<setup, pos, arrived, inbox, buffers, map, retained, cursors, moved, padded, left>>

(* The tokens of a chunk that come to r, in order. *)
ChunkTokens(w) == {t \in Tokens : (t - 1) \div setup.chunk = w[2] - 1}
Arrivals(r, w) == {t \in ChunkTokens(w) : Hits(r, w[1], t) # {}}
Rank(S, t) == Cardinality({u \in S : u < t})

(* Faulty variant: a chunk that no token of comes from is passed over. *)
ClaimableNonEmpty(r, w) ==
  /\ chunks[r][w] = Todo /\ Arrivals(r, w) # {}
  /\ \A v \in Work : (Order(v) < Order(w) /\ Order(v) % setup.warps = Order(w) % setup.warps) =>
       chunks[r][v] = Built \/ Arrivals(r, v) = {}

(* A MAP warp takes its chunks in order. *)
Claimable(r, w) ==
  /\ chunks[r][w] = Todo
  /\ \A v \in Work : (Order(v) < Order(w) /\ Order(v) % setup.warps = Order(w) % setup.warps) =>
       chunks[r][v] = Built

(* One atomic for the slots of a chunk. *)
ClaimSlots(r, w) ==
  /\ setup.expertMajor
  /\ chunks' = [chunks EXCEPT ![r][w] = FirstSlot(r, w[1]) + slots[r][w[1]]]
  /\ slots' = [slots EXCEPT ![r][w[1]] = @ + Cardinality(Arrivals(r, w))]

(* In FLAT layout slots are counted, those of the source's earlier chunks first. *)
CountSlots(r, w) ==
  /\ ~setup.expertMajor
  /\ LET before == {x \in Comes(r) : x[1] = w[1] /\ (x[2] - 1) \div setup.chunk < w[2] - 1}
     IN chunks' = [chunks EXCEPT ![r][w] = FirstSlot(r, w[1]) + Cardinality(before)]
  /\ UNCHANGED slots

StartChunk(r, w) ==
  /\ Runs(r, {Forward}) /\ Claimable(r, w)
  /\ ClaimSlots(r, w) \/ CountSlots(r, w)
  /\ UNCHANGED <<setup, pos, at, arrived, inbox, buffers, maps, places, work>>

(* What a sender finds for the tokens of its own chunk at a destination. *)
OwnSlots(r, w) ==
  LET mine == {x \in Ranks \X Tokens : Routed(inbox[r][x[1]], x[1], x[2], w[1]) # {}}
      slot(t) == Cardinality({x \in mine : x[1] < r \/ (x[1] = r /\ x[2] < t)})
  IN {<<t, w[1], slot(t)>> : t \in {u \in ChunkTokens(w) : <<r, u>> \in mine /\ slot(u) < setup.cap}}

SlotOf(r, w, t) == chunks[r][w] + Rank(Arrivals(r, w), t)
Kept(r, w) == {t \in Arrivals(r, w) : SlotOf(r, w, t) < setup.cap}
Entries(r, w, To(_)) ==
  {[slot |-> SlotOf(r, w, t), src |-> w[1], tok |-> t, to |-> To(t)] : t \in Kept(r, w)}

(* The rows of a chunk's tokens that have a slot: one claim per expert; a row *)
(* beyond the capacity is written as -1.                                      *)
PlaceRows(r, w) ==
  LET claims(e) == {t \in Kept(r, w) : e \in Hits(r, w[1], t)}
      row(t, e) == Zone(r, e) + places[r][e] + Rank(claims(e), t)
      to(t) == [e \in Hits(r, w[1], t) |->
                  IF setup.drop /\ row(t, e) >= setup.cap THEN None ELSE row(t, e)]
  IN /\ setup.expertMajor
     /\ map' = [map EXCEPT ![Handle(r)][r] = @ \cup Entries(r, w, to)]
     /\ places' = [places EXCEPT ![r] = [e \in Experts |-> @[e] + Cardinality(claims(e))]]
     /\ UNCHANGED retained

(* In FLAT layout a slot is a row; the same arithmetic tells a sender which of *)
(* its own tokens its peers keep.                                              *)
PlaceSlots(r, w) ==
  /\ ~setup.expertMajor
  /\ map' = [map EXCEPT ![Handle(r)][r] =
                @ \cup Entries(r, w, LAMBDA t : [e \in {1} |-> SlotOf(r, w, t)])]
  /\ retained' = [retained EXCEPT ![Handle(r)][r] = @ \cup OwnSlots(r, w)]
  /\ UNCHANGED places

(* The map of the chunk is written, then its range is published. *)
BuildChunk(r, w) ==
  /\ Runs(r, {Forward}) /\ chunks[r][w] \notin {Todo, Built}
  /\ PlaceRows(r, w) \/ PlaceSlots(r, w)
  /\ chunks' = [chunks EXCEPT ![r][w] = Built]
  /\ UNCHANGED <<setup, pos, at, arrived, inbox, buffers, recvs, layout, slots, work>>

(* The payload warp waits for the chunks in turn; with the maps as they are, it *)
(* goes through the slots.                                                      *)
ChunkOf(x) == <<x.src, 1 + (x.tok - 1) \div setup.chunk>>
Turn(r, x) ==
  /\ x \in map[Handle(r)][r] /\ x.slot \notin moved[r]
  /\ Kind(r) # Forward => x.slot = Cardinality(moved[r]) /\ x.slot < recvs[Handle(r)][r]
  /\ Kind(r) = Forward =>
       /\ \A w \in Work : Order(w) < Order(ChunkOf(x)) => chunks[r][w] = Built
       /\ \A y \in map[Handle(r)][r] :
            \/ y.slot \in moved[r] \/ Order(ChunkOf(y)) > Order(ChunkOf(x))
            \/ (ChunkOf(y) = ChunkOf(x) /\ y.slot >= x.slot)

(* A row is read from its source and stored to its places: all rows of its      *)
(* experts here, one row in FLAT layout.                                        *)
Scattered(r, x) ==
  [i \in DOMAIN out[r] |->
     IF \E e \in DOMAIN x.to : x.to[e] = i THEN <<x.src, x.tok, source[x.src]>> ELSE out[r][i]]
Delivered(r, x) == [out[r] EXCEPT ![x.slot] = <<x.src, x.tok, source[x.src]>>]

PullRow(r, x) ==
  /\ Runs(r, {Forward, Backward}) /\ Turn(r, x)
  /\ out' = [out EXCEPT ![r] = IF setup.expertMajor THEN Scattered(r, x) ELSE Delivered(r, x)]
  /\ moved' = [moved EXCEPT ![r] = @ \cup {x.slot}]
  /\ UNCHANGED <<setup, pos, at, arrived, inbox, source, staging, sums, maps, cursors, laid, padded, left>>

(* The pad warps clear what a zone has beyond its active rows. *)
Pads(r) ==
  {i \in DOMAIN out[r] : \E e \in Experts :
     layout[r].base[e] + layout[r].active[e] <= i /\ i < layout[r].base[e + 1]}
PadFill(r) ==
  /\ Runs(r, {Forward}) /\ setup.expertMajor /\ r \in laid \ padded
  /\ out' = [out EXCEPT ![r] = [i \in DOMAIN @ |-> IF i \in Pads(r) THEN <<0, 0, 0>> ELSE @[i]]]
  /\ padded' = padded \cup {r}
  /\ UNCHANGED <<setup, pos, at, arrived, inbox, source, staging, sums, maps, cursors, laid, moved, left>>

AllBuilt(r) == \A w \in Work : chunks[r][w] = Built
AllMoved(r) == moved[r] = {x.slot : x \in map[Handle(r)][r]}

(* Faulty variant: the rows that were counted and not claimed stay as they are. *)
PhantomsKept(r) == {}

(* Rows counted for tokens that have been dropped before they claimed one. *)
Phantoms(r) ==
  {i \in DOMAIN out[r] : \E e \in Experts :
     LET b == layout[r].base[e] IN b + places[r][e] <= i /\ i < b + layout[r].active[e]}

(* The last block clears them, and the rank arrives at the tail barrier. *)
FinishRun(r) ==
  /\ At(r, "run") /\ AllMoved(r)
  /\ Kind(r) = Forward => AllBuilt(r) /\ r \in laid /\ (setup.expertMajor => r \in padded)
  /\ at' = [at EXCEPT ![r] = "tail"] /\ arrived' = [arrived EXCEPT ![r] = @ + 1]
  /\ IF Kind(r) = Forward /\ setup.expertMajor /\ setup.drop
     THEN /\ out' = [out EXCEPT ![r] =
                [i \in DOMAIN @ |-> IF i \in Phantoms(r) THEN <<0, 0, 0>> ELSE @[i]]]
          /\ layout' = [layout EXCEPT ![r].active = [e \in Experts |-> MinOf(places[r][e], @[e])]]
     ELSE UNCHANGED <<out, layout>>
  /\ UNCHANGED <<setup, pos, inbox, source, staging, sums, map, retained, recvs, cursors, work>>

LeaveTail(r) ==
  /\ At(r, "tail") /\ Met(r)
  /\ IF Kind(r) = Combine
     THEN /\ at' = [at EXCEPT ![r] = "reduce"] /\ left' = [left EXCEPT ![r] = Tokens]
          /\ sums' = [sums EXCEPT ![r] = [t \in Tokens |-> {}]] /\ UNCHANGED pos
     ELSE /\ at' = [at EXCEPT ![r] = "ready"] /\ pos' = [pos EXCEPT ![r] = @ + 1]
          /\ UNCHANGED <<left, sums>>
  /\ UNCHANGED <<setup, arrived, inbox, source, out, staging, maps, cursors, laid, moved, padded>>
-----------------------------------------------------------------------------
(* The row of a token that is staged for rank r. *)
Staged(r, x, v) == staging' = [staging EXCEPT ![x.src][x.tok][r] = v]

(* combine_push: the sum of a slot's rows, of none when they have been dropped. *)
PushSum(r, x) == setup.expertMajor /\ Staged(r, x, pos[r])

(* combine_push_flat: the row of the slot as it is. *)
PushRelay(r, x) == ~setup.expertMajor /\ Staged(r, x, pos[r])

PushRow(r, x) ==
  /\ Runs(r, {Combine}) /\ Turn(r, x)
  /\ PushSum(r, x) \/ PushRelay(r, x)
  /\ moved' = [moved EXCEPT ![r] = @ \cup {x.slot}]
  /\ UNCHANGED <<setup, pos, at, arrived, inbox, source, out, sums, maps, cursors, laid, padded, left>>

(* The ranks whose rows combine_reduce adds: those the routing names, in FLAT *)
(* layout under the drop policy those that have kept the token.               *)
Present(r, t) ==
  {d \in Ranks : /\ Routed(Handle(r), r, t, d) # {}
                 /\ (~setup.expertMajor /\ setup.drop) =>
                      \E x \in retained[Handle(r)][r] : x[1] = t /\ x[2] = d}

ReduceToken(r, t) ==
  /\ At(r, "reduce") /\ t \in left[r] /\ \A u \in left[r] : t <= u
  /\ sums' = [sums EXCEPT ![r][t] = {<<d, staging[r][t][d]>> : d \in Present(r, t)}]
  /\ left' = [left EXCEPT ![r] = @ \ {t}]
  /\ UNCHANGED <<setup, pos, at, arrived, inbox, source, out, staging, maps, cursors, laid, moved, padded>>

EndReduce(r) ==
  /\ At(r, "reduce") /\ left[r] = {}
  /\ at' = [at EXCEPT ![r] = "ready"] /\ pos' = [pos EXCEPT ![r] = @ + 1]
  /\ UNCHANGED <<setup, arrived, inbox, buffers, maps, cursors, work>>

Next ==
  \E r \in Ranks :
    \/ EnterDispatch(r) \/ EnterCombine(r) \/ LeaveHead(r) \/ LayOut(r) \/ PadFill(r) \/ FinishRun(r) \/ LeaveTail(r)
    \/ \E w \in Work : StartChunk(r, w) \/ BuildChunk(r, w)
    \/ \E h \in Handles : \E x \in map[h][r] : PullRow(r, x) \/ PushRow(r, x)
    \/ \E t \in Tokens : ReduceToken(r, t)
    \/ EndReduce(r)

Spec == Init /\ [][Next]_vars
-----------------------------------------------------------------------------
(* When a rank is through with a dispatch, each slot it has kept for a token    *)
(* has a row of its own at each expert that is not full, holding that token as  *)
(* it is in this dispatch; the rows that are counted are exactly these, and     *)
(* every other row up to the end of the zones is clear.                         *)
RowsRight ==
  \A r \in Ranks : (At(r, "tail") /\ Kind(r) # Combine) =>
    LET rows == map[Handle(r)][r]
        b == layout[r].base
        n == layout[r].active
        used == {<<x, e>> \in rows \X Experts : e \in DOMAIN x.to /\ x.to[e] # None}
    IN /\ \A u \in used : out[r][u[1].to[u[2]]] = <<u[1].src, u[1].tok, pos[r]>>
       /\ Cardinality({u[1].to[u[2]] : u \in used}) = Cardinality(used)
       /\ {x.slot : x \in rows} = 0 .. recvs[Handle(r)][r] - 1
       /\ (setup.expertMajor /\ Kind(r) = Forward) => \A e \in Experts :
            /\ {u[1].to[e] : u \in {v \in used : v[2] = e}} = b[e] .. b[e] + n[e] - 1
            /\ \A i \in DOMAIN out[r] :
                 (b[e] + n[e] <= i /\ i < b[e + 1]) => out[r][i] = <<0, 0, 0>>

(* A combine adds, for each token, one contribution of this combine from each    *)
(* rank that kept the token and nothing else: what a rank dropped counts zero,   *)
(* and no staging row of an earlier combine is read (the head barrier keeps the  *)
(* next pushes away until the rank is through).                                  *)
SumsRight ==
  \A r \in Ranks : At(r, "reduce") => \A t \in Tokens \ left[r] :
    sums[r][t] = {<<d, pos[r]>> : d \in {p \in Ranks :
                    \E x \in map[Handle(r)][p] : x.src = r /\ x.tok = t}}

Pulled == (\A r \in Ranks : pos[r] > Len(setup.program)) \/ \E r \in Ranks : at[r] = "trap"
=============================================================================
