------------------------------- MODULE HtScan -------------------------------
(***************************************************************************)
(* Where received tokens go: the preprocessing of a high-throughput        *)
(* dispatch (src/nccl_ep/device/scan_kernel.cuh and the MAP warps and the  *)
(* permute kernel of src/nccl_ep/device/ht_ep.cuh).                        *)
(*                                                                         *)
(* Every rank of an LSA team computes, from the routing of all tokens, the *)
(* slot of each token at each rank of the team, and the zone of slots of   *)
(* each of its own experts.  No rank tells another what it computed: a     *)
(* sender stores where it thinks a token goes, the receiver reads where it *)
(* thinks it came.  The blocks of a rank share the work and learn what     *)
(* came before their tokens from one another; in count mode every rank has *)
(* its own tokens only, and learns the counts of the others.               *)
(*                                                                         *)
(* A key is what a slot is counted for: <<d, 0>> for rank d of the team,   *)
(* <<d, e>> for its expert e.  A row is <<token, key, slot>>.  Lanes and   *)
(* warps of a block take its tokens in order; they are not modelled.       *)
(***************************************************************************)
EXTENDS Integers, Sequences, FiniteSets

CONSTANT Setups \* [mode, teams, size, epr, tokens, blocks, cap, align, drop]

Flat == "flat"       \* scan_impl_flat; FLAT layout
Permute == "permute" \* scan_impl_flat with em-permute; EXPERT_MAJOR layout
Major == "em"        \* scan_impl_em and build_em_tables; EXPERT_MAJOR layout
Count == "count"     \* count kernel, MAP warps, local_permute_dup; single team

(* tokens lists, in the order of their ranks, the <<team, rank, expert>> each *)
(* token is routed to; all ranks have as many (the last ones may have none).  *)
SetupsAssumption ==
  \A s \in Setups :
    /\ s.mode \in {Flat, Permute, Major, Count} /\ s.mode = Count => s.teams = 1
    /\ {s.teams, s.size, s.epr, s.blocks, s.align} \subseteq Nat \ {0} /\ s.cap \in Nat
    /\ Len(s.tokens) % (s.teams * s.size) = 0
    /\ \A t \in DOMAIN s.tokens :
         s.tokens[t] \subseteq (1 .. s.teams) \X (1 .. s.size) \X (1 .. s.epr)

VARIABLES
  setup,     \* chosen once
  at,        \* at[r][b]: where a block of a rank stands
  published, \* the <<rank, block>> whose sums can be read
  gate,      \* rdma_to_attn_map of a rank: the tokens its rail brings in
  s2d,       \* the rows a rank stores
  recv,      \* the rows of tokens a rank knows it receives (LERM)
  em,        \* the rows of its experts (flat2em, or LERM of expert-major)
  zones,     \* its published [base, actual, total, report]
  cursor,    \* count mode: what the permute kernel has claimed of each zone
  permuted,  \* count mode: the received slots the permute kernel has taken
  dead       \* the ranks whose kernel has trapped

rows == <<s2d, recv, em>>
vars == <<setup, at, published, gate, rows, zones, cursor, permuted, dead>>

Teams == 1 .. setup.teams
Locals == 1 .. setup.size
Ranks == Teams \X Locals
Blocks == 1 .. setup.blocks
Experts == 1 .. setup.epr
Tokens == DOMAIN setup.tokens
Counting == setup.mode = Count
RankMajor == setup.mode # Major
Rank(key) == key[2] = 0

MinOf(a, b) == IF a < b THEN a ELSE b

(* src_lsa_team and src_local_rank of a token in scan order. *)
PerRank == Len(setup.tokens) \div (setup.teams * setup.size)
Source(t) == LET n == (t - 1) \div PerRank IN <<1 + n \div setup.size, 1 + (n % setup.size)>>

(* Tokens whose rows a rank stores: its own and those its rail brings in. *)
Mine(r, t) == IF Counting THEN Source(t) = r ELSE Source(t)[2] = r[2]

(* The keys of a token in the team of a rank. *)
Keys(r, t) ==
  LET experts == {<<x[2], x[3]>> : x \in {y \in setup.tokens[t] : y[1] = r[1]}}
  IN experts \cup {<<k[1], 0>> : k \in experts}

(* The tokens of a block: an equal share, in order, of all of them, or of the *)
(* rank's own.                                                                *)
Share(r, b) ==
  LET all == {t \in Tokens : Counting => Source(t) = r}
      per == (Cardinality(all) + setup.blocks - 1) \div setup.blocks
  IN {t \in all : LET n == Cardinality({u \in all : u < t}) IN n \div per = b - 1}

(* The blocks whose tokens come before those of a block. *)
Predecessors(r, b) ==
  {x \in Ranks \X Blocks : \/ x[1] = r /\ x[2] < b
                           \/ Counting /\ x[1][2] < r[2]}
Everyone(r) == {x \in Ranks \X Blocks : x[1] = r \/ Counting}

(* A sum over the blocks of S, as far as it has been published. *)
SumOf(r, S, key) ==
  Cardinality({t \in UNION {Share(x[1], x[2]) : x \in S \cap published} : key \in Keys(r, t)})
Total(r, key) == SumOf(r, Everyone(r), key)

Padded(c) == IF c = 0 THEN 0 ELSE ((c + setup.align - 1) \div setup.align) * setup.align

ZoneStart(r, d, e) ==
  LET start[k \in 1 .. setup.epr + 1] ==
        IF k = 1 THEN 0 ELSE start[k - 1] + Padded(Total(r, <<d, k - 1>>))
  IN start[e]
ZonesTotal(r, d) == ZoneStart(r, d, setup.epr + 1)

Overflows(slot) == slot >= setup.cap
Clamped(n) == MinOf(n, setup.cap)
RecvTotal(r) == Total(r, <<r[2], 0>>)

(* The slot of a token for a key: what came before its block and, in it, before *)
(* the token; an expert's slots start at its zone.                              *)
Slot(r, b, t, key) ==
  SumOf(r, Predecessors(r, b), key)
  + Cardinality({u \in Share(r, b) : u < t /\ key \in Keys(r, u)})
  + IF Rank(key) THEN 0 ELSE ZoneStart(r, key[1], key[2])

Init ==
  /\ setup \in Setups
  /\ at = [r \in Ranks |-> [b \in Blocks |-> "tally"]]
  /\ published = {} /\ dead = {}
  /\ gate = [r \in Ranks |-> {}]
  /\ s2d = [r \in Ranks |-> {}] /\ recv = s2d /\ em = s2d
  /\ zones = [r \in Ranks |-> [base |-> <<>>, actual |-> [e \in Experts |-> 0],
                               total |-> 0, report |-> 0]]
  /\ cursor = [r \in Ranks |-> [e \in Experts |-> 0]]
  /\ permuted = [r \in Ranks |-> {}]

Move(r, b, from, to) ==
  /\ r \notin dead /\ at[r][b] = from
  /\ at' = [at EXCEPT ![r][b] = to]
-----------------------------------------------------------------------------
(* Phase 1: the block adds up its tokens, marks those that come in over its *)
(* rail for a rank of the team, and publishes its sums (PRIV_SUM).          *)
Tally(r, b) ==
  /\ Move(r, b, "tally", "wait")
  /\ published' = published \cup {<<r, b>>}
  /\ gate' = [gate EXCEPT ![r] = @ \cup {t \in Share(r, b) : Mine(r, t) /\ Keys(r, t) # {}}]
  /\ UNCHANGED <<setup, rows, zones, cursor, permuted, dead>>

(* Faulty variant: a block goes on with what has been published so far. *)
HeardSome(r, b) == TRUE

(* cross_block_prefix_scan: ranks need the sums of the blocks before, experts *)
(* all of them (zones start after whole experts); count rows come with a      *)
(* barrier of the team.                                                       *)
Heard(r, b) ==
  (IF setup.mode = Flat THEN Predecessors(r, b) ELSE Everyone(r)) \subseteq published

(* A zone that does not fit is fatal to the rank that sees it; in expert-major *)
(* mode all ranks of the team see it.                                          *)
ZonesTrap(r) ==
  /\ ~setup.drop /\ setup.mode # Flat
  /\ \E d \in Locals : (setup.mode = Major \/ d = r[2]) /\ ZonesTotal(r, d) > setup.cap

(* em_populate_cnt_tensors: bases and counts within the capacity; the report to *)
(* the user is the true total.                                                  *)
ZonesOf(r) ==
  LET start(e) == ZoneStart(r, r[2], e)
      room(e) == setup.cap - Clamped(start(e))
  IN [base |-> [e \in 1 .. setup.epr + 1 |-> Clamped(start(e))],
      actual |-> [e \in Experts |-> MinOf(Total(r, <<r[2], e>>), room(e))],
      total |-> Clamped(ZonesTotal(r, r[2])), report |-> ZonesTotal(r, r[2])]

(* The em-permute scan leaves the counts of a call that overflows to the blocks *)
(* (see Report): a token of an expert may have no received slot to come from.   *)
Publish(r) ==
  LET z == ZonesOf(r)
      recount == setup.mode = Permute /\ z.report > setup.cap
  IN zones' = [zones EXCEPT ![r] = IF recount THEN [z EXCEPT !.actual = zones[r].actual] ELSE z]

Prefix(r, b) ==
  /\ Move(r, b, "wait", "assign") /\ Heard(r, b)
  /\ IF setup.mode \in {Permute, Major} /\ b = 1 THEN Publish(r) ELSE UNCHANGED zones
  /\ dead' = dead \cup IF ~Counting /\ ZonesTrap(r) THEN {r} ELSE {}
  /\ UNCHANGED <<setup, published, gate, rows, cursor, permuted>>
-----------------------------------------------------------------------------
(* Phase 2.  The rows of a block for the keys that K selects, those that fit. *)
RowsFor(r, b, K(_)) ==
  {x \in UNION {{<<t, k, Slot(r, b, t, k)>> : k \in {j \in Keys(r, t) : K(j)}} : t \in Share(r, b)} :
     ~Overflows(x[3])}

(* What a block's tokens that have a slot here put into the zones. *)
ExpertRows(r, b) ==
  LET mine == {x[1] : x \in RowsFor(r, b, LAMBDA k : k = <<r[2], 0>>)}
  IN {x \in RowsFor(r, b, LAMBDA k : k[1] = r[2] /\ ~Rank(k)) :
        setup.mode = Permute => x[1] \in mine}

(* Tokens none of whose slots were kept: combine would wait for them. *)
Dropped(r, b, stored) ==
  IF setup.drop
  THEN {t \in Share(r, b) : Mine(r, t) /\ Keys(r, t) # {} /\ ~\E x \in stored : x[1] = t}
  ELSE {}

(* assign_recv_slots, build_em_tables (emit), the MAP warps.  A sender keeps  *)
(* rows within the capacity; without the drop policy it is the rank that runs *)
(* over that traps, in count mode the sender, too.                            *)
Assign(r, b) ==
  /\ Move(r, b, "assign", "report")
  /\ LET stored == {x \in RowsFor(r, b, LAMBDA k : Rank(k) = RankMajor) : Mine(r, x[1])}
         over == \E t \in Share(r, b) : \E k \in Keys(r, t) : Rank(k) /\ Overflows(Slot(r, b, t, k))
         last == Len(setup.tokens) \in Share(r, b)
     IN /\ s2d' = [s2d EXCEPT ![r] = @ \cup stored]
        /\ gate' = [gate EXCEPT ![r] = @ \ IF Counting THEN {} ELSE Dropped(r, b, stored)]
        /\ recv' = IF Counting
                   THEN [p \in Ranks |-> recv[p] \cup {x \in stored : x[2][1] = p[2]}]
                   ELSE [recv EXCEPT ![r] = @ \cup RowsFor(r, b, LAMBDA k : RankMajor /\ k = <<r[2], 0>>)]
        /\ em' = [em EXCEPT ![r] = @ \cup IF setup.mode \in {Permute, Major} THEN ExpertRows(r, b) ELSE {}]
        /\ dead' = dead \cup
             IF ~setup.drop /\ (IF Counting THEN over
                                ELSE RankMajor /\ last /\ RecvTotal(r) > setup.cap)
             THEN {r} ELSE {}
  /\ UNCHANGED <<setup, published, zones, cursor, permuted>>

(* Faulty variant: the counts are of what was assigned. *)
AddedHits(r, b, e) == Cardinality({t \in Share(r, b) : <<r[2], e>> \in Keys(r, t)})

(* What a block adds to the count of an expert: in FLAT layout all hits, in an *)
(* overflowing em-permute call those that have a row.                          *)
Added(r, b, e) ==
  IF setup.mode = Flat THEN Cardinality({t \in Share(r, b) : <<r[2], e>> \in Keys(r, t)})
  ELSE IF setup.mode = Permute /\ ZonesTotal(r, r[2]) > setup.cap
  THEN Cardinality({x \in ExpertRows(r, b) : x[2][2] = e})
  ELSE 0

(* The block adds its counts; in count mode the first one publishes the zones, *)
(* and the gates of dropped tokens are cleared when the pipelines are through. *)
Report(r, b) ==
  /\ Move(r, b, "report", "done")
  /\ IF Counting /\ b = 1 THEN Publish(r)
     ELSE zones' = [zones EXCEPT ![r].actual = [e \in Experts |-> @[e] + Added(r, b, e)]]
  /\ dead' = dead \cup IF Counting /\ b = 1 /\ ZonesTrap(r) THEN {r} ELSE {}
  /\ gate' = [gate EXCEPT ![r] = @ \ IF Counting THEN Dropped(r, b, s2d[r]) ELSE {}]
  /\ UNCHANGED <<setup, published, rows, cursor, permuted>>
-----------------------------------------------------------------------------
Done(r) == r \notin dead /\ \A b \in Blocks : at[r][b] \in {"done", "permuted"}

(* Count mode: after the tail barrier of dispatch, a warp of the permute kernel *)
(* takes a received slot and claims a place in the zone of each of its experts. *)
PermuteToken(r, row) ==
  LET t == row[1]
      hits == {e \in Experts : <<r[2], e>> \in Keys(r, t)}
      fits == {e \in hits : cursor[r][e] < zones[r].actual[e]}
  IN /\ Counting /\ \A p \in Ranks : Done(p)
     /\ row \in recv[r] /\ row[3] \notin permuted[r]
     /\ em' = [em EXCEPT ![r] = @ \cup
          {<<t, <<r[2], e>>, zones[r].base[e] + cursor[r][e]>> : e \in fits}]
     /\ cursor' = [cursor EXCEPT ![r] = [e \in Experts |-> @[e] + IF e \in hits THEN 1 ELSE 0]]
     /\ permuted' = [permuted EXCEPT ![r] = @ \cup {row[3]}]
     /\ UNCHANGED <<setup, at, published, gate, s2d, recv, zones, dead>>

(* Faulty variant: the rows no token came for are not taken off the counts. *)
KeepCounts(r) == zones[r].actual

(* The last block finds the rows that a count promised and no token took. *)
Corrected(r) ==
  IF setup.drop THEN [e \in Experts |-> MinOf(cursor[r][e], zones[r].actual[e])]
                ELSE zones[r].actual

PermuteEnds(r) ==
  /\ Counting /\ \A p \in Ranks : Done(p)
  /\ permuted[r] = {row[3] : row \in recv[r]} /\ at[r][1] = "done"
  /\ zones' = [zones EXCEPT ![r].actual = Corrected(r)]
  /\ at' = [at EXCEPT ![r] = [b \in Blocks |-> "permuted"]]
  /\ UNCHANGED <<setup, published, gate, rows, cursor, permuted, dead>>

Permuting(r) == (\E row \in recv[r] : PermuteToken(r, row)) \/ PermuteEnds(r)

Next ==
  \E r \in Ranks :
    \/ \E b \in Blocks : Tally(r, b) \/ Prefix(r, b) \/ Assign(r, b) \/ Report(r, b)
    \/ Permuting(r)

Spec == Init /\ [][Next]_vars
-----------------------------------------------------------------------------
(* Faulty variant: the sender packs all its tokens. *)
PackedAll(r, p) == {t \in Tokens : Source(t) = p}

(* A remote sender packs the tokens it has for the team (attn_to_rdma_map);   *)
(* its rail peer takes, for the n-th token it has a gate for, the n-th packed. *)
Packed(r, p) == {t \in Tokens : Source(t) = p /\ Keys(r, t) # {}}
Ahead(S, t) == Cardinality({u \in S : u < t})
Payload(r, t) ==
  LET p == Source(t)
  IN IF p[1] = r[1] THEN {t}
     ELSE {u \in Packed(r, p) : Ahead(Packed(r, p), u) = Ahead({v \in gate[r] : Source(v) = p}, t)}

(* Sender and receiver agree, though neither told the other: what a rank stores *)
(* at a slot of a team member is what that member has in its own map for the    *)
(* slot, and every slot that a member expects to be filled is stored to by the  *)
(* rank that has the token.                                                     *)
SendersAgree ==
  \A r, d \in Ranks : (r[1] = d[1] /\ Done(r) /\ Done(d)) =>
    {x \in s2d[r] : x[2][1] = d[2]} = {x \in (IF RankMajor THEN recv ELSE em)[d] : Mine(r, x[1])}

(* The received slots are taken from the first on, each by one token, up to the *)
(* count that the kernels behind go through.                                    *)
SlotsFilled ==
  \A r \in Ranks : ((\A p \in Ranks : Done(p)) /\ RankMajor) =>
    /\ {x[3] : x \in recv[r]} = 0 .. Clamped(RecvTotal(r)) - 1
    /\ Cardinality(recv[r]) = Clamped(RecvTotal(r))

(* The rows that the pad warps zero, in expert-major mode up to the alignment. *)
Pads(r, e) ==
  LET z == zones[r]
      left == setup.align - (z.actual[e] % setup.align)
      room == z.base[e + 1] - z.base[e] - z.actual[e]
      n == IF setup.mode # Major THEN room
           ELSE IF z.actual[e] % setup.align = 0 THEN 0 ELSE MinOf(left, room)
  IN {z.base[e] + z.actual[e] + i : i \in 0 .. n - 1}

(* A grouped GEMM reads whole zones: when the preprocessing is over, the rows of *)
(* an expert are the first ones of its zone, exactly as many as are counted, the *)
(* pad warps clear the others, and the zones lie side by side within the buffer. *)
ZonesWhole ==
  \A r \in Ranks : LET z == zones[r] IN
    (setup.mode # Flat /\ r \notin dead
       /\ at[r] = [b \in Blocks |-> IF Counting THEN "permuted" ELSE "done"]) =>
      \A e \in Experts :
        LET mine == {x \in em[r] : x[2] = <<r[2], e>>}
            slots == {x[3] : x \in mine}
        IN /\ slots = z.base[e] .. z.base[e] + z.actual[e] - 1
           /\ Cardinality(mine) = z.actual[e]
           /\ slots \cup Pads(r, e) = z.base[e] .. z.base[e + 1] - 1
           /\ z.base[1] = 0 /\ z.base[setup.epr + 1] = z.total /\ z.total <= setup.cap

(* Combine waits for a contribution to every gated token and for none to the *)
(* others: a token has a gate when it has kept a row, and only then.         *)
GateIffKept ==
  \A r \in Ranks : Done(r) =>
    gate[r] = {t \in Tokens : Mine(r, t) /\ \E x \in s2d[r] : x[1] = t}

(* A retained slot holds its own token, also one that came over the network. *)
PayloadRight ==
  \A r \in Ranks : Done(r) => \A x \in s2d[r] : Payload(r, x[1]) = {x[1]}

Scanned == \A r \in Ranks : r \in dead \/ Done(r) \/ at[r] = [b \in Blocks |-> "permuted"]
=============================================================================
