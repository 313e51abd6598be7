------------------------------ MODULE PackGroup ------------------------------
(***************************************************************************)
(* PACK over device-initiated puts: one call, or one bucket of a group     *)
(* whose entries are fused, from the host's plan to the last unpack, as    *)
(*   reshard_user_window.cu        reshardTryExecuteStagingGroup (checks   *)
(*                                 and bins), reshardCopyPackGroup-        *)
(*                                 Normalized and reshardCopyPack-         *)
(*                                 Normalized, reshardKernelUserWindow;    *)
(*   reshard_prepare.cc            prepareReshardParams and the cross-rail *)
(*                                 detector;                               *)
(*   reshard_split_prepare.cc,     the same plan over the two split        *)
(*   reshard_split_user_window.cu  communicators                           *)
(* do it.  Every rank plans alone.  A source packs its targets' payloads   *)
(* into its staging buffer and puts each with a signal to the leader of    *)
(* the destination shard's replicas on the head domain; a leader forwards  *)
(* it to the next domain's leader (the ring) and stores it into its        *)
(* domain's other replicas (the followers), at the offset at which it      *)
(* received it; every destination unpacks from its own staging buffer.     *)
(* All bins of a bucket use one staging buffer per rank, one after the     *)
(* other.  Each block of a kernel moves its own share in the same way: one *)
(* block is modelled, and an element of a tensor stands for a byte.        *)
(***************************************************************************)
EXTENDS Integers, Sequences, FiniteSets, ReshardGeometry
LOCAL INSTANCE FiniteSetsExt
LOCAL INSTANCE SequencesExt

CONSTANTS
  Submissions    \* records [entries, gpd, aware, auto, split, single, rmem,
                 \* buckets]: the entries of a bucket (one for a plain call),
                 \* the ranks of a domain, the settings of load balance and
                 \* split, whether a rank outside a role passes that role's
                 \* buffer, the capacities of the staging buckets; an entry is
                 \* [src, dst, extent, srcAt, dstAt]: two tensors, their global
                 \* extent and where the user's buffers start

VARIABLES
  sub,           \* the submission
  bins,          \* its bins, each the sequence of its entries' numbers
  plan,          \* plan[b][r]: rank r's part of bin b
  epochs,        \* what the devices execute: [bin, comm], a communicator's
                 \* barrier-to-barrier phase of a bin's kernel
  refused,       \* the ranks whose host refuses the submission
  at,            \* at[r]: the epoch rank r's stream has reached
  pc,            \* pc[r]: "idle", "entered" or "left" in it
  todo,          \* todo[r]: the puts and the sources left to it there
  seen,          \* seen[r]: its signals when it entered
  signal,        \* signal[r]: [communicator, index -> signals received]
  staging,       \* staging[r]: the pieces in its staging buffer
  output         \* output[r]: what it unpacked, [entry, ss, pieces]

packVars == <<sub, bins, plan, epochs, refused, at, pc, todo, seen, signal, staging, output>>

None == -1
Position(S, x) == Cardinality({y \in S : y < x})
Nth(S, i) == CHOOSE x \in S : Position(S, x) = i

Entries == DOMAIN sub.entries
Entry(e) == sub.entries[e]
Ranks == UNION {MeshRanks(Entry(e).src) \cup MeshRanks(Entry(e).dst) : e \in Entries}

(***************************************************************************)
(* Sizes.                                                                  *)
(***************************************************************************)
Bytes(e, ss, ds) == EdgeSize(Entry(e).src, Entry(e).dst, Entry(e).extent, ss, ds)
LocalBytes(e, t) == (Entry(e).extent[1] * Entry(e).extent[2]) \div ShardCount(t)
SrcBytes(e) == LocalBytes(e, Entry(e).src)
DstBytes(e) == LocalBytes(e, Entry(e).dst)
SumOver(f(_), S) == MapThenSumSet(f, S)
Area(bin) == Greatest({SumOver(LAMBDA i : SrcBytes(bin[i]), DOMAIN bin), SumOver(LAMBDA i : DstBytes(bin[i]), DOMAIN bin)})

(***************************************************************************)
(* The group: who fuses, which bins.                                       *)
(***************************************************************************)
Fuses == Len(sub.entries) >= 2 /\ ~sub.split

\* Every range a rank passes is checked against those of other entries.
Ranges(r) ==
  {[start |-> Entry(e).srcAt, end |-> Entry(e).srcAt + SrcBytes(e), entry |-> e] :
      e \in {x \in Entries : sub.rmem \/ r \in MeshRanks(Entry(x).src)}}
  \cup
  {[start |-> Entry(e).dstAt, end |-> Entry(e).dstAt + DstBytes(e), entry |-> e] :
      e \in {x \in Entries : sub.rmem \/ r \in MeshRanks(Entry(x).dst)}}
Clash(a, b) == a.entry # b.entry /\ a.start < b.end /\ b.start < a.end
Refuses(r) == Fuses /\ \E a, b \in Ranges(r) : Clash(a, b)

Budget ==
  LET largest == Greatest({Area(<<e>>) : e \in Entries})
      fit == {x \in sub.buckets : x >= largest}
  IN  IF fit = {} THEN Greatest(sub.buckets) ELSE Least(fit)
SameTopology(e, f) == Entry(e).src = Entry(f).src /\ Entry(e).dst = Entry(f).dst
Takes(bin, e) == SameTopology(bin[1], e) /\ Area(Append(bin, e)) <= Budget
\* First fit: an entry joins the first bin that can take it.
AddEntry(bs, e) ==
  LET able == {b \in DOMAIN bs : Takes(bs[b], e)}
  IN  IF able = {} THEN Append(bs, <<e>>) ELSE [bs EXCEPT ![Least(able)] = Append(@, e)]
\* The bins with the largest area first, in order of creation otherwise.
BySize(bs) ==
  LET before(i) == {j \in DOMAIN bs : Area(bs[j]) > Area(bs[i]) \/ (Area(bs[j]) = Area(bs[i]) /\ j < i)}
  IN  [k \in DOMAIN bs |-> bs[CHOOSE i \in DOMAIN bs : Cardinality(before(i)) = k - 1]]
Bins ==
  LET order == [e \in Entries |-> e]
  IN  IF Fuses THEN BySize(FoldLeft(AddEntry, <<>>, order)) ELSE [e \in Entries |-> <<e>>]

(***************************************************************************)
(* The plan of a bin.  Its entries have one topology t = [src, dst, lb,    *)
(* anchor, step, split, inject]: step is the distance of two domains of a  *)
(* ring, and with split communicators the sources reach the first inject   *)
(* domains of the destination only.                                        *)
(***************************************************************************)
Aware(x) == EffectiveAware(x.src, x.dst, sub.aware, sub.auto)
\* Replication as this path counts it for the split: the last axis that replicates.
LastRep(t) == IF ~Sharded(t, 2) THEN t.dims[2] ELSE IF ~Sharded(t, 1) THEN t.dims[1] ELSE 1

Balance(x, geometry, active) ==
  Balancer(x.src, x.dst, sub.gpd, Aware(x), active, active /\ geometry.strided, geometry.inject, geometry.perRep)

Domain(t, r) == (r - t.anchor) \div sub.gpd
Rail(t, r) == (r - t.anchor) % sub.gpd
RankOf(t, ds, rep) == MeshRank(t.dst, ds, rep)
RepsAt(t, from, ds, n) == {rep \in from : Domain(t, RankOf(t, ds, rep)) = n}
DomainsOf(t, from, ds) == {Domain(t, RankOf(t, ds, rep)) : rep \in from}
HeadDomain(t, from, ds) == Domain(t, RankOf(t, ds, Least(from)))
SrcOf(t, ds) == {ss \in Span(0, ShardCount(t.src)) : Overlap(t.src, t.dst, t.extent, ss, ds)}
DstOf(t, ss) == {ds \in Span(0, ShardCount(t.dst)) : Overlap(t.src, t.dst, t.extent, ss, ds)}

(* Faulty variant: only the shorter of the two domains is compared. *)
SuccessorsShort(a, b) == {<<i, i>> : i \in Span(0, Least({Cardinality(a), Cardinality(b)}))}
\* The replicas of two adjacent domains that the detector compares.
Successors(a, b) ==
  {<<i, IF i < Cardinality(b) THEN i ELSE Cardinality(b) - 1>> : i \in Span(0, Cardinality(a))}
\* Some hop of some ring leaves its rail (reshardPlanHasCrossRailRingHop).
NextOnRing(t, from, ds, n) ==
  LET all == DomainsOf(t, from, ds)
      later == IF t.lb.strided THEN {m \in all : m = n + t.step} ELSE {m \in all : m > n}
  IN  IF later = {} THEN None ELSE Least(later)
CrossRail(t) ==
  \E ds \in Span(0, ShardCount(t.dst)), sr \in Span(0, t.lb.srcReps) :
    LET from == TargetReps(t.lb, sr)
    IN  \E n \in DomainsOf(t, from, ds) :
          LET m == NextOnRing(t, from, ds, n)
              a == RepsAt(t, from, ds, n)   b == RepsAt(t, from, ds, m)
          IN  /\ m # None
              /\ \E p \in Successors(a, b) :
                   Rail(t, RankOf(t, ds, Nth(a, p[1]))) # Rail(t, RankOf(t, ds, Nth(b, p[2])))

Topology(e) ==
  LET x == Entry(e)
      geometry == SplitGeometry(x.dst, LastRep(x.src), LastRep(x.dst), sub.gpd, sub.single)
      topo(active) ==
        [src |-> x.src, dst |-> x.dst, extent |-> x.extent, lb |-> Balance(x, geometry, active),
         anchor |-> IF active THEN x.dst.start ELSE 0, split |-> active,
         inject |-> geometry.inject,
         step |-> IF active /\ geometry.strided /\ Aware(x) THEN geometry.inject ELSE 1]
      able == sub.split /\ Cardinality(sub.buckets) = 1 /\ Aware(x) /\ geometry.divides
  IN  topo(able /\ ~CrossRail(topo(TRUE)))

\* A source's leader for a destination shard, on the head domain of its replicas.
Leader(t, ss, sr, ds) ==
  LET from == TargetReps(t.lb, sr)
      local == RepsAt(t, from, ds, HeadDomain(t, from, ds))
  IN  RankOf(t, ds, Nth(local, HolderOf(Cardinality(SrcOf(t, ds)), Cardinality(local), Position(SrcOf(t, ds), ss))))

MyShard(t, r) == ShardOf(t.dst, r)
MyReps(t, r) == TargetReps(t.lb, SourceRep(t.lb, RepOf(t.dst, r)))
Locals(t, r) == RepsAt(t, MyReps(t, r), MyShard(t, r), Domain(t, r))
LocalIndex(t, r) == Position(Locals(t, r), RepOf(t.dst, r))
HeadOf(t, r) == HeadDomain(t, MyReps(t, r), MyShard(t, r))
Slots(t, r) == Cardinality(RepsAt(t, MyReps(t, r), MyShard(t, r), HeadOf(t, r)))
\* A ring never widens: as many leaders as on the smallest domain passed.
ActiveSlots(t, r) ==
  LET passed == {n \in HeadOf(t, r) .. Domain(t, r) : (n - HeadOf(t, r)) % t.step = 0}
      counts == {Cardinality(RepsAt(t, MyReps(t, r), MyShard(t, r), n)) : n \in passed} \ {0}
  IN  Least({Slots(t, r)} \cup counts)
\* The last active leader takes the sources of the slots after it as well.
MySlots(t, r) ==
  IF LocalIndex(t, r) >= ActiveSlots(t, r) THEN {}
  ELSE IF LocalIndex(t, r) = ActiveSlots(t, r) - 1 THEN LocalIndex(t, r) .. (Slots(t, r) - 1)
  ELSE {LocalIndex(t, r)}
MySources(t, r) ==
  LET all == SrcOf(t, MyShard(t, r))
  IN  {Nth(all, i) : i \in UNION {DealtTo(Cardinality(all), Slots(t, r), s) : s \in MySlots(t, r)}}
InjectedDirectly(t, r) == MySources(t, r) # {} /\ Domain(t, r) = HeadOf(t, r)
Followers(t, r) == {RankOf(t, MyShard(t, r), rep) : rep \in Locals(t, r)} \ {r}
RingNext(t, r) ==
  LET later == {n \in DomainsOf(t, MyReps(t, r), MyShard(t, r)) :
                  n > Domain(t, r) /\ (n - Domain(t, r)) % t.step = 0}
      next == RepsAt(t, MyReps(t, r), MyShard(t, r), Least(later))
      active == Least({ActiveSlots(t, r), Cardinality(next)})
  IN  IF later = {} THEN None
      ELSE RankOf(t, MyShard(t, r), Nth(next, Least({LocalIndex(t, r), active - 1})))

(***************************************************************************)
(* Offsets: a source's targets one after the other where it packs; source  *)
(* shard by source shard, entry by entry, where a destination receives.    *)
(***************************************************************************)
PairBytes(bin, ss, ds) == SumOver(LAMBDA i : Bytes(bin[i], ss, ds), DOMAIN bin)
(* Faulty variant: entry by entry, source shard by source shard. *)
PairOffsetByEntry(bin, ss, ds, i) ==
  SumOver(LAMBDA j : SumOver(LAMBDA s : Bytes(bin[j], s, ds), Span(0, ShardCount(Entry(bin[1]).src))), 1 .. (i - 1))
    + SumOver(LAMBDA s : Bytes(bin[i], s, ds), Span(0, ss))
PairOffset(bin, ss, ds, i) ==
  SumOver(LAMBDA s : PairBytes(bin, s, ds), Span(0, ss)) + SumOver(LAMBDA j : Bytes(bin[j], ss, ds), 1 .. (i - 1))
PackOffset(t, bin, ss, ds) ==
  SumOver(LAMBDA d : PairBytes(bin, ss, d), {d \in DstOf(t, ss) : d < ds})

\* Pieces of a staging buffer: a part of an entry for a pair of shards, whole.
Piece(off, len, e, ss, ds) == [at |-> off, len |-> len, part |-> <<e, ss, ds>>]
Moved(pieces, by) == {[p EXCEPT !.at = @ + by] : p \in pieces}
Within(pieces, off, len) == {p \in pieces : p.at >= off /\ p.at + p.len <= off + len}
\* What is written over is gone, the rest of a piece with it.
Write(pieces, off, len, new) ==
  {p \in pieces : p.at + p.len <= off \/ p.at >= off + len} \cup new

\* A payload: the parts of all entries for one pair of shards.
Payload(bin, ss, ds, off) ==
  {Piece(off + SumOver(LAMBDA j : Bytes(bin[j], ss, ds), 1 .. (i - 1)), Bytes(bin[i], ss, ds), bin[i], ss, ds) : i \in DOMAIN bin}

Puts(t, bin, r) ==
  IF r \notin MeshRanks(t.src) \/ TargetReps(t.lb, RepOf(t.src, r)) = {} THEN {}
  ELSE {[to |-> Leader(t, ShardOf(t.src, r), RepOf(t.src, r), ds), index |-> r - t.src.start,
         from |-> PackOffset(t, bin, ShardOf(t.src, r), ds), into |-> PairOffset(bin, ShardOf(t.src, r), ds, 1),
         len |-> PairBytes(bin, ShardOf(t.src, r), ds), ds |-> ds] : ds \in DstOf(t, ShardOf(t.src, r))}

(* Faulty variant: every leader on an injection domain is taken for a head. *)
ViaAEverywhere(t, r) == r < t.dst.start + (t.inject * sub.gpd) /\ MySources(t, r) # {}
ViaA(t, r) == r < t.dst.start + (t.inject * sub.gpd) /\ InjectedDirectly(t, r)

\* The signal a source's payload comes with: the source's own at a leader that
\* it reaches itself, the source shard's on the ring of a split call.
Arrival(t, r, ss) ==
  IF t.split /\ ~ViaA(t, r) THEN <<"B", ss>>
  ELSE <<IF t.split THEN "A" ELSE "W", MeshRank(t.src, ss, SourceRep(t.lb, RepOf(t.dst, r))) - t.src.start>>
Forwarding(t, r, ss) == IF t.split THEN <<"B", ss>> ELSE Arrival(t, r, ss)
Receives(t, bin, r) ==
  IF r \notin MeshRanks(t.dst) THEN {}
  ELSE {[ss |-> ss, wait |-> Arrival(t, r, ss), forward |-> Forwarding(t, r, ss),
         off |-> PairOffset(bin, ss, MyShard(t, r), 1), len |-> PairBytes(bin, ss, MyShard(t, r)),
         next |-> RingNext(t, r), followers |-> Followers(t, r)] : ss \in MySources(t, r)}

PlanFor(bin, r, t) ==
  [topo |-> t, puts |-> Puts(t, bin, r), sources |-> Receives(t, bin, r)]

Comms(t) == IF t.split THEN <<"A", "B">> ELSE <<"W">>
\* The members of a communicator: commA, the sources and the first domains of
\* the destination; commB, the destination; otherwise every rank.
Members(k) ==
  LET t == plan[epochs[k].bin][Least(Ranks)].topo
  IN  CASE epochs[k].comm = "A" -> MeshRanks(t.src) \cup (MeshRanks(t.dst) \cap Span(t.dst.start, t.dst.start + (t.inject * sub.gpd)))
        [] epochs[k].comm = "B" -> MeshRanks(t.dst)
        [] OTHER -> Ranks

(***************************************************************************)
(* The host's part: checks, bins, plans.                                   *)
(***************************************************************************)
EpochsOf(bs, topo) ==
  FoldLeft(LAMBDA seq, b : seq \o [i \in DOMAIN Comms(topo[b]) |-> [bin |-> b, comm |-> Comms(topo[b])[i]]],
           <<>>, [b \in DOMAIN bs |-> b])

\* What a rank sends and receives lies within the staging area.
InBounds(area, part) ==
  /\ \A p \in part.puts : p.from + p.len <= area /\ p.into + p.len <= area
  /\ \A s \in part.sources : s.off + s.len <= area

PackInit ==
  /\ sub \in Submissions
  /\ bins = <<>> /\ plan = <<>> /\ epochs = <<>> /\ refused = {}
  /\ at = [r \in Ranks |-> 0] /\ pc = [r \in Ranks |-> "idle"]
  /\ todo = [r \in Ranks |-> [puts |-> {}, sources |-> {}]]
  /\ seen = [r \in Ranks |-> <<>>] /\ signal = [r \in Ranks |-> <<>>]
  /\ staging = [r \in Ranks |-> {}] /\ output = [r \in Ranks |-> {}]

Counters(t) == {"W", "A", "B"} \X Span(0, MeshSize(t))
Issue ==
  /\ epochs = <<>>
  /\ bins' = Bins
  /\ \E topo \in {[b \in DOMAIN bins' |-> Topology(bins'[b][1])]} :
       /\ plan' = [b \in DOMAIN bins' |-> [r \in Ranks |-> PlanFor(bins'[b], r, topo[b])]]
       /\ epochs' = EpochsOf(bins', topo)
       /\ LET counters == UNION {Counters(topo[b].src) : b \in DOMAIN topo}
          IN  signal' = [r \in Ranks |-> [c \in counters |-> 0]]
  /\ refused' = {r \in Ranks : Refuses(r) \/ \E b \in DOMAIN bins' : ~InBounds(Area(bins'[b]), plan'[b][r])}
  /\ UNCHANGED <<sub, at, pc, todo, seen, staging, output>>

(***************************************************************************)
(* The device's part.  An epoch is one communicator's phase of a kernel:   *)
(* snapshot of the signals, barrier, work, barrier.                        *)
(***************************************************************************)
NextEpoch(r) ==
  LET mine == {k \in DOMAIN epochs : k > at[r] /\ r \in Members(k)}
  IN  IF mine = {} THEN 0 ELSE Least(mine)
Bin(k) == epochs[k].bin
Comm(k) == epochs[k].comm

\* The copies of a source into its staging buffer precede its kernel.
Packed(r, b) ==
  LET ss == ShardOf(plan[b][r].topo.src, r)
  IN  FoldSet(LAMBDA p, mem : Write(mem, p.from, p.len, Payload(bins[b], ss, p.ds, p.from)),
              staging[r], plan[b][r].puts)

Work(k, r) ==
  LET p == plan[Bin(k)][r]
  IN  [puts |-> IF Comm(k) = "B" THEN {} ELSE p.puts,
       sources |-> IF Comm(k) = "A" THEN {s \in p.sources : ViaA(p.topo, r)} ELSE p.sources]

Snapshot(r) == signal[r]

MayEnter(r) == r \notin refused /\ epochs # <<>> /\ pc[r] = "idle" /\ NextEpoch(r) # 0
Enter(r) ==
  /\ MayEnter(r)
  /\ LET k == NextEpoch(r)
     IN  /\ at' = [at EXCEPT ![r] = k]
         /\ todo' = [todo EXCEPT ![r] = Work(k, r)]
         /\ staging' = IF Comm(k) = "B" THEN staging ELSE [staging EXCEPT ![r] = Packed(r, Bin(k))]
  /\ seen' = [seen EXCEPT ![r] = Snapshot(r)]
  /\ pc' = [pc EXCEPT ![r] = "entered"]
  /\ UNCHANGED <<sub, bins, plan, epochs, refused, signal, output>>

\* A barrier: every member has entered the epoch, or has left it.
AllEntered(k) == \A q \in Members(k) : at[q] >= k
AllLeft(k) == \A q \in Members(k) : at[q] > k \/ (at[q] = k /\ pc[q] \in {"left", "idle"})
Works(r) == pc[r] = "entered" /\ AllEntered(at[r])
Signalled(to, c) == [signal EXCEPT ![to][c] = @ + 1]

\* A put is visible before its signal, which arrives at any time.
Put(r) ==
  /\ Works(r)
  /\ \E p \in todo[r].puts :
       /\ staging' = [staging EXCEPT ![p.to] =
            Write(@, p.into, p.len, Moved(Within(staging[r], p.from, p.len), p.into - p.from))]
       /\ signal' = Signalled(p.to, <<Comm(at[r]), p.index>>)
       /\ todo' = [todo EXCEPT ![r].puts = @ \ {p}]
  /\ UNCHANGED <<sub, bins, plan, epochs, refused, at, pc, seen, output>>

Arrived(r, s) == s.wait[1] # Comm(at[r]) \/ signal[r][s.wait] >= seen[r][s.wait] + 1
Copies(k, s) == IF Comm(k) = "A" THEN {} ELSE s.followers \cup (IF s.next = None THEN {} ELSE {s.next})
\* A leader waits for a source, then forwards and replicates what it got.
Receive(r) ==
  /\ Works(r)
  /\ \E s \in todo[r].sources :
       /\ Arrived(r, s)
       /\ staging' = [q \in Ranks |->
            IF q \in Copies(at[r], s)
            THEN Write(staging[q], s.off, s.len, Within(staging[r], s.off, s.len))
            ELSE staging[q]]
       /\ signal' = IF s.next # None /\ Comm(at[r]) # "A" THEN Signalled(s.next, s.forward) ELSE signal
       /\ todo' = [todo EXCEPT ![r].sources = @ \ {s}]
  /\ UNCHANGED <<sub, bins, plan, epochs, refused, at, pc, seen, output>>

MayLeave(r) == Works(r) /\ todo[r].puts = {} /\ todo[r].sources = {}
Leave(r) ==
  /\ MayLeave(r)
  /\ pc' = [pc EXCEPT ![r] = "left"]
  /\ UNCHANGED <<sub, bins, plan, epochs, refused, at, todo, seen, signal, staging, output>>

Unpacked(r, b) ==
  LET t == plan[b][r].topo   bin == bins[b]
      read(ss, i) ==
        LET off == PairOffset(bin, ss, MyShard(t, r), i)
        IN  Moved(Within(staging[r], off, Bytes(bin[i], ss, MyShard(t, r))), -off)
  IN  IF r \notin MeshRanks(t.dst) THEN {}
      ELSE {[entry |-> bin[i], ss |-> ss, pieces |-> read(ss, i)] :
               i \in DOMAIN bin, ss \in SrcOf(t, MyShard(t, r))}
\* The copies out of the staging buffer follow the bin's last phase.
MayExit(r) == pc[r] = "left" /\ AllLeft(at[r])
Exit(r) ==
  /\ MayExit(r)
  /\ output' = [output EXCEPT ![r] =
       IF NextEpoch(r) # 0 /\ Bin(NextEpoch(r)) = Bin(at[r]) THEN @ ELSE @ \cup Unpacked(r, Bin(at[r]))]
  /\ pc' = [pc EXCEPT ![r] = "idle"]
  /\ UNCHANGED <<sub, bins, plan, epochs, refused, at, todo, seen, signal, staging>>

RankStep(r) == Enter(r) \/ Put(r) \/ Receive(r) \/ Leave(r) \/ Exit(r)
PackNext == Issue \/ \E r \in Ranks : RankStep(r)
PackSpec == PackInit /\ [][PackNext]_packVars

(***************************************************************************)
(* Properties.                                                             *)
(***************************************************************************)
\* What a destination unpacks for an entry and a source shard is the part that
\* they share, whatever the bin, the ring and the domains it came through, and
\* although each rank derives the offsets alone (reshard_user_window.cu:
\* 1016-1032, 1175-1230, 1262-1285).
EntriesRight ==
  \A r \in Ranks : \A o \in output[r] :
    LET ds == ShardOf(Entry(o.entry).dst, r)
    IN  o.pieces = {Piece(0, Bytes(o.entry, o.ss, ds), o.entry, o.ss, ds)}

\* No rank waits for a signal or a barrier that never comes: the sources' choice
\* of a leader, the leaders' of their sources, of the ring's next and of the
\* signal agree, and no signal is taken for an earlier one (reshard_prepare.cc:
\* 601-1060, reshard_user_window.cu:93-107, reshard_split_prepare.cc:75-110).
Ended == epochs # <<>> /\ \A r \in Ranks \ refused : pc[r] = "idle" /\ NextEpoch(r) = 0
MayWork(r) == Works(r) /\ (todo[r].puts # {} \/ \E s \in todo[r].sources : Arrived(r, s))
KernelsMeet ==
  \/ epochs = <<>> \/ Ended
  \/ \E r \in Ranks : MayEnter(r) \/ MayWork(r) \/ MayLeave(r) \/ MayExit(r)

\* commB reaches along a rail only, so a split call's ring stays on its rails:
\* the detector that falls back sees every hop that the plan makes
\* (reshard_prepare.cc:344-369).
RingOnRail ==
  \A b \in DOMAIN plan : \A r \in DOMAIN plan[b] :
    plan[b][r].topo.split =>
      \A s \in plan[b][r].sources :
        s.next # None => Rail(plan[b][r].topo, s.next) = Rail(plan[b][r].topo, r)

\* Fused entries may share read-only source storage: a bucket whose destinations
\* overlap no other entry's range is accepted (nccl_m2n.h:303-306).
SharedSourceAccepted ==
  (epochs # <<>> /\ \A r \in Ranks : \A a, b \in Ranges(r) :
     Clash(a, b) => a.start = Entry(a.entry).srcAt /\ b.start = Entry(b.entry).srcAt)
  => refused = {}
=============================================================================
