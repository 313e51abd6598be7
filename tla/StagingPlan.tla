----------------------------- MODULE StagingPlan -----------------------------
(***************************************************************************)
(* The staging plan of one reshard call: what each rank sends, to whom,    *)
(* through which slots, signals and control entries, as                    *)
(*   staging_prepare.cc   buildStagingTransferDescriptor (the hierarchy of *)
(*                        trainers, handlers, rings and followers) and     *)
(*                        buildStagingDirectTransferDescriptor;            *)
(*   staging_buffer.cc    stagingPrepareTransfer (channels, receiver       *)
(*                        layout, signals);                                *)
(*   reshard_staging.cu   the rank-uniform peer bounds, the split          *)
(*                        communicators' rank translation                  *)
(* compute it.  Each rank computes its own part from the call's arguments  *)
(* alone and launches a kernel that then waits for its peers: a part that  *)
(* its peer does not have is a rank that waits for ever, and two parts     *)
(* that disagree on a slot are lost data.  A behaviour is one call.        *)
(***************************************************************************)
EXTENDS Integers, FiniteSets, ReshardGeometry

CONSTANTS
  PlannedCalls   \* the calls considered: records [src, dst, extent, gpd,
                 \* aware, auto, split, single, direct, peers, chans, data,
                 \* chunk]: two tensors, ranks per domain, the environment's
                 \* load balance and split settings, peers per channel,
                 \* channels fixed by the user or 0, bytes per channel and
                 \* per chunk

VARIABLES
  call,          \* the call
  size,          \* [source shard, destination shard -> elements in common]
  stage,         \* "called", "balanced", "described", "grouped" or "planned"
  lb,            \* the load balancer every rank fills in
  reps,          \* [source replica -> the destination replicas it feeds]
  desc,          \* [rank -> its transfer descriptor]
  bound,         \* the most peers any rank of the call has
  chans,         \* the channels of the call
  groups,        \* [rank -> the peer groups its channels are dealt to]
  offered,       \* the edges as their senders see them
  expected       \* the edges as their receivers see them

planVars == <<call, size, stage, lb, reps, desc, bound, chans, groups, offered, expected>>

(***************************************************************************)
(* Positions in an ordered set of integers.                                *)
(***************************************************************************)
Position(S, x) == Cardinality({y \in S : y < x})
Nth(S, i) == CHOOSE x \in S : Position(S, x) = i

(***************************************************************************)
(* The call.                                                               *)
(***************************************************************************)
Src == call.src
Dst == call.dst
SrcShards == Span(0, ShardCount(Src))
DstShards == Span(0, ShardCount(Dst))
Trainers == MeshRanks(Src)
Generators == MeshRanks(Dst)
Members == Trainers \cup Generators
Meets(ss, ds) == size[ss, ds] > 0
DstOf(ss) == {ds \in DstShards : Meets(ss, ds)}
SrcOf(ds) == {ss \in SrcShards : Meets(ss, ds)}
Aware == EffectiveAware(Src, Dst, call.aware, call.auto)

Geometry == SplitGeometry(Dst, RepCount(Src), RepCount(Dst), call.gpd, call.single)
SplitActive ==
  /\ call.split /\ ~call.direct /\ Aware
  /\ RepCount(Dst) > 1
  /\ Geometry.divides
InjectionDomains == Geometry.inject
Strided == SplitActive /\ Geometry.strided

Node(r) == (r - lb.anchor) \div call.gpd
RepsFrom(sr) == reps[sr]

(***************************************************************************)
(* A destination shard's replicas in one node, and who handles a source.   *)
(***************************************************************************)
RankOf(ds, rep) == MeshRank(Dst, ds, rep)
RepsAt(from, ds, node) == {rep \in from : Node(RankOf(ds, rep)) = node}
HeadNode(from, ds) == Node(RankOf(ds, Least(from)))

\* The handler a trainer picks for a destination shard in the head node.
Leader(from, ss, ds) ==
  LET local == RepsAt(from, ds, HeadNode(from, ds))
      sending == SrcOf(ds)
  IN  RankOf(ds, Nth(local, HolderOf(Cardinality(sending), Cardinality(local), Position(sending, ss))))
LeaderShare(from, ss, ds) ==
  LET local == RepsAt(from, ds, HeadNode(from, ds))
      n == Cardinality(SrcOf(ds))
  IN  DealtTo(n, Cardinality(local), HolderOf(n, Cardinality(local), Position(SrcOf(ds), ss)))

MyShard(r) == ShardOf(Dst, r)
MyReps(r) == RepsFrom(SourceRep(lb, RepOf(Dst, r)))
Locals(r) == RepsAt(MyReps(r), MyShard(r), Node(r))
LocalIndex(r) == IF RepOf(Dst, r) \in MyReps(r) THEN Position(Locals(r), RepOf(Dst, r)) ELSE 0
Arrivals(r) == SrcOf(MyShard(r))
Incoming(r) == Cardinality(Arrivals(r))
HeadLocals(r) ==
  IF MyReps(r) = {} THEN Cardinality(Locals(r))
  ELSE Cardinality(RepsAt(MyReps(r), MyShard(r), HeadNode(MyReps(r), MyShard(r))))
\* A ring never widens: the handlers that take part are as few as the
\* smallest node passed on the way.
ActiveSlots(r) ==
  LET passed == {Cardinality(RepsAt(MyReps(r), MyShard(r), node)) :
                   node \in HeadNode(MyReps(r), MyShard(r)) .. Node(r)} \ {0}
  IN  IF MyReps(r) = {} THEN HeadLocals(r) ELSE Least({HeadLocals(r)} \cup passed)

\* The source indices handled by local replica i: the last active one takes
\* over those of the slots that are not active here.
Share(r, i) ==
  LET slots == HeadLocals(r)
      mine == IF i = ActiveSlots(r) - 1 /\ slots > ActiveSlots(r) THEN i .. (slots - 1) ELSE {i}
  IN  UNION {DealtTo(Incoming(r), slots, s) : s \in mine} \cap Span(0, Incoming(r))
Handled(r) == IF LocalIndex(r) < ActiveSlots(r) THEN Share(r, LocalIndex(r)) ELSE {}
Handlers(r, idx) == {i \in Span(0, Cardinality(Locals(r))) : idx \in Share(r, i)}
Handler(r, idx) == Least(Handlers(r, idx))

(***************************************************************************)
(* The ring: the same destination shard's handlers, node by node.          *)
(***************************************************************************)
Nodes(r) == {Node(RankOf(MyShard(r), rep)) : rep \in MyReps(r)}
Before(r) == {n \in Nodes(r) : n < Node(r)}
After(r) == {n \in Nodes(r) : n > Node(r)}
RepsIn(r, node) == RepsAt(MyReps(r), MyShard(r), node)

None == -1
PrevCount(r) == Cardinality(RepsIn(r, Greatest(Before(r))))
RingPrev(r) ==
  IF Before(r) = {} \/ LocalIndex(r) >= PrevCount(r) THEN None
  ELSE RankOf(MyShard(r), Nth(RepsIn(r, Greatest(Before(r))), LocalIndex(r)))
PrevShare(r) == DealtTo(Incoming(r), PrevCount(r), LocalIndex(r))

(* Faulty variant: the last node on the ring instead of the next one. *)
NextRepsLast(r) == RepsIn(r, Greatest(After(r)))
NextReps(r) == RepsIn(r, Least(After(r)))
\* The handler of the next node that takes this one's traffic.
NextIndex(r) ==
  LET active == Least({ActiveSlots(r), Cardinality(NextReps(r))})
  IN  IF LocalIndex(r) >= active THEN active - 1 ELSE LocalIndex(r)
RingNext(r) ==
  IF After(r) = {} \/ NextIndex(r) >= Cardinality(NextReps(r)) THEN None
  ELSE RankOf(MyShard(r), Nth(NextReps(r), NextIndex(r)))
NextShare(r) == DealtTo(Incoming(r), Cardinality(Locals(r)), NextIndex(r))

(***************************************************************************)
(* Targets.  [peer, ss, rdma, at, from, of, rdmaAt, rdmaOf]: the peer, the *)
(* source shard carried, the transport, the target's index here, this      *)
(* sender's index among the peer's sources and their number, and the same  *)
(* among the peer's RDMA sources.                                          *)
(***************************************************************************)
TrainerReps(r) == RepsFrom(RepOf(Src, r))
TrainerTargets(r) ==
  LET ss == ShardOf(Src, r)
  IN  IF TrainerReps(r) = {} THEN {}
      ELSE {[peer |-> Leader(TrainerReps(r), ss, ds), ss |-> ss, rdma |-> TRUE,
             at |-> Position(DstOf(ss), ds),
             from |-> Position(SrcOf(ds), ss), of |-> Cardinality(SrcOf(ds)),
             rdmaAt |-> Position(SrcOf(ds), ss) - Least(LeaderShare(TrainerReps(r), ss, ds)),
             rdmaOf |-> Cardinality(LeaderShare(TrainerReps(r), ss, ds))] : ds \in DstOf(ss)}

Others(r) == Span(0, Cardinality(Locals(r))) \ {LocalIndex(r)}
FollowerTargets(r) ==
  {[peer |-> RankOf(MyShard(r), Nth(Locals(r), i)), ss |-> Nth(Arrivals(r), idx), rdma |-> FALSE,
    at |-> (Position(Handled(r), idx) * Cardinality(Others(r))) + Position(Others(r), i),
    from |-> idx, of |-> Incoming(r), rdmaAt |-> 0, rdmaOf |-> 0] :
     idx \in Handled(r), i \in Others(r)}
RingTargets(r) ==
  IF RingNext(r) = None THEN {}
  ELSE {[peer |-> RingNext(r), ss |-> Nth(Arrivals(r), idx), rdma |-> TRUE,
         at |-> Cardinality(FollowerTargets(r)) + Position(Handled(r), idx),
         from |-> idx, of |-> Incoming(r),
         rdmaAt |-> idx - (IF NextShare(r) = {} THEN 0 ELSE Least(NextShare(r))),
         rdmaOf |-> Cardinality(NextShare(r))] : idx \in Handled(r)}

DirectTargets(r) ==
  LET ss == ShardOf(Src, r)   fed == TrainerReps(r)
  IN  {[peer |-> RankOf(ds, rep), ss |-> ss, rdma |-> TRUE,
        at |-> (Position(DstOf(ss), ds) * Cardinality(fed)) + Position(fed, rep),
        from |-> Position(SrcOf(ds), ss), of |-> Cardinality(SrcOf(ds)),
        rdmaAt |-> Position(SrcOf(ds), ss), rdmaOf |-> Cardinality(SrcOf(ds))] :
          ds \in DstOf(ss), rep \in fed}

BuildTargets(r) ==
  IF call.direct THEN IF r \in Trainers THEN DirectTargets(r) ELSE {}
  ELSE IF r \in Trainers THEN TrainerTargets(r) ELSE FollowerTargets(r) \cup RingTargets(r)

(***************************************************************************)
(* Sources.  [peer, ss, rdma, at, key, rdmaAt, rdmaOf, head]: key is the   *)
(* target index on the original trainer, the other half of the channel's   *)
(* key; rdmaAt of rdmaOf is this receiver's index among the peer's RDMA    *)
(* targets; head is its control entry at an LSA provider.                  *)
(***************************************************************************)
\* The index of the trainer's target led by the given rank, among all of them.
TrainerKey(r, ss, led) ==
  LET hits == {ds \in DstOf(ss) : Leader(MyReps(r), ss, ds) = led /\ ds = MyShard(r)}
  IN  IF hits = {} THEN 0 ELSE Position(DstOf(ss), MyShard(r))

(* Faulty variant: the key is the source's index here. *)
RingKeyHere(r, ss) == Position(Arrivals(r), ss)
RingKey(r, ss) == Position(DstOf(ss), MyShard(r))

HandledSource(r, idx) ==
  LET ss == Nth(Arrivals(r), idx)
  IN  IF RingPrev(r) # None
      THEN [peer |-> RingPrev(r), ss |-> ss, rdma |-> TRUE, at |-> idx, key |-> RingKey(r, ss),
            rdmaAt |-> idx - Least(PrevShare(r)), rdmaOf |-> Cardinality(PrevShare(r)), head |-> 0]
      ELSE [peer |-> MeshRank(Src, ss, SourceRep(lb, RepOf(Dst, r))), ss |-> ss, rdma |-> TRUE,
            at |-> idx, key |-> TrainerKey(r, ss, r), rdmaAt |-> TrainerKey(r, ss, r),
            rdmaOf |-> Cardinality(DstOf(ss)), head |-> 0]
(* Faulty variant: the key is that of a source received from the trainer here. *)
FollowedSourceOwn(r, idx) ==
  LET ss == Nth(Arrivals(r), idx)   h == Handler(r, idx)
      by == RankOf(MyShard(r), Nth(Locals(r), h))
      turn == IF LocalIndex(r) < h THEN LocalIndex(r) ELSE LocalIndex(r) - 1
  IN  [peer |-> by, ss |-> ss, rdma |-> FALSE, at |-> idx,
       key |-> IF RingPrev(r) # None THEN RingKey(r, ss) ELSE TrainerKey(r, ss, r),
       rdmaAt |-> 0, rdmaOf |-> 0,
       head |-> ((idx - Least(Share(r, h))) * Cardinality(Others(r))) + turn]
FollowedSource(r, idx) ==
  LET ss == Nth(Arrivals(r), idx)   h == Handler(r, idx)
      by == RankOf(MyShard(r), Nth(Locals(r), h))
      turn == IF LocalIndex(r) < h THEN LocalIndex(r) ELSE LocalIndex(r) - 1
  IN  [peer |-> by, ss |-> ss, rdma |-> FALSE, at |-> idx,
       key |-> IF RingPrev(r) # None THEN RingKey(r, ss) ELSE TrainerKey(r, ss, by),
       rdmaAt |-> 0, rdmaOf |-> 0,
       head |-> ((idx - Least(Share(r, h))) * Cardinality(Others(r))) + turn]

DirectSource(r, ss) ==
  LET sr == SourceRep(lb, RepOf(Dst, r))   fed == RepsFrom(sr)
      at == (Position(DstOf(ss), MyShard(r)) * Cardinality(fed)) + (RepOf(Dst, r) - Least(fed))
  IN  [peer |-> MeshRank(Src, ss, sr), ss |-> ss, rdma |-> TRUE, at |-> Position(Arrivals(r), ss),
       key |-> at, rdmaAt |-> at, rdmaOf |-> Cardinality(DstOf(ss)) * Cardinality(fed), head |-> 0]

BuildSources(r) ==
  IF r \notin Generators THEN {}
  ELSE IF call.direct THEN {DirectSource(r, ss) : ss \in Arrivals(r)}
  ELSE {IF Handler(r, idx) = LocalIndex(r) THEN HandledSource(r, idx) ELSE FollowedSource(r, idx) :
          idx \in Span(0, Incoming(r))}

Planned == stage = "planned"
Targets(r) == desc[r].targets
Sources(r) == desc[r].sources

(***************************************************************************)
(* Peer bounds that every rank computes alike, and the channels.           *)
(***************************************************************************)
ActivePeers ==
  Greatest({1} \cup {Cardinality(DstOf(ss)) : ss \in SrcShards}
               \cup {Cardinality(SrcOf(ds)) : ds \in DstShards})
DirectBound == ActivePeers * RepCount(Dst)
HierarchyBound ==
  LET anchor == IF SplitActive THEN Dst.start ELSE 0
      node(r) == (r - anchor) \div call.gpd
      local(ds, rep) == Cardinality({o \in Reps(lb) : node(RankOf(ds, o)) = node(RankOf(ds, rep))})
      most == Greatest({1} \cup {local(ds, rep) : ds \in DstShards, rep \in Reps(lb)})
  IN  Greatest({ActivePeers, CeilDiv(ActivePeers, most) * most})
PeerBound == IF call.direct THEN DirectBound ELSE HierarchyBound

MaxEdge == Greatest({size[ss, ds] : ss \in SrcShards, ds \in DstShards})
Region == IF call.direct THEN call.data \div 2 ELSE call.data
\* Channels: what the user fixed, or enough for every peer group and for the
\* longest edge to fit its credits.
MaxChannels == 64
DefaultCtas(parts) ==
  Greatest({6, parts * (IF parts <= 8 THEN 4 ELSE IF parts <= 16 THEN 2 ELSE 1)})
CreditSafe(peers, parts) ==
  LET per == (Region \div CeilDiv(peers, parts)) \div call.chunk
  IN  IF RepCount(Dst) = 1 \/ per = 0 THEN 0
      ELSE parts * Least({CeilDiv(CeilDiv(MaxEdge, call.chunk), per), Greatest({1, MaxChannels \div parts})})
Channels(peers) ==
  IF call.chans > 0 THEN call.chans
  ELSE LET parts == CeilDiv(peers, call.peers)
       IN  IF call.direct THEN Least({MaxChannels, parts})
           ELSE Least({MaxChannels, Greatest({parts, DefaultCtas(parts), CreditSafe(peers, parts)})})

\* The most peers any one rank has to place.
GroupSize(r) ==
  Greatest({1, bound, Cardinality(Sources(r))} \cup {t.of : t \in Targets(r)}
             \cup (IF r \in Trainers THEN {Cardinality(Targets(r))} ELSE {}))
\* DIRECT shrinks a chunk to what its peers leave; a PIPE chunk must not
\* depend on a rank's own fan-out, since its boundaries drive the signals.
Chunk(r) ==
  IF call.direct THEN Least({call.chunk, Region \div GroupSize(r)}) ELSE call.chunk
GinChannels == 8
GroupCount(r) ==
  IF call.direct THEN 1
  ELSE Least({chans, Greatest({CeilDiv(GroupSize(r), call.peers), CeilDiv(chans, GinChannels)})})

TargetKey(r, t) ==
  IF r \in Trainers \/ call.direct THEN t.at
  ELSE (CHOOSE s \in Sources(r) : s.at = t.from).key
Group(r, from, key) == (from + key) % groups[r]
GroupOfTarget(r, t) == Group(r, t.from, TargetKey(r, t))
GroupOfSource(r, s) == Group(r, s.at, s.key)
ChannelsOfGroup(r, g) == Cardinality({ch \in Span(0, chans) : ch % groups[r] = g})

\* Where a sender's chunks land in its receiver's channel, in whole slots.
Layout(r, of, from, key) ==
  LET first == (Group(r, from, key) - key) % groups[r]
      count == IF of > first THEN 1 + ((of - 1 - first) \div groups[r]) ELSE 0
      rank == (from - first) \div groups[r]
      slots == IF count = 0 \/ Chunk(r) = 0 THEN 0 ELSE (Region \div count) \div Chunk(r)
  IN  [first |-> rank * slots, slots |-> slots, chunk |-> Chunk(r), ok |-> count > 0 /\ rank \in 0 .. (count - 1) /\ slots > 0]

\* Dense signal slots: a PIPE edge's is fixed by its peer and channel rank.
Signal(index, peers) == <<index, IF call.direct THEN peers ELSE GinChannels>>

RdmaTargets(r) == {t \in Targets(r) : t.rdma}
RdmaSources(r) == {s \in Sources(r) : s.rdma}
RdmaIndex(S, x) == Cardinality({y \in S : y.rdma = x.rdma /\ y.at < x.at})

(***************************************************************************)
(* The two sides of an edge, in the same terms.                            *)
(***************************************************************************)
OutEdge(r, t) ==
  LET key == TargetKey(r, t)   index == RdmaIndex(Targets(r), t)
      peers == Cardinality(RdmaTargets(r))
  IN  [from |-> r, to |-> t.peer, ss |-> t.ss, rdma |-> t.rdma,
       groups |-> groups[r], group |-> Group(r, t.from, key),
       place |-> Layout(r, t.of, t.from, key),
       tail |-> IF t.rdma THEN Signal(t.rdmaAt, t.rdmaOf) ELSE <<t.from>>,
       head |-> IF t.rdma THEN Signal(index, peers) ELSE <<index>>]
InEdge(r, s) ==
  LET index == RdmaIndex(Sources(r), s)   peers == Cardinality(RdmaSources(r))
  IN  [from |-> s.peer, to |-> r, ss |-> s.ss, rdma |-> s.rdma,
       groups |-> groups[r], group |-> GroupOfSource(r, s),
       place |-> Layout(r, Incoming(r), s.at, s.key),
       tail |-> IF s.rdma THEN Signal(index, peers) ELSE <<s.at>>,
       head |-> IF s.rdma THEN Signal(s.rdmaAt, s.rdmaOf) ELSE <<s.head>>]

(***************************************************************************)
(* The call, step by step.  Each step fills what the next ones read; every *)
(* rank takes it on its own, from the same arguments.                      *)
(***************************************************************************)
Init ==
  /\ call \in PlannedCalls
  /\ size = [p \in SrcShards \X DstShards |-> EdgeSize(Src, Dst, call.extent, p[1], p[2])]
  /\ stage = "called"
  /\ lb = <<>> /\ reps = <<>> /\ desc = <<>>
  /\ bound = 0 /\ chans = 0 /\ groups = <<>>
  /\ offered = {} /\ expected = {}

Balance ==
  /\ stage = "called"
  /\ stage' = "balanced"
  /\ lb' = Balancer(Src, Dst, call.gpd, Aware, SplitActive, Strided, InjectionDomains, Geometry.perRep)
  /\ reps' = [sr \in Span(0, RepCount(Src)) |-> TargetReps(lb', sr)]
  /\ UNCHANGED <<call, size, desc, bound, chans, groups, offered, expected>>

Describe ==
  /\ stage = "balanced"
  /\ stage' = "described"
  /\ desc' = [r \in Members |-> [targets |-> BuildTargets(r), sources |-> BuildSources(r)]]
  /\ bound' = PeerBound
  /\ chans' = Channels(bound')
  /\ UNCHANGED <<call, size, lb, reps, groups, offered, expected>>

Deal ==
  /\ stage = "described"
  /\ stage' = "grouped"
  /\ groups' = [r \in Members |-> GroupCount(r)]
  /\ UNCHANGED <<call, size, lb, reps, desc, bound, chans, offered, expected>>

Place ==
  /\ stage = "grouped"
  /\ stage' = "planned"
  /\ offered' = UNION {{OutEdge(r, t) : t \in Targets(r)} : r \in Members}
  /\ expected' = UNION {{InEdge(r, s) : s \in Sources(r)} : r \in Generators}
  /\ UNCHANGED <<call, size, lb, reps, desc, bound, chans, groups>>

Next == Balance \/ Describe \/ Deal \/ Place
Spec == Init /\ [][Next]_planVars

(***************************************************************************)
(* What makes a rank refuse the call.                                      *)
(***************************************************************************)
MaxTargets == 64
MaxSources == 16
\* Checked by every rank for every rank of the call (validateStagingPlanLimits).
LimitsKept ==
  /\ MeshesDisjoint(Src, Dst)
  /\ \A r \in Members : Cardinality(Targets(r)) <= MaxTargets /\ Cardinality(Sources(r)) <= MaxSources
  /\ call.direct \/ \A r \in Generators : Incoming(r) > 0 => RepOf(Dst, r) \in MyReps(r)

OnePerGroup(S, group(_)) == \A x, y \in S : group(x) = group(y) => x = y
\* Checked by each rank for its own part (stagingPrepareTransfer).
Accepts(r) ==
  /\ Chunk(r) > 0
  /\ \A t \in Targets(r) : OutEdge(r, t).place.ok /\ (t.rdma => t.rdmaAt \in Span(0, t.rdmaOf))
  /\ \A s \in Sources(r) : InEdge(r, s).place.ok /\ (s.rdma => s.rdmaAt \in Span(0, s.rdmaOf))
  /\ r \in Trainers /\ call.direct =>
       (Region \div Greatest({1, Cardinality(Targets(r))})) \div Chunk(r) > 0
  /\ ~call.direct =>
       /\ OnePerGroup(RdmaTargets(r), LAMBDA t : GroupOfTarget(r, t))
       /\ OnePerGroup(RdmaSources(r), LAMBDA s : GroupOfSource(r, s))
       /\ \A g \in Span(0, groups[r]) :
            RdmaTargets(r) \cup RdmaSources(r) # {} => ChannelsOfGroup(r, g) <= GinChannels
       /\ Cardinality(RdmaTargets(r)) <= 16 /\ Cardinality(RdmaSources(r)) <= 16

\* The rank of a peer in the split communicator that carries an edge.
InCommA(r) == r \in Trainers \cup Span(Dst.start, Dst.start + (InjectionDomains * call.gpd))
Translates(e) ==
  IF e.rdma /\ e.from \in Trainers THEN InCommA(e.to) /\ InCommA(e.from)
  ELSE e.from \in Generators /\ e.to \in Generators

(***************************************************************************)
(* Properties.                                                             *)
(***************************************************************************)
AllAccept == Planned /\ LimitsKept /\ \A r \in Members : Accepts(r)
Chained == Strided /\ InjectionReps(lb) > 1

\* The hierarchy assumes that a source replica feeds a run of nodes.  When a
\* strided split ring has several injection points, the replicas that one of
\* them reaches are not in one run, and its descriptors do not describe a ring
\* (README, section 6).
Sound == AllAccept /\ ~Chained

\* Two ranks that accept a call agree on every edge between them: the channel
\* group, the slots in the receiver's region, the two signals.  Each of the two
\* descriptions is computed by another rank with another formula
\* (staging_prepare.cc:860, 1085, 1120; staging_buffer.cc:860, 921, 1083).
EdgesMeet == Sound => offered = expected

\* What an edge carries is there to be carried: starting from the trainers'
\* own shards and following the edges, every destination rank gets each source
\* shard that overlaps its own, and gets it from one peer only
\* (staging_prepare.cc:595-850, the ring's and the followers' shares).
Reached(have) == have \cup {<<e.to, e.ss>> : e \in {x \in offered : <<x.from, x.ss>> \in have}}
Holding ==
  LET held[k \in 0 .. Cardinality(Generators)] ==
        IF k = 0 THEN {<<r, ShardOf(Src, r)>> : r \in Trainers}
        ELSE LET before == held[k - 1] IN Reached(before)
  IN  held[Cardinality(Generators)]
ArrivesOnce ==
  Sound =>
    \A r \in Generators : \A ss \in Arrivals(r) :
      /\ <<r, ss>> \in Holding
      /\ Cardinality({e \in offered : e.to = r /\ e.ss = ss}) = 1

\* A follower reads the chunks in its handler's slots, at the offsets it derives
\* itself: the handler receives that source there, and in the same channels
\* (staging_buffer.cc:522-548, 1083-1126).
FollowersRead ==
  Sound =>
    \A e \in {x \in expected : ~x.rdma} :
      \E f \in expected :
        f.rdma /\ f.to = e.from /\ f.ss = e.ss
          /\ f.groups = e.groups /\ f.group = e.group /\ f.place = e.place

\* With split communicators every RDMA edge has both ends in the communicator
\* that carries it (reshard_staging.cu:256-415).
SplitReaches == Sound /\ SplitActive => \A e \in offered : Translates(e)

\* A rank that refuses its part leaves its peers waiting in the kernel
\* (staging_buffer.cc:720-722), so the ranks of a call refuse together.
RefuseTogether == Planned /\ LimitsKept => (\A r \in Members : Accepts(r)) \/ (\A r \in Members : ~Accepts(r))
=============================================================================
