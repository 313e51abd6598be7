--------------------------- MODULE ReshardGeometry ---------------------------
(***************************************************************************)
(* The arithmetic that every data path of nccl_m2n shares: how a rank of a *)
(* mesh is turned into a shard and a replica and back, which shards of the *)
(* two sides overlap and by how much (reshard_mesh.cc), and which source   *)
(* replica serves which destination replicas (reshard_loadbalance.cc).     *)
(* Every rank evaluates it on its own from the same call arguments; no     *)
(* rank ever tells another what it found, so the two ends of a transfer    *)
(* meet only because these functions invert one another.                   *)
(*                                                                         *)
(* A tensor is [start, dims, place]: the first rank of its mesh, the sizes *)
(* of the two mesh axes, and for each axis the tensor dimension it shards  *)
(* or Replicate.  A load balancer is [srcReps, dstReps, gpd, start,        *)
(* stride, anchor, aware, strided, domains, perRep].                       *)
(***************************************************************************)
LOCAL INSTANCE Integers
LOCAL INSTANCE FiniteSets
LOCAL INSTANCE FiniteSetsExt

Replicate == -1
Axes == {1, 2}
Dims == {1, 2}

Span(lo, hi) == lo .. (hi - 1)
Least(S) == Min(S)
Greatest(S) == Max(S)
CeilDiv(a, b) == (a + b - 1) \div b

(***************************************************************************)
(* Meshes.                                                                 *)
(***************************************************************************)
MeshSize(t) == t.dims[1] * t.dims[2]
MeshRanks(t) == Span(t.start, t.start + MeshSize(t))
Sharded(t, a) == t.place[a] # Replicate

ShardCount(t) ==
  (IF Sharded(t, 1) THEN t.dims[1] ELSE 1) * (IF Sharded(t, 2) THEN t.dims[2] ELSE 1)
RepCount(t) == MeshSize(t) \div ShardCount(t)

\* The index of rank r along the axes that are sharded, or those that are not.
AxisIndex(t, r, shards) ==
  LET pos == <<(r - t.start) \div t.dims[2], (r - t.start) % t.dims[2]>>
      first == IF Sharded(t, 1) = shards THEN pos[1] ELSE 0
  IN  IF Sharded(t, 2) = shards THEN (first * t.dims[2]) + pos[2] ELSE first
ShardOf(t, r) == AxisIndex(t, r, TRUE)
RepOf(t, r) == AxisIndex(t, r, FALSE)

\* The rank that holds a shard of a replica: the last axis is decoded first.
MeshRank(t, shard, rep) ==
  LET two == IF Sharded(t, 2) THEN shard ELSE rep
      one == IF Sharded(t, 1) = Sharded(t, 2) THEN two \div t.dims[2]
             ELSE IF Sharded(t, 1) THEN shard ELSE rep
  IN  t.start + ((one % t.dims[1]) * t.dims[2]) + (two % t.dims[2])

ShardsAlong(t, d) ==
  (IF t.place[1] = d THEN t.dims[1] ELSE 1) * (IF t.place[2] = d THEN t.dims[2] ELSE 1)

\* Where a shard starts along dimension d, in blocks of its own size: an
\* earlier axis selects the larger block and a later one subdivides it.
BlockOf(t, shard, d) ==
  LET two == IF Sharded(t, 2) THEN shard % t.dims[2] ELSE 0
      rest == IF Sharded(t, 2) THEN shard \div t.dims[2] ELSE shard
      one == IF Sharded(t, 1) THEN rest % t.dims[1] ELSE 0
      inner == IF t.place[2] = d THEN two ELSE 0
  IN  IF t.place[1] = d
      THEN inner + (one * (IF t.place[2] = d THEN t.dims[2] ELSE 1))
      ELSE inner

\* The elements along d of a tensor of the given global extent that a shard holds.
ShardRange(t, extent, shard, d) ==
  LET len == extent[d] \div ShardsAlong(t, d)
  IN  Span(BlockOf(t, shard, d) * len, (BlockOf(t, shard, d) + 1) * len)

ShapesAgree(src, dst, extent) ==
  \A d \in Dims : extent[d] % ShardsAlong(src, d) = 0 /\ extent[d] % ShardsAlong(dst, d) = 0

OverlapAlong(src, dst, extent, ss, ds, d) ==
  ShardRange(src, extent, ss, d) \cap ShardRange(dst, extent, ds, d)
Overlap(src, dst, extent, ss, ds) ==
  \A d \in Dims : OverlapAlong(src, dst, extent, ss, ds, d) # {}
\* The elements an edge carries (totalInnerTransfers runs of innerSize elements).
EdgeSize(src, dst, extent, ss, ds) ==
  Cardinality(OverlapAlong(src, dst, extent, ss, ds, 1))
    * Cardinality(OverlapAlong(src, dst, extent, ss, ds, 2))

FullyReplicated(t) == \A a \in Axes : Sharded(t, a) => t.dims[a] = 1

MeshesDisjoint(src, dst) == MeshRanks(src) \cap MeshRanks(dst) = {}

(***************************************************************************)
(* Load balance.  A rep range is the set of the destination replicas that  *)
(* a source replica feeds.                                                 *)
(***************************************************************************)
EffectiveAware(src, dst, aware, autoUniform) ==
  aware /\ ~(autoUniform /\ FullyReplicated(src) /\ FullyReplicated(dst))

Balancer(src, dst, gpd, aware, anchored, strided, domains, perRep) ==
  LET repAxis == IF ~Sharded(dst, 2) THEN 2 ELSE IF ~Sharded(dst, 1) THEN 1 ELSE 0
  IN  [srcReps |-> RepCount(src), dstReps |-> RepCount(dst), gpd |-> gpd,
       start |-> dst.start, stride |-> IF repAxis = 1 THEN dst.dims[2] ELSE 1,
       anchor |-> IF anchored THEN dst.start ELSE 0, aware |-> aware,
       strided |-> strided /\ aware /\ domains > 0, domains |-> domains,
       perRep |-> IF perRep > 0 THEN perRep ELSE 1]

NodeOfRep(lb, rep) == (lb.start + (rep * lb.stride) - lb.anchor) \div lb.gpd
OffsetOfRep(lb, rep) == NodeOfRep(lb, rep) - NodeOfRep(lb, 0)
DestNodes(lb) == OffsetOfRep(lb, lb.dstReps - 1) + 1
Reps(lb) == Span(0, lb.dstReps)

\* The range from the first to the last replica headed in the given nodes.
RepsOnNodes(lb, first, last) ==
  LET on == {rep \in Reps(lb) : OffsetOfRep(lb, rep) \in first .. last}
  IN  IF on = {} THEN {} ELSE Least(on) .. Greatest(on)

\* Item i's part of n items dealt in runs of almost equal size to k holders.
DealtTo(n, k, i) ==
  LET each == n \div k   extra == n % k
  IN  IF i < extra THEN Span(i * (each + 1), (i + 1) * (each + 1))
      ELSE Span((extra * (each + 1)) + ((i - extra) * each),
                (extra * (each + 1)) + ((i - extra + 1) * each))
\* The holder of item p of n items dealt so.
HolderOf(n, k, p) ==
  LET each == n \div k   extra == n % k   threshold == extra * (each + 1)
  IN  IF p < threshold \/ each = 0 THEN p \div (each + 1)
      ELSE extra + ((p - threshold) \div each)

InjectionReps(lb) == lb.domains \div lb.perRep

\* Strided injection: from the first replica headed at the injected domain
\* offset to the end of the list.
StridedReps(lb, srcRep) ==
  LET heads == {rep \in Reps(lb) : OffsetOfRep(lb, rep) = srcRep * lb.perRep}
  IN  IF srcRep >= InjectionReps(lb) \/ heads = {} THEN {}
      ELSE Span(Least(heads), lb.dstReps)

NodeAwareReps(lb, srcRep) ==
  LET nodes == DestNodes(lb)
      mine == DealtTo(nodes, lb.srcReps, srcRep)
  IN  IF lb.srcReps >= nodes
      THEN IF srcRep >= nodes THEN {} ELSE RepsOnNodes(lb, srcRep, srcRep)
      ELSE RepsOnNodes(lb, Least(mine), Greatest(mine))

UniformReps(lb, srcRep) ==
  IF lb.srcReps > lb.dstReps
  THEN {rep \in Reps(lb) : srcRep = Least(DealtTo(lb.srcReps, lb.dstReps, rep))}
  ELSE DealtTo(lb.dstReps, lb.srcReps, srcRep)

TargetReps(lb, srcRep) ==
  IF ~lb.aware THEN UniformReps(lb, srcRep)
  ELSE IF lb.strided THEN StridedReps(lb, srcRep) ELSE NodeAwareReps(lb, srcRep)

SourceRep(lb, dstRep) ==
  IF ~lb.aware
  THEN IF lb.srcReps > lb.dstReps THEN Least(DealtTo(lb.srcReps, lb.dstReps, dstRep))
       ELSE HolderOf(lb.dstReps, lb.srcReps, dstRep)
  ELSE LET offset == OffsetOfRep(lb, dstRep)
           inject == IF InjectionReps(lb) > 0 THEN InjectionReps(lb) ELSE 1
       IN  IF lb.strided THEN (offset \div lb.perRep) % inject
           ELSE IF lb.srcReps >= DestNodes(lb) THEN offset
           ELSE HolderOf(DestNodes(lb), lb.srcReps, offset)

(***************************************************************************)
(* Split communicators: the destination's domains, how many one replica    *)
(* spans, and how many the sources inject into (reshard_split_comm.cu).    *)
(***************************************************************************)
RepStrided(t) == ~Sharded(t, 2) /\ t.dims[1] > 1 /\ t.dims[2] > 1
(* Faulty variant: a replica whose axis strides over the domains is taken for one domain. *)
PerRepShort(t, dstReps, domains) ==
  IF RepStrided(t) \/ domains < dstReps THEN 1 ELSE domains \div dstReps
PerRep(t, dstReps, domains) ==
  IF RepStrided(t) THEN domains ELSE IF domains >= dstReps THEN domains \div dstReps ELSE 1

\* With one injected replica asked for (single), four when a replica fits a domain.
SplitGeometry(dst, srcReps, dstReps, gpd, single) ==
  LET domains == CeilDiv(MeshSize(dst), gpd)
      per == PerRep(dst, dstReps, domains)
      injected == IF single /\ per > 1 THEN 1
                  ELSE Least({srcReps, dstReps} \cup (IF single THEN {4} ELSE {}))
      inject == Least({injected * per, domains})
  IN  [perRep |-> per, inject |-> inject, strided |-> inject < domains,
       divides |-> RepStrided(dst) \/ domains < dstReps \/ domains % dstReps = 0]
=============================================================================
