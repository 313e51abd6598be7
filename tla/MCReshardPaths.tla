--------------------------- MODULE MCReshardPaths ---------------------------
(* Instances of the six models; the meshes of the bucket and of the PIPE plan *)
(* are in MCMeshes.                                                           *)
EXTENDS ReshardPaths

Meshes == INSTANCE MCMeshes
MCSubmissions == Meshes!MCSubmissions
MCCalls == Meshes!MCCalls

-----------------------------------------------------------------------------
(* Public calls: two host threads, three parent communicators that share      *)
(* commB; p and r share a lane of it.                                         *)
MCThreads == {"t1", "t2"}
MCLaneOf == [c \in {"p", "q", "r"} |-> IF c = "q" THEN 1 ELSE 0]
MCSettings ==
  {[algo |-> a, internal |-> i, split |-> s] : a \in {"PIPE", "HOST"}, i \in BOOLEAN, s \in BOOLEAN}
    \cup {[algo |-> "DIRECT", internal |-> i, split |-> FALSE] : i \in BOOLEAN}
    \cup {[algo |-> "PACK", internal |-> FALSE, split |-> s] : s \in BOOLEAN}

Start == [op |-> "start"]
End == [op |-> "end"]
Abort == [op |-> "abort"]
Reshard(handle, comm, stream, shape, wide, flaw) ==
  [op |-> "reshard", handle |-> handle, comm |-> comm, stream |-> stream,
   shape |-> shape, wide |-> wide, flaw |-> flaw]
C(comm, stream, shape) == Reshard("h", comm, stream, shape, TRUE, "none")
Narrow(comm, stream, shape) == Reshard("h", comm, stream, shape, FALSE, "none")
Bad(comm, stream, shape, flaw) == Reshard("h", comm, stream, shape, TRUE, flaw)
Two(a, b) == [t \in MCThreads |-> IF t = "t1" THEN a ELSE b]

MCScripts == {
  (* one communicator: two shapes, two streams, two threads *)
  Two(<<C("p", "s1", "x"), C("p", "s2", "y"), C("p", "s1", "x")>>, <<>>),
  Two(<<C("p", "s1", "x"), Narrow("p", "s2", "x")>>, <<C("p", "s2", "y")>>),
  (* two communicators *)
  Two(<<C("p", "s1", "x"), C("p", "s1", "x")>>, <<C("q", "s2", "x")>>),
  Two(<<C("p", "s1", "x")>>, <<C("r", "s2", "x")>>),
  (* groups: contexts, an error while recording, an error while executing *)
  Two(<<Start, C("p", "NULL", "x"), Start, C("q", "s1", "x"), C("p", "legacy", "y"), End,
        C("p", "NULL", "x"), End>>, <<>>),
  Two(<<Start, C("p", "s1", "x"), Bad("p", "s1", "x", "header"), C("p", "s1", "y"), End,
        C("p", "s2", "x")>>, <<>>),
  Two(<<Start, C("p", "s1", "x"), C("q", "s1", "x"), Bad("p", "s1", "x", "value"),
        C("q", "s1", "y"), End>>,
      <<Start, C("q", "s2", "x"), Abort, Start, End, End>>) }

-----------------------------------------------------------------------------
(* Split communicators between two trainers and two generators.               *)
MCRanks == {"t0", "t1", "g0", "g1"}
Call(parent, srcs, gens, k, on) ==
  [op |-> "call", parent |-> parent, srcs |-> srcs, gens |-> gens, k |-> k, lane |-> on]
Finalize(ranks) == [op |-> "finalize", ranks |-> ranks]
On(n) == [r \in MCRanks |-> n]
Mixed == [r \in MCRanks |-> IF r = "g1" THEN 1 ELSE 0]
Unset == [r \in MCRanks |-> IF r = "g1" THEN -1 ELSE 0]  \* g1 holds no staging slot

(* Parents p0 and p1 have a trainer each and the same generators; p2 orders   *)
(* them the other way round.                                                  *)
P0(k, on) == Call("p0", <<"t0">>, <<"g0", "g1">>, k, on)
P1(k, on) == Call("p1", <<"t1">>, <<"g0", "g1">>, k, on)
P2(k, on) == Call("p2", <<"t1">>, <<"g1", "g0">>, k, on)
P3(k, on) == Call("p3", <<"t0">>, <<"g0", "g1">>, k, on)
P0Wide(k, on) == Call("p0", <<"t0", "g0">>, <<"g1">>, k, on)

MCPlans == {
  <<P0(1, On(0)), P1(2, On(0)), P0(2, On(0))>>,
  <<P0(2, On(0)), P1(1, On(1)), P0(1, On(0))>>,
  <<P0(1, On(0)), P1(1, Mixed), P1(1, On(1))>>,
  <<P0(1, Unset), P1(1, On(0))>>,
  <<P0(1, On(0)), P2(1, On(0)), P1(1, On(0))>>,
  <<P0(1, On(0)), P1(1, On(0)), P3(1, On(0)), P0(1, On(0))>>,
  <<P0(1, On(0)), P0Wide(1, On(0)), P0(1, On(0))>>,
  <<P0(1, On(0)), Finalize({"g0"}), P1(1, On(0)), P3(1, On(0))>>,
  <<P0(1, On(0)), Finalize({"g0", "g1"}), P1(1, On(0)), P3(2, On(0))>>,
  <<P0(1, On(0)), Finalize({"t0", "g0", "g1"}), P0(1, On(0)), P1(1, On(0))>>,
  <<P0(1, On(0)), Call("p4", <<"t0", "g0">>, <<"g0", "g1">>, 1, On(0))>> }

-----------------------------------------------------------------------------
(* The kernels of a PIPE channel.                                             *)
PlanOf(x, chunks, slots, packs, rdma, lsa) ==
  [x |-> x, chunks |-> chunks, slots |-> slots, packs |-> packs, rdma |-> rdma, lsa |-> lsa]

\* A handler with a follower, and the next handler on the ring.
Ring(x, chunks, slots) == PlanOf(x, chunks, slots, 1, {<<"T", "A", 0>>, <<"A", "C", 0>>}, {<<"A", "B", 0>>})
\* Two handlers in a domain that follow one another.
Mutual(x) == PlanOf(x, 2, 1, 1, {<<"T", "A", 0>>, <<"U", "B", 1>>}, {<<"A", "B", 0>>, <<"B", "A", 1>>})
\* A handler whose slots another trainer filled in the call before.
From(x, t) == PlanOf(x, 2, 1, 1, {<<t, "A", 0>>}, {<<"A", "B", 0>>})

MCPrograms ==
  {<<Ring(1, 3, 2)>>, <<Ring(1, 2, 1), Ring(1, 2, 1)>>, <<Mutual(1)>>, <<From(1, "T"), From(2, "U"), From(1, "T")>>}

-----------------------------------------------------------------------------
(* The host-RMA schedule of a PIPE transfer.                                  *)
Transfer(rdma, lsa, chunks, fifos, slots, ordered) ==
  [rdma |-> rdma, lsa |-> lsa, chunks |-> chunks, fifo |-> fifos, slots |-> slots, ordered |-> ordered]

\* A handler with a follower, and the next handler on the ring.
HostRing(chunks, fifos, slots) ==
  Transfer({<<"T", "A", 0>>, <<"A", "C", 0>>}, {<<"A", "B", 0>>}, chunks, fifos, slots, FALSE)
\* Two handlers that follow one another: the signals of a pair have two streams.
HostMutual(chunks) ==
  Transfer({<<"T", "A", 0>>, <<"U", "B", 1>>}, {<<"A", "B", 0>>, <<"B", "A", 1>>}, chunks, 1, 1, TRUE)
\* Two sources pass through one handler to the next.
HostPair(chunks) ==
  Transfer({<<"T", "A", 0>>, <<"U", "A", 1>>, <<"A", "C", 0>>, <<"A", "C", 1>>}, {}, chunks, 1, 1, FALSE)

MCTransfers == {HostRing(<<3>>, 1, 2), HostRing(<<2, 1>>, 1, 1), HostMutual(<<2>>), HostPair(<<2>>)}
=============================================================================
