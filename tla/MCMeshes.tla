------------------------------- MODULE MCMeshes -------------------------------
(* Calls over small meshes, for the PIPE plan and for PACK buckets.            *)
EXTENDS Integers, ReshardGeometry

Places == {<<a, b>> : a, b \in {Replicate, 1, 2}}
Plain(t) == \A a \in Axes : t.dims[a] = 1 => t.place[a] = Replicate
Tensors(meshes) ==
  {t \in {[start |-> 0, dims |-> d, place |-> p] : d \in meshes, p \in Places} : Plain(t)}
After(s, d) == [d EXCEPT !.start = s.start + MeshSize(s)]

-----------------------------------------------------------------------------
(* Every pair of small meshes whose shards divide a 12 by 12 tensor, with both *)
(* load balances, one or two ranks per domain, and split communicators.        *)
Extent == <<12, 12>>
Between(sources, targets) ==
  {x \in {<<s, After(s, d)>> : s \in Tensors(sources), d \in Tensors(targets)} :
     ShapesAgree(x[1], x[2], Extent)}
Staged == Between({<<1, 1>>, <<2, 1>>, <<2, 2>>, <<3, 1>>},
                  {<<1, 2>>, <<2, 1>>, <<2, 2>>, <<3, 1>>, <<1, 4>>, <<3, 2>>})
CallOf(x, gpd, aware, split, direct) ==
  [src |-> x[1], dst |-> x[2], extent |-> Extent, gpd |-> gpd, aware |-> aware, auto |-> TRUE,
   split |-> split, single |-> FALSE, direct |-> direct, peers |-> 1, chans |-> 0, data |-> 8, chunk |-> 2]
MCCalls ==
  {CallOf(x, g, aw, sp, di) : x \in Staged, g \in {1, 2}, aw \in BOOLEAN, sp \in BOOLEAN, di \in BOOLEAN}

-----------------------------------------------------------------------------
(* Single PACK calls, with and without split communicators, and buckets of    *)
(* two and three entries.                                                     *)
EntryOf(s, d, extent, n) ==
  [src |-> s, dst |-> After(s, d), extent |-> extent, srcAt |-> 100 * n, dstAt |-> (100 * n) + 50]
Other(d) == [d EXCEPT !.place = <<Replicate, IF d.place[2] = 1 THEN 2 ELSE 1>>]
Full == <<6, 6>>
Half == <<6, 12>>
Packed == {x \in Tensors({<<1, 1>>, <<2, 1>>}) \X Tensors({<<1, 2>>, <<2, 2>>, <<3, 1>>}) :
             ShapesAgree(x[1], x[2], Full)}
SubmissionOf(entries, gpd, split) ==
  [entries |-> entries, gpd |-> gpd, aware |-> TRUE, auto |-> ~split, split |-> split, single |-> FALSE,
   rmem |-> FALSE, buckets |-> IF split THEN {200} ELSE {40, 200}]

Plains == {SubmissionOf(<<EntryOf(x[1], x[2], Full, 1)>>, g, s) : x \in Packed, g \in {1, 2}, s \in BOOLEAN}
\* Two entries of one topology, the second twice as large, in one bin or in two.
Twins == {SubmissionOf(<<EntryOf(x[1], x[2], Full, 1), EntryOf(x[1], x[2], Half, 2)>>, 2, FALSE) :
            x \in {y \in Packed : y[2].dims[2] > 1}}
\* Three entries, the second of another topology.
Triples ==
  {SubmissionOf(<<EntryOf(x[1], x[2], Full, 1), EntryOf(x[1], Other(x[2]), Full, 2),
                  EntryOf(x[1], x[2], Half, 3)>>, 2, FALSE) :
     x \in {y \in Packed : y[2].dims = <<1, 2>>}}
\* The same bucket with split communicators: one call after the other.
Apart ==
  {[u EXCEPT !.split = TRUE, !.buckets = {200}, !.gpd = 1] :
     u \in {v \in Twins : v.entries[1].dst.dims = <<1, 2>>}}
MCSubmissions == Plains \cup Twins \cup Triples \cup Apart
=============================================================================
