----------------------------- MODULE MCLlProtocol -----------------------------
(* Two ranks.  Classic groups over NVLink and over RDMA, with and without a  *)
(* rank that may fail; AFD groups of one attention and one expert rank.      *)
EXTENDS LlProtocol

D == "dispatch"
C == "combine"
MCRanks == {1, 2}
Remote == {<<1, 2>>, <<2, 1>>}

Classic(rdma, crashes, program) ==
  [tokens |-> MCRanks, experts |-> MCRanks, rdma |-> rdma, crashes |-> crashes, program |-> program]
Afd(rdma, program) ==
  [tokens |-> {1}, experts |-> {2}, rdma |-> rdma, crashes |-> 0, program |-> program]

(* The lifecycles of tests/test_ll_group_epoch.cu and a dispatch-only loop. *)
MCModes ==
  {Classic(rdma, 0, p) : rdma \in {{}, Remote}, p \in {<<D, C, D, C>>, <<D, D, C, C>>, <<D, D, D, D>>}}
    \cup {Classic(rdma, 1, <<D, C, D>>) : rdma \in {{}, Remote}}
    \cup {Afd(rdma, <<D, C, D, C, D>>) : rdma \in {{}, Remote}}

(* Two micro-batches on an AFD group: the phase-batched lifecycle. *)
BatchedModes == {Afd({}, <<D, D, C, C>>)}
=============================================================================
