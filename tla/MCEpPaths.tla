------------------------------ MODULE MCEpPaths ------------------------------
(* Instances of the three models. *)
EXTENDS EpPaths, TLC

-----------------------------------------------------------------------------
(* Groups of two ranks, low-latency and high-throughput, whose configurations *)
(* and environments are alike or differ in one thing.                         *)
Ll == [algo |-> "LL", flow |-> "auto", policy |-> "auto", attn |-> 0, recv |-> 0, tokens |-> 2, topk |-> 0,
       experts |-> 4, zero_copy |-> FALSE, drop |-> FALSE, mask |-> FALSE, cft |-> FALSE, rdma |-> 0,
       facts |-> TRUE, sms |-> 4, qps |-> 0, env_pull |-> "unset", env_dup |-> "none", env_scan |-> FALSE,
       env_unfused |-> FALSE]
Cft == [Ll EXCEPT !.cft = TRUE, !.zero_copy = TRUE, !.rdma = 8]
Push == [Ll EXCEPT !.algo = "HT", !.recv = 3, !.flow = "push"]
PullFlow == [Push EXCEPT !.flow = "pull", !.drop = TRUE]

Handle(k, bytes) == [kind |-> "handle", k |-> k, bytes |-> bytes]
Out(a, b) == [kind |-> "dispatch", outputs |-> <<a, b>>]
Of(a, b, program) == [team |-> 2, of |-> <<a, b>>, program |-> program]
Alike(a, program) == Of(a, a, program)
Apart(a) == [team |-> 1, of |-> <<a, a>>, program |-> <<>>]

LlFleets ==
  {Alike(Ll, <<Handle(1, 4), Handle(2, 8), Handle(1, 4), Out(0, 0)>>),
   Alike([Ll EXCEPT !.mask = TRUE, !.rdma = 8], <<Handle(9, 4), Handle(1, 4)>>),
   Alike([Ll EXCEPT !.attn = 1], <<Handle(1, 4)>>),
   Of(Ll, [Ll EXCEPT !.attn = 1], <<>>),
   Alike(Cft, <<Handle(1, 8), Out(0, 0), Out(0, 0)>>), Alike(Cft, <<Out(0, 4), Out(4, 4)>>),
   Alike(Cft, <<Out(0, -1)>>),
   Of(Cft, [Cft EXCEPT !.facts = FALSE], <<>>), Of([Cft EXCEPT !.mask = TRUE], Cft, <<>>),
   Of(Cft, [Cft EXCEPT !.zero_copy = FALSE], <<>>), Of(Cft, [Cft EXCEPT !.cft = FALSE], <<>>),
   Alike([Cft EXCEPT !.rdma = 0], <<Handle(1, 4), Out(0, 0)>>),
   Alike([Ll EXCEPT !.sms = 1], <<>>)}

HtFleets ==
  {Of(Push, [Push EXCEPT !.recv = 4], <<>>), Alike([Push EXCEPT !.recv = 1], <<>>),
   Of(PullFlow, [PullFlow EXCEPT !.env_scan = TRUE], <<>>),
   Alike([Push EXCEPT !.env_dup = "both"], <<>>), Apart([Push EXCEPT !.qps = 1]), Apart(PullFlow),
   Alike(Push, <<>>), Alike([Push EXCEPT !.recv = 0, !.topk = 2], <<>>),
   Alike([Push EXCEPT !.env_scan = TRUE], <<>>), Alike([Push EXCEPT !.env_unfused = TRUE], <<>>),
   Alike([Push EXCEPT !.policy = "require fused"], <<>>),
   Alike([Push EXCEPT !.env_dup = "local", !.recv = 8, !.topk = 2], <<>>), Alike([Push EXCEPT !.env_dup = "local"], <<>>),
   Apart([Push EXCEPT !.env_dup = "nvlink", !.recv = 8]), Apart([Push EXCEPT !.zero_copy = TRUE]),
   Alike(PullFlow, <<>>), Alike([PullFlow EXCEPT !.flow = "auto", !.topk = 2, !.drop = FALSE], <<>>),
   Alike([PullFlow EXCEPT !.env_unfused = TRUE], <<>>), Alike([PullFlow EXCEPT !.policy = "require fused"], <<>>),
   Alike([PullFlow EXCEPT !.policy = "force scan"], <<>>),
   Alike([PullFlow EXCEPT !.recv = 0, !.topk = 2, !.drop = FALSE], <<>>)}

MCFleets == LlFleets \cup HtFleets
Symmetry == Permutations(HandleNames)

-----------------------------------------------------------------------------
(* Kernels: a rank of a single team in count mode with tokens dropped, partly *)
(* dropped and not routed, more tokens to a pipeline than it has stages; and  *)
(* a rank of two teams in scan mode.                                          *)
Tok(routed, row, remotes) ==
  [routed |-> routed, row |-> row, remotes |-> remotes, real |-> TRUE]

Both    == Tok(TRUE, <<"a", "b">>, {})
OnlyA   == Tok(TRUE, <<"a", Empty>>, {})
Dropped == Tok(TRUE, <<Empty, Empty>>, {})
Idle    == Tok(FALSE, <<Empty, Empty>>, {})
Pad     == [Idle EXCEPT !.real = FALSE]

Counted == [count |-> TRUE, dup |-> FALSE, teams |-> 1, batch |-> 2, cap |-> 2, maxChunks |-> 2,
            units |-> <<<<OnlyA, Dropped>>, <<Both>>, <<Both, Pad>>>>]

(* Expert-major rows: two entries of one rank side by side. *)
Twice == Tok(TRUE, <<"a", "a", "b">>, {1})
Far   == Tok(FALSE, <<Empty, Empty, Empty>>, {1})
Theirs == Tok(TRUE, <<"b", Empty, Empty>>, {})
NotUs == Tok(FALSE, <<Empty, Empty, Empty>>, {})

Batched(batch) ==
  [count |-> FALSE, dup |-> TRUE, teams |-> 2, batch |-> batch, cap |-> 4, maxChunks |-> 2,
   units |-> <<<<Twice, Far>>, <<Theirs, NotUs, Theirs, Theirs>>>>]

MCLoads == {Counted, Batched(2), Batched(0)}

(* Rounds: one team of two ranks with two blocks each, two teams of one rank; *)
(* with the guard, operations of one kind in a row, without it alternating    *)
(* ones.                                                                      *)
InARow == <<"dispatch", "dispatch", "combine", "combine">>
Alternating == <<"dispatch", "combine", "dispatch", "combine">>

Group(teams, ranks, blocks, guard, program) ==
  [teams |-> teams, size |-> ranks, blocks |-> blocks, guard |-> guard,
   count |-> FALSE, dup |-> FALSE, program |-> program]

MCRoundSetups ==
  { [Group(1, 2, 2, TRUE, Append(InARow, "dispatch")) EXCEPT !.count = TRUE],
    [Group(1, 2, 2, FALSE, Alternating) EXCEPT !.dup = TRUE],
    Group(2, 1, 1, TRUE, InARow),
    Group(2, 1, 1, FALSE, Alternating) }

-----------------------------------------------------------------------------
(* Scan: each mode with two ranks of two experts and two blocks each; with    *)
(* room, with a capacity that cuts one rank or both short, under the drop     *)
(* policy and without; and two teams.                                         *)
Team(n, S) == {<<n, x[1], x[2]>> : x \in S}

(* Two tokens a rank; the first expert of rank 1 is popular. *)
Busy == << Team(1, {<<1, 1>>, <<2, 1>>}), Team(1, {<<1, 1>>, <<1, 2>>}),
           Team(1, {<<1, 1>>, <<2, 2>>}), Team(1, {<<1, 2>>, <<2, 2>>}) >>
Sparse == << Team(1, {<<2, 1>>}), {}, Team(1, {<<1, 2>>, <<2, 1>>}), Team(1, {<<2, 2>>}) >>
(* The token that is dropped is one of the first expert. *)
Late == << Team(1, {<<1, 2>>}), Team(1, {<<1, 2>>}), Team(1, {<<1, 1>>}), Team(1, {<<1, 1>>, <<2, 1>>}) >>
TwoTeams == << Team(1, {<<1, 1>>}), Team(2, {<<1, 1>>}) \cup Team(1, {<<1, 2>>}),
               Team(1, {<<1, 2>>}), Team(2, {<<1, 2>>}),
               Team(1, {<<2, 1>>}), Team(2, {<<2, 1>>}), {}, Team(1, {<<1, 1>>, <<2, 1>>}) >>

Setup(mode, tokens, cap, drop) ==
  [mode |-> mode, teams |-> 1, size |-> 2, epr |-> 2, tokens |-> tokens, blocks |-> 2,
   cap |-> cap, align |-> 2, drop |-> drop]

Across(mode, cap) == [Setup(mode, TwoTeams, cap, FALSE) EXCEPT !.teams = 2, !.blocks = 1]

MCScanSetups ==
  {Setup(m, k, c, TRUE) : m \in {"flat", "permute", "em", "count"}, k \in {Busy, Sparse, Late}, c \in {2, 3, 8}}
  \cup {Setup(m, Busy, c, FALSE) : m \in {"flat", "permute", "em", "count"}, c \in {3, 8}}
  \cup {Across(m, 8) : m \in {"flat", "permute", "em"}}

(* Pull: two ranks, two or three tokens each, chunks of one token; room for   *)
(* all, a capacity that leaves rows or slots out, a trap, and two handles     *)
(* that are dispatched before either is combined.                             *)
One == << << {<<1, 1>>, <<2, 1>>}, {<<1, 1>>, <<1, 2>>} >>, << {<<1, 2>>}, {<<1, 1>>, <<2, 2>>} >> >>
Two == << << {<<2, 2>>}, {} >>, << {<<1, 1>>, <<2, 1>>}, {<<1, 2>>} >> >>
(* The token without a slot has been counted for the first expert. *)
Lost == << << {<<1, 2>>}, {<<1, 2>>} >>, << {<<1, 1>>, <<2, 1>>}, {<<1, 1>>} >> >>

Flow(warps, major, routes, cap, drop, program) ==
  [expertMajor |-> major, routes |-> routes, epr |-> 2, chunk |-> 1, warps |-> warps, cap |-> cap, align |-> 2,
   drop |-> drop, program |-> program]

Once == << <<"forward", 1>>, <<"combine", 1>>, <<"combine", 1>> >>
Train == << <<"forward", 1>>, <<"combine", 1>>, <<"backward", 1>> >>
Overlap == << <<"forward", 1>>, <<"forward", 2>>, <<"combine", 1>>, <<"combine", 2>> >>
Again == << <<"forward", 1>>, <<"forward", 2>> >>

MCPullSetups ==
  { Flow(2, TRUE, <<One>>, 8, FALSE, Once), Flow(1, FALSE, <<One>>, 4, FALSE, Train),
    Flow(1, TRUE, <<Two>>, 4, FALSE, Train), Flow(1, FALSE, <<One, Two>>, 3, TRUE, Overlap),
    Flow(1, TRUE, <<One>>, 4, TRUE, Once), Flow(1, TRUE, <<One, Lost>>, 3, TRUE, Again),
    Flow(1, FALSE, <<One>>, 3, FALSE, Once) }
=============================================================================
