------------------------------ MODULE EpGroup -------------------------------
(***************************************************************************)
(* The life of an EP group on all its ranks: ncclEpCreateGroup, the RDMA   *)
(* buffer of low-latency handles, counted fabric transport (CFT) endpoints *)
(* and output binding, ncclEpGroupDestroy (src/nccl_ep/nccl_ep.cc,         *)
(* src/nccl_ep/nccl_ep_cft.cc).                                            *)
(*                                                                         *)
(* A rank issues NCCL collectives one after another and waits in each for  *)
(* its peers: the n-th of a rank completes when every rank has issued its  *)
(* n-th and it is the same one.  Between two of them a rank decides alone. *)
(* Facts that only one rank knows (its environment, its platform, whether  *)
(* an allocation failed) must therefore be put into a collective before    *)
(* any rank acts on them.                                                  *)
(***************************************************************************)
EXTENDS EpLayout, Sequences

CONSTANTS
  Fleets,        \* [team, of, program]: of[r] is the configuration of rank r
  MaxWarpGroups, \* kLlDispatchMaxWarpGroups
  MinQps         \* the contexts a group of several teams needs

VARIABLES
  fleet,   \* chosen once
  at,      \* the collective a rank is in, "start", "made" or how it ended
  log,     \* log[r]: the <<collective, what r gave to it>> of rank r in order
  held,    \* what of the group a rank has: windows, device communicator, endpoints
  next,    \* the call of program a low-latency rank makes next
  size,    \* rdma_buffer_size_alloc
  binding  \* the output bound for zero-copy CFT: [active, offset]

vars == <<fleet, at, log, held, next, size, binding>>

Ranks == DOMAIN fleet.of
Cfg(r) == fleet.of[r]
LOCAL N == Cardinality(Ranks)
LOCAL CeilDiv(a, b) == (a + b - 1) \div b
Unbound == [active |-> FALSE, offset |-> -1]

Init ==
  /\ fleet \in Fleets
  /\ at = [r \in Ranks |-> "start"] /\ log = [r \in Ranks |-> <<>>]
  /\ held = [r \in Ranks |-> {}] /\ next = [r \in Ranks |-> 1]
  /\ size = [r \in Ranks |-> 0] /\ binding = [r \in Ranks |-> Unbound]
-----------------------------------------------------------------------------
Post(r, collective, value) ==
  /\ log' = [log EXCEPT ![r] = Append(@, <<collective, value>>)]
  /\ at' = [at EXCEPT ![r] = collective]
End(r, how) == at' = [at EXCEPT ![r] = how] /\ UNCHANGED log

Entry(r, n) == log[r][n]
Leaves(r, collective) ==
  /\ at[r] = collective
  /\ \A s \in Ranks : Len(log[s]) >= Len(log[r]) /\ Entry(s, Len(log[r]))[1] = collective
Given(r, s) == Entry(s, Len(log[r]))[2]
Agree(r) == \A s \in Ranks : Given(r, s) = Given(r, 1)

Holds(r, what) == held' = [held EXCEPT ![r] = @ \cup what]
Drops(r, what) == held' = [held EXCEPT ![r] = @ \ what]

unbuilt == <<fleet, next, size, binding>>
-----------------------------------------------------------------------------
(* Checks of a rank's own configuration, before anything is created. *)
ConfigAccepted(c) ==
  /\ c.algo = "LL" => c.flow = "auto" /\ c.policy = "auto"
  /\ c.attn < N
  /\ c.attn > 0 => c.algo = "LL" /\ c.attn = N - c.attn /\ c.experts > N /\ c.experts % (N - c.attn) = 0
  /\ c.algo = "LL" => CeilDiv(c.experts, c.sms) <= MaxWarpGroups

CheckConfig(r) ==
  /\ at[r] = "start"
  /\ IF ConfigAccepted(Cfg(r)) THEN Post(r, "hosts", r) ELSE End(r, "refused")
  /\ UNCHANGED <<unbuilt, held>>

(* The receive budget: explicit, or the worst case (eager mode of HT). *)
Eager(c) == c.algo = "HT" /\ c.recv = 0
BudgetLegal(c) ==
  /\ c.algo = "HT" /\ c.recv # 0 => c.recv >= c.tokens
  /\ c.topk <= c.experts /\ (Eager(c) => ~c.drop)
Budget(c) ==
  IF c.recv # 0 THEN c.recv
  ELSE N * c.tokens * (IF c.algo = "HT" /\ c.topk > 0 THEN c.topk ELSE 1)

GatherHosts(r) ==
  /\ Leaves(r, "hosts")
  /\ IF BudgetLegal(Cfg(r)) THEN Post(r, "budget", Budget(Cfg(r))) ELSE End(r, "refused")
  /\ UNCHANGED <<unbuilt, held>>
-----------------------------------------------------------------------------
(* The HT flow: the public setting, then the environment, then pull-push where it is *)
(* supported.                                                                        *)
Teams == N \div fleet.team
WantsPull(c) ==
  \/ c.flow = "pull"
  \/ c.flow = "auto" /\ IF c.env_pull # "unset" THEN c.env_pull = "on"
                        ELSE Teams = 1 /\ c.topk \in 1 .. MaxTopk /\ c.experts <= MaxExperts /\ c.env_dup = "none"
WantsDup(c, which) == c.flow # "pull" /\ c.env_dup \in {which, "both"}

Mode(c) ==
  IF WantsDup(c, "nvlink") THEN NvlinkDup
  ELSE IF WantsDup(c, "local") THEN LocalDup
  ELSE IF WantsPull(c) THEN PullPush
  ELSE IF c.zero_copy THEN (IF Teams > 1 THEN NvlinkDup ELSE LocalDup)
  ELSE Permute

FlowAccepted(c) ==
  /\ ~(WantsDup(c, "local") /\ WantsDup(c, "nvlink"))
  /\ ~(c.flow = "auto" /\ WantsPull(c) /\ (WantsDup(c, "local") \/ WantsDup(c, "nvlink")))
  /\ Mode(c) = PullPush => Teams = 1

GroupOf(r) ==
  LET c == Cfg(r) IN
  [mode |-> Mode(c), teams |-> Teams, team |-> fleet.team, tokens |-> c.tokens, recv |-> Budget(c),
   topk |-> c.topk, experts |-> c.experts, eager |-> Eager(c), drop |-> c.drop, zero_copy |-> c.zero_copy,
   policy |-> c.policy, scan |-> c.env_scan, unfused |-> c.env_unfused]

(* Peers find the inboxes of a rank at an offset that follows from this. *)
HasInbox(r) == \E l \in Layouts : PullCount(GroupOf(r), l)

(* Buffers peers address must have the same size everywhere. *)
AgreeBudget(r) ==
  /\ Leaves(r, "budget")
  /\ IF ~Agree(r) \/ (Cfg(r).algo = "HT" /\ ~FlowAccepted(Cfg(r))) THEN End(r, "refused")
     ELSE IF Cfg(r).algo = "HT" THEN Post(r, "pull count", HasInbox(r)) ELSE Post(r, "devcomm", 0)
  /\ UNCHANGED <<unbuilt, held>>

(* Faulty variant: the inbox is laid out as this rank sees it. *)
TrustPullCount(r) ==
  /\ Leaves(r, "pull count") /\ Post(r, "mega window", 0)
  /\ UNCHANGED <<unbuilt, held>>

(* HT: two symmetric windows, a device communicator and, across teams, a GIN window. *)
AgreePullCount(r) ==
  /\ Leaves(r, "pull count")
  /\ IF Agree(r) THEN Post(r, "mega window", 0) ELSE End(r, "refused")
  /\ UNCHANGED <<unbuilt, held>>

RegisterMega(r) ==
  /\ Leaves(r, "mega window") /\ Holds(r, {"mega window"})
  /\ Post(r, "flags window", 0) /\ UNCHANGED unbuilt

RailAccepted(c) == Teams = 1 \/ c.qps = 0 \/ c.qps >= MinQps
RegisterFlags(r) ==
  /\ Leaves(r, "flags window") /\ Holds(r, {"flags window"})
  /\ IF RailAccepted(Cfg(r)) THEN Post(r, "devcomm", 0) ELSE End(r, "refused")
  /\ UNCHANGED unbuilt

ConnectHt(r) ==
  /\ Leaves(r, "devcomm") /\ Cfg(r).algo = "HT" /\ Holds(r, {"devcomm"})
  /\ IF Teams > 1 THEN Post(r, "gin window", 0) ELSE End(r, "made")
  /\ UNCHANGED unbuilt

RegisterGin(r) ==
  /\ Leaves(r, "gin window") /\ Holds(r, {"gin window"}) /\ End(r, "made")
  /\ UNCHANGED unbuilt
-----------------------------------------------------------------------------
(* LL: after the device communicator, one vote on what must be alike. *)
ConnectLl(r) ==
  /\ Leaves(r, "devcomm") /\ Cfg(r).algo = "LL" /\ Holds(r, {"devcomm"})
  /\ LET c == Cfg(r)
     IN Post(r, "vote", [attn |-> c.attn, cft |-> c.cft, mask |-> c.mask, zero_copy |-> c.zero_copy, facts |-> c.facts])
  /\ UNCHANGED unbuilt

(* One verdict over the same facts on every rank. *)
VoteAccepted(r) ==
  LET vote(s) == Given(r, s) IN
  /\ \A s \in Ranks : vote(s).attn = vote(1).attn /\ vote(s).cft = vote(1).cft
  /\ vote(1).cft =>
       /\ \A s \in Ranks : vote(s).zero_copy = vote(1).zero_copy /\ vote(s).facts /\ ~vote(s).mask
       /\ Cfg(r).attn = 0 /\ Teams = 1

(* Reject and destroy: everything is torn down between collectives. *)
Destroy(r) == Post(r, "barrier", 0)
Made(r) == End(r, "made") /\ UNCHANGED held

(* The fabric endpoint of a rank: created, bound and exported, or not. *)
BuildEndpoint(r) ==
  \E ok \in BOOLEAN :
    /\ Post(r, "handles", ok) /\ Holds(r, IF ok THEN {"endpoint"} ELSE {})

AfterBuffer(r) == IF Cfg(r).cft THEN BuildEndpoint(r) ELSE Made(r)
AfterMask(r) ==
  IF Cfg(r).rdma # 0 THEN Post(r, "register", Cfg(r).rdma) /\ UNCHANGED held ELSE AfterBuffer(r)
AfterVote(r) ==
  IF Cfg(r).mask THEN Post(r, "mask window", 0) /\ UNCHANGED held ELSE AfterMask(r)

Vote(r) ==
  /\ Leaves(r, "vote")
  /\ IF VoteAccepted(r) THEN AfterVote(r) ELSE Destroy(r) /\ UNCHANGED held
  /\ UNCHANGED unbuilt

RegisterMask(r) ==
  /\ Leaves(r, "mask window") /\ Holds(r, {"mask window"})
  /\ IF Cfg(r).rdma # 0
     THEN Post(r, "register", Cfg(r).rdma) ELSE End(r, "made")
  /\ UNCHANGED unbuilt

(* Imports of the peers that exported; a rank that failed has joined the gather all the same. *)
Imported(r) == \A s \in Ranks : Given(r, s)
ImportEndpoints(r) ==
  /\ Leaves(r, "handles")
  /\ \E ok \in BOOLEAN :
       /\ ok => Imported(r)
       /\ Holds(r, IF Given(r, r) THEN {"imports"} ELSE {})
       /\ Post(r, "status", ok)
  /\ UNCHANGED unbuilt

(* Faulty variant: a rank goes by its own endpoint. *)
SelfReady(r) == Given(r, r)

(* All of them or none. *)
AllReady(r) == \A s \in Ranks : Given(r, s)

DestroyEndpoint(r) == Drops(r, {"endpoint", "imports", "binding"})

CftStatus(r) ==
  /\ Leaves(r, "status")
  /\ IF AllReady(r) THEN Made(r) ELSE DestroyEndpoint(r) /\ Destroy(r)
  /\ UNCHANGED unbuilt
-----------------------------------------------------------------------------
(* Calls of a low-latency group.                                            *)
Calls(r) == fleet.program
Call(r) == Calls(r)[next[r]]
Ready(r, kind) == at[r] = "made" /\ Cfg(r).algo = "LL" /\ next[r] <= Len(Calls(r)) /\ Call(r).kind = kind
Returns(r) == next' = [next EXCEPT ![r] = @ + 1]

(* validate_ll_geometry, then a buffer that is large enough: an explicit size is *)
(* never grown, an automatic one is allocated or replaced.                       *)
GeometryAccepted(c, k) ==
  LET groups == CeilDiv(c.experts, c.sms)
  IN k \in 1 .. c.experts /\ k <= MaxTopk /\ groups <= MaxWarpGroups /\ groups * (32 \div groups) >= k + 2

Grows(r) == Call(r).bytes > size[r] /\ Cfg(r).rdma = 0
InitLlHandle(r) ==
  /\ Ready(r, "handle")
  /\ IF GeometryAccepted(Cfg(r), Call(r).k) /\ Grows(r)
     THEN IF size[r] = 0 THEN Post(r, "register", Call(r).bytes) ELSE Post(r, "grow barrier", 0)
     ELSE End(r, "made")
  /\ IF GeometryAccepted(Cfg(r), Call(r).k) /\ Grows(r) THEN UNCHANGED next ELSE Returns(r)
  /\ UNCHANGED <<fleet, held, size, binding>>

GrowBarrier(r) ==
  /\ Leaves(r, "grow barrier") /\ Post(r, "unregister", 0)
  /\ UNCHANGED <<unbuilt, held>>

Unregister(r) ==
  /\ Leaves(r, "unregister") /\ Drops(r, {"buffer window"}) /\ Post(r, "register", Call(r).bytes)
  /\ UNCHANGED unbuilt

(* ll_resize_rdma_buffer ends: at group creation setup goes on, in InitHandle the call returns. *)
Creating(r) == Cfg(r).rdma # 0
RegisterBuffer(r) ==
  /\ Leaves(r, "register")
  /\ size' = [size EXCEPT ![r] = Given(r, r)]
  /\ IF Creating(r) /\ Cfg(r).cft
     THEN \E ok \in BOOLEAN : /\ Post(r, "handles", ok)
                              /\ Holds(r, {"buffer window"} \cup (IF ok THEN {"endpoint"} ELSE {}))
     ELSE End(r, "made") /\ Holds(r, {"buffer window"})
  /\ IF Creating(r) THEN UNCHANGED next ELSE Returns(r)
  /\ UNCHANGED <<fleet, binding>>

(* The first dispatch of a zero-copy CFT group binds the output into the endpoint; *)
(* later ones must bring the same output.                                          *)
WantsBinding(r) == Cfg(r).cft /\ Cfg(r).zero_copy
Output(r) == Call(r).outputs[r]

(* An output that is not backed by a window, or that the driver does not bind, has offset -1. *)
BindLocally(r) ==
  \E ok \in BOOLEAN :
    /\ Post(r, "bind", IF ok /\ Output(r) >= 0 /\ "binding" \notin held[r] THEN Output(r) ELSE -1)
    /\ Holds(r, IF ok /\ Output(r) >= 0 THEN {"binding"} ELSE {})

Dispatch(r) ==
  /\ Ready(r, "dispatch") /\ WantsBinding(r) /\ ~binding[r].active
  /\ BindLocally(r) /\ UNCHANGED unbuilt

DispatchAgain(r) ==
  /\ Ready(r, "dispatch") /\ (WantsBinding(r) => binding[r].active)
  /\ Returns(r) /\ UNCHANGED <<fleet, at, log, held, size, binding>>

(* Faulty variant: the offsets are not compared. *)
BindingReady(r) == \A s \in Ranks : Given(r, s) >= 0

BindingAgreed(r) == Agree(r) /\ Given(r, 1) >= 0

(* The unbinding of a rollback may itself fail and is left for the destruction. *)
BindOutput(r) ==
  /\ Leaves(r, "bind")
  /\ binding' = [binding EXCEPT ![r] =
       IF BindingAgreed(r) THEN [active |-> TRUE, offset |-> Given(r, r)] ELSE Unbound]
  /\ End(r, "made") /\ Returns(r)
  /\ \/ BindingAgreed(r) /\ UNCHANGED held
     \/ ~BindingAgreed(r) /\ Drops(r, {"binding"})
     \/ ~BindingAgreed(r) /\ UNCHANGED held
  /\ UNCHANGED <<fleet, size>>
-----------------------------------------------------------------------------
(* ncclEpGroupDestroy of a low-latency group; a rejected one ends the same way. *)
DestroyLl(r) ==
  /\ at[r] = "made" /\ Cfg(r).algo = "LL" /\ next[r] > Len(Calls(r))
  /\ Destroy(r) /\ UNCHANGED <<unbuilt, held>>

TearDown(r, windows) ==
  IF "buffer window" \in windows THEN Post(r, "unregister buffer", 0)
  ELSE IF "mask window" \in windows THEN Post(r, "unregister mask", 0) ELSE Post(r, "destroy devcomm", 0)

LeaveBarrier(r) ==
  /\ Leaves(r, "barrier") /\ DestroyEndpoint(r)
  /\ binding' = [binding EXCEPT ![r] = Unbound]
  /\ TearDown(r, held[r]) /\ UNCHANGED <<fleet, next, size>>

UnregisterBuffer(r) ==
  /\ Leaves(r, "unregister buffer") /\ Drops(r, {"buffer window"})
  /\ size' = [size EXCEPT ![r] = 0]
  /\ TearDown(r, held[r] \ {"buffer window"}) /\ UNCHANGED <<fleet, next, binding>>

UnregisterMask(r) ==
  /\ Leaves(r, "unregister mask") /\ Drops(r, {"mask window"})
  /\ TearDown(r, {}) /\ UNCHANGED unbuilt

DestroyDevComm(r) ==
  /\ Leaves(r, "destroy devcomm") /\ Drops(r, {"devcomm"})
  /\ End(r, "gone") /\ UNCHANGED unbuilt

(* HT groups: their windows, then the device communicator and the GIN window. *)
DestroyHt(r) ==
  /\ at[r] = "made" /\ Cfg(r).algo = "HT"
  /\ Post(r, "unregister mega", 0) /\ UNCHANGED <<unbuilt, held>>

UnregisterMega(r) ==
  /\ Leaves(r, "unregister mega") /\ Drops(r, {"mega window"})
  /\ Post(r, "unregister flags", 0) /\ UNCHANGED unbuilt

UnregisterFlags(r) ==
  /\ Leaves(r, "unregister flags") /\ Drops(r, {"flags window"})
  /\ Post(r, "disconnect", 0) /\ UNCHANGED unbuilt

DisconnectHt(r) ==
  /\ Leaves(r, "disconnect") /\ Drops(r, {"devcomm"})
  /\ IF Teams > 1 THEN Post(r, "unregister gin", 0) ELSE End(r, "gone")
  /\ UNCHANGED unbuilt

UnregisterGin(r) ==
  /\ Leaves(r, "unregister gin") /\ Drops(r, {"gin window"}) /\ End(r, "gone")
  /\ UNCHANGED unbuilt
-----------------------------------------------------------------------------
Create(r) ==
  \/ CheckConfig(r) \/ GatherHosts(r) \/ AgreeBudget(r)
  \/ AgreePullCount(r) \/ RegisterMega(r) \/ RegisterFlags(r) \/ ConnectHt(r) \/ RegisterGin(r)
  \/ ConnectLl(r) \/ Vote(r) \/ RegisterMask(r) \/ ImportEndpoints(r) \/ CftStatus(r)
Use(r) ==
  \/ InitLlHandle(r) \/ GrowBarrier(r) \/ Unregister(r) \/ RegisterBuffer(r)
  \/ Dispatch(r) \/ DispatchAgain(r) \/ BindOutput(r)
Leave(r) ==
  \/ DestroyLl(r) \/ LeaveBarrier(r) \/ UnregisterBuffer(r) \/ UnregisterMask(r) \/ DestroyDevComm(r)
  \/ UnregisterMega(r) \/ UnregisterFlags(r) \/ DisconnectHt(r) \/ UnregisterGin(r)

Next == \E r \in Ranks : Create(r) \/ Use(r) \/ Leave(r) \/ DestroyHt(r)
Spec == Init /\ [][Next]_vars
-----------------------------------------------------------------------------
Ended(r) == at[r] \in {"refused", "gone"}

(* No rank waits in a collective that a peer never issues: ranks issue the same *)
(* ones in the same order, and one that has returned has left nobody behind.    *)
NobodyStranded ==
  \A r, s \in Ranks :
    /\ \A n \in DOMAIN log[r] \cap DOMAIN log[s] : Entry(r, n)[1] = Entry(s, n)[1]
    /\ Ended(s) => Len(log[r]) <= Len(log[s])

(* Ranks that have the group have it with every peer, with inboxes at one offset. *)
SameGroup ==
  \A r, s \in Ranks :
    at[r] = "made" =>
      /\ at[s] # "refused"
      /\ Cfg(r).algo = "HT" => HasInbox(r) = HasInbox(s) /\ GroupOf(r).recv = GroupOf(s).recv
      /\ Cfg(r).cft => {"endpoint", "imports"} \subseteq held[s]

(* A rank that sends straight to the outputs of its peers finds them bound at its offset. *)
OutputsBound ==
  \A r, s \in Ranks :
    binding[r].active /\ at[r] = "made" /\ at[s] \in {"bind", "made"} =>
      /\ "binding" \in held[s]
      /\ binding[s].active => binding[s].offset = binding[r].offset

=============================================================================
