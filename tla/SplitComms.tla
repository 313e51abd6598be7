------------------------------ MODULE SplitComms ------------------------------
(***************************************************************************)
(* The split communicators of a ring reshard                               *)
(* (src/nccl_m2n/src/reshard_split_comm.cu, reshard_pipe_resources.h).     *)
(*                                                                         *)
(* A call on a parent communicator is collective: every rank of it forms,  *)
(* or finds in its own process-wide tables, commB (all the generators, one *)
(* communicator shared by the parents with the same ordered generators)    *)
(* and commA (the sources and the first K generator domains).  What a rank *)
(* may do next depends on its own tables, so the code votes before each    *)
(* choice.  The tables live as long as the rank's runtime: a rank whose    *)
(* last handle is finalized starts again with empty ones.                  *)
(*                                                                         *)
(* One host thread per rank (the contract at reshard_split_comm.cu:199).   *)
(***************************************************************************)
EXTENDS Integers, FiniteSets, Sequences, SequencesExt

CONSTANTS
  Processes,  \* the ranks of the job
  Plans,      \* histories the callers may follow: sequences of steps
  Packs,      \* whether the copy algorithm may be PACK (TRUE), PIPE (FALSE)
  Lanes,      \* reshardGetSplitSlotCount: resource lanes of one commB
  Capacity,   \* gReshardPipeCommBParentCapacity: namespaces of one commB
  MaxEntries, \* kMaxSplitCommEntries
  LsaSize     \* generators of one NVLink domain

(* A step: [op |-> "call", parent, srcs, gens, k, lane], a parent             *)
(* communicator, its sources and generators in rank order, the injection      *)
(* domains it needs, and the staging slot each rank is on; or                 *)
(* [op |-> "finalize", ranks], ranks that finalize their last handle and      *)
(* initialize a new one.                                                      *)

VARIABLES
  plan,    \* the history being followed
  pack,    \* the copy algorithm of every rank is PACK
  at,      \* each rank's step of it
  pc,      \* "idle", or the collective the rank is in or just left
  ask,     \* what it contributes to that collective
  got,     \* what the collective gave it: <<>> while it waits
  here,    \* the locals of ensureCommBShared and ensureCommA
  shared,  \* gCommBShared: commB per parent and geometry, owners and aliases
  known,   \* gCommBParent: parents and geometries set up, with their entry of shared
  commAs,  \* gCommACache
  minted,  \* ghost: communicators NCCL has created
  said,    \* ghost: what each collective of each step gave its members
  result,  \* ghost: what each step's call returned to each rank
  lane,    \* kernels submitted on each commB lane of a rank and not finished
  ran      \* ghost: <<rank, step>> kernels that have finished

callVars == <<plan, pack, at, pc, ask, got, here>>
tableVars == <<shared, known, commAs>>
splitVars == <<callVars, tableVars, minted, said, result, lane, ran>>

(* The collectives of a call, in the order in which ensureCommBShared and     *)
(* ensureCommA come to them.                                                  *)
Kinds == {"fullParents", "lanes", "pool", "fullB", "splitB", "lsa", "namespace",
          "fullA", "splitA", "srcLsa"}

Steps == DOMAIN plan
Members(s) == Range(s.srcs) \cup Range(s.gens)
Involved(s) == IF s.op = "call" THEN Members(s) ELSE s.ranks
MySteps(r) == {i \in Steps : r \in Involved(plan[i])}
Ahead(r) == {i \in MySteps(r) : i > at[r]}
NextStep(r) == CHOOSE i \in Ahead(r) : \A j \in Ahead(r) : i <= j
MyCall(r) == plan[at[r]]
Geometry(s) == <<s.parent, s.srcs, s.gens>>
IsGen(r) == r \in Range(MyCall(r).gens)
IsSrc(r) == r \in Range(MyCall(r).srcs)
RankInB(r) == CHOOSE n \in DOMAIN MyCall(r).gens : MyCall(r).gens[n] = r

(* What the callers keep to.  Every rank of a parent makes each call on it    *)
(* ("MUST be called collectively by every parent-comm rank",                  *)
(* reshard_split_comm.cu:539), and the ranks of a parent that is used again   *)
(* start again together or not at all: each rank looks the parent up in its   *)
(* own table before any vote, so one that has forgotten it waits in a vote    *)
(* that the others do not come to (:983-993).                                 *)
SplitAssumption ==
  /\ Packs \subseteq BOOLEAN
  /\ \A p \in Plans :
       /\ p = [i \in 1 .. Len(p) |-> p[i]] /\ Len(p) \in Nat
       /\ \A i \in DOMAIN p :
            \/ p[i].op = "finalize" /\ p[i].ranks \subseteq Processes
            \/ /\ p[i].op = "call" /\ Members(p[i]) \subseteq Processes
               /\ 1 \in DOMAIN p[i].gens /\ p[i].k \in Nat
       /\ \A i, j \in DOMAIN p :
            (p[i].op = "call" /\ p[j].op = "call" /\ p[i].parent = p[j].parent) =>
              /\ Members(p[i]) = Members(p[j])
              /\ \A f \in i .. j :
                   (p[f].op = "finalize" /\ Members(p[i]) \cap p[f].ranks # {}) =>
                     Members(p[i]) \subseteq p[f].ranks

Nothing == [lane |-> -1, reuse |-> FALSE, commB |-> 0, owner |-> 0, lsa |-> 0,
            ns |-> -1, srcLsa |-> 0, commA |-> 0]
NoResult == [verdict |-> "none"]
Overlap(s) == Range(s.srcs) \cap Range(s.gens) # {}

(* Faulty variant: the pool is not searched for the parent, and wraps.        *)
ProposeNext(pool, parent) == Len(pool) % Capacity

(* ReshardPipeNamespacePool::propose: a known parent keeps its namespace, a   *)
(* new one gets the next; -1 when none is left.                               *)
Propose(pool, parent) ==
  LET mine == {n \in DOMAIN pool : pool[n] = parent}
      id == IF mine # {} THEN CHOOSE n \in mine : TRUE ELSE Len(pool) + 1
  IN  IF id <= Capacity THEN id - 1 ELSE -1

(* reshardPipeResourceLane *)
NamespaceLane(ns) == IF ns >= 0 THEN ns % Lanes ELSE -1

-----------------------------------------------------------------------------
(* The tables *)

(* findCommBShared: 0 when absent. *)
FindShared(r, s) == SelectInSeq(shared[r], LAMBDA e : e.geometry = Geometry(s))

(* findCommBPoolOwner: the first owner of the same ordered generators.  The   *)
(* fingerprint is taken for the group itself.                                 *)
FindOwner(r, s) ==
  SelectInSeq(shared[r], LAMBDA e : e.owns /\ e.geometry[3] = s.gens)

FindKnown(r, s) == SelectInSeq(known[r], LAMBDA e : e.geometry = Geometry(s))

(* The entry whose commB this rank could use again, 0 if none. *)
Reusable(r, s) ==
  IF FindShared(r, s) # 0 THEN FindShared(r, s)
  ELSE IF r \in Range(s.gens) THEN FindOwner(r, s) ELSE 0

(* findCommA: the smallest cached K that suffices. *)
CommAFor(r, s) ==
  {i \in DOMAIN commAs[r] : commAs[r][i].geometry = Geometry(s) /\ commAs[r][i].k >= s.k}
FindCommA(r, s) ==
  CHOOSE i \in CommAFor(r, s) : \A j \in CommAFor(r, s) : commAs[r][i].k <= commAs[r][j].k

InA(r, s) == \/ r \in Range(s.srcs)
             \/ r \in {s.gens[n] : n \in {m \in DOMAIN s.gens : m <= s.k * LsaSize}}

-----------------------------------------------------------------------------
SplitInit ==
  /\ plan \in Plans /\ pack \in Packs
  /\ at = [r \in Processes |-> 0] /\ pc = [r \in Processes |-> "idle"]
  /\ ask = [r \in Processes |-> <<>>] /\ got = [r \in Processes |-> <<>>]
  /\ here = [r \in Processes |-> Nothing]
  /\ shared = [r \in Processes |-> <<>>] /\ known = [r \in Processes |-> <<>>]
  /\ commAs = [r \in Processes |-> <<>>]
  /\ minted = 0 /\ said = [i \in Steps |-> [kind \in Kinds |-> <<>>]]
  /\ result = [r \in Processes |-> [i \in Steps |-> NoResult]]
  /\ lane = [r \in Processes |-> <<>>]
  /\ ran = {}

(* The rank enters the next collective of its call with a value.              *)
Enter(r, kind, value) ==
  /\ pc' = [pc EXCEPT ![r] = kind]
  /\ ask' = [ask EXCEPT ![r] = value]
  /\ got' = [got EXCEPT ![r] = <<>>]

Return(r, i, res) ==
  /\ pc' = [pc EXCEPT ![r] = "idle"]
  /\ ask' = [ask EXCEPT ![r] = <<>>] /\ got' = [got EXCEPT ![r] = <<>>]
  /\ here' = [here EXCEPT ![r] = Nothing]
  /\ result' = [result EXCEPT ![r][i] = res]

Parent == [verdict |-> "parent"]     \* inactive: the reshard runs on the parent DevComm
Failed == [verdict |-> "failed"]

(* gatherSplitMetadata, broadcastMaxInt and ncclCommSplit complete when every *)
(* rank of the parent has entered the same one; a split mints a communicator. *)
Mints(kind) == kind \in {"splitB", "splitA"}
Waiting(r, parent, kind) ==
  pc[r] = kind /\ got[r] = <<>> /\ MyCall(r).parent = parent
Meet(i, kind) ==
  LET ms == Members(plan[i])
      heard == <<[m \in ms |-> ask[m]], minted + 1>>
  IN
  /\ plan[i].op = "call" /\ \E r \in ms : at[r] = i
  /\ \A r \in ms : Waiting(r, plan[i].parent, kind)
  /\ got' = [r \in Processes |-> IF r \in ms THEN heard ELSE got[r]]
  /\ said' = [said EXCEPT ![i][kind] = heard]
  /\ minted' = IF Mints(kind) THEN minted + 1 ELSE minted
  /\ UNCHANGED <<plan, pack, at, pc, ask, here, tableVars, result, lane, ran>>
Heard(r) == got[r][1]
Fresh(r) == got[r][2]
(* Faulty variant: each rank keeps the value it brought. *)
MaxHeardOwn(r) == Heard(r)[r]
MaxHeard(r) == CHOOSE x \in {Heard(r)[m] : m \in DOMAIN Heard(r)} :
                 \A m \in DOMAIN Heard(r) : x >= Heard(r)[m]
After(r, kind) == pc[r] = kind /\ got[r] # <<>>

-----------------------------------------------------------------------------
(* reshardGetOrCreateSplitComms: the parent's own entry decides whether commB *)
(* is looked for at all.                                                      *)

(* commA for this call: cached, or voted on and formed (ensureCommA). *)
Active(r, s, b, a) ==
  [verdict |-> "split", commB |-> b.commB, lsa |-> b.lsa, lane |-> b.lane, ns |-> b.ns,
   commA |-> a.commA, inA |-> a.inA, srcLsa |-> a.srcLsa, domains |-> a.k]

(* The kernels of one lane of an owner's commB follow each other on the       *)
(* device (reshardSplitPrepareCommBResourceLane waits for the lane's          *)
(* completion event, RecordCommBResourceLane records it).                     *)
Submit(r, i, b) ==
  lane' = IF ~pack /\ r \in Range(plan[i].gens)
            THEN [lane EXCEPT ![r] = Append(@, [step |-> i, on |-> <<b.owner, b.lane>>])]
            ELSE lane

(* The locals of a call that has the commB entry b.                           *)
Found(h, b) ==
  [h EXCEPT !.commB = b.commB, !.lsa = b.lsa, !.lane = b.lane, !.ns = b.ns, !.owner = b.owner]
StartA(r, i, b) ==
  IF CommAFor(r, plan[i]) # {}
    THEN /\ Return(r, i, Active(r, plan[i], b, commAs[r][FindCommA(r, plan[i])]))
         /\ Submit(r, i, b)
    ELSE /\ Enter(r, "fullA", IF Len(commAs[r]) >= MaxEntries THEN 1 ELSE 0)
         /\ here' = [here EXCEPT ![r] = Found(here[r], b)]
         /\ UNCHANGED <<result, lane>>

StartCall(r) ==
  LET i == NextStep(r)
      s == plan[i]
  IN
  /\ pc[r] = "idle" /\ Ahead(r) # {} /\ s.op = "call"
  /\ at' = [at EXCEPT ![r] = i]
  /\ IF Overlap(s)
       THEN Return(r, i, Parent) /\ UNCHANGED lane
       ELSE IF FindKnown(r, s) # 0
              THEN StartA(r, i, shared[r][FindShared(r, s)])
              ELSE /\ Enter(r, "fullParents", IF Len(known[r]) >= MaxEntries THEN 1 ELSE 0)
                   /\ UNCHANGED <<here, result, lane>>
  /\ UNCHANGED <<plan, pack, tableVars, minted, said, ran>>

(* The last handle of the rank is finalized with all its work complete        *)
(* (reshardSplitSynchronizeCommBLanes, reshardSplitCommFinalize).             *)
Restart(r) ==
  /\ pc[r] = "idle" /\ Ahead(r) # {} /\ plan[NextStep(r)].op = "finalize"
  /\ lane[r] = <<>>
  /\ at' = [at EXCEPT ![r] = NextStep(r)]
  /\ shared' = [shared EXCEPT ![r] = <<>>] /\ known' = [known EXCEPT ![r] = <<>>]
  /\ commAs' = [commAs EXCEPT ![r] = <<>>]
  /\ UNCHANGED <<plan, pack, pc, ask, got, here, minted, said, result, lane, ran>>

-----------------------------------------------------------------------------
(* ensureCommBShared *)

Fail(r) == Return(r, at[r], Failed) /\ UNCHANGED lane
Stay == UNCHANGED <<plan, pack, at, tableVars, minted, said, ran>>

ParentsVoted(r) ==
  /\ After(r, "fullParents")
  /\ IF MaxHeard(r) = 1
       THEN Fail(r)
       ELSE /\ Enter(r, "lanes", IF pack THEN MyCall(r).lane[r] ELSE -1)
            /\ UNCHANGED <<here, result, lane>>
  /\ Stay

(* Faulty variant: each rank trusts its own slot. *)
OneLaneHere(r) == ~pack \/ Heard(r)[r] \in 0 .. Lanes - 1

(* deriveCommBPoolKey: the generators must be on one valid lane. *)
OneLane(r) ==
  LET lanes == {Heard(r)[g] : g \in Range(MyCall(r).gens)}
  IN  ~pack \/ (Cardinality(lanes) = 1 /\ lanes \subseteq 0 .. Lanes - 1)

LanesHeard(r) ==
  /\ After(r, "lanes")
  /\ IF ~OneLane(r)
       THEN Return(r, at[r], Parent)
       ELSE /\ Enter(r, "pool", [has |-> IsGen(r) /\ Reusable(r, MyCall(r)) # 0,
                                 missing |-> IsGen(r) /\ Reusable(r, MyCall(r)) = 0])
            /\ here' = [here EXCEPT ![r].lane =
                          IF pack THEN Heard(r)[MyCall(r).gens[1]] ELSE -1]
            /\ UNCHANGED result
  /\ UNCHANGED lane /\ Stay

Has(r) == \E m \in DOMAIN Heard(r) : Heard(r)[m].has
Missing(r) == \E m \in DOMAIN Heard(r) : Heard(r)[m].missing
(* Faulty variant: a partial hit is taken for a miss. *)
PartialIsMiss(r) == FALSE
Partial(r) == Has(r) /\ Missing(r)

PoolVoted(r) ==
  /\ After(r, "pool")
  /\ IF Partial(r)
       THEN Return(r, at[r], Parent)
       ELSE /\ Enter(r, "fullB",
                     IF FindShared(r, MyCall(r)) = 0 /\ Len(shared[r]) >= MaxEntries THEN 1 ELSE 0)
            /\ here' = [here EXCEPT ![r].reuse = Has(r) /\ ~Missing(r)]
            /\ UNCHANGED result
  /\ UNCHANGED lane /\ Stay

(* The locals of a generator on commB, which the entry owner keeps.           *)
OnB(h, commB, owner) == [h EXCEPT !.commB = commB, !.owner = owner]

SharedVoted(r) ==
  LET e == shared[r][Reusable(r, MyCall(r))] IN
  /\ After(r, "fullB")
  /\ IF MaxHeard(r) = 1
       THEN Fail(r)
       ELSE IF here[r].reuse
              THEN /\ Enter(r, "lsa", IF IsGen(r) THEN e.lsa ELSE 0)
                   /\ here' = IF IsGen(r) THEN [here EXCEPT ![r] = OnB(here[r], e.commB, e.owner)]
                                          ELSE here
                   /\ UNCHANGED <<result, lane>>
              ELSE Enter(r, "splitB", 0) /\ UNCHANGED <<here, result, lane>>
  /\ Stay

(* ncclCommSplit gives the generators commB; its probe DevComm tells the      *)
(* domain size.  The owner is the entry about to be stored.                   *)
CommBSplit(r) ==
  /\ After(r, "splitB")
  /\ Enter(r, "lsa", IF IsGen(r) THEN LsaSize ELSE 0)
  /\ here' = IF IsGen(r) THEN [here EXCEPT ![r] = OnB(here[r], Fresh(r), Len(shared[r]) + 1)]
                         ELSE here
  /\ UNCHANGED <<result, lane>> /\ Stay

Entry(r, ns, on, lsa) ==
  [geometry |-> Geometry(MyCall(r)), commB |-> here[r].commB, lsa |-> lsa, lane |-> on, ns |-> ns,
   owner |-> here[r].owner, owns |-> IsGen(r) /\ ~here[r].reuse, pool |-> <<>>]

(* The entry is stored, its owner's pool commits the namespace, the parent is *)
(* known from now on, and the call goes on to commA.                          *)
Commit(pool, parent, ns) == IF ns = Len(pool) THEN Append(pool, parent) ELSE pool
Store(r, ns, on, lsa) ==
  LET e == Entry(r, ns, on, lsa)
      all == Append(shared[r], e)
  IN
  /\ shared' = [shared EXCEPT ![r] =
       IF IsGen(r) /\ ns >= 0
         THEN [all EXCEPT ![here[r].owner].pool = Commit(@, MyCall(r).parent, ns)]
         ELSE all]
  /\ known' = [known EXCEPT ![r] = Append(@, [geometry |-> Geometry(MyCall(r))])]
  /\ StartA(r, at[r], e)
  /\ UNCHANGED <<plan, pack, at, commAs, minted, said, ran>>

LsaHeard(r) ==
  /\ After(r, "lsa") /\ pack
  /\ Store(r, -1, here[r].lane, MaxHeard(r))

Proposal(r) ==
  IF ~IsGen(r) THEN -1
  ELSE Propose(IF here[r].reuse THEN shared[r][here[r].owner].pool ELSE <<>>, MyCall(r).parent)
LsaHeardPipe(r) ==
  /\ After(r, "lsa") /\ ~pack
  /\ Enter(r, "namespace", Proposal(r))
  /\ here' = [here EXCEPT ![r].lsa = MaxHeard(r)]
  /\ UNCHANGED <<result, lane>> /\ Stay

(* Every rank sees every proposal: all the generators' must be one namespace. *)
NamespacesHeard(r) ==
  LET agreed == Heard(r)[MyCall(r).gens[1]] IN
  /\ After(r, "namespace")
  /\ IF agreed >= 0 /\ \A g \in Range(MyCall(r).gens) : Heard(r)[g] = agreed
       THEN Store(r, agreed, NamespaceLane(agreed), here[r].lsa)
       ELSE Fail(r) /\ Stay

-----------------------------------------------------------------------------
(* ensureCommA *)

AVoted(r) ==
  /\ After(r, "fullA")
  /\ IF MaxHeard(r) = 1
       THEN Fail(r)
       ELSE Enter(r, "splitA", 0) /\ UNCHANGED <<here, result, lane>>
  /\ Stay

CommASplit(r) ==
  /\ After(r, "splitA")
  /\ Enter(r, "srcLsa", IF IsSrc(r) THEN LsaSize ELSE 0)
  /\ here' = [here EXCEPT ![r].commA = IF InA(r, MyCall(r)) THEN Fresh(r) ELSE 0]
  /\ UNCHANGED <<result, lane>> /\ Stay

SrcLsaHeard(r) ==
  LET a == [geometry |-> Geometry(MyCall(r)), k |-> MyCall(r).k, commA |-> here[r].commA,
            inA |-> InA(r, MyCall(r)), srcLsa |-> MaxHeard(r)]
  IN
  /\ After(r, "srcLsa")
  /\ commAs' = [commAs EXCEPT ![r] = Append(@, a)]
  /\ Return(r, at[r], Active(r, MyCall(r), here[r], a))
  /\ Submit(r, at[r], here[r])
  /\ UNCHANGED <<plan, pack, at, shared, known, minted, said, ran>>

-----------------------------------------------------------------------------
(* The device: a generator starts a kernel when it is the oldest on its lane, *)
(* and the kernels of a call finish together.                                 *)
Oldest(r, n) == \A m \in 1 .. n - 1 : lane[r][m].on # lane[r][n].on
Runs(r, i) == \E n \in DOMAIN lane[r] : lane[r][n].step = i /\ Oldest(r, n)
KernelsEnd(i) ==
  /\ plan[i].op = "call"
  /\ \A g \in Range(plan[i].gens) : Runs(g, i)
  /\ \A r \in Members(plan[i]) : result[r][i].verdict = "split"
  /\ lane' = [r \in Processes |-> SelectSeq(lane[r], LAMBDA e : e.step # i)]
  /\ ran' = ran \cup {<<r, i>> : r \in Range(plan[i].gens)}
  /\ UNCHANGED <<callVars, tableVars, minted, said, result>>

SplitNext ==
  \/ \E i \in Steps : (\E kind \in Kinds : Meet(i, kind)) \/ KernelsEnd(i)
  \/ \E r \in Processes :
       \/ StartCall(r) \/ Restart(r)
       \/ ParentsVoted(r) \/ LanesHeard(r) \/ PoolVoted(r) \/ SharedVoted(r) \/ CommBSplit(r)
       \/ LsaHeard(r) \/ LsaHeardPipe(r) \/ NamespacesHeard(r)
       \/ AVoted(r) \/ CommASplit(r) \/ SrcLsaHeard(r)

SplitSpec == SplitInit /\ [][SplitNext]_splitVars

-----------------------------------------------------------------------------
Split(r, i) == result[r][i].verdict = "split"
Answered(i) == {r \in Members(plan[i]) : result[r][i].verdict # "none"}
CallSteps == {i \in Steps : plan[i].op = "call"}

(* The ranks of a parent take the same decision: all of them run on the same  *)
(* split communicators, lane and namespace, all fall back, or all fail        *)
(* (ReshardSplitComms: "all ranks of the parent comm observe identical        *)
(* active, lsaSize, and numGenDomains").  Members of commA or commB hold the  *)
(* handle of one split, never of two.                                         *)
SameSplit ==
  \A i \in CallSteps : \A q, r \in Answered(i) :
    /\ result[q][i].verdict = result[r][i].verdict
    /\ Split(q, i) =>
         /\ result[q][i].lsa = result[r][i].lsa /\ result[q][i].srcLsa = result[r][i].srcLsa
         /\ result[q][i].lane = result[r][i].lane /\ result[q][i].ns = result[r][i].ns
         /\ result[q][i].domains = result[r][i].domains
         /\ {q, r} \subseteq Range(plan[i].gens) => result[q][i].commB = result[r][i].commB
         /\ result[q][i].inA /\ result[r][i].inA => result[q][i].commA = result[r][i].commA

(* Two parents on one commB never share a FIFO namespace, and a parent keeps  *)
(* its own: signals and counters of one would be taken for the other's.       *)
NamespacesApart ==
  \A i, j \in CallSteps : \A r \in Range(plan[i].gens) \cap Range(plan[j].gens) :
    (~pack /\ Split(r, i) /\ Split(r, j) /\ result[r][i].commB = result[r][j].commB) =>
      ((plan[i].parent = plan[j].parent) <=> (result[r][i].ns = result[r][j].ns))

(* No rank waits for ever: every call returns on every rank and the kernels   *)
(* it submitted finish.                                                       *)
Finished == \A r \in Processes : pc[r] = "idle" /\ Ahead(r) = {} /\ lane[r] = <<>>
NobodyWaits == Finished \/ ENABLED SplitNext
=============================================================================
