--------------------------- MODULE SplitComms_proofs ---------------------------
(***************************************************************************)
(* What the members of a call end up with when they split its parent       *)
(* communicator, proved for any number of ranks, any parents, any calls    *)
(* and restarts that SplitAssumption allows, either copy algorithm, any    *)
(* number of lanes and any capacities.                                     *)
(*                                                                         *)
(* The state of a rank does not show why its tables and those of its peers *)
(* agree: they were filled by collectives that are long over.  said keeps  *)
(* what each collective told, and everything else is stated against that   *)
(* history H: which steps have a commB and which of them it is (Formed,    *)
(* Source, Owns, Root), which collective a step may hold and which it goes *)
(* to next (Base, Goes), how it can end (Outcome).                         *)
(*                                                                         *)
(* IInv.  What a rank holds in its tables, in the call it is in and in its *)
(* results is what the history says (RankInv), and what was said is what   *)
(* the tables of those who said it implied (HistRight).  A rank has a step *)
(* in its tables exactly when it was a member of it, the step formed its   *)
(* communicator and the rank has not started again since (Holds): so the   *)
(* members of a step answer every look-up alike, and hold the same         *)
(* collectives in the same order.                                          *)
(*                                                                         *)
(* NInv.  The pool a generator keeps with a commB it owns names the        *)
(* parents of the steps on that commB, in the order in which they were     *)
(* given their namespaces (PoolOf): steps of one commB have the same       *)
(* namespace exactly when they have the same parent (NsRight).             *)
(*                                                                         *)
(* The facts about a step need that what was said stays true when more is  *)
(* said: a collective of step i is held when all its members stand at i,   *)
(* so nobody who stands at a later step of theirs is still to be told      *)
(* (the lemmas named ...Kept).                                             *)
(***************************************************************************)
EXTENDS SplitComms, FiniteSetTheorems, SequenceTheorems, WellFoundedInduction, TLAPS

(* The history: the calls, the copy algorithm and what was said. *)
Hist == [plan |-> plan, pack |-> pack, said |-> said]

(* The order in which a call comes to its collectives. *)
Ord(k) ==
  CASE k = "fullParents" -> 1 [] k = "lanes" -> 2 [] k = "pool" -> 3 [] k = "fullB" -> 4
    [] k = "splitB" -> 5 [] k = "lsa" -> 6 [] k = "namespace" -> 7 [] k = "fullA" -> 8
    [] k = "splitA" -> 9 [] k = "srcLsa" -> 10
BKinds == {"fullParents", "lanes", "pool", "fullB", "splitB", "lsa", "namespace"}
AKinds == {"fullA", "splitA", "srcLsa"}

(* The steps that are calls, the generators of a step, what a collective of it told. *)
CallsOf(H) == {i \in DOMAIN H.plan : H.plan[i].op = "call"}
Gens(s) == Range(s.gens)
Told(H, i, k) == H.said[i][k] # <<>>
Said(H, i, k) == H.said[i][k][1]
MaxOf(f) == CHOOSE x \in {f[m] : m \in DOMAIN f} : \A m \in DOMAIN f : x >= f[m]
Top(H, i, k) == MaxOf(Said(H, i, k))

(* What the votes of a step mean: lanes that agree, commBs all or nobody has. *)
Aligned(H, i) ==
  LET lanes == {Said(H, i, "lanes")[g] : g \in Gens(H.plan[i])}
  IN  ~H.pack \/ (Cardinality(lanes) = 1 /\ lanes \subseteq 0 .. Lanes - 1)
HasIn(H, i) == \E m \in DOMAIN Said(H, i, "pool") : Said(H, i, "pool")[m].has
MissIn(H, i) == \E m \in DOMAIN Said(H, i, "pool") : Said(H, i, "pool")[m].missing
PartialIn(H, i) == HasIn(H, i) /\ MissIn(H, i)
Reuses(H, i) == HasIn(H, i) /\ ~MissIn(H, i)

(* The namespace that its first generator proposed, and that all of them did. *)
NsSaid(H, i) == Said(H, i, "namespace")[H.plan[i].gens[1]]
Agreed(H, i) ==
  NsSaid(H, i) >= 0 /\ \A g \in Gens(H.plan[i]) : Said(H, i, "namespace")[g] = NsSaid(H, i)

(* Step i has got its commB, its commA. *)
Formed(H, i) == Told(H, i, "lsa") /\ (H.pack \/ (Told(H, i, "namespace") /\ Agreed(H, i)))
FormedA(H, i) == Told(H, i, "srcLsa")

(* Nobody of a set starts again between two calls. *)
Whole(H, S, j, i) ==
  \A f \in DOMAIN H.plan :
    (j < f /\ f <= i /\ H.plan[f].op = "finalize") => S \cap H.plan[f].ranks = {}
SameGeometry(H, j, i) == Geometry(H.plan[j]) = Geometry(H.plan[i])

(* The commB of step b serves step i: same parent, same geometry, still in its ranks' *)
(* tables.                                                                            *)
Source(H, b, i) ==
  /\ b \in CallsOf(H) /\ b <= i /\ SameGeometry(H, b, i) /\ Formed(H, b)
  /\ Whole(H, Members(H.plan[i]), b, i)
KnownBefore(H, i) == \E b \in CallsOf(H) : b < i /\ Source(H, b, i)

(* So for commA, of which one of more domains serves as well. *)
SourceA(H, a, i) ==
  /\ a \in CallsOf(H) /\ a <= i /\ SameGeometry(H, a, i) /\ FormedA(H, a)
  /\ H.plan[a].k >= H.plan[i].k /\ Whole(H, Members(H.plan[i]), a, i)
CachedA(H, i) == \E a \in CallsOf(H) : a < i /\ SourceA(H, a, i)
BestA(H, a, i) ==
  SourceA(H, a, i) /\ \A c \in CallsOf(H) : SourceA(H, c, i) => H.plan[a].k <= H.plan[c].k

(* Rank r owns the commB that step o split and step i may use again. *)
Owns(H, r, o, i) ==
  /\ o \in CallsOf(H) /\ o < i /\ H.plan[o].gens = H.plan[i].gens /\ Formed(H, o)
  /\ ~Reuses(H, o) /\ Whole(H, {r}, o, i)
HasOwner(H, r, i) == \E o \in CallsOf(H) : Owns(H, r, o, i)
Owners(H, i) == {o \in CallsOf(H) : \E g \in Gens(H.plan[i]) : Owns(H, g, o, i)}
Root(H, i) == IF Reuses(H, i) THEN CHOOSE o \in Owners(H, i) : TRUE ELSE i

(* The commB, namespace and lane of step i. *)
CommB(H, i) == H.said[Root(H, i)]["splitB"][2]
NsOf(H, i) == IF H.pack THEN -1 ELSE NsSaid(H, i)
LaneAt(H, i) == IF H.pack THEN Said(H, i, "lanes")[H.plan[i].gens[1]] ELSE NamespaceLane(NsOf(H, i))

(* Only a step like this holds the collective k. *)
Base(H, i, k) ==
  /\ i \in CallsOf(H) /\ ~Overlap(H.plan[i])
  /\ k \in BKinds => ~KnownBefore(H, i)
  /\ k \in {"fullB", "splitB", "lsa", "namespace"} => Told(H, i, "pool") /\ ~PartialIn(H, i)
  /\ k = "splitB" => ~Reuses(H, i)
  /\ k = "namespace" => ~H.pack
  /\ k \in AKinds => (KnownBefore(H, i) \/ Formed(H, i)) /\ ~CachedA(H, i)

(* The collective k is one the step comes to, by what it was told before. *)
Goes(H, i, k) ==
  \/ k = "fullParents" /\ ~Overlap(H.plan[i]) /\ ~KnownBefore(H, i)
  \/ k = "lanes" /\ Told(H, i, "fullParents") /\ Top(H, i, "fullParents") # 1
  \/ k = "pool" /\ Told(H, i, "lanes") /\ Aligned(H, i)
  \/ k = "fullB" /\ Told(H, i, "pool") /\ ~PartialIn(H, i)
  \/ k = "splitB" /\ Told(H, i, "fullB") /\ Top(H, i, "fullB") # 1 /\ ~Reuses(H, i)
  \/ k = "lsa" /\ Told(H, i, "fullB") /\ Top(H, i, "fullB") # 1 /\ Reuses(H, i)
  \/ k = "lsa" /\ Told(H, i, "splitB")
  \/ k = "namespace" /\ Told(H, i, "lsa") /\ ~H.pack
  \/ k = "fullA" /\ ~Overlap(H.plan[i]) /\ (KnownBefore(H, i) \/ Formed(H, i)) /\ ~CachedA(H, i)
  \/ k = "splitA" /\ Told(H, i, "fullA") /\ Top(H, i, "fullA") # 1
  \/ k = "srcLsa" /\ Told(H, i, "splitA")

(* Nothing beyond the n-th collective was told; k is next; the step is over; k was the *)
(* last.                                                                               *)
Upto(H, i, n) == \A k \in Kinds : Told(H, i, k) => Ord(k) <= n
Open(H, i, k) == Goes(H, i, k) /\ Upto(H, i, Ord(k) - 1)
Ended(H, i) == \A k \in Kinds : ~Open(H, i, k)
LastSaid(H, i, k) == Told(H, i, k) /\ Upto(H, i, Ord(k))

(* How a step ends: on the parent, refused, split. *)
Parented(H, i) ==
  \/ Overlap(H.plan[i])
  \/ LastSaid(H, i, "lanes") /\ ~Aligned(H, i)
  \/ LastSaid(H, i, "pool") /\ PartialIn(H, i)
Refused(H, i) ==
  \/ LastSaid(H, i, "fullParents") /\ Top(H, i, "fullParents") = 1
  \/ LastSaid(H, i, "fullB") /\ Top(H, i, "fullB") = 1
  \/ LastSaid(H, i, "namespace") /\ ~Agreed(H, i)
  \/ LastSaid(H, i, "fullA") /\ Top(H, i, "fullA") = 1
SplitDone(H, i) ==
  ~Overlap(H.plan[i]) /\ (KnownBefore(H, i) \/ Formed(H, i)) /\ (CachedA(H, i) \/ FormedA(H, i))

(* x holds what r has of the commB formed at step b, of the commA formed at a. *)
MatchesB(H, r, b, x) ==
  /\ x.lsa = Top(H, b, "lsa") /\ x.lane = LaneAt(H, b) /\ x.ns = NsOf(H, b)
  /\ r \in Gens(H.plan[b]) => x.commB = CommB(H, b)
MatchesA(H, r, a, x) ==
  /\ x.srcLsa = Top(H, a, "srcLsa") /\ x.inA = InA(r, H.plan[a])
  /\ InA(r, H.plan[a]) => x.commA = H.said[a]["splitA"][2]

-----------------------------------------------------------------------------

(* What a rank has. *)
Local(r) ==
  [at |-> at[r], pc |-> pc[r], ask |-> ask[r], got |-> got[r], here |-> here[r],
   shared |-> shared[r], known |-> known[r], commAs |-> commAs[r], result |-> result[r]]

(* Sequences and records of their shapes. *)
Listed(s) == Len(s) \in Nat /\ s = [n \in 1 .. Len(s) |-> s[n]]
IsHere(h) ==
  h = [lane |-> h.lane, reuse |-> h.reuse, commB |-> h.commB, owner |-> h.owner, lsa |-> h.lsa,
       ns |-> h.ns, srcLsa |-> h.srcLsa, commA |-> h.commA]
IsEntry(e) ==
  e = [geometry |-> e.geometry, commB |-> e.commB, lsa |-> e.lsa, lane |-> e.lane, ns |-> e.ns,
       owner |-> e.owner, owns |-> e.owns, pool |-> e.pool]
Stored(s) == Listed(s) /\ \A n \in DOMAIN s : IsEntry(s[n])
RankTypes(H, r, L) ==
  /\ L.at \in Nat /\ L.pc \in Kinds \cup {"idle"} /\ IsHere(L.here)
  /\ Stored(L.shared) /\ Listed(L.known) /\ Listed(L.commAs)
  /\ L.result = [i \in DOMAIN H.plan |-> L.result[i]]

(* What r votes at step i on the commB of its group. *)
VoteOf(H, r, i, v) ==
  /\ v.has = (r \in Gens(H.plan[i]) /\ HasOwner(H, r, i))
  /\ v.missing = (r \in Gens(H.plan[i]) /\ ~HasOwner(H, r, i))

(* The locals of a call are what its collectives told so far. *)
HereRight(H, r, L) ==
  /\ (L.pc = "pool" /\ L.got = <<>>) => VoteOf(H, r, L.at, L.ask)
  /\ L.pc \in {"pool", "fullB", "splitB", "lsa", "namespace"} =>
       (H.pack => L.here.lane = Said(H, L.at, "lanes")[H.plan[L.at].gens[1]])
  /\ L.pc \in {"fullB", "splitB", "lsa", "namespace"} => L.here.reuse = Reuses(H, L.at)
  /\ L.pc \in {"lsa", "namespace"} =>
       (r \in Gens(H.plan[L.at]) => L.here.commB = CommB(H, L.at))
  /\ L.pc = "namespace" => L.here.lsa = Top(H, L.at, "lsa")
  /\ L.pc \in AKinds => \E b \in CallsOf(H) : Source(H, b, L.at) /\ MatchesB(H, r, b, L.here)
  /\ L.pc = "srcLsa" => (InA(r, H.plan[L.at]) => L.here.commA = H.said[L.at]["splitA"][2])

(* A rank in a call is a member of its step, in a collective that is due. *)
AtRight(H, r, L) ==
  L.pc # "idle" =>
    /\ r \in Members(H.plan[L.at])
    /\ Base(H, L.at, L.pc) /\ Goes(H, L.at, L.pc)
    /\ L.got = <<>> => Upto(H, L.at, Ord(L.pc) - 1)
    /\ L.got # <<>> => L.got = H.said[L.at][L.pc] /\ Upto(H, L.at, Ord(L.pc))
    /\ HereRight(H, r, L)

(* The calls r is a member of, those it is done with, and what they returned. *)
Past(L, i) == i < L.at \/ (i = L.at /\ L.pc = "idle")
CallsWith(H, r) == {i \in CallsOf(H) : r \in Members(H.plan[i])}
PastRight(H, r, L) == \A i \in CallsWith(H, r) : Past(L, i) => Ended(H, i)
SplitAs(H, r, i, x) ==
  /\ x.verdict = "split" /\ SplitDone(H, i)
  /\ \E b \in CallsOf(H) : Source(H, b, i) /\ MatchesB(H, r, b, x)
  /\ \E a \in CallsOf(H) : BestA(H, a, i) /\ MatchesA(H, r, a, x) /\ x.domains = H.plan[a].k
Outcome(H, r, i, x) ==
  \/ x.verdict = "parent" /\ Parented(H, i)
  \/ x.verdict = "failed" /\ Refused(H, i)
  \/ SplitAs(H, r, i, x)
ResultRight(H, r, L) ==
  \A i \in DOMAIN H.plan : L.result[i].verdict # "none" =>
    i \in CallsWith(H, r) /\ Past(L, i) /\ Outcome(H, r, i, L.result[i])

(* The commB, the commA of step j is in the tables of r. *)
Holds(H, r, L, j) ==
  /\ j \in CallsWith(H, r) /\ j <= L.at /\ Whole(H, {r}, j, L.at) /\ Formed(H, j)
  /\ ~(j = L.at /\ L.pc \in BKinds)
HoldsA(H, r, L, j) ==
  /\ j \in CallsWith(H, r) /\ Past(L, j) /\ Whole(H, {r}, j, L.at) /\ FormedA(H, j)

(* An entry of a table is that of step j. *)
EntryOf(H, r, j, e) ==
  /\ e.geometry = Geometry(H.plan[j]) /\ MatchesB(H, r, j, e)
  /\ e.owns = (r \in Gens(H.plan[j]) /\ ~Reuses(H, j))
KnownOf(H, j, e) == e.geometry = Geometry(H.plan[j])
EntryOfA(H, r, j, e) ==
  e.geometry = Geometry(H.plan[j]) /\ e.k = H.plan[j].k /\ MatchesA(H, r, j, e)

(* The tables of r hold the steps it Holds, and nothing else. *)
SharedRight(H, r, L) ==
  /\ \A n \in DOMAIN L.shared : \E j \in CallsOf(H) : Holds(H, r, L, j) /\ EntryOf(H, r, j, L.shared[n])
  /\ \A j \in CallsOf(H) : Holds(H, r, L, j) => \E n \in DOMAIN L.shared : EntryOf(H, r, j, L.shared[n])
KnownRight(H, r, L) ==
  /\ \A n \in DOMAIN L.known : \E j \in CallsOf(H) : Holds(H, r, L, j) /\ KnownOf(H, j, L.known[n])
  /\ \A j \in CallsOf(H) : Holds(H, r, L, j) => \E n \in DOMAIN L.known : KnownOf(H, j, L.known[n])
CommARight(H, r, L) ==
  /\ \A n \in DOMAIN L.commAs : \E j \in CallsOf(H) : HoldsA(H, r, L, j) /\ EntryOfA(H, r, j, L.commAs[n])
  /\ \A j \in CallsOf(H) : HoldsA(H, r, L, j) => \E n \in DOMAIN L.commAs : EntryOfA(H, r, j, L.commAs[n])
RankInv(H, r, L) ==
  /\ RankTypes(H, r, L) /\ AtRight(H, r, L) /\ PastRight(H, r, L) /\ ResultRight(H, r, L)
  /\ SharedRight(H, r, L) /\ KnownRight(H, r, L) /\ CommARight(H, r, L)

(* What was told, was told by all members of a step that came to it. *)
ToldRight(H) ==
  \A i \in DOMAIN H.plan, k \in Kinds : Told(H, i, k) =>
    Base(H, i, k) /\ DOMAIN Said(H, i, k) = Members(H.plan[i])
VotesRight(H) ==
  \A i \in DOMAIN H.plan : Told(H, i, "pool") =>
    \A r \in Members(H.plan[i]) : VoteOf(H, r, i, Said(H, i, "pool")[r])
HistRight(H) ==
  /\ H.plan \in Plans /\ H.pack \in Packs
  /\ H.said = [i \in DOMAIN H.plan |-> [k \in Kinds |-> H.said[i][k]]]
  /\ ToldRight(H) /\ VotesRight(H)
Domains ==
  /\ at = [r \in Processes |-> at[r]] /\ pc = [r \in Processes |-> pc[r]]
  /\ ask = [r \in Processes |-> ask[r]] /\ got = [r \in Processes |-> got[r]]
  /\ here = [r \in Processes |-> here[r]] /\ shared = [r \in Processes |-> shared[r]]
  /\ known = [r \in Processes |-> known[r]] /\ commAs = [r \in Processes |-> commAs[r]]
  /\ result = [r \in Processes |-> result[r]] /\ minted \in Nat

(* A rank has come to a step before it is told anything at it. *)
Arrived ==
  \A i \in Steps, k \in Kinds : Told(Hist, i, k) => \A r \in Members(plan[i]) : at[r] >= i

(* The inductive invariant. *)
IInv ==
  /\ Domains /\ HistRight(Hist) /\ Arrived
  /\ \A r \in Processes : RankInv(Hist, r, Local(r))

-----------------------------------------------------------------------------

(* Splits are numbered apart. *)
Minted(H, i) == H.said[i]["splitB"][2]
MintRight(H, n) ==
  \A i \in DOMAIN H.plan : Told(H, i, "splitB") =>
    /\ Minted(H, i) \in Nat /\ Minted(H, i) <= n
    /\ \A j \in DOMAIN H.plan : (j # i /\ Told(H, j, "splitB")) => Minted(H, i) # Minted(H, j)

(* A commB of which a domain size is known was split. *)
RootTold(H) ==
  \A i \in CallsOf(H) : Told(H, i, "lsa") => Root(H, i) \in CallsOf(H) /\ Told(H, Root(H, i), "splitB")

(* Steps of one commB have a namespace in common exactly when they have their parent in *)
(* common.                                                                              *)
NsRight(H) ==
  \A i, j \in CallsOf(H) :
    (Formed(H, i) /\ Formed(H, j) /\ Root(H, i) = Root(H, j)) =>
      ((H.plan[i].parent = H.plan[j].parent) <=> (NsOf(H, i) = NsOf(H, j)))

(* pool names the parents of the steps of the commB of step o that r holds. *)
PoolOf(H, r, L, o, pool) ==
  /\ Listed(pool)
  /\ \A x \in DOMAIN pool : \E b \in CallsOf(H) :
       Holds(H, r, L, b) /\ Root(H, b) = o /\ NsOf(H, b) = x - 1 /\ H.plan[b].parent = pool[x]
  /\ \A b \in CallsOf(H) : (Holds(H, r, L, b) /\ Root(H, b) = o) =>
       NsOf(H, b) + 1 \in DOMAIN pool /\ pool[NsOf(H, b) + 1] = H.plan[b].parent
PoolRight(H, r, L) ==
  \A n \in DOMAIN L.shared : \A o \in CallsOf(H) :
    (Holds(H, r, L, o) /\ EntryOf(H, r, o, L.shared[n]) /\ L.shared[n].owns) =>
      PoolOf(H, r, L, o, L.shared[n].pool)

(* A generator knows which of its entries owns the commB it proposes on. *)
OwnerRight(H, r, L) ==
  (L.pc \in {"lsa", "namespace"} /\ r \in Gens(H.plan[L.at])) =>
    IF Reuses(H, L.at)
      THEN /\ L.here.owner \in DOMAIN L.shared
           /\ Holds(H, r, L, Root(H, L.at)) /\ EntryOf(H, r, Root(H, L.at), L.shared[L.here.owner])
      ELSE L.here.owner = Len(L.shared) + 1
ProposalOf(H, r, L) ==
  IF r \notin Gens(H.plan[L.at]) THEN -1
  ELSE Propose(IF L.here.reuse THEN L.shared[L.here.owner].pool ELSE <<>>, H.plan[L.at].parent)
ProposedRight(H, r, L) ==
  L.pc = "namespace" =>
     /\ L.got = <<>> => L.ask = ProposalOf(H, r, L)
     /\ L.got # <<>> => Said(H, L.at, "namespace")[r] = ProposalOf(H, r, L)

(* An entry per geometry; an entry that owns its commB says so. *)
OncePer(L) ==
  /\ \A n, m \in DOMAIN L.shared : L.shared[n].geometry = L.shared[m].geometry => n = m
  /\ \A n \in DOMAIN L.shared : L.shared[n].owns => L.shared[n].owner = n
SpacesOf(H, r, L) ==
  PoolRight(H, r, L) /\ OwnerRight(H, r, L) /\ ProposedRight(H, r, L) /\ OncePer(L)

(* And the one of the namespaces, which rests on it. *)
NInv ==
  /\ MintRight(Hist, minted) /\ RootTold(Hist)
  /\ ~pack => NsRight(Hist) /\ \A r \in Processes : SpacesOf(Hist, r, Local(r))

-----------------------------------------------------------------------------
(* Lists, plans, and the steps a communicator comes from. *)

(* The least of a set of numbers. *)
LEMMA Lowest ==
  ASSUME NEW T \in SUBSET Nat, T # {}
  PROVE  \E m \in T : \A n \in T : m <= n
<1> DEFINE B == {ss \in Nat \X Nat : ss[1] < ss[2]}
<1>1. IsWellFoundedOn(B, Nat)
  BY NatLessThanWellFounded DEF OpToRel
<1>2. \E m \in T : \A n \in T : <<n, m>> \notin B
  BY <1>1, WFMin
<1>3. \E m \in T : \A n \in T : ~(n < m)
  BY <1>2
<1> QED BY <1>3

(* A sequence of anything, and one more element. *)
LEMMA ListAppend ==
  ASSUME NEW s, Listed(s), NEW e
  PROVE  /\ Listed(Append(s, e)) /\ Len(Append(s, e)) = Len(s) + 1
         /\ DOMAIN s = 1 .. Len(s) /\ DOMAIN Append(s, e) = 1 .. Len(s) + 1
         /\ \A n \in DOMAIN s : Append(s, e)[n] = s[n]
         /\ Append(s, e)[Len(s) + 1] = e
<1> DEFINE S == {s[n] : n \in DOMAIN s} \cup {e}
<1>1. DOMAIN s = 1 .. Len(s) /\ Len(s) \in Nat
  BY DEF Listed
<1>2. s \in [1 .. Len(s) -> S]
  BY <1>1 DEF Listed
<1>3. s \in Seq(S)
  BY <1>1, <1>2, SeqDef
<1>4. e \in S
  OBVIOUS
<1> HIDE DEF S
<1>5. /\ Append(s, e) \in Seq(S) /\ Len(Append(s, e)) = Len(s) + 1
      /\ \A n \in 1 .. Len(s) : Append(s, e)[n] = s[n]
      /\ Append(s, e)[Len(s) + 1] = e
  BY <1>3, <1>4, AppendProperties
<1>6. Append(s, e) = [n \in 1 .. Len(Append(s, e)) |-> Append(s, e)[n]]
  BY <1>5, LenProperties
<1> QED BY <1>1, <1>5, <1>6 DEF Listed

LEMMA EmptyList == Listed(<<>>) /\ Len(<<>>) = 0 /\ DOMAIN <<>> = {}
BY DEF Listed

(* What SplitAssumption says of the plan. *)
LEMMA PlanFacts ==
  ASSUME SplitAssumption, NEW H, H.plan \in Plans
  PROVE  /\ Len(H.plan) \in Nat /\ DOMAIN H.plan = 1 .. Len(H.plan)
         /\ \A i \in CallsOf(H) :
              /\ i \in DOMAIN H.plan /\ i \in Nat \ {0} /\ H.plan[i].op = "call"
              /\ Members(H.plan[i]) \subseteq Processes /\ H.plan[i].k \in Nat
              /\ Gens(H.plan[i]) \subseteq Members(H.plan[i])
              /\ H.plan[i].gens[1] \in Gens(H.plan[i])
<1> DEFINE p == H.plan
<1>1. p = [i \in 1 .. Len(p) |-> p[i]] /\ Len(p) \in Nat
  BY DEF SplitAssumption
<1>2. DOMAIN p = 1 .. Len(p)
  BY <1>1
<1>3. ASSUME NEW i \in CallsOf(H)
      PROVE  /\ i \in DOMAIN p /\ p[i].op = "call" /\ Members(p[i]) \subseteq Processes
             /\ 1 \in DOMAIN p[i].gens /\ p[i].k \in Nat
  BY DEF SplitAssumption, CallsOf
<1>4. ASSUME NEW i \in CallsOf(H)
      PROVE  Gens(p[i]) \subseteq Members(p[i]) /\ p[i].gens[1] \in Gens(p[i])
  BY <1>3 DEF Members, Gens, Range
<1> QED BY <1>1, <1>2, <1>3, <1>4

LEMMA SameParent ==
  ASSUME SplitAssumption, NEW H, H.plan \in Plans, NEW i \in CallsOf(H), NEW j \in CallsOf(H),
         H.plan[i].parent = H.plan[j].parent
  PROVE  Members(H.plan[i]) = Members(H.plan[j])
BY DEF SplitAssumption, CallsOf

(* Steps of one geometry have the same members and generators. *)
LEMMA GeometryGives ==
  ASSUME NEW H, NEW i, NEW j, SameGeometry(H, i, j)
  PROVE  /\ H.plan[i].parent = H.plan[j].parent /\ H.plan[i].gens = H.plan[j].gens
         /\ H.plan[i].srcs = H.plan[j].srcs
         /\ Members(H.plan[i]) = Members(H.plan[j]) /\ Gens(H.plan[i]) = Gens(H.plan[j])
BY DEF SameGeometry, Geometry, Members, Gens

(* Nobody starts again between two steps: nor between two steps of these. *)
LEMMA WholeCut ==
  ASSUME SplitAssumption,
         NEW H, H.plan \in Plans, NEW S, NEW j \in Nat, NEW m \in Nat, NEW i \in Nat,
         j <= m, m <= i, Whole(H, S, j, i)
  PROVE  Whole(H, S, j, m) /\ Whole(H, S, m, i)
<1>1. DOMAIN H.plan \subseteq Nat
  BY PlanFacts
<1> QED BY <1>1 DEF Whole

(* Ranks of a parent that is used again start again together. *)
LEMMA WholeRank ==
  ASSUME SplitAssumption,
         NEW H, H.plan \in Plans, NEW i \in CallsOf(H), NEW j \in CallsOf(H), j <= i,
         SameGeometry(H, j, i), NEW r \in Members(H.plan[i])
  PROVE  Whole(H, {r}, j, i) <=> Whole(H, Members(H.plan[i]), j, i)
<1>1. H.plan[i].parent = H.plan[j].parent /\ Members(H.plan[i]) = Members(H.plan[j])
  BY GeometryGives
<1>2. DOMAIN H.plan = 1 .. Len(H.plan) /\ Len(H.plan) \in Nat /\ i \in DOMAIN H.plan /\ j \in DOMAIN H.plan
  BY PlanFacts
<1>3. ASSUME NEW f \in DOMAIN H.plan, j < f, f <= i, H.plan[f].op = "finalize"
      PROVE  (r \in H.plan[f].ranks) <=> (Members(H.plan[i]) \cap H.plan[f].ranks # {})
  <2>1. f \in j .. i
    BY <1>2, <1>3
  <2>2. H.plan[i].op = "call" /\ H.plan[j].op = "call"
    BY DEF CallsOf
  <2>3. (Members(H.plan[j]) \cap H.plan[f].ranks # {}) => Members(H.plan[j]) \subseteq H.plan[f].ranks
    BY <1>1, <1>2, <1>3, <2>1, <2>2 DEF SplitAssumption
  <2> QED BY <1>1, <2>3
<1> QED BY <1>3 DEF Whole

(* A step has one source of commB and one of commA. *)
LEMMA SourceOnce ==
  ASSUME SplitAssumption,
         NEW H, HistRight(H), NEW i \in CallsOf(H), NEW b \in CallsOf(H), NEW c \in CallsOf(H),
         Source(H, b, i), Source(H, c, i)
  PROVE  b = c
<1>1. ASSUME NEW x \in CallsOf(H), NEW y \in CallsOf(H), Source(H, x, i), Source(H, y, i), x < y
      PROVE  FALSE
  <2> USE DEF HistRight
  <2>1. x \in Nat /\ y \in Nat /\ i \in Nat /\ y \in DOMAIN H.plan /\ y <= i
    BY PlanFacts, <1>1 DEF Source
  <2>2. Told(H, y, "lsa") /\ "lsa" \in Kinds /\ "lsa" \in BKinds
    BY <1>1 DEF Source, Formed, Kinds, BKinds
  <2>3. ~KnownBefore(H, y)
    BY <2>1, <2>2 DEF ToldRight, Base
  <2>4. SameGeometry(H, x, y) /\ Members(H.plan[i]) = Members(H.plan[y])
    BY <1>1, GeometryGives DEF Source, SameGeometry
  <2>5. Whole(H, Members(H.plan[y]), x, y)
    BY <1>1, <2>1, <2>4, WholeCut DEF Source
  <2>6. Source(H, x, y)
    BY <1>1, <2>4, <2>5, <2>1 DEF Source
  <2> QED BY <1>1, <2>3, <2>6 DEF KnownBefore
<1>2. b \in Nat /\ c \in Nat
  BY PlanFacts DEF HistRight
<1> QED BY <1>1, <1>2

LEMMA BestOnce ==
  ASSUME SplitAssumption,
         NEW H, HistRight(H), NEW i \in CallsOf(H), NEW a \in CallsOf(H), NEW c \in CallsOf(H),
         BestA(H, a, i), BestA(H, c, i)
  PROVE  a = c
<1>1. ASSUME NEW x \in CallsOf(H), NEW y \in CallsOf(H), BestA(H, x, i), BestA(H, y, i), x < y
      PROVE  FALSE
  <2> USE DEF HistRight
  <2>1. x \in Nat /\ y \in Nat /\ i \in Nat /\ y \in DOMAIN H.plan /\ y <= i
    BY PlanFacts, <1>1 DEF BestA, SourceA
  <2>2. Told(H, y, "srcLsa") /\ "srcLsa" \in Kinds /\ "srcLsa" \in AKinds
    BY <1>1 DEF BestA, SourceA, FormedA, Kinds, AKinds
  <2>3. ~CachedA(H, y)
    BY <2>1, <2>2 DEF ToldRight, Base
  <2>4. SameGeometry(H, x, y) /\ Members(H.plan[i]) = Members(H.plan[y])
    BY <1>1, GeometryGives DEF BestA, SourceA, SameGeometry
  <2>5. Whole(H, Members(H.plan[y]), x, y)
    BY <1>1, <2>1, <2>4, WholeCut DEF BestA, SourceA
  <2>7. H.plan[x].k >= H.plan[y].k
    BY <1>1, PlanFacts DEF BestA
  <2>6. SourceA(H, x, y)
    BY <1>1, <2>4, <2>5, <2>1, <2>7 DEF SourceA, BestA
  <2> QED BY <1>1, <2>3, <2>6 DEF CachedA
<1>2. a \in Nat /\ c \in Nat
  BY PlanFacts DEF HistRight
<1> QED BY <1>1, <1>2

(* The generators of a step have one owner, whichever of them looks. *)
LEMMA OwnerOnce ==
  ASSUME SplitAssumption,
         NEW H, HistRight(H), NEW i \in CallsOf(H), NEW o \in CallsOf(H), NEW u \in CallsOf(H),
         NEW g \in Gens(H.plan[i]), NEW q \in Gens(H.plan[i]), Owns(H, g, o, i), Owns(H, q, u, i)
  PROVE  o = u
<1>1. ASSUME NEW x \in CallsOf(H), NEW y \in CallsOf(H), NEW m \in Gens(H.plan[i]),
             NEW n \in Gens(H.plan[i]), Owns(H, m, x, i), Owns(H, n, y, i), x < y
      PROVE  FALSE
  <2> USE DEF HistRight
  <2>1. x \in Nat /\ y \in Nat /\ i \in Nat /\ y \in DOMAIN H.plan /\ y < i
    BY PlanFacts, <1>1 DEF Owns
  <2>2. Told(H, y, "lsa") /\ "lsa" \in Kinds /\ "lsa" \in {"fullB", "splitB", "lsa", "namespace"} /\ "pool" \in Kinds
    BY <1>1 DEF Owns, Formed, Kinds
  <2>3. Told(H, y, "pool") /\ ~PartialIn(H, y) /\ ~Reuses(H, y)
    BY <1>1, <2>1, <2>2 DEF ToldRight, Base, Owns
  <2>4. m \in Gens(H.plan[y]) /\ m \in Members(H.plan[y])
    BY <1>1, PlanFacts DEF Owns, Gens
  <2>5. Owns(H, m, x, y)
    BY <1>1, <2>1, WholeCut DEF Owns
  <2>6. Said(H, y, "pool")[m].has
    BY <2>1, <2>3, <2>4, <2>5 DEF VotesRight, VoteOf, HasOwner
  <2>7. m \in DOMAIN Said(H, y, "pool")
    BY <2>1, <2>2, <2>3, <2>4 DEF ToldRight
  <2>8. HasIn(H, y)
    BY <2>6, <2>7 DEF HasIn
  <2> QED BY <2>3, <2>8 DEF PartialIn, Reuses
<1>2. o \in Nat /\ u \in Nat
  BY PlanFacts DEF HistRight
<1> QED BY <1>1, <1>2

(* The commB that is used again is that of the owner. *)
LEMMA RootIs ==
  ASSUME SplitAssumption, NEW H, HistRight(H), NEW i \in CallsOf(H), NEW o \in CallsOf(H),
         NEW g \in Gens(H.plan[i]), Owns(H, g, o, i), Reuses(H, i)
  PROVE  Root(H, i) = o
<1>1. o \in Owners(H, i)
  BY DEF Owners
<1>2. Owners(H, i) = {o}
  BY <1>1, OwnerOnce DEF Owners
<1> QED BY <1>2 DEF Root

(* The numbers of the collectives. *)
LEMMA Ords ==
  /\ Ord("fullParents") = 1 /\ Ord("lanes") = 2 /\ Ord("pool") = 3 /\ Ord("fullB") = 4
  /\ Ord("splitB") = 5 /\ Ord("lsa") = 6 /\ Ord("namespace") = 7 /\ Ord("fullA") = 8
  /\ Ord("splitA") = 9 /\ Ord("srcLsa") = 10
  /\ \A k \in Kinds : Ord(k) \in 1 .. 10
<1>1. Ord("fullParents") = 1 /\ Ord("lanes") = 2 /\ Ord("pool") = 3 /\ Ord("fullB") = 4
  BY DEF Ord
<1>2. Ord("splitB") = 5 /\ Ord("lsa") = 6 /\ Ord("namespace") = 7 /\ Ord("fullA") = 8
  BY DEF Ord
<1>3. Ord("splitA") = 9 /\ Ord("srcLsa") = 10
  BY DEF Ord
<1> QED BY <1>1, <1>2, <1>3 DEF Kinds

-----------------------------------------------------------------------------
(* A rank moves on within a call, returns, gives up. *)

(* A step of one rank: the history stays, and it is enough to look at the rank. *)
LEMMA RankStep ==
  ASSUME SplitAssumption, IInv, NEW r \in Processes, UNCHANGED <<plan, pack, said, minted>>,
         NEW M, RankInv(Hist, r, M), M.at >= at[r],
         M = [at |-> M.at, pc |-> M.pc, ask |-> M.ask, got |-> M.got, here |-> M.here,
              shared |-> M.shared, known |-> M.known, commAs |-> M.commAs, result |-> M.result],
         at' = [at EXCEPT ![r] = M.at], pc' = [pc EXCEPT ![r] = M.pc],
         ask' = [ask EXCEPT ![r] = M.ask], got' = [got EXCEPT ![r] = M.got],
         here' = [here EXCEPT ![r] = M.here], shared' = [shared EXCEPT ![r] = M.shared],
         known' = [known EXCEPT ![r] = M.known], commAs' = [commAs EXCEPT ![r] = M.commAs],
         result' = [result EXCEPT ![r] = M.result]
  PROVE  IInv' /\ Hist' = Hist /\ Local(r)' = M /\ \A q \in Processes : q # r => Local(q)' = Local(q)
<1>1. Hist' = Hist
  BY DEF Hist
<1>2. Domains
  BY DEF IInv
<1>3. Domains'
  BY <1>2 DEF Domains
<1>4. /\ at'[r] = M.at /\ pc'[r] = M.pc /\ ask'[r] = M.ask /\ got'[r] = M.got /\ here'[r] = M.here
      /\ shared'[r] = M.shared /\ known'[r] = M.known /\ commAs'[r] = M.commAs
      /\ result'[r] = M.result
  BY <1>2 DEF Domains
<1>5. Local(r)' = M
  BY <1>4 DEF Local
<1>6. ASSUME NEW q \in Processes, q # r
      PROVE  Local(q)' = Local(q) /\ at'[q] = at[q]
  <2>1. /\ at'[q] = at[q] /\ pc'[q] = pc[q] /\ ask'[q] = ask[q] /\ got'[q] = got[q]
        /\ here'[q] = here[q] /\ shared'[q] = shared[q] /\ known'[q] = known[q]
        /\ commAs'[q] = commAs[q] /\ result'[q] = result[q]
    BY <1>2, <1>6 DEF Domains
  <2> QED BY <2>1 DEF Local
<1>7. HistRight(Hist)'
  BY <1>1 DEF IInv
<1>8. Arrived'
  <2> SUFFICES ASSUME NEW i \in Steps, NEW k \in Kinds, Told(Hist, i, k), NEW q \in Members(plan[i])
               PROVE  at'[q] >= i
    BY <1>1 DEF Arrived, Steps
  <2>1. at[q] >= i
    BY DEF IInv, Arrived
  <2>2. i \in CallsOf(Hist) /\ Hist.plan = plan
    BY DEF IInv, HistRight, ToldRight, Base, Hist, Steps
  <2>3. q \in Processes /\ i \in Nat
    BY <2>2, PlanFacts DEF IInv, HistRight
  <2>4. at[q] \in Nat /\ M.at \in Nat
    BY <2>3 DEF IInv, RankInv, RankTypes, Local
  <2> QED BY <1>4, <1>6, <2>1, <2>3, <2>4
<1>9. \A q \in Processes : RankInv(Hist, q, Local(q))'
  BY <1>1, <1>5, <1>6 DEF IInv
<1> QED BY <1>1, <1>3, <1>5, <1>6, <1>7, <1>8, <1>9 DEF IInv

(* After the last collective nothing was told. *)
LEMMA Untold ==
  ASSUME NEW H, NEW i, NEW n, Upto(H, i, n), NEW k \in Kinds, Ord(k) > n, n \in Nat
  PROVE  ~Told(H, i, k)
BY Ords DEF Upto

(* A step that comes to no further collective is over. *)
LEMMA EndsAt ==
  ASSUME NEW H, NEW i, NEW k \in Kinds, Told(H, i, k), Upto(H, i, Ord(k)),
         \A l \in Kinds : Ord(l) > Ord(k) => ~Goes(H, i, l)
  PROVE  Ended(H, i)
<1>1. \A l \in Kinds : Ord(l) \in Nat
  BY Ords
<1>2. ASSUME NEW l \in Kinds, Open(H, i, l)
      PROVE  FALSE
  <2>1. Ord(k) <= Ord(l) - 1
    BY <1>2 DEF Open, Upto
  <2> QED BY <1>1, <1>2, <2>1 DEF Open
<1> QED BY <1>2 DEF Ended

(* What rests on where the rank stands and on its tables only. *)
Stands(L, M) ==
  /\ M.at = L.at /\ M.shared = L.shared /\ M.known = L.known /\ M.commAs = L.commAs
  /\ M.result = L.result

(* The next collective of the same half of the call. *)
LEMMA EnterStep ==
  ASSUME NEW H, NEW r, NEW L, NEW M, RankInv(H, r, L), L.pc \in Kinds, L.got # <<>>, Stands(L, M),
         M.pc \in Kinds, M.got = <<>>, (L.pc \in BKinds) <=> (M.pc \in BKinds), IsHere(M.here),
         Ord(L.pc) < Ord(M.pc), Base(H, L.at, M.pc), Goes(H, L.at, M.pc), HereRight(H, r, M)
  PROVE  RankInv(H, r, M)
<1> USE DEF Stands
<1>1. L.pc # "idle" /\ M.pc # "idle"
  BY DEF Kinds
<1>2. RankTypes(H, r, M)
  BY DEF RankInv, RankTypes
<1>3. AtRight(H, r, M)
  <2>1. Upto(H, L.at, Ord(L.pc))
    BY <1>1 DEF RankInv, AtRight
  <2>2. Upto(H, M.at, Ord(M.pc) - 1)
    <3>1. Ord(L.pc) \in Nat /\ Ord(M.pc) \in Nat /\ \A k \in Kinds : Ord(k) \in Nat
      BY Ords
    <3> QED BY <2>1, <3>1 DEF Upto
  <2>3. r \in Members(H.plan[M.at])
    BY <1>1 DEF RankInv, AtRight
  <2> QED BY <2>2, <2>3 DEF AtRight
<1>4. \A i : Past(M, i) <=> Past(L, i)
  BY <1>1 DEF Past
<1>5. PastRight(H, r, M)
  BY <1>4 DEF PastRight, RankInv
<1>6. ResultRight(H, r, M)
  BY <1>4 DEF ResultRight, RankInv
<1>7. \A j : (Holds(H, r, M, j) <=> Holds(H, r, L, j)) /\ (HoldsA(H, r, M, j) <=> HoldsA(H, r, L, j))
  BY <1>4 DEF Holds, HoldsA
<1>8. SharedRight(H, r, M)
  BY <1>7 DEF SharedRight, RankInv
<1>9. KnownRight(H, r, M)
  BY <1>7 DEF KnownRight, RankInv
<1>10. CommARight(H, r, M)
  BY <1>7 DEF CommARight, RankInv
<1> QED BY <1>2, <1>3, <1>5, <1>6, <1>8, <1>9, <1>10 DEF RankInv

(* The call returns, with tables that hold what its step formed. *)
LEMMA ReturnStep ==
  ASSUME NEW H, NEW r, NEW L, NEW M, NEW res, HistRight(H),
         RankTypes(H, r, L), PastRight(H, r, L), ResultRight(H, r, L),
         L.at \in CallsWith(H, r), M.at = L.at, M.pc = "idle", IsHere(M.here),
         M.result = [L.result EXCEPT ![L.at] = res],
         Stored(M.shared), Listed(M.known), Listed(M.commAs),
         Ended(H, L.at), Outcome(H, r, L.at, res),
         SharedRight(H, r, M), KnownRight(H, r, M), CommARight(H, r, M)
  PROVE  RankInv(H, r, M)
<1>1. L.at \in Nat /\ L.at \in DOMAIN H.plan /\ L.result = [i \in DOMAIN H.plan |-> L.result[i]]
  BY DEF RankTypes, CallsWith, CallsOf
<1>2. RankTypes(H, r, M)
  BY <1>1 DEF RankTypes
<1>3. AtRight(H, r, M)
  BY DEF AtRight
<1>4. ASSUME NEW i \in CallsWith(H, r), Past(M, i) PROVE Past(L, i) \/ i = L.at
  BY <1>4 DEF Past
<1>5. PastRight(H, r, M)
  BY <1>4 DEF PastRight, RankInv
<1>6. ResultRight(H, r, M)
  <2> SUFFICES ASSUME NEW i \in DOMAIN H.plan, M.result[i].verdict # "none"
               PROVE  i \in CallsWith(H, r) /\ Past(M, i) /\ Outcome(H, r, i, M.result[i])
    BY DEF ResultRight
  <2>1. CASE i = L.at
    <3>1. M.result[i] = res
      BY <1>1, <2>1
    <3> QED BY <2>1, <3>1 DEF Past
  <2>2. CASE i # L.at
    <3>1. M.result[i] = L.result[i]
      BY <1>1, <2>2
    <3>2. i \in CallsWith(H, r) /\ Past(L, i) /\ Outcome(H, r, i, L.result[i])
      BY <3>1 DEF RankInv, ResultRight
    <3> QED BY <2>2, <3>1, <3>2 DEF Past
  <2> QED BY <2>1, <2>2
<1> QED BY <1>2, <1>3, <1>5, <1>6 DEF RankInv

(* It returns without having formed anything in the half it is in. *)
LEMMA GiveUp ==
  ASSUME NEW H, NEW r, NEW L, NEW M, NEW res, HistRight(H), RankInv(H, r, L),
         L.pc \in Kinds, L.pc # "srcLsa", L.got # <<>>,
         M.at = L.at, M.pc = "idle", IsHere(M.here), M.result = [L.result EXCEPT ![L.at] = res],
         M.shared = L.shared, M.known = L.known, M.commAs = L.commAs,
         Ended(H, L.at), Outcome(H, r, L.at, res), L.pc \in BKinds => ~Formed(H, L.at)
  PROVE  RankInv(H, r, M)
<1>1. L.pc # "idle"
  BY DEF Kinds
<1>2. Base(H, L.at, L.pc) /\ r \in Members(H.plan[L.at]) /\ Upto(H, L.at, Ord(L.pc))
  BY <1>1 DEF RankInv, AtRight
<1>3. L.at \in CallsWith(H, r)
  BY <1>2 DEF Base, CallsWith
<1>4. ~FormedA(H, L.at)
  <2>1. Ord("srcLsa") = 10 /\ Ord(L.pc) \in 1 .. 9 /\ "srcLsa" \in Kinds
    <3>1. Ord(L.pc) \in 1 .. 9
      BY Ords DEF Kinds
    <3> QED BY <3>1, Ords DEF Kinds
  <2> QED BY <1>2, <2>1, Untold DEF FormedA
<1>5. M.pc \notin BKinds
  BY DEF BKinds
<1>6. \A j : (Holds(H, r, M, j) <=> Holds(H, r, L, j))
  BY <1>5 DEF Holds
<1>7. \A j : (HoldsA(H, r, M, j) <=> HoldsA(H, r, L, j))
  BY <1>4 DEF HoldsA, Past
<1>8. SharedRight(H, r, M)
  BY <1>6 DEF SharedRight, RankInv
<1>9. KnownRight(H, r, M)
  BY <1>6 DEF KnownRight, RankInv
<1>10. CommARight(H, r, M)
  BY <1>7 DEF CommARight, RankInv
<1>11. Stored(M.shared) /\ Listed(M.known) /\ Listed(M.commAs)
  BY DEF RankInv, RankTypes
<1>12. RankTypes(H, r, L) /\ PastRight(H, r, L) /\ ResultRight(H, r, L)
  BY DEF RankInv
<1> QED BY <1>3, <1>8, <1>9, <1>10, <1>11, <1>12, ReturnStep, SMTT(30)

(* The greatest value is the same for everyone. *)
LEMMA SameTop ==
  ASSUME NEW r, got[r] = said[at[r]][pc[r]]
  PROVE  /\ Heard(r) = Said(Hist, at[r], pc[r]) /\ MaxHeard(r) = Top(Hist, at[r], pc[r])
         /\ Fresh(r) = said[at[r]][pc[r]][2]
BY DEF Heard, Fresh, MaxHeard, Said, Top, MaxOf, Hist

-----------------------------------------------------------------------------
(* The same for what the actions set; the locals of a call. *)

(* A rank enters a collective, or returns; nothing else of it changes, and nothing of the *)
(* others.                                                                                *)
EnteredAs(r, k, v, h) ==
  [at |-> at[r], pc |-> k, ask |-> v, got |-> <<>>, here |-> h, shared |-> shared[r],
   known |-> known[r], commAs |-> commAs[r], result |-> result[r]]
ReturnedAs(r, res) ==
  [at |-> at[r], pc |-> "idle", ask |-> <<>>, got |-> <<>>, here |-> Nothing, shared |-> shared[r],
   known |-> known[r], commAs |-> commAs[r], result |-> [result[r] EXCEPT ![at[r]] = res]]
OneMoves(r, M) ==
  /\ Hist' = Hist /\ minted' = minted /\ Local(r)' = M
  /\ \A q \in Processes : q # r => Local(q)' = Local(q)

LEMMA Entered ==
  ASSUME SplitAssumption,
         IInv, NEW r \in Processes, Stay, UNCHANGED result, NEW k, NEW v, NEW h, Enter(r, k, v),
         here' = [here EXCEPT ![r] = h], RankInv(Hist, r, EnteredAs(r, k, v, h))
  PROVE  IInv' /\ OneMoves(r, EnteredAs(r, k, v, h))
<1> DEFINE M == EnteredAs(r, k, v, h)
<1>1. /\ M.at = at[r] /\ M.pc = k /\ M.ask = v /\ M.got = <<>> /\ M.here = h /\ M.shared = shared[r]
      /\ M.known = known[r] /\ M.commAs = commAs[r] /\ M.result = result[r]
      /\ M = [at |-> M.at, pc |-> M.pc, ask |-> M.ask, got |-> M.got, here |-> M.here,
              shared |-> M.shared, known |-> M.known, commAs |-> M.commAs, result |-> M.result]
  BY DEF EnteredAs
<1>2. Domains /\ UNCHANGED <<plan, pack, said, minted>>
  BY DEF IInv, Stay, tableVars
<1>3. /\ at' = [at EXCEPT ![r] = at[r]] /\ shared' = [shared EXCEPT ![r] = shared[r]]
      /\ known' = [known EXCEPT ![r] = known[r]] /\ commAs' = [commAs EXCEPT ![r] = commAs[r]]
      /\ result' = [result EXCEPT ![r] = result[r]]
  BY <1>2 DEF Stay, tableVars, Domains
<1>4. pc' = [pc EXCEPT ![r] = k] /\ ask' = [ask EXCEPT ![r] = v] /\ got' = [got EXCEPT ![r] = <<>>]
  BY DEF Enter
<1>5. at[r] \in Nat
  BY DEF IInv, RankInv, RankTypes, Local
<1> HIDE DEF M
<1>6. RankInv(Hist, r, M)
  BY DEF M
<1>8. M.at >= at[r]
  BY <1>1, <1>5
<1>9. /\ at' = [at EXCEPT ![r] = M.at] /\ pc' = [pc EXCEPT ![r] = M.pc]
      /\ ask' = [ask EXCEPT ![r] = M.ask] /\ got' = [got EXCEPT ![r] = M.got]
      /\ here' = [here EXCEPT ![r] = M.here] /\ shared' = [shared EXCEPT ![r] = M.shared]
      /\ known' = [known EXCEPT ![r] = M.known] /\ commAs' = [commAs EXCEPT ![r] = M.commAs]
      /\ result' = [result EXCEPT ![r] = M.result]
  BY <1>1, <1>3, <1>4
<1>7. IInv' /\ Hist' = Hist /\ Local(r)' = M /\ \A q \in Processes : q # r => Local(q)' = Local(q)
  BY <1>1, <1>2, <1>6, <1>8, <1>9, RankStep
<1> QED BY <1>2, <1>7 DEF M, OneMoves

LEMMA Returned ==
  ASSUME SplitAssumption, IInv, NEW r \in Processes, Stay, NEW res, Return(r, at[r], res),
         RankInv(Hist, r, ReturnedAs(r, res))
  PROVE  IInv' /\ OneMoves(r, ReturnedAs(r, res))
<1> DEFINE M == ReturnedAs(r, res)
<1>1. /\ M.at = at[r] /\ M.pc = "idle" /\ M.ask = <<>> /\ M.got = <<>> /\ M.here = Nothing
      /\ M.shared = shared[r] /\ M.known = known[r] /\ M.commAs = commAs[r]
      /\ M.result = [result[r] EXCEPT ![at[r]] = res]
      /\ M = [at |-> M.at, pc |-> M.pc, ask |-> M.ask, got |-> M.got, here |-> M.here,
              shared |-> M.shared, known |-> M.known, commAs |-> M.commAs, result |-> M.result]
  BY DEF ReturnedAs
<1>2. Domains /\ UNCHANGED <<plan, pack, said, minted>>
  BY DEF IInv, Stay, tableVars
<1>3. /\ at' = [at EXCEPT ![r] = at[r]] /\ shared' = [shared EXCEPT ![r] = shared[r]]
      /\ known' = [known EXCEPT ![r] = known[r]] /\ commAs' = [commAs EXCEPT ![r] = commAs[r]]
      /\ result' = [result EXCEPT ![r] = [result[r] EXCEPT ![at[r]] = res]]
  BY <1>2 DEF Stay, tableVars, Domains, Return
<1>4. /\ pc' = [pc EXCEPT ![r] = "idle"] /\ ask' = [ask EXCEPT ![r] = <<>>]
      /\ got' = [got EXCEPT ![r] = <<>>] /\ here' = [here EXCEPT ![r] = Nothing]
  BY DEF Return
<1>5. at[r] \in Nat
  BY DEF IInv, RankInv, RankTypes, Local
<1> HIDE DEF M
<1>6. RankInv(Hist, r, M)
  BY DEF M
<1>8. M.at >= at[r]
  BY <1>1, <1>5
<1>9. /\ at' = [at EXCEPT ![r] = M.at] /\ pc' = [pc EXCEPT ![r] = M.pc]
      /\ ask' = [ask EXCEPT ![r] = M.ask] /\ got' = [got EXCEPT ![r] = M.got]
      /\ here' = [here EXCEPT ![r] = M.here] /\ shared' = [shared EXCEPT ![r] = M.shared]
      /\ known' = [known EXCEPT ![r] = M.known] /\ commAs' = [commAs EXCEPT ![r] = M.commAs]
      /\ result' = [result EXCEPT ![r] = M.result]
  BY <1>1, <1>3, <1>4
<1>7. IInv' /\ Hist' = Hist /\ Local(r)' = M /\ \A q \in Processes : q # r => Local(q)' = Local(q)
  BY <1>1, <1>2, <1>6, <1>8, <1>9, RankStep
<1> QED BY <1>2, <1>7 DEF M, OneMoves

(* What is known of a rank that has heard. *)
LEMMA HeardFacts ==
  ASSUME IInv, NEW r \in Processes, NEW k \in Kinds, After(r, k)
  PROVE  /\ pc[r] = k /\ got[r] # <<>> /\ got[r] = said[at[r]][k] /\ pc[r] # "idle"
         /\ RankInv(Hist, r, Local(r)) /\ HistRight(Hist)
         /\ Told(Hist, at[r], k) /\ Upto(Hist, at[r], Ord(k)) /\ at[r] \in CallsWith(Hist, r)
         /\ Base(Hist, at[r], k) /\ Goes(Hist, at[r], k) /\ HereRight(Hist, r, Local(r))
         /\ at[r] \in Steps /\ at[r] \in Nat /\ Hist.plan = plan /\ Hist.pack = pack /\ Hist.said = said
         /\ \A l \in Kinds : Ord(l) > Ord(k) => ~Told(Hist, at[r], l)
<1> DEFINE L == Local(r)
<1>0. L.at = at[r] /\ L.pc = pc[r] /\ L.got = got[r] /\ L.result = result[r]
  BY DEF Local
<1>1. pc[r] = k /\ got[r] # <<>> /\ pc[r] # "idle"
  BY DEF After, Kinds
<1>2. RankInv(Hist, r, L) /\ HistRight(Hist)
  BY DEF IInv
<1>3. Hist.plan = plan /\ Hist.pack = pack /\ Hist.said = said
  BY DEF Hist
<1>4. /\ got[r] = said[at[r]][k] /\ Upto(Hist, at[r], Ord(k)) /\ Base(Hist, at[r], k)
      /\ Goes(Hist, at[r], k) /\ HereRight(Hist, r, L) /\ r \in Members(plan[at[r]])
  <2> HIDE DEF L
  <2> QED BY <1>0, <1>1, <1>2, <1>3 DEF RankInv, AtRight
<1>5. at[r] \in CallsWith(Hist, r) /\ at[r] \in Steps /\ at[r] \in Nat
  BY <1>0, <1>2, <1>3, <1>4 DEF Base, CallsWith, CallsOf, Steps, RankInv, RankTypes
<1>6. Told(Hist, at[r], k)
  BY <1>1, <1>3, <1>4 DEF Told
<1>7. \A l \in Kinds : Ord(l) > Ord(k) => ~Told(Hist, at[r], l)
  BY <1>4, Untold, Ords
<1> QED BY <1>1, <1>2, <1>3, <1>4, <1>5, <1>6, <1>7

(* No collective after k is next. *)
NoNext(H, i, k) == \A l \in Kinds : Ord(l) > Ord(k) => ~Goes(H, i, l)

LEMMA Unanswered == IsHere(Nothing) /\ Parent.verdict = "parent" /\ Failed.verdict = "failed"
BY DEF IsHere, Nothing, Parent, Failed

(* The same for the actions that return without a communicator. *)
LEMMA GivesUp ==
  ASSUME SplitAssumption,
         IInv, NEW r \in Processes, NEW k \in Kinds, After(r, k), k # "srcLsa", NEW res,
         Stay, Return(r, at[r], res), NoNext(Hist, at[r], k), Outcome(Hist, r, at[r], res),
         k \in BKinds => ~Formed(Hist, at[r])
  PROVE  IInv' /\ OneMoves(r, ReturnedAs(r, res))
<1> DEFINE L == Local(r)
           M == ReturnedAs(r, res)
<1>0. /\ L.at = at[r] /\ L.pc = pc[r] /\ L.got = got[r] /\ L.result = result[r] /\ L.shared = shared[r]
      /\ L.known = known[r] /\ L.commAs = commAs[r]
  BY DEF Local
<1>1. /\ M.at = at[r] /\ M.pc = "idle" /\ M.here = Nothing
      /\ M.shared = shared[r] /\ M.known = known[r] /\ M.commAs = commAs[r]
      /\ M.result = [result[r] EXCEPT ![at[r]] = res]
  BY DEF ReturnedAs
<1>2. /\ pc[r] = k /\ got[r] # <<>> /\ RankInv(Hist, r, L) /\ HistRight(Hist)
      /\ Told(Hist, at[r], k) /\ Upto(Hist, at[r], Ord(k))
  BY HeardFacts
<1>3. Ended(Hist, at[r])
  BY <1>2, EndsAt DEF NoNext
<1> HIDE DEF L, M
<1>4. RankInv(Hist, r, M)
  BY <1>0, <1>1, <1>2, <1>3, GiveUp, Unanswered
<1> QED BY <1>4, Returned DEF M

(* The same for the actions that enter the next collective. *)
LEMMA Enters ==
  ASSUME SplitAssumption, IInv, NEW r \in Processes, NEW k \in Kinds, After(r, k), NEW l \in Kinds,
         (k \in BKinds) <=> (l \in BKinds), Ord(k) < Ord(l), NEW v, NEW h, IsHere(h),
         Stay, UNCHANGED result, Enter(r, l, v), here' = [here EXCEPT ![r] = h],
         Base(Hist, at[r], l), Goes(Hist, at[r], l), HereRight(Hist, r, EnteredAs(r, l, v, h))
  PROVE  IInv' /\ OneMoves(r, EnteredAs(r, l, v, h))
<1> DEFINE L == Local(r)
           M == EnteredAs(r, l, v, h)
<1>0. /\ L.at = at[r] /\ L.pc = pc[r] /\ L.got = got[r] /\ L.result = result[r] /\ L.shared = shared[r]
      /\ L.known = known[r] /\ L.commAs = commAs[r]
  BY DEF Local
<1>1. /\ M.at = at[r] /\ M.pc = l /\ M.here = h /\ M.got = <<>>
      /\ M.shared = shared[r] /\ M.known = known[r] /\ M.commAs = commAs[r] /\ M.result = result[r]
  BY DEF EnteredAs
<1>2. pc[r] = k /\ got[r] # <<>> /\ RankInv(Hist, r, L)
  BY HeardFacts
<1>3. HereRight(Hist, r, M)
  OBVIOUS
<1> HIDE DEF L, M
<1>4. RankInv(Hist, r, M)
  BY <1>0, <1>1, <1>2, <1>3, EnterStep DEF Stands
<1> QED BY <1>4, Entered DEF M

(* The locals of a call, some of them set. *)
LEMMA SetLane ==
  ASSUME NEW h, IsHere(h), NEW x, NEW g, g = [h EXCEPT !.lane = x]
  PROVE  /\ IsHere(g) /\ g.lane = x /\ g.reuse = h.reuse /\ g.commB = h.commB /\ g.owner = h.owner
         /\ g.lsa = h.lsa /\ g.ns = h.ns /\ g.srcLsa = h.srcLsa /\ g.commA = h.commA
<1> DEFINE k == [lane |-> h.lane, reuse |-> h.reuse, commB |-> h.commB, owner |-> h.owner, lsa |-> h.lsa,
             ns |-> h.ns, srcLsa |-> h.srcLsa, commA |-> h.commA]
           l == [lane |-> x, reuse |-> h.reuse, commB |-> h.commB, owner |-> h.owner, lsa |-> h.lsa,
             ns |-> h.ns, srcLsa |-> h.srcLsa, commA |-> h.commA]
<1>1. h = k
  BY DEF IsHere
<1>2. g = [k EXCEPT !.lane = x]
  BY <1>1
<1>3. [k EXCEPT !.lane = x] = l
  OBVIOUS
<1>4. g = l
  BY <1>2, <1>3
<1> HIDE DEF k
<1>5. /\ g.lane = x /\ g.reuse = h.reuse /\ g.commB = h.commB /\ g.owner = h.owner
      /\ g.lsa = h.lsa /\ g.ns = h.ns /\ g.srcLsa = h.srcLsa /\ g.commA = h.commA
  BY <1>4
<1> QED BY <1>4, <1>5 DEF IsHere

LEMMA SetReuse ==
  ASSUME NEW h, IsHere(h), NEW x, NEW g, g = [h EXCEPT !.reuse = x]
  PROVE  /\ IsHere(g) /\ g.lane = h.lane /\ g.reuse = x /\ g.commB = h.commB /\ g.owner = h.owner
         /\ g.lsa = h.lsa /\ g.ns = h.ns /\ g.srcLsa = h.srcLsa /\ g.commA = h.commA
<1> DEFINE k == [lane |-> h.lane, reuse |-> h.reuse, commB |-> h.commB, owner |-> h.owner, lsa |-> h.lsa,
             ns |-> h.ns, srcLsa |-> h.srcLsa, commA |-> h.commA]
           l == [lane |-> h.lane, reuse |-> x, commB |-> h.commB, owner |-> h.owner, lsa |-> h.lsa,
             ns |-> h.ns, srcLsa |-> h.srcLsa, commA |-> h.commA]
<1>1. h = k
  BY DEF IsHere
<1>2. g = [k EXCEPT !.reuse = x]
  BY <1>1
<1>3. [k EXCEPT !.reuse = x] = l
  OBVIOUS
<1>4. g = l
  BY <1>2, <1>3
<1> HIDE DEF k
<1>5. /\ g.lane = h.lane /\ g.reuse = x /\ g.commB = h.commB /\ g.owner = h.owner
      /\ g.lsa = h.lsa /\ g.ns = h.ns /\ g.srcLsa = h.srcLsa /\ g.commA = h.commA
  BY <1>4
<1> QED BY <1>4, <1>5 DEF IsHere

LEMMA SetLsa ==
  ASSUME NEW h, IsHere(h), NEW x, NEW g, g = [h EXCEPT !.lsa = x]
  PROVE  /\ IsHere(g) /\ g.lane = h.lane /\ g.reuse = h.reuse /\ g.commB = h.commB /\ g.owner = h.owner
         /\ g.lsa = x /\ g.ns = h.ns /\ g.srcLsa = h.srcLsa /\ g.commA = h.commA
<1> DEFINE k == [lane |-> h.lane, reuse |-> h.reuse, commB |-> h.commB, owner |-> h.owner, lsa |-> h.lsa,
             ns |-> h.ns, srcLsa |-> h.srcLsa, commA |-> h.commA]
           l == [lane |-> h.lane, reuse |-> h.reuse, commB |-> h.commB, owner |-> h.owner, lsa |-> x,
             ns |-> h.ns, srcLsa |-> h.srcLsa, commA |-> h.commA]
<1>1. h = k
  BY DEF IsHere
<1>2. g = [k EXCEPT !.lsa = x]
  BY <1>1
<1>3. [k EXCEPT !.lsa = x] = l
  OBVIOUS
<1>4. g = l
  BY <1>2, <1>3
<1> HIDE DEF k
<1>5. /\ g.lane = h.lane /\ g.reuse = h.reuse /\ g.commB = h.commB /\ g.owner = h.owner
      /\ g.lsa = x /\ g.ns = h.ns /\ g.srcLsa = h.srcLsa /\ g.commA = h.commA
  BY <1>4
<1> QED BY <1>4, <1>5 DEF IsHere

LEMMA SetCommA ==
  ASSUME NEW h, IsHere(h), NEW x, NEW g, g = [h EXCEPT !.commA = x]
  PROVE  /\ IsHere(g) /\ g.lane = h.lane /\ g.reuse = h.reuse /\ g.commB = h.commB /\ g.owner = h.owner
         /\ g.lsa = h.lsa /\ g.ns = h.ns /\ g.srcLsa = h.srcLsa /\ g.commA = x
<1> DEFINE k == [lane |-> h.lane, reuse |-> h.reuse, commB |-> h.commB, owner |-> h.owner, lsa |-> h.lsa,
             ns |-> h.ns, srcLsa |-> h.srcLsa, commA |-> h.commA]
           l == [lane |-> h.lane, reuse |-> h.reuse, commB |-> h.commB, owner |-> h.owner, lsa |-> h.lsa,
             ns |-> h.ns, srcLsa |-> h.srcLsa, commA |-> x]
<1>1. h = k
  BY DEF IsHere
<1>2. g = [k EXCEPT !.commA = x]
  BY <1>1
<1>3. [k EXCEPT !.commA = x] = l
  OBVIOUS
<1>4. g = l
  BY <1>2, <1>3
<1> HIDE DEF k
<1>5. /\ g.lane = h.lane /\ g.reuse = h.reuse /\ g.commB = h.commB /\ g.owner = h.owner
      /\ g.lsa = h.lsa /\ g.ns = h.ns /\ g.srcLsa = h.srcLsa /\ g.commA = x
  BY <1>4
<1> QED BY <1>4, <1>5 DEF IsHere

LEMMA SetCommB ==
  ASSUME NEW h, IsHere(h), NEW x, NEW g, g = [h EXCEPT !.commB = x]
  PROVE  /\ IsHere(g) /\ g.lane = h.lane /\ g.reuse = h.reuse /\ g.commB = x /\ g.owner = h.owner
         /\ g.lsa = h.lsa /\ g.ns = h.ns /\ g.srcLsa = h.srcLsa /\ g.commA = h.commA
<1> DEFINE k == [lane |-> h.lane, reuse |-> h.reuse, commB |-> h.commB, owner |-> h.owner, lsa |-> h.lsa,
             ns |-> h.ns, srcLsa |-> h.srcLsa, commA |-> h.commA]
           l == [lane |-> h.lane, reuse |-> h.reuse, commB |-> x, owner |-> h.owner, lsa |-> h.lsa,
             ns |-> h.ns, srcLsa |-> h.srcLsa, commA |-> h.commA]
<1>1. h = k
  BY DEF IsHere
<1>2. g = [k EXCEPT !.commB = x]
  BY <1>1
<1>3. [k EXCEPT !.commB = x] = l
  OBVIOUS
<1>4. g = l
  BY <1>2, <1>3
<1> HIDE DEF k
<1>5. /\ g.lane = h.lane /\ g.reuse = h.reuse /\ g.commB = x /\ g.owner = h.owner
      /\ g.lsa = h.lsa /\ g.ns = h.ns /\ g.srcLsa = h.srcLsa /\ g.commA = h.commA
  BY <1>4
<1> QED BY <1>4, <1>5 DEF IsHere

LEMMA SetOwner ==
  ASSUME NEW h, IsHere(h), NEW x, NEW g, g = [h EXCEPT !.owner = x]
  PROVE  /\ IsHere(g) /\ g.lane = h.lane /\ g.reuse = h.reuse /\ g.commB = h.commB /\ g.owner = x
         /\ g.lsa = h.lsa /\ g.ns = h.ns /\ g.srcLsa = h.srcLsa /\ g.commA = h.commA
<1> DEFINE k == [lane |-> h.lane, reuse |-> h.reuse, commB |-> h.commB, owner |-> h.owner, lsa |-> h.lsa,
             ns |-> h.ns, srcLsa |-> h.srcLsa, commA |-> h.commA]
           l == [lane |-> h.lane, reuse |-> h.reuse, commB |-> h.commB, owner |-> x, lsa |-> h.lsa,
             ns |-> h.ns, srcLsa |-> h.srcLsa, commA |-> h.commA]
<1>1. h = k
  BY DEF IsHere
<1>2. g = [k EXCEPT !.owner = x]
  BY <1>1
<1>3. [k EXCEPT !.owner = x] = l
  OBVIOUS
<1>4. g = l
  BY <1>2, <1>3
<1> HIDE DEF k
<1>5. /\ g.lane = h.lane /\ g.reuse = h.reuse /\ g.commB = h.commB /\ g.owner = x
      /\ g.lsa = h.lsa /\ g.ns = h.ns /\ g.srcLsa = h.srcLsa /\ g.commA = h.commA
  BY <1>4
<1> QED BY <1>4, <1>5 DEF IsHere

LEMMA SetNs ==
  ASSUME NEW h, IsHere(h), NEW x, NEW g, g = [h EXCEPT !.ns = x]
  PROVE  /\ IsHere(g) /\ g.lane = h.lane /\ g.reuse = h.reuse /\ g.commB = h.commB /\ g.owner = h.owner
         /\ g.lsa = h.lsa /\ g.ns = x /\ g.srcLsa = h.srcLsa /\ g.commA = h.commA
<1> DEFINE k == [lane |-> h.lane, reuse |-> h.reuse, commB |-> h.commB, owner |-> h.owner, lsa |-> h.lsa,
             ns |-> h.ns, srcLsa |-> h.srcLsa, commA |-> h.commA]
           l == [lane |-> h.lane, reuse |-> h.reuse, commB |-> h.commB, owner |-> h.owner, lsa |-> h.lsa,
             ns |-> x, srcLsa |-> h.srcLsa, commA |-> h.commA]
<1>1. h = k
  BY DEF IsHere
<1>2. g = [k EXCEPT !.ns = x]
  BY <1>1
<1>3. [k EXCEPT !.ns = x] = l
  OBVIOUS
<1>4. g = l
  BY <1>2, <1>3
<1> HIDE DEF k
<1>5. /\ g.lane = h.lane /\ g.reuse = h.reuse /\ g.commB = h.commB /\ g.owner = h.owner
      /\ g.lsa = h.lsa /\ g.ns = x /\ g.srcLsa = h.srcLsa /\ g.commA = h.commA
  BY <1>4
<1> QED BY <1>4, <1>5 DEF IsHere

LEMMA SetOnB ==
  ASSUME NEW h, IsHere(h), NEW x, NEW y
  PROVE  /\ IsHere(OnB(h, x, y)) /\ OnB(h, x, y).commB = x /\ OnB(h, x, y).owner = y
         /\ OnB(h, x, y).lane = h.lane /\ OnB(h, x, y).reuse = h.reuse /\ OnB(h, x, y).lsa = h.lsa
<1> DEFINE g == [h EXCEPT !.commB = x]
           k == [g EXCEPT !.owner = y]
<1>1. OnB(h, x, y) = k
  BY DEF OnB
<1>2. /\ IsHere(g) /\ g.lane = h.lane /\ g.reuse = h.reuse /\ g.commB = x /\ g.lsa = h.lsa
  BY SetCommB
<1> HIDE DEF g
<1>3. /\ IsHere(k) /\ k.lane = g.lane /\ k.reuse = g.reuse /\ k.commB = g.commB /\ k.lsa = g.lsa
      /\ k.owner = y
  BY <1>2, SetOwner
<1> QED BY <1>1, <1>2, <1>3

LEMMA SetFound ==
  ASSUME NEW h, IsHere(h), NEW b
  PROVE  /\ IsHere(Found(h, b)) /\ Found(h, b).commB = b.commB /\ Found(h, b).lsa = b.lsa
         /\ Found(h, b).lane = b.lane /\ Found(h, b).ns = b.ns /\ Found(h, b).owner = b.owner
<1> DEFINE g1 == [h EXCEPT !.commB = b.commB]
           g2 == [g1 EXCEPT !.lsa = b.lsa]
           g3 == [g2 EXCEPT !.lane = b.lane]
           g4 == [g3 EXCEPT !.ns = b.ns]
           g5 == [g4 EXCEPT !.owner = b.owner]
<1>1. Found(h, b) = g5
  BY DEF Found
<1>2. IsHere(g1) /\ g1.commB = b.commB
  BY SetCommB
<1>3. g2 = [g1 EXCEPT !.lsa = b.lsa]
  OBVIOUS
<1>4. g3 = [g2 EXCEPT !.lane = b.lane]
  OBVIOUS
<1>5. g4 = [g3 EXCEPT !.ns = b.ns]
  OBVIOUS
<1>6. g5 = [g4 EXCEPT !.owner = b.owner]
  OBVIOUS
<1> HIDE DEF g1, g2, g3, g4, g5
<1>7. IsHere(g2) /\ g2.commB = b.commB /\ g2.lsa = b.lsa
  BY <1>2, <1>3, SetLsa
<1>8. IsHere(g3) /\ g3.commB = b.commB /\ g3.lsa = b.lsa /\ g3.lane = b.lane
  BY <1>4, <1>7, SetLane
<1>9. IsHere(g4) /\ g4.commB = b.commB /\ g4.lsa = b.lsa /\ g4.lane = b.lane /\ g4.ns = b.ns
  BY <1>5, <1>8, SetNs
<1>10. /\ IsHere(g5) /\ g5.owner = b.owner /\ g5.commB = g4.commB /\ g5.lsa = g4.lsa
       /\ g5.lane = g4.lane /\ g5.ns = g4.ns
  BY <1>6, <1>9, SetOwner
<1> QED BY <1>1, <1>9, <1>10

LEMMA KeepsHere ==
  ASSUME IInv, NEW r \in Processes, UNCHANGED here
  PROVE  here' = [here EXCEPT ![r] = here[r]]
BY DEF IInv, Domains

LEMMA HereShape ==
  ASSUME IInv, NEW r \in Processes
  PROVE  IsHere(here[r])
BY DEF IInv, RankInv, RankTypes, Local

-----------------------------------------------------------------------------
(* The searched tables.  The votes on parents, lanes and the pool. *)

LEMMA MinIn ==
  ASSUME NEW I \in SUBSET Nat, I # {}
  PROVE  Min(I) \in I /\ \A n \in I : Min(I) <= n
BY Lowest DEF Min

(* What a search of a table finds is there, and is found if it is there. *)
LEMMA FoundShared ==
  ASSUME NEW r, Listed(shared[r]), NEW s
  PROVE  /\ FindShared(r, s) # 0 => /\ FindShared(r, s) \in DOMAIN shared[r]
                                    /\ shared[r][FindShared(r, s)].geometry = Geometry(s)
         /\ FindShared(r, s) = 0 => \A n \in DOMAIN shared[r] : shared[r][n].geometry # Geometry(s)
<1> DEFINE I == {n \in 1 .. Len(shared[r]) : shared[r][n].geometry = Geometry(s)}
<1>1. DOMAIN shared[r] = 1 .. Len(shared[r]) /\ I \in SUBSET Nat /\ 0 \notin I
  BY DEF Listed
<1>2. FindShared(r, s) = IF I # {} THEN Min(I) ELSE 0
  BY DEF FindShared, SelectInSeq
<1>3. I # {} => Min(I) \in I
  BY <1>1, MinIn
<1> QED BY <1>1, <1>2, <1>3

LEMMA FoundKnown ==
  ASSUME NEW r, Listed(known[r]), NEW s
  PROVE  FindKnown(r, s) # 0 <=> \E n \in DOMAIN known[r] : known[r][n].geometry = Geometry(s)
<1> DEFINE I == {n \in 1 .. Len(known[r]) : known[r][n].geometry = Geometry(s)}
<1>1. DOMAIN known[r] = 1 .. Len(known[r]) /\ I \in SUBSET Nat /\ 0 \notin I
  BY DEF Listed
<1>2. FindKnown(r, s) = IF I # {} THEN Min(I) ELSE 0
  BY DEF FindKnown, SelectInSeq
<1>3. I # {} => Min(I) \in I
  BY <1>1, MinIn
<1> QED BY <1>1, <1>2, <1>3

LEMMA FoundOwner ==
  ASSUME NEW r, Listed(shared[r]), NEW s
  PROVE  /\ FindOwner(r, s) # 0 => /\ FindOwner(r, s) \in DOMAIN shared[r]
                                   /\ shared[r][FindOwner(r, s)].owns
                                   /\ shared[r][FindOwner(r, s)].geometry[3] = s.gens
         /\ FindOwner(r, s) = 0 =>
              \A n \in DOMAIN shared[r] : ~(shared[r][n].owns /\ shared[r][n].geometry[3] = s.gens)
<1> DEFINE I == {n \in 1 .. Len(shared[r]) : shared[r][n].owns /\ shared[r][n].geometry[3] = s.gens}
<1>1. DOMAIN shared[r] = 1 .. Len(shared[r]) /\ I \in SUBSET Nat /\ 0 \notin I
  BY DEF Listed
<1>2. FindOwner(r, s) = IF I # {} THEN Min(I) ELSE 0
  BY DEF FindOwner, SelectInSeq
<1>3. I # {} => Min(I) \in I
  BY <1>1, MinIn
<1> QED BY <1>1, <1>2, <1>3

LEMMA FoundCommA ==
  ASSUME NEW r, Listed(commAs[r]), NEW s, CommAFor(r, s) # {},
         \A n \in DOMAIN commAs[r] : commAs[r][n].k \in Nat
  PROVE  /\ FindCommA(r, s) \in CommAFor(r, s)
         /\ \A n \in CommAFor(r, s) : commAs[r][FindCommA(r, s)].k <= commAs[r][n].k
<1> DEFINE T == {commAs[r][n].k : n \in CommAFor(r, s)}
<1>1. T \in SUBSET Nat /\ T # {}
  BY DEF CommAFor
<1>2. PICK m \in T : \A n \in T : m <= n
  BY <1>1, Lowest
<1>3. PICK c \in CommAFor(r, s) : commAs[r][c].k = m
  BY <1>2
<1>4. \A n \in CommAFor(r, s) : commAs[r][c].k <= commAs[r][n].k
  BY <1>2, <1>3
<1> QED BY <1>3, <1>4 DEF FindCommA

(* At a call that looks for commB the tables do not have this geometry. *)
LEMMA NotShared ==
  ASSUME SplitAssumption, IInv, NEW r \in Processes, pc[r] \in BKinds, Base(Hist, at[r], pc[r])
  PROVE  FindShared(r, MyCall(r)) = 0 /\ \A j \in CallsOf(Hist) : Holds(Hist, r, Local(r), j) => j < at[r]
<1> DEFINE L == Local(r)
<1>0. /\ L.at = at[r] /\ L.pc = pc[r] /\ L.shared = shared[r]
  BY DEF Local
<1>1. RankInv(Hist, r, L) /\ HistRight(Hist) /\ Hist.plan = plan
  BY DEF IInv, Hist
<1>2. Listed(shared[r]) /\ SharedRight(Hist, r, L)
  BY <1>0, <1>1 DEF RankInv, RankTypes, Stored
<1> HIDE DEF L
<1>3. ASSUME NEW j \in CallsOf(Hist), Holds(Hist, r, L, j)
      PROVE  j < at[r] /\ ~SameGeometry(Hist, j, at[r])
  <2>1. at[r] \in CallsOf(Hist) /\ ~KnownBefore(Hist, at[r])
    BY DEF Base
  <2>2. j \in Nat /\ at[r] \in Nat
    BY <1>1, <2>1, PlanFacts DEF HistRight
  <2>3. j < at[r]
    BY <1>0, <1>3, <2>2 DEF Holds
  <2>4. ASSUME SameGeometry(Hist, j, at[r]) PROVE FALSE
    <3>1. r \in Members(Hist.plan[at[r]])
      BY <1>3, <2>4, GeometryGives DEF Holds, CallsWith
    <3>2. Whole(Hist, Members(Hist.plan[at[r]]), j, at[r])
      BY <1>0, <1>1, <1>3, <2>1, <2>3, <2>4, <3>1, WholeRank DEF Holds, HistRight
    <3>3. Source(Hist, j, at[r])
      BY <1>3, <2>2, <2>3, <2>4, <3>2 DEF Source, Holds
    <3> QED BY <2>1, <2>3, <3>3 DEF KnownBefore
  <2> QED BY <2>3, <2>4
<1>4. \A n \in DOMAIN shared[r] : shared[r][n].geometry # Geometry(MyCall(r))
  <2> SUFFICES ASSUME NEW n \in DOMAIN shared[r], shared[r][n].geometry = Geometry(MyCall(r))
               PROVE  FALSE
    OBVIOUS
  <2>1. PICK j \in CallsOf(Hist) : Holds(Hist, r, L, j) /\ EntryOf(Hist, r, j, shared[r][n])
    BY <1>0, <1>2 DEF SharedRight
  <2>2. SameGeometry(Hist, j, at[r])
    BY <1>1, <2>1 DEF EntryOf, SameGeometry, MyCall
  <2> QED BY <1>3, <2>1, <2>2
<1> QED BY <1>2, <1>3, <1>4, FoundShared DEF L

(* A generator finds an owner of its group exactly when it has one. *)
LEMMA OwnerFound ==
  ASSUME SplitAssumption,
         IInv, NEW r \in Processes, pc[r] \in BKinds, Base(Hist, at[r], pc[r]), IsGen(r)
  PROVE  /\ FindOwner(r, MyCall(r)) # 0 <=> HasOwner(Hist, r, at[r])
         /\ FindOwner(r, MyCall(r)) # 0 =>
              /\ FindOwner(r, MyCall(r)) \in DOMAIN shared[r]
              /\ \E o \in CallsOf(Hist) :
                   /\ Owns(Hist, r, o, at[r]) /\ Holds(Hist, r, Local(r), o)
                   /\ EntryOf(Hist, r, o, shared[r][FindOwner(r, MyCall(r))])
<1> DEFINE L == Local(r)
           n == FindOwner(r, MyCall(r))
<1>0. /\ L.at = at[r] /\ L.pc = pc[r] /\ L.shared = shared[r]
  BY DEF Local
<1>1. RankInv(Hist, r, L) /\ HistRight(Hist) /\ Hist.plan = plan
  BY DEF IInv, Hist
<1>2. Listed(shared[r]) /\ SharedRight(Hist, r, L)
  BY <1>0, <1>1 DEF RankInv, RankTypes, Stored
<1>3. at[r] \in CallsOf(Hist) /\ r \in Gens(Hist.plan[at[r]]) /\ MyCall(r) = Hist.plan[at[r]]
  BY <1>1 DEF Base, IsGen, MyCall, Gens
<1>4. \A j \in CallsOf(Hist) : Holds(Hist, r, L, j) => j < at[r]
  BY NotShared
<1> HIDE DEF L
<1>5. ASSUME NEW j \in CallsOf(Hist)
      PROVE  Geometry(Hist.plan[j])[3] = Hist.plan[j].gens
  BY DEF Geometry
<1>6. ASSUME n # 0
      PROVE  /\ n \in DOMAIN shared[r]
             /\ \E o \in CallsOf(Hist) : /\ Owns(Hist, r, o, at[r]) /\ Holds(Hist, r, L, o)
                                         /\ EntryOf(Hist, r, o, shared[r][n])
  <2>1. n \in DOMAIN shared[r] /\ shared[r][n].owns /\ shared[r][n].geometry[3] = Hist.plan[at[r]].gens
    BY <1>2, <1>3, <1>6, FoundOwner
  <2> HIDE DEF n
  <2>2. PICK o \in CallsOf(Hist) : Holds(Hist, r, L, o) /\ EntryOf(Hist, r, o, shared[r][n])
    BY <1>0, <1>2, <2>1 DEF SharedRight
  <2>3. Hist.plan[o].gens = Hist.plan[at[r]].gens /\ ~Reuses(Hist, o)
    BY <1>5, <2>1, <2>2 DEF EntryOf
  <2>4. Owns(Hist, r, o, at[r])
    BY <1>0, <1>4, <2>2, <2>3 DEF Owns, Holds
  <2> QED BY <2>1, <2>2, <2>4
<1>7. ASSUME HasOwner(Hist, r, at[r]), n = 0 PROVE FALSE
  <2>1. PICK o \in CallsOf(Hist) : Owns(Hist, r, o, at[r])
    BY <1>7 DEF HasOwner
  <2>2. r \in Gens(Hist.plan[o]) /\ r \in Members(Hist.plan[o])
    BY <1>1, <1>3, <2>1, PlanFacts DEF Owns, Gens, HistRight
  <2>3. o \in Nat /\ at[r] \in Nat
    BY <1>1, <1>3, PlanFacts DEF HistRight
  <2>4. Holds(Hist, r, L, o)
    BY <1>0, <2>1, <2>2, <2>3 DEF Holds, Owns, CallsWith
  <2>5. PICK m \in DOMAIN shared[r] : EntryOf(Hist, r, o, shared[r][m])
    BY <1>0, <1>2, <2>4 DEF SharedRight
  <2>6. shared[r][m].owns /\ shared[r][m].geometry[3] = Hist.plan[at[r]].gens
    BY <1>5, <2>1, <2>2, <2>5 DEF EntryOf, Owns
  <2> QED BY <1>2, <1>3, <1>7, <2>5, <2>6, FoundOwner
<1> HIDE DEF n
<1>8. (n # 0) => HasOwner(Hist, r, at[r])
  BY <1>6 DEF HasOwner
<1> QED BY <1>6, <1>7, <1>8 DEF n, L

(* A generator that finds a commB to use again has it in its table. *)
LEMMA Reused ==
  ASSUME SplitAssumption, IInv, NEW r \in Processes, pc[r] \in BKinds, Base(Hist, at[r], pc[r])
  PROVE  Reusable(r, MyCall(r)) = IF IsGen(r) THEN FindOwner(r, MyCall(r)) ELSE 0
BY NotShared DEF Reusable, IsGen

-----------------------------------------------------------------------------

LEMMA NextParentsVoted ==
  ASSUME SplitAssumption, IInv, NEW r \in Processes, ParentsVoted(r)
  PROVE  IInv'
<1> DEFINE i == at[r]
<1>1. After(r, "fullParents") /\ Stay /\ "fullParents" \in Kinds /\ "fullParents" \in BKinds
  BY DEF ParentsVoted, Kinds, BKinds
<1>2. /\ Base(Hist, i, "fullParents") /\ Told(Hist, i, "fullParents") /\ Upto(Hist, i, Ord("fullParents"))
      /\ got[r] = said[at[r]][pc[r]] /\ pc[r] = "fullParents"
      /\ \A l \in Kinds : Ord(l) > Ord("fullParents") => ~Told(Hist, i, l)
  BY <1>1, HeardFacts
<1>3. MaxHeard(r) = Top(Hist, i, "fullParents")
  BY <1>2, SameTop
<1>4. /\ ~Told(Hist, i, "lanes") /\ ~Told(Hist, i, "pool") /\ ~Told(Hist, i, "fullB")
      /\ ~Told(Hist, i, "splitB") /\ ~Told(Hist, i, "lsa") /\ ~Told(Hist, i, "fullA") /\ ~Told(Hist, i, "splitA")
  BY <1>2, Ords DEF Kinds
<1>5. ~Formed(Hist, i) /\ ~KnownBefore(Hist, i) /\ ~Overlap(Hist.plan[i])
  BY <1>1, <1>2, <1>4 DEF Formed, Base
<1>6. CASE MaxHeard(r) = 1
  <2>1. NoNext(Hist, i, "fullParents")
    BY <1>3, <1>4, <1>5, <1>6, Ords DEF NoNext, Goes
  <2>2. Outcome(Hist, r, i, Failed)
    BY <1>2, <1>3, <1>6, Unanswered DEF Outcome, Refused, LastSaid
  <2>3. Return(r, at[r], Failed)
    BY <1>6 DEF ParentsVoted, Fail
  <2> QED BY <1>1, <1>5, <2>1, <2>2, <2>3, GivesUp
<1>7. CASE MaxHeard(r) # 1
  <2> DEFINE v == IF pack THEN MyCall(r).lane[r] ELSE -1
  <2>1. Enter(r, "lanes", v) /\ UNCHANGED <<here, result>>
    BY <1>7 DEF ParentsVoted
  <2>2. "lanes" \in Kinds /\ "lanes" \in BKinds /\ Ord("fullParents") < Ord("lanes")
    BY Ords DEF Kinds, BKinds
  <2>3. Base(Hist, i, "lanes")
    BY <1>1, <1>2 DEF Base, AKinds
  <2>4. Goes(Hist, i, "lanes")
    BY <1>2, <1>3, <1>7 DEF Goes
  <2>5. HereRight(Hist, r, EnteredAs(r, "lanes", v, here[r]))
    BY DEF HereRight, EnteredAs, AKinds
  <2> HIDE DEF v
  <2> QED BY <1>1, <2>1, <2>2, <2>3, <2>4, <2>5, Enters, KeepsHere, HereShape
<1> QED BY <1>6, <1>7

LEMMA NextLanesHeard ==
  ASSUME SplitAssumption, IInv, NEW r \in Processes, LanesHeard(r)
  PROVE  IInv'
<1> DEFINE i == at[r]
<1>1. After(r, "lanes") /\ Stay /\ "lanes" \in Kinds /\ "lanes" \in BKinds
  BY DEF LanesHeard, Kinds, BKinds
<1>2. /\ Base(Hist, i, "lanes") /\ Told(Hist, i, "lanes") /\ Upto(Hist, i, Ord("lanes"))
      /\ got[r] = said[at[r]][pc[r]] /\ pc[r] = "lanes" /\ Hist.plan = plan /\ Hist.pack = pack
      /\ \A l \in Kinds : Ord(l) > Ord("lanes") => ~Told(Hist, i, l)
  BY <1>1, HeardFacts
<1>3. Heard(r) = Said(Hist, i, "lanes")
  BY <1>2, SameTop
<1>4. /\ ~Told(Hist, i, "pool") /\ ~Told(Hist, i, "fullB")
      /\ ~Told(Hist, i, "splitB") /\ ~Told(Hist, i, "lsa") /\ ~Told(Hist, i, "fullA") /\ ~Told(Hist, i, "splitA")
  BY <1>2, Ords DEF Kinds
<1>5. ~Formed(Hist, i) /\ ~KnownBefore(Hist, i) /\ ~Overlap(Hist.plan[i])
  BY <1>1, <1>2, <1>4 DEF Formed, Base
<1>8. OneLane(r) <=> Aligned(Hist, i)
  BY <1>2, <1>3 DEF OneLane, Aligned, MyCall, Gens
<1>6. CASE ~OneLane(r)
  <2>1. NoNext(Hist, i, "lanes")
    BY <1>8, <1>4, <1>5, <1>6, Ords DEF NoNext, Goes
  <2>2. Outcome(Hist, r, i, Parent)
    BY <1>2, <1>8, <1>6, Unanswered DEF Outcome, Parented, LastSaid
  <2>3. Return(r, at[r], Parent)
    BY <1>6 DEF LanesHeard
  <2> QED BY <1>1, <1>5, <2>1, <2>2, <2>3, GivesUp
<1>7. CASE OneLane(r)
  <2> DEFINE v == [has |-> IsGen(r) /\ Reusable(r, MyCall(r)) # 0,
                   missing |-> IsGen(r) /\ Reusable(r, MyCall(r)) = 0]
             x == IF pack THEN Heard(r)[MyCall(r).gens[1]] ELSE -1
             h == [here[r] EXCEPT !.lane = x]
  <2>1. Enter(r, "pool", v) /\ UNCHANGED <<result>> /\ here' = [here EXCEPT ![r].lane = x]
    BY <1>7 DEF LanesHeard
  <2>0. here' = [here EXCEPT ![r] = h]
    BY <2>1
  <2>2. "pool" \in Kinds /\ "pool" \in BKinds /\ Ord("lanes") < Ord("pool")
    BY Ords DEF Kinds, BKinds
  <2>3. Base(Hist, i, "pool")
    BY <1>1, <1>2 DEF Base, AKinds
  <2>4. Goes(Hist, i, "pool")
    BY <1>2, <1>8, <1>7 DEF Goes
  <2>5. VoteOf(Hist, r, i, v)
    <3>1. Base(Hist, at[r], pc[r]) /\ pc[r] \in BKinds
      BY <1>1, <1>2
    <3>2. Reusable(r, MyCall(r)) = IF IsGen(r) THEN FindOwner(r, MyCall(r)) ELSE 0
      BY <3>1, Reused
    <3>3. IsGen(r) => (FindOwner(r, MyCall(r)) # 0 <=> HasOwner(Hist, r, at[r]))
      BY <3>1, OwnerFound
    <3>4. IsGen(r) <=> r \in Gens(Hist.plan[i])
      BY <1>2 DEF IsGen, MyCall, Gens
    <3>5. v.has = (IsGen(r) /\ Reusable(r, MyCall(r)) # 0) /\ v.missing = (IsGen(r) /\ Reusable(r, MyCall(r)) = 0)
      OBVIOUS
    <3> HIDE DEF v
    <3> QED BY <3>2, <3>3, <3>4, <3>5 DEF VoteOf
  <2>6. IsHere(h) /\ h.lane = x
    BY HereShape, SetLane
  <2>8. pack => x = Said(Hist, i, "lanes")[Hist.plan[i].gens[1]]
    BY <1>2, <1>3 DEF MyCall
  <2> HIDE DEF v, h, x
  <2>7. HereRight(Hist, r, EnteredAs(r, "pool", v, h))
    BY <1>2, <2>5, <2>6, <2>8 DEF HereRight, EnteredAs, AKinds
  <2> QED BY <1>1, <2>0, <2>1, <2>2, <2>3, <2>4, <2>6, <2>7, Enters
<1> QED BY <1>6, <1>7

-----------------------------------------------------------------------------
(* The vote and the split of commB, and what is proposed on it. *)

(* What the tables give a generator whose group has a commB. *)
LEMMA ReusesOwner ==
  ASSUME SplitAssumption,
         IInv, NEW r \in Processes, pc[r] \in BKinds, Base(Hist, at[r], pc[r]), IsGen(r),
         Told(Hist, at[r], "pool"), Reuses(Hist, at[r])
  PROVE  \E o \in CallsOf(Hist) :
           /\ Owns(Hist, r, o, at[r]) /\ Holds(Hist, r, Local(r), o) /\ Root(Hist, at[r]) = o
           /\ CommB(Hist, at[r]) = CommB(Hist, o)
           /\ Reusable(r, MyCall(r)) \in DOMAIN shared[r]
           /\ EntryOf(Hist, r, o, shared[r][Reusable(r, MyCall(r))])
<1> DEFINE i == at[r]
<1>1. HistRight(Hist) /\ Hist.plan = plan /\ i \in CallsOf(Hist) /\ "pool" \in Kinds
  BY DEF IInv, Hist, Base, Kinds
<1>2. i \in DOMAIN Hist.plan /\ r \in Gens(Hist.plan[i]) /\ r \in Members(Hist.plan[i])
  BY <1>1, PlanFacts DEF HistRight, IsGen, MyCall, Gens
<1>3. /\ DOMAIN Said(Hist, i, "pool") = Members(Hist.plan[i])
      /\ VoteOf(Hist, r, i, Said(Hist, i, "pool")[r])
  BY <1>1, <1>2 DEF HistRight, ToldRight, VotesRight
<1>4. HasOwner(Hist, r, i)
  BY <1>2, <1>3 DEF VoteOf, Reuses, MissIn
<1>5. PICK o \in CallsOf(Hist) :
        /\ Owns(Hist, r, o, i) /\ Holds(Hist, r, Local(r), o)
        /\ EntryOf(Hist, r, o, shared[r][FindOwner(r, MyCall(r))])
        /\ FindOwner(r, MyCall(r)) \in DOMAIN shared[r]
  BY <1>4, OwnerFound
<1>6. Root(Hist, i) = o
  BY <1>1, <1>2, <1>5, RootIs
<1>7. Root(Hist, o) = o
  BY <1>5 DEF Owns, Root
<1>8. CommB(Hist, i) = CommB(Hist, o)
  BY <1>6, <1>7 DEF CommB
<1>9. Reusable(r, MyCall(r)) = FindOwner(r, MyCall(r))
  BY Reused
<1> QED BY <1>5, <1>6, <1>8, <1>9

LEMMA NextPoolVoted ==
  ASSUME SplitAssumption, IInv, NEW r \in Processes, PoolVoted(r)
  PROVE  IInv'
<1> DEFINE i == at[r]
<1>1. After(r, "pool") /\ Stay /\ "pool" \in Kinds /\ "pool" \in BKinds
  BY DEF PoolVoted, Kinds, BKinds
<1>2. /\ Base(Hist, i, "pool") /\ Told(Hist, i, "pool") /\ Upto(Hist, i, Ord("pool"))
      /\ got[r] = said[at[r]][pc[r]] /\ pc[r] = "pool" /\ Hist.plan = plan /\ Hist.pack = pack
      /\ HereRight(Hist, r, Local(r))
      /\ \A l \in Kinds : Ord(l) > Ord("pool") => ~Told(Hist, i, l)
  BY <1>1, HeardFacts
<1>3. Heard(r) = Said(Hist, i, "pool")
  BY <1>2, SameTop
<1>4. /\ ~Told(Hist, i, "fullB")
      /\ ~Told(Hist, i, "splitB") /\ ~Told(Hist, i, "lsa") /\ ~Told(Hist, i, "fullA") /\ ~Told(Hist, i, "splitA")
  BY <1>2, Ords DEF Kinds
<1>5. ~Formed(Hist, i) /\ ~KnownBefore(Hist, i) /\ ~Overlap(Hist.plan[i])
  BY <1>1, <1>2, <1>4 DEF Formed, Base
<1>8. (Has(r) <=> HasIn(Hist, i)) /\ (Missing(r) <=> MissIn(Hist, i))
  BY <1>2, <1>3 DEF Has, HasIn, Missing, MissIn
<1>6. CASE Partial(r)
  <2>0. PartialIn(Hist, i)
    BY <1>6, <1>8 DEF Partial, PartialIn
  <2>1. NoNext(Hist, i, "pool")
    BY <2>0, <1>4, <1>5, Ords DEF NoNext, Goes
  <2>2. Outcome(Hist, r, i, Parent)
    BY <1>2, <2>0, Unanswered DEF Outcome, Parented, LastSaid
  <2>3. Return(r, at[r], Parent)
    BY <1>6 DEF PoolVoted
  <2> QED BY <1>1, <1>5, <2>1, <2>2, <2>3, GivesUp
<1>7. CASE ~Partial(r)
  <2> DEFINE v == IF FindShared(r, MyCall(r)) = 0 /\ Len(shared[r]) >= MaxEntries THEN 1 ELSE 0
             x == Has(r) /\ ~Missing(r)
             h == [here[r] EXCEPT !.reuse = x]
  <2>1. Enter(r, "fullB", v) /\ UNCHANGED <<result>> /\ here' = [here EXCEPT ![r].reuse = x]
    BY <1>7 DEF PoolVoted
  <2>0. here' = [here EXCEPT ![r] = h]
    BY <2>1
  <2>2. "fullB" \in Kinds /\ "fullB" \in BKinds /\ Ord("pool") < Ord("fullB")
    BY Ords DEF Kinds, BKinds
  <2>3. Base(Hist, i, "fullB")
    BY <1>1, <1>2, <1>7, <1>8 DEF Base, AKinds, Partial, PartialIn
  <2>4. Goes(Hist, i, "fullB")
    BY <1>2, <1>8, <1>7 DEF Goes, Partial, PartialIn
  <2>6. IsHere(h) /\ h.reuse = x /\ h.lane = here[r].lane
    BY HereShape, SetReuse
  <2>8. x = Reuses(Hist, i)
    BY <1>8 DEF Reuses
  <2>9. pack => here[r].lane = Said(Hist, i, "lanes")[plan[i].gens[1]]
    BY <1>2 DEF HereRight, Local
  <2> HIDE DEF v, h, x
  <2>7. HereRight(Hist, r, EnteredAs(r, "fullB", v, h))
    BY <1>2, <2>6, <2>8, <2>9 DEF HereRight, EnteredAs, AKinds
  <2> QED BY <1>1, <2>0, <2>1, <2>2, <2>3, <2>4, <2>6, <2>7, Enters
<1> QED BY <1>6, <1>7

LEMMA NextSharedVoted ==
  ASSUME SplitAssumption, IInv, NEW r \in Processes, SharedVoted(r)
  PROVE  IInv'
<1> DEFINE i == at[r]
<1>1. After(r, "fullB") /\ Stay /\ "fullB" \in Kinds /\ "fullB" \in BKinds
  BY DEF SharedVoted, Kinds, BKinds
<1>2. /\ Base(Hist, i, "fullB") /\ Told(Hist, i, "fullB") /\ Upto(Hist, i, Ord("fullB"))
      /\ got[r] = said[at[r]][pc[r]] /\ pc[r] = "fullB" /\ Hist.plan = plan /\ Hist.pack = pack
      /\ HereRight(Hist, r, Local(r))
      /\ \A l \in Kinds : Ord(l) > Ord("fullB") => ~Told(Hist, i, l)
  BY <1>1, HeardFacts
<1>3. MaxHeard(r) = Top(Hist, i, "fullB")
  BY <1>2, SameTop
<1>4. /\ ~Told(Hist, i, "splitB") /\ ~Told(Hist, i, "lsa") /\ ~Told(Hist, i, "fullA") /\ ~Told(Hist, i, "splitA")
  BY <1>2, Ords DEF Kinds
<1>5. ~Formed(Hist, i) /\ ~KnownBefore(Hist, i) /\ ~Overlap(Hist.plan[i])
  BY <1>1, <1>2, <1>4 DEF Formed, Base
<1>8. /\ pack => here[r].lane = Said(Hist, i, "lanes")[plan[i].gens[1]]
      /\ here[r].reuse = Reuses(Hist, i)
  BY <1>2 DEF HereRight, Local
<1>6. CASE MaxHeard(r) = 1
  <2>1. NoNext(Hist, i, "fullB")
    BY <1>3, <1>6, <1>4, <1>5, Ords DEF NoNext, Goes
  <2>2. Outcome(Hist, r, i, Failed)
    BY <1>2, <1>3, <1>6, Unanswered DEF Outcome, Refused, LastSaid
  <2>3. Return(r, at[r], Failed)
    BY <1>6 DEF SharedVoted, Fail
  <2> QED BY <1>1, <1>5, <2>1, <2>2, <2>3, GivesUp
<1>7. CASE MaxHeard(r) # 1 /\ here[r].reuse
  <2> DEFINE e == shared[r][Reusable(r, MyCall(r))]
             v == IF IsGen(r) THEN e.lsa ELSE 0
             h == IF IsGen(r) THEN OnB(here[r], e.commB, e.owner) ELSE here[r]
  <2>1. /\ Enter(r, "lsa", v) /\ UNCHANGED <<result>>
        /\ here' = IF IsGen(r) THEN [here EXCEPT ![r] = OnB(here[r], e.commB, e.owner)] ELSE here
    BY <1>7 DEF SharedVoted
  <2>0. here' = [here EXCEPT ![r] = h]
    BY <2>1, KeepsHere
  <2>2. "lsa" \in Kinds /\ "lsa" \in BKinds /\ Ord("fullB") < Ord("lsa")
    BY Ords DEF Kinds, BKinds
  <2>3. Base(Hist, i, "lsa")
    BY <1>1, <1>2 DEF Base, AKinds
  <2>4. Goes(Hist, i, "lsa")
    BY <1>2, <1>3, <1>8, <1>7 DEF Goes
  <2>5. ASSUME IsGen(r) PROVE e.commB = CommB(Hist, i)
    <3>1. Told(Hist, i, "pool") /\ Reuses(Hist, i)
      BY <1>2, <1>7, <1>8 DEF Base
    <3>2. PICK o \in CallsOf(Hist) : /\ Owns(Hist, r, o, i) /\ CommB(Hist, i) = CommB(Hist, o)
                                     /\ EntryOf(Hist, r, o, e)
      BY <1>1, <1>2, <2>5, <3>1, ReusesOwner
    <3>3. r \in Gens(Hist.plan[o])
      BY <1>2, <2>5, <3>2 DEF Owns, IsGen, MyCall, Gens
    <3> HIDE DEF e
    <3> QED BY <3>2, <3>3 DEF EntryOf, MatchesB
  <2>6. /\ IsHere(h) /\ h.reuse = here[r].reuse /\ h.lane = here[r].lane
        /\ IsGen(r) => h.commB = e.commB
    <3> HIDE DEF e
    <3> QED BY HereShape, SetOnB
  <2>7. r \in Gens(Hist.plan[i]) <=> IsGen(r)
    BY <1>2 DEF IsGen, MyCall, Gens
  <2> HIDE DEF v, h, e
  <2>9. HereRight(Hist, r, EnteredAs(r, "lsa", v, h))
    BY <1>2, <1>8, <2>5, <2>6, <2>7 DEF HereRight, EnteredAs, AKinds
  <2> QED BY <1>1, <2>0, <2>1, <2>2, <2>3, <2>4, <2>6, <2>9, Enters
<1>9. CASE MaxHeard(r) # 1 /\ ~here[r].reuse
  <2>1. Enter(r, "splitB", 0) /\ UNCHANGED <<here, result>>
    BY <1>9 DEF SharedVoted
  <2>2. "splitB" \in Kinds /\ "splitB" \in BKinds /\ Ord("fullB") < Ord("splitB")
    BY Ords DEF Kinds, BKinds
  <2>3. Base(Hist, i, "splitB")
    BY <1>1, <1>2, <1>8, <1>9 DEF Base, AKinds
  <2>4. Goes(Hist, i, "splitB")
    BY <1>2, <1>3, <1>8, <1>9 DEF Goes
  <2>5. HereRight(Hist, r, EnteredAs(r, "splitB", 0, here[r]))
    BY <1>2, <1>8 DEF HereRight, EnteredAs, AKinds
  <2> QED BY <1>1, <2>1, <2>2, <2>3, <2>4, <2>5, Enters, KeepsHere, HereShape
<1> QED BY <1>6, <1>7, <1>9

LEMMA NextCommBSplit ==
  ASSUME SplitAssumption, IInv, NEW r \in Processes, CommBSplit(r)
  PROVE  IInv'
<1> DEFINE i == at[r]
<1>1. After(r, "splitB") /\ Stay /\ "splitB" \in Kinds /\ "splitB" \in BKinds
  BY DEF CommBSplit, Kinds, BKinds
<1>2. /\ Base(Hist, i, "splitB") /\ Told(Hist, i, "splitB") /\ Upto(Hist, i, Ord("splitB"))
      /\ got[r] = said[at[r]][pc[r]] /\ pc[r] = "splitB" /\ Hist.plan = plan /\ Hist.pack = pack
      /\ HereRight(Hist, r, Local(r)) /\ Hist.said = said
      /\ \A l \in Kinds : Ord(l) > Ord("splitB") => ~Told(Hist, i, l)
  BY <1>1, HeardFacts
<1>3. Fresh(r) = said[i]["splitB"][2]
  BY <1>2, SameTop
<1>8. /\ pack => here[r].lane = Said(Hist, i, "lanes")[plan[i].gens[1]]
      /\ here[r].reuse = Reuses(Hist, i)
  BY <1>2 DEF HereRight, Local
<1> DEFINE v == IF IsGen(r) THEN LsaSize ELSE 0
           h == IF IsGen(r) THEN OnB(here[r], Fresh(r), Len(shared[r]) + 1) ELSE here[r]
<1>4. /\ Enter(r, "lsa", v) /\ UNCHANGED <<result>>
      /\ here' = IF IsGen(r) THEN [here EXCEPT ![r] = OnB(here[r], Fresh(r), Len(shared[r]) + 1)] ELSE here
  BY DEF CommBSplit
<1>5. here' = [here EXCEPT ![r] = h]
  BY <1>4, KeepsHere
<1>6. "lsa" \in Kinds /\ "lsa" \in BKinds /\ Ord("splitB") < Ord("lsa")
  BY Ords DEF Kinds, BKinds
<1>7. Base(Hist, i, "lsa")
  BY <1>1, <1>2 DEF Base, AKinds
<1>9. Goes(Hist, i, "lsa")
  BY <1>2 DEF Goes
<1>10. /\ IsHere(h) /\ h.reuse = here[r].reuse /\ h.lane = here[r].lane
       /\ IsGen(r) => h.commB = Fresh(r)
  BY HereShape, SetOnB
<1>11. r \in Gens(Hist.plan[i]) <=> IsGen(r)
  BY <1>2 DEF IsGen, MyCall, Gens
<1>12. CommB(Hist, i) = said[i]["splitB"][2]
  BY <1>2 DEF CommB, Root, Base
<1> HIDE DEF v, h
<1>13. HereRight(Hist, r, EnteredAs(r, "lsa", v, h))
  BY <1>2, <1>3, <1>8, <1>10, <1>11, <1>12 DEF HereRight, EnteredAs, AKinds
<1> QED BY <1>1, <1>4, <1>5, <1>6, <1>7, <1>9, <1>10, <1>13, Enters

LEMMA NextLsaHeardPipe ==
  ASSUME SplitAssumption, IInv, NEW r \in Processes, LsaHeardPipe(r)
  PROVE  IInv'
<1> DEFINE i == at[r]
<1>1. After(r, "lsa") /\ Stay /\ "lsa" \in Kinds /\ "lsa" \in BKinds /\ ~pack
  BY DEF LsaHeardPipe, Kinds, BKinds
<1>2. /\ Base(Hist, i, "lsa") /\ Told(Hist, i, "lsa") /\ Upto(Hist, i, Ord("lsa"))
      /\ got[r] = said[at[r]][pc[r]] /\ pc[r] = "lsa" /\ Hist.plan = plan /\ Hist.pack = pack
      /\ HereRight(Hist, r, Local(r)) /\ Hist.said = said
  BY <1>1, HeardFacts
<1>3. MaxHeard(r) = Top(Hist, i, "lsa")
  BY <1>2, SameTop
<1>8. /\ here[r].reuse = Reuses(Hist, i)
      /\ r \in Gens(Hist.plan[i]) => here[r].commB = CommB(Hist, i)
  BY <1>2 DEF HereRight, Local
<1> DEFINE v == Proposal(r)
           h == [here[r] EXCEPT !.lsa = MaxHeard(r)]
<1>4. Enter(r, "namespace", v) /\ UNCHANGED <<result>> /\ here' = [here EXCEPT ![r].lsa = MaxHeard(r)]
  BY DEF LsaHeardPipe
<1>5. here' = [here EXCEPT ![r] = h]
  BY <1>4
<1>6. "namespace" \in Kinds /\ "namespace" \in BKinds /\ Ord("lsa") < Ord("namespace")
  BY Ords DEF Kinds, BKinds
<1>7. Base(Hist, i, "namespace")
  BY <1>1, <1>2 DEF Base, AKinds
<1>9. Goes(Hist, i, "namespace")
  BY <1>1, <1>2 DEF Goes
<1>10. /\ IsHere(h) /\ h.reuse = here[r].reuse /\ h.commB = here[r].commB /\ h.lsa = MaxHeard(r)
  BY HereShape, SetLsa
<1> HIDE DEF v, h
<1>13. HereRight(Hist, r, EnteredAs(r, "namespace", v, h))
  BY <1>1, <1>2, <1>3, <1>8, <1>10 DEF HereRight, EnteredAs, AKinds
<1> QED BY <1>1, <1>4, <1>5, <1>6, <1>7, <1>9, <1>10, <1>13, Enters

-----------------------------------------------------------------------------
(* Which commA a rank goes on with. *)

(* The commA that are cached for the step a rank is at. *)
CachedFor(H, r, i, s) ==
  /\ Listed(s)
  /\ \A n \in DOMAIN s : \E j \in CallsOf(H) :
       /\ j \in CallsWith(H, r) /\ j < i /\ Whole(H, {r}, j, i) /\ FormedA(H, j)
       /\ EntryOfA(H, r, j, s[n])
  /\ \A j \in CallsOf(H) :
       (j \in CallsWith(H, r) /\ j < i /\ Whole(H, {r}, j, i) /\ FormedA(H, j)) =>
         \E n \in DOMAIN s : EntryOfA(H, r, j, s[n])

(* The commA of the fewest domains that are enough is the one all members choose. *)
LEMMA CommAChoice ==
  ASSUME SplitAssumption, HistRight(Hist), NEW r, NEW i \in CallsWith(Hist, r),
         CachedFor(Hist, r, i, commAs[r]), ~FormedA(Hist, i)
  PROVE  /\ CommAFor(r, plan[i]) # {} <=> CachedA(Hist, i)
         /\ CommAFor(r, plan[i]) # {} =>
              \E a \in CallsOf(Hist) :
                 BestA(Hist, a, i) /\ EntryOfA(Hist, r, a, commAs[r][FindCommA(r, plan[i])])
<1> DEFINE s == commAs[r]
<1>1. Hist.plan = plan /\ Hist.plan \in Plans /\ i \in CallsOf(Hist) /\ r \in Members(Hist.plan[i])
  BY DEF Hist, HistRight, CallsWith
<1>2. ASSUME NEW j \in CallsOf(Hist), SourceA(Hist, j, i)
      PROVE  /\ j \in CallsWith(Hist, r) /\ j < i /\ Whole(Hist, {r}, j, i) /\ FormedA(Hist, j)
             /\ \E n \in CommAFor(r, plan[i]) : EntryOfA(Hist, r, j, s[n])
  <2>1. SameGeometry(Hist, j, i) /\ j <= i /\ FormedA(Hist, j) /\ Hist.plan[j].k >= Hist.plan[i].k
        /\ Whole(Hist, Members(Hist.plan[i]), j, i)
    BY <1>2 DEF SourceA
  <2>2. j \in Nat /\ i \in Nat /\ j # i
    BY <1>1, <2>1, PlanFacts
  <2>3. r \in Members(Hist.plan[j])
    BY <1>1, <2>1, GeometryGives
  <2>4. Whole(Hist, {r}, j, i)
    BY <1>1, <2>1, WholeRank
  <2>5. j \in CallsWith(Hist, r) /\ j < i
    BY <2>1, <2>2, <2>3 DEF CallsWith
  <2>6. PICK n \in DOMAIN s : EntryOfA(Hist, r, j, s[n])
    BY <2>1, <2>4, <2>5 DEF CachedFor
  <2>7. n \in CommAFor(r, plan[i])
    BY <1>1, <2>1, <2>6 DEF CommAFor, EntryOfA, SameGeometry
  <2> QED BY <2>1, <2>4, <2>5, <2>6, <2>7
<1>3. ASSUME NEW n \in CommAFor(r, plan[i])
      PROVE  \E a \in CallsOf(Hist) : SourceA(Hist, a, i) /\ a < i /\ EntryOfA(Hist, r, a, s[n])
  <2>1. n \in DOMAIN s /\ s[n].geometry = Geometry(plan[i]) /\ s[n].k >= plan[i].k
    BY DEF CommAFor
  <2>2. PICK j \in CallsOf(Hist) : /\ j \in CallsWith(Hist, r) /\ j < i /\ Whole(Hist, {r}, j, i)
                                   /\ FormedA(Hist, j) /\ EntryOfA(Hist, r, j, s[n])
    BY <2>1 DEF CachedFor
  <2>3. SameGeometry(Hist, j, i) /\ Hist.plan[j].k >= Hist.plan[i].k
    BY <1>1, <2>1, <2>2 DEF EntryOfA, SameGeometry
  <2>4. j \in Nat /\ i \in Nat /\ j <= i
    BY <1>1, <2>2, PlanFacts
  <2>5. Whole(Hist, Members(Hist.plan[i]), j, i)
    BY <1>1, <2>2, <2>3, <2>4, WholeRank
  <2> QED BY <2>2, <2>3, <2>4, <2>5 DEF SourceA
<1>4. CommAFor(r, plan[i]) # {} <=> CachedA(Hist, i)
  <2>1. CommAFor(r, plan[i]) # {} => CachedA(Hist, i)
    BY <1>3 DEF CachedA
  <2>2. CachedA(Hist, i) => CommAFor(r, plan[i]) # {}
    BY <1>2 DEF CachedA
  <2> QED BY <2>1, <2>2
<1>5. ASSUME CommAFor(r, plan[i]) # {}
      PROVE  \E a \in CallsOf(Hist) : BestA(Hist, a, i) /\ EntryOfA(Hist, r, a, s[FindCommA(r, plan[i])])
  <2> DEFINE f == FindCommA(r, plan[i])
  <2>1. \A n \in DOMAIN s : s[n].k \in Nat
    <3> SUFFICES ASSUME NEW n \in DOMAIN s PROVE s[n].k \in Nat
      OBVIOUS
    <3>1. PICK j \in CallsOf(Hist) : EntryOfA(Hist, r, j, s[n])
      BY DEF CachedFor
    <3> QED BY <1>1, <3>1, PlanFacts DEF EntryOfA
  <2>2. Listed(s)
    BY DEF CachedFor
  <2>3. f \in CommAFor(r, plan[i]) /\ \A n \in CommAFor(r, plan[i]) : s[f].k <= s[n].k
    BY <1>5, <2>1, <2>2, FoundCommA
  <2> HIDE DEF f
  <2>4. PICK a \in CallsOf(Hist) : SourceA(Hist, a, i) /\ EntryOfA(Hist, r, a, s[f])
    BY <1>3, <2>3
  <2>5. ASSUME NEW c \in CallsOf(Hist), SourceA(Hist, c, i) PROVE Hist.plan[a].k <= Hist.plan[c].k
    <3>1. PICK n \in CommAFor(r, plan[i]) : EntryOfA(Hist, r, c, s[n])
      BY <1>2, <2>5
    <3> QED BY <2>3, <2>4, <3>1 DEF EntryOfA
  <2> QED BY <2>4, <2>5 DEF BestA, f
<1> QED BY <1>4, <1>5

(* A rank that finds commA goes on with it. *)
LEMMA ActiveRight ==
  ASSUME SplitAssumption, HistRight(Hist), NEW r, NEW i \in CallsWith(Hist, r),
         CachedFor(Hist, r, i, commAs[r]), ~FormedA(Hist, i), CommAFor(r, plan[i]) # {},
         ~Overlap(plan[i]), NEW c \in CallsOf(Hist), Source(Hist, c, i), NEW b, MatchesB(Hist, r, c, b)
  PROVE  /\ Outcome(Hist, r, i, Active(r, plan[i], b, commAs[r][FindCommA(r, plan[i])]))
         /\ CachedA(Hist, i)
<1> DEFINE e == commAs[r][FindCommA(r, plan[i])]
           x == Active(r, plan[i], b, e)
<1>1. PICK a \in CallsOf(Hist) : BestA(Hist, a, i) /\ EntryOfA(Hist, r, a, e)
  BY CommAChoice
<1>2. CachedA(Hist, i)
  BY CommAChoice
<1>3. KnownBefore(Hist, i) \/ Formed(Hist, i)
  <2>1. c \in Nat /\ i \in Nat
    BY PlanFacts DEF HistRight, CallsWith
  <2>2. CASE c = i
    BY <2>2 DEF Source
  <2>3. CASE c < i
    BY <2>3 DEF KnownBefore
  <2> QED BY <2>1, <2>2, <2>3 DEF Source
<1> HIDE DEF e
<1>4. /\ x.verdict = "split" /\ x.commB = b.commB /\ x.lsa = b.lsa /\ x.lane = b.lane /\ x.ns = b.ns
      /\ x.commA = e.commA /\ x.inA = e.inA /\ x.srcLsa = e.srcLsa /\ x.domains = e.k
  BY DEF Active
<1>5. Hist.plan = plan
  BY DEF Hist
<1> HIDE DEF x
<1>6. MatchesB(Hist, r, c, x)
  BY <1>4 DEF MatchesB
<1>7. MatchesA(Hist, r, a, x) /\ x.domains = Hist.plan[a].k
  BY <1>1, <1>4 DEF MatchesA, EntryOfA
<1>8. SplitAs(Hist, r, i, x)
  BY <1>1, <1>2, <1>3, <1>4, <1>5, <1>6, <1>7 DEF SplitAs, SplitDone
<1> QED BY <1>2, <1>8 DEF Outcome, x, e

-----------------------------------------------------------------------------
(* A rank that has commB comes to the second half of its call. *)

(* The tables are right for a rank that has gone past commB of its step. *)
TablesAt(H, r, i, sh, kn) ==
  LET L == [at |-> i, pc |-> "idle", shared |-> sh, known |-> kn] IN
  Stored(sh) /\ Listed(kn) /\ SharedRight(H, r, L) /\ KnownRight(H, r, L)

(* What the rank has returned is right, and of steps before this one. *)
DoneBefore(H, r, i, res) ==
  /\ res = [j \in DOMAIN H.plan |-> res[j]]
  /\ \A j \in DOMAIN H.plan : res[j].verdict # "none" =>
       j \in CallsWith(H, r) /\ j < i /\ Outcome(H, r, j, res[j])
  /\ \A j \in CallsWith(H, r) : j < i => Ended(H, j)

(* Step i is where commA is looked for. *)
Reaches(H, i) ==
  /\ ~Overlap(H.plan[i]) /\ (KnownBefore(H, i) \/ Formed(H, i)) /\ Upto(H, i, 7)
  /\ \A k \in BKinds : ~Open(H, i, k)

(* Tables of a rank that has returned. *)
LEMMA TablesHold ==
  ASSUME NEW H, NEW r, NEW i, NEW sh, NEW kn, TablesAt(H, r, i, sh, kn),
         NEW M, M.at = i, M.pc \notin BKinds, M.shared = sh, M.known = kn
  PROVE  Stored(M.shared) /\ Listed(M.known) /\ SharedRight(H, r, M) /\ KnownRight(H, r, M)
<1> DEFINE L == [at |-> i, pc |-> "idle", shared |-> sh, known |-> kn]
<1>1. L.at = i /\ L.pc = "idle" /\ L.shared = sh /\ L.known = kn /\ "idle" \notin BKinds
  BY DEF BKinds
<1>2. SharedRight(H, r, L) /\ KnownRight(H, r, L) /\ Stored(sh) /\ Listed(kn)
  BY DEF TablesAt
<1> HIDE DEF L
<1>3. \A j : Holds(H, r, M, j) <=> Holds(H, r, L, j)
  BY <1>1 DEF Holds
<1> QED BY <1>1, <1>2, <1>3 DEF SharedRight, KnownRight

LEMMA CachedHold ==
  ASSUME NEW H, H.plan \in Plans, NEW r, NEW i \in CallsOf(H), NEW s, CachedFor(H, r, i, s), ~FormedA(H, i),
         NEW M, M.at = i, M.commAs = s
  PROVE  Listed(M.commAs) /\ CommARight(H, r, M)
<1>1. \A j \in CallsOf(H) : HoldsA(H, r, M, j) <=>
         (j \in CallsWith(H, r) /\ j < i /\ Whole(H, {r}, j, i) /\ FormedA(H, j))
  BY DEF HoldsA, Past
<1> QED BY <1>1 DEF CachedFor, CommARight

(* A step whose commA is cached is over. *)
LEMMA EndsReached ==
  ASSUME NEW H, NEW i, Reaches(H, i), CachedA(H, i)
  PROVE  Ended(H, i)
<1>1. ~Told(H, i, "fullA") /\ ~Told(H, i, "splitA")
  BY Untold, Ords DEF Reaches, Kinds
<1>2. \A k \in AKinds : ~Goes(H, i, k)
  BY <1>1 DEF Goes, AKinds
<1>3. Kinds = BKinds \cup AKinds
  BY DEF Kinds, BKinds, AKinds
<1> QED BY <1>2, <1>3 DEF Ended, Open, Reaches
SetAt(f, i, x) == [f EXCEPT ![i] = x]

(* The rank has commB of its step, and returns with commA or enters its vote. *)
LEMMA Reached ==
  ASSUME SplitAssumption, HistRight(Hist), NEW r, NEW i \in CallsWith(Hist, r), Reaches(Hist, i),
         NEW sh, NEW kn, TablesAt(Hist, r, i, sh, kn),
         CachedFor(Hist, r, i, commAs[r]), ~FormedA(Hist, i),
         NEW c \in CallsOf(Hist), Source(Hist, c, i), NEW b, MatchesB(Hist, r, c, b),
         NEW res, DoneBefore(Hist, r, i, res),
         NEW M, M.at = i, M.shared = sh, M.known = kn, M.commAs = commAs[r], IsHere(M.here),
         \/ /\ CommAFor(r, plan[i]) # {} /\ M.pc = "idle"
            /\ M.result = SetAt(res, i, Active(r, plan[i], b, commAs[r][FindCommA(r, plan[i])]))
         \/ /\ CommAFor(r, plan[i]) = {} /\ M.pc = "fullA" /\ M.result = res /\ M.got = <<>>
            /\ M.here.commB = b.commB /\ M.here.lsa = b.lsa /\ M.here.lane = b.lane /\ M.here.ns = b.ns
  PROVE  RankInv(Hist, r, M)
<1>1. M.pc \notin BKinds /\ M.pc \in Kinds \cup {"idle"}
  BY DEF BKinds, Kinds
<1>2. Stored(M.shared) /\ Listed(M.known) /\ SharedRight(Hist, r, M) /\ KnownRight(Hist, r, M)
  BY <1>1, TablesHold
<1>3. i \in CallsOf(Hist) /\ i \in Nat /\ i \in DOMAIN Hist.plan /\ r \in Members(Hist.plan[i])
      /\ Hist.plan = plan
  BY PlanFacts DEF HistRight, CallsWith, Hist
<1>4. Listed(M.commAs) /\ CommARight(Hist, r, M)
  BY <1>3, CachedHold DEF HistRight
<1>5. CASE CommAFor(r, plan[i]) # {}
  <2> DEFINE x == Active(r, plan[i], b, commAs[r][FindCommA(r, plan[i])])
  <2>1. Outcome(Hist, r, i, x) /\ CachedA(Hist, i)
    BY <1>3, <1>5, ActiveRight DEF Reaches
  <2>2. M.pc = "idle" /\ M.result = [res EXCEPT ![i] = x]
    BY <1>5 DEF SetAt
  <2> HIDE DEF x
  <2>3. Ended(Hist, i)
    BY <2>1, EndsReached
  <2>4. RankTypes(Hist, r, M)
    BY <1>2, <1>3, <1>4, <2>2 DEF RankTypes, DoneBefore
  <2>5. AtRight(Hist, r, M)
    BY <2>2 DEF AtRight
  <2>6. PastRight(Hist, r, M)
    BY <2>3 DEF PastRight, Past, DoneBefore
  <2>7. ResultRight(Hist, r, M)
    <3> SUFFICES ASSUME NEW j \in DOMAIN Hist.plan, M.result[j].verdict # "none"
                 PROVE  j \in CallsWith(Hist, r) /\ Past(M, j) /\ Outcome(Hist, r, j, M.result[j])
      BY DEF ResultRight
    <3>0. M.result[j] = IF j = i THEN x ELSE res[j]
      BY <2>2 DEF DoneBefore
    <3>1. CASE j = i
      BY <3>0, <3>1, <2>1, <2>2 DEF Past
    <3>2. CASE j # i
      BY <3>0, <3>2 DEF Past, DoneBefore
    <3> QED BY <3>1, <3>2
  <2> QED BY <1>2, <1>4, <2>4, <2>5, <2>6, <2>7 DEF RankInv
<1>6. CASE CommAFor(r, plan[i]) = {}
  <2>1. ~CachedA(Hist, i)
    BY <1>3, <1>6, CommAChoice
  <2>2. /\ M.pc = "fullA" /\ M.result = res /\ M.got = <<>>
        /\ M.here.commB = b.commB /\ M.here.lsa = b.lsa /\ M.here.lane = b.lane /\ M.here.ns = b.ns
    BY <1>6
  <2>3. RankTypes(Hist, r, M)
    BY <1>1, <1>2, <1>3, <1>4, <2>2 DEF RankTypes, DoneBefore
  <2>4. "fullA" \in AKinds /\ "fullA" \notin BKinds /\ Ord("fullA") = 8
    BY Ords DEF AKinds, BKinds
  <2>5. Base(Hist, i, "fullA")
    BY <1>3, <2>1, <2>4 DEF Base, Reaches
  <2>6. Goes(Hist, i, "fullA")
    BY <1>3, <2>1 DEF Goes, Reaches
  <2>7. HereRight(Hist, r, M)
    <3>1. MatchesB(Hist, r, c, M.here)
      BY <2>2 DEF MatchesB
    <3> QED BY <2>2, <2>4, <3>1 DEF HereRight
  <2>8. AtRight(Hist, r, M)
    BY <1>3, <2>2, <2>4, <2>5, <2>6, <2>7 DEF AtRight, Reaches
  <2>9. PastRight(Hist, r, M)
    BY <2>2 DEF PastRight, Past, DoneBefore
  <2>10. ResultRight(Hist, r, M)
    BY <2>2 DEF ResultRight, Past, DoneBefore
  <2> QED BY <1>2, <1>4, <2>3, <2>8, <2>9, <2>10 DEF RankInv
<1> QED BY <1>5, <1>6

(* The same for the actions that come to commA. *)
LEMMA StartsA ==
  ASSUME SplitAssumption,
         IInv, NEW r \in Processes, NEW i \in CallsWith(Hist, r), i >= at[r], Reaches(Hist, i),
         NEW sh, NEW kn, TablesAt(Hist, r, i, sh, kn),
         CachedFor(Hist, r, i, commAs[r]), ~FormedA(Hist, i),
         NEW c \in CallsOf(Hist), Source(Hist, c, i), NEW b, MatchesB(Hist, r, c, b),
         DoneBefore(Hist, r, i, result[r]), StartA(r, i, b),
         at' = [at EXCEPT ![r] = i], shared' = [shared EXCEPT ![r] = sh], known' = [known EXCEPT ![r] = kn],
         UNCHANGED <<plan, pack, commAs, said, minted>>
  PROVE  /\ IInv' /\ Hist' = Hist /\ minted' = minted
         /\ \A q \in Processes : q # r => Local(q)' = Local(q)
         /\ Local(r)'.at = i /\ Local(r)'.shared = sh /\ Local(r)'.pc \in {"idle", "fullA"}
<1> DEFINE x == Active(r, plan[i], b, commAs[r][FindCommA(r, plan[i])])
           h == Found(here[r], b)
           v == IF Len(commAs[r]) >= MaxEntries THEN 1 ELSE 0
           M1 == [at |-> i, pc |-> "idle", ask |-> <<>>, got |-> <<>>, here |-> Nothing, shared |-> sh,
                  known |-> kn, commAs |-> commAs[r], result |-> [result[r] EXCEPT ![i] = x]]
           M2 == [at |-> i, pc |-> "fullA", ask |-> v, got |-> <<>>, here |-> h, shared |-> sh,
                  known |-> kn, commAs |-> commAs[r], result |-> result[r]]
<1>0. Domains /\ HistRight(Hist)
  BY DEF IInv
<1>1. commAs' = [commAs EXCEPT ![r] = commAs[r]]
  BY <1>0 DEF Domains
<1>2. IsHere(Nothing) /\ IsHere(here[r])
  BY HereShape, Unanswered
<1>3. IsHere(h) /\ h.commB = b.commB /\ h.lsa = b.lsa /\ h.lane = b.lane /\ h.ns = b.ns
  BY <1>2, SetFound
<1>4. CASE CommAFor(r, plan[i]) # {}
  <2>1. Return(r, i, x)
    BY <1>4 DEF StartA
  <2>2. /\ pc' = [pc EXCEPT ![r] = "idle"] /\ ask' = [ask EXCEPT ![r] = <<>>]
        /\ got' = [got EXCEPT ![r] = <<>>] /\ here' = [here EXCEPT ![r] = Nothing]
        /\ result' = [result EXCEPT ![r] = [result[r] EXCEPT ![i] = x]]
    BY <2>1, <1>0 DEF Return, Domains
  <2>3. /\ M1.at = i /\ M1.pc = "idle" /\ M1.ask = <<>> /\ M1.got = <<>> /\ M1.here = Nothing
        /\ M1.shared = sh /\ M1.known = kn /\ M1.commAs = commAs[r]
        /\ M1.result = [result[r] EXCEPT ![i] = x]
        /\ M1 = [at |-> M1.at, pc |-> M1.pc, ask |-> M1.ask, got |-> M1.got, here |-> M1.here,
                 shared |-> M1.shared, known |-> M1.known, commAs |-> M1.commAs, result |-> M1.result]
    OBVIOUS
  <2> HIDE DEF M1
  <2>7. \/ /\ CommAFor(r, plan[i]) # {} /\ M1.pc = "idle"
           /\ M1.result = SetAt(result[r], i, Active(r, plan[i], b, commAs[r][FindCommA(r, plan[i])]))
        \/ /\ CommAFor(r, plan[i]) = {} /\ M1.pc = "fullA" /\ M1.result = result[r] /\ M1.got = <<>>
           /\ M1.here.commB = b.commB /\ M1.here.lsa = b.lsa /\ M1.here.lane = b.lane /\ M1.here.ns = b.ns
    BY <1>4, <2>3 DEF SetAt
  <2>8. IsHere(M1.here)
    BY <1>2, <2>3
  <2>9. M1.at = i /\ M1.shared = sh /\ M1.known = kn /\ M1.commAs = commAs[r]
    BY <2>3
  <2>4. RankInv(Hist, r, M1)
    <3> HIDE DEF x
    <3> QED BY <1>0, <2>7, <2>8, <2>9, Reached
  <2> HIDE DEF x
  <2>5. /\ at' = [at EXCEPT ![r] = M1.at] /\ pc' = [pc EXCEPT ![r] = M1.pc]
        /\ ask' = [ask EXCEPT ![r] = M1.ask] /\ got' = [got EXCEPT ![r] = M1.got]
        /\ here' = [here EXCEPT ![r] = M1.here] /\ shared' = [shared EXCEPT ![r] = M1.shared]
        /\ known' = [known EXCEPT ![r] = M1.known] /\ commAs' = [commAs EXCEPT ![r] = M1.commAs]
        /\ result' = [result EXCEPT ![r] = M1.result] /\ M1.at >= at[r]
    BY <1>1, <2>2, <2>3
  <2>6. IInv' /\ Hist' = Hist /\ Local(r)' = M1 /\ \A q \in Processes : q # r => Local(q)' = Local(q)
    BY <2>3, <2>4, <2>5, RankStep
  <2> QED BY <2>3, <2>6
<1>5. CASE CommAFor(r, plan[i]) = {}
  <2>1. Enter(r, "fullA", v) /\ here' = [here EXCEPT ![r] = h] /\ UNCHANGED result
    BY <1>5 DEF StartA
  <2>2. /\ pc' = [pc EXCEPT ![r] = "fullA"] /\ ask' = [ask EXCEPT ![r] = v]
        /\ got' = [got EXCEPT ![r] = <<>>] /\ here' = [here EXCEPT ![r] = h]
        /\ result' = [result EXCEPT ![r] = result[r]]
    BY <2>1, <1>0 DEF Enter, Domains
  <2> HIDE DEF h
  <2>3. /\ M2.at = i /\ M2.pc = "fullA" /\ M2.ask = v /\ M2.got = <<>> /\ M2.here = h
        /\ M2.shared = sh /\ M2.known = kn /\ M2.commAs = commAs[r]
        /\ M2.result = result[r]
        /\ M2 = [at |-> M2.at, pc |-> M2.pc, ask |-> M2.ask, got |-> M2.got, here |-> M2.here,
                 shared |-> M2.shared, known |-> M2.known, commAs |-> M2.commAs, result |-> M2.result]
    OBVIOUS
  <2> HIDE DEF M2
  <2>4. RankInv(Hist, r, M2)
    BY <1>0, <1>3, <1>5, <2>3, Reached
  <2>5. /\ at' = [at EXCEPT ![r] = M2.at] /\ pc' = [pc EXCEPT ![r] = M2.pc]
        /\ ask' = [ask EXCEPT ![r] = M2.ask] /\ got' = [got EXCEPT ![r] = M2.got]
        /\ here' = [here EXCEPT ![r] = M2.here] /\ shared' = [shared EXCEPT ![r] = M2.shared]
        /\ known' = [known EXCEPT ![r] = M2.known] /\ commAs' = [commAs EXCEPT ![r] = M2.commAs]
        /\ result' = [result EXCEPT ![r] = M2.result] /\ M2.at >= at[r]
    BY <1>1, <2>2, <2>3
  <2>6. IInv' /\ Hist' = Hist /\ Local(r)' = M2 /\ \A q \in Processes : q # r => Local(q)' = Local(q)
    BY <2>3, <2>4, <2>5, RankStep
  <2> QED BY <2>3, <2>6
<1> QED BY <1>4, <1>5

-----------------------------------------------------------------------------
(* The commB of a step is stored. *)

(* A rank in a call: what it has returned, and its commA. *)
LEMMA MidCall ==
  ASSUME IInv, NEW r \in Processes, pc[r] # "idle"
  PROVE  DoneBefore(Hist, r, at[r], result[r]) /\ CachedFor(Hist, r, at[r], commAs[r])
<1> DEFINE L == Local(r)
<1>0. L.at = at[r] /\ L.pc = pc[r] /\ L.result = result[r] /\ L.commAs = commAs[r]
  BY DEF Local
<1>1. RankInv(Hist, r, L)
  BY DEF IInv
<1> HIDE DEF L
<1>2. \A j : Past(L, j) <=> j < at[r]
  BY <1>0 DEF Past
<1>3. DoneBefore(Hist, r, at[r], result[r])
  BY <1>0, <1>1, <1>2 DEF DoneBefore, RankInv, RankTypes, PastRight, ResultRight
<1>4. Listed(commAs[r]) /\ CommARight(Hist, r, L)
  BY <1>0, <1>1 DEF RankInv, RankTypes
<1>5. \A j \in CallsOf(Hist) : HoldsA(Hist, r, L, j) <=>
         (j \in CallsWith(Hist, r) /\ j < at[r] /\ Whole(Hist, {r}, j, at[r]) /\ FormedA(Hist, j))
  BY <1>0, <1>2 DEF HoldsA
<1>6. CachedFor(Hist, r, at[r], commAs[r])
  BY <1>0, <1>4, <1>5 DEF CachedFor, CommARight
<1> QED BY <1>3, <1>6

(* Changing the pool of an entry leaves the rest of it. *)
LEMMA PoolSet ==
  ASSUME NEW e, IsEntry(e), NEW x, NEW g, g = [e EXCEPT !.pool = x]
  PROVE  /\ IsEntry(g) /\ g.geometry = e.geometry /\ g.commB = e.commB /\ g.lsa = e.lsa
         /\ g.lane = e.lane /\ g.ns = e.ns /\ g.owner = e.owner /\ g.owns = e.owns /\ g.pool = x
<1> DEFINE k == [geometry |-> e.geometry, commB |-> e.commB, lsa |-> e.lsa, lane |-> e.lane, ns |-> e.ns,
                 owner |-> e.owner, owns |-> e.owns, pool |-> e.pool]
           l == [geometry |-> e.geometry, commB |-> e.commB, lsa |-> e.lsa, lane |-> e.lane, ns |-> e.ns,
                 owner |-> e.owner, owns |-> e.owns, pool |-> x]
<1>1. e = k
  BY DEF IsEntry
<1>2. g = [k EXCEPT !.pool = x]
  BY <1>1
<1>3. [k EXCEPT !.pool = x] = l
  OBVIOUS
<1>4. g = l
  BY <1>2, <1>3
<1> HIDE DEF k
<1>5. /\ g.geometry = e.geometry /\ g.commB = e.commB /\ g.lsa = e.lsa
      /\ g.lane = e.lane /\ g.ns = e.ns /\ g.owner = e.owner /\ g.owns = e.owns /\ g.pool = x
  BY <1>4
<1> QED BY <1>4, <1>5 DEF IsEntry

(* e and g differ in their pools at most. *)
Alike(e, g) ==
  /\ g.geometry = e.geometry /\ g.commB = e.commB /\ g.lsa = e.lsa /\ g.lane = e.lane
  /\ g.ns = e.ns /\ g.owner = e.owner /\ g.owns = e.owns

(* What Store makes of the table. *)
Kept(r, ns, on, lsa) == Append(shared[r], Entry(r, ns, on, lsa))
Table(r, ns, on, lsa) ==
  IF IsGen(r) /\ ns >= 0
    THEN [Kept(r, ns, on, lsa) EXCEPT ![here[r].owner].pool = Commit(@, MyCall(r).parent, ns)]
    ELSE Kept(r, ns, on, lsa)

LEMMA TableAlike ==
  ASSUME NEW r, Stored(shared[r]), NEW ns, NEW on, NEW lsa
  PROVE  LET e == Entry(r, ns, on, lsa)
             t == Table(r, ns, on, lsa)
         IN  /\ Stored(t) /\ Len(t) = Len(shared[r]) + 1 /\ DOMAIN t = 1 .. Len(shared[r]) + 1
             /\ DOMAIN shared[r] = 1 .. Len(shared[r]) /\ Len(shared[r]) \in Nat
             /\ \A n \in DOMAIN shared[r] : Alike(shared[r][n], t[n])
             /\ Alike(e, t[Len(shared[r]) + 1])
             /\ \A n \in DOMAIN t : t[n].pool =
                  LET a == Kept(r, ns, on, lsa) IN
                  IF IsGen(r) /\ ns >= 0 /\ n = here[r].owner
                    THEN Commit(a[n].pool, MyCall(r).parent, ns) ELSE a[n].pool
             /\ \A n \in DOMAIN shared[r] : Kept(r, ns, on, lsa)[n] = shared[r][n]
             /\ Kept(r, ns, on, lsa)[Len(shared[r]) + 1] = e
<1> DEFINE e == Entry(r, ns, on, lsa)
           t == Table(r, ns, on, lsa)
           a == Kept(r, ns, on, lsa)
           o == here[r].owner
           x == Commit(a[o].pool, MyCall(r).parent, ns)
<1>1. IsEntry(e)
  BY DEF Entry, IsEntry
<1>2. /\ Listed(shared[r]) /\ Listed(a) /\ Len(a) = Len(shared[r]) + 1 /\ DOMAIN a = 1 .. Len(a)
      /\ DOMAIN shared[r] = 1 .. Len(shared[r]) /\ Len(shared[r]) \in Nat
      /\ \A n \in DOMAIN shared[r] : a[n] = shared[r][n]
      /\ a[Len(shared[r]) + 1] = e
  <2>1. Listed(shared[r])
    BY DEF Stored
  <2> HIDE DEF e
  <2>2. a = Append(shared[r], e)
    BY DEF Kept, e
  <2> HIDE DEF a
  <2> QED BY <2>1, <2>2, ListAppend DEF Listed
<1>3. \A n \in DOMAIN a : IsEntry(a[n])
  <2> SUFFICES ASSUME NEW n \in DOMAIN a PROVE IsEntry(a[n])
    OBVIOUS
  <2>1. n \in DOMAIN shared[r] \/ n = Len(shared[r]) + 1
    <3> HIDE DEF a, e
    <3> QED BY <1>2
  <2> HIDE DEF a, e
  <2> QED BY <1>1, <1>2, <2>1 DEF Stored
<1>4. t = IF IsGen(r) /\ ns >= 0 THEN [a EXCEPT ![o].pool = x] ELSE a
  BY DEF Table
<1>5. a = [n \in 1 .. Len(a) |-> a[n]] /\ Len(a) \in Nat
  BY <1>2 DEF Listed
<1> HIDE DEF e, t, a, o, x
<1>6. /\ DOMAIN t = 1 .. Len(a) /\ t = [n \in 1 .. Len(a) |-> t[n]]
      /\ \A n \in 1 .. Len(a) :
           t[n] = IF IsGen(r) /\ ns >= 0 /\ n = o THEN [a[n] EXCEPT !.pool = x] ELSE a[n]
  BY <1>4, <1>5
<1>7. Len(t) = Len(a)
  BY <1>5, <1>6
<1>8. ASSUME NEW n \in 1 .. Len(a)
      PROVE  /\ IsEntry(t[n]) /\ Alike(a[n], t[n])
             /\ t[n].pool = IF IsGen(r) /\ ns >= 0 /\ n = o
                              THEN Commit(a[n].pool, MyCall(r).parent, ns) ELSE a[n].pool
  <2>1. CASE IsGen(r) /\ ns >= 0 /\ n = o
    <3>1. t[n] = [a[n] EXCEPT !.pool = x] /\ IsEntry(a[n])
      BY <1>2, <1>3, <1>6, <2>1
    <3>2. IsEntry(t[n]) /\ Alike(a[n], t[n]) /\ t[n].pool = x
      BY <3>1, PoolSet DEF Alike
    <3>3. x = Commit(a[n].pool, MyCall(r).parent, ns)
      BY <2>1 DEF x
    <3> QED BY <2>1, <3>2, <3>3
  <2>2. CASE ~(IsGen(r) /\ ns >= 0 /\ n = o)
    BY <1>2, <1>3, <1>6, <2>2 DEF Alike
  <2> QED BY <2>1, <2>2
<1>9. Stored(t)
  BY <1>5, <1>6, <1>7, <1>8 DEF Stored, Listed
<1>10. \A n \in DOMAIN shared[r] : Alike(shared[r][n], t[n])
  BY <1>2, <1>8
<1>11. Alike(e, t[Len(shared[r]) + 1])
  BY <1>2, <1>8
<1>12. \A n \in DOMAIN t : t[n].pool =
          IF IsGen(r) /\ ns >= 0 /\ n = o THEN Commit(a[n].pool, MyCall(r).parent, ns) ELSE a[n].pool
  BY <1>6, <1>8
<1> QED BY <1>2, <1>6, <1>7, <1>9, <1>10, <1>11, <1>12 DEF e, t, a, o

(* The pool does not matter to which step an entry is of. *)
LEMMA AlikeEntry ==
  ASSUME NEW H, NEW r, NEW j, NEW e, NEW g, Alike(e, g), EntryOf(H, r, j, e)
  PROVE  EntryOf(H, r, j, g)
BY DEF Alike, EntryOf, MatchesB

(* The rank stores the commB of its step. *)
LEMMA Stores ==
  ASSUME SplitAssumption,
         IInv, NEW r \in Processes, NEW k \in BKinds, After(r, k), Formed(Hist, at[r]),
         Upto(Hist, at[r], 7), \A l \in BKinds : ~Open(Hist, at[r], l),
         NEW ns, NEW on, NEW lsa, Store(r, ns, on, lsa),
         EntryOf(Hist, r, at[r], Entry(r, ns, on, lsa))
  PROVE  /\ IInv' /\ Hist' = Hist /\ minted' = minted
         /\ \A q \in Processes : q # r => Local(q)' = Local(q)
         /\ Local(r)'.at = at[r] /\ Local(r)'.shared = Table(r, ns, on, lsa)
         /\ Local(r)'.pc \in {"idle", "fullA"}
<1> DEFINE i == at[r]
           e == Entry(r, ns, on, lsa)
           L == Local(r)
           sh == Table(r, ns, on, lsa)
           g == [geometry |-> Geometry(MyCall(r))]
           kn == Append(known[r], g)
<1>0. L.at = i /\ L.pc = pc[r] /\ L.shared = shared[r] /\ L.known = known[r]
  BY DEF Local
<1>1. /\ pc[r] = k /\ pc[r] # "idle" /\ RankInv(Hist, r, L) /\ HistRight(Hist) /\ Base(Hist, i, k)
      /\ i \in CallsWith(Hist, r) /\ Hist.plan = plan /\ i \in Nat
  BY HeardFacts DEF Kinds, BKinds
<1>2. Stored(shared[r]) /\ Listed(known[r]) /\ SharedRight(Hist, r, L) /\ KnownRight(Hist, r, L)
  BY <1>0, <1>1 DEF RankInv, RankTypes
<1>3. /\ Domains /\ UNCHANGED <<plan, pack, at, commAs, minted, said>> /\ StartA(r, i, e)
      /\ shared' = [shared EXCEPT ![r] = sh] /\ known' = [known EXCEPT ![r] = kn]
  BY DEF IInv, Store, Table, Kept
<1>4. Reaches(Hist, i)
  BY <1>1 DEF Reaches, Base
<1>5. Source(Hist, i, i)
  <2>1. i \in CallsOf(Hist) /\ SameGeometry(Hist, i, i)
    BY <1>1 DEF CallsWith, SameGeometry
  <2>2. Whole(Hist, Members(Hist.plan[i]), i, i)
    BY <1>1, PlanFacts DEF Whole, HistRight
  <2> QED BY <1>1, <2>1, <2>2 DEF Source
<1>6. DoneBefore(Hist, r, i, result[r]) /\ CachedFor(Hist, r, i, commAs[r])
  BY <1>1, MidCall
<1>7. ~FormedA(Hist, i)
  BY Untold, Ords DEF FormedA, Kinds
<1>8. MatchesB(Hist, r, i, e)
  BY DEF EntryOf
<1>9. TablesAt(Hist, r, i, sh, kn)
  <2> DEFINE M == [at |-> i, pc |-> "idle", shared |-> sh, known |-> kn]
  <2>1. M.at = i /\ M.pc = "idle" /\ M.shared = sh /\ M.known = kn /\ "idle" \notin BKinds
    BY DEF BKinds
  <2>2. /\ Listed(kn) /\ DOMAIN known[r] = 1 .. Len(known[r]) /\ DOMAIN kn = 1 .. Len(known[r]) + 1
        /\ \A n \in DOMAIN known[r] : kn[n] = known[r][n]
        /\ kn[Len(known[r]) + 1] = g /\ Len(known[r]) \in Nat
    <3> HIDE DEF g
    <3> QED BY <1>2, ListAppend DEF Listed
  <2>3. KnownOf(Hist, i, g)
    BY <1>1 DEF KnownOf, MyCall
  <2>4. /\ Stored(sh) /\ DOMAIN sh = 1 .. Len(shared[r]) + 1
        /\ DOMAIN shared[r] = 1 .. Len(shared[r]) /\ Len(shared[r]) \in Nat
        /\ \A n \in DOMAIN shared[r] : Alike(shared[r][n], sh[n])
        /\ Alike(e, sh[Len(shared[r]) + 1])
    BY <1>2, TableAlike
  <2> HIDE DEF M, sh, kn, g, e, L
  <2>5. ASSUME NEW j \in CallsOf(Hist)
        PROVE  Holds(Hist, r, M, j) <=> (Holds(Hist, r, L, j) \/ j = i)
    <3>1. j \in Nat /\ Whole(Hist, {r}, i, i)
      BY <1>1, PlanFacts DEF HistRight, Whole
    <3>2. CASE j = i
      BY <1>1, <2>1, <3>1, <3>2 DEF Holds
    <3>3. CASE j # i
      BY <1>0, <2>1, <3>3 DEF Holds
    <3> QED BY <3>2, <3>3
  <2>6. i \in CallsOf(Hist) /\ EntryOf(Hist, r, i, e)
    BY <1>1 DEF CallsWith, e
  <2>7. SharedRight(Hist, r, M)
    <3>1. ASSUME NEW n \in DOMAIN sh
          PROVE  \E j \in CallsOf(Hist) : Holds(Hist, r, M, j) /\ EntryOf(Hist, r, j, sh[n])
      <4>1. CASE n \in DOMAIN shared[r]
        <5>1. PICK j \in CallsOf(Hist) : Holds(Hist, r, L, j) /\ EntryOf(Hist, r, j, shared[r][n])
          BY <1>0, <1>2, <4>1 DEF SharedRight
        <5>2. EntryOf(Hist, r, j, sh[n])
          BY <2>4, <4>1, <5>1, AlikeEntry
        <5> QED BY <2>5, <5>1, <5>2
      <4>2. CASE n = Len(shared[r]) + 1
        <5>1. EntryOf(Hist, r, i, sh[n])
          BY <2>4, <2>6, <4>2, AlikeEntry
        <5> QED BY <2>5, <2>6, <5>1
      <4> QED BY <2>4, <4>1, <4>2
    <3>2. ASSUME NEW j \in CallsOf(Hist), Holds(Hist, r, M, j)
          PROVE  \E n \in DOMAIN sh : EntryOf(Hist, r, j, sh[n])
      <4>1. CASE Holds(Hist, r, L, j)
        <5>1. PICK n \in DOMAIN shared[r] : EntryOf(Hist, r, j, shared[r][n])
          BY <1>0, <1>2, <4>1 DEF SharedRight
        <5>2. EntryOf(Hist, r, j, sh[n])
          BY <2>4, <5>1, AlikeEntry
        <5> QED BY <2>4, <5>2
      <4>2. CASE j = i
        <5>1. EntryOf(Hist, r, i, sh[Len(shared[r]) + 1])
          BY <2>4, <2>6, AlikeEntry
        <5> QED BY <2>4, <4>2, <5>1
      <4> QED BY <2>5, <3>2, <4>1, <4>2
    <3> QED BY <2>1, <3>1, <3>2 DEF SharedRight
  <2>8. KnownRight(Hist, r, M)
    <3>1. ASSUME NEW n \in DOMAIN kn
          PROVE  \E j \in CallsOf(Hist) : Holds(Hist, r, M, j) /\ KnownOf(Hist, j, kn[n])
      <4>1. CASE n \in DOMAIN known[r]
        <5>1. PICK j \in CallsOf(Hist) : Holds(Hist, r, L, j) /\ KnownOf(Hist, j, known[r][n])
          BY <1>0, <1>2, <4>1 DEF KnownRight
        <5> QED BY <2>2, <2>5, <4>1, <5>1
      <4>2. CASE n = Len(known[r]) + 1
        BY <2>2, <2>3, <2>5, <2>6, <4>2
      <4> QED BY <2>2, <4>1, <4>2
    <3>2. ASSUME NEW j \in CallsOf(Hist), Holds(Hist, r, M, j)
          PROVE  \E n \in DOMAIN kn : KnownOf(Hist, j, kn[n])
      <4>1. CASE Holds(Hist, r, L, j)
        <5>1. PICK n \in DOMAIN known[r] : KnownOf(Hist, j, known[r][n])
          BY <1>0, <1>2, <4>1 DEF KnownRight
        <5> QED BY <2>2, <5>1
      <4>2. CASE j = i
        BY <2>2, <2>3, <4>2
      <4> QED BY <2>5, <3>2, <4>1, <4>2
    <3> QED BY <2>1, <3>1, <3>2 DEF KnownRight
  <2> QED BY <2>2, <2>4, <2>7, <2>8 DEF TablesAt, M
<1>10. at' = [at EXCEPT ![r] = i]
  BY <1>3 DEF Domains
<1>11. i \in CallsOf(Hist) /\ i >= at[r]
  BY <1>1 DEF CallsWith
<1> HIDE DEF sh, kn, e
<1>12. /\ IInv' /\ Hist' = Hist /\ minted' = minted
       /\ \A q \in Processes : q # r => Local(q)' = Local(q)
       /\ Local(r)'.at = i /\ Local(r)'.shared = sh /\ Local(r)'.pc \in {"idle", "fullA"}
  BY <1>1, <1>3, <1>4, <1>5, <1>6, <1>7, <1>8, <1>9, <1>10, <1>11, StartsA
<1> QED BY <1>12 DEF sh

LEMMA NextLsaHeard ==
  ASSUME SplitAssumption, IInv, NEW r \in Processes, LsaHeard(r)
  PROVE  IInv'
<1> DEFINE i == at[r]
           e == Entry(r, -1, here[r].lane, MaxHeard(r))
<1>1. After(r, "lsa") /\ pack /\ "lsa" \in Kinds /\ "lsa" \in BKinds /\ Store(r, -1, here[r].lane, MaxHeard(r))
  BY DEF LsaHeard, Kinds, BKinds
<1>2. /\ Told(Hist, i, "lsa") /\ Upto(Hist, i, Ord("lsa")) /\ got[r] = said[at[r]][pc[r]] /\ pc[r] = "lsa"
      /\ Hist.plan = plan /\ Hist.pack = pack /\ HereRight(Hist, r, Local(r))
  BY <1>1, HeardFacts
<1>3. MaxHeard(r) = Top(Hist, i, "lsa")
  BY <1>2, SameTop
<1>4. Formed(Hist, i) /\ Upto(Hist, i, 7)
  <2>1. Upto(Hist, i, 6)
    BY <1>2, Ords
  <2>2. Upto(Hist, i, 7)
    BY <2>1, Ords DEF Upto
  <2> QED BY <1>1, <1>2, <2>2 DEF Formed
<1>5. ASSUME NEW l \in BKinds, Open(Hist, i, l) PROVE FALSE
  <2>1. CASE l = "namespace"
    BY <1>1, <1>2, <1>5, <2>1 DEF Open, Goes
  <2>2. CASE l # "namespace"
    <3>1. Ord(l) \in 1 .. 6
      BY <2>2, Ords DEF BKinds
    <3>2. Ord("lsa") <= Ord(l) - 1
      BY <1>1, <1>2, <1>5 DEF Open, Upto
    <3> QED BY <3>1, <3>2, Ords
  <2> QED BY <2>1, <2>2
<1>6. /\ here[r].lane = Said(Hist, i, "lanes")[plan[i].gens[1]]
      /\ here[r].reuse = Reuses(Hist, i)
      /\ r \in Gens(Hist.plan[i]) => here[r].commB = CommB(Hist, i)
  BY <1>1, <1>2 DEF HereRight, Local
<1>7. EntryOf(Hist, r, i, e)
  <2>1. /\ e.geometry = Geometry(MyCall(r)) /\ e.lsa = MaxHeard(r) /\ e.lane = here[r].lane /\ e.ns = -1
        /\ e.commB = here[r].commB /\ e.owns = (IsGen(r) /\ ~here[r].reuse)
    BY DEF Entry
  <2>2. IsGen(r) <=> r \in Gens(Hist.plan[i])
    BY <1>2 DEF IsGen, MyCall, Gens
  <2>3. MyCall(r) = Hist.plan[i]
    BY <1>2 DEF MyCall
  <2> HIDE DEF e
  <2>4. MatchesB(Hist, r, i, e)
    BY <1>1, <1>2, <1>3, <1>6, <2>1, <2>2 DEF MatchesB, LaneAt, NsOf
  <2> QED BY <1>6, <2>1, <2>2, <2>3, <2>4 DEF EntryOf
<1> QED BY <1>1, <1>4, <1>5, <1>7, Stores

LEMMA NextNamespacesHeard ==
  ASSUME SplitAssumption, IInv, NEW r \in Processes, NamespacesHeard(r)
  PROVE  /\ IInv'
         /\ \/ ~Formed(Hist, at[r]) /\ Fail(r) /\ Stay
            \/ LET ns == NsSaid(Hist, at[r]) IN
               /\ Formed(Hist, at[r]) /\ ns >= 0 /\ Agreed(Hist, at[r])
               /\ Hist' = Hist /\ minted' = minted
               /\ \A q \in Processes : q # r => Local(q)' = Local(q)
               /\ Local(r)'.at = at[r] /\ Local(r)'.pc \in {"idle", "fullA"}
               /\ Local(r)'.shared = Table(r, ns, NamespaceLane(ns), here[r].lsa)
               /\ EntryOf(Hist, r, at[r], Entry(r, ns, NamespaceLane(ns), here[r].lsa))
<1> DEFINE i == at[r]
           agreed == Heard(r)[MyCall(r).gens[1]]
<1>1. After(r, "namespace") /\ "namespace" \in Kinds /\ "namespace" \in BKinds
  BY DEF NamespacesHeard, Kinds, BKinds
<1>2. /\ Told(Hist, i, "namespace") /\ Upto(Hist, i, Ord("namespace")) /\ got[r] = said[at[r]][pc[r]]
      /\ pc[r] = "namespace" /\ Hist.plan = plan /\ Hist.pack = pack /\ HereRight(Hist, r, Local(r))
      /\ Base(Hist, i, "namespace") /\ Goes(Hist, i, "namespace")
      /\ \A l \in Kinds : Ord(l) > Ord("namespace") => ~Told(Hist, i, l)
  BY <1>1, HeardFacts
<1>3. Heard(r) = Said(Hist, i, "namespace")
  BY <1>2, SameTop
<1>4. ~pack /\ Told(Hist, i, "lsa") /\ ~KnownBefore(Hist, i)
  BY <1>1, <1>2 DEF Base, Goes
<1>5. agreed = NsSaid(Hist, i)
  BY <1>2, <1>3 DEF NsSaid, MyCall
<1>6. (agreed >= 0 /\ \A g \in Range(MyCall(r).gens) : Heard(r)[g] = agreed) <=> Agreed(Hist, i)
  BY <1>2, <1>3, <1>5 DEF Agreed, MyCall, Gens
<1>7. CASE ~Agreed(Hist, i)
  <2>1. Fail(r) /\ Stay
    BY <1>6, <1>7 DEF NamespacesHeard
  <2>2. Return(r, at[r], Failed)
    BY <2>1 DEF Fail
  <2>3. ~Formed(Hist, i)
    BY <1>2, <1>4, <1>7 DEF Formed
  <2>4. ~Told(Hist, i, "fullA") /\ ~Told(Hist, i, "splitA")
    BY <1>2, Ords DEF Kinds
  <2>5. NoNext(Hist, i, "namespace")
    BY <1>4, <2>3, <2>4, Ords DEF NoNext, Goes
  <2>6. Outcome(Hist, r, i, Failed)
    BY <1>2, <1>7, Unanswered DEF Outcome, Refused, LastSaid
  <2> QED BY <1>1, <2>1, <2>2, <2>3, <2>5, <2>6, GivesUp
<1>8. CASE Agreed(Hist, i)
  <2> DEFINE e == Entry(r, agreed, NamespaceLane(agreed), here[r].lsa)
  <2>1. Store(r, agreed, NamespaceLane(agreed), here[r].lsa)
    BY <1>6, <1>8 DEF NamespacesHeard
  <2>2. Formed(Hist, i) /\ Upto(Hist, i, 7)
    BY <1>2, <1>4, <1>8, Ords DEF Formed
  <2>3. ASSUME NEW l \in BKinds, Open(Hist, i, l) PROVE FALSE
    <3>1. Ord(l) \in 1 .. 7
      BY Ords DEF BKinds
    <3>2. Ord("namespace") <= Ord(l) - 1
      BY <1>1, <1>2, <2>3 DEF Open, Upto
    <3> QED BY <3>1, <3>2, Ords
  <2>4. /\ here[r].lsa = Top(Hist, i, "lsa")
        /\ here[r].reuse = Reuses(Hist, i)
        /\ r \in Gens(Hist.plan[i]) => here[r].commB = CommB(Hist, i)
    BY <1>1, <1>2 DEF HereRight, Local
  <2>5. EntryOf(Hist, r, i, e)
    <3>1. /\ e.geometry = Geometry(MyCall(r)) /\ e.lsa = here[r].lsa /\ e.lane = NamespaceLane(agreed)
          /\ e.ns = agreed /\ e.commB = here[r].commB /\ e.owns = (IsGen(r) /\ ~here[r].reuse)
      BY DEF Entry
    <3>2. IsGen(r) <=> r \in Gens(Hist.plan[i])
      BY <1>2 DEF IsGen, MyCall, Gens
    <3>3. MyCall(r) = Hist.plan[i]
      BY <1>2 DEF MyCall
    <3> HIDE DEF e
    <3>4. MatchesB(Hist, r, i, e)
      BY <1>2, <1>4, <1>5, <2>4, <3>1, <3>2 DEF MatchesB, LaneAt, NsOf
    <3> QED BY <2>4, <3>1, <3>2, <3>3, <3>4 DEF EntryOf
  <2>6. agreed >= 0
    BY <1>5, <1>8 DEF Agreed
  <2> HIDE DEF agreed, e
  <2>7. EntryOf(Hist, r, i, Entry(r, agreed, NamespaceLane(agreed), here[r].lsa))
    BY <2>5 DEF e
  <2>8. /\ IInv' /\ Hist' = Hist /\ minted' = minted
        /\ \A q \in Processes : q # r => Local(q)' = Local(q)
        /\ Local(r)'.at = at[r] /\ Local(r)'.shared = Table(r, agreed, NamespaceLane(agreed), here[r].lsa)
        /\ Local(r)'.pc \in {"idle", "fullA"}
    BY <1>1, <2>1, <2>2, <2>3, <2>7, Stores DEF agreed
  <2> QED BY <1>5, <1>8, <2>2, <2>6, <2>7, <2>8
<1> QED BY <1>7, <1>8

-----------------------------------------------------------------------------
(* The vote and the split of commA, and the end of the call. *)

LEMMA NextAVoted ==
  ASSUME SplitAssumption, IInv, NEW r \in Processes, AVoted(r)
  PROVE  IInv'
<1> DEFINE i == at[r]
<1>1. After(r, "fullA") /\ Stay /\ "fullA" \in Kinds /\ "fullA" \in AKinds /\ "fullA" \notin BKinds
  BY DEF AVoted, Kinds, AKinds, BKinds
<1>2. /\ Base(Hist, i, "fullA") /\ Told(Hist, i, "fullA") /\ Upto(Hist, i, Ord("fullA"))
      /\ got[r] = said[at[r]][pc[r]] /\ pc[r] = "fullA" /\ Hist.plan = plan /\ HereRight(Hist, r, Local(r))
      /\ \A l \in Kinds : Ord(l) > Ord("fullA") => ~Told(Hist, i, l)
  BY <1>1, HeardFacts
<1>3. MaxHeard(r) = Top(Hist, i, "fullA")
  BY <1>2, SameTop
<1>4. ~Told(Hist, i, "splitA")
  BY <1>2, Ords DEF Kinds
<1>6. CASE MaxHeard(r) = 1
  <2>1. NoNext(Hist, i, "fullA")
    BY <1>3, <1>4, <1>6, Ords DEF NoNext, Goes
  <2>2. Outcome(Hist, r, i, Failed)
    BY <1>2, <1>3, <1>6, Unanswered DEF Outcome, Refused, LastSaid
  <2>3. Return(r, at[r], Failed)
    BY <1>6 DEF AVoted, Fail
  <2> QED BY <1>1, <2>1, <2>2, <2>3, GivesUp
<1>7. CASE MaxHeard(r) # 1
  <2>1. Enter(r, "splitA", 0) /\ UNCHANGED <<here, result>>
    BY <1>7 DEF AVoted
  <2>2. "splitA" \in Kinds /\ "splitA" \notin BKinds /\ Ord("fullA") < Ord("splitA")
    BY Ords DEF Kinds, BKinds
  <2>3. Base(Hist, i, "splitA")
    BY <1>1, <1>2 DEF Base, AKinds, BKinds
  <2>4. Goes(Hist, i, "splitA")
    BY <1>2, <1>3, <1>7 DEF Goes
  <2>5. \E b \in CallsOf(Hist) : Source(Hist, b, i) /\ MatchesB(Hist, r, b, here[r])
    BY <1>1, <1>2 DEF HereRight, Local
  <2>6. HereRight(Hist, r, EnteredAs(r, "splitA", 0, here[r]))
    BY <2>5 DEF HereRight, EnteredAs, AKinds
  <2> QED BY <1>1, <2>1, <2>2, <2>3, <2>4, <2>6, Enters, KeepsHere, HereShape
<1> QED BY <1>6, <1>7

LEMMA NextCommASplit ==
  ASSUME SplitAssumption, IInv, NEW r \in Processes, CommASplit(r)
  PROVE  IInv'
<1> DEFINE i == at[r]
           v == IF IsSrc(r) THEN LsaSize ELSE 0
           x == IF InA(r, MyCall(r)) THEN Fresh(r) ELSE 0
           h == [here[r] EXCEPT !.commA = x]
<1>1. After(r, "splitA") /\ Stay /\ "splitA" \in Kinds /\ "splitA" \in AKinds /\ "splitA" \notin BKinds
  BY DEF CommASplit, Kinds, AKinds, BKinds
<1>2. /\ Base(Hist, i, "splitA") /\ Told(Hist, i, "splitA") /\ Upto(Hist, i, Ord("splitA"))
      /\ got[r] = said[at[r]][pc[r]] /\ pc[r] = "splitA" /\ Hist.plan = plan /\ HereRight(Hist, r, Local(r))
      /\ Hist.said = said
  BY <1>1, HeardFacts
<1>3. Fresh(r) = Hist.said[i]["splitA"][2]
  BY <1>2, SameTop
<1>4. Enter(r, "srcLsa", v) /\ UNCHANGED <<result>> /\ here' = [here EXCEPT ![r].commA = x]
  BY DEF CommASplit
<1>5. here' = [here EXCEPT ![r] = h]
  BY <1>4
<1>6. "srcLsa" \in Kinds /\ "srcLsa" \notin BKinds /\ Ord("splitA") < Ord("srcLsa")
  BY Ords DEF Kinds, BKinds
<1>7. Base(Hist, i, "srcLsa")
  BY <1>1, <1>2 DEF Base, AKinds, BKinds
<1>8. Goes(Hist, i, "srcLsa")
  BY <1>2 DEF Goes
<1>9. \E b \in CallsOf(Hist) : Source(Hist, b, i) /\ MatchesB(Hist, r, b, here[r])
  BY <1>1, <1>2 DEF HereRight, Local
<1>10. /\ IsHere(h) /\ h.commA = x /\ h.commB = here[r].commB /\ h.lsa = here[r].lsa
       /\ h.lane = here[r].lane /\ h.ns = here[r].ns
  BY HereShape, SetCommA
<1>11. InA(r, Hist.plan[i]) => x = Hist.said[i]["splitA"][2]
  BY <1>2, <1>3 DEF MyCall
<1> HIDE DEF v, x, h
<1>12. \E b \in CallsOf(Hist) : Source(Hist, b, i) /\ MatchesB(Hist, r, b, h)
  BY <1>9, <1>10 DEF MatchesB
<1>13. HereRight(Hist, r, EnteredAs(r, "srcLsa", v, h))
  BY <1>10, <1>11, <1>12 DEF HereRight, EnteredAs, AKinds
<1> QED BY <1>1, <1>4, <1>5, <1>6, <1>7, <1>8, <1>10, <1>13, Enters

LEMMA NextSrcLsaHeard ==
  ASSUME SplitAssumption, IInv, NEW r \in Processes, SrcLsaHeard(r)
  PROVE  /\ IInv' /\ Hist' = Hist /\ minted' = minted
         /\ \A q \in Processes : q # r => Local(q)' = Local(q)
         /\ Local(r)'.at = at[r] /\ Local(r)'.shared = shared[r] /\ Local(r)'.pc = "idle"
<1> DEFINE i == at[r]
           L == Local(r)
           a == [geometry |-> Geometry(MyCall(r)), k |-> MyCall(r).k, commA |-> here[r].commA,
                 inA |-> InA(r, MyCall(r)), srcLsa |-> MaxHeard(r)]
           x == Active(r, MyCall(r), here[r], a)
           ca == Append(commAs[r], a)
           M == [at |-> i, pc |-> "idle", ask |-> <<>>, got |-> <<>>, here |-> Nothing, shared |-> shared[r],
                 known |-> known[r], commAs |-> ca, result |-> [result[r] EXCEPT ![i] = x]]
<1>0. /\ L.at = i /\ L.pc = pc[r] /\ L.got = got[r] /\ L.shared = shared[r] /\ L.known = known[r]
      /\ L.commAs = commAs[r] /\ L.result = result[r] /\ L.here = here[r]
  BY DEF Local
<1>1. After(r, "srcLsa") /\ "srcLsa" \in Kinds /\ "srcLsa" \in AKinds /\ "srcLsa" \notin BKinds
  BY DEF SrcLsaHeard, Kinds, AKinds, BKinds
<1>2. /\ Base(Hist, i, "srcLsa") /\ Told(Hist, i, "srcLsa") /\ Upto(Hist, i, Ord("srcLsa"))
      /\ got[r] = said[at[r]][pc[r]] /\ pc[r] = "srcLsa" /\ Hist.plan = plan /\ HereRight(Hist, r, L)
      /\ Hist.said = said /\ i \in CallsWith(Hist, r) /\ RankInv(Hist, r, L) /\ HistRight(Hist)
      /\ i \in Nat /\ got[r] # <<>>
  BY <1>1, HeardFacts
<1>3. MaxHeard(r) = Top(Hist, i, "srcLsa")
  BY <1>2, SameTop
<1>4. FormedA(Hist, i)
  BY <1>2 DEF FormedA
<1>5. /\ \E b \in CallsOf(Hist) : Source(Hist, b, i) /\ MatchesB(Hist, r, b, here[r])
      /\ InA(r, Hist.plan[i]) => here[r].commA = Hist.said[i]["splitA"][2]
  <2> HIDE DEF L
  <2> QED BY <1>0, <1>1, <1>2 DEF HereRight
<1>6. i \in CallsOf(Hist) /\ r \in Members(Hist.plan[i]) /\ MyCall(r) = Hist.plan[i]
  BY <1>2 DEF CallsWith, MyCall
<1>7. MatchesA(Hist, r, i, a) /\ EntryOfA(Hist, r, i, a) /\ a.k = Hist.plan[i].k
  <2>1. /\ a.geometry = Geometry(Hist.plan[i]) /\ a.k = Hist.plan[i].k /\ a.commA = here[r].commA
        /\ a.inA = InA(r, Hist.plan[i]) /\ a.srcLsa = Top(Hist, i, "srcLsa")
    BY <1>3, <1>6
  <2> HIDE DEF a
  <2> QED BY <1>5, <2>1 DEF MatchesA, EntryOfA
<1> HIDE DEF a
<1>8. BestA(Hist, i, i)
  <2>1. Whole(Hist, Members(Hist.plan[i]), i, i) /\ Hist.plan[i].k \in Nat
    BY <1>2, <1>6, PlanFacts DEF Whole, HistRight
  <2>2. SourceA(Hist, i, i)
    BY <1>2, <1>4, <1>6, <2>1 DEF SourceA, SameGeometry
  <2>3. ASSUME NEW c \in CallsOf(Hist), SourceA(Hist, c, i) PROVE Hist.plan[i].k <= Hist.plan[c].k
    BY <2>1, <2>3, <1>2, PlanFacts DEF SourceA, HistRight
  <2> QED BY <2>2, <2>3 DEF BestA
<1>9. Outcome(Hist, r, i, x)
  <2>1. /\ x.verdict = "split" /\ x.commB = here[r].commB /\ x.lsa = here[r].lsa /\ x.lane = here[r].lane
        /\ x.ns = here[r].ns /\ x.commA = a.commA /\ x.inA = a.inA /\ x.srcLsa = a.srcLsa /\ x.domains = a.k
    BY DEF Active
  <2> HIDE DEF x
  <2>2. \E b \in CallsOf(Hist) : Source(Hist, b, i) /\ MatchesB(Hist, r, b, x)
    BY <1>5, <2>1 DEF MatchesB
  <2>3. MatchesA(Hist, r, i, x) /\ x.domains = Hist.plan[i].k
    BY <1>7, <2>1 DEF MatchesA
  <2>4. SplitDone(Hist, i)
    BY <1>1, <1>2, <1>4 DEF SplitDone, Base
  <2> QED BY <1>6, <1>8, <2>1, <2>2, <2>3, <2>4 DEF Outcome, SplitAs
<1>10. Ended(Hist, i)
  <2>1. NoNext(Hist, i, "srcLsa")
    BY Ords DEF NoNext
  <2> QED BY <1>1, <1>2, <2>1, EndsAt DEF NoNext
<1>11. /\ Listed(ca) /\ DOMAIN commAs[r] = 1 .. Len(commAs[r]) /\ DOMAIN ca = 1 .. Len(commAs[r]) + 1
       /\ \A n \in DOMAIN commAs[r] : ca[n] = commAs[r][n]
       /\ ca[Len(commAs[r]) + 1] = a /\ Len(commAs[r]) \in Nat
  <2>1. Listed(commAs[r])
    BY <1>0, <1>2 DEF RankInv, RankTypes
  <2> QED BY <2>1, ListAppend DEF Listed
<1>12. /\ M.at = i /\ M.pc = "idle" /\ M.ask = <<>> /\ M.got = <<>> /\ M.here = Nothing
       /\ M.shared = shared[r] /\ M.known = known[r] /\ M.commAs = ca
       /\ M.result = [result[r] EXCEPT ![i] = x]
       /\ M = [at |-> M.at, pc |-> M.pc, ask |-> M.ask, got |-> M.got, here |-> M.here,
               shared |-> M.shared, known |-> M.known, commAs |-> M.commAs, result |-> M.result]
  OBVIOUS
<1> HIDE DEF L, x, ca, M
<1>13. SharedRight(Hist, r, M) /\ KnownRight(Hist, r, M) /\ Stored(M.shared) /\ Listed(M.known)
  <2>1. \A j : Holds(Hist, r, M, j) <=> Holds(Hist, r, L, j)
    BY <1>0, <1>1, <1>2, <1>12 DEF Holds, BKinds
  <2>2. SharedRight(Hist, r, L) /\ KnownRight(Hist, r, L) /\ RankTypes(Hist, r, L)
    BY <1>2 DEF RankInv
  <2> QED BY <1>0, <1>12, <2>1, <2>2 DEF SharedRight, KnownRight, RankTypes
<1>14. CommARight(Hist, r, M)
  <2>1. ASSUME NEW j \in CallsOf(Hist)
        PROVE  HoldsA(Hist, r, M, j) <=> (HoldsA(Hist, r, L, j) \/ j = i)
    <3>1. j \in Nat /\ Whole(Hist, {r}, i, i)
      BY <1>2, PlanFacts DEF HistRight, Whole
    <3>2. CASE j = i
      BY <1>2, <1>4, <1>12, <3>1, <3>2 DEF HoldsA, Past
    <3>3. CASE j # i
      BY <1>0, <1>12, <3>3 DEF HoldsA, Past
    <3> QED BY <3>2, <3>3
  <2>2. CommARight(Hist, r, L)
    BY <1>2 DEF RankInv
  <2>3. ASSUME NEW n \in DOMAIN ca
        PROVE  \E j \in CallsOf(Hist) : HoldsA(Hist, r, M, j) /\ EntryOfA(Hist, r, j, ca[n])
    <3>1. CASE n \in DOMAIN commAs[r]
      <4>1. PICK j \in CallsOf(Hist) : HoldsA(Hist, r, L, j) /\ EntryOfA(Hist, r, j, commAs[r][n])
        BY <1>0, <2>2, <3>1 DEF CommARight
      <4> QED BY <1>11, <2>1, <3>1, <4>1
    <3>2. CASE n = Len(commAs[r]) + 1
      BY <1>6, <1>7, <1>11, <2>1, <3>2
    <3> QED BY <1>11, <3>1, <3>2
  <2>4. ASSUME NEW j \in CallsOf(Hist), HoldsA(Hist, r, M, j)
        PROVE  \E n \in DOMAIN ca : EntryOfA(Hist, r, j, ca[n])
    <3>1. CASE HoldsA(Hist, r, L, j)
      <4>1. PICK n \in DOMAIN commAs[r] : EntryOfA(Hist, r, j, commAs[r][n])
        BY <1>0, <2>2, <3>1 DEF CommARight
      <4> QED BY <1>11, <4>1
    <3>2. CASE j = i
      BY <1>7, <1>11, <3>2
    <3> QED BY <2>1, <2>4, <3>1, <3>2
  <2> QED BY <1>12, <2>3, <2>4 DEF CommARight
<1>15. RankInv(Hist, r, M)
  <2>1. RankTypes(Hist, r, L) /\ PastRight(Hist, r, L) /\ ResultRight(Hist, r, L)
    BY <1>2 DEF RankInv
  <2>2. L.at \in CallsWith(Hist, r) /\ M.at = L.at /\ IsHere(M.here) /\ Listed(M.commAs)
        /\ M.result = [L.result EXCEPT ![L.at] = x] /\ Ended(Hist, L.at) /\ Outcome(Hist, r, L.at, x)
    BY <1>0, <1>2, <1>9, <1>10, <1>11, <1>12, Unanswered
  <2> QED BY <1>2, <1>12, <1>13, <1>14, <2>1, <2>2, ReturnStep
<1>16. Domains /\ UNCHANGED <<plan, pack, at, shared, known, said, minted>>
  BY DEF IInv, SrcLsaHeard
<1>17. /\ pc' = [pc EXCEPT ![r] = "idle"] /\ ask' = [ask EXCEPT ![r] = <<>>]
       /\ got' = [got EXCEPT ![r] = <<>>] /\ here' = [here EXCEPT ![r] = Nothing]
       /\ result' = [result EXCEPT ![r][i] = x] /\ commAs' = [commAs EXCEPT ![r] = ca]
  BY DEF SrcLsaHeard, Return, x, a, ca
<1>18. /\ at' = [at EXCEPT ![r] = M.at] /\ pc' = [pc EXCEPT ![r] = M.pc]
       /\ ask' = [ask EXCEPT ![r] = M.ask] /\ got' = [got EXCEPT ![r] = M.got]
       /\ here' = [here EXCEPT ![r] = M.here] /\ shared' = [shared EXCEPT ![r] = M.shared]
       /\ known' = [known EXCEPT ![r] = M.known] /\ commAs' = [commAs EXCEPT ![r] = M.commAs]
       /\ result' = [result EXCEPT ![r] = M.result] /\ M.at >= at[r]
  <2>1. /\ at' = [at EXCEPT ![r] = at[r]] /\ shared' = [shared EXCEPT ![r] = shared[r]]
        /\ known' = [known EXCEPT ![r] = known[r]]
    BY <1>16 DEF Domains
  <2>2. result' = [result EXCEPT ![r] = [result[r] EXCEPT ![i] = x]]
    BY <1>17
  <2>3. M.at >= at[r]
    BY <1>2, <1>12
  <2> QED BY <1>12, <1>17, <2>1, <2>2, <2>3
<1>19. IInv' /\ Hist' = Hist /\ Local(r)' = M /\ \A q \in Processes : q # r => Local(q)' = Local(q)
  BY <1>12, <1>15, <1>16, <1>18, RankStep
<1> QED BY <1>12, <1>16, <1>19

-----------------------------------------------------------------------------
(* The step a rank goes to next has said nothing yet. *)

(* The next step of a rank is the first ahead of it. *)
LEMMA NextIs ==
  ASSUME SplitAssumption, IInv, NEW r \in Processes, Ahead(r) # {}
  PROVE  /\ NextStep(r) \in Steps /\ NextStep(r) > at[r] /\ NextStep(r) \in Nat /\ at[r] \in Nat
         /\ r \in Involved(plan[NextStep(r)])
         /\ \A j \in Steps : (r \in Involved(plan[j]) /\ at[r] < j) => NextStep(r) <= j
<1>1. Hist.plan = plan /\ plan \in Plans
  BY DEF Hist, IInv, HistRight
<1>2. Steps \subseteq Nat
  BY <1>1, PlanFacts DEF Steps
<1>3. Ahead(r) \in SUBSET Nat
  BY <1>2 DEF Ahead, MySteps
<1>4. PICK m \in Ahead(r) : \A n \in Ahead(r) : m <= n
  BY <1>3, Lowest
<1>5. NextStep(r) \in Ahead(r) /\ \A j \in Ahead(r) : NextStep(r) <= j
  BY <1>4 DEF NextStep
<1>6. at[r] \in Nat
  BY DEF IInv, RankInv, RankTypes, Local
<1> QED BY <1>2, <1>5, <1>6 DEF Ahead, MySteps

(* Nothing was said at the step a rank is about to start. *)
LEMMA Arriving ==
  ASSUME SplitAssumption,
         IInv, NEW r \in Processes, pc[r] = "idle", Ahead(r) # {}, plan[NextStep(r)].op = "call"
  PROVE  LET i == NextStep(r) IN
         /\ i \in CallsWith(Hist, r) /\ i > at[r] /\ i \in Nat /\ at[r] \in Nat
         /\ \A k \in Kinds : ~Told(Hist, i, k)
         /\ DoneBefore(Hist, r, i, result[r]) /\ CachedFor(Hist, r, i, commAs[r])
         /\ \A M : M.at = i => \A j \in CallsOf(Hist) :
              Holds(Hist, r, M, j) <=> Holds(Hist, r, Local(r), j)
         /\ \A j \in CallsOf(Hist) : (Source(Hist, j, i) /\ j < i) => Holds(Hist, r, Local(r), j)
         /\ \A j \in CallsOf(Hist) :
              (Holds(Hist, r, Local(r), j) /\ SameGeometry(Hist, j, i)) => Source(Hist, j, i) /\ j < i
<1> DEFINE i == NextStep(r)
           L == Local(r)
<1>0. L.at = at[r] /\ L.pc = pc[r] /\ L.result = result[r] /\ L.commAs = commAs[r]
  BY DEF Local
<1>1. /\ i \in Steps /\ i > at[r] /\ i \in Nat /\ at[r] \in Nat /\ r \in Involved(plan[i])
      /\ \A j \in Steps : (r \in Involved(plan[j]) /\ at[r] < j) => i <= j
  BY NextIs
<1>2. Hist.plan = plan /\ HistRight(Hist) /\ RankInv(Hist, r, L) /\ Hist.plan \in Plans
  BY DEF Hist, IInv, HistRight
<1> HIDE DEF L, i
<1>3. plan[i].op = "call"
  BY DEF i
<1>4. i \in CallsWith(Hist, r) /\ i \in CallsOf(Hist) /\ r \in Members(Hist.plan[i])
  BY <1>1, <1>2, <1>3 DEF CallsWith, CallsOf, Involved, Steps
<1>5. \A k \in Kinds : ~Told(Hist, i, k)
  <2> SUFFICES ASSUME NEW k \in Kinds, Told(Hist, i, k) PROVE FALSE
    OBVIOUS
  <2>1. at[r] >= i
    BY <1>1, <1>2, <1>4 DEF IInv, Arrived
  <2> QED BY <1>1, <2>1
<1>6. ASSUME NEW j \in CallsWith(Hist, r) PROVE j \in Nat /\ (j < i <=> j <= at[r])
  <2>1. j \in Nat /\ j \in Steps /\ r \in Involved(plan[j])
    BY <1>2, PlanFacts DEF CallsWith, CallsOf, Involved, Steps
  <2> QED BY <1>1, <2>1
<1>7. ASSUME NEW j \in CallsWith(Hist, r), j <= at[r]
      PROVE  Whole(Hist, {r}, j, i) <=> Whole(Hist, {r}, j, at[r])
  <2>1. ASSUME NEW f \in DOMAIN Hist.plan, at[r] < f, f <= i, Hist.plan[f].op = "finalize"
        PROVE  r \notin Hist.plan[f].ranks
    <3>1. r \in Hist.plan[f].ranks => r \in Involved(plan[f])
      BY <1>2, <2>1 DEF Involved
    <3>2. f \in Nat /\ f \in Steps
      BY <1>2, PlanFacts DEF Steps
    <3>3. f # i
      BY <1>2, <1>3, <2>1
    <3> QED BY <1>1, <2>1, <3>1, <3>2, <3>3
  <2>2. DOMAIN Hist.plan \subseteq Nat
    BY <1>2, PlanFacts
  <2>3. Whole(Hist, {r}, j, i) => Whole(Hist, {r}, j, at[r])
    BY <1>1, <2>2 DEF Whole
  <2>4. ASSUME Whole(Hist, {r}, j, at[r]) PROVE Whole(Hist, {r}, j, i)
    <3> SUFFICES ASSUME NEW f \in DOMAIN Hist.plan, j < f, f <= i, Hist.plan[f].op = "finalize"
                 PROVE  r \notin Hist.plan[f].ranks
      BY DEF Whole
    <3>1. CASE f <= at[r]
      BY <2>4, <3>1 DEF Whole
    <3>2. CASE at[r] < f
      BY <2>1, <3>2
    <3> QED BY <1>1, <2>2, <3>1, <3>2
  <2> QED BY <2>3, <2>4
<1>8. \A j : Past(L, j) <=> (j < at[r] \/ j = at[r])
  BY <1>0 DEF Past
<1>9. DoneBefore(Hist, r, i, result[r])
  <2>1. RankTypes(Hist, r, L) /\ PastRight(Hist, r, L) /\ ResultRight(Hist, r, L)
    BY <1>2 DEF RankInv
  <2>2. result[r] = [j \in DOMAIN Hist.plan |-> result[r][j]]
    BY <1>0, <2>1 DEF RankTypes
  <2>3. ASSUME NEW j \in CallsWith(Hist, r), j < i PROVE Ended(Hist, j)
    BY <1>1, <1>6, <1>8, <2>1, <2>3 DEF PastRight
  <2>4. ASSUME NEW j \in DOMAIN Hist.plan, result[r][j].verdict # "none"
        PROVE  j \in CallsWith(Hist, r) /\ j < i /\ Outcome(Hist, r, j, result[r][j])
    <3>1. j \in CallsWith(Hist, r) /\ Past(L, j) /\ Outcome(Hist, r, j, result[r][j])
      BY <1>0, <2>1, <2>4 DEF ResultRight
    <3> QED BY <1>1, <1>6, <1>8, <3>1
  <2> QED BY <2>2, <2>3, <2>4 DEF DoneBefore
<1>10. CachedFor(Hist, r, i, commAs[r])
  <2>1. Listed(commAs[r]) /\ CommARight(Hist, r, L)
    BY <1>0, <1>2 DEF RankInv, RankTypes
  <2>2. ASSUME NEW j \in CallsOf(Hist)
        PROVE  HoldsA(Hist, r, L, j) <=>
                 (j \in CallsWith(Hist, r) /\ j < i /\ Whole(Hist, {r}, j, i) /\ FormedA(Hist, j))
    <3>1. CASE j \in CallsWith(Hist, r) /\ j <= at[r]
      BY <1>0, <1>1, <1>6, <1>7, <1>8, <3>1 DEF HoldsA
    <3>2. CASE ~(j \in CallsWith(Hist, r) /\ j <= at[r])
      <4>1. ~HoldsA(Hist, r, L, j)
        BY <1>1, <1>6, <1>8, <3>2 DEF HoldsA
      <4> QED BY <1>6, <3>2, <4>1
    <3> QED BY <3>1, <3>2
  <2> QED BY <1>0, <2>1, <2>2 DEF CachedFor, CommARight
<1>11. ~Formed(Hist, i)
  BY <1>5 DEF Formed, Kinds
<1>12. ASSUME NEW M, M.at = i, NEW j \in CallsOf(Hist)
       PROVE  Holds(Hist, r, M, j) <=> Holds(Hist, r, L, j)
  <2>0. L.pc \notin BKinds
    BY <1>0 DEF BKinds
  <2>1. CASE j \in CallsWith(Hist, r) /\ j <= at[r]
    <3>1. j < i /\ j # i /\ j <= i
      BY <1>1, <1>6, <2>1
    <3> QED BY <1>0, <1>7, <1>12, <2>0, <2>1, <3>1 DEF Holds
  <2>2. CASE ~(j \in CallsWith(Hist, r) /\ j <= at[r])
    <3>1. ~Holds(Hist, r, L, j)
      BY <1>0, <2>2 DEF Holds
    <3>2. ~Holds(Hist, r, M, j)
      <4>1. j = i => ~Formed(Hist, j)
        BY <1>11
      <4>2. (j \in CallsWith(Hist, r) /\ j <= i) => j = i
        BY <1>1, <1>6, <2>2
      <4> QED BY <1>12, <4>1, <4>2 DEF Holds
    <3> QED BY <3>1, <3>2
  <2> QED BY <2>1, <2>2
<1>13. ASSUME NEW j \in CallsOf(Hist), Source(Hist, j, i), j < i PROVE Holds(Hist, r, L, j)
  <2>1. SameGeometry(Hist, j, i) /\ Formed(Hist, j) /\ Whole(Hist, Members(Hist.plan[i]), j, i)
    BY <1>13 DEF Source
  <2>2. j \in CallsWith(Hist, r)
    BY <1>4, <2>1, GeometryGives DEF CallsWith
  <2>3. j <= i /\ j <= at[r]
    BY <1>1, <1>6, <1>13, <2>2
  <2>4. Whole(Hist, {r}, j, at[r])
    BY <1>2, <1>4, <1>7, <2>1, <2>2, <2>3, WholeRank
  <2>5. L.pc \notin BKinds
    BY <1>0 DEF BKinds
  <2> QED BY <1>0, <2>1, <2>2, <2>3, <2>4, <2>5 DEF Holds
<1>14. ASSUME NEW j \in CallsOf(Hist), Holds(Hist, r, L, j), SameGeometry(Hist, j, i)
       PROVE  Source(Hist, j, i) /\ j < i
  <2>1. j \in CallsWith(Hist, r) /\ j <= at[r] /\ Whole(Hist, {r}, j, at[r]) /\ Formed(Hist, j)
    BY <1>0, <1>14 DEF Holds
  <2>2. j < i /\ j <= i
    BY <1>1, <1>6, <2>1
  <2>3. Whole(Hist, Members(Hist.plan[i]), j, i)
    BY <1>2, <1>4, <1>7, <1>14, <2>1, <2>2, WholeRank
  <2> QED BY <1>14, <2>1, <2>2, <2>3 DEF Source
<1> QED BY <1>1, <1>4, <1>5, <1>9, <1>10, <1>12, <1>13, <1>14 DEF L, i

-----------------------------------------------------------------------------
(* A rank begins a call, or starts again. *)

(* Tables that were right before the rank moved on are right after. *)
LEMMA CarryTables ==
  ASSUME NEW H, NEW r, NEW L, NEW M, SharedRight(H, r, L), KnownRight(H, r, L),
         \A j \in CallsOf(H) : Holds(H, r, M, j) <=> Holds(H, r, L, j),
         M.shared = L.shared, M.known = L.known
  PROVE  SharedRight(H, r, M) /\ KnownRight(H, r, M)
BY DEF SharedRight, KnownRight

(* A rank begins its next call. *)
LEMMA NextStartCall ==
  ASSUME SplitAssumption, IInv, NEW r \in Processes, StartCall(r)
  PROVE  /\ IInv' /\ Hist' = Hist /\ minted' = minted
         /\ \A q \in Processes : q # r => Local(q)' = Local(q)
         /\ Local(r)'.at = NextStep(r) /\ Local(r)'.shared = shared[r]
         /\ Local(r)'.pc \in {"idle", "fullA", "fullParents"}
<1> DEFINE i == NextStep(r)
           L == Local(r)
<1>0. L.at = at[r] /\ L.pc = pc[r] /\ L.shared = shared[r] /\ L.known = known[r] /\ L.commAs = commAs[r]
  BY DEF Local
<1>1. /\ pc[r] = "idle" /\ Ahead(r) # {} /\ plan[i].op = "call" /\ at' = [at EXCEPT ![r] = i]
      /\ UNCHANGED <<plan, pack, shared, known, commAs, minted, said>>
  BY DEF StartCall, tableVars
<1>2. /\ i \in CallsWith(Hist, r) /\ i > at[r] /\ i \in Nat /\ at[r] \in Nat
      /\ \A k \in Kinds : ~Told(Hist, i, k)
      /\ DoneBefore(Hist, r, i, result[r]) /\ CachedFor(Hist, r, i, commAs[r])
      /\ \A M : M.at = i => \A j \in CallsOf(Hist) : Holds(Hist, r, M, j) <=> Holds(Hist, r, L, j)
      /\ \A j \in CallsOf(Hist) : (Source(Hist, j, i) /\ j < i) => Holds(Hist, r, L, j)
      /\ \A j \in CallsOf(Hist) :
           (Holds(Hist, r, L, j) /\ SameGeometry(Hist, j, i)) => Source(Hist, j, i) /\ j < i
  <2> HIDE DEF L
  <2> QED BY <1>1, Arriving DEF L
<1>3. Hist.plan = plan /\ HistRight(Hist) /\ RankInv(Hist, r, L) /\ Domains
  BY DEF Hist, IInv
<1> HIDE DEF L
<1>4. /\ i \in CallsOf(Hist) /\ r \in Members(plan[i]) /\ i \in DOMAIN Hist.plan
      /\ Stored(shared[r]) /\ Listed(known[r]) /\ Listed(commAs[r])
      /\ SharedRight(Hist, r, L) /\ KnownRight(Hist, r, L)
  BY <1>0, <1>2, <1>3 DEF CallsWith, CallsOf, RankInv, RankTypes
<1>5. ~Formed(Hist, i) /\ ~FormedA(Hist, i)
  BY <1>2 DEF Formed, FormedA, Kinds
<1>6. \A k \in Kinds : k # "fullParents" /\ k # "fullA" => ~Goes(Hist, i, k)
  <2>1. /\ ~Told(Hist, i, "fullParents") /\ ~Told(Hist, i, "lanes") /\ ~Told(Hist, i, "pool")
        /\ ~Told(Hist, i, "fullB") /\ ~Told(Hist, i, "splitB") /\ ~Told(Hist, i, "lsa")
        /\ ~Told(Hist, i, "fullA") /\ ~Told(Hist, i, "splitA")
    BY <1>2 DEF Kinds
  <2> QED BY <2>1 DEF Goes
<1>7. /\ shared' = [shared EXCEPT ![r] = shared[r]] /\ known' = [known EXCEPT ![r] = known[r]]
      /\ commAs' = [commAs EXCEPT ![r] = commAs[r]]
  BY <1>1, <1>3 DEF Domains
<1>8. Upto(Hist, i, 0) /\ Upto(Hist, i, 7)
  BY <1>2 DEF Upto
<1> HIDE DEF i
<1>9. CASE Overlap(plan[i])
  <2> DEFINE M == [at |-> i, pc |-> "idle", ask |-> <<>>, got |-> <<>>, here |-> Nothing,
                   shared |-> shared[r], known |-> known[r], commAs |-> commAs[r],
                   result |-> [result[r] EXCEPT ![i] = Parent]]
  <2>1. Return(r, i, Parent)
    BY <1>9 DEF StartCall, i
  <2>2. /\ M.at = i /\ M.pc = "idle" /\ M.ask = <<>> /\ M.got = <<>> /\ M.here = Nothing
        /\ M.shared = shared[r] /\ M.known = known[r] /\ M.commAs = commAs[r]
        /\ M.result = [result[r] EXCEPT ![i] = Parent]
        /\ M = [at |-> M.at, pc |-> M.pc, ask |-> M.ask, got |-> M.got, here |-> M.here,
                shared |-> M.shared, known |-> M.known, commAs |-> M.commAs, result |-> M.result]
    OBVIOUS
  <2> HIDE DEF M
  <2>3. SharedRight(Hist, r, M) /\ KnownRight(Hist, r, M)
    BY <1>0, <1>2, <1>4, <2>2, CarryTables
  <2>4. CommARight(Hist, r, M)
    BY <1>2, <1>3, <1>4, <1>5, <2>2, CachedHold DEF HistRight
  <2>5. Ended(Hist, i)
    BY <1>3, <1>6, <1>9 DEF Ended, Open, Goes
  <2>6. Outcome(Hist, r, i, Parent)
    BY <1>3, <1>9, Unanswered DEF Outcome, Parented
  <2>7. result[r] = [j \in DOMAIN Hist.plan |-> result[r][j]]
    BY <1>2 DEF DoneBefore
  <2>8. RankTypes(Hist, r, M)
    BY <1>2, <1>4, <2>2, <2>7, Unanswered DEF RankTypes
  <2>9. AtRight(Hist, r, M)
    BY <2>2 DEF AtRight
  <2>10. PastRight(Hist, r, M)
    BY <1>2, <2>2, <2>5 DEF PastRight, Past, DoneBefore
  <2>11. ResultRight(Hist, r, M)
    <3> SUFFICES ASSUME NEW j \in DOMAIN Hist.plan, M.result[j].verdict # "none"
                 PROVE  j \in CallsWith(Hist, r) /\ Past(M, j) /\ Outcome(Hist, r, j, M.result[j])
      BY DEF ResultRight
    <3>0. M.result[j] = IF j = i THEN Parent ELSE result[r][j]
      BY <2>2, <2>7
    <3>1. CASE j = i
      BY <1>2, <2>2, <2>6, <3>0, <3>1 DEF Past
    <3>2. CASE j # i
      BY <1>2, <2>2, <3>0, <3>2 DEF Past, DoneBefore
    <3> QED BY <3>1, <3>2
  <2>12. RankInv(Hist, r, M)
    BY <2>3, <2>4, <2>8, <2>9, <2>10, <2>11 DEF RankInv
  <2>13. result' = [result EXCEPT ![r] = [result[r] EXCEPT ![i] = Parent]]
    BY <2>1 DEF Return
  <2>14. /\ at' = [at EXCEPT ![r] = M.at] /\ pc' = [pc EXCEPT ![r] = M.pc]
         /\ ask' = [ask EXCEPT ![r] = M.ask] /\ got' = [got EXCEPT ![r] = M.got]
         /\ here' = [here EXCEPT ![r] = M.here] /\ shared' = [shared EXCEPT ![r] = M.shared]
         /\ known' = [known EXCEPT ![r] = M.known] /\ commAs' = [commAs EXCEPT ![r] = M.commAs]
         /\ result' = [result EXCEPT ![r] = M.result]
    BY <1>1, <1>7, <2>1, <2>2, <2>13 DEF Return, i
  <2>15. M.at >= at[r]
    BY <1>2, <2>2
  <2>16. IInv' /\ Hist' = Hist /\ Local(r)' = M /\ \A q \in Processes : q # r => Local(q)' = Local(q)
    BY <1>1, <2>2, <2>12, <2>14, <2>15, RankStep
  <2> QED BY <1>1, <2>2, <2>16 DEF i
<1>10. CASE ~Overlap(plan[i]) /\ FindKnown(r, plan[i]) # 0
  <2>1. StartA(r, i, shared[r][FindShared(r, plan[i])])
    BY <1>10 DEF StartCall, i
  <2>2. PICK n \in DOMAIN known[r] : known[r][n].geometry = Geometry(plan[i])
    BY <1>4, <1>10, FoundKnown
  <2>3. PICK j \in CallsOf(Hist) : Holds(Hist, r, L, j) /\ KnownOf(Hist, j, known[r][n])
    BY <1>0, <1>4 DEF KnownRight
  <2>4. SameGeometry(Hist, j, i)
    BY <1>3, <2>2, <2>3 DEF KnownOf, SameGeometry
  <2>5. KnownBefore(Hist, i)
    BY <1>2, <2>3, <2>4 DEF KnownBefore
  <2>6. PICK m \in DOMAIN shared[r] : EntryOf(Hist, r, j, shared[r][m])
    BY <1>0, <1>4, <2>3 DEF SharedRight
  <2>7. shared[r][m].geometry = Geometry(plan[i])
    BY <1>3, <2>4, <2>6 DEF EntryOf, SameGeometry
  <2> DEFINE f == FindShared(r, plan[i])
  <2>8. f \in DOMAIN shared[r] /\ shared[r][f].geometry = Geometry(plan[i])
    BY <1>4, <2>7, FoundShared DEF Stored
  <2> HIDE DEF f
  <2>9. PICK c \in CallsOf(Hist) : Holds(Hist, r, L, c) /\ EntryOf(Hist, r, c, shared[r][f])
    BY <1>0, <1>4, <2>8 DEF SharedRight
  <2>10. SameGeometry(Hist, c, i)
    BY <1>3, <2>8, <2>9 DEF EntryOf, SameGeometry
  <2>11. Source(Hist, c, i) /\ MatchesB(Hist, r, c, shared[r][f])
    BY <1>2, <2>9, <2>10 DEF EntryOf
  <2>12. Reaches(Hist, i)
    <3>1. \A k \in BKinds : ~Goes(Hist, i, k)
      <4>1. ~Goes(Hist, i, "fullParents")
        BY <1>3, <2>5 DEF Goes
      <4> QED BY <1>6, <4>1 DEF BKinds, Kinds
    <3> QED BY <1>3, <1>8, <1>10, <2>5, <3>1 DEF Reaches, Open
  <2>13. TablesAt(Hist, r, i, shared[r], known[r])
    <3> DEFINE M == [at |-> i, pc |-> "idle", shared |-> shared[r], known |-> known[r]]
    <3>1. M.at = i /\ M.shared = shared[r] /\ M.known = known[r]
      OBVIOUS
    <3> HIDE DEF M
    <3>2. SharedRight(Hist, r, M) /\ KnownRight(Hist, r, M)
      BY <1>0, <1>2, <1>4, <3>1, CarryTables
    <3> QED BY <1>4, <3>2 DEF TablesAt, M
  <2>14. /\ i >= at[r] /\ StartA(r, i, shared[r][f]) /\ at' = [at EXCEPT ![r] = i]
         /\ UNCHANGED <<plan, pack, commAs, said, minted>>
    BY <1>1, <1>2, <2>1 DEF f
  <2>15. /\ IInv' /\ Hist' = Hist /\ minted' = minted
         /\ \A q \in Processes : q # r => Local(q)' = Local(q)
         /\ Local(r)'.at = i /\ Local(r)'.shared = shared[r] /\ Local(r)'.pc \in {"idle", "fullA"}
    BY <1>2, <1>5, <1>7, <2>11, <2>12, <2>13, <2>14, StartsA
  <2> QED BY <2>15 DEF i
<1>11. CASE ~Overlap(plan[i]) /\ FindKnown(r, plan[i]) = 0
  <2> DEFINE v == IF Len(known[r]) >= MaxEntries THEN 1 ELSE 0
             M == [at |-> i, pc |-> "fullParents", ask |-> v, got |-> <<>>, here |-> here[r],
                   shared |-> shared[r], known |-> known[r], commAs |-> commAs[r],
                   result |-> result[r]]
  <2>1. Enter(r, "fullParents", v) /\ UNCHANGED <<here, result>>
    BY <1>11 DEF StartCall, i
  <2>2. /\ M.at = i /\ M.pc = "fullParents" /\ M.ask = v /\ M.got = <<>> /\ M.here = here[r]
        /\ M.shared = shared[r] /\ M.known = known[r] /\ M.commAs = commAs[r]
        /\ M.result = result[r]
        /\ M = [at |-> M.at, pc |-> M.pc, ask |-> M.ask, got |-> M.got, here |-> M.here,
                shared |-> M.shared, known |-> M.known, commAs |-> M.commAs, result |-> M.result]
    OBVIOUS
  <2> HIDE DEF M, v
  <2>3. SharedRight(Hist, r, M) /\ KnownRight(Hist, r, M)
    BY <1>0, <1>2, <1>4, <2>2, CarryTables
  <2>4. CommARight(Hist, r, M)
    BY <1>2, <1>3, <1>4, <1>5, <2>2, CachedHold DEF HistRight
  <2>5. ~KnownBefore(Hist, i)
    <3> SUFFICES ASSUME NEW b \in CallsOf(Hist), b < i, Source(Hist, b, i) PROVE FALSE
      BY DEF KnownBefore
    <3>1. PICK n \in DOMAIN known[r] : KnownOf(Hist, b, known[r][n])
      BY <1>0, <1>2, <1>4 DEF KnownRight
    <3>2. known[r][n].geometry = Geometry(plan[i])
      BY <1>3, <3>1 DEF KnownOf, Source, SameGeometry
    <3> QED BY <1>4, <1>11, <3>2, FoundKnown
  <2>6. "fullParents" \in Kinds /\ "fullParents" \in BKinds /\ "fullParents" \notin AKinds
        /\ Ord("fullParents") - 1 = 0
    BY Ords DEF Kinds, BKinds, AKinds
  <2>7. Base(Hist, i, "fullParents") /\ Goes(Hist, i, "fullParents")
    BY <1>3, <1>4, <1>11, <2>5, <2>6 DEF Base, Goes
  <2>8. RankTypes(Hist, r, M)
    BY <1>2, <1>4, <2>2, <2>6, HereShape DEF RankTypes, DoneBefore
  <2>9. HereRight(Hist, r, M)
    BY <2>2, <2>6 DEF HereRight
  <2>10. AtRight(Hist, r, M)
    BY <1>3, <1>4, <1>8, <2>2, <2>6, <2>7, <2>9 DEF AtRight
  <2>11. PastRight(Hist, r, M)
    BY <1>2, <2>2 DEF PastRight, Past, DoneBefore
  <2>12. ResultRight(Hist, r, M)
    BY <1>2, <2>2 DEF ResultRight, Past, DoneBefore
  <2>13. RankInv(Hist, r, M)
    BY <2>3, <2>4, <2>8, <2>10, <2>11, <2>12 DEF RankInv
  <2>14. here' = [here EXCEPT ![r] = here[r]] /\ result' = [result EXCEPT ![r] = result[r]]
    BY <1>3, <2>1 DEF Domains
  <2>15. /\ at' = [at EXCEPT ![r] = M.at] /\ pc' = [pc EXCEPT ![r] = M.pc]
         /\ ask' = [ask EXCEPT ![r] = M.ask] /\ got' = [got EXCEPT ![r] = M.got]
         /\ here' = [here EXCEPT ![r] = M.here] /\ shared' = [shared EXCEPT ![r] = M.shared]
         /\ known' = [known EXCEPT ![r] = M.known] /\ commAs' = [commAs EXCEPT ![r] = M.commAs]
         /\ result' = [result EXCEPT ![r] = M.result]
    BY <1>1, <1>7, <2>1, <2>2, <2>14 DEF Enter, i
  <2>16. M.at >= at[r]
    BY <1>2, <2>2
  <2>17. IInv' /\ Hist' = Hist /\ Local(r)' = M /\ \A q \in Processes : q # r => Local(q)' = Local(q)
    BY <1>1, <2>2, <2>13, <2>15, <2>16, RankStep
  <2> QED BY <1>1, <2>2, <2>17 DEF i
<1> QED BY <1>9, <1>10, <1>11

(* A rank starts again, with empty tables. *)
LEMMA NextRestart ==
  ASSUME SplitAssumption, IInv, NEW r \in Processes, Restart(r)
  PROVE  /\ IInv' /\ Hist' = Hist /\ minted' = minted
         /\ \A q \in Processes : q # r => Local(q)' = Local(q)
         /\ Local(r)'.shared = <<>> /\ Local(r)'.pc = "idle"
<1> DEFINE i == NextStep(r)
           L == Local(r)
           M == [at |-> i, pc |-> pc[r], ask |-> ask[r], got |-> got[r], here |-> here[r],
                 shared |-> <<>>, known |-> <<>>, commAs |-> <<>>, result |-> result[r]]
<1>0. L.at = at[r] /\ L.pc = pc[r] /\ L.result = result[r]
  BY DEF Local
<1>1. /\ pc[r] = "idle" /\ Ahead(r) # {} /\ plan[i].op = "finalize" /\ at' = [at EXCEPT ![r] = i]
      /\ UNCHANGED <<plan, pack, pc, ask, got, here, result, minted, said>>
      /\ shared' = [shared EXCEPT ![r] = <<>>] /\ known' = [known EXCEPT ![r] = <<>>]
      /\ commAs' = [commAs EXCEPT ![r] = <<>>]
  BY DEF Restart
<1>2. /\ i \in Steps /\ i > at[r] /\ i \in Nat /\ at[r] \in Nat /\ r \in Involved(plan[i])
      /\ \A j \in Steps : (r \in Involved(plan[j]) /\ at[r] < j) => i <= j
  BY <1>1, NextIs
<1>3. Hist.plan = plan /\ HistRight(Hist) /\ RankInv(Hist, r, L) /\ Domains /\ Hist.plan \in Plans
  BY DEF Hist, IInv, HistRight
<1>4. /\ M.at = i /\ M.pc = "idle" /\ M.pc = pc[r] /\ M.ask = ask[r] /\ M.got = got[r] /\ M.here = here[r]
      /\ M.shared = <<>> /\ M.known = <<>> /\ M.commAs = <<>> /\ M.result = result[r]
      /\ M = [at |-> M.at, pc |-> M.pc, ask |-> M.ask, got |-> M.got, here |-> M.here,
              shared |-> M.shared, known |-> M.known, commAs |-> M.commAs, result |-> M.result]
  BY <1>1
<1> HIDE DEF L, i, M
<1>5. r \in plan[i].ranks
  BY <1>1, <1>2 DEF Involved
<1>6. ASSUME NEW j \in CallsWith(Hist, r), Past(M, j) PROVE j < i /\ j <= at[r] /\ Past(L, j)
  <2>1. j \in Nat /\ j \in Steps /\ r \in Involved(plan[j]) /\ j # i
    BY <1>1, <1>3, PlanFacts DEF CallsWith, CallsOf, Involved, Steps
  <2>2. j < i
    BY <1>4, <1>6, <2>1 DEF Past
  <2>3. j <= at[r]
    BY <1>2, <2>1, <2>2
  <2> QED BY <1>0, <1>1, <1>2, <2>1, <2>2, <2>3 DEF Past
<1>7. RankTypes(Hist, r, L) /\ PastRight(Hist, r, L) /\ ResultRight(Hist, r, L)
  BY <1>3 DEF RankInv
<1>8. RankTypes(Hist, r, M)
  <2>1. Listed(<<>>) /\ Stored(<<>>)
    BY EmptyList DEF Stored
  <2> QED BY <1>0, <1>2, <1>4, <1>7, <2>1, HereShape DEF RankTypes
<1>9. AtRight(Hist, r, M)
  BY <1>4 DEF AtRight
<1>10. PastRight(Hist, r, M)
  BY <1>6, <1>7 DEF PastRight
<1>11. ResultRight(Hist, r, M)
  <2> SUFFICES ASSUME NEW j \in DOMAIN Hist.plan, M.result[j].verdict # "none"
               PROVE  j \in CallsWith(Hist, r) /\ Past(M, j) /\ Outcome(Hist, r, j, M.result[j])
    BY DEF ResultRight
  <2>1. j \in CallsWith(Hist, r) /\ Past(L, j) /\ Outcome(Hist, r, j, L.result[j])
    BY <1>0, <1>4, <1>7 DEF ResultRight
  <2>2. j \in Nat
    BY <2>1, <1>3, PlanFacts DEF CallsWith
  <2> QED BY <1>0, <1>2, <1>4, <2>1, <2>2 DEF Past
<1>12. ASSUME NEW j \in CallsOf(Hist) PROVE ~Holds(Hist, r, M, j) /\ ~HoldsA(Hist, r, M, j)
  <2>1. j \in Nat /\ j # i
    BY <1>1, <1>3, PlanFacts DEF CallsOf
  <2>2. (j <= i) => ~Whole(Hist, {r}, j, i)
    BY <1>1, <1>2, <1>3, <1>5, <2>1 DEF Whole, Steps
  <2> QED BY <1>2, <1>4, <2>1, <2>2 DEF Holds, HoldsA, Past
<1>13. SharedRight(Hist, r, M) /\ KnownRight(Hist, r, M) /\ CommARight(Hist, r, M)
  <2>1. DOMAIN M.shared = {} /\ DOMAIN M.known = {} /\ DOMAIN M.commAs = {}
    BY <1>4, EmptyList
  <2> QED BY <1>12, <2>1 DEF SharedRight, KnownRight, CommARight
<1>14. RankInv(Hist, r, M)
  BY <1>8, <1>9, <1>10, <1>11, <1>13 DEF RankInv
<1>15. /\ pc' = [pc EXCEPT ![r] = pc[r]] /\ ask' = [ask EXCEPT ![r] = ask[r]]
       /\ got' = [got EXCEPT ![r] = got[r]] /\ here' = [here EXCEPT ![r] = here[r]]
       /\ result' = [result EXCEPT ![r] = result[r]]
  BY <1>1, <1>3 DEF Domains
<1>16. /\ at' = [at EXCEPT ![r] = M.at] /\ pc' = [pc EXCEPT ![r] = M.pc]
       /\ ask' = [ask EXCEPT ![r] = M.ask] /\ got' = [got EXCEPT ![r] = M.got]
       /\ here' = [here EXCEPT ![r] = M.here] /\ shared' = [shared EXCEPT ![r] = M.shared]
       /\ known' = [known EXCEPT ![r] = M.known] /\ commAs' = [commAs EXCEPT ![r] = M.commAs]
       /\ result' = [result EXCEPT ![r] = M.result]
  BY <1>1, <1>4, <1>15
<1>17. M.at >= at[r]
  BY <1>2, <1>4
<1>18. IInv' /\ Hist' = Hist /\ Local(r)' = M /\ \A q \in Processes : q # r => Local(q)' = Local(q)
  BY <1>1, <1>4, <1>14, <1>16, <1>17, RankStep
<1> QED BY <1>1, <1>4, <1>18

(* The steps of the device and the stuttering ones. *)
LEMMA NextSame ==
  ASSUME IInv, UNCHANGED <<callVars, tableVars, minted, said, result>>
  PROVE  IInv' /\ Hist' = Hist /\ minted' = minted /\ \A q \in Processes : Local(q)' = Local(q)
<1>1. UNCHANGED <<plan, pack, at, pc, ask, got, here, shared, known, commAs, minted, said, result>>
  BY DEF callVars, tableVars
<1>2. Hist' = Hist /\ \A q \in Processes : Local(q)' = Local(q)
  BY <1>1 DEF Hist, Local
<1>3. Domains'
  BY <1>1 DEF IInv, Domains
<1>4. Arrived'
  BY <1>1, <1>2 DEF IInv, Arrived, Steps
<1>5. HistRight(Hist)' /\ \A q \in Processes : RankInv(Hist, q, Local(q))'
  BY <1>2 DEF IInv
<1> QED BY <1>1, <1>2, <1>3, <1>4, <1>5 DEF IInv

-----------------------------------------------------------------------------
(* What a collective says changes nothing of what was said before. *)

(* G is H after the collective k of step i, with every member of it at i. *)
Grows(H, G, i, k) ==
  /\ HistRight(H) /\ G.plan = H.plan /\ G.pack = H.pack /\ i \in CallsOf(H) /\ k \in Kinds
  /\ Base(H, i, k) /\ Upto(H, i, Ord(k) - 1) /\ Told(G, i, k)
  /\ \A j \in DOMAIN H.plan, l \in Kinds : (j # i \/ l # k) => G.said[j][l] = H.said[j][l]
  /\ \A m \in Members(H.plan[i]) : at[m] = i
  /\ \A j \in DOMAIN H.plan, l \in Kinds : Told(H, j, l) => \A m \in Members(H.plan[j]) : at[m] >= j

(* Some rank has come to step j. *)
Come(H, j) == j \in CallsOf(H) /\ \E m \in Members(H.plan[j]) : at[m] >= j

(* What was said stays said. *)
LEMMA SaidKept ==
  ASSUME NEW H, NEW G, NEW i, NEW k, Grows(H, G, i, k), NEW j \in DOMAIN H.plan, NEW l \in Kinds,
         j # i \/ l # k
  PROVE  /\ G.said[j][l] = H.said[j][l] /\ (Told(G, j, l) <=> Told(H, j, l))
         /\ Said(G, j, l) = Said(H, j, l) /\ Top(G, j, l) = Top(H, j, l)
BY DEF Grows, Told, Said, Top

LEMMA ToldKept ==
  ASSUME NEW H, NEW G, NEW i, NEW k, Grows(H, G, i, k), NEW j \in DOMAIN H.plan, NEW l \in Kinds,
         Told(H, j, l)
  PROVE  /\ G.said[j][l] = H.said[j][l] /\ Told(G, j, l) /\ Said(G, j, l) = Said(H, j, l)
         /\ Top(G, j, l) = Top(H, j, l) /\ (j = i => Ord(l) < Ord(k))
<1>1. j = i => Ord(l) <= Ord(k) - 1
  BY DEF Grows, Upto
<1>2. Ord(l) \in Nat /\ Ord(k) \in Nat
  BY Ords DEF Grows
<1>3. j = i => l # k
  BY <1>1, <1>2
<1> QED BY <1>1, <1>2, <1>3, SaidKept

LEMMA PoolKept ==
  ASSUME NEW H, NEW G, NEW i, NEW k, Grows(H, G, i, k), NEW j \in DOMAIN H.plan, j # i \/ k # "pool"
  PROVE  /\ (HasIn(G, j) <=> HasIn(H, j)) /\ (MissIn(G, j) <=> MissIn(H, j))
         /\ (PartialIn(G, j) <=> PartialIn(H, j)) /\ (Reuses(G, j) <=> Reuses(H, j))
         /\ Reuses(G, j) = Reuses(H, j)
<1>1. Said(G, j, "pool") = Said(H, j, "pool")
  BY SaidKept DEF Kinds
<1>2. (HasIn(G, j) <=> HasIn(H, j)) /\ (MissIn(G, j) <=> MissIn(H, j))
  BY <1>1 DEF HasIn, MissIn
<1>3. (PartialIn(G, j) <=> PartialIn(H, j)) /\ (Reuses(G, j) <=> Reuses(H, j))
  BY <1>2 DEF PartialIn, Reuses
<1>4. Reuses(G, j) = Reuses(H, j)
  BY <1>3 DEF Reuses
<1> QED BY <1>2, <1>3, <1>4

LEMMA PoolKeptTold ==
  ASSUME NEW H, NEW G, NEW i, NEW k, Grows(H, G, i, k), NEW j \in DOMAIN H.plan, Told(H, j, "pool")
  PROVE  j # i \/ k # "pool"
<1>1. "pool" \in Kinds
  BY DEF Kinds
<1>2. j = i => Ord("pool") < Ord(k)
  BY <1>1, ToldKept
<1> QED BY <1>2, Ords

LEMMA LanesKept ==
  ASSUME NEW H, NEW G, NEW i, NEW k, Grows(H, G, i, k), NEW j \in DOMAIN H.plan, j # i \/ k # "lanes"
  PROVE  Aligned(G, j) <=> Aligned(H, j)
<1>1. Said(G, j, "lanes") = Said(H, j, "lanes")
  BY SaidKept DEF Kinds
<1>2. G.plan[j] = H.plan[j] /\ G.pack = H.pack
  BY DEF Grows
<1> DEFINE A == {Said(G, j, "lanes")[g] : g \in Gens(G.plan[j])}
           B == {Said(H, j, "lanes")[g] : g \in Gens(H.plan[j])}
<1>3. A = B
  BY <1>1, <1>2
<1>4. /\ Aligned(G, j) <=> (~G.pack \/ (Cardinality(A) = 1 /\ A \subseteq 0 .. Lanes - 1))
      /\ Aligned(H, j) <=> (~H.pack \/ (Cardinality(B) = 1 /\ B \subseteq 0 .. Lanes - 1))
  BY DEF Aligned
<1> HIDE DEF A, B
<1> QED BY <1>2, <1>3, <1>4

LEMMA SpacesKept ==
  ASSUME NEW H, NEW G, NEW i, NEW k, Grows(H, G, i, k), NEW j \in DOMAIN H.plan, j # i \/ k # "namespace"
  PROVE  (Agreed(G, j) <=> Agreed(H, j)) /\ NsSaid(G, j) = NsSaid(H, j)
<1>1. Said(G, j, "namespace") = Said(H, j, "namespace")
  BY SaidKept DEF Kinds
<1> QED BY <1>1 DEF Agreed, NsSaid, Grows

(* A step is formed by its last collective. *)
LEMMA FormedKept ==
  ASSUME NEW H, NEW G, NEW i, NEW k, Grows(H, G, i, k), NEW j \in DOMAIN H.plan
  PROVE  /\ (j # i \/ k \notin {"lsa", "namespace"}) => (Formed(G, j) <=> Formed(H, j))
         /\ Formed(H, j) => Formed(G, j) /\ Told(H, j, "lsa") /\ (j # i \/ k \in AKinds)
<1>0. "lsa" \in Kinds /\ "namespace" \in Kinds /\ k \in Kinds /\ G.pack = H.pack
  BY DEF Grows, Kinds
<1>1. ASSUME j # i \/ k \notin {"lsa", "namespace"} PROVE Formed(G, j) <=> Formed(H, j)
  <2>1. Told(G, j, "lsa") <=> Told(H, j, "lsa")
    BY <1>0, <1>1, SaidKept
  <2>2. Told(G, j, "namespace") <=> Told(H, j, "namespace")
    BY <1>0, <1>1, SaidKept
  <2>3. Agreed(G, j) <=> Agreed(H, j)
    BY <1>1, SpacesKept
  <2> QED BY <1>0, <2>1, <2>2, <2>3 DEF Formed
<1>2. ASSUME Formed(H, j), j = i PROVE k \in AKinds
  <2>1. Told(H, j, "lsa")
    BY <1>2 DEF Formed
  <2>2. Ord("lsa") < Ord(k)
    BY <1>0, <1>2, <2>1, ToldKept
  <2>3. k \in {"namespace", "fullA", "splitA", "srcLsa"}
    BY <1>0, <2>2, Ords DEF Kinds
  <2>4. ASSUME k = "namespace" PROVE FALSE
    <3>1. ~H.pack
      BY <2>4 DEF Grows, Base
    <3>2. Told(H, j, "namespace")
      BY <1>2, <3>1 DEF Formed
    <3>3. Ord("namespace") < Ord(k) /\ Ord(k) \in Nat
      BY <1>0, <1>2, <3>2, ToldKept, Ords
    <3> QED BY <2>4, <3>3
  <2> QED BY <2>3, <2>4 DEF AKinds
<1>3. ASSUME Formed(H, j) PROVE Formed(G, j) /\ Told(H, j, "lsa") /\ (j # i \/ k \in AKinds)
  <2>1. Told(H, j, "lsa")
    BY <1>3 DEF Formed
  <2>2. j # i \/ k \in AKinds
    BY <1>2, <1>3
  <2>3. j # i \/ k \notin {"lsa", "namespace"}
    BY <2>2 DEF AKinds
  <2> QED BY <1>1, <1>3, <2>1, <2>2, <2>3
<1> QED BY <1>1, <1>3

LEMMA FormedAKept ==
  ASSUME NEW H, NEW G, NEW i, NEW k, Grows(H, G, i, k), NEW j \in DOMAIN H.plan
  PROVE  /\ (j # i \/ k # "srcLsa") => (FormedA(G, j) <=> FormedA(H, j))
         /\ FormedA(H, j) => FormedA(G, j) /\ j # i
<1>0. "srcLsa" \in Kinds /\ Ord("srcLsa") = 10 /\ Ord(k) \in 1 .. 10
  BY Ords DEF Kinds, Grows
<1>1. (j # i \/ k # "srcLsa") => (FormedA(G, j) <=> FormedA(H, j))
  BY <1>0, SaidKept DEF FormedA
<1>2. ASSUME FormedA(H, j) PROVE FormedA(G, j) /\ j # i
  <2>1. j = i => Ord("srcLsa") < Ord(k)
    BY <1>0, <1>2, ToldKept DEF FormedA
  <2>2. Told(G, j, "srcLsa")
    BY <1>0, <1>2, ToldKept DEF FormedA
  <2> QED BY <1>0, <2>1, <2>2 DEF FormedA
<1> QED BY <1>1, <1>2

(* A rank that has come to a step is not held back at an earlier one. *)
LEMMA NotBehind ==
  ASSUME SplitAssumption,
         NEW H, NEW G, NEW i, NEW k, Grows(H, G, i, k), NEW j, Come(H, j), SameGeometry(H, i, j)
  PROVE  j <= i
<1>1. PICK m \in Members(H.plan[j]) : at[m] >= j
  BY DEF Come
<1>2. Members(H.plan[i]) = Members(H.plan[j])
  BY GeometryGives
<1>3. at[m] = i
  BY <1>1, <1>2 DEF Grows
<1>4. i \in Nat /\ j \in Nat
  BY PlanFacts DEF Grows, HistRight, Come
<1> QED BY <1>1, <1>3, <1>4

(* A step that has a source has the same one afterwards. *)
LEMMA SourceKept ==
  ASSUME SplitAssumption,
         NEW H, NEW G, NEW i, NEW k, Grows(H, G, i, k), NEW b \in CallsOf(H), NEW j, Come(H, j)
  PROVE  /\ Source(H, b, j) => Source(G, b, j)
         /\ (b < j \/ j # i) => (Source(G, b, j) <=> Source(H, b, j))
<1>0. /\ b \in DOMAIN H.plan /\ G.plan = H.plan /\ CallsOf(G) = CallsOf(H) /\ j \in Nat /\ i \in Nat
      /\ b \in Nat /\ i \in DOMAIN H.plan
  BY PlanFacts DEF Grows, HistRight, CallsOf, Come
<1>1. /\ SameGeometry(G, b, j) <=> SameGeometry(H, b, j)
      /\ Whole(G, Members(G.plan[j]), b, j) <=> Whole(H, Members(H.plan[j]), b, j)
  BY <1>0 DEF SameGeometry, Whole
<1>2. Formed(H, b) => Formed(G, b)
  BY <1>0, FormedKept
<1>3. Source(H, b, j) => Source(G, b, j)
  BY <1>0, <1>1, <1>2 DEF Source
<1>4. ASSUME Source(G, b, j), b < j \/ j # i PROVE Source(H, b, j)
  <2>1. SameGeometry(H, b, j) /\ b <= j /\ Formed(G, b)
    BY <1>1, <1>4 DEF Source
  <2>2. b # i
    BY <1>0, <1>4, <2>1, NotBehind
  <2>3. Formed(H, b)
    BY <1>0, <2>1, <2>2, FormedKept
  <2> QED BY <1>0, <1>1, <1>4, <2>3 DEF Source
<1> QED BY <1>3, <1>4

LEMMA SourceAKept ==
  ASSUME SplitAssumption,
         NEW H, NEW G, NEW i, NEW k, Grows(H, G, i, k), NEW b \in CallsOf(H), NEW j, Come(H, j)
  PROVE  (b < j \/ j # i) => (SourceA(G, b, j) <=> SourceA(H, b, j))
<1>0. /\ b \in DOMAIN H.plan /\ G.plan = H.plan /\ CallsOf(G) = CallsOf(H) /\ j \in Nat /\ i \in Nat
      /\ b \in Nat /\ i \in DOMAIN H.plan
  BY PlanFacts DEF Grows, HistRight, CallsOf, Come
<1>1. /\ SameGeometry(G, b, j) <=> SameGeometry(H, b, j)
      /\ Whole(G, Members(G.plan[j]), b, j) <=> Whole(H, Members(H.plan[j]), b, j)
  BY <1>0 DEF SameGeometry, Whole
<1>2. FormedA(H, b) => FormedA(G, b)
  BY <1>0, FormedAKept
<1>3. SourceA(H, b, j) => SourceA(G, b, j)
  BY <1>0, <1>1, <1>2 DEF SourceA
<1>4. ASSUME SourceA(G, b, j), b < j \/ j # i PROVE SourceA(H, b, j)
  <2>1. SameGeometry(H, b, j) /\ b <= j /\ FormedA(G, b)
    BY <1>1, <1>4 DEF SourceA
  <2>2. b # i
    BY <1>0, <1>4, <2>1, NotBehind
  <2>3. FormedA(H, b)
    BY <1>0, <2>1, <2>2, FormedAKept
  <2> QED BY <1>0, <1>1, <1>4, <2>3 DEF SourceA
<1> QED BY <1>3, <1>4

LEMMA KnownKept ==
  ASSUME SplitAssumption, NEW H, NEW G, NEW i, NEW k, Grows(H, G, i, k), NEW j, Come(H, j)
  PROVE  /\ (KnownBefore(G, j) <=> KnownBefore(H, j))
         /\ (CachedA(G, j) <=> CachedA(H, j))
         /\ j # i => \A a \in CallsOf(H) : BestA(G, a, j) <=> BestA(H, a, j)
<1>0. G.plan = H.plan /\ CallsOf(G) = CallsOf(H)
  BY DEF Grows, CallsOf
<1>1. KnownBefore(G, j) <=> KnownBefore(H, j)
  BY <1>0, SourceKept DEF KnownBefore
<1>2. CachedA(G, j) <=> CachedA(H, j)
  BY <1>0, SourceAKept DEF CachedA
<1>3. ASSUME j # i, NEW a \in CallsOf(H) PROVE BestA(G, a, j) <=> BestA(H, a, j)
  <2>1. \A c \in CallsOf(H) : SourceA(G, c, j) <=> SourceA(H, c, j)
    BY <1>3, SourceAKept
  <2> QED BY <1>0, <2>1 DEF BestA
<1> QED BY <1>1, <1>2, <1>3

LEMMA OwnersKept ==
  ASSUME SplitAssumption, NEW H, NEW G, NEW i, NEW k, Grows(H, G, i, k), NEW j \in CallsOf(H),
         \E g \in Gens(H.plan[j]) : at[g] >= j
  PROVE  /\ Owners(G, j) = Owners(H, j)
         /\ \A r, o : Owns(G, r, o, j) <=> Owns(H, r, o, j)
         /\ \A r : HasOwner(G, r, j) <=> HasOwner(H, r, j)
<1>0. G.plan = H.plan /\ CallsOf(G) = CallsOf(H) /\ H.plan \in Plans /\ i \in CallsOf(H)
  BY DEF Grows, CallsOf, HistRight
<1>1. ASSUME NEW r, NEW o PROVE Owns(G, r, o, j) <=> Owns(H, r, o, j)
  <2>1. Whole(G, {r}, o, j) <=> Whole(H, {r}, o, j)
    BY <1>0 DEF Whole
  <2>2. CASE o \in CallsOf(H) /\ o < j /\ H.plan[o].gens = H.plan[j].gens
    <3>1. o # i
      <4> SUFFICES ASSUME o = i PROVE FALSE
        OBVIOUS
      <4>1. PICK g \in Gens(H.plan[j]) : at[g] >= j
        OBVIOUS
      <4>2. g \in Gens(H.plan[i])
        BY <2>2 DEF Gens
      <4>3. g \in Members(H.plan[i])
        BY <1>0, <4>2, PlanFacts
      <4>4. at[g] = i
        BY <4>3 DEF Grows
      <4>5. i \in Nat /\ j \in Nat
        BY <1>0, PlanFacts
      <4> QED BY <2>2, <4>1, <4>4, <4>5
    <3>2. o \in DOMAIN H.plan
      BY <1>0, <2>2, PlanFacts
    <3>3. Formed(G, o) <=> Formed(H, o)
      BY <3>1, <3>2, FormedKept
    <3>4. Reuses(G, o) <=> Reuses(H, o)
      BY <3>1, <3>2, PoolKept
    <3> QED BY <1>0, <2>1, <2>2, <3>3, <3>4 DEF Owns
  <2>3. CASE ~(o \in CallsOf(H) /\ o < j /\ H.plan[o].gens = H.plan[j].gens)
    BY <1>0, <2>3 DEF Owns
  <2> QED BY <2>2, <2>3
<1>2. Owners(G, j) = Owners(H, j)
  BY <1>0, <1>1 DEF Owners
<1>3. \A r : HasOwner(G, r, j) <=> HasOwner(H, r, j)
  BY <1>0, <1>1 DEF HasOwner
<1> QED BY <1>1, <1>2, <1>3

(* A generator of a step that was told anything has come to it. *)
LEMMA GensCome ==
  ASSUME SplitAssumption,
         NEW H, NEW G, NEW i, NEW k, Grows(H, G, i, k), NEW j \in CallsOf(H), NEW l \in Kinds, Told(H, j, l)
  PROVE  (\E g \in Gens(H.plan[j]) : at[g] >= j) /\ Come(H, j)
<1>1. H.plan \in Plans
  BY DEF Grows, HistRight
<1>2. H.plan[j].gens[1] \in Gens(H.plan[j]) /\ Gens(H.plan[j]) \subseteq Members(H.plan[j]) /\ j \in DOMAIN H.plan
  BY <1>1, PlanFacts
<1>3. at[H.plan[j].gens[1]] >= j
  BY <1>2 DEF Grows
<1> QED BY <1>2, <1>3 DEF Come

(* What a formed commB is, once formed, for good. *)
LEMMA CommBKept ==
  ASSUME SplitAssumption, NEW H, NEW G, NEW i, NEW k, Grows(H, G, i, k), NEW j \in CallsOf(H),
         Told(H, j, "pool"), k = "splitB" => j # i
  PROVE  Root(G, j) = Root(H, j) /\ CommB(G, j) = CommB(H, j)
<1>0. /\ G.plan = H.plan /\ CallsOf(G) = CallsOf(H) /\ H.plan \in Plans /\ j \in DOMAIN H.plan
      /\ "pool" \in Kinds /\ "splitB" \in Kinds /\ i \in DOMAIN H.plan
  BY PlanFacts DEF Grows, CallsOf, HistRight, Kinds
<1>1. j # i \/ k # "pool"
  BY <1>0, PoolKeptTold
<1>2. Reuses(G, j) <=> Reuses(H, j)
  BY <1>0, <1>1, PoolKept
<1>3. \E g \in Gens(H.plan[j]) : at[g] >= j
  BY <1>0, GensCome
<1>4. Owners(G, j) = Owners(H, j)
  BY <1>3, OwnersKept
<1>5. Root(G, j) = Root(H, j)
  BY <1>2, <1>4 DEF Root
<1>6. CASE ~Reuses(H, j)
  <2>1. Root(H, j) = j
    BY <1>6 DEF Root
  <2>2. G.said[j]["splitB"] = H.said[j]["splitB"]
    BY <1>0, SaidKept
  <2> QED BY <1>5, <2>1, <2>2 DEF CommB
<1>7. CASE Reuses(H, j)
  <2>1. PICK m \in DOMAIN Said(H, j, "pool") : Said(H, j, "pool")[m].has
    BY <1>7 DEF Reuses, HasIn
  <2>2. m \in Members(H.plan[j])
    BY <1>0, <2>1 DEF Grows, HistRight, ToldRight
  <2>3. VoteOf(H, m, j, Said(H, j, "pool")[m])
    BY <1>0, <2>2 DEF Grows, HistRight, VotesRight
  <2>4. m \in Gens(H.plan[j]) /\ HasOwner(H, m, j)
    BY <2>1, <2>3 DEF VoteOf
  <2>5. PICK o \in CallsOf(H) : Owns(H, m, o, j)
    BY <2>4 DEF HasOwner
  <2>6. Root(H, j) = o
    BY <1>7, <2>4, <2>5, RootIs DEF Grows
  <2>7. Formed(H, o) /\ o \in DOMAIN H.plan
    BY <1>0, <2>5, PlanFacts DEF Owns
  <2>8. o # i \/ k \in AKinds
    BY <2>7, FormedKept
  <2>9. G.said[o]["splitB"] = H.said[o]["splitB"]
    BY <1>0, <2>7, <2>8, SaidKept DEF AKinds
  <2> QED BY <1>5, <2>6, <2>9 DEF CommB
<1> QED BY <1>5, <1>6, <1>7

(* An entry of step j is one still. *)
LEMMA MatchesKept ==
  ASSUME SplitAssumption,
         NEW H, NEW G, NEW i, NEW k, Grows(H, G, i, k), NEW j \in CallsOf(H), Formed(H, j), NEW r, NEW x
  PROVE  /\ MatchesB(G, r, j, x) <=> MatchesB(H, r, j, x)
         /\ EntryOf(G, r, j, x) <=> EntryOf(H, r, j, x)
         /\ NsOf(G, j) = NsOf(H, j) /\ Root(G, j) = Root(H, j)
<1>0. /\ G.plan = H.plan /\ G.pack = H.pack /\ H.plan \in Plans /\ j \in DOMAIN H.plan
      /\ "lsa" \in Kinds /\ "pool" \in Kinds /\ "lanes" \in Kinds /\ "namespace" \in Kinds /\ HistRight(H)
  BY PlanFacts DEF Grows, HistRight, Kinds
<1>1. Told(H, j, "lsa") /\ (j # i \/ k \in AKinds)
  BY <1>0, FormedKept
<1>2. Told(H, j, "pool")
  BY <1>0, <1>1 DEF HistRight, ToldRight, Base
<1>3. Top(G, j, "lsa") = Top(H, j, "lsa")
  BY <1>0, <1>1, ToldKept
<1>4. NsSaid(G, j) = NsSaid(H, j) /\ Said(G, j, "lanes") = Said(H, j, "lanes")
  BY <1>0, <1>1, SpacesKept, SaidKept DEF AKinds
<1>5. CommB(G, j) = CommB(H, j) /\ Root(G, j) = Root(H, j)
  BY <1>1, <1>2, CommBKept DEF AKinds
<1>6. Reuses(G, j) <=> Reuses(H, j)
  BY <1>0, <1>1, PoolKept DEF AKinds
<1>7. NsOf(G, j) = NsOf(H, j)
  BY <1>0, <1>4 DEF NsOf
<1>8. LaneAt(G, j) = LaneAt(H, j)
  BY <1>0, <1>4, <1>7 DEF LaneAt
<1>9. MatchesB(G, r, j, x) <=> MatchesB(H, r, j, x)
  BY <1>0, <1>3, <1>5, <1>7, <1>8 DEF MatchesB
<1>10. EntryOf(G, r, j, x) <=> EntryOf(H, r, j, x)
  <2>1. Reuses(G, j) = Reuses(H, j)
    BY <1>0, <1>1, PoolKept DEF AKinds
  <2> QED BY <1>0, <1>9, <2>1 DEF EntryOf
<1> QED BY <1>5, <1>7, <1>9, <1>10

LEMMA MatchesAKept ==
  ASSUME SplitAssumption,
         NEW H, NEW G, NEW i, NEW k, Grows(H, G, i, k), NEW j \in CallsOf(H), FormedA(H, j), NEW r, NEW x
  PROVE  /\ MatchesA(G, r, j, x) <=> MatchesA(H, r, j, x)
         /\ EntryOfA(G, r, j, x) <=> EntryOfA(H, r, j, x)
<1>0. /\ G.plan = H.plan /\ H.plan \in Plans /\ j \in DOMAIN H.plan /\ "srcLsa" \in Kinds /\ "splitA" \in Kinds
  BY PlanFacts DEF Grows, HistRight, Kinds
<1>1. j # i
  BY <1>0, FormedAKept
<1>2. Top(G, j, "srcLsa") = Top(H, j, "srcLsa") /\ G.said[j]["splitA"] = H.said[j]["splitA"]
  BY <1>0, <1>1, SaidKept
<1>3. MatchesA(G, r, j, x) <=> MatchesA(H, r, j, x)
  BY <1>0, <1>2 DEF MatchesA
<1> QED BY <1>0, <1>3 DEF EntryOfA

-----------------------------------------------------------------------------
(* Nor which collectives a step holds. *)

LEMMA BaseKept ==
  ASSUME SplitAssumption,
         NEW H, NEW G, NEW i, NEW k, Grows(H, G, i, k), NEW j, Come(H, j), NEW l \in Kinds, Base(H, j, l)
  PROVE  Base(G, j, l)
<1>0. /\ G.plan = H.plan /\ G.pack = H.pack /\ CallsOf(G) = CallsOf(H) /\ j \in DOMAIN H.plan
      /\ j \in CallsOf(H) /\ "pool" \in Kinds
  BY PlanFacts DEF Grows, HistRight, Come, CallsOf, Kinds
<1>1. (KnownBefore(G, j) <=> KnownBefore(H, j)) /\ (CachedA(G, j) <=> CachedA(H, j))
  BY KnownKept
<1>2. Formed(H, j) => Formed(G, j)
  BY <1>0, FormedKept
<1>3. ASSUME Told(H, j, "pool")
      PROVE  /\ Told(G, j, "pool") /\ (PartialIn(G, j) <=> PartialIn(H, j))
             /\ (Reuses(G, j) <=> Reuses(H, j))
  <2>1. j # i \/ k # "pool"
    BY <1>0, <1>3, PoolKeptTold
  <2>2. (PartialIn(G, j) <=> PartialIn(H, j)) /\ (Reuses(G, j) <=> Reuses(H, j))
    BY <1>0, <2>1, PoolKept
  <2>3. Told(G, j, "pool")
    BY <1>0, <1>3, ToldKept
  <2> QED BY <2>2, <2>3
<1>4. l = "splitB" => Told(H, j, "pool")
  BY DEF Base
<1> QED BY <1>0, <1>1, <1>2, <1>3, <1>4 DEF Base

LEMMA GoesKept ==
  ASSUME SplitAssumption,
         NEW H, NEW G, NEW i, NEW k, Grows(H, G, i, k), NEW j, Come(H, j), NEW l \in Kinds, Goes(H, j, l)
  PROVE  Goes(G, j, l)
<1>0. /\ G.plan = H.plan /\ G.pack = H.pack /\ CallsOf(G) = CallsOf(H) /\ j \in DOMAIN H.plan
      /\ j \in CallsOf(H) /\ HistRight(H)
  BY PlanFacts DEF Grows, HistRight, Come, CallsOf
<1>1. (KnownBefore(G, j) <=> KnownBefore(H, j)) /\ (CachedA(G, j) <=> CachedA(H, j))
  BY KnownKept
<1>2. Formed(H, j) => Formed(G, j)
  BY <1>0, FormedKept
<1>3. \A h \in Kinds : Told(H, j, h) => Told(G, j, h) /\ Top(G, j, h) = Top(H, j, h)
  BY <1>0, ToldKept
<1>4. /\ "fullParents" \in Kinds /\ "lanes" \in Kinds /\ "pool" \in Kinds /\ "fullB" \in Kinds
      /\ "splitB" \in Kinds /\ "lsa" \in Kinds /\ "fullA" \in Kinds /\ "splitA" \in Kinds
  BY DEF Kinds
<1>5. ASSUME Told(H, j, "pool")
      PROVE  (PartialIn(G, j) <=> PartialIn(H, j)) /\ (Reuses(G, j) <=> Reuses(H, j))
  <2>1. j # i \/ k # "pool"
    BY <1>0, <1>5, PoolKeptTold
  <2> QED BY <1>0, <2>1, PoolKept
<1>6. Told(H, j, "fullB") => Told(H, j, "pool")
  BY <1>0, <1>4 DEF HistRight, ToldRight, Base
<1>7. ASSUME Told(H, j, "lanes") PROVE Aligned(G, j) <=> Aligned(H, j)
  <2>1. j = i => Ord("lanes") < Ord(k)
    BY <1>0, <1>4, <1>7, ToldKept
  <2>2. j # i \/ k # "lanes"
    BY <2>1, Ords
  <2> QED BY <1>0, <2>2, LanesKept
<1>8. CASE l = "fullParents" /\ ~Overlap(H.plan[j]) /\ ~KnownBefore(H, j)
  BY <1>0, <1>1, <1>8 DEF Goes
<1>9. CASE l = "lanes" /\ Told(H, j, "fullParents") /\ Top(H, j, "fullParents") # 1
  BY <1>3, <1>4, <1>9 DEF Goes
<1>10. CASE l = "pool" /\ Told(H, j, "lanes") /\ Aligned(H, j)
  BY <1>3, <1>4, <1>7, <1>10 DEF Goes
<1>11. CASE l = "fullB" /\ Told(H, j, "pool") /\ ~PartialIn(H, j)
  BY <1>3, <1>4, <1>5, <1>11 DEF Goes
<1>12. CASE l = "splitB" /\ Told(H, j, "fullB") /\ Top(H, j, "fullB") # 1 /\ ~Reuses(H, j)
  BY <1>3, <1>4, <1>5, <1>6, <1>12 DEF Goes
<1>13. CASE l = "lsa" /\ Told(H, j, "fullB") /\ Top(H, j, "fullB") # 1 /\ Reuses(H, j)
  BY <1>3, <1>4, <1>5, <1>6, <1>13 DEF Goes
<1>14. CASE l = "lsa" /\ Told(H, j, "splitB")
  BY <1>3, <1>4, <1>14 DEF Goes
<1>15. CASE l = "namespace" /\ Told(H, j, "lsa") /\ ~H.pack
  BY <1>0, <1>3, <1>4, <1>15 DEF Goes
<1>16. CASE l = "fullA" /\ ~Overlap(H.plan[j]) /\ (KnownBefore(H, j) \/ Formed(H, j)) /\ ~CachedA(H, j)
  BY <1>0, <1>1, <1>2, <1>16 DEF Goes
<1>17. CASE l = "splitA" /\ Told(H, j, "fullA") /\ Top(H, j, "fullA") # 1
  BY <1>3, <1>4, <1>17 DEF Goes
<1>18. CASE l = "srcLsa" /\ Told(H, j, "splitA")
  BY <1>3, <1>4, <1>18 DEF Goes
<1> QED BY <1>8, <1>9, <1>10, <1>11, <1>12, <1>13, <1>14, <1>15, <1>16, <1>17, <1>18 DEF Goes

(* Nothing changes at the other steps. *)
LEMMA ElseKept ==
  ASSUME SplitAssumption, NEW H, NEW G, NEW i, NEW k, Grows(H, G, i, k), NEW j, Come(H, j), j # i
  PROVE  /\ Ended(H, j) => Ended(G, j)
         /\ \A n : Upto(G, j, n) <=> Upto(H, j, n)
         /\ \A r, x : Outcome(H, r, j, x) => Outcome(G, r, j, x)
<1>0. /\ G.plan = H.plan /\ G.pack = H.pack /\ CallsOf(G) = CallsOf(H) /\ j \in DOMAIN H.plan
      /\ j \in CallsOf(H) /\ HistRight(H)
  BY PlanFacts DEF Grows, HistRight, Come, CallsOf
<1>1. /\ KnownBefore(G, j) <=> KnownBefore(H, j)
      /\ CachedA(G, j) <=> CachedA(H, j)
      /\ \A a \in CallsOf(H) : BestA(G, a, j) <=> BestA(H, a, j)
  BY KnownKept
<1>2. (Formed(G, j) <=> Formed(H, j)) /\ (FormedA(G, j) <=> FormedA(H, j))
  BY <1>0, FormedKept, FormedAKept
<1>3. \A h \in Kinds : (Told(G, j, h) <=> Told(H, j, h)) /\ Top(G, j, h) = Top(H, j, h)
  BY <1>0, SaidKept
<1>4. (PartialIn(G, j) <=> PartialIn(H, j)) /\ (Reuses(G, j) <=> Reuses(H, j))
  BY <1>0, PoolKept
<1>5. (Aligned(G, j) <=> Aligned(H, j)) /\ (Agreed(G, j) <=> Agreed(H, j))
  BY <1>0, LanesKept, SpacesKept
<1>6. /\ "fullParents" \in Kinds /\ "lanes" \in Kinds /\ "pool" \in Kinds /\ "fullB" \in Kinds
      /\ "splitB" \in Kinds /\ "lsa" \in Kinds /\ "fullA" \in Kinds /\ "splitA" \in Kinds
      /\ "namespace" \in Kinds
  BY DEF Kinds
<1>7. \A n : Upto(G, j, n) <=> Upto(H, j, n)
  BY <1>3 DEF Upto
<1>8. \A l \in Kinds : Goes(G, j, l) <=> Goes(H, j, l)
  BY <1>0, <1>1, <1>2, <1>3, <1>4, <1>5, <1>6 DEF Goes
<1>9. Ended(H, j) => Ended(G, j)
  BY <1>7, <1>8 DEF Ended, Open
<1>10. \A l \in Kinds : LastSaid(G, j, l) <=> LastSaid(H, j, l)
  BY <1>3, <1>7 DEF LastSaid
<1>11. Parented(G, j) <=> Parented(H, j)
  BY <1>0, <1>4, <1>5, <1>6, <1>10 DEF Parented
<1>12. Refused(G, j) <=> Refused(H, j)
  BY <1>3, <1>5, <1>6, <1>10 DEF Refused
<1>13. ASSUME NEW r, NEW x, SplitAs(H, r, j, x) PROVE SplitAs(G, r, j, x)
  <2>1. SplitDone(G, j)
    BY <1>0, <1>1, <1>2, <1>13 DEF SplitAs, SplitDone
  <2>2. PICK b \in CallsOf(H) : Source(H, b, j) /\ MatchesB(H, r, b, x)
    BY <1>13 DEF SplitAs
  <2>3. Source(G, b, j) /\ MatchesB(G, r, b, x)
    BY <2>2, SourceKept, MatchesKept DEF Source
  <2>4. PICK a \in CallsOf(H) : BestA(H, a, j) /\ MatchesA(H, r, a, x) /\ x.domains = H.plan[a].k
    BY <1>13 DEF SplitAs
  <2>5. BestA(G, a, j) /\ MatchesA(G, r, a, x)
    BY <1>1, <2>4, MatchesAKept DEF BestA, SourceA
  <2> QED BY <1>0, <1>13, <2>1, <2>3, <2>4, <2>5 DEF SplitAs
<1>14. \A r, x : Outcome(H, r, j, x) => Outcome(G, r, j, x)
  BY <1>11, <1>12, <1>13 DEF Outcome
<1> QED BY <1>7, <1>9, <1>14

-----------------------------------------------------------------------------
(* Nor what is true of a rank. *)

(* The call of a rank goes on as before, and its members have heard. *)
LEMMA AtKept ==
  ASSUME SplitAssumption,
         NEW H, NEW G, NEW i, NEW k, Grows(H, G, i, k), NEW q, NEW L, AtRight(H, q, L), L.at = at[q],
         L.pc \in Kinds \cup {"idle"},
         NEW M, M.at = L.at, M.pc = L.pc, M.here = L.here, M.ask = L.ask,
         q \notin Members(H.plan[i]) => M.got = L.got,
         q \in Members(H.plan[i]) => L.pc = k /\ L.got = <<>> /\ M.got = G.said[i][k]
  PROVE  AtRight(G, q, M)
<1> SUFFICES ASSUME L.pc # "idle"
             PROVE  /\ q \in Members(G.plan[M.at])
                    /\ Base(G, M.at, M.pc) /\ Goes(G, M.at, M.pc)
                    /\ M.got = <<>> => Upto(G, M.at, Ord(M.pc) - 1)
                    /\ M.got # <<>> => M.got = G.said[M.at][M.pc] /\ Upto(G, M.at, Ord(M.pc))
                    /\ HereRight(G, q, M)
  BY DEF AtRight
<1> DEFINE j == L.at
           p == L.pc
<1>1. /\ q \in Members(H.plan[j]) /\ Base(H, j, p) /\ Goes(H, j, p) /\ HereRight(H, q, L) /\ p \in Kinds
      /\ L.got = <<>> => Upto(H, j, Ord(p) - 1)
      /\ L.got # <<>> => L.got = H.said[j][p] /\ Upto(H, j, Ord(p))
  BY DEF AtRight
<1> HIDE DEF j, p
<1>2. /\ j \in CallsOf(H) /\ j \in DOMAIN H.plan /\ j \in Nat /\ j = L.at /\ p = L.pc /\ HistRight(H)
      /\ G.plan = H.plan /\ G.pack = H.pack /\ CallsOf(G) = CallsOf(H) /\ i \in Nat
      /\ Gens(H.plan[j]) \subseteq Members(H.plan[j])
  BY <1>1, PlanFacts DEF Base, Grows, HistRight, CallsOf, j, p
<1>3. Come(H, j)
  BY <1>1, <1>2 DEF Come
<1>4. (q \in Members(H.plan[i])) <=> (j = i)
  <2>1. q \in Members(H.plan[i]) => j = i
    BY <1>2 DEF Grows
  <2> QED BY <1>1, <2>1
<1>5. j = i => p = k /\ L.got = <<>> /\ M.got = G.said[i][k]
  BY <1>2, <1>4
<1>6. Base(G, j, p) /\ Goes(G, j, p)
  BY <1>1, <1>3, BaseKept, GoesKept
<1>7. /\ M.got = <<>> => Upto(G, j, Ord(p) - 1)
      /\ M.got # <<>> => M.got = G.said[j][p] /\ Upto(G, j, Ord(p))
  <2>1. CASE j = i
    <3>1. M.got # <<>> /\ M.got = G.said[j][p]
      BY <1>5, <2>1 DEF Grows, Told
    <3>2. Upto(G, j, Ord(p))
      <4> SUFFICES ASSUME NEW l \in Kinds, Told(G, j, l) PROVE Ord(l) <= Ord(p)
        BY DEF Upto
      <4>1. CASE l = k
        BY <1>5, <2>1, <4>1, <1>1, Ords
      <4>2. CASE l # k
        <5>1. Told(H, j, l)
          BY <1>2, <4>2, SaidKept
        <5>2. Ord(l) < Ord(k)
          BY <1>2, <2>1, <5>1, ToldKept
        <5> QED BY <1>5, <2>1, <5>2, <1>1, Ords
      <4> QED BY <4>1, <4>2
    <3> QED BY <3>1, <3>2
  <2>2. CASE j # i
    <3>1. \A n : Upto(G, j, n) <=> Upto(H, j, n)
      BY <1>3, <2>2, ElseKept
    <3>2. M.got = L.got
      BY <1>4, <2>2
    <3>3. G.said[j][p] = H.said[j][p]
      BY <1>1, <1>2, <2>2, SaidKept
    <3> QED BY <1>1, <3>1, <3>2, <3>3
  <2> QED BY <2>1, <2>2
<1>8. HereRight(G, q, M)
  <2>0. M.at = j /\ M.pc = p /\ M.here = L.here /\ M.ask = L.ask
    BY <1>2
  <2>1. /\ "lanes" \in Kinds /\ "pool" \in Kinds /\ "lsa" \in Kinds /\ "splitA" \in Kinds
        /\ "splitB" \in Kinds /\ "namespace" \in Kinds
    BY DEF Kinds
  <2>2. p \in {"fullB", "splitB", "lsa", "namespace"} => Told(H, j, "pool")
    BY <1>1 DEF Base
  <2>3. (p = "pool" /\ M.got = <<>>) => VoteOf(G, q, j, L.ask)
    <3> SUFFICES ASSUME p = "pool", M.got = <<>> PROVE VoteOf(G, q, j, L.ask)
      OBVIOUS
    <3>1. j # i
      BY <1>5 DEF Grows, Told
    <3>2. L.got = <<>>
      BY <1>4, <3>1
    <3>3. VoteOf(H, q, j, L.ask)
      BY <1>1, <1>2, <3>2 DEF HereRight
    <3>4. q \in Gens(H.plan[j]) => (HasOwner(G, q, j) <=> HasOwner(H, q, j))
      BY <1>2, OwnersKept
    <3> QED BY <1>2, <3>3, <3>4 DEF VoteOf
  <2>4. p \in {"pool", "fullB", "splitB", "lsa", "namespace"} =>
          (G.pack => L.here.lane = Said(G, j, "lanes")[G.plan[j].gens[1]])
    <3> SUFFICES ASSUME p \in {"pool", "fullB", "splitB", "lsa", "namespace"}, G.pack
                 PROVE  L.here.lane = Said(G, j, "lanes")[G.plan[j].gens[1]]
      OBVIOUS
    <3>1. Said(G, j, "lanes") = Said(H, j, "lanes")
      BY <1>2, <1>5, <2>1, SaidKept
    <3> QED BY <1>1, <1>2, <3>1 DEF HereRight
  <2>5. p \in {"fullB", "splitB", "lsa", "namespace"} => L.here.reuse = Reuses(G, j)
    <3> SUFFICES ASSUME p \in {"fullB", "splitB", "lsa", "namespace"}
                 PROVE  L.here.reuse = Reuses(G, j)
      OBVIOUS
    <3>1. Reuses(G, j) = Reuses(H, j)
      BY <1>2, <1>5, PoolKept
    <3> QED BY <1>1, <1>2, <3>1 DEF HereRight
  <2>6. p \in {"lsa", "namespace"} => (q \in Gens(G.plan[j]) => L.here.commB = CommB(G, j))
    <3> SUFFICES ASSUME p \in {"lsa", "namespace"}, q \in Gens(G.plan[j]) PROVE L.here.commB = CommB(G, j)
      OBVIOUS
    <3>1. CommB(G, j) = CommB(H, j)
      BY <1>2, <1>5, <2>2, CommBKept
    <3> QED BY <1>1, <1>2, <3>1 DEF HereRight
  <2>7. p = "namespace" => L.here.lsa = Top(G, j, "lsa")
    <3> SUFFICES ASSUME p = "namespace" PROVE L.here.lsa = Top(G, j, "lsa")
      OBVIOUS
    <3>1. Top(G, j, "lsa") = Top(H, j, "lsa")
      BY <1>2, <1>5, <2>1, SaidKept
    <3> QED BY <1>1, <1>2, <3>1 DEF HereRight
  <2>8. p \in AKinds => \E b \in CallsOf(G) : Source(G, b, j) /\ MatchesB(G, q, b, L.here)
    <3> SUFFICES ASSUME p \in AKinds
                 PROVE  \E b \in CallsOf(H) : Source(G, b, j) /\ MatchesB(G, q, b, L.here)
      BY <1>2
    <3>1. PICK b \in CallsOf(H) : Source(H, b, j) /\ MatchesB(H, q, b, L.here)
      BY <1>1, <1>2 DEF HereRight
    <3>2. Source(G, b, j)
      BY <1>3, <3>1, SourceKept
    <3>3. MatchesB(G, q, b, L.here)
      BY <3>1, MatchesKept DEF Source
    <3> QED BY <3>2, <3>3
  <2>9. p = "srcLsa" => (InA(q, G.plan[j]) => L.here.commA = G.said[j]["splitA"][2])
    <3> SUFFICES ASSUME p = "srcLsa", InA(q, H.plan[j]) PROVE L.here.commA = G.said[j]["splitA"][2]
      BY <1>2
    <3>1. G.said[j]["splitA"] = H.said[j]["splitA"]
      BY <1>2, <1>5, <2>1, SaidKept
    <3> QED BY <1>1, <1>2, <3>1 DEF HereRight
  <2> QED BY <1>2, <2>0, <2>3, <2>4, <2>5, <2>6, <2>7, <2>8, <2>9 DEF HereRight
<1> QED BY <1>1, <1>2, <1>6, <1>7, <1>8

LEMMA HoldsKept ==
  ASSUME SplitAssumption,
         NEW H, NEW G, NEW i, NEW k, Grows(H, G, i, k), NEW q, NEW L, L.at = at[q], L.at \in Nat,
         q \in Members(H.plan[i]) => L.pc = k,
         NEW M, M.at = L.at, M.pc = L.pc, NEW j \in CallsOf(H)
  PROVE  /\ Holds(G, q, M, j) <=> Holds(H, q, L, j)
         /\ HoldsA(G, q, M, j) <=> HoldsA(H, q, L, j)
         /\ (j \in CallsWith(H, q) /\ Past(M, j)) => Past(L, j) /\ Come(H, j) /\ j # i
<1>1. /\ j \in DOMAIN H.plan /\ G.plan = H.plan /\ CallsOf(G) = CallsOf(H) /\ k \in Kinds /\ j \in Nat
      /\ \A n, m : Whole(G, {q}, n, m) <=> Whole(H, {q}, n, m)
  BY PlanFacts DEF Grows, HistRight, CallsOf, Whole
<1>2. CallsWith(G, q) = CallsWith(H, q)
  BY <1>1 DEF CallsWith
<1>3. \A n : Past(M, n) <=> Past(L, n)
  BY DEF Past
<1>4. (j \in CallsWith(H, q) /\ j = i) => L.at = i /\ L.pc = k
  BY DEF CallsWith, Grows
<1>5. ASSUME j \in CallsWith(H, q), Past(M, j) PROVE Past(L, j) /\ Come(H, j) /\ j # i
  <2>1. Past(L, j)
    BY <1>3, <1>5
  <2>2. j # i
    BY <1>1, <1>4, <1>5, <2>1 DEF Past, Kinds
  <2>3. q \in Members(H.plan[j])
    BY <1>5 DEF CallsWith
  <2>4. at[q] >= j
    BY <1>1, <2>1 DEF Past
  <2> QED BY <2>1, <2>2, <2>3, <2>4 DEF Come
<1>6. Holds(G, q, M, j) <=> Holds(H, q, L, j)
  <2>1. CASE j # i \/ k \notin {"lsa", "namespace"}
    <3>1. Formed(G, j) <=> Formed(H, j)
      BY <1>1, <2>1, FormedKept
    <3> QED BY <1>1, <1>2, <3>1 DEF Holds
  <2>2. CASE j = i /\ k \in {"lsa", "namespace"}
    <3>1. k \in BKinds
      BY <2>2 DEF BKinds
    <3> QED BY <1>2, <1>4, <2>2, <3>1 DEF Holds
  <2> QED BY <2>1, <2>2
<1>7. HoldsA(G, q, M, j) <=> HoldsA(H, q, L, j)
  <2>1. CASE j # i
    <3>1. FormedA(G, j) <=> FormedA(H, j)
      BY <1>1, <2>1, FormedAKept
    <3> QED BY <1>1, <1>2, <1>3, <3>1 DEF HoldsA
  <2>2. CASE j = i
    BY <1>2, <1>3, <1>5, <2>2 DEF HoldsA
  <2> QED BY <2>1, <2>2
<1> QED BY <1>5, <1>6, <1>7

(* What holds of a rank holds when a collective of the job is done. *)
LEMMA RankKept ==
  ASSUME SplitAssumption,
         NEW H, NEW G, NEW i, NEW k, Grows(H, G, i, k), NEW q, NEW L, RankInv(H, q, L), L.at = at[q],
         NEW M, Stands(L, M), M.pc = L.pc, M.here = L.here, M.ask = L.ask,
         q \notin Members(H.plan[i]) => M.got = L.got,
         q \in Members(H.plan[i]) => L.pc = k /\ L.got = <<>> /\ M.got = G.said[i][k]
  PROVE  RankInv(G, q, M)
<1>1. /\ G.plan = H.plan /\ CallsOf(G) = CallsOf(H) /\ CallsWith(G, q) = CallsWith(H, q)
      /\ CallsWith(H, q) \subseteq CallsOf(H)
  BY DEF Grows, CallsOf, CallsWith
<1>2. /\ M.at = L.at /\ M.shared = L.shared /\ M.known = L.known /\ M.commAs = L.commAs
      /\ M.result = L.result
  BY DEF Stands
<1>3. /\ RankTypes(H, q, L) /\ AtRight(H, q, L) /\ PastRight(H, q, L) /\ ResultRight(H, q, L)
      /\ SharedRight(H, q, L) /\ KnownRight(H, q, L) /\ CommARight(H, q, L)
  BY DEF RankInv
<1>4. RankTypes(G, q, M)
  BY <1>1, <1>2, <1>3 DEF RankTypes
<1>5. AtRight(G, q, M)
  <2>1. L.pc \in Kinds \cup {"idle"}
    BY <1>3 DEF RankTypes
  <2> QED BY <1>2, <1>3, <2>1, AtKept
<1>6. \A j \in CallsOf(H) : /\ Holds(G, q, M, j) <=> Holds(H, q, L, j)
                            /\ HoldsA(G, q, M, j) <=> HoldsA(H, q, L, j)
                            /\ (j \in CallsWith(H, q) /\ Past(M, j)) => Past(L, j) /\ Come(H, j) /\ j # i
  <2>1. L.at \in Nat
    BY <1>3 DEF RankTypes
  <2> QED BY <1>2, <2>1, HoldsKept
<1>7. PastRight(G, q, M)
  BY <1>1, <1>3, <1>6, ElseKept DEF PastRight
<1>8. ResultRight(G, q, M)
  <2> SUFFICES ASSUME NEW j \in DOMAIN H.plan, L.result[j].verdict # "none"
               PROVE  j \in CallsWith(H, q) /\ Past(M, j) /\ Outcome(G, q, j, L.result[j])
    BY <1>1, <1>2 DEF ResultRight
  <2>1. j \in CallsWith(H, q) /\ Past(L, j) /\ Outcome(H, q, j, L.result[j])
    BY <1>3 DEF ResultRight
  <2>2. Past(M, j)
    BY <1>2, <2>1 DEF Past
  <2>3. Come(H, j) /\ j # i
    BY <1>1, <1>6, <2>1, <2>2
  <2>4. Outcome(G, q, j, L.result[j])
    BY <2>1, <2>3, ElseKept
  <2> QED BY <2>1, <2>2, <2>4
<1>9. \A j \in CallsOf(H) : \A e : Holds(H, q, L, j) => (EntryOf(G, q, j, e) <=> EntryOf(H, q, j, e))
  BY MatchesKept DEF Holds
<1>10. \A j \in CallsOf(H) : \A e : HoldsA(H, q, L, j) => (EntryOfA(G, q, j, e) <=> EntryOfA(H, q, j, e))
  BY MatchesAKept DEF HoldsA
<1>11. SharedRight(G, q, M)
  <2>1. ASSUME NEW n \in DOMAIN L.shared
        PROVE  \E j \in CallsOf(H) : Holds(G, q, M, j) /\ EntryOf(G, q, j, L.shared[n])
    <3>1. PICK j \in CallsOf(H) : Holds(H, q, L, j) /\ EntryOf(H, q, j, L.shared[n])
      BY <1>3 DEF SharedRight
    <3> QED BY <1>6, <1>9, <3>1
  <2>2. ASSUME NEW j \in CallsOf(H), Holds(G, q, M, j)
        PROVE  \E n \in DOMAIN L.shared : EntryOf(G, q, j, L.shared[n])
    <3>1. Holds(H, q, L, j)
      BY <1>6, <2>2
    <3>2. PICK n \in DOMAIN L.shared : EntryOf(H, q, j, L.shared[n])
      BY <1>3, <3>1 DEF SharedRight
    <3> QED BY <1>9, <3>1, <3>2
  <2> QED BY <1>1, <1>2, <2>1, <2>2 DEF SharedRight
<1>12. KnownRight(G, q, M)
  <2>1. \A j, e : KnownOf(G, j, e) <=> KnownOf(H, j, e)
    BY <1>1 DEF KnownOf
  <2> QED BY <1>1, <1>2, <1>3, <1>6, <2>1 DEF KnownRight
<1>13. CommARight(G, q, M)
  <2>1. ASSUME NEW n \in DOMAIN L.commAs
        PROVE  \E j \in CallsOf(H) : HoldsA(G, q, M, j) /\ EntryOfA(G, q, j, L.commAs[n])
    <3>1. PICK j \in CallsOf(H) : HoldsA(H, q, L, j) /\ EntryOfA(H, q, j, L.commAs[n])
      BY <1>3 DEF CommARight
    <3> QED BY <1>6, <1>10, <3>1
  <2>2. ASSUME NEW j \in CallsOf(H), HoldsA(G, q, M, j)
        PROVE  \E n \in DOMAIN L.commAs : EntryOfA(G, q, j, L.commAs[n])
    <3>1. HoldsA(H, q, L, j)
      BY <1>6, <2>2
    <3>2. PICK n \in DOMAIN L.commAs : EntryOfA(H, q, j, L.commAs[n])
      BY <1>3, <3>1 DEF CommARight
    <3> QED BY <1>10, <3>1, <3>2
  <2> QED BY <1>1, <1>2, <2>1, <2>2 DEF CommARight
<1> QED BY <1>4, <1>5, <1>7, <1>8, <1>11, <1>12, <1>13 DEF RankInv

-----------------------------------------------------------------------------
(* The members of a parent meet in one step. *)

(* The members of a parent that meet are in the same step. *)
LEMMA Together ==
  ASSUME SplitAssumption,
         IInv, NEW i \in Steps, NEW k \in Kinds, Meet(i, k), NEW m \in Members(plan[i])
  PROVE  /\ at[m] = i /\ pc[m] = k /\ got[m] = <<>> /\ m \in Processes
         /\ Base(Hist, i, k) /\ Upto(Hist, i, Ord(k) - 1) /\ RankInv(Hist, m, Local(m))
<1>1. /\ HistRight(Hist) /\ Hist.plan \in Plans /\ Hist.plan = plan
      /\ \A r \in Processes : RankInv(Hist, r, Local(r))
  BY DEF IInv, HistRight, Hist
<1>2. i \in CallsOf(Hist) /\ k # "idle" /\ i \in Nat
  BY <1>1, PlanFacts DEF Meet, CallsOf, Steps, Kinds
<1>3. PICK r \in Members(plan[i]) : at[r] = i
  BY DEF Meet
<1>4. ASSUME NEW q \in Members(plan[i])
      PROVE  /\ q \in Processes /\ pc[q] = k /\ got[q] = <<>> /\ at[q] \in CallsOf(Hist)
             /\ Members(plan[at[q]]) = Members(plan[i]) /\ at[q] \in Nat
             /\ Base(Hist, at[q], k) /\ Upto(Hist, at[q], Ord(k) - 1) /\ Open(Hist, at[q], k)
             /\ \A j \in CallsOf(Hist) : (j < at[q] /\ q \in Members(plan[j])) => Ended(Hist, j)
  <2> DEFINE L == Local(q)
  <2>1. L.at = at[q] /\ L.pc = pc[q] /\ L.got = got[q]
    BY DEF Local
  <2> HIDE DEF L
  <2>2. q \in Processes /\ pc[q] = k /\ got[q] = <<>> /\ plan[at[q]].parent = plan[i].parent
    BY <1>1, <1>2, PlanFacts DEF Meet, Waiting, MyCall
  <2>3. RankInv(Hist, q, L)
    BY <1>1, <2>2 DEF L
  <2>4. Base(Hist, at[q], k) /\ Upto(Hist, at[q], Ord(k) - 1) /\ Goes(Hist, at[q], k)
    BY <1>2, <2>1, <2>2, <2>3 DEF RankInv, AtRight
  <2>5. at[q] \in CallsOf(Hist)
    BY <2>4 DEF Base
  <2>6. Members(plan[at[q]]) = Members(plan[i]) /\ at[q] \in Nat
    BY <1>1, <1>2, <2>2, <2>5, SameParent, PlanFacts
  <2>7. ASSUME NEW j \in CallsOf(Hist), j < at[q], q \in Members(plan[j]) PROVE Ended(Hist, j)
    BY <1>1, <2>1, <2>3, <2>7 DEF RankInv, PastRight, CallsWith, Past
  <2> QED BY <2>2, <2>4, <2>5, <2>6, <2>7 DEF Open
<1>5. ~(at[m] < i)
  <2> SUFFICES ASSUME at[m] < i PROVE FALSE
    OBVIOUS
  <2>1. Ended(Hist, at[m])
    BY <1>3, <1>4
  <2> QED BY <1>4, <2>1 DEF Ended
<1>6. ~(at[m] > i)
  <2> SUFFICES ASSUME i < at[m] PROVE FALSE
    BY <1>2, <1>4
  <2>1. Ended(Hist, i)
    BY <1>2, <1>4
  <2>2. Open(Hist, i, k)
    BY <1>3, <1>4
  <2> QED BY <2>1, <2>2 DEF Ended
<1>7. at[m] = i
  BY <1>2, <1>4, <1>5, <1>6
<1> QED BY <1>1, <1>4, <1>7

(* What a collective adds to the history. *)
LEMMA MeetSays ==
  ASSUME SplitAssumption, IInv, NEW i \in Steps, NEW k \in Kinds, Meet(i, k)
  PROVE  /\ Grows(Hist, Hist', i, k) /\ Hist'.plan = plan /\ Hist'.pack = pack
         /\ Hist'.said[i][k] = <<[m \in Members(plan[i]) |-> ask[m]], minted + 1>>
         /\ Hist'.said = [j \in DOMAIN plan |-> [l \in Kinds |-> Hist'.said[j][l]]]
<1> DEFINE v == <<[m \in Members(plan[i]) |-> ask[m]], minted + 1>>
           G == Hist'
<1>1. plan' = plan /\ pack' = pack /\ said' = [said EXCEPT ![i][k] = v]
  BY DEF Meet
<1>2. G.plan = plan /\ G.pack = pack /\ G.said = said'
  BY <1>1 DEF Hist
<1>3. /\ Hist.plan = plan /\ Hist.pack = pack /\ Hist.said = said /\ HistRight(Hist)
      /\ said = [j \in DOMAIN plan |-> [l \in Kinds |-> said[j][l]]] /\ Arrived
  BY DEF IInv, HistRight, Hist
<1>4. v # <<>>
  OBVIOUS
<1> HIDE DEF v, G
<1>5. \A j \in DOMAIN plan, l \in Kinds : said'[j][l] = IF j = i /\ l = k THEN v ELSE said[j][l]
  BY <1>1, <1>3 DEF Steps
<1>6. said' = [j \in DOMAIN plan |-> [l \in Kinds |-> said'[j][l]]]
  BY <1>1, <1>3 DEF Steps
<1>7. i \in CallsOf(Hist) /\ \E m \in Members(plan[i]) : TRUE
  BY <1>3 DEF Meet, CallsOf, Steps
<1>8. Base(Hist, i, k) /\ Upto(Hist, i, Ord(k) - 1) /\ \A m \in Members(plan[i]) : at[m] = i
  BY <1>7, Together
<1>9. \A j \in DOMAIN plan, l \in Kinds : Told(Hist, j, l) => \A m \in Members(plan[j]) : at[m] >= j
  BY <1>3 DEF Arrived, Steps
<1>10. Told(G, i, k)
  BY <1>2, <1>4, <1>5 DEF Told, Steps
<1>11. \A j \in DOMAIN Hist.plan, l \in Kinds : (j # i \/ l # k) => G.said[j][l] = Hist.said[j][l]
  BY <1>2, <1>3, <1>5
<1>12. Grows(Hist, G, i, k)
  BY <1>2, <1>3, <1>7, <1>8, <1>9, <1>10, <1>11 DEF Grows
<1>13. G.said[i][k] = v
  BY <1>2, <1>5 DEF Steps
<1> QED BY <1>2, <1>6, <1>12, <1>13 DEF v, G

-----------------------------------------------------------------------------
(* A collective is done. *)

(* The history stays right. *)
LEMMA HistMeets ==
  ASSUME SplitAssumption, IInv, NEW i \in Steps, NEW k \in Kinds, Meet(i, k)
  PROVE  HistRight(Hist')
<1> DEFINE G == Hist'
           H == Hist
<1>1. /\ Grows(H, G, i, k) /\ G.plan = plan /\ G.pack = pack
      /\ G.said[i][k] = <<[m \in Members(plan[i]) |-> ask[m]], minted + 1>>
      /\ G.said = [j \in DOMAIN plan |-> [l \in Kinds |-> G.said[j][l]]]
  BY MeetSays
<1>2. /\ H.plan = plan /\ H.pack = pack /\ HistRight(H)
  BY DEF Hist, IInv
<1>3. \A m \in Members(plan[i]) : /\ at[m] = i /\ pc[m] = k /\ got[m] = <<>> /\ RankInv(H, m, Local(m))
  BY Together
<1> HIDE DEF G, H
<1>4. /\ CallsOf(G) = CallsOf(H) /\ i \in CallsOf(H) /\ H.plan \in Plans /\ "pool" \in Kinds
      /\ DOMAIN H.plan = DOMAIN plan /\ \A j \in CallsOf(H) : j \in DOMAIN H.plan
  BY <1>1, <1>2, PlanFacts DEF CallsOf, Grows, HistRight, Kinds
<1>5. Said(G, i, k) = [m \in Members(plan[i]) |-> ask[m]]
  BY <1>1 DEF Said
<1>6. i \in Nat /\ H.plan[i].gens[1] \in Gens(H.plan[i]) /\ Gens(H.plan[i]) \subseteq Members(H.plan[i])
  BY <1>4, PlanFacts
<1>7. (\E g \in Gens(H.plan[i]) : at[g] >= i) /\ Come(H, i)
  <2>1. at[H.plan[i].gens[1]] >= i
    BY <1>2, <1>3, <1>6
  <2> QED BY <1>4, <1>6, <2>1 DEF Come
<1>8. ASSUME NEW j \in DOMAIN G.plan, NEW l \in Kinds, Told(G, j, l)
      PROVE  Base(G, j, l) /\ DOMAIN Said(G, j, l) = Members(G.plan[j])
  <2>1. CASE j = i /\ l = k
    <3>1. Base(H, i, k)
      BY <1>1 DEF Grows
    <3>2. Base(G, i, k)
      BY <1>1, <1>7, <3>1, BaseKept
    <3> QED BY <1>1, <1>5, <2>1, <3>2
  <2>2. CASE j # i \/ l # k
    <3>1. Told(H, j, l) /\ Said(G, j, l) = Said(H, j, l)
      BY <1>1, <1>2, <1>8, <2>2, SaidKept
    <3>2. Base(H, j, l) /\ DOMAIN Said(H, j, l) = Members(H.plan[j])
      BY <1>1, <1>2, <3>1 DEF HistRight, ToldRight
    <3>3. Come(H, j)
      BY <1>1, <3>1, <3>2, GensCome DEF Base
    <3>4. Base(G, j, l)
      BY <1>1, <3>2, <3>3, BaseKept
    <3> QED BY <1>1, <1>2, <3>1, <3>2, <3>4
  <2> QED BY <2>1, <2>2
<1>9. ASSUME NEW j \in DOMAIN G.plan, Told(G, j, "pool"), NEW r \in Members(G.plan[j])
      PROVE  VoteOf(G, r, j, Said(G, j, "pool")[r])
  <2>1. CASE j = i /\ k = "pool"
    <3>1. Said(G, j, "pool")[r] = ask[r]
      BY <1>1, <1>5, <1>9, <2>1
    <3> DEFINE L == Local(r)
    <3>2. L.at = at[r] /\ L.pc = pc[r] /\ L.got = got[r] /\ L.ask = ask[r] /\ RankInv(H, r, L)
      BY <1>1, <1>3, <1>9, <2>1 DEF Local
    <3> HIDE DEF L
    <3>3. VoteOf(H, r, j, ask[r])
      BY <1>1, <1>3, <1>9, <2>1, <3>2 DEF RankInv, AtRight, HereRight
    <3>4. HasOwner(G, r, j) <=> HasOwner(H, r, j)
      BY <1>1, <1>4, <1>7, <2>1, OwnersKept
    <3> QED BY <1>1, <1>2, <3>1, <3>3, <3>4 DEF VoteOf
  <2>2. CASE j # i \/ "pool" # k
    <3>1. Told(H, j, "pool") /\ Said(G, j, "pool") = Said(H, j, "pool")
      BY <1>1, <1>2, <1>4, <1>9, <2>2, SaidKept
    <3>2. j \in CallsOf(H)
      BY <1>1, <1>2, <1>4, <3>1 DEF HistRight, ToldRight, Base
    <3>3. VoteOf(H, r, j, Said(H, j, "pool")[r])
      BY <1>1, <1>2, <3>1 DEF HistRight, VotesRight
    <3>4. \E g \in Gens(H.plan[j]) : at[g] >= j
      BY <1>1, <1>4, <3>1, <3>2, GensCome
    <3>5. HasOwner(G, r, j) <=> HasOwner(H, r, j)
      BY <1>1, <3>2, <3>4, OwnersKept
    <3> QED BY <1>1, <1>2, <3>1, <3>3, <3>5 DEF VoteOf
  <2> QED BY <2>1, <2>2
<1>10. ToldRight(G)
  BY <1>8 DEF ToldRight
<1>11. VotesRight(G)
  BY <1>9 DEF VotesRight
<1>12. HistRight(G)
  BY <1>1, <1>2, <1>10, <1>11 DEF HistRight
<1> QED BY <1>12 DEF G

(* The invariant is kept by a collective. *)
LEMMA NextMeet ==
  ASSUME SplitAssumption, IInv, NEW i \in Steps, NEW k \in Kinds, Meet(i, k)
  PROVE  /\ IInv' /\ Grows(Hist, Hist', i, k)
         /\ \A m \in Members(plan[i]) : at[m] = i /\ pc[m] = k /\ got[m] = <<>>
         /\ Hist'.said[i][k] = <<[m \in Members(plan[i]) |-> ask[m]], minted + 1>>
         /\ minted' = IF Mints(k) THEN minted + 1 ELSE minted
<1> DEFINE G == Hist'
           H == Hist
           v == <<[m \in Members(plan[i]) |-> ask[m]], minted + 1>>
<1>1. /\ Grows(H, G, i, k) /\ G.plan = plan /\ G.pack = pack
      /\ G.said[i][k] = v /\ HistRight(G)
  BY MeetSays, HistMeets
<1>2. /\ H.plan = plan /\ H.pack = pack /\ Domains /\ Arrived
      /\ \A r \in Processes : RankInv(H, r, Local(r))
  BY DEF Hist, IInv
<1>3. \A m \in Members(plan[i]) : at[m] = i /\ pc[m] = k /\ got[m] = <<>>
  BY Together
<1>4. /\ got' = [r \in Processes |-> IF r \in Members(plan[i]) THEN v ELSE got[r]]
      /\ minted' = IF Mints(k) THEN minted + 1 ELSE minted
      /\ UNCHANGED <<plan, pack, at, pc, ask, here, shared, known, commAs, result>>
  BY DEF Meet, tableVars
<1> HIDE DEF G, H, v
<1>5. Domains'
  <2>1. minted' \in Nat
    BY <1>2, <1>4 DEF Domains
  <2>2. got' = [r \in Processes |-> got'[r]]
    BY <1>4
  <2> QED BY <1>2, <1>4, <2>1, <2>2 DEF Domains
<1>6. Arrived'
  <2> SUFFICES ASSUME NEW j \in Steps, NEW l \in Kinds, Told(G, j, l), NEW r \in Members(plan[j])
               PROVE  at[r] >= j
    BY <1>4 DEF Arrived, Steps, G
  <2>1. CASE j = i /\ l = k
    <3>1. i \in Nat
      BY <1>1, PlanFacts DEF Grows, HistRight
    <3> QED BY <1>3, <2>1, <3>1
  <2>2. CASE j # i \/ l # k
    <3>1. Told(H, j, l)
      BY <1>1, <1>2, <2>2, SaidKept DEF Steps
    <3> QED BY <1>2, <3>1 DEF Arrived, H
  <2> QED BY <2>1, <2>2
<1>7. ASSUME NEW q \in Processes PROVE RankInv(G, q, Local(q)')
  <2> DEFINE L == Local(q)
             M == Local(q)'
  <2>1. RankInv(H, q, L) /\ L.at = at[q] /\ L.pc = pc[q] /\ L.got = got[q]
    BY <1>2 DEF Local
  <2>2. Stands(L, M) /\ M.pc = L.pc /\ M.here = L.here /\ M.ask = L.ask /\ M.got = got'[q]
    BY <1>4 DEF Stands, Local
  <2> HIDE DEF L, M
  <2>3. q \notin Members(H.plan[i]) => M.got = L.got
    BY <1>2, <1>4, <2>1, <2>2
  <2>4. q \in Members(H.plan[i]) => L.pc = k /\ L.got = <<>> /\ M.got = G.said[i][k]
    BY <1>1, <1>2, <1>3, <1>4, <2>1, <2>2
  <2>5. RankInv(G, q, M)
    BY <1>1, <2>1, <2>2, <2>3, <2>4, RankKept
  <2> QED BY <2>5 DEF M
<1>8. (\A q \in Processes : RankInv(Hist, q, Local(q)))'
  BY <1>7 DEF G
<1>9. IInv'
  BY <1>1, <1>5, <1>6, <1>8 DEF IInv, G
<1> QED BY <1>1, <1>3, <1>4, <1>9 DEF G, H, v

-----------------------------------------------------------------------------
(* The invariant, and that the members of a call agree on their split. *)

(* IInv holds when the program starts. *)
LEMMA InvInit ==
  ASSUME SplitAssumption, SplitInit
  PROVE  IInv
<1> DEFINE H == Hist
<1>1. /\ H.plan = plan /\ H.pack = pack /\ H.said = said /\ plan \in Plans /\ pack \in Packs
      /\ said = [i \in DOMAIN plan |-> [k \in Kinds |-> <<>>]]
  BY DEF SplitInit, Hist, Steps
<1> HIDE DEF H
<1>2. \A i \in DOMAIN plan, k \in Kinds : ~Told(H, i, k)
  BY <1>1 DEF Told
<1>3. Domains
  BY DEF SplitInit, Domains
<1>4. HistRight(H)
  <2>1. "pool" \in Kinds
    BY DEF Kinds
  <2>2. ToldRight(H) /\ VotesRight(H)
    BY <1>1, <1>2, <2>1 DEF ToldRight, VotesRight
  <2>3. H.said = [i \in DOMAIN H.plan |-> [k \in Kinds |-> H.said[i][k]]]
    BY <1>1
  <2> QED BY <1>1, <2>2, <2>3 DEF HistRight
<1>5. Arrived
  BY <1>2 DEF Arrived, Steps, H
<1>6. ASSUME NEW r \in Processes PROVE RankInv(H, r, Local(r))
  <2> DEFINE L == Local(r)
  <2>1. /\ L.at = 0 /\ L.pc = "idle" /\ L.here = Nothing /\ L.shared = <<>> /\ L.known = <<>>
        /\ L.commAs = <<>> /\ L.result = [i \in DOMAIN plan |-> NoResult]
    BY DEF Local, SplitInit, Steps
  <2> HIDE DEF L
  <2>2. \A j \in CallsOf(H) : j \in Nat \ {0} /\ ~Past(L, j) /\ ~Holds(H, r, L, j) /\ ~HoldsA(H, r, L, j)
    <3>1. \A j \in CallsOf(H) : j \in Nat \ {0}
      BY <1>1, PlanFacts
    <3>2. \A j \in CallsOf(H) : ~Past(L, j)
      BY <2>1, <3>1 DEF Past
    <3> QED BY <2>1, <3>1, <3>2 DEF Holds, HoldsA
  <2>3. RankTypes(H, r, L)
    <3>1. Listed(<<>>) /\ Stored(<<>>)
      BY EmptyList DEF Stored
    <3>2. L.result = [i \in DOMAIN H.plan |-> L.result[i]]
      BY <1>1, <2>1
    <3> QED BY <2>1, <3>1, <3>2, Unanswered DEF RankTypes
  <2>4. AtRight(H, r, L)
    BY <2>1 DEF AtRight
  <2>5. PastRight(H, r, L)
    BY <2>2 DEF PastRight, CallsWith
  <2>6. ResultRight(H, r, L)
    BY <1>1, <2>1 DEF ResultRight, NoResult
  <2>7. SharedRight(H, r, L) /\ KnownRight(H, r, L) /\ CommARight(H, r, L)
    <3>1. DOMAIN L.shared = {} /\ DOMAIN L.known = {} /\ DOMAIN L.commAs = {}
      BY <2>1, EmptyList
    <3> QED BY <2>2, <3>1 DEF SharedRight, KnownRight, CommARight
  <2>8. RankInv(H, r, L)
    BY <2>3, <2>4, <2>5, <2>6, <2>7 DEF RankInv
  <2> QED BY <2>8 DEF L
<1> QED BY <1>3, <1>4, <1>5, <1>6 DEF IInv, H

(* IInv is kept by every step. *)
LEMMA InvNext ==
  ASSUME SplitAssumption, IInv, [SplitNext]_splitVars
  PROVE  IInv'
<1>1. ASSUME NEW i \in Steps, NEW k \in Kinds, Meet(i, k) PROVE IInv'
  BY <1>1, NextMeet
<1>2. ASSUME NEW i \in Steps, KernelsEnd(i) PROVE IInv'
  BY <1>2, NextSame DEF KernelsEnd
<1>3. ASSUME NEW r \in Processes, StartCall(r) PROVE IInv'
  BY <1>3, NextStartCall
<1>4. ASSUME NEW r \in Processes, Restart(r) PROVE IInv'
  BY <1>4, NextRestart
<1>5. ASSUME NEW r \in Processes, ParentsVoted(r) \/ LanesHeard(r) PROVE IInv'
  BY <1>5, NextParentsVoted, NextLanesHeard
<1>6. ASSUME NEW r \in Processes, PoolVoted(r) \/ SharedVoted(r) PROVE IInv'
  BY <1>6, NextPoolVoted, NextSharedVoted
<1>7. ASSUME NEW r \in Processes, CommBSplit(r) \/ LsaHeard(r) PROVE IInv'
  BY <1>7, NextCommBSplit, NextLsaHeard
<1>8. ASSUME NEW r \in Processes, LsaHeardPipe(r) \/ NamespacesHeard(r) PROVE IInv'
  BY <1>8, NextLsaHeardPipe, NextNamespacesHeard
<1>9. ASSUME NEW r \in Processes, AVoted(r) \/ CommASplit(r) \/ SrcLsaHeard(r) PROVE IInv'
  BY <1>9, NextAVoted, NextCommASplit, NextSrcLsaHeard
<1>10. ASSUME UNCHANGED splitVars PROVE IInv'
  BY <1>10, NextSame DEF splitVars
<1> QED BY <1>1, <1>2, <1>3, <1>4, <1>5, <1>6, <1>7, <1>8, <1>9, <1>10 DEF SplitNext

-----------------------------------------------------------------------------

(* A call has one kind of outcome. *)
LEMMA OneVerdict ==
  ASSUME SplitAssumption, NEW H, HistRight(H), NEW i \in CallsOf(H)
  PROVE  ~(Parented(H, i) /\ Refused(H, i)) /\ ~(Parented(H, i) /\ SplitDone(H, i))
         /\ ~(Refused(H, i) /\ SplitDone(H, i))
<1>0. /\ i \in DOMAIN H.plan /\ ToldRight(H)
      /\ "fullParents" \in Kinds /\ "lanes" \in Kinds /\ "pool" \in Kinds /\ "fullB" \in Kinds
      /\ "lsa" \in Kinds /\ "namespace" \in Kinds /\ "fullA" \in Kinds /\ "srcLsa" \in Kinds
  BY PlanFacts DEF HistRight, Kinds
<1>1. \A k \in Kinds : Told(H, i, k) => Base(H, i, k)
  BY <1>0 DEF ToldRight
<1>2. \A k \in Kinds, l \in Kinds : (LastSaid(H, i, k) /\ Told(H, i, l)) => Ord(l) <= Ord(k)
  BY DEF LastSaid, Upto
<1>3. \A k \in Kinds, l \in Kinds : (LastSaid(H, i, k) /\ LastSaid(H, i, l)) => Ord(l) = Ord(k)
  BY <1>2, Ords DEF LastSaid
<1>4. ASSUME Formed(H, i)
      PROVE  /\ Told(H, i, "lsa") /\ ~LastSaid(H, i, "fullParents") /\ ~LastSaid(H, i, "lanes")
             /\ ~LastSaid(H, i, "pool") /\ ~LastSaid(H, i, "fullB")
  <2>1. Told(H, i, "lsa")
    BY <1>4 DEF Formed
  <2> QED BY <1>0, <1>2, <2>1, Ords
<1>5. ASSUME KnownBefore(H, i) PROVE \A k \in BKinds : ~Told(H, i, k)
  BY <1>1, <1>5 DEF Base, BKinds, Kinds
<1>6. SplitDone(H, i) => /\ ~LastSaid(H, i, "fullParents") /\ ~LastSaid(H, i, "lanes")
                         /\ ~LastSaid(H, i, "pool") /\ ~LastSaid(H, i, "fullB")
  BY <1>4, <1>5 DEF SplitDone, LastSaid, BKinds
<1>7. ASSUME SplitDone(H, i), LastSaid(H, i, "namespace"), ~Agreed(H, i) PROVE FALSE
  <2>1. ~H.pack /\ ~KnownBefore(H, i)
    BY <1>0, <1>1, <1>7 DEF LastSaid, Base, BKinds
  <2> QED BY <1>7, <2>1 DEF SplitDone, Formed
<1>8. ASSUME SplitDone(H, i), LastSaid(H, i, "fullA") PROVE FALSE
  <2>1. ~CachedA(H, i)
    BY <1>0, <1>1, <1>8 DEF LastSaid, Base, AKinds
  <2>2. Told(H, i, "srcLsa")
    BY <1>8, <2>1 DEF SplitDone, FormedA
  <2> QED BY <1>0, <1>2, <1>8, <2>2, Ords
<1>9. ~(Refused(H, i) /\ SplitDone(H, i))
  BY <1>6, <1>7, <1>8 DEF Refused
<1>10. ~(Parented(H, i) /\ SplitDone(H, i))
  BY <1>6 DEF Parented, SplitDone
<1>11. ~(Parented(H, i) /\ Refused(H, i))
  <2>1. Overlap(H.plan[i]) => \A k \in Kinds : ~Told(H, i, k)
    BY <1>1 DEF Base
  <2>2. Overlap(H.plan[i]) => ~Refused(H, i)
    BY <1>0, <2>1 DEF Refused, LastSaid
  <2>3. LastSaid(H, i, "lanes") \/ LastSaid(H, i, "pool") => ~Refused(H, i)
    BY <1>0, <1>3, Ords DEF Refused
  <2> QED BY <2>2, <2>3 DEF Parented
<1> QED BY <1>9, <1>10, <1>11

(* IInv gives: members that split have the same verdict, sizes, lane and namespace, *)
(* generators the same commB, domain members the same commA.                        *)
LEMMA InvSame ==
  ASSUME SplitAssumption, IInv
  PROVE  SameSplit
<1>1. HistRight(Hist) /\ Hist.plan = plan /\ \A r \in Processes : RankInv(Hist, r, Local(r))
  BY DEF IInv, Hist
<1> SUFFICES ASSUME NEW i \in CallSteps, NEW q \in Answered(i), NEW r \in Answered(i)
             PROVE  /\ result[q][i].verdict = result[r][i].verdict
                    /\ Split(q, i) =>
                         /\ result[q][i].lsa = result[r][i].lsa /\ result[q][i].srcLsa = result[r][i].srcLsa
                         /\ result[q][i].lane = result[r][i].lane /\ result[q][i].ns = result[r][i].ns
                         /\ result[q][i].domains = result[r][i].domains
                         /\ {q, r} \subseteq Range(plan[i].gens) => result[q][i].commB = result[r][i].commB
                         /\ result[q][i].inA /\ result[r][i].inA => result[q][i].commA = result[r][i].commA
  BY DEF SameSplit
<1>2. i \in CallsOf(Hist) /\ i \in DOMAIN Hist.plan
  BY <1>1 DEF CallSteps, CallsOf, Steps
<1>3. ASSUME NEW p \in Answered(i) PROVE Outcome(Hist, p, i, result[p][i])
  <2>1. p \in Processes
    BY <1>1, <1>2, PlanFacts DEF Answered, HistRight
  <2>2. ResultRight(Hist, p, Local(p)) /\ Local(p).result = result[p]
    BY <1>1, <2>1 DEF RankInv, Local
  <2> QED BY <1>2, <2>2 DEF ResultRight, Answered
<1> DEFINE x == result[q][i]
           y == result[r][i]
<1>4. Outcome(Hist, q, i, x) /\ Outcome(Hist, r, i, y)
  BY <1>3
<1> HIDE DEF x, y
<1>5. x.verdict = y.verdict
  BY <1>1, <1>2, <1>4, OneVerdict DEF Outcome, SplitAs
<1>6. ASSUME x.verdict = "split"
      PROVE  /\ x.lsa = y.lsa /\ x.srcLsa = y.srcLsa /\ x.lane = y.lane /\ x.ns = y.ns
             /\ x.domains = y.domains
             /\ {q, r} \subseteq Range(plan[i].gens) => x.commB = y.commB
             /\ x.inA /\ y.inA => x.commA = y.commA
  <2>1. SplitAs(Hist, q, i, x) /\ SplitAs(Hist, r, i, y)
    BY <1>4, <1>5, <1>6 DEF Outcome
  <2>2. PICK b \in CallsOf(Hist) : Source(Hist, b, i) /\ MatchesB(Hist, q, b, x)
    BY <2>1 DEF SplitAs
  <2>3. PICK c \in CallsOf(Hist) : Source(Hist, c, i) /\ MatchesB(Hist, r, c, y)
    BY <2>1 DEF SplitAs
  <2>4. PICK a \in CallsOf(Hist) : BestA(Hist, a, i) /\ MatchesA(Hist, q, a, x) /\ x.domains = Hist.plan[a].k
    BY <2>1 DEF SplitAs
  <2>5. PICK d \in CallsOf(Hist) : BestA(Hist, d, i) /\ MatchesA(Hist, r, d, y) /\ y.domains = Hist.plan[d].k
    BY <2>1 DEF SplitAs
  <2>6. b = c /\ a = d
    BY <1>1, <1>2, <2>2, <2>3, <2>4, <2>5, SourceOnce, BestOnce
  <2>7. Gens(Hist.plan[b]) = Range(plan[i].gens)
    BY <1>1, <2>2 DEF Source, SameGeometry, Geometry, Gens
  <2>8. /\ x.lsa = y.lsa /\ x.lane = y.lane /\ x.ns = y.ns
        /\ {q, r} \subseteq Range(plan[i].gens) => x.commB = y.commB
    BY <2>2, <2>3, <2>6, <2>7 DEF MatchesB
  <2>9. /\ x.srcLsa = y.srcLsa /\ x.domains = y.domains
        /\ x.inA /\ y.inA => x.commA = y.commA
    BY <2>4, <2>5, <2>6 DEF MatchesA
  <2> QED BY <2>8, <2>9
<1> QED BY <1>5, <1>6 DEF Split, x, y

-----------------------------------------------------------------------------
(* Namespaces: who owns a commB, and what is proposed on it. *)

(* A step that uses a commB again uses the one each of its generators owns. *)
LEMMA RootOwns ==
  ASSUME SplitAssumption,
         NEW H, HistRight(H), NEW i \in CallsOf(H), Told(H, i, "pool"), Reuses(H, i),
         NEW g \in Gens(H.plan[i])
  PROVE  Owns(H, g, Root(H, i), i)
<1>1. H.plan \in Plans /\ "pool" \in Kinds /\ ToldRight(H) /\ VotesRight(H)
  BY DEF HistRight, Kinds
<1>2. i \in DOMAIN H.plan /\ g \in Members(H.plan[i])
  BY <1>1, PlanFacts
<1>3. VoteOf(H, g, i, Said(H, i, "pool")[g]) /\ g \in DOMAIN Said(H, i, "pool")
  BY <1>1, <1>2 DEF VotesRight, ToldRight
<1>4. HasOwner(H, g, i)
  BY <1>3 DEF VoteOf, Reuses, MissIn
<1>5. PICK o \in CallsOf(H) : Owns(H, g, o, i)
  BY <1>4 DEF HasOwner
<1> QED BY <1>5, RootIs

(* The step whose commB is used again came before and split its own. *)
LEMMA RootFacts ==
  ASSUME SplitAssumption, NEW H, HistRight(H), NEW i \in CallsOf(H), Told(H, i, "pool")
  PROVE  /\ Root(H, i) \in CallsOf(H) /\ Root(H, i) <= i /\ ~Reuses(H, Root(H, i))
         /\ H.plan[Root(H, i)].gens = H.plan[i].gens
         /\ Root(H, i) # i => Reuses(H, i) /\ Root(H, i) < i /\ Formed(H, Root(H, i))
         /\ Reuses(H, i) => Root(H, i) < i
<1>0. H.plan \in Plans
  BY DEF HistRight
<1>1. i \in Nat /\ H.plan[i].gens[1] \in Gens(H.plan[i])
  BY <1>0, PlanFacts
<1>2. CASE ~Reuses(H, i)
  <2>1. Root(H, i) = i
    BY <1>2 DEF Root
  <2> QED BY <1>1, <1>2, <2>1
<1>3. CASE Reuses(H, i)
  <2>1. Owns(H, H.plan[i].gens[1], Root(H, i), i)
    BY <1>1, <1>3, RootOwns
  <2>2. Root(H, i) \in CallsOf(H) /\ Root(H, i) < i
    BY <2>1 DEF Owns
  <2>3. Root(H, i) \in Nat
    BY <1>0, <2>2, PlanFacts
  <2> QED BY <1>1, <1>3, <2>1, <2>2, <2>3 DEF Owns
<1> QED BY <1>2, <1>3

(* A step that is formed was told what came before. *)
LEMMA FormedTold ==
  ASSUME SplitAssumption, NEW H, HistRight(H), NEW i \in CallsOf(H), Formed(H, i)
  PROVE  Told(H, i, "lsa") /\ Told(H, i, "pool") /\ ~KnownBefore(H, i)
<1>1. Told(H, i, "lsa") /\ "lsa" \in Kinds /\ ToldRight(H) /\ i \in DOMAIN H.plan
  BY PlanFacts DEF Formed, Kinds, HistRight
<1>2. Base(H, i, "lsa")
  BY <1>1 DEF ToldRight
<1> QED BY <1>1, <1>2 DEF Base, BKinds

(* A rank holds one commB of each parent and geometry. *)
LEMMA HoldsOnce ==
  ASSUME SplitAssumption,
         NEW H, HistRight(H), NEW r, NEW L, L.at \in Nat, NEW j \in CallsOf(H), NEW m \in CallsOf(H),
         Holds(H, r, L, j), Holds(H, r, L, m), SameGeometry(H, j, m)
  PROVE  j = m
<1>0. H.plan \in Plans
  BY DEF HistRight
<1>1. ASSUME NEW x \in CallsOf(H), NEW y \in CallsOf(H), Holds(H, r, L, x), Holds(H, r, L, y),
             SameGeometry(H, x, y), x < y
      PROVE  FALSE
  <2>1. /\ x \in Nat /\ y \in Nat /\ y <= L.at /\ Formed(H, x) /\ Formed(H, y) /\ r \in Members(H.plan[y])
        /\ Whole(H, {r}, x, L.at)
    BY <1>0, <1>1, PlanFacts DEF Holds, CallsWith
  <2>2. Whole(H, {r}, x, y)
    BY <1>0, <1>1, <2>1, WholeCut
  <2>3. Whole(H, Members(H.plan[y]), x, y)
    BY <1>0, <1>1, <2>1, <2>2, WholeRank
  <2>4. Source(H, x, y)
    BY <1>1, <2>1, <2>3 DEF Source
  <2> QED BY <1>1, <2>1, <2>4, FormedTold DEF KnownBefore
<1>2. SameGeometry(H, m, j) /\ j \in Nat /\ m \in Nat
  BY <1>0, PlanFacts DEF SameGeometry
<1> QED BY <1>1, <1>2

(* What is proposed is the place of the parent in the pool, or the next free one. *)
LEMMA Proposed ==
  ASSUME NEW pool, Listed(pool), NEW p, Propose(pool, p) >= 0
  PROVE  /\ Propose(pool, p) \in Nat /\ DOMAIN pool = 1 .. Len(pool) /\ Len(pool) \in Nat
         /\ \/ /\ Propose(pool, p) + 1 \in DOMAIN pool /\ pool[Propose(pool, p) + 1] = p
            \/ /\ Propose(pool, p) = Len(pool) /\ \A x \in DOMAIN pool : pool[x] # p
<1> DEFINE mine == {n \in DOMAIN pool : pool[n] = p}
           id == IF mine # {} THEN CHOOSE n \in mine : TRUE ELSE Len(pool) + 1
<1>1. DOMAIN pool = 1 .. Len(pool) /\ Len(pool) \in Nat
  BY DEF Listed
<1>2. Propose(pool, p) = IF id <= Capacity THEN id - 1 ELSE -1
  BY DEF Propose
<1>3. mine # {} => id \in mine
  OBVIOUS
<1>4. mine = {} => id = Len(pool) + 1
  OBVIOUS
<1>5. \A n \in mine : n \in DOMAIN pool /\ pool[n] = p
  OBVIOUS
<1>6. mine = {} => \A x \in DOMAIN pool : pool[x] # p
  OBVIOUS
<1> HIDE DEF id, mine
<1>7. id \in Nat /\ id > 0
  BY <1>1, <1>3, <1>4, <1>5
<1>8. Propose(pool, p) = id - 1
  BY <1>2, <1>7
<1>9. CASE mine # {}
  BY <1>1, <1>3, <1>5, <1>7, <1>8, <1>9
<1>10. CASE mine = {}
  <2>1. Propose(pool, p) = Len(pool)
    BY <1>1, <1>4, <1>8, <1>10
  <2>2. \A x \in DOMAIN pool : pool[x] # p
    BY <1>6, <1>10
  <2> QED BY <1>1, <2>1, <2>2
<1> QED BY <1>9, <1>10

(* What a rank on a commB that is used again proposes. *)
LEMMA ProposalRight ==
  ASSUME SplitAssumption, NEW H, HistRight(H), NEW r, NEW L, SpacesOf(H, r, L), L.pc = "namespace",
         L.at \in CallsOf(H), r \in Gens(H.plan[L.at]), Told(H, L.at, "pool"), Reuses(H, L.at),
         L.here.reuse = Reuses(H, L.at), NEW ns, ns = ProposalOf(H, r, L), ns >= 0
  PROVE  LET pool == L.shared[L.here.owner].pool IN
         /\ L.here.owner \in DOMAIN L.shared /\ Holds(H, r, L, Root(H, L.at))
         /\ EntryOf(H, r, Root(H, L.at), L.shared[L.here.owner]) /\ L.shared[L.here.owner].owns
         /\ PoolOf(H, r, L, Root(H, L.at), pool) /\ ns \in Nat
         /\ DOMAIN pool = 1 .. Len(pool) /\ Len(pool) \in Nat
         /\ \/ ns + 1 \in DOMAIN pool /\ pool[ns + 1] = H.plan[L.at].parent
            \/ ns = Len(pool) /\ \A x \in DOMAIN pool : pool[x] # H.plan[L.at].parent
<1> DEFINE o == Root(H, L.at)
           n == L.here.owner
           pool == L.shared[n].pool
<1>1. n \in DOMAIN L.shared /\ Holds(H, r, L, o) /\ EntryOf(H, r, o, L.shared[n])
  BY DEF SpacesOf, OwnerRight
<1>2. Owns(H, r, o, L.at)
  BY RootOwns
<1>3. o \in CallsOf(H) /\ r \in Gens(H.plan[o]) /\ ~Reuses(H, o)
  BY <1>2 DEF Owns, Gens
<1>4. L.shared[n].owns
  BY <1>1, <1>3 DEF EntryOf
<1>5. PoolOf(H, r, L, o, pool)
  BY <1>1, <1>3, <1>4 DEF SpacesOf, PoolRight
<1>6. ns = Propose(pool, H.plan[L.at].parent)
  BY DEF ProposalOf
<1>7. Listed(pool)
  BY <1>5 DEF PoolOf
<1> HIDE DEF pool, o, n
<1>8. /\ ns \in Nat /\ DOMAIN pool = 1 .. Len(pool) /\ Len(pool) \in Nat
      /\ \/ ns + 1 \in DOMAIN pool /\ pool[ns + 1] = H.plan[L.at].parent
         \/ ns = Len(pool) /\ \A x \in DOMAIN pool : pool[x] # H.plan[L.at].parent
  BY <1>6, <1>7, Proposed
<1> QED BY <1>1, <1>4, <1>5, <1>8, ZenonT(30) DEF pool, o, n

-----------------------------------------------------------------------------

(* A move of one rank that leaves its table and what it holds alone. *)
LEMMA Calm ==
  ASSUME NEW H, NEW r, NEW L, NEW M, SpacesOf(H, r, L), M.shared = L.shared,
         \A j \in CallsOf(H) : Holds(H, r, M, j) <=> Holds(H, r, L, j), M.pc \notin {"lsa", "namespace"}
  PROVE  SpacesOf(H, r, M)
<1>1. \A o \in CallsOf(H) : \A pool : PoolOf(H, r, L, o, pool) => PoolOf(H, r, M, o, pool)
  BY DEF PoolOf
<1>2. PoolRight(H, r, M)
  BY <1>1 DEF PoolRight, SpacesOf
<1>3. OwnerRight(H, r, M) /\ ProposedRight(H, r, M)
  BY DEF OwnerRight, ProposedRight
<1>4. OncePer(M)
  BY DEF OncePer, SpacesOf
<1> QED BY <1>2, <1>3, <1>4 DEF SpacesOf

(* A move of one rank that keeps the history, and what is true of its pools. *)
LEMMA SpacesStep ==
  ASSUME NInv, NEW r \in Processes, Hist' = Hist, minted' = minted,
         \A q \in Processes : q # r => Local(q)' = Local(q),
         ~pack => SpacesOf(Hist, r, Local(r)')
  PROVE  NInv'
<1>1. pack' = pack
  BY DEF Hist
<1>2. MintRight(Hist, minted)' /\ RootTold(Hist)' /\ (~pack => NsRight(Hist)')
  BY DEF NInv
<1>3. ASSUME ~pack, NEW q \in Processes PROVE SpacesOf(Hist, q, Local(q))'
  <2>1. SpacesOf(Hist, q, Local(q)')
    BY <1>3 DEF NInv
  <2> QED BY <2>1
<1> QED BY <1>1, <1>2, <1>3 DEF NInv

-----------------------------------------------------------------------------
(* Moves that leave pools and proposals alone. *)

(* A rank that is still to hear of its commB does not have it. *)
LEMMA NotFormed ==
  ASSUME IInv, NEW r \in Processes, ~pack, pc[r] \in BKinds, pc[r] # "namespace"
  PROVE  ~Formed(Hist, at[r])
<1> DEFINE L == Local(r)
<1>1. L.at = at[r] /\ L.pc = pc[r] /\ RankInv(Hist, r, L) /\ Hist.pack = pack /\ HistRight(Hist)
  BY DEF IInv, Local, Hist
<1> HIDE DEF L
<1>2. pc[r] \in Kinds /\ pc[r] # "idle" /\ "namespace" \in Kinds
  BY DEF BKinds, Kinds
<1>3. Upto(Hist, at[r], Ord(pc[r]) - 1) \/ Upto(Hist, at[r], Ord(pc[r]))
  BY <1>1, <1>2 DEF RankInv, AtRight
<1>4. Ord(pc[r]) \in 1 .. 6
  BY Ords DEF BKinds
<1>5. ~Told(Hist, at[r], "namespace")
  BY <1>2, <1>3, <1>4, Ords DEF Upto
<1> QED BY <1>1, <1>5 DEF Formed

(* What a move that keeps to the call leaves. *)
Moved(r, x) ==
  /\ Hist' = Hist /\ minted' = minted
  /\ \A q \in Processes : q # r => Local(q)' = Local(q)
  /\ Local(r)'.at = at[r] /\ Local(r)'.shared = shared[r] /\ Local(r)'.pc = x

(* A rank asks v in the collective k of its call, and holds h so far. *)
Entering(r, k, v, h) == Enter(r, k, v) /\ here' = [here EXCEPT ![r] = h] /\ UNCHANGED result

LEMMA EnterMoves ==
  ASSUME IInv, NEW r \in Processes, Stay, NEW k, NEW v, NEW h, Entering(r, k, v, h)
  PROVE  /\ Moved(r, k) /\ Local(r)'.ask = v /\ Local(r)'.got = <<>> /\ Local(r)'.here = h
<1>1. /\ UNCHANGED <<plan, pack, at, shared, known, commAs, minted, said, result>>
      /\ pc' = [pc EXCEPT ![r] = k] /\ ask' = [ask EXCEPT ![r] = v] /\ got' = [got EXCEPT ![r] = <<>>]
      /\ here' = [here EXCEPT ![r] = h]
  BY DEF Stay, Enter, Entering, tableVars
<1>2. Domains
  BY DEF IInv
<1>3. /\ \A q \in Processes : q # r => pc'[q] = pc[q] /\ ask'[q] = ask[q] /\ got'[q] = got[q] /\ here'[q] = here[q]
      /\ pc'[r] = k /\ ask'[r] = v /\ got'[r] = <<>> /\ here'[r] = h
  BY <1>1, <1>2 DEF Domains
<1>4. Hist' = Hist
  BY <1>1 DEF Hist
<1>5. \A q \in Processes : q # r => Local(q)' = Local(q)
  BY <1>1, <1>3 DEF Local
<1> QED BY <1>1, <1>3, <1>4, <1>5 DEF Moved, Local

LEMMA ReturnMoves ==
  ASSUME IInv, NEW r \in Processes, Stay, NEW i, NEW res, Return(r, i, res)
  PROVE  Moved(r, "idle")
<1>1. /\ UNCHANGED <<plan, pack, at, shared, known, commAs, minted, said>>
      /\ pc' = [pc EXCEPT ![r] = "idle"] /\ ask' = [ask EXCEPT ![r] = <<>>]
      /\ got' = [got EXCEPT ![r] = <<>>] /\ here' = [here EXCEPT ![r] = Nothing]
      /\ result' = [result EXCEPT ![r][i] = res]
  BY DEF Stay, Return, tableVars
<1>2. Domains
  BY DEF IInv
<1>3. /\ \A q \in Processes : q # r => pc'[q] = pc[q] /\ ask'[q] = ask[q] /\ got'[q] = got[q] /\ here'[q] = here[q]
      /\ pc'[r] = "idle"
  BY <1>1, <1>2 DEF Domains
<1>4. \A q \in Processes : q # r => result'[q] = result[q]
  BY <1>1, <1>2 DEF Domains
<1>5. Hist' = Hist
  BY <1>1 DEF Hist
<1>6. \A q \in Processes : q # r => Local(q)' = Local(q)
  BY <1>1, <1>3, <1>4 DEF Local
<1> QED BY <1>1, <1>3, <1>5, <1>6 DEF Moved, Local

(* A move that does not touch the forming of commB. *)
LEMMA CalmStep ==
  ASSUME IInv, NInv, NEW r \in Processes, NEW x, Moved(r, x), x \notin {"lsa", "namespace"},
         ~pack => ((x \in BKinds <=> pc[r] \in BKinds) \/ ~Formed(Hist, at[r]))
  PROVE  NInv'
<1> DEFINE L == Local(r)
           M == Local(r)'
<1>1. /\ L.at = at[r] /\ L.pc = pc[r] /\ L.shared = shared[r] /\ M.at = at[r] /\ M.shared = shared[r] /\ M.pc = x
  BY DEF Local, Moved
<1>2. ~pack => SpacesOf(Hist, r, L)
  BY DEF NInv
<1>3. Hist' = Hist /\ minted' = minted /\ \A q \in Processes : q # r => Local(q)' = Local(q)
  BY DEF Moved
<1> HIDE DEF L, M
<1>4. ~pack => \A j \in CallsOf(Hist) : Holds(Hist, r, M, j) <=> Holds(Hist, r, L, j)
  BY <1>1 DEF Holds
<1>5. ~pack => SpacesOf(Hist, r, M)
  BY <1>1, <1>2, <1>4, Calm
<1> QED BY <1>3, <1>5, SpacesStep DEF M

LEMMA CalmMoves ==
  ASSUME IInv, NInv, NEW r \in Processes, ParentsVoted(r) \/ LanesHeard(r) \/ PoolVoted(r)
  PROVE  NInv'
<1>1. /\ pc[r] \in {"fullParents", "lanes", "pool"} /\ Stay
      /\ \/ \E i, res : Return(r, i, res)
         \/ \E k \in {"lanes", "pool", "fullB"} : \E v, h : Entering(r, k, v, h)
  <2>1. CASE ParentsVoted(r)
    BY <2>1, KeepsHere DEF ParentsVoted, After, Fail, Entering
  <2>2. CASE LanesHeard(r)
    <3>1. pc[r] = "lanes" /\ Stay
      BY <2>2 DEF LanesHeard, After
    <3>2. CASE ~OneLane(r)
      BY <2>2, <3>1, <3>2 DEF LanesHeard
    <3>3. CASE OneLane(r)
      <4> DEFINE v == [has |-> IsGen(r) /\ Reusable(r, MyCall(r)) # 0,
                       missing |-> IsGen(r) /\ Reusable(r, MyCall(r)) = 0]
                 x == IF pack THEN Heard(r)[MyCall(r).gens[1]] ELSE -1
                 h == [here[r] EXCEPT !.lane = x]
      <4>1. Enter(r, "pool", v) /\ UNCHANGED result /\ here' = [here EXCEPT ![r].lane = x]
        BY <2>2, <3>3 DEF LanesHeard
      <4>2. Entering(r, "pool", v, h)
        BY <4>1 DEF Entering
      <4> HIDE DEF v, h, x
      <4> QED BY <3>1, <4>2
    <3> QED BY <3>2, <3>3
  <2>3. CASE PoolVoted(r)
    <3>1. pc[r] = "pool" /\ Stay
      BY <2>3 DEF PoolVoted, After
    <3>2. CASE Partial(r)
      BY <2>3, <3>1, <3>2 DEF PoolVoted
    <3>3. CASE ~Partial(r)
      <4> DEFINE v == IF FindShared(r, MyCall(r)) = 0 /\ Len(shared[r]) >= MaxEntries THEN 1 ELSE 0
                 x == Has(r) /\ ~Missing(r)
                 h == [here[r] EXCEPT !.reuse = x]
      <4>1. Enter(r, "fullB", v) /\ UNCHANGED result /\ here' = [here EXCEPT ![r].reuse = x]
        BY <2>3, <3>3 DEF PoolVoted
      <4>2. Entering(r, "fullB", v, h)
        BY <4>1 DEF Entering
      <4> HIDE DEF v, h, x
      <4> QED BY <3>1, <4>2
    <3> QED BY <3>2, <3>3
  <2> QED BY <2>1, <2>2, <2>3
<1>2. PICK x \in {"idle", "lanes", "pool", "fullB"} : Moved(r, x)
  <2>1. CASE \E i, res : Return(r, i, res)
    BY <1>1, <2>1, ReturnMoves
  <2>2. CASE \E k \in {"lanes", "pool", "fullB"} : \E v, h : Entering(r, k, v, h)
    BY <1>1, <2>2, EnterMoves
  <2> QED BY <1>1, <2>1, <2>2
<1>3. ~pack => ~Formed(Hist, at[r])
  BY <1>1, NotFormed DEF BKinds
<1> QED BY <1>2, <1>3, CalmStep

LEMMA CalmMovesA ==
  ASSUME IInv, NInv, NEW r \in Processes, AVoted(r) \/ CommASplit(r)
  PROVE  NInv'
<1>1. /\ pc[r] \in {"fullA", "splitA"} /\ Stay
      /\ \/ \E i, res : Return(r, i, res)
         \/ \E k \in {"splitA", "srcLsa"} : \E v, h : Entering(r, k, v, h)
  <2>1. CASE AVoted(r)
    BY <2>1, KeepsHere DEF AVoted, After, Fail, Entering
  <2>2. CASE CommASplit(r)
    <3> DEFINE v == IF IsSrc(r) THEN LsaSize ELSE 0
               x == IF InA(r, MyCall(r)) THEN Fresh(r) ELSE 0
               h == [here[r] EXCEPT !.commA = x]
    <3>1. pc[r] = "splitA" /\ Stay /\ Enter(r, "srcLsa", v) /\ UNCHANGED result /\ here' = [here EXCEPT ![r].commA = x]
      BY <2>2 DEF CommASplit, After
    <3>2. Entering(r, "srcLsa", v, h)
      BY <3>1 DEF Entering
    <3> HIDE DEF v, h, x
    <3> QED BY <3>1, <3>2
  <2> QED BY <2>1, <2>2
<1>2. PICK x \in {"idle", "splitA", "srcLsa"} : Moved(r, x)
  <2>1. CASE \E i, res : Return(r, i, res)
    BY <1>1, <2>1, ReturnMoves
  <2>2. CASE \E k \in {"splitA", "srcLsa"} : \E v, h : Entering(r, k, v, h)
    BY <1>1, <2>2, EnterMoves
  <2> QED BY <1>1, <2>1, <2>2
<1>3. x \notin BKinds /\ pc[r] \notin BKinds
  BY <1>1, <1>2 DEF BKinds
<1> QED BY <1>2, <1>3, CalmStep

-----------------------------------------------------------------------------
(* Moves within the forming of commB. *)

(* A move within the forming of commB. *)
LEMMA BusyStep ==
  ASSUME IInv, NInv, NEW r \in Processes, NEW x, Moved(r, x), x \in BKinds, pc[r] \in BKinds,
         ~pack => OwnerRight(Hist, r, Local(r)') /\ ProposedRight(Hist, r, Local(r)')
  PROVE  NInv'
<1> DEFINE L == Local(r)
           M == Local(r)'
<1>1. /\ L.at = at[r] /\ L.pc = pc[r] /\ L.shared = shared[r] /\ M.at = at[r] /\ M.shared = shared[r] /\ M.pc = x
  BY DEF Local, Moved
<1>2. ~pack => SpacesOf(Hist, r, L)
  BY DEF NInv
<1>3. Hist' = Hist /\ minted' = minted /\ \A q \in Processes : q # r => Local(q)' = Local(q)
  BY DEF Moved
<1>4. ~pack => OwnerRight(Hist, r, M) /\ ProposedRight(Hist, r, M)
  OBVIOUS
<1> HIDE DEF L, M
<1>5. \A j \in CallsOf(Hist) : Holds(Hist, r, M, j) <=> Holds(Hist, r, L, j)
  BY <1>1 DEF Holds
<1>6. \A o \in CallsOf(Hist) : \A pool : PoolOf(Hist, r, L, o, pool) => PoolOf(Hist, r, M, o, pool)
  BY <1>5 DEF PoolOf
<1>7. ASSUME ~pack PROVE SpacesOf(Hist, r, M)
  <2>1. PoolRight(Hist, r, M)
    BY <1>1, <1>2, <1>5, <1>6, <1>7 DEF PoolRight, SpacesOf
  <2>2. OncePer(M)
    BY <1>1, <1>2, <1>7 DEF OncePer, SpacesOf
  <2> QED BY <1>4, <1>7, <2>1, <2>2 DEF SpacesOf
<1> QED BY <1>3, <1>7, SpacesStep DEF M

LEMMA SpacesSharedVoted ==
  ASSUME SplitAssumption, IInv, NInv, NEW r \in Processes, SharedVoted(r)
  PROVE  NInv'
<1> DEFINE i == at[r]
           L == Local(r)
           M == Local(r)'
<1>1. After(r, "fullB") /\ Stay /\ "fullB" \in Kinds /\ "fullB" \in BKinds
  BY DEF SharedVoted, Kinds, BKinds
<1>2. /\ Base(Hist, i, "fullB") /\ pc[r] = "fullB" /\ Hist.plan = plan /\ HereRight(Hist, r, L)
      /\ L.at = i /\ L.pc = "fullB" /\ L.here = here[r] /\ L.shared = shared[r]
  BY <1>1, HeardFacts DEF Local
<1>3. ~pack => ~Formed(Hist, i)
  BY <1>1, <1>2, NotFormed
<1>4. CASE MaxHeard(r) = 1
  <2>1. Return(r, at[r], Failed)
    BY <1>4 DEF SharedVoted, Fail
  <2>2. Moved(r, "idle")
    BY <1>1, <2>1, ReturnMoves
  <2> QED BY <1>3, <2>2, CalmStep
<1>5. CASE MaxHeard(r) # 1 /\ ~here[r].reuse
  <2>1. Enter(r, "splitB", 0) /\ UNCHANGED <<here, result>>
    BY <1>5 DEF SharedVoted
  <2>2. Entering(r, "splitB", 0, here[r])
    BY <2>1, KeepsHere DEF Entering
  <2>3. Moved(r, "splitB")
    BY <1>1, <2>2, EnterMoves
  <2> QED BY <1>3, <2>3, CalmStep
<1>6. CASE MaxHeard(r) # 1 /\ here[r].reuse
  <2> DEFINE n == Reusable(r, MyCall(r))
             v == IF IsGen(r) THEN shared[r][n].lsa ELSE 0
             h == IF IsGen(r) THEN OnB(here[r], shared[r][n].commB, shared[r][n].owner) ELSE here[r]
  <2>1. /\ Enter(r, "lsa", v) /\ UNCHANGED <<result>>
        /\ here' = IF IsGen(r) THEN [here EXCEPT ![r] = OnB(here[r], shared[r][n].commB, shared[r][n].owner)]
                               ELSE here
    BY <1>6 DEF SharedVoted
  <2>2. Entering(r, "lsa", v, h)
    BY <2>1, KeepsHere DEF Entering
  <2>3. IsGen(r) => h.owner = shared[r][n].owner
    <3> HIDE DEF n
    <3> QED BY HereShape, SetOnB
  <2>4. r \in Gens(Hist.plan[i]) <=> IsGen(r)
    BY <1>2 DEF IsGen, MyCall, Gens
  <2> HIDE DEF v, h, n
  <2>5. Moved(r, "lsa") /\ M.here = h
    BY <1>1, <2>2, EnterMoves
  <2>6. M.at = i /\ M.pc = "lsa" /\ M.shared = shared[r]
    BY <2>5 DEF Moved
  <2> HIDE DEF M, L
  <2>7. Told(Hist, i, "pool") /\ Reuses(Hist, i)
    BY <1>2, <1>6 DEF Base, HereRight
  <2>8. ASSUME ~pack, IsGen(r)
        PROVE  /\ h.owner \in DOMAIN shared[r] /\ Holds(Hist, r, M, Root(Hist, i))
               /\ EntryOf(Hist, r, Root(Hist, i), shared[r][h.owner])
    <3>1. PICK o \in CallsOf(Hist) :
            /\ Owns(Hist, r, o, i) /\ Holds(Hist, r, L, o) /\ Root(Hist, i) = o
            /\ n \in DOMAIN shared[r] /\ EntryOf(Hist, r, o, shared[r][n])
      BY <1>1, <1>2, <2>7, <2>8, ReusesOwner DEF n, L
    <3>2. r \in Gens(Hist.plan[o]) /\ ~Reuses(Hist, o)
      BY <2>4, <2>8, <3>1 DEF Owns, Gens
    <3>3. shared[r][n].owns
      BY <3>1, <3>2 DEF EntryOf
    <3>4. OncePer(L)
      BY <2>8 DEF NInv, SpacesOf, L
    <3>5. h.owner = n
      BY <1>2, <2>3, <2>8, <3>1, <3>3, <3>4 DEF OncePer
    <3>6. Holds(Hist, r, M, o)
      BY <1>1, <1>2, <2>6, <3>1 DEF Holds, BKinds
    <3> QED BY <3>1, <3>5, <3>6
  <2>9. ~pack => OwnerRight(Hist, r, M) /\ ProposedRight(Hist, r, M)
    BY <2>4, <2>5, <2>6, <2>7, <2>8 DEF OwnerRight, ProposedRight
  <2>10. "lsa" \in BKinds /\ pc[r] \in BKinds
    BY <1>1, <1>2 DEF BKinds
  <2> QED BY <2>5, <2>9, <2>10, BusyStep DEF M
<1> QED BY <1>4, <1>5, <1>6

LEMMA SpacesCommBSplit ==
  ASSUME IInv, NInv, NEW r \in Processes, CommBSplit(r)
  PROVE  NInv'
<1> DEFINE i == at[r]
           M == Local(r)'
           v == IF IsGen(r) THEN LsaSize ELSE 0
           h == IF IsGen(r) THEN OnB(here[r], Fresh(r), Len(shared[r]) + 1) ELSE here[r]
<1>1. After(r, "splitB") /\ Stay /\ "splitB" \in Kinds /\ "splitB" \in BKinds /\ "lsa" \in BKinds
  BY DEF CommBSplit, Kinds, BKinds
<1>2. Base(Hist, i, "splitB") /\ pc[r] = "splitB" /\ Hist.plan = plan
  BY <1>1, HeardFacts
<1>3. /\ Enter(r, "lsa", v) /\ UNCHANGED result
      /\ here' = IF IsGen(r) THEN [here EXCEPT ![r] = OnB(here[r], Fresh(r), Len(shared[r]) + 1)] ELSE here
  BY DEF CommBSplit
<1>4. Entering(r, "lsa", v, h)
  BY <1>3, KeepsHere DEF Entering
<1>5. IsGen(r) => h.owner = Len(shared[r]) + 1
  BY HereShape, SetOnB
<1>6. r \in Gens(Hist.plan[i]) <=> IsGen(r)
  BY <1>2 DEF IsGen, MyCall, Gens
<1> HIDE DEF v, h
<1>7. Moved(r, "lsa") /\ M.here = h
  BY <1>1, <1>4, EnterMoves
<1>8. M.at = i /\ M.pc = "lsa" /\ M.shared = shared[r]
  BY <1>7 DEF Moved
<1> HIDE DEF M
<1>9. ~Reuses(Hist, i)
  BY <1>2 DEF Base
<1>10. OwnerRight(Hist, r, M) /\ ProposedRight(Hist, r, M)
  BY <1>5, <1>6, <1>7, <1>8, <1>9 DEF OwnerRight, ProposedRight
<1> QED BY <1>1, <1>2, <1>7, <1>10, BusyStep DEF M

LEMMA SpacesLsaHeardPipe ==
  ASSUME IInv, NInv, NEW r \in Processes, LsaHeardPipe(r)
  PROVE  NInv'
<1> DEFINE i == at[r]
           L == Local(r)
           M == Local(r)'
           x == MaxHeard(r)
           h == [here[r] EXCEPT !.lsa = x]
           v == Proposal(r)
<1>1. After(r, "lsa") /\ Stay /\ "lsa" \in Kinds /\ "lsa" \in BKinds /\ "namespace" \in BKinds /\ ~pack
  BY DEF LsaHeardPipe, Kinds, BKinds
<1>2. pc[r] = "lsa" /\ Hist.plan = plan
  BY <1>1, HeardFacts
<1>3. Enter(r, "namespace", v) /\ UNCHANGED result /\ here' = [here EXCEPT ![r].lsa = x]
  BY DEF LsaHeardPipe
<1>4. Entering(r, "namespace", v, h)
  BY <1>3 DEF Entering
<1>5. h.owner = here[r].owner /\ h.reuse = here[r].reuse
  <2> HIDE DEF x
  <2>1. IsHere(here[r]) /\ h = [here[r] EXCEPT !.lsa = x]
    BY HereShape
  <2> QED BY <2>1, SetLsa
<1> HIDE DEF h, x, v
<1>6. Moved(r, "namespace") /\ M.here = h /\ M.ask = v /\ M.got = <<>>
  <2> HIDE DEF M, L, i
  <2>1. /\ Moved(r, "namespace")
        /\ Local(r)'.ask = v /\ Local(r)'.got = <<>> /\ Local(r)'.here = h
    BY <1>1, <1>4, EnterMoves
  <2> QED BY <2>1 DEF M
<1>7. /\ M.at = i /\ M.pc = "namespace" /\ M.shared = shared[r]
      /\ L.at = i /\ L.pc = "lsa" /\ L.shared = shared[r] /\ L.here = here[r]
  BY <1>2, <1>6 DEF Moved, Local
<1>8. OwnerRight(Hist, r, L)
  BY <1>1 DEF NInv, SpacesOf
<1> HIDE DEF M, L
<1>9. \A j : Holds(Hist, r, M, j) <=> Holds(Hist, r, L, j)
  BY <1>1, <1>7 DEF Holds
<1>10. OwnerRight(Hist, r, M)
  BY <1>5, <1>6, <1>7, <1>8, <1>9 DEF OwnerRight
<1>11. ProposalOf(Hist, r, M) = v
  BY <1>2, <1>5, <1>6, <1>7 DEF v, ProposalOf, Proposal, IsGen, MyCall, Gens
<1>12. ProposedRight(Hist, r, M)
  BY <1>6, <1>11 DEF ProposedRight
<1> QED BY <1>1, <1>2, <1>6, <1>10, <1>12, BusyStep DEF M

-----------------------------------------------------------------------------

LEMMA SpacesStartCall ==
  ASSUME SplitAssumption, IInv, NInv, NEW r \in Processes, StartCall(r)
  PROVE  NInv'
<1> DEFINE i == NextStep(r)
           M == Local(r)'
           L == Local(r)
<1>1. /\ Hist' = Hist /\ minted' = minted
      /\ \A q \in Processes : q # r => Local(q)' = Local(q)
      /\ M.at = i /\ M.shared = shared[r] /\ M.pc \in {"idle", "fullA", "fullParents"}
  BY NextStartCall
<1>2. \A N : N.at = i => \A j \in CallsOf(Hist) : Holds(Hist, r, N, j) <=> Holds(Hist, r, Local(r), j)
  BY Arriving DEF StartCall
<1>3. ~pack => SpacesOf(Hist, r, L)
  BY DEF NInv
<1>4. L.shared = shared[r]
  BY DEF Local
<1>5. \A j \in CallsOf(Hist) : Holds(Hist, r, M, j) <=> Holds(Hist, r, L, j)
  BY <1>1, <1>2
<1> HIDE DEF M, L
<1>6. ~pack => SpacesOf(Hist, r, M)
  BY <1>1, <1>3, <1>4, <1>5, Calm
<1> QED BY <1>1, <1>6, SpacesStep DEF M

LEMMA SpacesRestart ==
  ASSUME SplitAssumption, IInv, NInv, NEW r \in Processes, Restart(r)
  PROVE  NInv'
<1> DEFINE M == Local(r)'
<1>1. /\ Hist' = Hist /\ minted' = minted
      /\ \A q \in Processes : q # r => Local(q)' = Local(q)
      /\ M.shared = <<>> /\ M.pc = "idle"
  BY NextRestart
<1> HIDE DEF M
<1>2. DOMAIN M.shared = {}
  BY <1>1, EmptyList
<1>3. SpacesOf(Hist, r, M)
  BY <1>1, <1>2 DEF SpacesOf, PoolRight, OwnerRight, ProposedRight, OncePer
<1> QED BY <1>1, <1>3, SpacesStep DEF M

LEMMA SpacesSrcLsaHeard ==
  ASSUME SplitAssumption, IInv, NInv, NEW r \in Processes, SrcLsaHeard(r)
  PROVE  NInv'
<1>1. Moved(r, "idle")
  BY NextSrcLsaHeard DEF Moved
<1>2. pc[r] \notin BKinds /\ "idle" \notin BKinds
  BY DEF SrcLsaHeard, After, BKinds
<1> QED BY <1>1, <1>2, CalmStep

(* With the copy algorithm PACK there are no namespaces. *)
LEMMA SpacesSame ==
  ASSUME NInv, pack, UNCHANGED <<plan, pack, said, minted>>
  PROVE  NInv'
<1>1. Hist' = Hist
  BY DEF Hist
<1> QED BY <1>1 DEF NInv

-----------------------------------------------------------------------------
(* The pool of a commB, before and after a namespace is committed. *)

(* A rank comes to hold the commB of its step i. *)
Gains(H, r, L, M, i) ==
  /\ HistRight(H) /\ i \in CallsOf(H) /\ Formed(H, i)
  /\ \A j \in CallsOf(H) : /\ Holds(H, r, M, j) <=> (Holds(H, r, L, j) \/ j = i)
                           /\ Holds(H, r, L, j) => j < i

(* Pools of other commBs. *)
LEMMA PoolStays ==
  ASSUME NEW H, NEW r, NEW L, NEW M, NEW i, Gains(H, r, L, M, i), NEW o, NEW pool,
         PoolOf(H, r, L, o, pool), Root(H, i) # o
  PROVE  PoolOf(H, r, M, o, pool)
<1>1. Listed(pool)
  BY DEF PoolOf
<1>2. ASSUME NEW x \in DOMAIN pool
      PROVE  \E b \in CallsOf(H) :
               Holds(H, r, M, b) /\ Root(H, b) = o /\ NsOf(H, b) = x - 1 /\ H.plan[b].parent = pool[x]
  BY DEF PoolOf, Gains
<1>3. ASSUME NEW b \in CallsOf(H), Holds(H, r, M, b), Root(H, b) = o
      PROVE  NsOf(H, b) + 1 \in DOMAIN pool /\ pool[NsOf(H, b) + 1] = H.plan[b].parent
  <2>1. Holds(H, r, L, b)
    BY <1>3 DEF Gains
  <2> QED BY <1>3, <2>1 DEF PoolOf
<1> QED BY <1>1, <1>2, <1>3 DEF PoolOf

(* The first namespace of a commB that was split. *)
LEMMA PoolStarts ==
  ASSUME SplitAssumption, NEW H, NEW r, NEW L, NEW M, NEW i, Gains(H, r, L, M, i), ~Reuses(H, i),
         NEW ns, ns = NsOf(H, i), ns = Propose(<<>>, H.plan[i].parent), ns >= 0
  PROVE  PoolOf(H, r, M, i, Commit(<<>>, H.plan[i].parent, ns))
<1> DEFINE p == H.plan[i].parent
           pool == Append(<<>>, p)
<1>1. Listed(<<>>) /\ Len(<<>>) = 0 /\ DOMAIN <<>> = {}
  BY EmptyList
<1>2. ns \in Nat /\ (ns + 1 \in DOMAIN <<>> \/ ns = Len(<<>>))
  BY <1>1, Proposed
<1>3. ns = 0 /\ Commit(<<>>, p, ns) = pool
  BY <1>1, <1>2 DEF Commit
<1>4. Listed(pool) /\ DOMAIN pool = 1 .. 1 /\ pool[1] = p
  <2>1. ASSUME NEW s, Listed(s), Len(s) = 0
        PROVE  Listed(Append(s, p)) /\ DOMAIN Append(s, p) = 1 .. 1 /\ Append(s, p)[1] = p
    <3>1. /\ Listed(Append(s, p)) /\ DOMAIN Append(s, p) = 1 .. Len(s) + 1
          /\ Append(s, p)[Len(s) + 1] = p
      BY <2>1, ListAppend
    <3> QED BY <2>1, <3>1
  <2> QED BY <1>1, <2>1
<1> HIDE DEF pool
<1>5. Root(H, i) = i /\ i \in CallsOf(H) /\ HistRight(H) /\ H.plan \in Plans
  BY DEF Root, Gains, HistRight
<1>6. ASSUME NEW x \in DOMAIN pool
      PROVE  \E b \in CallsOf(H) :
               Holds(H, r, M, b) /\ Root(H, b) = i /\ NsOf(H, b) = x - 1 /\ H.plan[b].parent = pool[x]
  <2>1. x = 1
    BY <1>4
  <2>2. Holds(H, r, M, i)
    BY <1>5 DEF Gains
  <2>3. NsOf(H, i) = x - 1 /\ H.plan[i].parent = pool[x]
    BY <1>3, <1>4, <2>1
  <2> QED BY <1>5, <2>2, <2>3
<1>7. ASSUME NEW b \in CallsOf(H), Holds(H, r, M, b), Root(H, b) = i
      PROVE  NsOf(H, b) + 1 \in DOMAIN pool /\ pool[NsOf(H, b) + 1] = H.plan[b].parent
  <2>1. b = i
    <3> SUFFICES ASSUME b # i PROVE FALSE
      OBVIOUS
    <3>1. Holds(H, r, L, b) /\ b < i
      BY <1>7 DEF Gains
    <3>2. Formed(H, b)
      BY <3>1 DEF Holds
    <3>3. i <= b
      BY <1>5, <1>7, <3>2, FormedTold, RootFacts
    <3>4. b \in Nat /\ i \in Nat
      BY <1>5, PlanFacts
    <3> QED BY <3>1, <3>3, <3>4
  <2>2. NsOf(H, b) = ns
    BY <2>1
  <2>3. H.plan[b].parent = p
    BY <2>1
  <2>4. ns + 1 = 1
    BY <1>3
  <2> QED BY <1>4, <2>2, <2>3, <2>4
<1>8. PoolOf(H, r, M, i, pool)
  BY <1>4, <1>6, <1>7 DEF PoolOf
<1> QED BY <1>3, <1>8

(* One more namespace of a commB that is used again. *)
LEMMA PoolGrows ==
  ASSUME SplitAssumption, NEW H, NEW r, NEW L, NEW M, NEW i, Gains(H, r, L, M, i), L.at = i,
         SpacesOf(H, r, L), L.pc = "namespace", r \in Gens(H.plan[i]), Reuses(H, i),
         L.here.reuse = Reuses(H, i),
         NEW ns, ns = NsOf(H, i), ns = ProposalOf(H, r, L), ns >= 0
  PROVE  PoolOf(H, r, M, Root(H, i), Commit(L.shared[L.here.owner].pool, H.plan[i].parent, ns))
<1> DEFINE o == Root(H, i)
           p == H.plan[i].parent
           pool == L.shared[L.here.owner].pool
           all == Commit(pool, p, ns)
<1>1. HistRight(H) /\ i \in CallsOf(H) /\ Formed(H, i) /\ Told(H, i, "pool")
  BY FormedTold DEF Gains
<1>2. /\ PoolOf(H, r, L, o, pool) /\ ns \in Nat
      /\ DOMAIN pool = 1 .. Len(pool) /\ Len(pool) \in Nat
      /\ \/ ns + 1 \in DOMAIN pool /\ pool[ns + 1] = p
         \/ ns = Len(pool) /\ \A x \in DOMAIN pool : pool[x] # p
  BY <1>1, ProposalRight, ZenonT(30)
<1> HIDE DEF pool, o, p
<1>3. Listed(pool)
  BY <1>2 DEF PoolOf
<1>4. /\ Listed(all) /\ \A x \in DOMAIN pool : x \in DOMAIN all /\ all[x] = pool[x]
      /\ \A x \in DOMAIN all : x \in DOMAIN pool \/ (x = ns + 1 /\ all[x] = p)
      /\ ns + 1 \in DOMAIN all /\ all[ns + 1] = p
  <2>1. CASE ns + 1 \in DOMAIN pool /\ pool[ns + 1] = p
    <3>1. ns # Len(pool)
      BY <1>2, <2>1
    <3>2. all = pool
      BY <3>1 DEF Commit
    <3> QED BY <1>3, <2>1, <3>2
  <2>2. CASE ns = Len(pool)
    <3>1. all = Append(pool, p)
      BY <2>2 DEF Commit
    <3>2. /\ Listed(Append(pool, p)) /\ DOMAIN Append(pool, p) = 1 .. Len(pool) + 1
          /\ \A x \in DOMAIN pool : Append(pool, p)[x] = pool[x]
          /\ Append(pool, p)[Len(pool) + 1] = p
      BY <1>3, ListAppend
    <3> HIDE DEF all
    <3> QED BY <1>2, <2>2, <3>1, <3>2
  <2> QED BY <1>2, <2>1, <2>2
<1> HIDE DEF all
<1>5. Holds(H, r, M, i) /\ Root(H, i) = o /\ NsOf(H, i) = ns /\ H.plan[i].parent = p
  BY <1>1 DEF Gains, o, p
<1>6. ASSUME NEW x \in DOMAIN all
      PROVE  \E b \in CallsOf(H) :
               Holds(H, r, M, b) /\ Root(H, b) = o /\ NsOf(H, b) = x - 1 /\ H.plan[b].parent = all[x]
  <2>1. CASE x \in DOMAIN pool
    <3>1. PICK b \in CallsOf(H) :
            Holds(H, r, L, b) /\ Root(H, b) = o /\ NsOf(H, b) = x - 1 /\ H.plan[b].parent = pool[x]
      BY <1>2, <2>1 DEF PoolOf
    <3>2. Holds(H, r, M, b)
      BY <3>1 DEF Gains
    <3> QED BY <1>4, <2>1, <3>1, <3>2
  <2>2. CASE x = ns + 1 /\ all[x] = p
    <3>1. x - 1 = ns
      BY <1>2, <2>2
    <3> QED BY <1>1, <1>5, <2>2, <3>1
  <2> QED BY <1>4, <2>1, <2>2
<1>7. ASSUME NEW b \in CallsOf(H), Holds(H, r, M, b), Root(H, b) = o
      PROVE  NsOf(H, b) + 1 \in DOMAIN all /\ all[NsOf(H, b) + 1] = H.plan[b].parent
  <2>1. CASE b = i
    BY <1>4, <1>5, <2>1
  <2>2. CASE b # i
    <3>1. Holds(H, r, L, b)
      BY <1>7, <2>2 DEF Gains
    <3>2. NsOf(H, b) + 1 \in DOMAIN pool /\ pool[NsOf(H, b) + 1] = H.plan[b].parent
      BY <1>2, <1>7, <3>1 DEF PoolOf
    <3> QED BY <1>4, <3>2
  <2> QED BY <2>1, <2>2
<1>8. PoolOf(H, r, M, o, all)
  BY <1>4, <1>6, <1>7 DEF PoolOf
<1> QED BY <1>8 DEF o, p, pool, all

-----------------------------------------------------------------------------
(* The namespaces were heard. *)

(* The table of a rank after it stores the commB of its step. *)
LEMMA StoredSpaces ==
  ASSUME SplitAssumption,
         IInv, NInv, ~pack, NEW r \in Processes, NEW i, i = at[r], NEW L, L = Local(r), NEW M, NEW ns,
         pc[r] = "namespace", Gains(Hist, r, L, M, i), r \in Members(plan[i]),
         ns = NsOf(Hist, i), ns >= 0, here[r].reuse = Reuses(Hist, i),
         r \in Gens(plan[i]) => ns = ProposalOf(Hist, r, L),
         NEW on, NEW lsa, EntryOf(Hist, r, i, Entry(r, ns, on, lsa)),
         M.shared = Table(r, ns, on, lsa), M.pc \notin {"lsa", "namespace"}
  PROVE  SpacesOf(Hist, r, M)
<1> DEFINE H == Hist
           e == Entry(r, ns, on, lsa)
           t == M.shared
           s == shared[r]
           w == here[r].owner
<1>1. /\ L.at = i /\ L.pc = "namespace" /\ L.shared = s /\ L.here = here[r] /\ H.plan = plan
      /\ SpacesOf(H, r, L) /\ HistRight(H) /\ RankInv(H, r, L) /\ MyCall(r) = plan[i]
  BY DEF Local, IInv, NInv, Hist, MyCall
<1>2. Stored(s)
  BY <1>1 DEF RankInv, RankTypes
<1>3. /\ Stored(t) /\ DOMAIN t = 1 .. Len(s) + 1 /\ DOMAIN s = 1 .. Len(s) /\ Len(s) \in Nat
      /\ \A n \in DOMAIN s : Alike(s[n], t[n])
      /\ Alike(e, t[Len(s) + 1])
      /\ \A n \in DOMAIN s : t[n].pool =
           IF IsGen(r) /\ n = w THEN Commit(s[n].pool, plan[i].parent, ns) ELSE s[n].pool
      /\ t[Len(s) + 1].pool =
           IF IsGen(r) /\ Len(s) + 1 = w THEN Commit(e.pool, plan[i].parent, ns) ELSE e.pool
  <2>1. LET a == Kept(r, ns, on, lsa) IN
        /\ Stored(t) /\ DOMAIN t = 1 .. Len(s) + 1 /\ DOMAIN s = 1 .. Len(s) /\ Len(s) \in Nat
        /\ \A n \in DOMAIN s : Alike(s[n], t[n])
        /\ Alike(e, t[Len(s) + 1])
        /\ \A n \in DOMAIN t : t[n].pool =
             IF IsGen(r) /\ ns >= 0 /\ n = w THEN Commit(a[n].pool, MyCall(r).parent, ns) ELSE a[n].pool
        /\ \A n \in DOMAIN s : a[n] = s[n]
        /\ a[Len(s) + 1] = e
    BY <1>2, TableAlike
  <2>2. Len(s) + 1 \in DOMAIN t /\ \A n \in DOMAIN s : n \in DOMAIN t
    BY <2>1
  <2> HIDE DEF e, t, s, w
  <2> QED BY <1>1, <2>1, <2>2
<1>4. /\ e.geometry = Geometry(plan[i]) /\ e.owner = w /\ e.pool = <<>>
      /\ e.owns = (IsGen(r) /\ ~here[r].reuse)
  BY <1>1 DEF Entry
<1>5. IsGen(r) <=> r \in Gens(plan[i])
  BY <1>1 DEF IsGen, Gens
<1>6. EntryOf(H, r, i, e)
  OBVIOUS
<1>6b. Gains(H, r, L, M, i) /\ r \in Members(H.plan[i])
  BY <1>1
<1> HIDE DEF e, t, s, w, H
<1>7. i \in CallsOf(H) /\ Formed(H, i) /\ i \in Nat /\ L.at \in Nat
  <2>1. i \in CallsOf(H) /\ Formed(H, i)
    BY <1>6b DEF Gains
  <2>2. H.plan \in Plans
    BY <1>1 DEF HistRight
  <2>3. i \in Nat
    BY <2>1, <2>2, PlanFacts
  <2> QED BY <1>1, <2>1, <2>3
<1>8. Told(H, i, "pool")
  BY <1>1, <1>7, FormedTold
<1>9. \A n \in DOMAIN s : s[n].geometry # Geometry(plan[i])
  <2>1. SharedRight(H, r, L)
    BY <1>1 DEF RankInv
  <2> SUFFICES ASSUME NEW n \in DOMAIN s, s[n].geometry = Geometry(plan[i]) PROVE FALSE
    OBVIOUS
  <2>2. PICK j \in CallsOf(H) : Holds(H, r, L, j) /\ EntryOf(H, r, j, s[n])
    BY <1>1, <2>1 DEF SharedRight
  <2>3. SameGeometry(H, j, i) /\ j < i
    BY <1>1, <2>2 DEF EntryOf, SameGeometry, Gains, H
  <2>4. Source(H, j, i)
    <3>1. j \in Nat /\ Formed(H, j) /\ Whole(H, {r}, j, i)
      BY <1>1, <2>2, PlanFacts DEF Holds, HistRight
    <3>2. Whole(H, Members(H.plan[i]), j, i)
      <4>1. H.plan \in Plans /\ j <= i
        BY <1>1, <1>7, <2>3, <3>1 DEF HistRight
      <4> QED BY <1>6b, <1>7, <2>3, <3>1, <4>1, WholeRank
    <3> QED BY <1>7, <2>3, <3>1, <3>2 DEF Source
  <2> QED BY <1>1, <1>7, <2>3, <2>4, FormedTold DEF KnownBefore
<1>10. OncePer(M)
  <2>1. OncePer(L)
    BY <1>1 DEF SpacesOf
  <2>2. ASSUME NEW n \in DOMAIN t, NEW m \in DOMAIN t, t[n].geometry = t[m].geometry PROVE n = m
    <3>1. \A x \in DOMAIN s : t[x].geometry = s[x].geometry
      BY <1>3 DEF Alike
    <3>2. t[Len(s) + 1].geometry = Geometry(plan[i])
      BY <1>3, <1>4 DEF Alike
    <3>3. \A x \in DOMAIN s : x # Len(s) + 1 /\ t[x].geometry # t[Len(s) + 1].geometry
      BY <1>3, <1>9, <3>1, <3>2
    <3>4. \A x \in DOMAIN t : x \in DOMAIN s \/ x = Len(s) + 1
      BY <1>3
    <3> QED BY <1>1, <2>1, <2>2, <3>1, <3>3, <3>4 DEF OncePer
  <2>3. ASSUME NEW n \in DOMAIN t, t[n].owns PROVE t[n].owner = n
    <3>1. CASE n \in DOMAIN s
      BY <1>1, <1>3, <2>1, <2>3, <3>1 DEF OncePer, Alike
    <3>2. CASE n = Len(s) + 1
      <4>1. e.owns /\ t[n].owner = w
        BY <1>3, <1>4, <2>3, <3>2 DEF Alike
      <4>2. r \in Gens(plan[i]) /\ ~Reuses(H, i)
        BY <1>4, <1>5, <4>1 DEF H
      <4>3. w = Len(s) + 1
        BY <1>1, <4>2 DEF SpacesOf, OwnerRight, w
      <4> QED BY <3>2, <4>1, <4>3
    <3> QED BY <1>3, <3>1, <3>2
  <2> QED BY <2>2, <2>3 DEF OncePer, t
<1>11. ASSUME NEW n \in DOMAIN t, NEW o \in CallsOf(H), Holds(H, r, M, o), EntryOf(H, r, o, t[n]), t[n].owns
       PROVE  PoolOf(H, r, M, o, t[n].pool)
  <2>1. CASE n = Len(s) + 1
    <3>1. t[n].geometry = Geometry(plan[i]) /\ e.owns
      BY <1>3, <1>4, <1>11, <2>1 DEF Alike
    <3>2. o = i
      <4>1. Holds(H, r, M, i)
        BY <1>7 DEF Gains, H
      <4>2. SameGeometry(H, o, i)
        BY <1>1, <1>11, <3>1 DEF EntryOf, SameGeometry
      <4> SUFFICES ASSUME o # i PROVE FALSE
        OBVIOUS
      <4>3. Holds(H, r, L, o)
        BY <1>11 DEF Gains, H
      <4>4. PICK x \in DOMAIN s : EntryOf(H, r, o, s[x])
        BY <1>1, <1>11, <4>3 DEF RankInv, SharedRight
      <4> QED BY <1>1, <1>9, <4>2, <4>4 DEF EntryOf, SameGeometry
    <3>3. r \in Gens(plan[i]) /\ ~Reuses(H, i) /\ IsGen(r)
      BY <1>4, <1>5, <3>1 DEF H
    <3>4. w = Len(s) + 1
      BY <1>1, <3>3 DEF SpacesOf, OwnerRight, w
    <3>5. t[n].pool = Commit(<<>>, plan[i].parent, ns)
      BY <1>3, <1>4, <2>1, <3>3, <3>4
    <3>6. ns = Propose(<<>>, H.plan[i].parent)
      BY <1>1, <3>3 DEF ProposalOf, H
    <3>7. PoolOf(H, r, M, i, Commit(<<>>, H.plan[i].parent, ns))
      BY <3>3, <3>6, PoolStarts DEF H
    <3> QED BY <1>1, <3>2, <3>5, <3>7
  <2>2. CASE n \in DOMAIN s
    <3>1. s[n].geometry = Geometry(H.plan[o]) /\ s[n].owns /\ EntryOf(H, r, o, s[n])
      <4>1. Alike(t[n], s[n])
        BY <1>3, <2>2 DEF Alike
      <4>2. EntryOf(H, r, o, s[n])
        BY <1>11, <4>1, AlikeEntry
      <4> QED BY <1>11, <4>1, <4>2 DEF Alike, EntryOf
    <3>2. o # i
      BY <1>1, <1>9, <2>2, <3>1
    <3>3. Holds(H, r, L, o)
      BY <1>11, <3>2 DEF Gains, H
    <3>4. PoolOf(H, r, L, o, s[n].pool)
      BY <1>1, <2>2, <3>1, <3>3 DEF SpacesOf, PoolRight
    <3>5. r \in Gens(H.plan[o]) /\ ~Reuses(H, o)
      BY <3>1 DEF EntryOf
    <3>6. CASE IsGen(r) /\ n = w
      <4>1. Reuses(H, i)
        <5> SUFFICES ASSUME ~Reuses(H, i) PROVE FALSE
          OBVIOUS
        <5>1. w = Len(s) + 1
          BY <1>1, <1>5, <3>6 DEF SpacesOf, OwnerRight, w
        <5> QED BY <1>3, <2>2, <3>6, <5>1
      <4>2. Holds(H, r, L, Root(H, i)) /\ EntryOf(H, r, Root(H, i), s[w])
        BY <1>1, <1>5, <3>6, <4>1 DEF SpacesOf, OwnerRight, w
      <4>3. SameGeometry(H, o, Root(H, i)) /\ Root(H, i) \in CallsOf(H)
        <5>1. EntryOf(H, r, Root(H, i), s[n]) /\ Root(H, i) \in CallsWith(H, r)
          BY <3>6, <4>2 DEF Holds
        <5> QED BY <3>1, <5>1 DEF EntryOf, SameGeometry, CallsWith
      <4>4. o = Root(H, i)
        BY <1>1, <1>7, <3>3, <4>2, <4>3, HoldsOnce
      <4>5. L.here.owner = w /\ L.here.reuse = Reuses(H, i)
        BY <1>1 DEF w, H
      <4>6. r \in Gens(H.plan[i]) /\ ns = ProposalOf(H, r, L) /\ ns = NsOf(H, i) /\ Gains(H, r, L, M, i)
        BY <1>1, <1>5, <3>6 DEF H
      <4>7. PoolOf(H, r, M, Root(H, i), Commit(L.shared[L.here.owner].pool, H.plan[i].parent, ns))
        BY <1>1, <4>1, <4>5, <4>6, PoolGrows
      <4>8. t[n].pool = Commit(s[w].pool, plan[i].parent, ns)
        BY <1>3, <2>2, <3>6
      <4> QED BY <1>1, <4>4, <4>5, <4>7, <4>8
    <3>7. CASE ~(IsGen(r) /\ n = w)
      <4>1. t[n].pool = s[n].pool
        BY <1>3, <2>2, <3>7
      <4>2. Root(H, i) # o
        <5> SUFFICES ASSUME Root(H, i) = o PROVE FALSE
          OBVIOUS
        <5>1. Reuses(H, i) /\ H.plan[o].gens = H.plan[i].gens
          BY <1>1, <1>7, <1>8, <3>2, RootFacts
        <5>2. r \in Gens(plan[i])
          BY <1>1, <3>5, <5>1 DEF Gens
        <5>3. w \in DOMAIN s /\ EntryOf(H, r, o, s[w])
          BY <1>1, <5>1, <5>2 DEF SpacesOf, OwnerRight, w
        <5>4. n = w
          BY <1>1, <2>2, <3>1, <5>3 DEF SpacesOf, OncePer, EntryOf
        <5> QED BY <1>5, <3>7, <5>2, <5>4
      <4> QED BY <3>4, <4>1, <4>2, PoolStays DEF H
    <3> QED BY <3>6, <3>7
  <2> QED BY <1>3, <2>1, <2>2
<1>12. PoolRight(H, r, M)
  BY <1>11 DEF PoolRight, t
<1>13. OwnerRight(H, r, M) /\ ProposedRight(H, r, M)
  BY DEF OwnerRight, ProposedRight
<1> QED BY <1>10, <1>12, <1>13 DEF SpacesOf, H

LEMMA SpacesNamespacesHeard ==
  ASSUME SplitAssumption, IInv, NInv, NEW r \in Processes, NamespacesHeard(r)
  PROVE  NInv'
<1> DEFINE i == at[r]
           L == Local(r)
           M == Local(r)'
           ns == NsSaid(Hist, i)
<1>1. After(r, "namespace") /\ "namespace" \in Kinds /\ "namespace" \in BKinds
  BY DEF NamespacesHeard, Kinds, BKinds
<1>2. /\ pc[r] = "namespace" /\ got[r] # <<>> /\ got[r] = said[i]["namespace"] /\ Base(Hist, i, "namespace")
      /\ HereRight(Hist, r, L) /\ HistRight(Hist) /\ i \in CallsWith(Hist, r) /\ i \in Nat
      /\ Hist.plan = plan /\ Hist.pack = pack
  BY <1>1, HeardFacts
<1>3. L.at = i /\ L.pc = "namespace" /\ L.got = got[r] /\ L.here = here[r] /\ L.shared = shared[r]
  BY <1>2 DEF Local
<1>4. ~pack /\ here[r].reuse = Reuses(Hist, i)
  BY <1>2, <1>3 DEF Base, HereRight
<1>5. CASE ~Formed(Hist, i) /\ Fail(r) /\ Stay
  <2>1. Moved(r, "idle")
    BY <1>5, ReturnMoves DEF Fail
  <2> QED BY <1>5, <2>1, CalmStep
<1>6. CASE /\ Formed(Hist, i) /\ ns >= 0 /\ Agreed(Hist, i)
           /\ Hist' = Hist /\ minted' = minted
           /\ \A q \in Processes : q # r => Local(q)' = Local(q)
           /\ M.at = i /\ M.pc \in {"idle", "fullA"}
           /\ M.shared = Table(r, ns, NamespaceLane(ns), here[r].lsa)
           /\ EntryOf(Hist, r, i, Entry(r, ns, NamespaceLane(ns), here[r].lsa))
  <2> HIDE DEF M, L
  <2>1. Whole(Hist, {r}, i, i)
    BY <1>2, PlanFacts DEF Whole, HistRight
  <2>2. Gains(Hist, r, L, M, i)
    <3>1. ASSUME NEW j \in CallsOf(Hist), Holds(Hist, r, L, j) PROVE j < i
      <4>1. j \in Nat /\ j <= i /\ j # i
        BY <1>1, <1>2, <1>3, <3>1, PlanFacts DEF Holds, HistRight
      <4> QED BY <1>2, <4>1
    <3>2. ASSUME NEW j \in CallsOf(Hist) PROVE Holds(Hist, r, M, j) <=> (Holds(Hist, r, L, j) \/ j = i)
      <4>1. M.pc \notin BKinds
        BY <1>6 DEF BKinds
      <4> QED BY <1>2, <1>3, <1>6, <2>1, <4>1 DEF Holds
    <3>3. i \in CallsOf(Hist)
      BY <1>2 DEF CallsWith
    <3> QED BY <1>2, <1>6, <3>1, <3>2, <3>3 DEF Gains
  <2>3. ns = NsOf(Hist, i)
    BY <1>2, <1>4 DEF NsOf
  <2>4. ASSUME r \in Gens(plan[i]) PROVE ns = ProposalOf(Hist, r, L)
    <3>1. Said(Hist, i, "namespace")[r] = ns
      BY <1>2, <1>6, <2>4 DEF Agreed
    <3>2. ProposedRight(Hist, r, L)
      BY <1>4 DEF NInv, SpacesOf, L
    <3> QED BY <1>2, <1>3, <3>1, <3>2 DEF ProposedRight
  <2>5. r \in Members(plan[i]) /\ M.pc \notin {"lsa", "namespace"}
    BY <1>2, <1>6 DEF CallsWith
  <2> HIDE DEF ns, i
  <2>6. L = Local(r) /\ i = at[r]
    BY DEF L, i
  <2>7. SpacesOf(Hist, r, M)
    BY <1>2, <1>4, <1>6, <2>2, <2>3, <2>4, <2>5, <2>6, StoredSpaces
  <2> QED BY <1>6, <2>7, SpacesStep DEF M
<1>7. \/ ~Formed(Hist, i) /\ Fail(r) /\ Stay
      \/ /\ Formed(Hist, i) /\ ns >= 0 /\ Agreed(Hist, i)
         /\ Hist' = Hist /\ minted' = minted
         /\ \A q \in Processes : q # r => Local(q)' = Local(q)
         /\ M.at = i /\ M.pc \in {"idle", "fullA"}
         /\ M.shared = Table(r, ns, NamespaceLane(ns), here[r].lsa)
         /\ EntryOf(Hist, r, i, Entry(r, ns, NamespaceLane(ns), here[r].lsa))
  BY NextNamespacesHeard
<1> QED BY <1>5, <1>6, <1>7

-----------------------------------------------------------------------------
(* A collective is done: splits are told apart, and so are namespaces. *)

(* A split that is said is another than those before it. *)
LEMMA MintKept ==
  ASSUME NEW H, NEW G, NEW i, NEW k, Grows(H, G, i, k), NEW n \in Nat, MintRight(H, n),
         NEW m, m = IF Mints(k) THEN n + 1 ELSE n, G.said[i][k][2] = n + 1
  PROVE  MintRight(G, m)
<1>0. "splitB" \in Kinds /\ G.plan = H.plan /\ m \in Nat /\ n <= m
  BY DEF Kinds, Grows
<1>1. ASSUME NEW j \in DOMAIN H.plan, Told(G, j, "splitB"), ~(j = i /\ k = "splitB")
      PROVE  /\ Told(H, j, "splitB") /\ Minted(G, j) = Minted(H, j)
             /\ Minted(G, j) \in Nat /\ Minted(G, j) <= n
  <2>1. Told(H, j, "splitB") /\ G.said[j]["splitB"] = H.said[j]["splitB"]
    BY <1>0, <1>1, SaidKept
  <2>2. Minted(G, j) = Minted(H, j)
    BY <2>1 DEF Minted
  <2> QED BY <2>1, <2>2 DEF MintRight
<1>2. k = "splitB" => Minted(G, i) = n + 1 /\ m = n + 1
  BY DEF Minted, Mints
<1> SUFFICES ASSUME NEW j \in DOMAIN H.plan, Told(G, j, "splitB")
             PROVE  /\ Minted(G, j) \in Nat /\ Minted(G, j) <= m
                    /\ \A l \in DOMAIN H.plan : (l # j /\ Told(G, l, "splitB")) => Minted(G, j) # Minted(G, l)
  BY <1>0 DEF MintRight
<1>3. Minted(G, j) \in Nat /\ Minted(G, j) <= m
  <2>1. CASE j = i /\ k = "splitB"
    BY <1>0, <1>2, <2>1
  <2>2. CASE ~(j = i /\ k = "splitB")
    BY <1>0, <1>1, <2>2
  <2> QED BY <2>1, <2>2
<1>4. ASSUME NEW l \in DOMAIN H.plan, l # j, Told(G, l, "splitB") PROVE Minted(G, j) # Minted(G, l)
  <2>1. CASE j = i /\ k = "splitB"
    BY <1>0, <1>1, <1>2, <1>4, <2>1
  <2>2. CASE l = i /\ k = "splitB"
    BY <1>0, <1>1, <1>2, <1>4, <2>2
  <2>3. CASE ~(j = i /\ k = "splitB") /\ ~(l = i /\ k = "splitB")
    BY <1>1, <1>4, <2>3 DEF MintRight
  <2> QED BY <2>1, <2>2, <2>3
<1> QED BY <1>3, <1>4

(* The commB a step has the domain size of was split. *)
LEMMA RootKept ==
  ASSUME SplitAssumption,
         NEW H, NEW G, NEW i, NEW k, Grows(H, G, i, k), RootTold(H), k = "lsa" => Goes(H, i, "lsa")
  PROVE  RootTold(G)
<1>0. /\ "splitB" \in Kinds /\ "lsa" \in Kinds /\ "pool" \in Kinds /\ G.plan = H.plan
      /\ CallsOf(G) = CallsOf(H) /\ HistRight(H) /\ ToldRight(H)
      /\ \A j \in CallsOf(H) : j \in DOMAIN H.plan
  BY PlanFacts DEF Kinds, Grows, CallsOf, HistRight
<1> SUFFICES ASSUME NEW j \in CallsOf(H), Told(G, j, "lsa")
             PROVE  Root(G, j) \in CallsOf(H) /\ Told(G, Root(G, j), "splitB")
  BY <1>0 DEF RootTold
<1>1. ASSUME Told(H, j, "pool"), k = "splitB" => j # i,
             Root(H, j) \in CallsOf(H), Told(H, Root(H, j), "splitB")
      PROVE  Root(G, j) \in CallsOf(H) /\ Told(G, Root(G, j), "splitB")
  <2>1. Root(G, j) = Root(H, j)
    BY <1>1, CommBKept
  <2>2. Told(G, Root(H, j), "splitB")
    BY <1>0, <1>1, ToldKept
  <2> QED BY <1>1, <2>1, <2>2
<1>2. CASE ~(j = i /\ k = "lsa")
  <2>1. Told(H, j, "lsa")
    BY <1>0, <1>2, SaidKept
  <2>2. Told(H, j, "pool")
    BY <1>0, <2>1 DEF ToldRight, Base
  <2>3. j = i => Ord("lsa") < Ord(k)
    BY <1>0, <2>1, ToldKept
  <2>4. k = "splitB" => j # i
    BY <2>3, Ords
  <2> QED BY <1>1, <2>1, <2>2, <2>4 DEF RootTold
<1>3. CASE j = i /\ k = "lsa"
  <2>1. Told(H, i, "pool") /\ Goes(H, i, "lsa")
    BY <1>3 DEF Grows, Base
  <2>2. CASE Reuses(H, i)
    <3>1. /\ Root(H, i) \in CallsOf(H) /\ ~Reuses(H, Root(H, i)) /\ Root(H, i) < i
          /\ Root(H, i) # i => Formed(H, Root(H, i))
      BY <1>0, <1>3, <2>1, <2>2, RootFacts
    <3>2. i \in Nat /\ Root(H, i) # i
      BY <1>0, <1>3, <3>1, PlanFacts DEF HistRight
    <3>3. Told(H, Root(H, i), "lsa") /\ Root(H, Root(H, i)) = Root(H, i)
      BY <3>1, <3>2 DEF Formed, Root
    <3>4. Told(H, Root(H, i), "splitB")
      BY <3>1, <3>3 DEF RootTold
    <3> QED BY <1>1, <1>3, <2>1, <3>1, <3>4
  <2>3. CASE ~Reuses(H, i)
    <3>1. Told(H, i, "splitB")
      BY <2>1, <2>3 DEF Goes
    <3>2. Root(H, i) = i
      BY <2>3 DEF Root
    <3> QED BY <1>1, <1>3, <2>1, <3>1, <3>2
  <2> QED BY <2>2, <2>3
<1> QED BY <1>2, <1>3

(* What the first generator of a step that uses a commB again proposes is told *)
(* apart from what the steps before it on that commB were given.               *)
LEMMA NsFresh ==
  ASSUME SplitAssumption,
         NEW H, HistRight(H), NsRight(H), NEW g, NEW L, SpacesOf(H, g, L), L.pc = "namespace",
         NEW i \in CallsOf(H), L.at = i, g \in Gens(H.plan[i]), Told(H, i, "pool"), Reuses(H, i),
         AtRight(H, g, L), NEW ns, ns = ProposalOf(H, g, L), ns >= 0,
         NEW j \in CallsOf(H), j # i, Formed(H, j), Root(H, j) = Root(H, i), j <= i
  PROVE  (H.plan[i].parent = H.plan[j].parent) <=> (ns = NsOf(H, j))
<1> DEFINE o == Root(H, i)
           pool == L.shared[L.here.owner].pool
           p == H.plan[i].parent
<1>0. L.here.reuse = Reuses(H, i)
  BY DEF AtRight, HereRight
<1>1. /\ PoolOf(H, g, L, o, pool) /\ ns \in Nat /\ DOMAIN pool = 1 .. Len(pool) /\ Len(pool) \in Nat
      /\ \/ ns + 1 \in DOMAIN pool /\ pool[ns + 1] = p
         \/ ns = Len(pool) /\ \A x \in DOMAIN pool : pool[x] # p
  BY <1>0, ProposalRight, ZenonT(30)
<1>2. Owns(H, g, o, i)
  BY RootOwns
<1> HIDE DEF o, pool, p
<1>3. Holds(H, g, L, j)
  <2>1. Told(H, j, "pool") /\ H.plan \in Plans
    BY FormedTold DEF HistRight
  <2>2. /\ Root(H, j) \in CallsOf(H) /\ Root(H, j) <= j /\ H.plan[Root(H, j)].gens = H.plan[j].gens
    BY <2>1, RootFacts
  <2>3. o \in CallsOf(H) /\ o <= j /\ H.plan[o].gens = H.plan[j].gens /\ H.plan[o].gens = H.plan[i].gens
        /\ Whole(H, {g}, o, i)
    BY <1>2, <2>2 DEF Owns, o
  <2>4. o \in Nat /\ j \in Nat /\ i \in Nat /\ Gens(H.plan[j]) \subseteq Members(H.plan[j])
    BY <2>1, <2>3, PlanFacts
  <2>5. g \in Members(H.plan[j])
    BY <2>3, <2>4 DEF Gens
  <2>6. Whole(H, {g}, j, i)
    BY <2>1, <2>3, <2>4, WholeCut
  <2> QED BY <2>5, <2>6 DEF Holds, CallsWith
<1>4. NsOf(H, j) + 1 \in DOMAIN pool /\ pool[NsOf(H, j) + 1] = H.plan[j].parent
  BY <1>1, <1>3 DEF PoolOf, o
<1>5. ASSUME NEW x \in DOMAIN pool, pool[x] = H.plan[j].parent PROVE NsOf(H, j) = x - 1
  <2>1. PICK b \in CallsOf(H) :
          Holds(H, g, L, b) /\ Root(H, b) = o /\ NsOf(H, b) = x - 1 /\ H.plan[b].parent = pool[x]
    BY <1>1 DEF PoolOf
  <2>2. Formed(H, b)
    BY <2>1 DEF Holds
  <2> QED BY <1>5, <2>1, <2>2 DEF NsRight, o
<1>6. NsOf(H, j) \in Nat /\ NsOf(H, j) < Len(pool)
  <2>1. NsOf(H, j) = (NsOf(H, j) + 1) - 1
    BY <1>4, <1>5
  <2> DEFINE x == NsOf(H, j) + 1
  <2>2. x \in 1 .. Len(pool) /\ NsOf(H, j) = x - 1
    BY <1>1, <1>4, <2>1
  <2> HIDE DEF x
  <2> QED BY <1>1, <2>2
<1>7. CASE ns + 1 \in DOMAIN pool /\ pool[ns + 1] = p
  <2>1. ASSUME p = H.plan[j].parent PROVE ns = NsOf(H, j)
    <3>1. NsOf(H, j) = (ns + 1) - 1
      BY <1>5, <1>7, <2>1
    <3> QED BY <1>1, <3>1
  <2>2. ASSUME ns = NsOf(H, j) PROVE p = H.plan[j].parent
    BY <1>4, <1>7, <2>2
  <2> QED BY <2>1, <2>2 DEF p
<1>8. CASE ns = Len(pool) /\ \A x \in DOMAIN pool : pool[x] # p
  <2>1. p # H.plan[j].parent
    BY <1>4, <1>8
  <2>2. ns # NsOf(H, j)
    BY <1>1, <1>6, <1>8
  <2> QED BY <2>1, <2>2 DEF p
<1> QED BY <1>1, <1>7, <1>8

(* NsRight, spelled out. *)
LEMMA NsMeant ==
  ASSUME NEW G, \A a \in CallsOf(G), b \in CallsOf(G) :
           (Formed(G, a) /\ Formed(G, b) /\ Root(G, a) = Root(G, b)) =>
             ((G.plan[a].parent = G.plan[b].parent) <=> (NsOf(G, a) = NsOf(G, b)))
  PROVE  NsRight(G)
BY DEF NsRight

(* A step says its namespaces once, after the domain size. *)
LEMMA NsTurn ==
  ASSUME SplitAssumption,
         NEW H, NEW G, NEW i, NEW k, Grows(H, G, i, k), ~H.pack, Formed(G, i), ~Formed(H, i)
  PROVE  /\ k = "namespace" /\ Agreed(G, i) /\ Told(H, i, "pool") /\ Root(G, i) = Root(H, i)
<1>0. /\ G.pack = H.pack /\ HistRight(H) /\ H.plan \in Plans
      /\ i \in CallsOf(H) /\ "namespace" \in Kinds /\ k \in Kinds
  BY DEF Grows, HistRight, Kinds
<1>1. i \in DOMAIN H.plan
  BY <1>0, PlanFacts
<1>2. k \in {"lsa", "namespace"} /\ Told(G, i, "namespace") /\ Agreed(G, i)
  BY <1>0, <1>1, FormedKept DEF Formed
<1>3. k = "namespace"
  <2> SUFFICES ASSUME k # "namespace" PROVE FALSE
    OBVIOUS
  <2>1. Told(H, i, "namespace")
    BY <1>0, <1>1, <1>2, SaidKept
  <2>2. Ord("namespace") < Ord(k)
    BY <1>0, <1>1, <2>1, ToldKept
  <2>3. Ord(k) = 6 /\ Ord("namespace") = 7
    BY <1>2, Ords
  <2> QED BY <2>2, <2>3
<1>4. Base(H, i, "namespace") /\ Told(H, i, "pool")
  BY <1>3 DEF Grows, Base
<1>5. Root(G, i) = Root(H, i)
  BY <1>0, <1>3, <1>4, CommBKept
<1> QED BY <1>2, <1>3, <1>4, <1>5

(* The step that has just got its namespace, and one that had its own before. *)
LEMMA NsNew ==
  ASSUME SplitAssumption, NEW H, NEW G, NEW i, Grows(H, G, i, "namespace"), ~H.pack, NsRight(H),
         Formed(G, i), ~Formed(H, i),
         NEW j \in CallsOf(H), j # i, Formed(H, j), Root(G, i) = Root(G, j),
         NEW g, g = H.plan[i].gens[1], NEW L, L.at = i, at[g] = i, L.pc = "namespace", L.got = <<>>,
         SpacesOf(H, g, L), AtRight(H, g, L), Said(G, i, "namespace")[g] = L.ask
  PROVE  (H.plan[i].parent = H.plan[j].parent) <=> (NsOf(G, i) = NsOf(G, j))
<1>0. /\ G.plan = H.plan /\ G.pack = H.pack /\ HistRight(H) /\ H.plan \in Plans
      /\ i \in CallsOf(H) /\ i \in Nat /\ j \in Nat /\ g \in Gens(H.plan[i])
      /\ "lsa" \in Kinds /\ j \in DOMAIN H.plan
  BY PlanFacts DEF Grows, HistRight, Kinds
<1>1. Agreed(G, i) /\ Told(H, i, "pool") /\ Root(G, i) = Root(H, i)
  BY NsTurn
<1>2. Root(G, j) = Root(H, j) /\ NsOf(G, j) = NsOf(H, j)
  BY MatchesKept
<1>3. Told(H, j, "pool") /\ Told(H, j, "lsa")
  BY <1>0, FormedTold
<1>4. Root(H, i) = Root(H, j)
  BY <1>1, <1>2
<1>5. Reuses(H, i)
  <2> SUFFICES ASSUME ~Reuses(H, i) PROVE FALSE
    OBVIOUS
  <2>1. Root(H, i) = i
    BY DEF Root
  <2>2. Root(H, j) = i /\ Root(H, j) # j
    BY <1>4, <2>1
  <2>3. Formed(H, Root(H, j))
    BY <1>0, <1>3, <2>2, RootFacts
  <2> QED BY <2>2, <2>3
<1> DEFINE ns == ProposalOf(H, g, L)
<1>6. NsOf(G, i) = ns /\ ns >= 0
  <2>1. L.ask = ns
    BY <1>1 DEF SpacesOf, ProposedRight
  <2>2. NsOf(G, i) = NsSaid(G, i) /\ NsSaid(G, i) >= 0
    BY <1>0, <1>1 DEF NsOf, Agreed
  <2> QED BY <1>0, <1>1, <2>1, <2>2 DEF NsSaid
<1>7. j <= i
  <2>1. Root(H, j) \in CallsOf(H) /\ H.plan[Root(H, j)].gens = H.plan[j].gens
    BY <1>0, <1>3, RootFacts
  <2>2. H.plan[Root(H, i)].gens = H.plan[i].gens
    BY <1>0, <1>1, RootFacts
  <2>3. H.plan[j].gens = H.plan[i].gens
    BY <1>4, <2>1, <2>2
  <2>4. g \in Members(H.plan[j])
    BY <1>0, <2>3, PlanFacts DEF Gens
  <2>5. at[g] >= j
    BY <1>0, <1>3, <2>4 DEF Grows
  <2> QED BY <2>5
<1>8. L.here.reuse = Reuses(H, i) 
  BY <1>1 DEF AtRight, HereRight
<1> HIDE DEF ns
<1>9. (H.plan[i].parent = H.plan[j].parent) <=> (ns = NsOf(H, j))
  <2>1. ns = ProposalOf(H, g, L)
    BY DEF ns
  <2>2. Root(H, j) = Root(H, i)
    BY <1>4
  <2> QED BY <1>0, <1>1, <1>5, <1>6, <1>7, <2>1, <2>2, NsFresh, SMTT(60)
<1> QED BY <1>2, <1>6, <1>9

(* NsRight is kept by a collective. *)
LEMMA NsKept ==
  ASSUME SplitAssumption, NEW H, NEW G, NEW i, NEW k, Grows(H, G, i, k), ~H.pack, NsRight(H),
         NEW g, g = H.plan[i].gens[1], NEW L, L.at = i, at[g] = i, L.pc = k, L.got = <<>>,
         SpacesOf(H, g, L), AtRight(H, g, L), Said(G, i, k)[g] = L.ask
  PROVE  NsRight(G)
<1>0. /\ G.plan = H.plan /\ CallsOf(G) = CallsOf(H) /\ i \in CallsOf(H)
      /\ \A j \in CallsOf(H) : j \in DOMAIN H.plan
  BY PlanFacts DEF Grows, CallsOf, HistRight
<1>1. ASSUME NEW j \in CallsOf(H), ~Formed(H, i), Formed(G, i), j # i, Formed(H, j), Root(G, i) = Root(G, j)
      PROVE  (H.plan[i].parent = H.plan[j].parent) <=> (NsOf(G, i) = NsOf(G, j))
  <2>1. k = "namespace"
    BY <1>1, NsTurn
  <2> QED BY <1>1, <2>1, NsNew
<1>2. ASSUME NEW a \in CallsOf(H), NEW b \in CallsOf(H), Formed(H, a), Formed(H, b), Root(G, a) = Root(G, b)
      PROVE  (H.plan[a].parent = H.plan[b].parent) <=> (NsOf(G, a) = NsOf(G, b))
  <2>1. NsOf(G, a) = NsOf(H, a) /\ Root(G, a) = Root(H, a) /\ NsOf(G, b) = NsOf(H, b) /\ Root(G, b) = Root(H, b)
    BY <1>2, MatchesKept
  <2> QED BY <1>2, <2>1 DEF NsRight
<1>3. ASSUME NEW a \in CallsOf(H), Formed(G, a), ~Formed(H, a) PROVE a = i
  BY <1>0, <1>3, FormedKept
<1>4. ASSUME NEW a \in CallsOf(H), NEW b \in CallsOf(H), Formed(G, a), Formed(G, b), Root(G, a) = Root(G, b)
      PROVE  (H.plan[a].parent = H.plan[b].parent) <=> (NsOf(G, a) = NsOf(G, b))
  <2>1. CASE a = b
    BY <2>1
  <2>2. CASE a # b /\ ~Formed(H, a)
    <3>1. a = i /\ Formed(H, b)
      BY <1>3, <1>4, <2>2
    <3> QED BY <1>1, <1>4, <2>2, <3>1
  <2>3. CASE a # b /\ Formed(H, a) /\ ~Formed(H, b)
    <3>1. b = i
      BY <1>3, <1>4, <2>3
    <3>2. (H.plan[b].parent = H.plan[a].parent) <=> (NsOf(G, b) = NsOf(G, a))
      BY <1>1, <1>4, <2>3, <3>1
    <3> QED BY <3>2
  <2>4. CASE Formed(H, a) /\ Formed(H, b)
    BY <1>2, <1>4, <2>4
  <2> QED BY <2>1, <2>2, <2>3, <2>4
<1> QED BY <1>0, <1>4, NsMeant

-----------------------------------------------------------------------------
(* And what is true of the pools of a rank stays true. *)

(* What holds of the pools of a rank holds when a collective is done. *)
LEMMA SpacesHeld ==
  ASSUME SplitAssumption,
         NEW H, NEW G, NEW i, NEW k, Grows(H, G, i, k), NEW q, NEW L, SpacesOf(H, q, L), AtRight(H, q, L),
         L.at = at[q], L.at \in Nat, L.pc \in Kinds \cup {"idle"},
         NEW M, M.at = L.at, M.pc = L.pc, M.here = L.here, M.ask = L.ask, M.shared = L.shared,
         q \notin Members(H.plan[i]) => M.got = L.got,
         q \in Members(H.plan[i]) =>
           L.pc = k /\ L.got = <<>> /\ M.got # <<>> /\ Said(G, i, k)[q] = L.ask
  PROVE  SpacesOf(G, q, M)
<1>0. /\ G.plan = H.plan /\ CallsOf(G) = CallsOf(H) /\ H.plan \in Plans /\ HistRight(H)
      /\ "pool" \in Kinds /\ "namespace" \in Kinds
      /\ \A j \in CallsOf(H) : j \in DOMAIN H.plan /\ Gens(H.plan[j]) \subseteq Members(H.plan[j])
  <2>1. G.plan = H.plan /\ HistRight(H)
    BY DEF Grows
  <2>2. H.plan \in Plans /\ CallsOf(G) = CallsOf(H)
    BY <2>1 DEF HistRight, CallsOf
  <2>3. \A j \in CallsOf(H) : j \in DOMAIN H.plan /\ Gens(H.plan[j]) \subseteq Members(H.plan[j])
    BY <2>2, PlanFacts
  <2>4. "pool" \in Kinds /\ "namespace" \in Kinds
    BY DEF Kinds
  <2> QED BY <2>1, <2>2, <2>3, <2>4
<1>1. \A j \in CallsOf(H) : Holds(G, q, M, j) <=> Holds(H, q, L, j)
  BY HoldsKept
<1>2. ASSUME NEW j \in CallsOf(H), Holds(H, q, L, j)
      PROVE  /\ NsOf(G, j) = NsOf(H, j) /\ Root(G, j) = Root(H, j)
             /\ \A e : EntryOf(G, q, j, e) <=> EntryOf(H, q, j, e)
  BY <1>2, MatchesKept DEF Holds
<1>3. ASSUME NEW o, NEW pool, PoolOf(H, q, L, o, pool) PROVE PoolOf(G, q, M, o, pool)
  <2>1. Listed(pool)
    BY <1>3 DEF PoolOf
  <2>2. ASSUME NEW x \in DOMAIN pool
        PROVE  \E b \in CallsOf(G) :
                 Holds(G, q, M, b) /\ Root(G, b) = o /\ NsOf(G, b) = x - 1 /\ G.plan[b].parent = pool[x]
    <3>1. PICK b \in CallsOf(H) :
            Holds(H, q, L, b) /\ Root(H, b) = o /\ NsOf(H, b) = x - 1 /\ H.plan[b].parent = pool[x]
      BY <1>3 DEF PoolOf
    <3>2. Holds(G, q, M, b) /\ Root(G, b) = o /\ NsOf(G, b) = x - 1 /\ G.plan[b].parent = pool[x]
      BY <1>0, <1>1, <1>2, <3>1
    <3> QED BY <1>0, <3>2
  <2>3. ASSUME NEW b \in CallsOf(G), Holds(G, q, M, b), Root(G, b) = o
        PROVE  NsOf(G, b) + 1 \in DOMAIN pool /\ pool[NsOf(G, b) + 1] = G.plan[b].parent
    <3>1. b \in CallsOf(H) /\ Holds(H, q, L, b)
      BY <1>0, <1>1, <2>3
    <3>2. NsOf(G, b) = NsOf(H, b) /\ Root(H, b) = o
      BY <1>2, <2>3, <3>1
    <3> QED BY <1>0, <1>3, <3>1, <3>2 DEF PoolOf
  <2> QED BY <2>1, <2>2, <2>3 DEF PoolOf
<1>4. PoolRight(G, q, M)
  <2> SUFFICES ASSUME NEW n \in DOMAIN M.shared, NEW o \in CallsOf(G),
                      Holds(G, q, M, o), EntryOf(G, q, o, M.shared[n]), M.shared[n].owns
               PROVE  PoolOf(G, q, M, o, M.shared[n].pool)
    BY DEF PoolRight
  <2>1. o \in CallsOf(H) /\ Holds(H, q, L, o)
    BY <1>0, <1>1
  <2>2. EntryOf(H, q, o, L.shared[n])
    BY <1>2, <2>1
  <2>3. PoolOf(H, q, L, o, L.shared[n].pool)
    BY <2>1, <2>2 DEF SpacesOf, PoolRight
  <2> QED BY <1>3, <2>3
<1>5. ASSUME L.pc \in {"lsa", "namespace"}
      PROVE  /\ L.at \in CallsOf(H) /\ Told(H, L.at, "pool") /\ q \in Members(H.plan[L.at])
             /\ k = "splitB" => L.at # i
  <2>1. Base(H, L.at, L.pc) /\ q \in Members(H.plan[L.at])
    BY <1>5 DEF AtRight
  <2>2. L.at = i => L.pc = k
    BY <2>1
  <2> QED BY <1>5, <2>1, <2>2 DEF Base
<1>6. OwnerRight(G, q, M)
  <2> SUFFICES ASSUME L.pc \in {"lsa", "namespace"}, q \in Gens(H.plan[L.at])
               PROVE  IF Reuses(G, L.at)
                        THEN /\ L.here.owner \in DOMAIN L.shared
                             /\ Holds(G, q, M, Root(G, L.at))
                             /\ EntryOf(G, q, Root(G, L.at), L.shared[L.here.owner])
                        ELSE L.here.owner = Len(L.shared) + 1
    BY <1>0 DEF OwnerRight
  <2>1. L.at \in DOMAIN H.plan /\ (L.at # i \/ k # "pool")
    BY <1>0, <1>5, PoolKeptTold
  <2>2. Reuses(G, L.at) <=> Reuses(H, L.at)
    BY <2>1, PoolKept
  <2>3. Root(G, L.at) = Root(H, L.at)
    BY <1>5, CommBKept
  <2>4. CASE Reuses(H, L.at)
    <3>1. /\ L.here.owner \in DOMAIN L.shared /\ Holds(H, q, L, Root(H, L.at))
          /\ EntryOf(H, q, Root(H, L.at), L.shared[L.here.owner])
      BY <2>4 DEF SpacesOf, OwnerRight
    <3>2. Root(H, L.at) \in CallsOf(H)
      BY <3>1 DEF Holds, CallsWith
    <3> QED BY <1>1, <1>2, <2>2, <2>3, <2>4, <3>1, <3>2
  <2>5. CASE ~Reuses(H, L.at)
    <3>1. L.here.owner = Len(L.shared) + 1
      BY <2>5 DEF SpacesOf, OwnerRight
    <3> QED BY <2>2, <2>5, <3>1
  <2> QED BY <2>4, <2>5
<1>7. ProposedRight(G, q, M)
  <2> SUFFICES ASSUME M.pc = "namespace"
               PROVE  /\ M.got = <<>> => M.ask = ProposalOf(G, q, M)
                      /\ M.got # <<>> => Said(G, M.at, "namespace")[q] = ProposalOf(G, q, M)
    BY DEF ProposedRight
  <2>1. ProposalOf(G, q, M) = ProposalOf(H, q, L)
    BY <1>0 DEF ProposalOf
  <2>2. /\ L.got = <<>> => L.ask = ProposalOf(H, q, L)
        /\ L.got # <<>> => Said(H, L.at, "namespace")[q] = ProposalOf(H, q, L)
    BY DEF SpacesOf, ProposedRight
  <2>3. L.at \in DOMAIN H.plan /\ q \in Members(H.plan[L.at])
    BY <1>0, <1>5
  <2>4. CASE q \in Members(H.plan[i])
    <3>1. at[q] = i
      BY <2>4 DEF Grows
    <3>2. L.at = i /\ k = "namespace"
      BY <2>4, <3>1
    <3> QED BY <2>1, <2>2, <2>4, <3>2
  <2>5. CASE q \notin Members(H.plan[i])
    <3>1. L.at # i
      BY <2>3, <2>5
    <3>2. Said(G, L.at, "namespace") = Said(H, L.at, "namespace")
      BY <1>0, <2>3, <3>1, SaidKept
    <3> QED BY <2>1, <2>2, <2>5, <3>2
  <2> QED BY <2>4, <2>5
<1>8. OncePer(M)
  BY DEF SpacesOf, OncePer
<1> QED BY <1>4, <1>6, <1>7, <1>8 DEF SpacesOf

(* NInv is kept by a collective. *)
LEMMA SpacesMeet ==
  ASSUME SplitAssumption, IInv, NInv, NEW i \in Steps, NEW k \in Kinds, Meet(i, k)
  PROVE  NInv'
<1> DEFINE H == Hist
           G == Hist'
           v == <<[m \in Members(plan[i]) |-> ask[m]], minted + 1>>
<1>1. /\ Grows(H, G, i, k) /\ G.said[i][k] = v
      /\ \A m \in Members(plan[i]) : at[m] = i /\ pc[m] = k /\ got[m] = <<>>
      /\ minted' = IF Mints(k) THEN minted + 1 ELSE minted
  BY NextMeet
<1>2. /\ got' = [r \in Processes |-> IF r \in Members(plan[i]) THEN v ELSE got[r]]
      /\ UNCHANGED <<plan, pack, at, pc, ask, here, shared>>
  BY DEF Meet, tableVars
<1>3. /\ H.plan = plan /\ H.pack = pack /\ minted \in Nat
      /\ MintRight(H, minted) /\ RootTold(H)
      /\ \A r \in Processes : RankInv(H, r, Local(r))
  BY DEF Hist, IInv, NInv, Domains
<1>4. v[2] = minted + 1 /\ v # <<>> /\ \A m \in Members(plan[i]) : v[1][m] = ask[m]
  OBVIOUS
<1>5. plan[i].gens[1] \in Members(plan[i]) /\ Members(plan[i]) \subseteq Processes
  <2>1. i \in CallsOf(H) /\ H.plan \in Plans
    BY <1>1 DEF Grows, HistRight
  <2> QED BY <1>3, <2>1, PlanFacts
<1>9. pack' = pack
  BY <1>2
<1> HIDE DEF H, G, v
<1>6. MintRight(G, minted')
  BY <1>1, <1>3, <1>4, MintKept
<1>7. ASSUME NEW m \in Members(plan[i])
      PROVE  /\ Local(m).at = i /\ Local(m).pc = k /\ Local(m).got = <<>> /\ Local(m).ask = ask[m]
             /\ AtRight(H, m, Local(m)) /\ Said(G, i, k)[m] = ask[m] /\ at[m] = i
  <2>1. RankInv(H, m, Local(m))
    BY <1>3, <1>5
  <2>2. AtRight(H, m, Local(m))
    BY <2>1 DEF RankInv
  <2> QED BY <1>1, <1>4, <2>2 DEF Local, Said
<1>8. RootTold(G)
  <2> DEFINE g == plan[i].gens[1]
             L == Local(g)
  <2>1. L.at = i /\ L.pc = k /\ AtRight(H, g, L)
    BY <1>5, <1>7
  <2> HIDE DEF L, g
  <2>2. Goes(H, i, k)
    BY <2>1 DEF AtRight, Kinds
  <2>3. k = "lsa" => Goes(H, i, "lsa")
    BY <2>2
  <2> QED BY <1>1, <1>3, <2>3, RootKept
<1>10. ASSUME ~pack PROVE NsRight(G)
  <2> DEFINE g == plan[i].gens[1]
             L == Local(g)
  <2>1. L.at = i /\ L.pc = k /\ L.got = <<>> /\ AtRight(H, g, L) /\ Said(G, i, k)[g] = L.ask /\ at[g] = i
    BY <1>5, <1>7
  <2>2. NsRight(H) /\ SpacesOf(H, g, L)
    BY <1>5, <1>10 DEF NInv, H
  <2>3. g = H.plan[i].gens[1] /\ ~H.pack
    BY <1>3, <1>10
  <2> HIDE DEF L, g
  <2> QED BY <1>1, <2>1, <2>2, <2>3, NsKept
<1>11. ASSUME ~pack, NEW q \in Processes PROVE SpacesOf(G, q, Local(q)')
  <2> DEFINE L == Local(q)
             M == Local(q)'
  <2>1. RankInv(H, q, L) /\ SpacesOf(H, q, L) /\ L.at = at[q] /\ L.pc = pc[q] /\ L.got = got[q]
    BY <1>3, <1>11 DEF Local, NInv, H
  <2>2. /\ M.at = L.at /\ M.pc = L.pc /\ M.here = L.here /\ M.ask = L.ask /\ M.shared = L.shared
        /\ M.got = got'[q]
    BY <1>2 DEF Local
  <2>3. q \in Members(plan[i]) =>
          L.pc = k /\ L.got = <<>> /\ Said(G, i, k)[q] = L.ask
    BY <1>7
  <2> HIDE DEF L, M
  <2>4. AtRight(H, q, L) /\ L.at \in Nat /\ L.pc \in Kinds \cup {"idle"}
    BY <2>1 DEF RankInv, RankTypes
  <2>5. q \notin Members(H.plan[i]) => M.got = L.got
    BY <1>2, <1>3, <2>1, <2>2
  <2>6. q \in Members(H.plan[i]) =>
          L.pc = k /\ L.got = <<>> /\ M.got # <<>> /\ Said(G, i, k)[q] = L.ask
    <3>1. q \in Members(H.plan[i]) => M.got = v
      BY <1>2, <1>3, <2>2
    <3> QED BY <1>3, <1>4, <2>3, <3>1
  <2>7. SpacesOf(G, q, M)
    BY <1>1, <2>1, <2>2, <2>4, <2>5, <2>6, SpacesHeld
  <2> QED BY <2>7 DEF M
<1>12. (~pack)' => NsRight(G) /\ \A q \in Processes : SpacesOf(G, q, Local(q)')
  BY <1>9, <1>10, <1>11
<1>13. NInv' <=> /\ MintRight(G, minted') /\ RootTold(G)
                 /\ (~pack)' => NsRight(G) /\ \A q \in Processes : SpacesOf(G, q, Local(q)')
  BY DEF NInv, G
<1> QED BY <1>6, <1>8, <1>12, <1>13

-----------------------------------------------------------------------------
(* The invariant of the namespaces, and that they tell parents apart. *)

(* NInv holds when the program starts. *)
LEMMA SpacesInit ==
  ASSUME SplitAssumption, SplitInit
  PROVE  NInv
<1> DEFINE H == Hist
<1>1. /\ H.plan = plan /\ H.said = [i \in DOMAIN plan |-> [k \in Kinds |-> <<>>]]
      /\ "splitB" \in Kinds /\ "lsa" \in Kinds /\ H.plan \in Plans
  BY DEF SplitInit, Hist, Steps, Kinds
<1> HIDE DEF H
<1>2. \A i \in DOMAIN H.plan, k \in Kinds : ~Told(H, i, k)
  BY <1>1 DEF Told
<1>3. \A i \in CallsOf(H) : i \in DOMAIN H.plan /\ ~Formed(H, i)
  BY <1>1, <1>2, PlanFacts DEF Formed
<1>4. MintRight(H, minted)
  BY <1>1, <1>2 DEF MintRight
<1>5. RootTold(H)
  BY <1>1, <1>2, <1>3 DEF RootTold
<1>6. NsRight(H)
  BY <1>3 DEF NsRight
<1>7. ASSUME NEW r \in Processes PROVE SpacesOf(H, r, Local(r))
  <2> DEFINE L == Local(r)
  <2>1. L.pc = "idle" /\ L.shared = <<>>
    BY DEF Local, SplitInit
  <2> HIDE DEF L
  <2>2. DOMAIN L.shared = {}
    BY <2>1, EmptyList
  <2>3. SpacesOf(H, r, L)
    BY <2>1, <2>2 DEF SpacesOf, PoolRight, OwnerRight, ProposedRight, OncePer
  <2> QED BY <2>3 DEF L
<1> QED BY <1>4, <1>5, <1>6, <1>7 DEF NInv, H

(* NInv is kept by every step. *)
LEMMA SpacesNext ==
  ASSUME SplitAssumption, IInv, NInv, [SplitNext]_splitVars
  PROVE  NInv'
<1>1. ASSUME NEW i \in Steps, NEW k \in Kinds, Meet(i, k) PROVE NInv'
  BY <1>1, SpacesMeet
<1>2. ASSUME UNCHANGED <<callVars, tableVars, minted, said, result>> PROVE NInv'
  <2>1. UNCHANGED <<plan, pack, at, pc, ask, got, here, shared, known, commAs, minted, said, result>>
    BY <1>2 DEF callVars, tableVars
  <2>2. Hist' = Hist /\ \A q : Local(q)' = Local(q)
    BY <2>1 DEF Hist, Local
  <2> QED BY <2>1, <2>2 DEF NInv
<1>3. ASSUME NEW r \in Processes, StartCall(r) \/ Restart(r) PROVE NInv'
  BY <1>3, SpacesStartCall, SpacesRestart
<1>4. ASSUME NEW r \in Processes, ParentsVoted(r) \/ LanesHeard(r) \/ PoolVoted(r) PROVE NInv'
  BY <1>4, CalmMoves
<1>5. ASSUME NEW r \in Processes, SharedVoted(r) \/ CommBSplit(r) PROVE NInv'
  BY <1>5, SpacesSharedVoted, SpacesCommBSplit
<1>6. ASSUME NEW r \in Processes, LsaHeard(r) PROVE NInv'
  <2>1. pack /\ UNCHANGED <<plan, pack, said, minted>>
    BY <1>6 DEF LsaHeard, Store
  <2> QED BY <2>1, SpacesSame
<1>7. ASSUME NEW r \in Processes, LsaHeardPipe(r) \/ NamespacesHeard(r) PROVE NInv'
  BY <1>7, SpacesLsaHeardPipe, SpacesNamespacesHeard
<1>8. ASSUME NEW r \in Processes, AVoted(r) \/ CommASplit(r) \/ SrcLsaHeard(r) PROVE NInv'
  BY <1>8, CalmMovesA, SpacesSrcLsaHeard
<1>9. ASSUME NEW i \in Steps, KernelsEnd(i) PROVE NInv'
  BY <1>2, <1>9 DEF KernelsEnd
<1>10. ASSUME UNCHANGED splitVars PROVE NInv'
  BY <1>2, <1>10 DEF splitVars
<1> QED BY <1>1, <1>3, <1>4, <1>5, <1>6, <1>7, <1>8, <1>9, <1>10 DEF SplitNext

(* NInv gives: in PIPE, calls on one commB share a namespace exactly when they share their *)
(* parent.                                                                                 *)
LEMMA SpacesApart ==
  ASSUME SplitAssumption, IInv, NInv
  PROVE  NamespacesApart
<1> DEFINE H == Hist
<1>1. /\ H.plan = plan /\ HistRight(H) /\ MintRight(H, minted) /\ RootTold(H) /\ H.plan \in Plans
      /\ ~pack => NsRight(H)
      /\ \A r \in Processes : RankInv(H, r, Local(r))
  BY DEF Hist, IInv, NInv, HistRight
<1>2. CallSteps = CallsOf(H)
  BY <1>1 DEF CallSteps, CallsOf, Steps
<1> HIDE DEF H
<1>3. ASSUME NEW i \in CallSteps, NEW r \in Range(plan[i].gens), Split(r, i)
      PROVE  \E b \in CallsOf(H) :
               /\ Formed(H, b) /\ H.plan[b].parent = plan[i].parent
               /\ result[r][i].commB = Minted(H, Root(H, b)) /\ result[r][i].ns = NsOf(H, b)
               /\ Root(H, b) \in DOMAIN H.plan /\ Told(H, Root(H, b), "splitB")
  <2> DEFINE L == Local(r)
  <2>1. i \in DOMAIN H.plan /\ r \in Gens(H.plan[i]) /\ r \in Processes
    BY <1>1, <1>2, PlanFacts DEF Gens
  <2>2. L.result = result[r] /\ RankInv(H, r, L)
    BY <1>1, <2>1 DEF Local
  <2> HIDE DEF L
  <2>3. L.result[i].verdict = "split"
    BY <1>3, <2>2 DEF Split
  <2>4. Outcome(H, r, i, L.result[i])
    BY <2>1, <2>2, <2>3 DEF RankInv, ResultRight
  <2>5. PICK b \in CallsOf(H) : Source(H, b, i) /\ MatchesB(H, r, b, L.result[i])
    BY <2>3, <2>4 DEF Outcome, SplitAs
  <2>6. Formed(H, b) /\ SameGeometry(H, b, i)
    BY <2>5 DEF Source
  <2>7. H.plan[b].parent = H.plan[i].parent /\ Gens(H.plan[b]) = Gens(H.plan[i])
    BY <2>6, GeometryGives
  <2>8. L.result[i].ns = NsOf(H, b) /\ L.result[i].commB = CommB(H, b)
    BY <2>1, <2>5, <2>7 DEF MatchesB
  <2>9. Root(H, b) \in CallsOf(H) /\ Told(H, Root(H, b), "splitB")
    BY <1>1, <2>6 DEF Formed, RootTold
  <2>10. Root(H, b) \in DOMAIN H.plan
    BY <1>1, <2>9, PlanFacts
  <2> QED BY <1>1, <2>2, <2>6, <2>7, <2>8, <2>9, <2>10 DEF CommB, Minted
<1> SUFFICES ASSUME NEW i \in CallSteps, NEW j \in CallSteps,
                    NEW r \in Range(plan[i].gens) \cap Range(plan[j].gens),
                    ~pack, Split(r, i), Split(r, j), result[r][i].commB = result[r][j].commB
             PROVE  (plan[i].parent = plan[j].parent) <=> (result[r][i].ns = result[r][j].ns)
  BY DEF NamespacesApart
<1>4. PICK b \in CallsOf(H) :
        /\ Formed(H, b) /\ H.plan[b].parent = plan[i].parent
        /\ result[r][i].commB = Minted(H, Root(H, b)) /\ result[r][i].ns = NsOf(H, b)
        /\ Root(H, b) \in DOMAIN H.plan /\ Told(H, Root(H, b), "splitB")
  BY <1>3
<1>5. PICK c \in CallsOf(H) :
        /\ Formed(H, c) /\ H.plan[c].parent = plan[j].parent
        /\ result[r][j].commB = Minted(H, Root(H, c)) /\ result[r][j].ns = NsOf(H, c)
        /\ Root(H, c) \in DOMAIN H.plan /\ Told(H, Root(H, c), "splitB")
  BY <1>3
<1>6. Minted(H, Root(H, b)) = Minted(H, Root(H, c))
  BY <1>4, <1>5
<1>7. Root(H, b) = Root(H, c)
  BY <1>1, <1>4, <1>5, <1>6 DEF MintRight
<1>8. (H.plan[b].parent = H.plan[c].parent) <=> (NsOf(H, b) = NsOf(H, c))
  BY <1>1, <1>4, <1>5, <1>7 DEF NsRight
<1> QED BY <1>4, <1>5, <1>8
===============================================================================
