---------------------------- MODULE PackRma_proofs ----------------------------
(***************************************************************************)
(* The safety of the PACK copy over host RMA, proved for any number of     *)
(* ranks, any program of calls and any assignment of staging slots, and    *)
(* that it implements ReshardSpec.                                         *)
(*                                                                         *)
(* The signals of a communicator carry no call number: a waiter takes      *)
(* whatever count has reached zero last.  The inductive invariant says     *)
(* which messages a counter stands for (Balanced) and that a message that  *)
(* has been taken has been sent (TakenSent).  That a waiter takes the      *)
(* message that it waits for, and none of a later call, follows from the   *)
(* order of a rank's calls on one communicator (InOrder).                  *)
(***************************************************************************)
EXTENDS PackRma, FiniteSetTheorems, TLAPS

Places == Inside \cup {"queued", "done"}

TypeOK ==
  /\ pc \in [Ranks -> [Calls -> Places]]
  /\ left \in [Ranks -> [Calls -> SUBSET Ranks]]
  /\ signal \in [Comms -> [Ranks -> [Ranks -> Nat]]]
  /\ mem \in [Ranks -> [Slots -> SUBSET (Calls \X Ranks)]]
  /\ output \in [Ranks -> [Calls -> SUBSET Ranks]]
  /\ failed \in [Ranks -> Calls \cup {NoCall}]

(* A rank begins a call after the calls before it. *)
InOrder ==
  \A r \in Ranks, i \in Calls :
    pc[r][i] # "queued" => \A j \in Before(r, i) : pc[r][j] = "done"

(* A rank is where its role in the call lets it be, with the peers that are left. *)
RolesKept ==
  \A r \in Ranks, i \in Calls :
    /\ pc[r][i] \in {"warm", "warmWait"} => Cold(i) /\ left[r][i] = Sources(r, i)
    /\ pc[r][i] = "grant" => Idest(r, i) /\ left[r][i] \subseteq Sources(r, i)
    /\ pc[r][i] \in {"awaitArrival", "unpack"} => Idest(r, i)
    /\ pc[r][i] \in {"pack", "awaitGrant"} => Isource(r, i)
    /\ pc[r][i] = "put" => Isource(r, i) /\ left[r][i] \subseteq Targets(r, i)

(* The messages of call i from x to y: the signal of the warm-up ring, and   *)
(* the grant or the arrival along their edge.                                *)
WarmSent(x, i) == pc[x][i] \notin {"queued", "warm"}
WarmTaken(y, i) == pc[y][i] \notin {"queued", "warm", "warmWait"}
GrantSent(d, s, i) ==
  s \in Sources(d, i) /\ (\/ pc[d][i] \in {"awaitArrival", "unpack", "done"}
                          \/ pc[d][i] = "grant" /\ s \notin left[d][i])
DataSent(x, y, i) == GrantSent(x, y, i) \/ ArrivalSent(x, y, i)
DataTaken(x, y, i) ==
  \/ x \in Sources(y, i) /\ pc[y][i] \in {"unpack", "done"}
  \/ x \in Targets(y, i) /\ pc[y][i] \in {"put", "done"}

(* What is taken has been sent. *)
TakenSent ==
  \A x, y \in Ranks, i \in Calls :
    /\ DataTaken(x, y, i) => DataSent(x, y, i)
    /\ Cold(i) /\ y = Next1(x) /\ WarmTaken(y, i) => WarmSent(x, i)

(* The messages under way. *)
Warm(c, x, y) ==
  {i \in Calls : Comm(i) = c /\ Cold(i) /\ y = Next1(x) /\ WarmSent(x, i) /\ ~WarmTaken(y, i)}
Data(c, x, y) == {i \in Calls : Comm(i) = c /\ DataSent(x, y, i) /\ ~DataTaken(x, y, i)}

Balanced ==
  \A c \in Comms, x, y \in Ranks :
    signal[c][x][y] = Cardinality(Warm(c, x, y)) + Cardinality(Data(c, x, y))

(* A rank's packed part, and the parts that have arrived, stay in the slot  *)
(* until they are put or unpacked.                                          *)
PartsHeld ==
  \A r \in Ranks, i \in Calls :
    /\ pc[r][i] \in {"awaitGrant", "put"} => <<i, r>> \in mem[r][Slot(r, i)]
    /\ \A s \in Sources(r, i) :
         ArrivalSent(s, r, i) /\ pc[r][i] \in {"grant", "awaitArrival", "unpack"}
           => <<i, s>> \in mem[r][Slot(r, i)]

Unpacked ==
  \A r \in Ranks, i \in Calls :
    output[r][i] = IF pc[r][i] = "done" THEN Sources(r, i) ELSE {}

IInv ==
  /\ TypeOK /\ InOrder /\ RolesKept /\ TakenSent /\ Balanced
  /\ PartsHeld /\ Unpacked

-----------------------------------------------------------------------------
(* The neighbours of the warm-up ring. *)
LEMMA Ring ==
  ASSUME NEW x \in Ranks, NEW y \in Ranks
  PROVE  /\ Next1(x) \in Ranks /\ Previous(x) \in Ranks
         /\ y = Next1(x) <=> x = Previous(y)
<1> USE RmaAssumption DEF Ranks
<1>1. \A r \in Ranks : Next1(r) = IF r = NumRanks - 1 THEN 0 ELSE r + 1
  BY SMT DEF Next1
<1>2. \A r \in Ranks : Previous(r) = IF r = 0 THEN NumRanks - 1 ELSE r - 1
  BY SMT DEF Previous
<1> QED BY <1>1, <1>2

(* The calls are numbered, finitely many, and an edge has one direction. *)
LEMMA Numbered ==
  /\ Calls \subseteq Nat \ {0} /\ IsFiniteSet(Calls)
  /\ \A i \in Calls : Comm(i) \in Comms /\ \A r \in Ranks : Slot(r, i) \in Slots
<1>1. Calls = 1 .. Len(Program) /\ Len(Program) \in Nat
  BY RmaAssumption DEF Calls
<1>2. IsFiniteSet(Calls)
  BY <1>1, FS_Interval
<1> QED BY <1>1, <1>2 DEF Comms, Slots

LEMMA OneDirection ==
  ASSUME NEW r \in Ranks, NEW s \in Ranks, NEW i \in Calls
  PROVE  /\ s \in Sources(r, i) <=> r \in Targets(s, i)
         /\ s \in Sources(r, i) => s \notin Targets(r, i)
         /\ Idest(r, i) => ~Isource(r, i) /\ Targets(r, i) = {}
         /\ Sources(r, i) \subseteq Ranks /\ Targets(r, i) \subseteq Ranks
BY RmaAssumption DEF Sources, Targets, Idest, Isource

-----------------------------------------------------------------------------
(* What a step does to the place of its own call, and that it moves no other. *)
Moves(r, i) ==
  \A x \in Ranks, j \in Calls :
    x # r \/ j # i => pc'[x][j] = pc[x][j] /\ left'[x][j] = left[x][j]

Jump(r, i, p, q, peers) == pc[r][i] = p /\ pc'[r][i] = q /\ left'[r][i] = peers

Begins(r, i) ==
  /\ Jump(r, i, "queued", IF Cold(i) THEN "warm" ELSE FirstStep(r, i), Sources(r, i))
  /\ \A j \in Before(r, i) : pc[r][j] = "done"

(* The steps that send nothing and take nothing. *)
Quiet(r, i) ==
  \/ Begins(r, i)
  \/ Jump(r, i, "unpack", "done", left[r][i])
  \/ Jump(r, i, "pack", "awaitGrant", left[r][i])

(* The steps that send: the signal of the warm-up, a grant, a part. *)
SendsWarm(r, i) == Jump(r, i, "warm", "warmWait", left[r][i])
Sends(r, i, y) ==
  /\ y \in left[r][i]
  /\ \/ Jump(r, i, "grant", IF left[r][i] = {y} THEN "awaitArrival" ELSE "grant", left[r][i] \ {y})
     \/ Jump(r, i, "put", IF left[r][i] = {y} THEN "done" ELSE "put", left[r][i] \ {y})

(* The steps that wait: for the neighbour, for arrivals, for grants. *)
TakesWarm(r, i) == Jump(r, i, "warmWait", FirstStep(r, i), left[r][i])
Takes(r, i, peers) ==
  \/ peers = Sources(r, i) /\ Jump(r, i, "awaitArrival", "unpack", left[r][i])
  \/ peers = Targets(r, i) /\ Jump(r, i, "awaitGrant", "put", peers)

(* What each step does to the counters. *)
SignalSent(c, x, y) ==
  \A c2 \in Comms, x2, y2 \in Ranks :
    signal'[c2][x2][y2] = IF c2 = c /\ x2 = x /\ y2 = y THEN signal[c2][x2][y2] + 1 ELSE signal[c2][x2][y2]
SignalsTaken(c, peers, y) ==
  /\ \A x \in peers : signal[c][x][y] > 0
  /\ \A c2 \in Comms, x2, y2 \in Ranks :
       signal'[c2][x2][y2] =
         IF c2 = c /\ x2 \in peers /\ y2 = y THEN signal[c2][x2][y2] - 1 ELSE signal[c2][x2][y2]

Kind(r, i) ==
  \/ Quiet(r, i) /\ UNCHANGED signal
  \/ SendsWarm(r, i) /\ SignalSent(Comm(i), r, Next1(r))
  \/ \E y \in Ranks : Sends(r, i, y) /\ SignalSent(Comm(i), r, y)
  \/ TakesWarm(r, i) /\ SignalsTaken(Comm(i), {Previous(r)}, r)
  \/ \E peers \in SUBSET Ranks : Takes(r, i, peers) /\ SignalsTaken(Comm(i), peers, r)

LEMMA SentSignal ==
  ASSUME TypeOK, NEW c \in Comms, NEW x \in Ranks, NEW y \in Ranks, Signal(c, x, y)
  PROVE  SignalSent(c, x, y) /\ signal' \in [Comms -> [Ranks -> [Ranks -> Nat]]]
BY DEF TypeOK, Signal, SignalSent

LEMMA TakenSignals ==
  ASSUME TypeOK, NEW c \in Comms, NEW peers \in SUBSET Ranks, NEW y \in Ranks,
         Signalled(c, peers, y), Consume(c, peers, y)
  PROVE  SignalsTaken(c, peers, y) /\ signal' \in [Comms -> [Ranks -> [Ranks -> Nat]]]
<1>1. signal[c] \in [Ranks -> [Ranks -> Nat]]
  BY DEF TypeOK
<1> DEFINE new == [x \in Ranks |-> [z \in Ranks |->
                     IF x \in peers /\ z = y THEN signal[c][x][z] - 1 ELSE signal[c][x][z]]]
<1>2. signal' = [signal EXCEPT ![c] = new]
  BY DEF Consume
<1>3. new \in [Ranks -> [Ranks -> Nat]]
  BY <1>1 DEF Signalled
<1>4. signal' \in [Comms -> [Ranks -> [Ranks -> Nat]]]
  BY <1>2, <1>3 DEF TypeOK
<1>5. SignalsTaken(c, peers, y)
  <2>1. \A x2, y2 \in Ranks : new[x2][y2] = IF x2 \in peers /\ y2 = y THEN signal[c][x2][y2] - 1
                                            ELSE signal[c][x2][y2]
    OBVIOUS
  <2> QED BY <1>2, <2>1 DEF SignalsTaken, Signalled, TypeOK
<1> QED BY <1>4, <1>5

(* Each step is one of these kinds, and keeps the types. *)
LEMMA FirstPlace ==
  ASSUME NEW r \in Ranks, NEW i \in Calls
  PROVE  /\ FirstStep(r, i) \in {"grant", "pack", "done"}
         /\ FirstStep(r, i) = "grant" => Idest(r, i)
         /\ FirstStep(r, i) = "pack" => Isource(r, i)
         /\ FirstStep(r, i) = "done" => ~Idest(r, i) /\ ~Isource(r, i)
BY DEF FirstStep

LEMMA StepKind ==
  ASSUME TypeOK, NEW r \in Ranks, NEW i \in Calls, Step(r, i)
  PROVE  /\ Moves(r, i) /\ Kind(r, i)
         /\ pc' \in [Ranks -> [Calls -> Places]]
         /\ left' \in [Ranks -> [Calls -> SUBSET Ranks]]
         /\ signal' \in [Comms -> [Ranks -> [Ranks -> Nat]]]
<1> USE DEF Kind, Moves, Jump
<1>0. /\ Comm(i) \in Comms /\ Next1(r) \in Ranks /\ Previous(r) \in Ranks
      /\ FirstStep(r, i) \in Places
      /\ Sources(r, i) \subseteq Ranks /\ Targets(r, i) \subseteq Ranks
  BY Numbered, Ring, FirstPlace, OneDirection DEF Places, Inside
<1>1. CASE Start(r, i)
  BY <1>0, <1>1 DEF Start, At, Goto, Reach, Quiet, Begins, TypeOK, Places, Inside
<1>2. CASE WarmSignal(r, i)
  BY <1>0, <1>2, SentSignal DEF WarmSignal, At, Goto, SendsWarm, TypeOK, Places, Inside
<1>3. CASE WarmWait(r, i)
  BY <1>0, <1>3, TakenSignals DEF WarmWait, At, Goto, TakesWarm, TypeOK, Places, Inside
<1>4. ASSUME NEW s \in Ranks, Grant(r, i, s)
      PROVE  Moves(r, i) /\ Kind(r, i) /\ pc' \in [Ranks -> [Calls -> Places]]
             /\ left' \in [Ranks -> [Calls -> SUBSET Ranks]]
             /\ signal' \in [Comms -> [Ranks -> [Ranks -> Nat]]]
  <2>1. SignalSent(Comm(i), r, s) /\ signal' \in [Comms -> [Ranks -> [Ranks -> Nat]]]
    BY <1>0, <1>4, SentSignal DEF Grant
  <2>2. Moves(r, i) /\ Sends(r, i, s)
    BY <1>4 DEF Grant, At, Goto, Reach, Sends, TypeOK
  <2> QED BY <1>4, <2>1, <2>2 DEF Grant, At, Goto, Reach, TypeOK, Places, Inside
<1>5. CASE AwaitArrival(r, i)
  <2>1. Takes(r, i, Sources(r, i))
    BY <1>5 DEF AwaitArrival, At, Goto, Takes, TypeOK
  <2> QED BY <1>0, <1>5, <2>1, TakenSignals DEF AwaitArrival, At, Goto, TypeOK, Places, Inside
<1>6. CASE Unpack(r, i)
  BY <1>0, <1>6 DEF Unpack, At, Goto, Quiet, TypeOK, Places, Inside
<1>7. CASE Pack(r, i)
  BY <1>0, <1>7 DEF Pack, At, Goto, Quiet, TypeOK, Places, Inside
<1>8. CASE AwaitGrant(r, i)
  <2>1. Takes(r, i, Targets(r, i))
    BY <1>8 DEF AwaitGrant, At, Goto, Reach, Takes, TypeOK
  <2> QED BY <1>0, <1>8, <2>1, TakenSignals DEF AwaitGrant, At, Goto, Reach, TypeOK, Places, Inside
<1>9. ASSUME NEW d \in Ranks, Put(r, i, d)
      PROVE  Moves(r, i) /\ Kind(r, i) /\ pc' \in [Ranks -> [Calls -> Places]]
             /\ left' \in [Ranks -> [Calls -> SUBSET Ranks]]
             /\ signal' \in [Comms -> [Ranks -> [Ranks -> Nat]]]
  <2>1. SignalSent(Comm(i), r, d) /\ signal' \in [Comms -> [Ranks -> [Ranks -> Nat]]]
    BY <1>0, <1>9, SentSignal DEF Put
  <2>2. Moves(r, i) /\ Sends(r, i, d)
    BY <1>9 DEF Put, At, Goto, Reach, Sends, TypeOK
  <2> QED BY <1>9, <2>1, <2>2 DEF Put, At, Goto, Reach, TypeOK, Places, Inside
<1> QED BY <1>1, <1>2, <1>3, <1>4, <1>5, <1>6, <1>7, <1>8, <1>9 DEF Step

-----------------------------------------------------------------------------
(* A rank that gives a call up keeps its place: only the host's epoch ends. *)
LEMMA TypePreserved ==
  ASSUME TypeOK, NEW r \in Ranks, NEW i \in Calls, Step(r, i) \/ Fail(r, i)
  PROVE  TypeOK'
<1>1. CASE Fail(r, i)
  BY <1>1 DEF Fail, TypeOK
<1>2. CASE Step(r, i)
  <2>1. /\ pc' \in [Ranks -> [Calls -> Places]]
        /\ left' \in [Ranks -> [Calls -> SUBSET Ranks]]
        /\ signal' \in [Comms -> [Ranks -> [Ranks -> Nat]]]
    BY <1>2, StepKind
  <2>2. \A x \in Ranks : Slot(x, i) \in Slots
    BY Numbered
  <2>3. mem' \in [Ranks -> [Slots -> SUBSET (Calls \X Ranks)]]
    <3>1. CASE Pack(r, i)
      BY <2>2, <3>1 DEF Pack, TypeOK
    <3>2. ASSUME NEW d \in Ranks, Put(r, i, d) PROVE mem' \in [Ranks -> [Slots -> SUBSET (Calls \X Ranks)]]
      BY <2>2, <3>2 DEF Put, Deposit, TypeOK
    <3>3. CASE UNCHANGED mem
      BY <3>3 DEF TypeOK
    <3> QED BY <1>2, <3>1, <3>2, <3>3
          DEF Step, Start, WarmSignal, WarmWait, Grant, AwaitArrival, Unpack, AwaitGrant
  <2>4. output' \in [Ranks -> [Calls -> SUBSET Ranks]]
    <3>1. CASE Unpack(r, i)
      BY <3>1, OneDirection DEF Unpack, TypeOK
    <3>2. CASE UNCHANGED output
      BY <3>2 DEF TypeOK
    <3> QED BY <1>2, <3>1, <3>2
          DEF Step, Start, WarmSignal, WarmWait, Grant, AwaitArrival, Pack, AwaitGrant, Put
  <2>5. failed' = failed
    BY <1>2 DEF Step, Start, WarmSignal, WarmWait, Grant, AwaitArrival, Unpack, Pack, AwaitGrant, Put
  <2> QED BY <2>1, <2>3, <2>4, <2>5 DEF TypeOK
<1> QED BY <1>1, <1>2

LEMMA InOrderPreserved ==
  ASSUME TypeOK, InOrder, NEW r \in Ranks, NEW i \in Calls, Step(r, i)
  PROVE  InOrder'
<1>1. Moves(r, i) /\ Kind(r, i)
  BY StepKind
<1>2. pc[r][i] # "done"
  BY <1>1 DEF Kind, Quiet, Begins, SendsWarm, Sends, TakesWarm, Takes, Jump
<1>3. pc[r][i] = "queued" => \A j \in Before(r, i) : pc[r][j] = "done"
  BY <1>1 DEF Kind, Quiet, Begins, SendsWarm, Sends, TakesWarm, Takes, Jump
<1>4. \A x \in Ranks, j \in Calls : Before(x, j) \subseteq Calls /\ j \notin Before(x, j)
  BY Numbered DEF Before
<1> SUFFICES ASSUME NEW x \in Ranks, NEW j \in Calls, pc'[x][j] # "queued", NEW k \in Before(x, j)
             PROVE  pc'[x][k] = "done"
  BY DEF InOrder, Before
<1>5. pc[x][k] = "done"
  BY <1>1, <1>3, <1>4 DEF InOrder, Moves
<1> QED BY <1>1, <1>2, <1>4, <1>5 DEF Moves

LEMMA RolesPreserved ==
  ASSUME TypeOK, RolesKept, NEW r \in Ranks, NEW i \in Calls, Step(r, i)
  PROVE  RolesKept'
<1>1. Moves(r, i) /\ Kind(r, i)
  BY StepKind
<1> DEFINE Kept(x, j, p, l) ==
      /\ p \in {"warm", "warmWait"} => Cold(j) /\ l = Sources(x, j)
      /\ p = "grant" => Idest(x, j) /\ l \subseteq Sources(x, j)
      /\ p \in {"awaitArrival", "unpack"} => Idest(x, j)
      /\ p \in {"pack", "awaitGrant"} => Isource(x, j)
      /\ p = "put" => Isource(x, j) /\ l \subseteq Targets(x, j)
<1>2. \A x \in Ranks, j \in Calls : Kept(x, j, pc[x][j], left[x][j])
  BY DEF RolesKept
<1>3. Kept(r, i, pc'[r][i], left'[r][i])
  <2>0. Kept(r, i, pc[r][i], left[r][i])
    BY <1>2
  <2>1. CASE Quiet(r, i)
    BY <2>0, <2>1, FirstPlace DEF Quiet, Begins, Jump
  <2>2. CASE SendsWarm(r, i) \/ TakesWarm(r, i)
    BY <2>0, <2>2, FirstPlace DEF SendsWarm, TakesWarm, Jump
  <2>3. ASSUME NEW y \in Ranks, Sends(r, i, y) PROVE Kept(r, i, pc'[r][i], left'[r][i])
    BY <2>0, <2>3 DEF Sends, Jump
  <2>4. ASSUME NEW peers \in SUBSET Ranks, Takes(r, i, peers) PROVE Kept(r, i, pc'[r][i], left'[r][i])
    BY <2>0, <2>4 DEF Takes, Jump
  <2> QED BY <1>1, <2>1, <2>2, <2>3, <2>4 DEF Kind
<1>4. \A x \in Ranks, j \in Calls : Kept(x, j, pc'[x][j], left'[x][j])
  <2> SUFFICES ASSUME NEW x \in Ranks, NEW j \in Calls PROVE Kept(x, j, pc'[x][j], left'[x][j])
    OBVIOUS
  <2>1. CASE x = r /\ j = i
    BY <1>3, <2>1
  <2>2. CASE x # r \/ j # i
    BY <1>1, <1>2, <2>2 DEF Moves
  <2> QED BY <2>1, <2>2
<1> QED BY <1>4 DEF RolesKept, Idest, Isource, Sources, Targets, Cold, Comm, Calls, Ranks

-----------------------------------------------------------------------------
(* What each kind of step adds to what has been sent and taken. *)
LEMMA Untouched ==
  ASSUME NEW r \in Ranks, NEW i \in Calls, Moves(r, i), NEW x \in Ranks, NEW y \in Ranks, NEW j \in Calls
  PROVE  /\ x # r \/ j # i => /\ WarmSent(x, j)' <=> WarmSent(x, j)
                              /\ DataSent(x, y, j)' <=> DataSent(x, y, j)
         /\ y # r \/ j # i => /\ WarmTaken(y, j)' <=> WarmTaken(y, j)
                              /\ DataTaken(x, y, j)' <=> DataTaken(x, y, j)
BY DEF Moves, WarmSent, WarmTaken, DataSent, DataTaken, GrantSent, ArrivalSent,
       Sources, Targets, Ranks

(* The same predicates of the next state: the roles of the ranks are constant. *)
LEMMA Afterwards ==
  ASSUME NEW x \in Ranks, NEW y \in Ranks, NEW j \in Calls
  PROVE  /\ WarmSent(x, j)' <=> pc'[x][j] \notin {"queued", "warm"}
         /\ WarmTaken(y, j)' <=> pc'[y][j] \notin {"queued", "warm", "warmWait"}
         /\ GrantSent(x, y, j)' <=>
              y \in Sources(x, j) /\ (\/ pc'[x][j] \in {"awaitArrival", "unpack", "done"}
                                      \/ pc'[x][j] = "grant" /\ y \notin left'[x][j])
         /\ ArrivalSent(x, y, j)' <=>
              y \in Targets(x, j) /\ (\/ pc'[x][j] = "done"
                                      \/ pc'[x][j] = "put" /\ y \notin left'[x][j])
         /\ DataTaken(x, y, j)' <=>
              \/ x \in Sources(y, j) /\ pc'[y][j] \in {"unpack", "done"}
              \/ x \in Targets(y, j) /\ pc'[y][j] \in {"put", "done"}
BY DEF WarmSent, WarmTaken, GrantSent, ArrivalSent, DataTaken, Sources, Targets, Ranks

SameTraffic(x, y, j) ==
  /\ Cold(j) => (WarmSent(x, j)' <=> WarmSent(x, j)) /\ (WarmTaken(y, j)' <=> WarmTaken(y, j))
  /\ DataSent(x, y, j)' <=> DataSent(x, y, j)
  /\ DataTaken(x, y, j)' <=> DataTaken(x, y, j)

LEMMA QuietTraffic ==
  ASSUME RolesKept, NEW r \in Ranks, NEW i \in Calls, Moves(r, i), Quiet(r, i),
         NEW x \in Ranks, NEW y \in Ranks, NEW j \in Calls
  PROVE  SameTraffic(x, y, j)
<1>0. /\ Idest(r, i) <=> Sources(r, i) # {}
      /\ Isource(r, i) <=> Targets(r, i) # {}
      /\ Idest(r, i) => ~Isource(r, i)
  BY OneDirection DEF Idest, Isource
<1>1. Cold(i) => (WarmSent(r, i)' <=> WarmSent(r, i)) /\ (WarmTaken(r, i)' <=> WarmTaken(r, i))
  BY Afterwards, FirstPlace DEF Quiet, Begins, Jump, WarmSent, WarmTaken
<1>2. DataTaken(x, r, i)' <=> DataTaken(x, r, i)
  <2>1. CASE Begins(r, i)
    BY <1>0, <2>1, Afterwards, FirstPlace DEF Begins, Jump, DataTaken
  <2>2. CASE Jump(r, i, "unpack", "done", left[r][i])
    BY <1>0, <2>2, Afterwards DEF Jump, DataTaken, RolesKept
  <2>3. CASE Jump(r, i, "pack", "awaitGrant", left[r][i])
    BY <2>3, Afterwards DEF Jump, DataTaken
  <2> QED BY <2>1, <2>2, <2>3 DEF Quiet
<1>3. DataSent(r, y, i)' <=> DataSent(r, y, i)
  <2>0. DataSent(r, y, i)' <=> GrantSent(r, y, i)' \/ ArrivalSent(r, y, i)'
    BY DEF DataSent
  <2>1. CASE Begins(r, i)
    BY <1>0, <2>0, <2>1, Afterwards, FirstPlace DEF Begins, Jump, DataSent, GrantSent, ArrivalSent
  <2>2. CASE Jump(r, i, "unpack", "done", left[r][i])
    BY <1>0, <2>0, <2>2, Afterwards DEF Jump, DataSent, GrantSent, ArrivalSent, RolesKept
  <2>3. CASE Jump(r, i, "pack", "awaitGrant", left[r][i])
    BY <2>0, <2>3, Afterwards DEF Jump, DataSent, GrantSent, ArrivalSent
  <2> QED BY <2>1, <2>2, <2>3 DEF Quiet
<1> QED BY <1>1, <1>2, <1>3, Untouched DEF SameTraffic

(* A send adds its message, which was not there, and nothing else. *)
LEMMA SendTraffic ==
  ASSUME RolesKept, NEW r \in Ranks, NEW i \in Calls, Moves(r, i), NEW s \in Ranks, Sends(r, i, s),
         NEW x \in Ranks, NEW y \in Ranks, NEW j \in Calls
  PROVE  /\ ~(x = r /\ y = s /\ j = i) => SameTraffic(x, y, j)
         /\ ~DataSent(r, s, i) /\ DataSent(r, s, i)'
         /\ DataTaken(x, y, j)' <=> DataTaken(x, y, j)
         /\ Cold(j) => (WarmSent(x, j)' <=> WarmSent(x, j)) /\ (WarmTaken(y, j)' <=> WarmTaken(y, j))
<1>0. /\ pc[r][i] = "grant" => s \in Sources(r, i) /\ Targets(r, i) = {}
      /\ pc[r][i] = "put" => s \in Targets(r, i) /\ Sources(r, i) = {}
      /\ pc[r][i] \in {"grant", "put"}
  BY OneDirection DEF RolesKept, Sends, Jump, Idest, Isource
<1>1. DataSent(r, y, i)' <=> DataSent(r, y, i) \/ y = s
  <2>0. DataSent(r, y, i)' <=> GrantSent(r, y, i)' \/ ArrivalSent(r, y, i)'
    BY DEF DataSent
  <2>1. CASE pc[r][i] = "grant"
    BY <1>0, <2>0, <2>1, Afterwards DEF Sends, Jump, DataSent, GrantSent, ArrivalSent
  <2>2. CASE pc[r][i] = "put"
    BY <1>0, <2>0, <2>2, Afterwards DEF Sends, Jump, DataSent, GrantSent, ArrivalSent
  <2> QED BY <1>0, <2>1, <2>2
<1>2. ~DataSent(r, s, i)
  BY <1>0 DEF Sends, DataSent, GrantSent, ArrivalSent
<1>3. DataSent(r, s, i)'
  <2>0. DataSent(r, s, i)' <=> GrantSent(r, s, i)' \/ ArrivalSent(r, s, i)'
    BY DEF DataSent
  <2> QED BY <1>0, <2>0, Afterwards DEF Sends, Jump
<1>4. (WarmSent(r, i)' <=> WarmSent(r, i)) /\ (WarmTaken(r, i)' <=> WarmTaken(r, i))
  BY Afterwards DEF Sends, Jump, WarmSent, WarmTaken
<1>5. DataTaken(x, r, i)' <=> DataTaken(x, r, i)
  BY <1>0, Afterwards DEF Sends, Jump, DataTaken
<1> QED BY <1>1, <1>2, <1>3, <1>4, <1>5, Untouched DEF SameTraffic

LEMMA WarmTraffic ==
  ASSUME RolesKept, NEW r \in Ranks, NEW i \in Calls, Moves(r, i), SendsWarm(r, i) \/ TakesWarm(r, i),
         NEW x \in Ranks, NEW y \in Ranks, NEW j \in Calls
  PROVE  /\ DataSent(x, y, j)' <=> DataSent(x, y, j)
         /\ DataTaken(x, y, j)' <=> DataTaken(x, y, j)
         /\ Cold(i)
         /\ SendsWarm(r, i) => /\ WarmSent(x, j)' <=> WarmSent(x, j) \/ (x = r /\ j = i)
                               /\ WarmTaken(y, j)' <=> WarmTaken(y, j)
                               /\ ~WarmSent(r, i)
         /\ TakesWarm(r, i) => /\ WarmSent(x, j)' <=> WarmSent(x, j)
                               /\ WarmTaken(y, j)' <=> WarmTaken(y, j) \/ (y = r /\ j = i)
                               /\ ~WarmTaken(r, i)
<1>0. /\ Idest(r, i) <=> Sources(r, i) # {}
      /\ Isource(r, i) <=> Targets(r, i) # {}
      /\ Cold(i) /\ left[r][i] = Sources(r, i)
  BY DEF Idest, Isource, RolesKept, SendsWarm, TakesWarm, Jump
<1>1. DataTaken(x, r, i)' <=> DataTaken(x, r, i)
  BY <1>0, Afterwards, FirstPlace DEF SendsWarm, TakesWarm, Jump, DataTaken
<1>2. DataSent(r, y, i)' <=> DataSent(r, y, i)
  <2>0. DataSent(r, y, i)' <=> GrantSent(r, y, i)' \/ ArrivalSent(r, y, i)'
    BY DEF DataSent
  <2>1. CASE SendsWarm(r, i)
    BY <2>0, <2>1, Afterwards DEF SendsWarm, Jump, DataSent, GrantSent, ArrivalSent
  <2>2. CASE TakesWarm(r, i)
    BY <1>0, <2>0, <2>2, Afterwards, FirstPlace DEF TakesWarm, Jump, DataSent, GrantSent, ArrivalSent
  <2> QED BY <2>1, <2>2
<1>3. SendsWarm(r, i) => WarmSent(r, i)' /\ (WarmTaken(r, i)' <=> WarmTaken(r, i)) /\ ~WarmSent(r, i)
  BY Afterwards DEF SendsWarm, Jump, WarmSent, WarmTaken
<1>4. TakesWarm(r, i) => (WarmSent(r, i)' <=> WarmSent(r, i)) /\ WarmTaken(r, i)' /\ ~WarmTaken(r, i)
  BY Afterwards, FirstPlace DEF TakesWarm, Jump, WarmSent, WarmTaken
<1> QED BY <1>0, <1>1, <1>2, <1>3, <1>4, Untouched

LEMMA TakeTraffic ==
  ASSUME RolesKept, NEW r \in Ranks, NEW i \in Calls, Moves(r, i), NEW peers \in SUBSET Ranks,
         Takes(r, i, peers), NEW x \in Ranks, NEW y \in Ranks, NEW j \in Calls
  PROVE  /\ (WarmSent(x, j)' <=> WarmSent(x, j)) /\ (WarmTaken(y, j)' <=> WarmTaken(y, j))
         /\ DataSent(x, y, j)' <=> DataSent(x, y, j)
         /\ DataTaken(x, y, j)' <=> DataTaken(x, y, j) \/ (y = r /\ j = i /\ x \in peers)
         /\ x \in peers => ~DataTaken(x, r, i)
<1>0. \/ pc[r][i] = "awaitArrival" /\ peers = Sources(r, i) /\ Targets(r, i) = {}
      \/ pc[r][i] = "awaitGrant" /\ peers = Targets(r, i) /\ Sources(r, i) = {}
  BY OneDirection DEF Takes, Jump, RolesKept, Idest, Isource
<1>1. /\ DataTaken(x, r, i)' <=> DataTaken(x, r, i) \/ x \in peers
      /\ x \in peers => ~DataTaken(x, r, i)
  BY <1>0, Afterwards DEF Takes, Jump, DataTaken
<1>2. DataSent(r, y, i)' <=> DataSent(r, y, i)
  <2>0. DataSent(r, y, i)' <=> GrantSent(r, y, i)' \/ ArrivalSent(r, y, i)'
    BY DEF DataSent
  <2> QED BY <1>0, <2>0, Afterwards DEF Takes, Jump, DataSent, GrantSent, ArrivalSent
<1>3. (WarmSent(r, i)' <=> WarmSent(r, i)) /\ (WarmTaken(r, i)' <=> WarmTaken(r, i))
  BY Afterwards DEF Takes, Jump, WarmSent, WarmTaken
<1> QED BY <1>1, <1>2, <1>3, Untouched

-----------------------------------------------------------------------------
(* A waiter's count can only be the message it waits for: the messages of    *)
(* earlier calls have been taken, and one of a later call is sent after it.  *)
LEMMA SomethingSent ==
  ASSUME Balanced, NEW c \in Comms, NEW x \in Ranks, NEW y \in Ranks, signal[c][x][y] > 0
  PROVE  \E j \in Calls : Comm(j) = c /\ (j \in Warm(c, x, y) \/ j \in Data(c, x, y))
<1>1. Warm(c, x, y) # {} \/ Data(c, x, y) # {}
  <2> SUFFICES ASSUME Warm(c, x, y) = {}, Data(c, x, y) = {} PROVE FALSE
    OBVIOUS
  <2>1. signal[c][x][y] = 0 + 0
    BY FS_EmptySet DEF Balanced
  <2> QED BY <2>1
<1> QED BY <1>1 DEF Warm, Data

LEMMA AwaitedData ==
  ASSUME TypeOK, InOrder, RolesKept, Balanced, NEW r \in Ranks, NEW i \in Calls,
         NEW peers \in SUBSET Ranks, Takes(r, i, peers), NEW x \in peers, signal[Comm(i)][x][r] > 0
  PROVE  DataSent(x, r, i) /\ i \in Data(Comm(i), x, r)
<1>0. /\ pc[r][i] \in {"awaitArrival", "awaitGrant"} /\ x \in Ranks /\ Comm(i) \in Comms
      /\ \/ pc[r][i] = "awaitArrival" /\ x \in Sources(r, i)
         \/ pc[r][i] = "awaitGrant" /\ x \in Targets(r, i)
  BY Numbered DEF Takes, Jump
<1>1. PICK j \in Calls : Comm(j) = Comm(i) /\ (j \in Warm(Comm(i), x, r) \/ j \in Data(Comm(i), x, r))
  BY <1>0, SomethingSent
<1>2. i \in Nat /\ j \in Nat
  BY Numbered
<1>3. j < i => pc[r][j] = "done"
  BY <1>0, <1>1 DEF InOrder, Before
<1>4. j > i => pc[x][j] = "queued" \/ pc[x][i] = "done"
  BY <1>0, <1>1, <1>2 DEF InOrder, Before
<1>5. ~DataTaken(x, r, i)
  BY <1>0, OneDirection DEF DataTaken
<1>6. pc[x][i] = "done" => DataSent(x, r, i)
  BY <1>0, OneDirection DEF DataSent, GrantSent, ArrivalSent
<1>7. DataSent(x, r, i)
  <2>1. CASE j \in Warm(Comm(i), x, r)
    <3>1. Cold(j) /\ ~WarmTaken(r, j)
      BY <2>1 DEF Warm
    <3>2. ~(i < j)
      BY <1>1, <3>1 DEF Cold
    <3> QED BY <1>0, <1>2, <1>3, <3>1, <3>2 DEF WarmTaken
  <2>2. CASE j \in Data(Comm(i), x, r)
    <3>1. DataSent(x, r, j) /\ ~DataTaken(x, r, j)
      BY <2>2 DEF Data
    <3>2. pc[x][j] # "queued"
      BY <3>1 DEF DataSent, GrantSent, ArrivalSent
    <3>3. ~(j < i)
      BY <1>0, <1>3, <3>1, OneDirection DEF DataSent, DataTaken, GrantSent, ArrivalSent
    <3> QED BY <1>2, <1>4, <1>6, <3>1, <3>2, <3>3
  <2> QED BY <1>1, <2>1, <2>2
<1> QED BY <1>5, <1>7 DEF Data

LEMMA AwaitedWarm ==
  ASSUME TypeOK, InOrder, RolesKept, Balanced, NEW r \in Ranks, NEW i \in Calls,
         TakesWarm(r, i), NEW x \in Ranks, x = Previous(r), signal[Comm(i)][x][r] > 0
  PROVE  WarmSent(x, i) /\ i \in Warm(Comm(i), x, r)
<1>0. pc[r][i] = "warmWait" /\ Cold(i) /\ Comm(i) \in Comms /\ r = Next1(x)
  BY Numbered, Ring DEF TakesWarm, Jump, RolesKept
<1>1. PICK j \in Calls : Comm(j) = Comm(i) /\ (j \in Warm(Comm(i), x, r) \/ j \in Data(Comm(i), x, r))
  BY <1>0, SomethingSent
<1>2. i \in Nat /\ j \in Nat /\ ~(j < i)
  BY <1>0, <1>1, Numbered DEF Cold
<1>3. j > i => pc[x][j] = "queued" \/ pc[x][i] = "done"
  BY <1>0, <1>1, <1>2 DEF InOrder, Before
<1>4. pc[x][j] \notin {"queued", "warm"}
  BY <1>1 DEF Warm, Data, WarmSent, DataSent, GrantSent, ArrivalSent
<1>5. WarmSent(x, i)
  BY <1>2, <1>3, <1>4 DEF WarmSent
<1> QED BY <1>0, <1>5 DEF Warm, WarmTaken

LEMMA TakenSentPreserved ==
  ASSUME TypeOK, InOrder, RolesKept, TakenSent, Balanced, NEW r \in Ranks, NEW i \in Calls, Step(r, i)
  PROVE  TakenSent'
<1>1. Moves(r, i) /\ Kind(r, i)
  BY StepKind
<1> SUFFICES ASSUME NEW x \in Ranks, NEW y \in Ranks, NEW j \in Calls
             PROVE  /\ DataTaken(x, y, j)' => DataSent(x, y, j)'
                    /\ Cold(j) /\ y = Next1(x) /\ WarmTaken(y, j)' => WarmSent(x, j)'
  BY DEF TakenSent, Cold, Comm, Next1, Calls, Ranks
<1>2. /\ DataTaken(x, y, j) => DataSent(x, y, j)
      /\ Cold(j) /\ y = Next1(x) /\ WarmTaken(y, j) => WarmSent(x, j)
  BY DEF TakenSent
<1>3. CASE Quiet(r, i)
  BY <1>1, <1>2, <1>3, QuietTraffic DEF SameTraffic
<1>4. ASSUME NEW s \in Ranks, Sends(r, i, s)
      PROVE  /\ DataTaken(x, y, j)' => DataSent(x, y, j)'
             /\ Cold(j) /\ y = Next1(x) /\ WarmTaken(y, j)' => WarmSent(x, j)'
  BY <1>1, <1>2, <1>4, SendTraffic DEF SameTraffic
<1>5. CASE SendsWarm(r, i)
  BY <1>1, <1>2, <1>5, WarmTraffic
<1>6. CASE TakesWarm(r, i) /\ SignalsTaken(Comm(i), {Previous(r)}, r)
  <2>1. WarmSent(Previous(r), i) /\ Previous(r) \in Ranks
    BY <1>6, AwaitedWarm, Ring DEF SignalsTaken
  <2>2. y = Next1(x) => x = Previous(y)
    BY Ring
  <2> QED BY <1>1, <1>2, <1>6, <2>1, <2>2, WarmTraffic
<1>7. ASSUME NEW peers \in SUBSET Ranks, Takes(r, i, peers), SignalsTaken(Comm(i), peers, r)
      PROVE  /\ DataTaken(x, y, j)' => DataSent(x, y, j)'
             /\ Cold(j) /\ y = Next1(x) /\ WarmTaken(y, j)' => WarmSent(x, j)'
  <2>1. x \in peers => DataSent(x, r, i)
    BY <1>7, AwaitedData DEF SignalsTaken
  <2> QED BY <1>1, <1>2, <1>7, <2>1, TakeTraffic
<1> QED BY <1>1, <1>3, <1>4, <1>5, <1>6, <1>7 DEF Kind

LEMMA UnderWay ==
  ASSUME NEW c \in Comms, NEW x \in Ranks, NEW y \in Ranks
  PROVE  /\ IsFiniteSet(Warm(c, x, y)) /\ IsFiniteSet(Data(c, x, y))
         /\ Cardinality(Warm(c, x, y)) \in Nat /\ Cardinality(Data(c, x, y)) \in Nat
         /\ \A j : j \in Warm(c, x, y) <=>
              j \in Calls /\ Comm(j) = c /\ Cold(j) /\ y = Next1(x) /\ WarmSent(x, j) /\ ~WarmTaken(y, j)
         /\ \A j : j \in Warm(c, x, y)' <=>
              j \in Calls /\ Comm(j) = c /\ Cold(j) /\ y = Next1(x) /\ WarmSent(x, j)' /\ ~WarmTaken(y, j)'
         /\ \A j : j \in Data(c, x, y) <=>
              j \in Calls /\ Comm(j) = c /\ DataSent(x, y, j) /\ ~DataTaken(x, y, j)
         /\ \A j : j \in Data(c, x, y)' <=>
              j \in Calls /\ Comm(j) = c /\ DataSent(x, y, j)' /\ ~DataTaken(x, y, j)'
<1>1. Warm(c, x, y) \subseteq Calls /\ Data(c, x, y) \subseteq Calls /\ IsFiniteSet(Calls)
  BY Numbered DEF Warm, Data
<1>2. IsFiniteSet(Warm(c, x, y)) /\ IsFiniteSet(Data(c, x, y))
  BY <1>1, FS_Subset
<1>3. Cardinality(Warm(c, x, y)) \in Nat /\ Cardinality(Data(c, x, y)) \in Nat
  BY <1>2, FS_CardinalityType
<1>4. \A j : j \in Warm(c, x, y)' <=>
        j \in Calls /\ Comm(j) = c /\ Cold(j) /\ y = Next1(x) /\ WarmSent(x, j)' /\ ~WarmTaken(y, j)'
  BY DEF Warm, Calls, Comm, Cold, Next1
<1>5. \A j : j \in Data(c, x, y)' <=>
        j \in Calls /\ Comm(j) = c /\ DataSent(x, y, j)' /\ ~DataTaken(x, y, j)'
  BY DEF Data, Calls, Comm
<1> QED BY <1>2, <1>3, <1>4, <1>5 DEF Warm, Data

LEMMA WarmSame ==
  ASSUME NEW c \in Comms, NEW x \in Ranks, NEW y \in Ranks,
         \A j \in Calls : Comm(j) = c /\ Cold(j) /\ y = Next1(x) =>
           (WarmSent(x, j)' /\ ~WarmTaken(y, j)' <=> WarmSent(x, j) /\ ~WarmTaken(y, j))
  PROVE  Warm(c, x, y)' = Warm(c, x, y)
<1>1. \A j : j \in Warm(c, x, y)' <=> j \in Warm(c, x, y)
  BY UnderWay
<1> QED BY <1>1

LEMMA DataSame ==
  ASSUME NEW c \in Comms, NEW x \in Ranks, NEW y \in Ranks,
         \A j \in Calls : Comm(j) = c =>
           (DataSent(x, y, j)' /\ ~DataTaken(x, y, j)' <=> DataSent(x, y, j) /\ ~DataTaken(x, y, j))
  PROVE  Data(c, x, y)' = Data(c, x, y)
<1>1. \A j : j \in Data(c, x, y)' <=> j \in Data(c, x, y)
  BY UnderWay
<1> QED BY <1>1

(* One message more, one message less. *)
LEMMA OneMore ==
  ASSUME NEW S, NEW T, IsFiniteSet(S), NEW i, i \notin S, \A j : j \in T <=> j \in S \/ j = i
  PROVE  Cardinality(T) = Cardinality(S) + 1
<1>1. T = S \cup {i}
  OBVIOUS
<1> QED BY <1>1, FS_AddElement

LEMMA OneLess ==
  ASSUME NEW S, NEW T, IsFiniteSet(S), NEW i, i \in S, \A j : j \in T <=> j \in S /\ j # i
  PROVE  Cardinality(T) = Cardinality(S) - 1
<1>1. T = S \ {i}
  OBVIOUS
<1> QED BY <1>1, FS_RemoveElement

LEMMA BalancedPreserved ==
  ASSUME TypeOK, InOrder, RolesKept, TakenSent, Balanced, NEW r \in Ranks, NEW i \in Calls, Step(r, i)
  PROVE  Balanced'
<1>1. Moves(r, i) /\ Kind(r, i) /\ Comm(i) \in Comms
  BY StepKind, Numbered
<1> SUFFICES ASSUME NEW c \in Comms, NEW x \in Ranks, NEW y \in Ranks
             PROVE  signal'[c][x][y] = Cardinality(Warm(c, x, y)') + Cardinality(Data(c, x, y)')
  BY DEF Balanced, Comms, Comm, Calls, Ranks
<1>2. /\ signal[c][x][y] = Cardinality(Warm(c, x, y)) + Cardinality(Data(c, x, y))
      /\ Cardinality(Warm(c, x, y)) \in Nat /\ Cardinality(Data(c, x, y)) \in Nat
      /\ IsFiniteSet(Warm(c, x, y)) /\ IsFiniteSet(Data(c, x, y))
  BY UnderWay DEF Balanced
<1>3. CASE Quiet(r, i) /\ UNCHANGED signal
  <2>1. \A j \in Calls : SameTraffic(x, y, j)
    BY <1>1, <1>3, QuietTraffic
  <2>2. Warm(c, x, y)' = Warm(c, x, y) /\ Data(c, x, y)' = Data(c, x, y)
    BY <2>1, WarmSame, DataSame DEF SameTraffic
  <2> QED BY <1>2, <1>3, <2>2
<1>4. CASE SendsWarm(r, i) /\ SignalSent(Comm(i), r, Next1(r))
  <2>1. \A j \in Calls :
          /\ DataSent(x, y, j)' <=> DataSent(x, y, j)
          /\ DataTaken(x, y, j)' <=> DataTaken(x, y, j)
          /\ WarmSent(x, j)' <=> WarmSent(x, j) \/ (x = r /\ j = i)
          /\ WarmTaken(y, j)' <=> WarmTaken(y, j)
    BY <1>1, <1>4, WarmTraffic
  <2>2. Data(c, x, y)' = Data(c, x, y)
    BY <2>1, DataSame
  <2>3. CASE c = Comm(i) /\ x = r /\ y = Next1(r)
    <3>1. ~WarmSent(x, i) /\ Cold(i)
      BY <1>1, <1>4, <2>3, WarmTraffic
    <3>2. ~WarmTaken(y, i)
      BY <2>3, <3>1 DEF TakenSent
    <3>3. i \notin Warm(c, x, y) /\ \A j : j \in Warm(c, x, y)' <=> j \in Warm(c, x, y) \/ j = i
      BY <2>1, <2>3, <3>1, <3>2, UnderWay
    <3>4. Cardinality(Warm(c, x, y)') = Cardinality(Warm(c, x, y)) + 1
      BY <1>2, <3>3, OneMore
    <3> QED BY <1>2, <1>4, <2>2, <2>3, <3>4 DEF SignalSent
  <2>4. CASE ~(c = Comm(i) /\ x = r /\ y = Next1(r))
    <3>1. Warm(c, x, y)' = Warm(c, x, y)
      BY <2>1, <2>4, WarmSame
    <3> QED BY <1>2, <1>4, <2>2, <2>4, <3>1 DEF SignalSent
  <2> QED BY <2>3, <2>4
<1>5. ASSUME NEW s \in Ranks, Sends(r, i, s), SignalSent(Comm(i), r, s)
      PROVE  signal'[c][x][y] = Cardinality(Warm(c, x, y)') + Cardinality(Data(c, x, y)')
  <2>1. \A j \in Calls :
          /\ ~(x = r /\ y = s /\ j = i) => (DataSent(x, y, j)' <=> DataSent(x, y, j))
          /\ DataTaken(x, y, j)' <=> DataTaken(x, y, j)
          /\ Cold(j) => (WarmSent(x, j)' <=> WarmSent(x, j)) /\ (WarmTaken(y, j)' <=> WarmTaken(y, j))
    BY <1>1, <1>5, SendTraffic DEF SameTraffic
  <2>2. Warm(c, x, y)' = Warm(c, x, y)
    BY <2>1, WarmSame
  <2>3. CASE c = Comm(i) /\ x = r /\ y = s
    <3>1. ~DataSent(x, y, i) /\ DataSent(x, y, i)'
      BY <1>1, <1>5, <2>3, SendTraffic
    <3>2. ~DataTaken(x, y, i)
      BY <3>1 DEF TakenSent
    <3>3. i \notin Data(c, x, y) /\ \A j : j \in Data(c, x, y)' <=> j \in Data(c, x, y) \/ j = i
      BY <2>1, <2>3, <3>1, <3>2, UnderWay
    <3>4. Cardinality(Data(c, x, y)') = Cardinality(Data(c, x, y)) + 1
      BY <1>2, <3>3, OneMore
    <3> QED BY <1>2, <1>5, <2>2, <2>3, <3>4 DEF SignalSent
  <2>4. CASE ~(c = Comm(i) /\ x = r /\ y = s)
    <3>1. Data(c, x, y)' = Data(c, x, y)
      BY <2>1, <2>4, DataSame
    <3> QED BY <1>2, <1>5, <2>2, <2>4, <3>1 DEF SignalSent
  <2> QED BY <2>3, <2>4
<1>6. CASE TakesWarm(r, i) /\ SignalsTaken(Comm(i), {Previous(r)}, r)
  <2>1. \A j \in Calls :
          /\ DataSent(x, y, j)' <=> DataSent(x, y, j)
          /\ DataTaken(x, y, j)' <=> DataTaken(x, y, j)
          /\ WarmSent(x, j)' <=> WarmSent(x, j)
          /\ WarmTaken(y, j)' <=> WarmTaken(y, j) \/ (y = r /\ j = i)
    BY <1>1, <1>6, WarmTraffic
  <2>2. Data(c, x, y)' = Data(c, x, y)
    BY <2>1, DataSame
  <2>3. CASE c = Comm(i) /\ x = Previous(r) /\ y = r
    <3>1. i \in Warm(c, x, y)
      BY <1>1, <1>6, <2>3, AwaitedWarm DEF SignalsTaken
    <3>2. \A j : j \in Warm(c, x, y)' <=> j \in Warm(c, x, y) /\ j # i
      BY <2>1, <2>3, UnderWay
    <3>3. Cardinality(Warm(c, x, y)') = Cardinality(Warm(c, x, y)) - 1
      BY <1>2, <3>1, <3>2, OneLess
    <3> QED BY <1>2, <1>6, <2>2, <2>3, <3>3 DEF SignalsTaken
  <2>4. CASE ~(c = Comm(i) /\ x = Previous(r) /\ y = r)
    <3>1. y = Next1(x) /\ y = r => x = Previous(r)
      BY Ring
    <3>2. Warm(c, x, y)' = Warm(c, x, y)
      BY <2>1, <2>4, <3>1, WarmSame
    <3> QED BY <1>2, <1>6, <2>2, <2>4, <3>2 DEF SignalsTaken
  <2> QED BY <2>3, <2>4
<1>7. ASSUME NEW peers \in SUBSET Ranks, Takes(r, i, peers), SignalsTaken(Comm(i), peers, r)
      PROVE  signal'[c][x][y] = Cardinality(Warm(c, x, y)') + Cardinality(Data(c, x, y)')
  <2>1. \A j \in Calls :
          /\ (WarmSent(x, j)' <=> WarmSent(x, j)) /\ (WarmTaken(y, j)' <=> WarmTaken(y, j))
          /\ DataSent(x, y, j)' <=> DataSent(x, y, j)
          /\ DataTaken(x, y, j)' <=> DataTaken(x, y, j) \/ (y = r /\ j = i /\ x \in peers)
    <3> TAKE j \in Calls
    <3> QED BY <1>1, <1>7, TakeTraffic
  <2>2. Warm(c, x, y)' = Warm(c, x, y)
    BY <2>1, WarmSame
  <2>3. CASE c = Comm(i) /\ x \in peers /\ y = r
    <3>1. i \in Data(c, x, y)
      BY <1>1, <1>7, <2>3, AwaitedData DEF SignalsTaken
    <3>2. \A j : j \in Data(c, x, y)' <=> j \in Data(c, x, y) /\ j # i
      BY <2>1, <2>3, UnderWay
    <3>3. Cardinality(Data(c, x, y)') = Cardinality(Data(c, x, y)) - 1
      BY <1>2, <3>1, <3>2, OneLess
    <3> QED BY <1>2, <1>7, <2>2, <2>3, <3>3 DEF SignalsTaken
  <2>4. CASE ~(c = Comm(i) /\ x \in peers /\ y = r)
    <3>1. Data(c, x, y)' = Data(c, x, y)
      BY <2>1, <2>4, DataSame
    <3> QED BY <1>2, <1>7, <2>2, <2>4, <3>1 DEF SignalsTaken
  <2> QED BY <2>3, <2>4
<1> QED BY <1>1, <1>3, <1>4, <1>5, <1>6, <1>7 DEF Kind

-----------------------------------------------------------------------------
(* A part is put only while its destination stands between its grant and its *)
(* unpacking.                                                                *)
LEMMA Leased ==
  ASSUME TypeOK, TakenSent, RolesKept,
         NEW s \in Ranks, NEW d \in Ranks, NEW i \in Calls, pc[s][i] = "put", d \in left[s][i]
  PROVE  pc[d][i] \in {"grant", "awaitArrival"}
<1>1. d \in Targets(s, i) /\ s \in Sources(d, i) /\ Sources(s, i) = {}
  BY OneDirection DEF RolesKept, Idest, Isource
<1>2. DataSent(d, s, i)
  BY <1>1 DEF TakenSent, DataTaken
<1>3. GrantSent(d, s, i)
  BY <1>1, <1>2, OneDirection DEF DataSent, ArrivalSent
<1>4. ~DataSent(s, d, i)
  BY <1>1 DEF DataSent, GrantSent, ArrivalSent
<1>5. pc[d][i] \notin {"unpack", "done"}
  BY <1>1, <1>4 DEF TakenSent, DataTaken
<1> QED BY <1>3, <1>5 DEF GrantSent

(* One call at a time is active in a slot. *)
LEMMA OneUser ==
  ASSUME InOrder, NEW r \in Ranks, NEW i \in Calls, NEW j \in Calls, Slot(r, i) = Slot(r, j),
         pc[r][i] \notin {"queued", "done"}, pc[r][j] \notin {"queued", "done"}
  PROVE  i = j
<1>1. i \in Nat /\ j \in Nat
  BY Numbered
<1> QED BY <1>1 DEF InOrder, Before

(* A part that is sent, is sent to a destination that has granted it. *)
LEMMA ArrivalGranted ==
  ASSUME TakenSent, NEW s \in Ranks, NEW d \in Ranks, NEW i \in Calls, ArrivalSent(s, d, i)
  PROVE  pc[d][i] \in {"grant", "awaitArrival", "unpack", "done"}
<1>1. d \in Targets(s, i) /\ s \in Sources(d, i) /\ d \notin Sources(s, i) /\ s \notin Targets(d, i)
  BY OneDirection DEF ArrivalSent
<1>2. DataTaken(d, s, i)
  BY <1>1 DEF ArrivalSent, DataTaken
<1>3. GrantSent(d, s, i)
  BY <1>1, <1>2 DEF TakenSent, DataSent, ArrivalSent
<1> QED BY <1>3 DEF GrantSent

(* A destination that has its arrivals has the parts of all its sources. *)
LEMMA ArrivedAll ==
  ASSUME TakenSent, PartsHeld, NEW d \in Ranks, NEW i \in Calls, pc[d][i] = "unpack",
         NEW s \in Sources(d, i)
  PROVE  ArrivalSent(s, d, i) /\ <<i, s>> \in mem[d][Slot(d, i)]
<1>1. s \in Ranks /\ d \in Targets(s, i) /\ d \notin Sources(s, i)
  BY OneDirection
<1>2. ArrivalSent(s, d, i)
  BY <1>1 DEF TakenSent, DataTaken, DataSent, GrantSent
<1> QED BY <1>1, <1>2 DEF PartsHeld

(* An arrival is sent by its put and by nothing else. *)
LEMMA ArrivalByPut ==
  ASSUME TypeOK, RolesKept, NEW r \in Ranks, NEW i \in Calls, Step(r, i),
         NEW s \in Ranks, NEW d \in Ranks, NEW j \in Calls
  PROVE  ArrivalSent(s, d, j)' <=> ArrivalSent(s, d, j) \/ (s = r /\ j = i /\ Put(r, i, d))
<1>1. Moves(r, i)
  BY StepKind
<1>2. CASE s # r \/ j # i
  <2>1. pc'[s][j] = pc[s][j] /\ left'[s][j] = left[s][j]
    BY <1>1, <1>2 DEF Moves
  <2> QED BY <1>2, <2>1, Afterwards DEF ArrivalSent
<1>3. CASE s = r /\ j = i
  <2>0. /\ Idest(r, i) <=> Sources(r, i) # {}
        /\ Isource(r, i) <=> Targets(r, i) # {}
        /\ Idest(r, i) => ~Isource(r, i)
        /\ ArrivalSent(r, d, i)' <=>
             d \in Targets(r, i) /\ (\/ pc'[r][i] = "done"
                                     \/ pc'[r][i] = "put" /\ d \notin left'[r][i])
    BY OneDirection, Afterwards DEF Idest, Isource
  <2>1. CASE Start(r, i) \/ WarmWait(r, i)
    <3>1. pc[r][i] \in {"queued", "warmWait"} /\ ~Put(r, i, d)
      BY <2>1 DEF Start, WarmWait, At, Put
    <3>2. pc'[r][i] \in {"warm", FirstStep(r, i)}
      BY <2>1 DEF Start, WarmWait, Goto, TypeOK
    <3>3. pc'[r][i] = "done" => Targets(r, i) = {}
      BY <2>0, <3>2, FirstPlace
    <3> QED BY <1>3, <2>0, <3>1, <3>2, <3>3, FirstPlace DEF ArrivalSent
  <2>2. CASE WarmSignal(r, i) \/ AwaitArrival(r, i) \/ Pack(r, i)
    BY <2>0, <2>2 DEF WarmSignal, AwaitArrival, Pack, At, Goto, ArrivalSent, TypeOK, Put
  <2>3. ASSUME NEW y \in Ranks, Grant(r, i, y)
        PROVE  ArrivalSent(r, d, i)' <=> ArrivalSent(r, d, i) \/ Put(r, i, d)
    BY <2>0, <2>3 DEF Grant, At, Goto, ArrivalSent, TypeOK, Put
  <2>4. CASE Unpack(r, i)
    BY <2>0, <2>4 DEF Unpack, At, Goto, ArrivalSent, TypeOK, Put, RolesKept
  <2>5. CASE AwaitGrant(r, i)
    BY <2>0, <2>5 DEF AwaitGrant, At, Goto, Reach, ArrivalSent, TypeOK, Put
  <2>6. ASSUME NEW y \in Ranks, Put(r, i, y)
        PROVE  ArrivalSent(r, d, i)' <=> ArrivalSent(r, d, i) \/ Put(r, i, d)
    <3>1. /\ pc[r][i] = "put" /\ y \in left[r][i] /\ left[r][i] \subseteq Targets(r, i)
          /\ pc'[r][i] = IF left[r][i] = {y} THEN "done" ELSE "put"
          /\ left'[r][i] = left[r][i] \ {y}
      BY <2>6 DEF Put, At, Goto, Reach, TypeOK, RolesKept
    <3>2. Put(r, i, d) => d = y
      <4> SUFFICES ASSUME Put(r, i, d) PROVE d = y
        OBVIOUS
      <4>1. left'[r][i] = left[r][i] \ {d} /\ d \in left[r][i]
        BY DEF Put, Reach, TypeOK
      <4> QED BY <3>1, <4>1
    <3>3. d = y => Put(r, i, d)
      BY <2>6
    <3> QED BY <2>0, <3>1, <3>2, <3>3 DEF ArrivalSent
  <2> QED BY <1>3, <2>1, <2>2, <2>3, <2>4, <2>5, <2>6 DEF Step
<1> QED BY <1>2, <1>3

LEMMA PartsPreserved ==
  ASSUME TypeOK, InOrder, RolesKept, TakenSent, PartsHeld, NEW r \in Ranks, NEW i \in Calls, Step(r, i)
  PROVE  PartsHeld'
<1>1. Moves(r, i) /\ Kind(r, i) /\ pc[r][i] # "done"
  BY StepKind DEF Kind, Quiet, Begins, SendsWarm, Sends, TakesWarm, Takes, Jump
<1> SUFFICES ASSUME NEW x \in Ranks, NEW j \in Calls
             PROVE  /\ pc'[x][j] \in {"awaitGrant", "put"} => <<j, x>> \in mem'[x][Slot(x, j)]
                    /\ \A s \in Sources(x, j) :
                         ArrivalSent(s, x, j)' /\ pc'[x][j] \in {"grant", "awaitArrival", "unpack"}
                           => <<j, s>> \in mem'[x][Slot(x, j)]
  BY DEF PartsHeld, Sources, Slot, Ranks, Comm, Calls
<1>2. /\ pc[x][j] \in {"awaitGrant", "put"} => <<j, x>> \in mem[x][Slot(x, j)]
      /\ \A s \in Sources(x, j) :
           ArrivalSent(s, x, j) /\ pc[x][j] \in {"grant", "awaitArrival", "unpack"}
             => <<j, s>> \in mem[x][Slot(x, j)]
  BY DEF PartsHeld
<1>3. \A s \in Sources(x, j) :
        ArrivalSent(s, x, j) /\ pc'[x][j] \in {"grant", "awaitArrival", "unpack"}
          => pc[x][j] \in {"grant", "awaitArrival", "unpack"}
  <2> TAKE s \in Sources(x, j)
  <2>1. s \in Ranks
    BY OneDirection
  <2>2. ArrivalSent(s, x, j) => pc[x][j] \in {"grant", "awaitArrival", "unpack", "done"}
    BY <2>1, ArrivalGranted
  <2>3. pc[x][j] = "done" => pc'[x][j] = "done"
    BY <1>1 DEF Moves
  <2> QED BY <2>2, <2>3
<1>4. /\ Slot(x, j) \in Slots /\ \A y \in Ranks : Slot(y, i) \in Slots
      /\ \A s \in Sources(x, j) : s \in Ranks
  BY Numbered, OneDirection
<1>5. CASE Pack(r, i)
  <2>1. /\ pc[r][i] = "pack" /\ pc'[r][i] = "awaitGrant"
        /\ \A y \in Ranks, sl \in Slots :
             mem'[y][sl] = IF y = r /\ sl = Slot(r, i) THEN {<<i, r>>} ELSE mem[y][sl]
    BY <1>4, <1>5 DEF Pack, At, Goto, TypeOK
  <2>2. \A s \in Sources(x, j) : ArrivalSent(s, x, j)' => ArrivalSent(s, x, j)
    <3>1. \A d \in Ranks : ~Put(r, i, d)
      BY <2>1 DEF Put, At
    <3> QED BY <1>4, <3>1, ArrivalByPut
  <2>3. CASE x = r /\ j = i
    BY <1>4, <2>1, <2>3
  <2>4. CASE x = r /\ j # i /\ Slot(x, j) = Slot(r, i)
    <3>1. pc[r][j] \in {"queued", "done"}
      BY <2>1, <2>4, OneUser
    <3> QED BY <1>1, <2>4, <3>1 DEF Moves
  <2>5. CASE x # r \/ Slot(x, j) # Slot(r, i)
    BY <1>1, <1>2, <1>4, <2>1, <2>2, <2>5 DEF Moves
  <2> QED BY <2>3, <2>4, <2>5
<1>6. ASSUME NEW d \in Ranks, Put(r, i, d)
      PROVE  /\ pc'[x][j] \in {"awaitGrant", "put"} => <<j, x>> \in mem'[x][Slot(x, j)]
             /\ \A s \in Sources(x, j) :
                  ArrivalSent(s, x, j)' /\ pc'[x][j] \in {"grant", "awaitArrival", "unpack"}
                    => <<j, s>> \in mem'[x][Slot(x, j)]
  <2>1. /\ pc[r][i] = "put" /\ d \in left[r][i] /\ d \in Targets(r, i)
        /\ pc'[r][i] \in {"put", "done"}
        /\ mem' = [mem EXCEPT ![d][Slot(d, i)] =
                     Deposit(mem[d][Slot(d, i)], i, r, <<i, r>> \in mem[r][Slot(r, i)])]
    BY <1>6 DEF Put, At, Goto, TypeOK, RolesKept
  <2>2. /\ \A y \in Ranks, sl \in Slots :
             mem'[y][sl] = IF y = d /\ sl = Slot(d, i)
                           THEN Deposit(mem[d][Slot(d, i)], i, r, <<i, r>> \in mem[r][Slot(r, i)])
                           ELSE mem[y][sl]
        /\ d # r
    BY <1>4, <2>1, OneDirection DEF TypeOK
  <2>3. pc[d][i] \in {"grant", "awaitArrival"}
    BY <2>1, Leased
  <2>4. <<i, r>> \in mem[r][Slot(r, i)]
    BY <2>1 DEF PartsHeld
  <2>5. \A s \in Sources(x, j) :
          ArrivalSent(s, x, j)' => ArrivalSent(s, x, j) \/ (s = r /\ j = i /\ x = d)
    <3> TAKE s \in Sources(x, j)
    <3>1. Put(r, i, x) => x = d
      <4> SUFFICES ASSUME Put(r, i, x) PROVE x = d
        OBVIOUS
      <4>1. left'[r][i] = left[r][i] \ {d} /\ left'[r][i] = left[r][i] \ {x} /\ x \in left[r][i]
        BY <1>6 DEF Put, Reach, TypeOK
      <4> QED BY <2>1, <4>1
    <3> QED BY <1>4, <3>1, ArrivalByPut
  <2>6. CASE x = d /\ j = i
    <3>1. pc'[x][j] \in {"grant", "awaitArrival"}
      BY <1>1, <2>2, <2>3, <2>6 DEF Moves
    <3>2. ASSUME NEW s \in Sources(x, j), ArrivalSent(s, x, j)' PROVE <<j, s>> \in mem'[x][Slot(x, j)]
      <4>1. ArrivalSent(s, x, j) => <<j, s>> \in mem[x][Slot(x, j)]
        BY <1>2, <2>3, <2>6
      <4> QED BY <1>4, <2>2, <2>4, <2>5, <2>6, <3>2, <4>1 DEF Deposit
    <3> QED BY <3>1, <3>2
  <2>7. CASE x = d /\ j # i /\ Slot(x, j) = Slot(d, i)
    <3>1. pc[d][j] \in {"queued", "done"}
      BY <2>3, <2>7, OneUser
    <3> QED BY <1>1, <2>7, <3>1 DEF Moves
  <2>8. CASE x # d \/ Slot(x, j) # Slot(d, i)
    <3>1. mem'[x][Slot(x, j)] = mem[x][Slot(x, j)]
      BY <1>4, <2>2, <2>8
    <3>2. pc'[x][j] \in {"awaitGrant", "put"} => pc[x][j] \in {"awaitGrant", "put"}
      BY <1>1, <2>1 DEF Moves
    <3> QED BY <1>2, <1>3, <2>5, <2>8, <3>1, <3>2
  <2> QED BY <2>6, <2>7, <2>8
<1>7. CASE ~Pack(r, i) /\ \A d \in Ranks : ~Put(r, i, d)
  <2>0. UNCHANGED mem
    BY <1>7 DEF Step, Start, WarmSignal, WarmWait, Grant, AwaitArrival, Unpack, AwaitGrant
  <2>1. pc'[r][i] \in {"awaitGrant", "put"} => pc[r][i] = "awaitGrant"
    <3>1. pc[r][i] \notin {"pack", "put"}
      BY <1>7 DEF Step, Start, WarmSignal, WarmWait, Grant, AwaitArrival, Unpack, AwaitGrant, At
    <3> QED BY <1>1, <3>1, FirstPlace DEF Kind, Quiet, Begins, SendsWarm, Sends, TakesWarm, Takes, Jump
  <2>2. \A s \in Sources(x, j) : ArrivalSent(s, x, j)' => ArrivalSent(s, x, j)
    BY <1>4, <1>7, ArrivalByPut
  <2>3. pc'[x][j] \in {"awaitGrant", "put"} => pc[x][j] \in {"awaitGrant", "put"}
    BY <1>1, <2>1 DEF Moves
  <2> QED BY <1>2, <1>3, <2>0, <2>2, <2>3
<1> QED BY <1>5, <1>6, <1>7

LEMMA UnpackedPreserved ==
  ASSUME TypeOK, RolesKept, TakenSent, PartsHeld, Unpacked, NEW r \in Ranks, NEW i \in Calls, Step(r, i)
  PROVE  Unpacked'
<1>1. Moves(r, i) /\ Kind(r, i) /\ pc[r][i] # "done"
  BY StepKind DEF Kind, Quiet, Begins, SendsWarm, Sends, TakesWarm, Takes, Jump
<1> SUFFICES ASSUME NEW x \in Ranks, NEW j \in Calls
             PROVE  output'[x][j] = IF pc'[x][j] = "done" THEN Sources(x, j) ELSE {}
  BY DEF Unpacked, Sources, Ranks, Calls
<1>2. output[x][j] = IF pc[x][j] = "done" THEN Sources(x, j) ELSE {}
  BY DEF Unpacked
<1>3. CASE Unpack(r, i)
  <2>1. /\ pc[r][i] = "unpack" /\ pc'[r][i] = "done"
        /\ output' = [output EXCEPT ![r][i] = {s \in Sources(r, i) : <<i, s>> \in mem[r][Slot(r, i)]}]
    BY <1>3 DEF Unpack, At, Goto, TypeOK
  <2>2. {s \in Sources(r, i) : <<i, s>> \in mem[r][Slot(r, i)]} = Sources(r, i)
    BY <2>1, ArrivedAll
  <2> QED BY <1>1, <1>2, <2>1, <2>2 DEF Moves, TypeOK
<1>4. CASE ~Unpack(r, i)
  <2>0. UNCHANGED output
    BY <1>4 DEF Step, Start, WarmSignal, WarmWait, Grant, AwaitArrival, Pack, AwaitGrant, Put
  <2>1. pc'[r][i] = "done" => FirstStep(r, i) = "done" \/ pc[r][i] = "put"
    <3>1. pc[r][i] # "unpack"
      BY <1>4 DEF Step, Start, WarmSignal, WarmWait, Grant, AwaitArrival, Pack, AwaitGrant, Put, At
    <3> QED BY <1>1, <3>1 DEF Kind, Quiet, Begins, SendsWarm, Sends, TakesWarm, Takes, Jump
  <2>2. pc'[r][i] = "done" => Sources(r, i) = {}
    BY <2>1, FirstPlace, OneDirection DEF RolesKept, Idest
  <2> QED BY <1>1, <1>2, <2>0, <2>2 DEF Moves
<1> QED BY <1>3, <1>4
-----------------------------------------------------------------------------
LEMMA InitIInv == Init => IInv
<1> SUFFICES ASSUME Init PROVE IInv
  OBVIOUS
<1>1. TypeOK
  BY DEF Init, TypeOK, Places, NoCall
<1>2. \A r \in Ranks, i \in Calls : pc[r][i] = "queued" /\ output[r][i] = {}
  BY DEF Init
<1>3. InOrder /\ RolesKept /\ Unpacked
  BY <1>2 DEF InOrder, RolesKept, Unpacked
<1>4. \A x, y \in Ranks, i \in Calls : ~WarmSent(x, i) /\ ~WarmTaken(y, i)
                                       /\ ~DataSent(x, y, i) /\ ~DataTaken(x, y, i)
  BY <1>2 DEF WarmSent, WarmTaken, DataSent, DataTaken, GrantSent, ArrivalSent
<1>5. TakenSent
  BY <1>4 DEF TakenSent
<1>6. Balanced
  <2> SUFFICES ASSUME NEW c \in Comms, NEW x \in Ranks, NEW y \in Ranks
               PROVE  signal[c][x][y] = Cardinality(Warm(c, x, y)) + Cardinality(Data(c, x, y))
    BY DEF Balanced
  <2>1. Warm(c, x, y) = {} /\ Data(c, x, y) = {}
    BY <1>4 DEF Warm, Data
  <2>2. signal[c][x][y] = 0
    BY DEF Init
  <2> QED BY <2>1, <2>2, FS_EmptySet
<1>7. PartsHeld
  BY <1>2 DEF PartsHeld
<1> QED BY <1>1, <1>3, <1>5, <1>6, <1>7 DEF IInv

(* A rank that gives a call up stops its own steps and changes nothing else. *)
LEMMA StayedInv ==
  ASSUME IInv, UNCHANGED <<pc, left, signal, mem, output>>, TypeOK'
  PROVE  IInv'
<1>0. InOrder'
  BY DEF IInv, InOrder, Before, Ranks, Calls, Comm, Slot
<1>1. RolesKept' /\ Unpacked'
  <2> DEFINE Kept(x, j, p, l, o) ==
        /\ p \in {"warm", "warmWait"} => Cold(j) /\ l = Sources(x, j)
        /\ p = "grant" => Idest(x, j) /\ l \subseteq Sources(x, j)
        /\ p \in {"awaitArrival", "unpack"} => Idest(x, j)
        /\ p \in {"pack", "awaitGrant"} => Isource(x, j)
        /\ p = "put" => Isource(x, j) /\ l \subseteq Targets(x, j)
        /\ o = IF p = "done" THEN Sources(x, j) ELSE {}
  <2>1. \A x \in Ranks, j \in Calls : Kept(x, j, pc[x][j], left[x][j], output[x][j])
    BY DEF IInv, RolesKept, Unpacked
  <2>2. \A x \in Ranks, j \in Calls : Kept(x, j, pc'[x][j], left'[x][j], output'[x][j])
    BY <2>1
  <2> QED BY <2>2 DEF RolesKept, Unpacked, Idest, Isource, Sources, Targets, Cold, Comm, Calls, Ranks
<1>2. \A x, y \in Ranks, j \in Calls :
        /\ WarmSent(x, j)' <=> WarmSent(x, j)
        /\ WarmTaken(y, j)' <=> WarmTaken(y, j)
        /\ DataSent(x, y, j)' <=> DataSent(x, y, j)
        /\ DataTaken(x, y, j)' <=> DataTaken(x, y, j)
  BY DEF WarmSent, WarmTaken, DataSent, DataTaken, GrantSent, ArrivalSent, Sources, Targets, Ranks
<1>3. TakenSent'
  <2>1. \A x, y \in Ranks, j \in Calls :
          /\ DataTaken(x, y, j)' => DataSent(x, y, j)'
          /\ Cold(j) /\ y = Next1(x) /\ WarmTaken(y, j)' => WarmSent(x, j)'
    BY <1>2 DEF IInv, TakenSent
  <2> QED BY <2>1 DEF TakenSent, Cold, Comm, Next1, Calls, Ranks
<1>4. Balanced'
  <2>1. \A c \in Comms, x, y \in Ranks :
          Warm(c, x, y)' = Warm(c, x, y) /\ Data(c, x, y)' = Data(c, x, y)
    BY <1>2, WarmSame, DataSame
  <2>2. \A c \in Comms, x, y \in Ranks :
          signal'[c][x][y] = Cardinality(Warm(c, x, y)') + Cardinality(Data(c, x, y)')
    BY <2>1 DEF IInv, Balanced
  <2> QED BY <2>2 DEF Balanced, Comms, Comm, Calls, Ranks
<1>5. PartsHeld'
  BY DEF IInv, PartsHeld, ArrivalSent, Sources, Targets, Ranks, Calls, Comm, Slot
<1> QED BY <1>0, <1>1, <1>3, <1>4, <1>5 DEF IInv

LEMMA NextIInv == IInv /\ [Next]_vars => IInv'
<1> SUFFICES ASSUME IInv, [Next]_vars PROVE IInv'
  OBVIOUS
<1>1. ASSUME NEW r \in Ranks, NEW i \in Calls, Step(r, i) PROVE IInv'
  BY <1>1, TypePreserved, InOrderPreserved, RolesPreserved, TakenSentPreserved, BalancedPreserved,
     PartsPreserved, UnpackedPreserved DEF IInv
<1>2. ASSUME NEW r \in Ranks, NEW i \in Calls, Fail(r, i) PROVE IInv'
  <2>1. TypeOK'
    BY <1>2, TypePreserved DEF IInv
  <2> QED BY <1>2, <2>1, StayedInv DEF Fail
<1>3. CASE UNCHANGED vars
  <2>1. TypeOK'
    BY <1>3 DEF vars, IInv, TypeOK
  <2> QED BY <1>3, <2>1, StayedInv DEF vars
<1> QED BY <1>1, <1>2, <1>3 DEF Next

(* The inductive invariant of the protocol. *)
THEOREM Invariance == Spec => []IInv
<1>1. Init => IInv
  BY InitIInv
<1>2. IInv /\ [Next]_vars => IInv'
  BY NextIInv
<1> QED BY <1>1, <1>2, PTL DEF Spec

(* Every variable of the protocol keeps its type. *)
THEOREM TypeCorrect == Spec => []TypeOK
<1>1. IInv => TypeOK
  BY DEF IInv
<1> QED BY <1>1, Invariance, PTL

(* A source puts only into slots that their owners hold for this very call   *)
(* (the puts of reshard_user_window.cu after waitPackLsaHputGrants).         *)
THEOREM LeasedPuts == Spec => []PutsAreLeased
<1>1. IInv => PutsAreLeased
  BY Leased DEF IInv, PutsAreLeased
<1> QED BY <1>1, Invariance, PTL

(* A destination unpacks the parts of all its sources and of no other call.  *)
THEOREM UnpacksRightParts == Spec => []RightParts
<1>1. IInv => RightParts
  BY ArrivedAll DEF IInv, RightParts, Unpacked
<1> QED BY <1>1, Invariance, PTL

(* Between calls no signal of a communicator is left over, so a later call   *)
(* starts from the counters its waits assume.                                *)
THEOREM SignalsMatched == Spec => []NoSignalLeft
<1>1. IInv => NoSignalLeft
  <2> SUFFICES ASSUME IInv, NEW c \in Comms, NEW x \in Ranks, NEW y \in Ranks,
                      \A i \in Calls : Comm(i) = c => \/ \A r \in Ranks : pc[r][i] = "done"
                                                      \/ \A r \in Ranks : pc[r][i] = "queued"
               PROVE  signal[c][x][y] = 0
    BY DEF NoSignalLeft
  <2>1. ASSUME NEW i \in Warm(c, x, y) PROVE FALSE
    BY <2>1 DEF Warm, WarmSent, WarmTaken
  <2>2. ASSUME NEW i \in Data(c, x, y) PROVE FALSE
    BY <2>2, OneDirection DEF Data, DataSent, DataTaken, GrantSent, ArrivalSent
  <2>3. Warm(c, x, y) = {} /\ Data(c, x, y) = {}
    BY <2>1, <2>2
  <2> QED BY <2>3, FS_EmptySet DEF IInv, Balanced
<1> QED BY <1>1, Invariance, PTL
-----------------------------------------------------------------------------
(* The refinement: a put sends a part, an unpacking completes a tensor, and  *)
(* every other step leaves what ReshardSpec sees alone.                      *)
tensorOf == [x \in Finished |-> output[x[1]][x[2]]]

LEMMA SameGeometry ==
  ASSUME NEW r \in Ranks, NEW i \in Calls
  PROVE  /\ Promise!Calls = Calls /\ Promise!Edges(i) = Program[i].edges
         /\ Promise!Sources(r, i) = Sources(r, i) /\ Promise!Targets(r, i) = Targets(r, i)
BY DEF Promise!Calls, Calls, Promise!Edges, Promise!Sources, Promise!Targets, Sources, Targets

LEMMA SentSteps ==
  ASSUME TypeOK, RolesKept, NEW r \in Ranks, NEW i \in Calls, Step(r, i)
  PROVE  /\ (\A d \in Ranks : ~Put(r, i, d)) => SentParts' = SentParts
         /\ \A d \in Ranks : Put(r, i, d) =>
              SentParts' = SentParts \cup {<<i, r, d>>} /\ <<i, r, d>> \notin SentParts
<1>1. \A p : p \in SentParts' <=> p \in Calls \X Ranks \X Ranks /\ ArrivalSent(p[2], p[3], p[1])'
  BY DEF SentParts, Calls, Ranks
<1>2. \A p : p \in SentParts <=> p \in Calls \X Ranks \X Ranks /\ ArrivalSent(p[2], p[3], p[1])
  BY DEF SentParts
<1>3. \A p \in Calls \X Ranks \X Ranks :
        ArrivalSent(p[2], p[3], p[1])' <=>
          ArrivalSent(p[2], p[3], p[1]) \/ (p[2] = r /\ p[1] = i /\ Put(r, i, p[3]))
  BY ArrivalByPut
<1>4. ASSUME \A d \in Ranks : ~Put(r, i, d) PROVE SentParts' = SentParts
  <2>1. \A p : p \in SentParts' <=> p \in SentParts
    BY <1>1, <1>2, <1>3, <1>4
  <2> QED BY <2>1
<1>5. ASSUME NEW d \in Ranks, Put(r, i, d)
      PROVE  SentParts' = SentParts \cup {<<i, r, d>>} /\ <<i, r, d>> \notin SentParts
  <2>1. \A e \in Ranks : Put(r, i, e) <=> e = d
    <3> SUFFICES ASSUME NEW e \in Ranks, Put(r, i, e) PROVE e = d
      BY <1>5
    <3>1. left'[r][i] = left[r][i] \ {d} /\ left'[r][i] = left[r][i] \ {e}
          /\ d \in left[r][i] /\ e \in left[r][i]
      BY <1>5 DEF Put, Reach, TypeOK
    <3> QED BY <3>1
  <2>2. ArrivalSent(r, d, i)' /\ ~ArrivalSent(r, d, i)
    BY <1>5, ArrivalByPut DEF Put, At, ArrivalSent
  <2>3. <<i, r, d>> \notin SentParts
    BY <1>2, <2>2
  <2>4. \A p : p \in SentParts' <=> p \in SentParts \/ p = <<i, r, d>>
    BY <1>1, <1>2, <1>3, <2>1, <2>2
  <2> QED BY <2>3, <2>4
<1> QED BY <1>4, <1>5

LEMMA TensorSteps ==
  ASSUME TypeOK, RolesKept, Unpacked, Unpacked', NEW r \in Ranks, NEW i \in Calls, Step(r, i)
  PROVE  /\ ~Unpack(r, i) => tensorOf' = tensorOf
         /\ Unpack(r, i) =>
              /\ <<r, i>> \notin Finished /\ Sources(r, i) # {}
              /\ tensorOf' = [x \in Finished \cup {<<r, i>>} |->
                                IF x = <<r, i>> THEN Sources(r, i) ELSE tensorOf[x]]
<1>1. Moves(r, i) /\ Kind(r, i) /\ pc[r][i] # "done"
  BY StepKind DEF Kind, Quiet, Begins, SendsWarm, Sends, TakesWarm, Takes, Jump
<1>2. \A x : x \in Finished <=> x \in Ranks \X Calls /\ Sources(x[1], x[2]) # {} /\ pc[x[1]][x[2]] = "done"
  BY DEF Finished
<1>3. \A x : x \in Finished' <=> x \in Ranks \X Calls /\ Sources(x[1], x[2]) # {} /\ pc'[x[1]][x[2]] = "done"
  BY DEF Finished, Sources, Ranks, Calls
<1>4. \A x \in Finished : output[x[1]][x[2]] = Sources(x[1], x[2])
  BY <1>2 DEF Unpacked
<1>5. \A x \in Finished' : output'[x[1]][x[2]] = Sources(x[1], x[2])
  <2>1. \A x \in Ranks, j \in Calls : output'[x][j] = IF pc'[x][j] = "done" THEN Sources(x, j) ELSE {}
    BY DEF Unpacked, Sources, Ranks, Calls
  <2> QED BY <1>3, <2>1
<1>6. tensorOf = [x \in Finished |-> Sources(x[1], x[2])]
  BY <1>4 DEF tensorOf
<1>7. tensorOf' = [x \in Finished' |-> Sources(x[1], x[2])]
  BY <1>5 DEF tensorOf
<1>8. CASE ~Unpack(r, i)
  <2>1. pc[r][i] # "unpack"
    BY <1>8 DEF Step, Start, WarmSignal, WarmWait, Grant, AwaitArrival, Pack, AwaitGrant, Put, At
  <2>2. pc'[r][i] = "done" => FirstStep(r, i) = "done" \/ pc[r][i] = "put"
    BY <1>1, <2>1 DEF Kind, Quiet, Begins, SendsWarm, Sends, TakesWarm, Takes, Jump
  <2>3. pc'[r][i] = "done" => Sources(r, i) = {}
    BY <2>2, FirstPlace, OneDirection DEF RolesKept, Idest
  <2>4. \A x \in Ranks, j \in Calls :
          Sources(x, j) # {} => (pc'[x][j] = "done" <=> pc[x][j] = "done")
    BY <1>1, <2>3 DEF Moves
  <2>5. \A x : x \in Finished' <=> x \in Finished
    BY <1>2, <1>3, <2>4
  <2>6. Finished' = Finished
    BY <2>5
  <2> QED BY <1>6, <1>7, <1>8, <2>6
<1>9. CASE Unpack(r, i)
  <2>1. pc[r][i] = "unpack" /\ pc'[r][i] = "done" /\ Sources(r, i) # {}
    BY <1>9 DEF Unpack, At, Goto, TypeOK, RolesKept, Idest
  <2>2. <<r, i>> \notin Finished
    BY <1>2, <2>1
  <2>3. \A x \in Ranks, j \in Calls :
          pc'[x][j] = "done" <=> pc[x][j] = "done" \/ (x = r /\ j = i)
    BY <1>1, <2>1 DEF Moves
  <2>4. \A x : x \in Finished' <=> x \in Finished \/ x = <<r, i>>
    BY <1>2, <1>3, <2>1, <2>3
  <2>5. Finished' = Finished \cup {<<r, i>>}
    BY <2>4
  <2> QED BY <1>6, <1>7, <1>9, <2>1, <2>2, <2>5
<1> QED BY <1>8, <1>9

(* A rank that works on a call has sent and completed the earlier ones. *)
LEMMA TurnKept ==
  ASSUME InOrder, NEW r \in Ranks, NEW i \in Calls, pc[r][i] # "queued"
  PROVE  Promise!InTurn(r, i)
<1> SUFFICES ASSUME NEW j \in Calls, j < i, Comm(j) = Comm(i)
             PROVE  Promise!Sent(r, j) /\ Promise!Received(r, j)
  BY SameGeometry DEF Promise!InTurn, Comm
<1>1. pc[r][j] = "done"
  BY DEF InOrder, Before
<1>2. Promise!Sent(r, j)
  <2>1. \A d \in Targets(r, j) : d \in Ranks /\ <<j, r, d>> \in SentParts
    BY <1>1, OneDirection DEF SentParts, ArrivalSent
  <2> QED BY <2>1, SameGeometry DEF Promise!Sent
<1>3. Promise!Received(r, j)
  <2>1. Sources(r, j) # {} => <<r, j>> \in Finished
    BY <1>1 DEF Finished
  <2> QED BY <2>1, SameGeometry DEF Promise!Received
<1> QED BY <1>2, <1>3

LEMMA InitPromise == Init => Promise!SpecInit
<1> SUFFICES ASSUME Init PROVE Promise!SpecInit
  OBVIOUS
<1>1. \A r \in Ranks, i \in Calls : pc[r][i] = "queued"
  BY DEF Init
<1>2. SentParts = {}
  BY <1>1 DEF SentParts, ArrivalSent
<1>3. Finished = {}
  BY <1>1 DEF Finished
<1> QED BY <1>2, <1>3 DEF Promise!SpecInit

LEMMA NextPromise == IInv /\ IInv' /\ [Next]_vars => [Promise!SpecNext]_(Promise!specVars)
<1> SUFFICES ASSUME IInv, IInv', [Next]_vars
             PROVE  Promise!SpecNext \/ UNCHANGED <<SentParts, tensorOf>>
  BY DEF Promise!specVars, tensorOf
<1>1. ASSUME NEW r \in Ranks, NEW i \in Calls, NEW d \in Ranks, Put(r, i, d)
      PROVE  Promise!SpecNext
  <2>1. Step(r, i) /\ ~Unpack(r, i) /\ pc[r][i] # "queued"
    BY <1>1 DEF Step, Put, Unpack, At
  <2>2. d \in Targets(r, i)
    BY <1>1 DEF Put, At, IInv, RolesKept
  <2>3. <<r, d>> \in Promise!Edges(i)
    BY <2>2, SameGeometry DEF Targets
  <2>4. Promise!InTurn(r, i)
    BY <2>1, TurnKept DEF IInv
  <2>5. SentParts' = SentParts \cup {<<i, r, d>>} /\ <<i, r, d>> \notin SentParts
    BY <1>1, <2>1, SentSteps DEF IInv
  <2>6. tensorOf' = tensorOf
    BY <2>1, TensorSteps DEF IInv
  <2>7. Promise!SendPart(r, d, i)
    BY <2>3, <2>4, <2>5, <2>6 DEF Promise!SendPart, tensorOf
  <2>8. i \in Promise!Calls
    BY SameGeometry
  <2>9. \E e \in Promise!Edges(i) : Promise!SendPart(e[1], e[2], i)
    BY <2>3, <2>7
  <2> QED BY <2>8, <2>9 DEF Promise!SpecNext
<1>2. ASSUME NEW r \in Ranks, NEW i \in Calls, Unpack(r, i)
      PROVE  Promise!SpecNext
  <2>1. Step(r, i) /\ pc[r][i] = "unpack" /\ \A d \in Ranks : ~Put(r, i, d)
    BY <1>2 DEF Step, Unpack, Put, At
  <2>2. Promise!InTurn(r, i)
    BY <2>1, TurnKept DEF IInv
  <2>3. \A s \in Sources(r, i) : <<i, s, r>> \in SentParts
    BY <2>1, ArrivedAll, OneDirection DEF IInv, SentParts
  <2>4. SentParts' = SentParts
    BY <2>1, SentSteps DEF IInv
  <2>5. /\ <<r, i>> \notin Finished /\ Sources(r, i) # {}
        /\ tensorOf' = [x \in Finished \cup {<<r, i>>} |->
                          IF x = <<r, i>> THEN Sources(r, i) ELSE tensorOf[x]]
    BY <1>2, <2>1, TensorSteps DEF IInv
  <2>6. DOMAIN tensorOf = Finished
    BY DEF tensorOf
  <2>7. Promise!ReceiveAll(r, i)
    BY <2>2, <2>3, <2>4, <2>5, <2>6, SameGeometry DEF Promise!ReceiveAll, tensorOf
  <2> QED BY <2>7, SameGeometry DEF Promise!SpecNext
<1>3. ASSUME NEW r \in Ranks, NEW i \in Calls, Step(r, i), ~Unpack(r, i), \A d \in Ranks : ~Put(r, i, d)
      PROVE  UNCHANGED <<SentParts, tensorOf>>
  BY <1>3, SentSteps, TensorSteps DEF IInv
<1>4. CASE UNCHANGED <<pc, left, output>>
  BY <1>4 DEF SentParts, ArrivalSent, tensorOf, Finished, Sources, Targets, Calls, Ranks
<1>5. ASSUME NEW r \in Ranks, NEW i \in Calls, Step(r, i)
      PROVE  Promise!SpecNext \/ UNCHANGED <<SentParts, tensorOf>>
  BY <1>1, <1>2, <1>3, <1>5
<1> QED BY <1>4, <1>5 DEF Next, Fail, vars

(* The PACK copy implements what ncclReshard promises: every part goes along *)
(* its edge once, in the order of the calls, and a tensor that is complete   *)
(* has the part of every one of its sources.                                 *)
THEOREM ReshardImplemented == Spec => ImplementsReshard
<1>1. Init => Promise!SpecInit
  BY InitPromise
<1>2. IInv /\ IInv' /\ [Next]_vars => [Promise!SpecNext]_(Promise!specVars)
  BY NextPromise
<1> QED BY <1>1, <1>2, Invariance, PTL DEF Spec, ImplementsReshard, Promise!Spec
===============================================================================
