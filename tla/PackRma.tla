------------------------------- MODULE PackRma -------------------------------
(***************************************************************************)
(* The PACK copy over host-initiated one-sided NCCL operations             *)
(* (src/nccl_m2n/src/reshard_user_window.cu:395-646, reshardCopyPackLsaHput*)
(* and its helpers) as the devices of all ranks execute it.                *)
(*                                                                         *)
(* Every rank makes the same calls in one order (nccl_m2n.h:310-318).  A   *)
(* call enqueues, on its work stream, the steps of the rank's role:        *)
(*   destination: GRANT to each source, wait for ARRIVAL of all, unpack;   *)
(*   source: pack, wait for the GRANT of every target, put with ARRIVAL.   *)
(* All signals of a communicator use index and context 0: a pair of ranks  *)
(* has one counter per direction.  The first call on a communicator warms  *)
(* the path up with a ring of signals.                                     *)
(*                                                                         *)
(* A call works in one staging slot of its rank.  The pool orders it after *)
(* every earlier call in that slot (PackStagingPool, ReuseOrdered), and    *)
(* its stream and NCCL after every earlier call on its communicator; calls *)
(* on other communicators in other slots run concurrently.                 *)
(***************************************************************************)
EXTENDS Integers, Sequences, FiniteSets

CONSTANTS
  NumRanks,   \* worldSize
  Program,    \* the calls: [comm |-> communicator, edges |-> set of <<source, destination>>]
  SlotOf,     \* SlotOf[r][c]: the staging slot rank r keeps for communicator c
  MaxFailures \* bound: ranks whose host gives a call up after it has begun

Ranks == 0 .. NumRanks - 1
Calls == DOMAIN Program
Comm(i) == Program[i].comm
Comms == {Comm(i) : i \in Calls}
Sources(d, i) == {s \in Ranks : <<s, d>> \in Program[i].edges}
Targets(s, i) == {d \in Ranks : <<s, d>> \in Program[i].edges}
Slot(r, i) == SlotOf[r][Comm(i)]
Slots == {Slot(r, i) : r \in Ranks, i \in Calls}
NoCall == 0

(* A source precedes its targets (forwardMeshOrder), and a rank has one role. *)
ASSUME RmaAssumption ==
  /\ NumRanks \in Nat \ {0} /\ MaxFailures \in Nat
  /\ Program \in Seq([comm : Comms, edges : SUBSET (Ranks \X Ranks)])
  /\ \A i \in Calls :
       /\ \A e \in Program[i].edges : e[1] < e[2]
       /\ \A r \in Ranks : Sources(r, i) = {} \/ Targets(r, i) = {}

VARIABLES
  pc,      \* pc[r][i]: the next step of call i on rank r's stream
  left,    \* left[r][i]: peers its current group of signals or puts has still to reach
  signal,  \* signal[c][x][y]: signals of x that y has not consumed on communicator c
  mem,     \* mem[r][sl]: the parts a staging slot holds, as <<call, source>>
  output,  \* output[r][i]: the sources whose parts call i unpacked
  failed   \* failed[r]: the call rank r gave up, its epoch being fail-stop from there

vars == <<pc, left, signal, mem, output, failed>>

Next1(r) == (r + 1) % NumRanks
Previous(r) == (r + NumRanks - 1) % NumRanks

Isource(r, i) == Targets(r, i) # {}
Idest(r, i) == Sources(r, i) # {}

(* Faulty variant: the pool does not order the users of a slot. *)
BeforeOnComm(r, i) == {j \in Calls : j < i /\ Comm(j) = Comm(i)}

(* The calls whose work comes before call i on rank r. *)
Before(r, i) == {j \in Calls : j < i /\ (Comm(j) = Comm(i) \/ Slot(r, j) = Slot(r, i))}

(* packLsaHputWarmup runs in the first call on a communicator. *)
Cold(i) == NumRanks > 1 /\ \A j \in Calls : j < i => Comm(j) # Comm(i)

At(r, i, p) == pc[r][i] = p /\ failed[r] # i
Goto(r, i, p) == pc' = [pc EXCEPT ![r][i] = p]
Reach(r, i, peers) == left' = [left EXCEPT ![r][i] = peers]

(* The first step after the warm-up: a destination grants, a source packs. *)
FirstStep(r, i) ==
  IF Idest(r, i) THEN "grant" ELSE IF Isource(r, i) THEN "pack" ELSE "done"

-----------------------------------------------------------------------------
Init ==
  /\ pc = [r \in Ranks |-> [i \in Calls |-> "queued"]]
  /\ left = [r \in Ranks |-> [i \in Calls |-> {}]]
  /\ signal = [c \in Comms |-> [x \in Ranks |-> [y \in Ranks |-> 0]]]
  /\ mem = [r \in Ranks |-> [sl \in Slots |-> {}]]
  /\ output = [r \in Ranks |-> [i \in Calls |-> {}]]
  /\ failed = [r \in Ranks |-> NoCall]

(* Signals: a sender adds one, a waiter takes one of each of its peers. *)
Signal(c, x, y) == signal' = [signal EXCEPT ![c][x][y] = @ + 1]
Signalled(c, peers, y) == \A x \in peers : signal[c][x][y] > 0
Consume(c, peers, y) ==
  signal' = [signal EXCEPT ![c] =
    [x \in Ranks |-> [z \in Ranks |->
       IF x \in peers /\ z = y THEN signal[c][x][z] - 1 ELSE signal[c][x][z]]]]

(* The stream reaches call i: all the calls before it are done on this rank. *)
Start(r, i) ==
  /\ At(r, i, "queued")
  /\ failed[r] = NoCall \/ i < failed[r]
  /\ \A j \in Before(r, i) : pc[r][j] = "done"
  /\ Goto(r, i, IF Cold(i) THEN "warm" ELSE FirstStep(r, i))
  /\ Reach(r, i, Sources(r, i))
  /\ UNCHANGED <<signal, mem, output, failed>>

WarmSignal(r, i) ==
  /\ At(r, i, "warm")
  /\ Signal(Comm(i), r, Next1(r))
  /\ Goto(r, i, "warmWait")
  /\ UNCHANGED <<left, mem, output, failed>>

(* Faulty variant: the wait is for the wrong neighbour. *)
WarmWaitNext(r, i) ==
  /\ At(r, i, "warmWait")
  /\ Signalled(Comm(i), {Next1(r)}, r)
  /\ Consume(Comm(i), {Next1(r)}, r)
  /\ Goto(r, i, FirstStep(r, i))
  /\ UNCHANGED <<left, mem, output, failed>>

WarmWait(r, i) ==
  /\ At(r, i, "warmWait")
  /\ Signalled(Comm(i), {Previous(r)}, r)
  /\ Consume(Comm(i), {Previous(r)}, r)
  /\ Goto(r, i, FirstStep(r, i))
  /\ UNCHANGED <<left, mem, output, failed>>

-----------------------------------------------------------------------------
(* A destination *)

(* GRANT: the slot's earlier user is done, its memory may be overwritten. *)
Grant(r, i, s) ==
  /\ At(r, i, "grant") /\ s \in left[r][i]
  /\ Signal(Comm(i), r, s)
  /\ Reach(r, i, left[r][i] \ {s})
  /\ Goto(r, i, IF left[r][i] = {s} THEN "awaitArrival" ELSE "grant")
  /\ UNCHANGED <<mem, output, failed>>

(* Faulty variant: one arrival is enough to unpack. *)
AwaitOneArrival(r, i) ==
  /\ At(r, i, "awaitArrival")
  /\ \E s \in Sources(r, i) :
       Signalled(Comm(i), {s}, r) /\ Consume(Comm(i), {s}, r)
  /\ Goto(r, i, "unpack")
  /\ UNCHANGED <<left, mem, output, failed>>

AwaitArrival(r, i) ==
  /\ At(r, i, "awaitArrival")
  /\ Signalled(Comm(i), Sources(r, i), r)
  /\ Consume(Comm(i), Sources(r, i), r)
  /\ Goto(r, i, "unpack")
  /\ UNCHANGED <<left, mem, output, failed>>

Unpack(r, i) ==
  /\ At(r, i, "unpack")
  /\ output' = [output EXCEPT ![r][i] = {s \in Sources(r, i) : <<i, s>> \in mem[r][Slot(r, i)]}]
  /\ Goto(r, i, "done")
  /\ UNCHANGED <<left, signal, mem, failed>>

-----------------------------------------------------------------------------
(* A source *)

(* The packed parts start at the base of the slot, as received parts do. *)
Pack(r, i) ==
  /\ At(r, i, "pack")
  /\ mem' = [mem EXCEPT ![r][Slot(r, i)] = {<<i, r>>}]
  /\ Goto(r, i, "awaitGrant")
  /\ UNCHANGED <<left, signal, output, failed>>

(* Faulty variant: one grant is enough to start all the puts. *)
AwaitOneGrant(r, i) ==
  /\ At(r, i, "awaitGrant")
  /\ \E t \in Targets(r, i) :
       Signalled(Comm(i), {t}, r) /\ Consume(Comm(i), {t}, r)
  /\ Goto(r, i, "put")
  /\ Reach(r, i, Targets(r, i))
  /\ UNCHANGED <<mem, output, failed>>

AwaitGrant(r, i) ==
  /\ At(r, i, "awaitGrant")
  /\ Signalled(Comm(i), Targets(r, i), r)
  /\ Consume(Comm(i), Targets(r, i), r)
  /\ Goto(r, i, "put")
  /\ Reach(r, i, Targets(r, i))
  /\ UNCHANGED <<mem, output, failed>>

(* The part written to a slot displaces whatever another call had there. *)
Deposit(parts, i, r, ok) == {p \in parts : p[1] = i} \cup (IF ok THEN {<<i, r>>} ELSE {})

(* PutSignal: the data, then the ARRIVAL. *)
Put(r, i, d) ==
  /\ At(r, i, "put") /\ d \in left[r][i]
  /\ mem' = [mem EXCEPT ![d][Slot(d, i)] = Deposit(@, i, r, <<i, r>> \in mem[r][Slot(r, i)])]
  /\ Signal(Comm(i), r, d)
  /\ Reach(r, i, left[r][i] \ {d})
  /\ Goto(r, i, IF left[r][i] = {d} THEN "done" ELSE "put")
  /\ UNCHANGED <<output, failed>>

-----------------------------------------------------------------------------
(* PackLsaHputProtocolGuard: an error after the protocol was entered.  What   *)
(* the host had enqueued still runs; it enqueues nothing more in this epoch.  *)
Fail(r, i) ==
  /\ failed[r] = NoCall /\ pc[r][i] \notin {"queued", "done"}
  /\ \A j \in Calls : j > i => pc[r][j] = "queued"
  /\ Cardinality({x \in Ranks : failed[x] # NoCall}) < MaxFailures
  /\ failed' = [failed EXCEPT ![r] = i]
  /\ UNCHANGED <<pc, left, signal, mem, output>>

Step(r, i) ==
  \/ Start(r, i) \/ WarmSignal(r, i) \/ WarmWait(r, i)
  \/ \E s \in Ranks : Grant(r, i, s)
  \/ AwaitArrival(r, i) \/ Unpack(r, i)
  \/ Pack(r, i) \/ AwaitGrant(r, i)
  \/ \E d \in Ranks : Put(r, i, d)

Next == \E r \in Ranks, i \in Calls : Step(r, i) \/ Fail(r, i)

(* A stream runs what is enqueued on it. *)
Spec ==
  /\ Init /\ [][Next]_vars
  /\ \A r \in Ranks, i \in Calls : WF_vars(Step(r, i))

-----------------------------------------------------------------------------
Inside == {"warm", "warmWait", "grant", "awaitArrival", "unpack", "pack", "awaitGrant", "put"}

(* A source that is past its wait puts only into slots their owners have     *)
(* leased to this very call: the destination stands between its grant and    *)
(* its unpacking, so nothing another call needs is in the slot.              *)
PutsAreLeased ==
  \A s, d \in Ranks, i \in Calls :
    pc[s][i] = "put" /\ d \in left[s][i] => pc[d][i] \in {"grant", "awaitArrival"}

(* What a destination unpacks, or is about to, is exactly the parts of the   *)
(* call's own sources.                                                       *)
RightParts ==
  \A r \in Ranks, i \in Calls :
    /\ pc[r][i] = "unpack" => \A s \in Sources(r, i) : <<i, s>> \in mem[r][Slot(r, i)]
    /\ pc[r][i] = "done" => output[r][i] = Sources(r, i)

(* Once every rank is through with the calls it has begun on a communicator, *)
(* and has begun the same ones, no signal is left for a later call to take   *)
(* for its own ("leaves no unmatched signal count").                         *)
NoSignalLeft ==
  \A c \in Comms :
    (\A i \in Calls : Comm(i) = c => \/ \A r \in Ranks : pc[r][i] = "done"
                                    \/ \A r \in Ranks : pc[r][i] = "queued")
    => \A x, y \in Ranks : signal[c][x][y] = 0

(* If no rank gives up, every call ends on every rank. *)
AllCallsEnd ==
  <>((\E r \in Ranks : failed[r] # NoCall) \/ (\A r \in Ranks, i \in Calls : pc[r][i] = "done"))

(* The protocol implements ReshardSpec: a part is sent by its put, and a     *)
(* tensor is complete when it is unpacked.                                   *)
ArrivalSent(s, d, i) ==
  d \in Targets(s, i) /\ (pc[s][i] = "done" \/ (pc[s][i] = "put" /\ d \notin left[s][i]))

SentParts ==
  {p \in Calls \X Ranks \X Ranks : ArrivalSent(p[2], p[3], p[1])}

Finished == {x \in Ranks \X Calls : Sources(x[1], x[2]) # {} /\ pc[x[1]][x[2]] = "done"}

Promise == INSTANCE ReshardSpec WITH
  sent <- SentParts,
  tensor <- [x \in Finished |-> output[x[1]][x[2]]]

ImplementsReshard == Promise!Spec
=============================================================================
