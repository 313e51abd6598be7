----------------------------- MODULE PipeHostRma -----------------------------
(***************************************************************************)
(* The PIPE transfer driven by the host (reshard_staging.cu): no kernel,   *)
(* but one-sided puts and signals of NCCL, copies of the copy engine, and  *)
(* CUDA streams and events.                                                *)
(*                                                                         *)
(* Every rank walks the rounds of its plan once and enqueues, for each,    *)
(* the operations of its roles.  With a pipeline the stages have streams   *)
(* of their own and an event for each edge and round is all that orders    *)
(* them; without one everything is on the caller's stream and events do    *)
(* nothing.  Between ranks there is one signal counter for each pair: an   *)
(* operation that waits is told apart from another that waits for the same *)
(* peer only by its place in the order in which they were enqueued.        *)
(***************************************************************************)
EXTENDS Integers, Sequences, FiniteSets, SequencesExt

CONSTANT
  Transfers      \* plans: [rdma, lsa, chunks, fifo, slots, ordered] with the
                 \* edges <<from, to, source>> of the two transports, the chunks
                 \* of each channel, the slots that a trainer packs an edge in and
                 \* those of the receiver, and whether NCCL runs a
                 \* communicator's operations in the order of their calls

VARIABLES
  tx,            \* the plan
  ops,           \* [rank -> the operations it enqueued, in order]
  done,          \* [rank -> the operations that have run]
  packed,        \* [<<from, to, source, channel, slot>> -> chunk packed there]
  landed,        \* the same, in the receiver's slots
  wire,          \* [<<from, to>> -> puts and signals under way]
  seen,          \* [<<from, to>> -> signals that have arrived]
  copied         \* chunks that reached a user tensor: <<rank, source, channel, round, chunk>>

hostVars == <<tx, ops, done, packed, landed, wire, seen, copied>>

(***************************************************************************)
(* The roles in a plan.  A source packs; a handler receives, passes on     *)
(* along the ring and has followers read its slots.                        *)
(***************************************************************************)
HRanks(p) == {e[1] : e \in p.rdma \cup p.lsa} \cup {e[2] : e \in p.rdma \cup p.lsa}
ByPeer(S) == SetToSortSeq(S, LAMBDA e, f : e[3] < f[3] \/ (e[3] = f[3] /\ e[2] < f[2]))
Arriving(p, r) == ByPeer({e \in p.rdma : e[2] = r})
Leaving(p, r) == ByPeer({e \in p.rdma : e[1] = r})
Trains(p, r) == Leaving(p, r) # <<>> /\ Arriving(p, r) = <<>>
Handles(p, r) == Arriving(p, r) # <<>>
RingEdges(p, r) == IF Handles(p, r) THEN Leaving(p, r) ELSE <<>>
Followers(p, r, s) == {e \in p.lsa : e[1] = r /\ e[3] = s}
FansOut(p, r) == Handles(p, r) /\ \E e \in p.lsa : e[1] = r
FollowedBy(p, r) == ByPeer({e \in p.lsa : e[2] = r})
Channels(p) == 1 .. Len(p.chunks)
MaxRounds(p) == CHOOSE n \in {p.chunks[c] : c \in Channels(p)} : \A c \in Channels(p) : p.chunks[c] <= n
ChunkForRound(p, ch, n) == n < p.chunks[ch]

\* Whether a rank's stages get streams of their own.
SourceLanes(p, r) == Trains(p, r) /\ Len(p.chunks) > 1
WaitLanes(p, r) == Len(Arriving(p, r)) > 1
Pipelined(p, r) ==
  \/ MaxRounds(p) > 1 \/ SourceLanes(p, r) \/ WaitLanes(p, r)
  \/ RingEdges(p, r) # <<>> /\ (Len(p.chunks) > 1 \/ Len(Arriving(p, r)) > 1)

(***************************************************************************)
(* What a round enqueues.  An operation has a stream, the events it waits  *)
(* for and the one recorded after it; peers are who it signals or waits    *)
(* for.  "skip" keeps the place of an event around an idle phase.          *)
(***************************************************************************)
Op(stream, kind, edge, ch, n, needs, gives, peers) ==
  [stream |-> stream, kind |-> kind, edge |-> edge, ch |-> ch, n |-> n, needs |-> needs, gives |-> gives,
   peers |-> peers]
Ev(what, e, ch, n) == <<what, e, ch, n>>
PackStream(p, r, ch) == IF SourceLanes(p, r) THEN <<"pack", ch>> ELSE <<"pack">>
PutStream(p, r, e) == IF SourceLanes(p, r) THEN <<"put", e[2]>> ELSE <<"put">>
WaitStream(p, r, e) == IF WaitLanes(p, r) THEN <<"wait", e[3]>> ELSE <<"work">>
\* A slot is used again when the receiver has given it back.  A trainer counts
\* the slots of its FIFO, a handler those of the next one on the ring.
(* Faulty variant: it is used again as soon as the put has left it. *)
FreeSlotPut(slots, e, ch, n) == IF n >= slots THEN {Ev("put", e, ch, n - slots)} ELSE {}
(* Faulty variant: a round too early, and the chunk waits for its own slot. *)
FreeSlotEarly(slots, e, ch, n) == IF n + 1 >= slots THEN {Ev("credit", e, ch, n + 1 - slots)} ELSE {}
FreeSlot(slots, e, ch, n) == IF n >= slots THEN {Ev("credit", e, ch, n - slots)} ELSE {}

\* An edge has no chunk in the round: nothing is enqueued for it.
OnActive(p, ch, n, operations) == IF ChunkForRound(p, ch, n) THEN operations ELSE <<>>
ForEdges(edges, OpsOf(_)) == FlattenSeq([i \in 1 .. Len(edges) |-> OpsOf(edges[i])])
EachChannel(p, OpsOf(_)) == FlattenSeq([ch \in 1 .. Len(p.chunks) |-> OpsOf(ch)])

SourcePacks(p, r, ch, n) ==
  ForEdges(Leaving(p, r), LAMBDA e : OnActive(p, ch, n,
    <<Op(PackStream(p, r, ch), "pack", e, ch, n, FreeSlot(p.fifo, e, ch, n), {Ev("pack", e, ch, n)}, {})>>))
SourcePuts(p, r, ch, n) ==
  ForEdges(Leaving(p, r), LAMBDA e : OnActive(p, ch, n,
    <<Op(PutStream(p, r, e), "put", e, ch, n, {Ev("pack", e, ch, n)}, {Ev("put", e, ch, n)}, {e[2]})>>))
SourceStage(p, r, n) ==
  IF Trains(p, r) THEN EachChannel(p, LAMBDA ch : SourcePacks(p, r, ch, n) \o SourcePuts(p, r, ch, n)) ELSE <<>>

\* An edge that has arrived is passed on at once.
RingForward(p, r, e, ch, n) ==
  ForEdges(SelectSeq(RingEdges(p, r), LAMBDA f : f[3] = e[3]), LAMBDA f :
    <<Op(<<"ring">>, "forward", f, ch, n, {Ev("edge", e, ch, n)} \cup FreeSlot(p.slots, f, ch, n),
         {Ev("ring", e, ch, n), Ev("put", f, ch, n)}, {f[2]})>>)
DestSourceWait(p, r, n) ==
  EachChannel(p, LAMBDA ch : ForEdges(Arriving(p, r), LAMBDA e : OnActive(p, ch, n,
    <<Op(WaitStream(p, r, e), "await", e, ch, n, {}, {Ev("edge", e, ch, n)}, {e[1]})>> \o RingForward(p, r, e, ch, n))))
DestRootCopy(p, r, n) ==
  EachChannel(p, LAMBDA ch : ForEdges(Arriving(p, r), LAMBDA e : OnActive(p, ch, n,
    <<Op(<<"copy">>, "copy", e, ch, n, {Ev("edge", e, ch, n)}, {Ev("copy", e, ch, n)}, {})>>)))

RootSignalFollowers(p, r, n) ==
  EachChannel(p, LAMBDA ch : ForEdges(Arriving(p, r), LAMBDA e : OnActive(p, ch, n,
    <<Op(<<"tell">>, "signal", e, ch, n, {Ev("edge", e, ch, n)}, {Ev("told", e, ch, n)},
         {f[2] : f \in Followers(p, r, e[3])})>>)))
\* The follower copies from the slot of the root it follows, and says so.
RootEdge(p, f) == CHOOSE e \in p.rdma : e[2] = f[1] /\ e[3] = f[3]
FollowerStage(p, r, n) ==
  EachChannel(p, LAMBDA ch : ForEdges(FollowedBy(p, r), LAMBDA f : OnActive(p, ch, n,
    <<Op(<<"follow">>, "await", f, ch, n, {}, {Ev("ready", f, ch, n)}, {f[1]}),
      Op(<<"unpack">>, "copy", RootEdge(p, f), ch, n, {Ev("ready", f, ch, n)}, {Ev("read", f, ch, n)}, {}),
      Op(<<"finish">>, "signal", f, ch, n, {Ev("read", f, ch, n)}, {}, {f[1]})>>)))
RootFollowerWaits(p, r, n) ==
  EachChannel(p, LAMBDA ch : ForEdges(Arriving(p, r), LAMBDA e : OnActive(p, ch, n,
    <<Op(<<"gather">>, "await", e, ch, n, {Ev("told", e, ch, n)}, {Ev("followed", e, ch, n)},
         {f[2] : f \in Followers(p, r, e[3])})>>)))

\* The slot goes back to its producer when the copy, the put along the ring and
\* the followers are done with it.
(* Faulty variant: the followers are not waited for. *)
SlotUsersHere(p, r, e, ch, n) ==
  {Ev("copy", e, ch, n)} \cup (IF RingEdges(p, r) # <<>> THEN {Ev("ring", e, ch, n)} ELSE {})
SlotUsers(p, r, e, ch, n) ==
  {Ev("copy", e, ch, n)} \cup (IF RingEdges(p, r) # <<>> THEN {Ev("ring", e, ch, n)} ELSE {})
                         \cup (IF FansOut(p, r) THEN {Ev("followed", e, ch, n)} ELSE {})
DestCreditSignals(p, r, n) ==
  EachChannel(p, LAMBDA ch : ForEdges(Arriving(p, r), LAMBDA e : OnActive(p, ch, n,
    <<Op(<<"repay">>, "signal", e, ch, n, SlotUsers(p, r, e, ch, n), {}, {e[1]})>>)))
(* Faulty variant: the credits that no later round needs are left. *)
SourceCreditWaitUseful(p, r, n) ==
  EachChannel(p, LAMBDA ch : ForEdges(Leaving(p, r), LAMBDA e : OnActive(p, ch, n + p.slots,
    <<Op(<<"credit">>, "await", e, ch, n, {Ev("put", e, ch, n)}, {Ev("credit", e, ch, n)}, {e[2]})>>)))
SourceCreditWait(p, r, n) ==
  EachChannel(p, LAMBDA ch : ForEdges(Leaving(p, r), LAMBDA e : OnActive(p, ch, n,
    <<Op(<<"credit">>, "await", e, ch, n, {Ev("put", e, ch, n)}, {Ev("credit", e, ch, n)}, {e[2]})>>)))

(***************************************************************************)
(* What the host enqueues, round by round, and how it runs: an operation   *)
(* follows the ones before it on its stream, its events and, when it waits *)
(* for signals, as many of the peer's as were asked for until then.        *)
(***************************************************************************)
Round(p, r, n) ==
  SourceStage(p, r, n) \o DestSourceWait(p, r, n) \o DestRootCopy(p, r, n)
    \o (IF FansOut(p, r) THEN RootSignalFollowers(p, r, n) ELSE <<>>)
    \o FollowerStage(p, r, n)
    \o (IF FansOut(p, r) THEN RootFollowerWaits(p, r, n) ELSE <<>>)
    \o DestCreditSignals(p, r, n) \o SourceCreditWait(p, r, n)
LaunchPlan(p, r) ==
  LET operations == FlattenSeq([n \in 1 .. MaxRounds(p) |-> Round(p, r, n - 1)])
  IN  [i \in 1 .. Len(operations) |->
         [operations[i] EXCEPT !.stream = IF Pipelined(p, r) THEN @ ELSE <<"work">>,
                               !.needs = IF Pipelined(p, r) THEN @ ELSE {}]]

Sent(r, i) == ops[r][i].kind \in {"put", "forward", "signal"}
Remote(r, i) == Sent(r, i) \/ ops[r][i].kind = "await"
\* Signals of the peer that this and the earlier waits of the rank take.
Asked(r, i, peer) == Cardinality({k \in 1 .. i : ops[r][k].kind = "await" /\ peer \in ops[r][k].peers})
Recorded(r) == UNION {ops[r][i].gives : i \in done[r]}
Turn(r, i) ==
  /\ i \notin done[r]
  /\ \A k \in 1 .. (i - 1) : k \notin done[r] =>
       /\ ops[r][k].stream # ops[r][i].stream
       /\ ~(tx.ordered /\ Remote(r, k) /\ Remote(r, i))
  /\ ops[r][i].needs \subseteq Recorded(r)

Slot(op, slots) == <<op.edge, op.ch, op.n % slots>>
Pairs(p) == {x \in HRanks(p) \X HRanks(p) : x[1] # x[2]}
Slots(p) == {<<e, ch, i>> : e \in p.rdma, ch \in Channels(p), i \in 0 .. ((p.fifo + p.slots) - 1)}
EmptySlot == <<0, 0, 0>>

HostInit ==
  /\ tx \in Transfers
  /\ ops = [r \in HRanks(tx) |-> LaunchPlan(tx, r)]
  /\ done = [r \in HRanks(tx) |-> {}]
  /\ packed = [x \in Slots(tx) |-> EmptySlot] /\ landed = packed
  /\ wire = [x \in Pairs(tx) |-> <<>>]
  /\ seen = [x \in Pairs(tx) |-> 0]
  /\ copied = {}

Finish(r, i) == done' = [done EXCEPT ![r] = @ \cup {i}] /\ UNCHANGED <<tx, ops>>
Data(op) == <<op.edge[3], op.ch, op.n>>

Pack(r, i) ==
  LET op == ops[r][i]
  IN  /\ op.kind = "pack" /\ Turn(r, i)
      /\ packed' = [packed EXCEPT ![Slot(op, tx.fifo)] = Data(op)]
      /\ Finish(r, i) /\ UNCHANGED <<landed, wire, seen, copied>>

\* A put has left its stream when the sender's memory has been read.
Message(to, op, data) == [to |-> to, slot |-> Slot(op, tx.slots), data |-> data]
PutSignal(r, i) ==
  LET op == ops[r][i]
      from == IF op.kind = "put" THEN packed[Slot(op, tx.fifo)]
              ELSE landed[Slot([op EXCEPT !.edge = RootEdge(tx, op.edge)], tx.slots)]
  IN  /\ op.kind \in {"put", "forward"} /\ Turn(r, i)
      /\ wire' = [wire EXCEPT ![<<r, op.edge[2]>>] = Append(@, Message("slot", op, from))]
      /\ Finish(r, i) /\ UNCHANGED <<packed, landed, seen, copied>>

Signal(r, i) ==
  LET op == ops[r][i]
  IN  /\ op.kind = "signal" /\ Turn(r, i)
      /\ wire' = [x \in Pairs(tx) |->
           IF x[1] = r /\ x[2] \in op.peers THEN Append(wire[x], Message("counter", op, EmptySlot)) ELSE wire[x]]
      /\ Finish(r, i) /\ UNCHANGED <<packed, landed, seen, copied>>

WaitSignal(r, i) ==
  /\ ops[r][i].kind = "await" /\ Turn(r, i)
  /\ \A peer \in ops[r][i].peers : seen[peer, r] >= Asked(r, i, peer)
  /\ Finish(r, i) /\ UNCHANGED <<packed, landed, wire, seen, copied>>

Copy(r, i) ==
  LET op == ops[r][i]
  IN  /\ op.kind = "copy" /\ Turn(r, i)
      /\ copied' = copied \cup {<<r, Data(op), landed[Slot(op, tx.slots)]>>}
      /\ Finish(r, i) /\ UNCHANGED <<packed, landed, wire, seen>>

\* The put's data is there before its signal; one peer's operations in order.
Land(x) ==
  LET m == Head(wire[x])
  IN  /\ wire[x] # <<>>
      /\ wire' = [wire EXCEPT ![x] = Tail(@)]
      /\ seen' = [seen EXCEPT ![x] = @ + 1]
      /\ landed' = IF m.to = "slot" THEN [landed EXCEPT ![m.slot] = m.data] ELSE landed
      /\ UNCHANGED <<tx, ops, done, packed, copied>>

Run(r, i) == Pack(r, i) \/ PutSignal(r, i) \/ Signal(r, i) \/ WaitSignal(r, i) \/ Copy(r, i)
HostNext ==
  \/ \E r \in HRanks(tx) : \E i \in 1 .. Len(ops[r]) : Run(r, i)
  \/ \E x \in Pairs(tx) : Land(x)
HostSpec == HostInit /\ [][HostNext]_hostVars

(***************************************************************************)
(* Properties.                                                             *)
(***************************************************************************)
\* Every copy into a user tensor reads the chunk of its own round: a slot is
\* not filled again before the local copy, the put along the ring and every
\* follower have read it, and no signal is taken for another
\* (reshard_staging.cu:1934-1938, 2135-2139, 2561-2582).
CopiesRight == \A c \in copied : c[2] = c[3]

\* Every rank enqueues its own schedule, with no look at the others': the
\* waits of all ranks are met, and no signal is left that the next transfer
\* on the communicator would take for its own (reshard_staging.cu:762-768, 2437).
TransferEnded == \A r \in HRanks(tx) : done[r] = DOMAIN ops[r]
TransfersEnd == TransferEnded \/ ENABLED HostNext
CountersEven ==
  TransferEnded /\ (\A x \in Pairs(tx) : wire[x] = <<>>) =>
    \A x \in Pairs(tx) : seen[x] = Asked(x[2], Len(ops[x[2]]), x[1])
=============================================================================
