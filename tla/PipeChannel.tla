----------------------------- MODULE PipeChannel -----------------------------
(***************************************************************************)
(* One channel of the PIPE kernels (staging_kernel.cu) and its flow        *)
(* control (staging_primitives.cuh).                                       *)
(*                                                                         *)
(* A trainer packs chunks into a small FIFO of its own, from which a       *)
(* control warp puts them into slots of the first handler.  A handler      *)
(* queues every chunk for its unpack warps, puts the same slot to the next *)
(* handler on the ring and tells its followers, who read the slot over     *)
(* NVLink; it gives a slot back to its producer when all of them are done  *)
(* with it.  Counters and cursors stay in the control slot of the plan     *)
(* from call to call, and the slots are shared by all plans: what keeps    *)
(* two calls apart is that a consumer's kernel says READY to its producer. *)
(*                                                                         *)
(* A CTA owns a channel, so a rank is at most one trainer, one handler and *)
(* one follower here (the two last on CTAs of their own).                  *)
(***************************************************************************)
EXTENDS Integers, Sequences, FiniteSets

CONSTANTS
  Programs,      \* sequences of plans: [x, chunks, slots, packs, rdma, lsa]
                 \* with the control slot, the channel's chunks, the slots of a
                 \* receiver and of a trainer's FIFO, and the edges
                 \* <<from, to, source>> of the two transports
  Depth,         \* PIPE_GENERATOR_QUEUE_DEPTH
  Tiles          \* tiles that a follower loads a chunk in

PipeAssumption == Depth \in Nat \ {0} /\ Tiles \in Nat \ {0}

VARIABLES
  prog,          \* the calls that every rank makes, in this order
  at,            \* [rank -> the call whose kernels it runs, or waits to run]
  live,          \* ranks whose kernels are running
  pack,          \* [rank -> its pack warps: chunks packed, tail and counter
                 \* they started from]
  post,          \* [rank -> its trainer's control warp]
  recv,          \* [rank -> the control warp of its RDMA phase]
  pull,          \* [rank -> the control warp of its LSA phase]
  queued,        \* [rank -> descriptors pushed for its RDMA phase's unpack warps]
  unpacked,      \* [rank -> descriptors they have finished]
  loaded,        \* [rank -> tiles pushed for its LSA phase's unpack warps]
  scattered,     \* [rank -> tiles they have finished]
  got,           \* [rank -> [source -> the chunks it unpacked in this call]]
  fifo,          \* [rank -> [slot -> the chunk in its pack FIFO]]
  region,        \* [rank -> [slot -> the chunk in its staging slots]]
  localTail,     \* [rank, control slot -> chunks ever published by its pack warps]
  putCounter,    \* [rank -> puts whose local slot has been read]
  cursorTail,    \* [edge, control slot -> the producer's stored tail]
  tail,          \* [edge, control slot -> tail that the consumer sees]
  head,          \* [edge, control slot -> head that the producer sees]
  cursorHead,    \* [edge, control slot -> the consumer's stored head]
  ready,         \* [edge, control slot -> READY signals]
  readyShadow,   \* [edge, control slot -> those the producer has waited for]
  posted,        \* [edge -> puts not yet read from the sender's memory]
  flying         \* [edge -> puts read and not yet in the receiver's memory]

kernelVars == <<pack, post, recv, pull, queued, unpacked, loaded, scattered, got>>
memoryVars == <<fifo, region>>
localVars == <<localTail, putCounter>>
edgeVars == <<cursorTail, tail, head, cursorHead, ready, readyShadow>>
netVars == <<posted, flying>>
pipeVars == <<prog, at, live, kernelVars, memoryVars, localVars, edgeVars, netVars>>

(***************************************************************************)
(* The plan of a rank's call.                                              *)
(***************************************************************************)
Calls == 1 .. Len(prog)
EdgesOf(plan) == plan.rdma \cup plan.lsa
AllEdges == UNION {EdgesOf(prog[k]) : k \in Calls}
Ranks == {e[1] : e \in AllEdges} \cup {e[2] : e \in AllEdges}
Srcs == {e[3] : e \in AllEdges}
Plan(r) == prog[at[r]]
Key(r, e) == <<e, Plan(r).x>>

In(r, edges) == {e \in edges : e[2] = r}
Out(r, edges) == {e \in edges : e[1] = r}
Only(S) == CHOOSE x \in S : TRUE
Receives(r) == In(r, Plan(r).rdma) # {}
IsTrainer(r) == Out(r, Plan(r).rdma) # {} /\ ~Receives(r)
Follows(r) == In(r, Plan(r).lsa) # {}
Source(r) == Only(In(r, Plan(r).rdma))
Target(r) == Only(Out(r, Plan(r).rdma))
Rings(r) == Receives(r) /\ Out(r, Plan(r).rdma) # {}
\* The sources a rank follows, in the order its LSA phase takes them.
LsaTurn(r, i) ==
  CHOOSE e \in In(r, Plan(r).lsa) : Cardinality({f \in In(r, Plan(r).lsa) : f[3] < e[3]}) = i - 1
LsaCount(r) == Cardinality(In(r, Plan(r).lsa))
Value(r, s, n) == <<at[r], s, n>>
Controls == {prog[k].x : k \in Calls}
Most(S) == CHOOSE x \in S : \A y \in S : y <= x
MaxSlots == Most({prog[k].slots : k \in Calls} \cup {prog[k].packs : k \in Calls})

(***************************************************************************)
(* Launch.  A rank's kernels follow one another on its stream.             *)
(***************************************************************************)
Idle == [pc |-> "idle", base |-> 0, n |-> 0, batch |-> 0, done |-> 0, turn |-> 1, told |-> {}]
Fresh(running) == [Idle EXCEPT !.pc = IF running THEN "start" ELSE "end"]
NoChunk == <<0, 0, 0>>

PipeInit ==
  /\ prog \in Programs
  /\ at = [r \in Ranks |-> 1]
  /\ live = {}
  /\ pack = [r \in Ranks |-> [n |-> 0, tail |-> 0, count |-> 0]]
  /\ post = [r \in Ranks |-> Idle] /\ recv = [r \in Ranks |-> Idle] /\ pull = [r \in Ranks |-> Idle]
  /\ queued = [r \in Ranks |-> 0] /\ unpacked = [r \in Ranks |-> 0]
  /\ loaded = [r \in Ranks |-> 0] /\ scattered = [r \in Ranks |-> 0]
  /\ got = [r \in Ranks |-> [s \in Srcs |-> <<>>]]
  /\ fifo = [r \in Ranks |-> [i \in 0 .. (MaxSlots - 1) |-> NoChunk]] /\ region = fifo
  /\ localTail = [p \in Ranks \X Controls |-> 0]
  /\ putCounter = [r \in Ranks |-> 0]
  /\ cursorTail = [p \in AllEdges \X Controls |-> 0]
  /\ tail = cursorTail /\ head = cursorTail /\ cursorHead = cursorTail
  /\ ready = cursorTail /\ readyShadow = cursorTail
  /\ posted = [e \in AllEdges |-> <<>>] /\ flying = posted

Launch(r) ==
  /\ r \notin live /\ at[r] \in Calls
  /\ live' = live \cup {r}
  /\ pack' = [pack EXCEPT ![r] = [n |-> 0, tail |-> localTail[r, Plan(r).x], count |-> putCounter[r]]]
  /\ post' = [post EXCEPT ![r] = Fresh(IsTrainer(r))]
  /\ recv' = [recv EXCEPT ![r] = Fresh(Receives(r))]
  /\ pull' = [pull EXCEPT ![r] = Fresh(Follows(r))]
  /\ queued' = [queued EXCEPT ![r] = 0] /\ unpacked' = [unpacked EXCEPT ![r] = 0]
  /\ loaded' = [loaded EXCEPT ![r] = 0] /\ scattered' = [scattered EXCEPT ![r] = 0]
  /\ got' = [got EXCEPT ![r] = [s \in Srcs |-> <<>>]]
  /\ UNCHANGED <<prog, at, memoryVars, localVars, edgeVars, netVars>>

\* A kernel ends with its control warps: each has waited for its copy warps.
Exit(r) ==
  /\ r \in live
  /\ post[r].pc = "end" /\ recv[r].pc = "end" /\ pull[r].pc = "end"
  /\ live' = live \ {r}
  /\ at' = [at EXCEPT ![r] = @ + 1]
  /\ UNCHANGED <<prog, kernelVars, memoryVars, localVars, edgeVars, netVars>>

(***************************************************************************)
(* Puts.  A put reads the sender's memory some time after it is posted,    *)
(* and counts itself then; it arrives before the signal posted after it,   *)
(* which the receiver sees as its tail.  READY and head signals only free  *)
(* who waits for them: a late one is a late wait.                          *)
(***************************************************************************)
Credit(e, x, shadow, slots) == shadow - head[e, x] < slots
PutOp(e, x, from, to) == [x |-> x, from |-> from, to |-> to]

ReadPut(e) ==
  /\ posted[e] # <<>>
  /\ LET op == Head(posted[e])
         memory == IF \E k \in Calls : e \in prog[k].rdma /\ In(e[1], prog[k].rdma) # {} THEN region ELSE fifo
     IN  flying' = [flying EXCEPT ![e] = Append(@, [x |-> op.x, to |-> op.to, chunk |-> memory[e[1]][op.from]])]
  /\ posted' = [posted EXCEPT ![e] = Tail(@)]
  /\ putCounter' = [putCounter EXCEPT ![e[1]] = @ + 1]
  /\ UNCHANGED <<prog, at, live, kernelVars, memoryVars, localTail, edgeVars>>

Arrive(e) ==
  /\ flying[e] # <<>>
  /\ LET op == Head(flying[e])
     IN  /\ region' = [region EXCEPT ![e[2]][op.to] = op.chunk]
         /\ tail' = [tail EXCEPT ![<<e, op.x>>] = @ + 1]
  /\ flying' = [flying EXCEPT ![e] = Tail(@)]
  /\ UNCHANGED <<prog, at, live, kernelVars, fifo, localVars, cursorTail, head, cursorHead, ready, readyShadow, posted>>

(***************************************************************************)
(* Trainer.  The credit of the pack warps is the difference of what they   *)
(* published and what the puts have read since the kernel started.         *)
(***************************************************************************)
PackChunk(r) ==
  /\ r \in live /\ IsTrainer(r) /\ pack[r].n < Plan(r).chunks
  /\ pack[r].n - (putCounter[r] - pack[r].count) < Plan(r).packs
  /\ fifo' = [fifo EXCEPT ![r][(pack[r].tail + pack[r].n) % Plan(r).packs] =
                 Value(r, Target(r)[3], pack[r].n + 1)]
  /\ localTail' = [localTail EXCEPT ![<<r, Plan(r).x>>] = @ + 1]
  /\ pack' = [pack EXCEPT ![r].n = @ + 1]
  /\ UNCHANGED <<prog, at, live, post, recv, pull, queued, unpacked, loaded, scattered, got, region, putCounter,
                 edgeVars, netVars>>

\* The control warp starts from the last tail it posted: the pack warps may
\* have published already.
(* Faulty variant: it starts from the local tail. *)
TrainerStartLocal(r) ==
  /\ post[r].pc = "start"
  /\ post' = [post EXCEPT ![r] = [Idle EXCEPT !.pc = "ready", !.base = localTail[r, Plan(r).x], !.batch = putCounter[r]]]
  /\ UNCHANGED <<prog, at, live, pack, recv, pull, queued, unpacked, loaded, scattered, got, memoryVars, localVars,
                 edgeVars, netVars>>
TrainerStart(r) ==
  /\ post[r].pc = "start"
  /\ post' = [post EXCEPT ![r] = [Idle EXCEPT !.pc = "ready", !.base = cursorTail[Key(r, Target(r))], !.batch = putCounter[r]]]
  /\ UNCHANGED <<prog, at, live, pack, recv, pull, queued, unpacked, loaded, scattered, got, memoryVars, localVars,
                 edgeVars, netVars>>

(* Faulty variant: nobody waits for the consumer's kernel. *)
IsReadyAlways(r) == TRUE
IsReady(r) == ready[Key(r, Target(r))] > readyShadow[Key(r, Target(r))]
TrainerReady(r) ==
  /\ post[r].pc = "ready" /\ IsReady(r)
  /\ readyShadow' = [readyShadow EXCEPT ![Key(r, Target(r))] = @ + 1]
  /\ post' = [post EXCEPT ![r].pc = "run"]
  /\ UNCHANGED <<prog, at, live, pack, recv, pull, queued, unpacked, loaded, scattered, got, memoryVars, localVars,
                 cursorTail, tail, head, cursorHead, ready, netVars>>

TrainerPost(r) ==
  LET e == Target(r)   shadow == post[r].base + post[r].n
  IN  /\ post[r].pc = "run" /\ post[r].n < Plan(r).chunks
      /\ localTail[r, Plan(r).x] > shadow
      /\ Credit(e, Plan(r).x, shadow, Plan(r).slots)
      /\ posted' = [posted EXCEPT ![e] =
                      Append(@, PutOp(e, Plan(r).x, shadow % Plan(r).packs, shadow % Plan(r).slots))]
      /\ cursorTail' = [cursorTail EXCEPT ![Key(r, e)] = shadow + 1]
      /\ post' = [post EXCEPT ![r].n = @ + 1]
      /\ UNCHANGED <<prog, at, live, pack, recv, pull, queued, unpacked, loaded, scattered, got, memoryVars, localVars,
                     tail, head, cursorHead, ready, readyShadow, flying>>

TrainerEnd(r) ==
  /\ post[r].pc = "run" /\ post[r].n = Plan(r).chunks
  /\ putCounter[r] >= post[r].batch + Plan(r).chunks
  /\ post' = [post EXCEPT ![r].pc = "end"]
  /\ UNCHANGED <<prog, at, live, pack, recv, pull, queued, unpacked, loaded, scattered, got, memoryVars, localVars,
                 edgeVars, netVars>>

(***************************************************************************)
(* Handler: the RDMA phase of a generator.                                 *)
(***************************************************************************)
RecvUnchanged ==
  UNCHANGED <<prog, at, live, pack, post, pull, unpacked, loaded, scattered, got, memoryVars, localVars>>
Forwards(r) == Out(r, Plan(r).lsa)

\* Reaching the kernel means that the slots are free again, whatever plan used them.
SayReady(r) ==
  /\ recv[r].pc = "start"
  /\ ready' = [ready EXCEPT ![Key(r, Source(r))] = @ + 1]
  /\ recv' = [recv EXCEPT ![r].pc = IF Rings(r) THEN "ready" ELSE "poll", ![r].base = cursorHead[Key(r, Source(r))]]
  /\ UNCHANGED <<queued, cursorTail, tail, head, cursorHead, readyShadow, netVars>>
  /\ RecvUnchanged

RingReady(r) ==
  /\ recv[r].pc = "ready" /\ IsReady(r)
  /\ readyShadow' = [readyShadow EXCEPT ![Key(r, Target(r))] = @ + 1]
  /\ recv' = [recv EXCEPT ![r].pc = "poll"]
  /\ UNCHANGED <<queued, cursorTail, tail, head, cursorHead, ready, netVars>>
  /\ RecvUnchanged

Clip(new, left) == IF new > left THEN left ELSE new
Poll(r) ==
  LET new == tail[Key(r, Source(r))] - (recv[r].base + recv[r].done)
  IN  /\ recv[r].pc = "poll" /\ recv[r].done < Plan(r).chunks /\ new > 0
      /\ recv' = [recv EXCEPT ![r].pc = "queue", ![r].batch = Clip(new, Plan(r).chunks - recv[r].done), ![r].n = 0]
      /\ UNCHANGED <<queued, edgeVars, netVars>>
      /\ RecvUnchanged

SlotAt(r) == (recv[r].base + recv[r].done + recv[r].n) % Plan(r).slots
AfterQueue(r) == IF Rings(r) THEN "ring" ELSE IF Forwards(r) # {} THEN "tell" ELSE "next"
Queue(r) ==
  /\ recv[r].pc = "queue" /\ queued[r] - unpacked[r] < Depth
  /\ queued' = [queued EXCEPT ![r] = @ + 1]
  /\ recv' = [recv EXCEPT ![r].pc = AfterQueue(r), ![r].told = {}]
  /\ UNCHANGED <<edgeVars, netVars>>
  /\ RecvUnchanged

RingPut(r) ==
  LET e == Target(r)   shadow == cursorTail[Key(r, e)]
  IN  /\ recv[r].pc = "ring" /\ Credit(e, Plan(r).x, shadow, Plan(r).slots)
      /\ posted' = [posted EXCEPT ![e] = Append(@, PutOp(e, Plan(r).x, SlotAt(r), shadow % Plan(r).slots))]
      /\ cursorTail' = [cursorTail EXCEPT ![Key(r, e)] = @ + 1]
      /\ recv' = [recv EXCEPT ![r].pc = IF Forwards(r) # {} THEN "tell" ELSE "next"]
      /\ UNCHANGED <<queued, tail, head, cursorHead, ready, readyShadow, flying>>
      /\ RecvUnchanged

\* One lane for each follower.
Tell(r) ==
  recv[r].pc = "tell" /\ \E e \in Forwards(r) \ recv[r].told :
    /\ Credit(e, Plan(r).x, cursorTail[Key(r, e)], Plan(r).slots)
    /\ tail' = [tail EXCEPT ![Key(r, e)] = cursorTail[Key(r, e)] + 1]
    /\ cursorTail' = [cursorTail EXCEPT ![Key(r, e)] = @ + 1]
    /\ recv' = [recv EXCEPT ![r].told = @ \cup {e},
                            ![r].pc = IF recv[r].told \cup {e} = Forwards(r) THEN "next" ELSE "tell"]
    /\ UNCHANGED <<queued, head, cursorHead, ready, readyShadow, netVars>>
    /\ RecvUnchanged

NextChunk(r) ==
  LET more == recv[r].n + 1 < recv[r].batch
  IN  /\ recv[r].pc = "next"
      /\ recv' = [recv EXCEPT ![r].pc = IF more THEN "queue" ELSE "drain",
                              ![r].n = IF more THEN @ + 1 ELSE 0,
                              ![r].done = IF more THEN @ ELSE @ + recv[r].batch]
      /\ UNCHANGED <<queued, edgeVars, netVars>>
      /\ RecvUnchanged

\* The batch's slots go back when the unpack warps, the followers and the
\* puts to the next handler have all read them.
Drained(r) ==
  /\ unpacked[r] >= recv[r].done
  /\ \A e \in Forwards(r) : head[Key(r, e)] >= cursorTail[Key(r, e)]
  /\ Rings(r) => putCounter[r] >= pack[r].count + recv[r].done
(* Faulty variant: only a full FIFO is given back. *)
ReleaseFull(r) ==
  LET e == Source(r)
  IN  /\ recv[r].pc = "drain" /\ Drained(r)
      /\ IF recv[r].base + recv[r].done - cursorHead[Key(r, e)] >= Plan(r).slots
         THEN /\ head' = [head EXCEPT ![Key(r, e)] = recv[r].base + recv[r].done]
              /\ cursorHead' = [cursorHead EXCEPT ![Key(r, e)] = recv[r].base + recv[r].done]
         ELSE UNCHANGED <<head, cursorHead>>
      /\ recv' = [recv EXCEPT ![r].pc = IF recv[r].done = Plan(r).chunks THEN "end" ELSE "poll"]
      /\ UNCHANGED <<queued, cursorTail, tail, ready, readyShadow, netVars>>
      /\ RecvUnchanged
Release(r) ==
  LET e == Source(r)
  IN  /\ recv[r].pc = "drain" /\ Drained(r)
      /\ head' = [head EXCEPT ![Key(r, e)] = @ + (recv[r].base + recv[r].done - cursorHead[Key(r, e)])]
      /\ cursorHead' = [cursorHead EXCEPT ![Key(r, e)] = recv[r].base + recv[r].done]
      /\ recv' = [recv EXCEPT ![r].pc = IF recv[r].done = Plan(r).chunks THEN "end" ELSE "poll"]
      /\ UNCHANGED <<queued, cursorTail, tail, ready, readyShadow, netVars>>
      /\ RecvUnchanged

\* The slot is read when the unpack warps copy it, and counted after.
Unpack(r) ==
  LET slot == (recv[r].base + unpacked[r]) % Plan(r).slots   s == Source(r)[3]
  IN  /\ r \in live /\ Receives(r) /\ unpacked[r] < queued[r]
      /\ got' = [got EXCEPT ![r][s] = Append(@, region[r][slot])]
      /\ unpacked' = [unpacked EXCEPT ![r] = @ + 1]
      /\ UNCHANGED <<prog, at, live, pack, post, recv, pull, queued, loaded, scattered, memoryVars, localVars, edgeVars,
                     netVars>>

(***************************************************************************)
(* Follower: the LSA phase of a generator, one source after another.  Its  *)
(* tiles are loaded from the handler's slots.                              *)
(***************************************************************************)
PullUnchanged ==
  UNCHANGED <<prog, at, live, pack, post, recv, queued, unpacked, memoryVars, localVars, netVars>>
Followed(r) == LsaTurn(r, pull[r].turn)

PullStart(r) ==
  /\ pull[r].pc = "start"
  /\ pull' = [pull EXCEPT ![r].pc = "poll", ![r].base = cursorHead[Key(r, Followed(r))], ![r].done = 0]
  /\ loaded' = [loaded EXCEPT ![r] = 0] /\ scattered' = [scattered EXCEPT ![r] = 0]
  /\ UNCHANGED <<got, edgeVars>>
  /\ PullUnchanged

PullPoll(r) ==
  LET new == tail[Key(r, Followed(r))] - (pull[r].base + pull[r].done)
  IN  /\ pull[r].pc = "poll" /\ new > 0
      /\ pull' = [pull EXCEPT ![r].pc = "load", ![r].done = @ + Clip(new, Plan(r).chunks - pull[r].done)]
      /\ UNCHANGED <<loaded, scattered, got, edgeVars>>
      /\ PullUnchanged

Load(r) ==
  /\ pull[r].pc = "load" /\ loaded[r] - scattered[r] < Depth
  /\ loaded' = [loaded EXCEPT ![r] = @ + 1]
  /\ pull' = [pull EXCEPT ![r].pc = IF loaded[r] + 1 = pull[r].done * Tiles THEN "drain" ELSE "load"]
  /\ UNCHANGED <<scattered, got, edgeVars>>
  /\ PullUnchanged

Scatter(r) ==
  LET e == Followed(r)   slot == (pull[r].base + (scattered[r] \div Tiles)) % Plan(r).slots
  IN  /\ r \in live /\ pull[r].pc \in {"poll", "load", "drain"} /\ scattered[r] < loaded[r]
      /\ got' = [got EXCEPT ![r][e[3]] = Append(@, region[e[1]][slot])]
      /\ scattered' = [scattered EXCEPT ![r] = @ + 1]
      /\ UNCHANGED <<loaded, pull, edgeVars>>
      /\ PullUnchanged

\* Whole chunks are given back, when their last tile has been scattered.
Scattered(r) == scattered[r] >= pull[r].done * Tiles
PullRelease(r) ==
  LET e == Followed(r)   all == pull[r].done = Plan(r).chunks   last == pull[r].turn = LsaCount(r)
  IN  /\ pull[r].pc = "drain" /\ Scattered(r)
      /\ head' = [head EXCEPT ![Key(r, e)] = pull[r].base + pull[r].done]
      /\ cursorHead' = [cursorHead EXCEPT ![Key(r, e)] = pull[r].base + pull[r].done]
      /\ pull' = [pull EXCEPT ![r].pc = IF ~all THEN "poll" ELSE IF last THEN "end" ELSE "start",
                              ![r].turn = IF all /\ ~last THEN @ + 1 ELSE @]
      /\ UNCHANGED <<loaded, scattered, got, cursorTail, tail, ready, readyShadow>>
      /\ PullUnchanged

(***************************************************************************)
(* Everything.                                                             *)
(***************************************************************************)
TrainerStep(r) == PackChunk(r) \/ TrainerStart(r) \/ TrainerReady(r) \/ TrainerPost(r) \/ TrainerEnd(r)
HandlerStep(r) ==
  \/ SayReady(r) \/ RingReady(r) \/ Poll(r) \/ Queue(r) \/ RingPut(r) \/ Tell(r) \/ NextChunk(r)
  \/ Release(r) \/ Unpack(r)
FollowerStep(r) == PullStart(r) \/ PullPoll(r) \/ Load(r) \/ Scatter(r) \/ PullRelease(r)

PipeNext ==
  \/ \E r \in Ranks : Launch(r) \/ Exit(r) \/ TrainerStep(r) \/ HandlerStep(r) \/ FollowerStep(r)
  \/ \E e \in AllEdges : ReadPut(e) \/ Arrive(e)
PipeSpec == PipeInit /\ [][PipeNext]_pipeVars

(***************************************************************************)
(* Properties.                                                             *)
(***************************************************************************)
\* What a rank unpacks is this call's data, in order, whole: no slot is
\* overwritten while somebody may still read it, by this plan's producer or
\* by another plan's (staging_kernel.cu:1335-1394, 974-1010).
UnpackRight ==
  \A r \in Ranks : r \in live =>
    \A s \in Srcs : \A i \in 1 .. Len(got[r][s]) :
      got[r][s][i] = Value(r, s, IF \E e \in In(r, Plan(r).lsa) : e[3] = s THEN ((i - 1) \div Tiles) + 1 ELSE i)

\* Kernels spin without yielding, for a peer that spins for another: the calls
\* of every rank end, whatever the order in which they are launched
\* (staging_kernel.cu:1190-1215, 1335-1375).
PipeEnded == live = {} /\ \A r \in Ranks : at[r] > Len(prog)
KernelsEnd == PipeEnded \/ ENABLED PipeNext

\* The four counters of an edge live on two ranks and survive the call: between
\* calls they agree, or a later call would start in the middle of the ring
\* (staging_kernel.cu:957-964, 1245-1255).
CursorsMeet ==
  \A e \in AllEdges : e[1] \notin live /\ e[2] \notin live /\ at[e[1]] = at[e[2]] =>
    \A x \in Controls :
      cursorTail[e, x] = tail[e, x] /\ cursorHead[e, x] = head[e, x] /\ tail[e, x] = head[e, x]
=============================================================================
