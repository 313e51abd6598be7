------------------------------ MODULE LlProtocol ------------------------------
(***************************************************************************)
(* The low-latency (LL) dispatch and combine protocol of nccl_ep           *)
(* (src/nccl_ep/device/ll_ep.cuh, ll/ll_common.cuh): ranks run the same    *)
(* sequence of operations on one group; every operation works on one of    *)
(* two banks of the peers' receive buffers, selected by the parity of a    *)
(* group-wide epoch, and no barrier separates two operations.              *)
(*                                                                         *)
(* An operation writes payload into its receivers' bank, wipes the count   *)
(* and flag words of its own next bank, publishes a count (dispatch) or a  *)
(* finish flag (combine) to every receiver, and waits for a publication    *)
(* from every sender.  A publication is a store into a word of the         *)
(* receiver (NVLink peers) or a signal the network delivers (RDMA peers).  *)
(* The (rank, local expert) lanes of a pair of ranks run in parallel on    *)
(* words of their own; one lane per pair is modelled.                      *)
(*                                                                         *)
(* A payload or a publication is represented by the number of the          *)
(* operation that produced it.                                             *)
(***************************************************************************)
EXTENDS Integers, FiniteSets, Sequences

CONSTANTS
  Ranks,
  Modes   \* group configurations: [tokens, experts, rdma, crashes, program]

Kinds == {"dispatch", "combine"}

(* tokens / experts: the ranks that own tokens / experts (all of them in a  *)
(* classic group, a partition in an AFD group); rdma: the ordered pairs not *)
(* connected by NVLink; crashes: how many ranks may die, masking enabled    *)
(* when it is not 0; program: the kinds of the group's operations.          *)
ASSUME ModesAssumption ==
  /\ IsFiniteSet(Ranks)
  /\ \A m \in Modes : /\ m.tokens \subseteq Ranks /\ m.experts \subseteq Ranks
                      /\ m.rdma \subseteq Ranks \X Ranks
                      /\ m.crashes \in Nat
                      /\ m.program \in Seq(Kinds)

VARIABLES
  mode,      \* the group's configuration; never changes
  op,        \* the number of the operation a rank runs or runs next
  pc,        \* idle, send, staged (send-only returned) or recv
  ring,      \* LowLatencyEpochState of each rank
  bank,      \* the bank the operation in progress selected
  wiped,     \* the next bank's words are wiped
  put,       \* receivers whose payload is written
  published, \* receivers the count or flag is published to
  got,       \* senders whose count or flag is consumed
  word,      \* the count/flag word (or signal) of a rank, bank and sender
  data,      \* the payload region of a rank, bank and sender
  net,       \* signals the network still carries
  sent,      \* ghost: <<receiver, operation>> a rank has published
  mask,      \* ranks a rank has masked
  dead       \* ranks that stopped

opVars   == <<op, pc, ring, bank>>
workVars == <<wiped, put, published, got>>
memVars  == <<word, data, net, sent>>
failVars == <<mask, dead>>
vars == <<mode, opVars, workVars, memVars, failVars>>

Banks == {0, 1}

(* Faulty variant: there is one bank. *)
SingleBank(epoch) == 0 * epoch

BankOf(epoch) == epoch % 2

Kind(r) == mode.program[op[r]]
Senders(k)   == IF k = "dispatch" THEN mode.tokens ELSE mode.experts
Receivers(k) == IF k = "dispatch" THEN mode.experts ELSE mode.tokens

(* The ranks r sends to, and receives from, in its operation. *)
Dests(r)   == IF r \in Senders(Kind(r)) THEN Receivers(Kind(r)) \ mask[r] ELSE {}
Sources(r) == IF r \in Receivers(Kind(r)) THEN Senders(Kind(r)) \ mask[r] ELSE {}

Goto(r, p) == pc' = [pc EXCEPT ![r] = p]

-----------------------------------------------------------------------------
Init ==
  /\ mode \in Modes
  /\ op = [r \in Ranks |-> 1]
  /\ pc = [r \in Ranks |-> "idle"]
  /\ ring = [r \in Ranks |-> [epoch |-> 0, pending_epoch |-> 0, send_in_flight |-> FALSE]]
  /\ bank = [r \in Ranks |-> 0]
  /\ wiped = [r \in Ranks |-> FALSE]
  /\ put = [r \in Ranks |-> {}] /\ published = [r \in Ranks |-> {}]
  /\ got = [r \in Ranks |-> {}]
  /\ word = [r \in Ranks |-> [b \in Banks |-> [s \in Ranks |-> {}]]]
  /\ data = [r \in Ranks |-> [b \in Banks |-> [s \in Ranks |-> 0]]]
  /\ net = {} /\ sent = [r \in Ranks |-> {}]
  /\ mask = [r \in Ranks |-> {}] /\ dead = {}

-----------------------------------------------------------------------------
(* selectLowLatencyEpoch, SEND phase: a send-only launch parks its epoch for  *)
(* the completion that must follow.                                           *)
Launch(r) ==
  /\ pc[r] = "idle" /\ op[r] <= Len(mode.program)
  /\ ~ring[r].send_in_flight
  /\ bank' = [bank EXCEPT ![r] = BankOf(ring[r].epoch)]
  /\ \/ UNCHANGED ring
     \/ ring' = [ring EXCEPT ![r].pending_epoch = ring[r].epoch, ![r].send_in_flight = TRUE]
  /\ Goto(r, "send")
  /\ UNCHANGED <<mode, op, workVars, memVars, failVars>>

(* Faulty variant: the bank in use is wiped. *)
WipeThisBank(r) ==
  /\ pc[r] = "send" /\ ~wiped[r]
  /\ word' = [word EXCEPT ![r][bank[r]] =
                [s \in Ranks |-> IF <<s, r>> \in mode.rdma THEN @[s] ELSE {}]]
  /\ wiped' = [wiped EXCEPT ![r] = TRUE]
  /\ UNCHANGED <<mode, opVars, put, published, got, data, net, sent, failVars>>

(* The control warp zeroes the words of the next epoch's bank.  Network       *)
(* signals are not memory words: they are only reset when they are consumed.  *)
WipeNextBank(r) ==
  /\ pc[r] = "send" /\ ~wiped[r]
  /\ word' = [word EXCEPT ![r][1 - bank[r]] =
                [s \in Ranks |-> IF <<s, r>> \in mode.rdma THEN @[s] ELSE {}]]
  /\ wiped' = [wiped EXCEPT ![r] = TRUE]
  /\ UNCHANGED <<mode, opVars, put, published, got, data, net, sent, failVars>>

(* Payload of r for d.  The buffers of dispatch and combine share a bank, so  *)
(* what an earlier operation left in d's bank is lost, whoever wrote it.      *)
SendPayload(r, d) ==
  /\ pc[r] = "send" /\ d \in Dests(r) \ put[r]
  /\ data' = [data EXCEPT ![d][bank[r]] =
                [s \in Ranks |-> IF s = r \/ @[s] = op[r] THEN op[r] ELSE 0]]
  /\ put' = [put EXCEPT ![r] = @ \cup {d}]
  /\ UNCHANGED <<mode, opVars, wiped, published, got, word, net, sent, failVars>>

(* Faulty variant: the count is published without waiting for the wipe. *)
MayPublishEarly(r, d) == pc[r] = "send" /\ d \in (Dests(r) \cap put[r]) \ published[r]

(* The sending lane waits for its payload and for the wipe of the next bank   *)
(* (rankDone reaches 2 * FINISHED_SUM_TAG, or atomicCleanFlag is raised).     *)
MayPublish(r, d) ==
  pc[r] = "send" /\ wiped[r] /\ d \in (Dests(r) \cap put[r]) \ published[r]

(* sendExpertCount and sendFinishFlag *)
Publish(r, d) ==
  /\ MayPublish(r, d)
  /\ IF <<r, d>> \in mode.rdma
       THEN /\ net' = net \cup {[from |-> r, to |-> d, op |-> op[r], bank |-> bank[r]]}
            /\ UNCHANGED word
       ELSE word' = [word EXCEPT ![d][bank[r]][r] = {op[r]}] /\ UNCHANGED net
  /\ published' = [published EXCEPT ![r] = @ \cup {d}]
  /\ sent' = [sent EXCEPT ![r] = @ \cup {<<d, op[r]>>}]
  /\ UNCHANGED <<mode, opVars, wiped, put, got, data, failVars>>

(* A signal arrives, after the payload posted before it; it adds up. *)
Deliver(m) ==
  /\ m \in net
  /\ net' = net \ {m}
  /\ word' = [word EXCEPT ![m.to][m.bank][m.from] = @ \cup {m.op}]
  /\ UNCHANGED <<mode, opVars, workVars, data, sent, failVars>>

(* Every lane has sent (the grid-wide barrier): a full launch advances the    *)
(* epoch and receives, a send-only launch returns.                            *)
SendDone(r) ==
  /\ pc[r] = "send" /\ wiped[r] /\ Dests(r) \subseteq published[r]
  /\ IF ring[r].send_in_flight
       THEN Goto(r, "staged") /\ UNCHANGED ring
       ELSE Goto(r, "recv") /\ ring' = [ring EXCEPT ![r].epoch = @ + 1]
  /\ UNCHANGED <<mode, op, bank, workVars, memVars, failVars>>

(* Faulty variant: the completion does not advance the epoch. *)
CompleteKeepsEpoch(r) ==
  /\ pc[r] = "staged"
  /\ bank' = [bank EXCEPT ![r] = BankOf(ring[r].pending_epoch)]
  /\ ring' = [ring EXCEPT ![r].send_in_flight = FALSE]
  /\ Goto(r, "recv")
  /\ UNCHANGED <<mode, op, workVars, memVars, failVars>>

(* ncclEpComplete: the receive phase of the staged operation. *)
Complete(r) ==
  /\ pc[r] = "staged"
  /\ bank' = [bank EXCEPT ![r] = BankOf(ring[r].pending_epoch)]
  /\ ring' = [ring EXCEPT ![r].epoch = @ + 1, ![r].send_in_flight = FALSE]
  /\ Goto(r, "recv")
  /\ UNCHANGED <<mode, op, workVars, memVars, failVars>>

(* A lane of r polls the word of s.  In a full combine a lane polls as soon   *)
(* as its own flag is sent, while other lanes still send.                     *)
Polls(r, s) ==
  /\ pc[r] \in {"send", "recv"} /\ s \in Sources(r) \ got[r]
  /\ pc[r] = "send" =>
       /\ Kind(r) = "combine" /\ ~ring[r].send_in_flight
       /\ s \in Dests(r) => s \in published[r]

(* Faulty variant: the consumed word, or signal, is not cleared. *)
ConsumeKeeps(r, s) ==
  /\ Polls(r, s) /\ word[r][bank[r]][s] # {}
  /\ got' = [got EXCEPT ![r] = @ \cup {s}]
  /\ UNCHANGED <<mode, opVars, wiped, put, published, memVars, failVars>>

(* waitForRecvTokensRelaxed and waitForRecvFlag: take the word and clear it. *)
Consume(r, s) ==
  /\ Polls(r, s) /\ word[r][bank[r]][s] # {}
  /\ word' = [word EXCEPT ![r][bank[r]][s] = {}]
  /\ got' = [got EXCEPT ![r] = @ \cup {s}]
  /\ UNCHANGED <<mode, opVars, wiped, put, published, data, net, sent, failVars>>

(* The wait for a rank that failed expires and the rank is masked.  Timeouts  *)
(* that hit a rank merely slow are not modelled.                              *)
Timeout(r, s) ==
  /\ Polls(r, s) /\ mode.crashes > 0
  /\ s \in dead /\ word[r][bank[r]][s] = {}
  /\ \A m \in net : ~(m.from = s /\ m.to = r)
  /\ mask' = [mask EXCEPT ![r] = @ \cup {s}]
  /\ UNCHANGED <<mode, opVars, workVars, memVars, dead>>

(* Everything received is copied out; the kernel ends. *)
Finish(r) ==
  /\ pc[r] = "recv" /\ Sources(r) \subseteq got[r]
  /\ op' = [op EXCEPT ![r] = @ + 1]
  /\ wiped' = [wiped EXCEPT ![r] = FALSE]
  /\ put' = [put EXCEPT ![r] = {}] /\ published' = [published EXCEPT ![r] = {}]
  /\ got' = [got EXCEPT ![r] = {}]
  /\ Goto(r, "idle")
  /\ UNCHANGED <<mode, ring, bank, memVars, failVars>>

Crash(r) ==
  /\ Cardinality(dead) < mode.crashes
  /\ dead' = dead \cup {r}
  /\ UNCHANGED <<mode, opVars, workVars, memVars, mask>>

RankStep(r) ==
  /\ r \notin dead
  /\ \/ Launch(r) \/ WipeNextBank(r) \/ SendDone(r) \/ Complete(r) \/ Finish(r)
     \/ \E d \in Ranks : SendPayload(r, d) \/ Publish(r, d)
     \/ \E s \in Ranks : Consume(r, s) \/ Timeout(r, s)

(* The application makes no further call. *)
Done == (\A r \in Ranks : r \in dead \/ op[r] > Len(mode.program)) /\ net = {} /\ UNCHANGED vars

Next ==
  \/ \E r \in Ranks : RankStep(r) \/ (r \notin dead /\ Crash(r))
  \/ \E m \in net : Deliver(m)
  \/ Done

(* Warps of a running kernel are scheduled; the network delivers. *)
Fairness ==
  /\ \A r \in Ranks : WF_vars(RankStep(r))
  /\ WF_vars(\E m \in net : Deliver(m))

Spec == Init /\ [][Next]_vars /\ Fairness

-----------------------------------------------------------------------------
Ops == 1 .. Len(mode.program)

(* Ranks agree on the bank of an operation and alternate banks, whichever of  *)
(* them split the operation into send-only and completion                     *)
(* (selectLowLatencyEpoch and completeFullLowLatencyEpoch).                   *)
Active(r) == pc[r] # "idle"
BanksAgree ==
  \A p, q \in Ranks : Active(p) /\ Active(q) =>
    (bank[p] = bank[q] <=> op[p] % 2 = op[q] % 2)

(* A rank never takes a count or flag left over from another operation, nor   *)
(* the sum of two signals, although a bank's words are only wiped one         *)
(* operation ahead and no barrier separates the operations.                   *)
FreshCount ==
  \A r, s \in Ranks :
    Active(r) /\ s \in Sources(r) \ got[r] => word[r][bank[r]][s] \subseteq {op[r]}

(* The payload a rank has been told is there is that of its operation and     *)
(* stays until it is copied out: a peer two operations ahead would write into *)
(* the bank that is still being read.                                         *)
RightPayload ==
  \A r \in Ranks : \A s \in got[r] \ mask[r] : data[r][bank[r]][s] = op[r]

(* A publication is never lost before its receiver takes it: the receiver's   *)
(* wipe of its next bank always comes before a peer can publish into that     *)
(* bank (ll_ep.cuh:951-952, common.hpp:434-435).                              *)
PublicationKept ==
  \A p, r \in Ranks, o \in Ops :
    <<r, o>> \in sent[p] /\ p \notin mask[r]
      /\ (op[r] < o \/ (op[r] = o /\ p \notin got[r])) =>
      \/ o \in word[r][(o - 1) % 2][p]
      \/ \E m \in net : m.from = p /\ m.to = r /\ m.op = o

(* Every rank that does not fail completes every operation, also when peers   *)
(* fail between the publications of one operation.                            *)
AllComplete ==
  \A r \in Ranks : <>(r \in dead \/ op[r] > Len(mode.program))
=============================================================================
