------------------------------ MODULE LlMaskClean ------------------------------
(***************************************************************************)
(* ncclEpMaskClean (src/nccl_ep/nccl_ep.cc:8100-8158): every rank passes a *)
(* mask-aware barrier, zeroes its own count and flag words, passes the     *)
(* barrier again (device/ll/ll_mask.cuh) and marks all ranks active.       *)
(*                                                                         *)
(* The barrier has no round number.  NVLink peers store a counter that     *)
(* only decreases into each other's sync buffer and poll for equality;     *)
(* RDMA peers add to one signal per rank, which its owner compares with    *)
(* the number of its RDMA peers and resets.                                *)
(*                                                                         *)
(* All ranks take part in every clean.  A wait expires only when no rank   *)
(* can take any other step: timeouts are long.                             *)
(***************************************************************************)
EXTENDS Integers, FiniteSets

CONSTANTS
  Ranks,
  Links,     \* the transports: each a set of ordered pairs joined by RDMA
  MaxCleans  \* bound: cleans each rank makes

(* Two ranks are joined by NVLink when they are in one LSA team               *)
(* (ll_lsa_primitives.cuh:73), which holds both ways.                         *)
ASSUME CleanAssumption ==
  /\ IsFiniteSet(Ranks) /\ MaxCleans \in Nat
  /\ \A l \in Links : /\ l \subseteq Ranks \X Ranks
                      /\ \A p, q \in Ranks : <<p, q>> \in l => <<q, p>> \in l

VARIABLES
  rdma,     \* the ordered pairs of ranks joined by RDMA; never changes
  pc,       \* idle, then arrive, publish, wait for each barrier, zero between them
  barrier,  \* which of the two barriers a rank is in
  cleans,   \* cleans a rank has started
  sync,     \* sync[r][p]: the slot of p in the sync buffer of r
  signal,   \* the GIN barrier signal of each rank
  net,      \* GIN signals under way: <<from, to, clean, barrier>>
  told,     \* peers a rank has published its counter to
  seen,     \* peers whose slot a rank has seen equal to its own counter
  counted,  \* the signal reached the threshold; not reset yet, or reset
  mask,     \* ranks a rank has masked
  zeroed    \* ghost: the cleans in which a rank has zeroed its words

barVars == <<pc, barrier, cleans, told, seen, counted>>
vars == <<rdma, barVars, sync, signal, net, mask, zeroed>>

Peers(r) == Ranks \ ({r} \cup mask[r])
Near(r) == {p \in Peers(r) : <<r, p>> \notin rdma}
Far(r)  == {p \in Peers(r) : <<r, p>> \in rdma}
Goto(r, p) == pc' = [pc EXCEPT ![r] = p]

-----------------------------------------------------------------------------
Init ==
  /\ rdma \in Links
  /\ pc = [r \in Ranks |-> "idle"] /\ barrier = [r \in Ranks |-> 1]
  /\ cleans = [r \in Ranks |-> 0]
  /\ sync = [r \in Ranks |-> [p \in Ranks |-> 0]]
  /\ signal = [r \in Ranks |-> 0] /\ net = {}
  /\ told = [r \in Ranks |-> {}] /\ seen = [r \in Ranks |-> {}]
  /\ counted = [r \in Ranks |-> "no"]
  /\ mask = [r \in Ranks |-> {}] /\ zeroed = [r \in Ranks |-> 0]

(* ncclEpMaskClean launches the kernel; its host thread waits for it. *)
StartClean(r) ==
  /\ pc[r] = "idle" /\ cleans[r] < MaxCleans
  /\ cleans' = [cleans EXCEPT ![r] = @ + 1]
  /\ barrier' = [barrier EXCEPT ![r] = 1]
  /\ Goto(r, "arrive")
  /\ UNCHANGED <<rdma, told, seen, counted, sync, signal, net, mask, zeroed>>

-----------------------------------------------------------------------------
(* maskAwareBarrier *)

(* Faulty variant: no thread decrements the counter. *)
ArriveInPlace(r) ==
  /\ pc[r] = "arrive"
  /\ told' = [told EXCEPT ![r] = {}] /\ seen' = [seen EXCEPT ![r] = {}]
  /\ counted' = [counted EXCEPT ![r] = "no"]
  /\ Goto(r, "publish")
  /\ UNCHANGED <<rdma, barrier, cleans, sync, signal, net, mask, zeroed>>

Arrive(r) ==
  /\ pc[r] = "arrive"
  /\ sync' = [sync EXCEPT ![r][r] = @ - 1]
  /\ told' = [told EXCEPT ![r] = {}] /\ seen' = [seen EXCEPT ![r] = {}]
  /\ counted' = [counted EXCEPT ![r] = "no"]
  /\ Goto(r, "publish")
  /\ UNCHANGED <<rdma, barrier, cleans, signal, net, mask, zeroed>>

(* One thread per peer publishes: a store for a near peer, a signal for a far one. *)
Tell(r, p) ==
  /\ pc[r] = "publish" /\ p \in Peers(r) \ told[r]
  /\ IF <<r, p>> \in rdma
       THEN net' = net \cup {<<r, p, cleans[r], barrier[r]>>} /\ UNCHANGED sync
       ELSE sync' = [sync EXCEPT ![p][r] = sync[r][r]] /\ UNCHANGED net
  /\ told' = [told EXCEPT ![r] = @ \cup {p}]
  /\ UNCHANGED <<rdma, pc, barrier, cleans, seen, counted, signal, mask, zeroed>>

Deliver(m) ==
  /\ m \in net /\ net' = net \ {m}
  /\ signal' = [signal EXCEPT ![m[2]] = @ + 1]
  /\ UNCHANGED <<rdma, barVars, sync, mask, zeroed>>

(* __syncthreads between the stores and the polls *)
AllTold(r) ==
  /\ pc[r] = "publish" /\ Peers(r) \subseteq told[r]
  /\ Goto(r, "wait")
  /\ UNCHANGED <<rdma, barrier, cleans, told, seen, counted, sync, signal, net, mask, zeroed>>

(* The thread of a near peer reads its slot, at a moment of its own. *)
See(r, p) ==
  /\ pc[r] = "wait" /\ p \in Near(r) \ seen[r]
  /\ sync[r][p] = sync[r][r]
  /\ seen' = [seen EXCEPT ![r] = @ \cup {p}]
  /\ UNCHANGED <<rdma, pc, barrier, cleans, told, counted, sync, signal, net, mask, zeroed>>

(* Thread 0 waits for the aggregate signal of the far peers, then resets it. *)
Count(r) ==
  /\ pc[r] = "wait" /\ counted[r] = "no"
  /\ Far(r) # {} /\ signal[r] >= Cardinality(Far(r))
  /\ counted' = [counted EXCEPT ![r] = "reached"]
  /\ UNCHANGED <<rdma, pc, barrier, cleans, told, seen, sync, signal, net, mask, zeroed>>

ResetSignal(r) ==
  /\ counted[r] = "reached"
  /\ counted' = [counted EXCEPT ![r] = "reset"]
  /\ signal' = [signal EXCEPT ![r] = 0]
  /\ UNCHANGED <<rdma, pc, barrier, cleans, told, seen, sync, net, mask, zeroed>>

Through(r) ==
  /\ pc[r] = "wait" /\ Near(r) \subseteq seen[r]
  /\ Far(r) = {} \/ counted[r] = "reset"

(* The first barrier leads to the zeroing; the host resets the masks after    *)
(* the second.                                                                *)
Leave(r) ==
  /\ Through(r)
  /\ IF barrier[r] = 1 THEN Goto(r, "zero") /\ UNCHANGED mask
                       ELSE Goto(r, "idle") /\ mask' = [mask EXCEPT ![r] = {}]
  /\ UNCHANGED <<rdma, barrier, cleans, told, seen, counted, sync, signal, net, zeroed>>

Zero(r) ==
  /\ pc[r] = "zero"
  /\ zeroed' = [zeroed EXCEPT ![r] = cleans[r]]
  /\ barrier' = [barrier EXCEPT ![r] = 2]
  /\ Goto(r, "arrive")
  /\ UNCHANGED <<rdma, cleans, told, seen, counted, sync, signal, net, mask>>

Step(r) ==
  \/ StartClean(r) \/ Arrive(r) \/ AllTold(r) \/ Count(r) \/ ResetSignal(r) \/ Leave(r) \/ Zero(r)
  \/ \E p \in Ranks : Tell(r, p) \/ See(r, p)

-----------------------------------------------------------------------------
(* No rank can move without a timeout. *)
Stuck ==
  /\ net = {}
  /\ \A r \in Ranks :
       \/ pc[r] = "idle" /\ cleans[r] = MaxCleans
       \/ /\ pc[r] = "wait" /\ ~Through(r) /\ counted[r] # "reached"
          /\ \A p \in Near(r) \ seen[r] : sync[r][p] # sync[r][r]
          /\ counted[r] = "no" => signal[r] < Cardinality(Far(r)) \/ Far(r) = {}

(* Faulty variant: the poll starts over. *)
ExpireNearRetries(r, p) ==
  /\ Stuck /\ pc[r] = "wait" /\ p \in Near(r) \ seen[r]
  /\ UNCHANGED vars

(* The poll of a near peer expires: the peer is masked. *)
ExpireNear(r, p) ==
  /\ Stuck /\ pc[r] = "wait" /\ p \in Near(r) \ seen[r]
  /\ mask' = [mask EXCEPT ![r] = @ \cup {p}]
  /\ UNCHANGED <<rdma, barVars, sync, signal, net, zeroed>>

(* The wait for the aggregate signal expires: it is reset all the same and    *)
(* every far peer is masked.                                                  *)
ExpireFar(r) ==
  /\ Stuck /\ pc[r] = "wait" /\ Far(r) # {} /\ counted[r] = "no"
  /\ counted' = [counted EXCEPT ![r] = "reset"]
  /\ signal' = [signal EXCEPT ![r] = 0]
  /\ mask' = [mask EXCEPT ![r] = @ \cup Far(r)]
  /\ UNCHANGED <<rdma, pc, barrier, cleans, told, seen, sync, net, zeroed>>

AllClean == net = {} /\ (\A r \in Ranks : pc[r] = "idle" /\ cleans[r] = MaxCleans) /\ UNCHANGED vars

Next ==
  \/ \E r \in Ranks : Step(r) \/ ExpireFar(r) \/ \E p \in Ranks : ExpireNear(r, p)
  \/ \E m \in net : Deliver(m)
  \/ AllClean

Spec == Init /\ [][Next]_vars /\ WF_vars(Next)

-----------------------------------------------------------------------------

(* A rank zeroes its words only after every peer it still counts on has       *)
(* entered the clean, so that no count of an operation before the clean can   *)
(* land in words already zeroed.  This holds of a group's first clean: the    *)
(* signals a timeout leaves behind can let a later one through early.         *)
ZeroAfterEntry ==
  \A r \in Ranks : pc[r] = "zero" => \A p \in Peers(r) : cleans[p] >= cleans[r]

(* Every rank leaves every clean, also when the barrier has gone wrong.       *)
CleansEnd == \A r \in Ranks : <>(pc[r] = "idle" /\ cleans[r] = MaxCleans)

(* The clean resets the buffers "via a cross-rank barrier" (nccl_ep.h:1162):  *)
(* a rank that leaves it finds the words of every rank zeroed, and may use    *)
(* them; a count it publishes next is not zeroed away.                        *)
ZeroedBeforeLeave ==
  \A r, p \in Ranks : pc[r] = "idle" => zeroed[p] >= cleans[r]
=============================================================================
