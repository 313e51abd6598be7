----------------------------- MODULE ReshardSpec -----------------------------
(***************************************************************************)
(* What ncclReshard promises, whatever moves the bytes: every rank makes   *)
(* the same sequence of calls; a call moves, along each of its edges, one  *)
(* part of the source rank's tensor to the destination rank; a destination *)
(* has its tensor once it has the part of every one of its sources, and    *)
(* the calls on one communicator take effect on a rank in the order they   *)
(* were made (src/nccl_m2n/src/nccl_m2n.h:285-345, 425-449).               *)
(***************************************************************************)
EXTENDS Integers, Sequences

CONSTANTS
  Ranks,    \* the ranks, 0 .. n - 1
  Program   \* the calls: [comm |-> communicator, edges |-> set of <<source, destination>>]

Calls == DOMAIN Program
Edges(i) == Program[i].edges
Sources(d, i) == {s \in Ranks : <<s, d>> \in Edges(i)}
Targets(s, i) == {d \in Ranks : <<s, d>> \in Edges(i)}

VARIABLES
  sent,     \* the parts under way or arrived: <<call, source, destination>>
  tensor    \* for each call a destination has finished, the sources of its parts

specVars == <<sent, tensor>>

Sent(s, i) == \A d \in Targets(s, i) : <<i, s, d>> \in sent
Received(d, i) == Sources(d, i) = {} \/ <<d, i>> \in DOMAIN tensor

(* Rank r has done its part of every earlier call on the communicator of call i. *)
InTurn(r, i) ==
  \A j \in Calls : j < i /\ Program[j].comm = Program[i].comm => Sent(r, j) /\ Received(r, j)

SpecInit == sent = {} /\ tensor = <<>>

SendPart(s, d, i) ==
  /\ <<s, d>> \in Edges(i) /\ <<i, s, d>> \notin sent
  /\ InTurn(s, i)
  /\ sent' = sent \cup {<<i, s, d>>}
  /\ UNCHANGED tensor

ReceiveAll(d, i) ==
  /\ Sources(d, i) # {} /\ <<d, i>> \notin DOMAIN tensor
  /\ InTurn(d, i)
  /\ \A s \in Sources(d, i) : <<i, s, d>> \in sent
  /\ tensor' = [x \in DOMAIN tensor \cup {<<d, i>>} |->
                  IF x = <<d, i>> THEN Sources(d, i) ELSE tensor[x]]
  /\ UNCHANGED sent

SpecNext ==
  \E i \in Calls : \/ \E e \in Edges(i) : SendPart(e[1], e[2], i)
                   \/ \E d \in Ranks : ReceiveAll(d, i)

Spec == SpecInit /\ [][SpecNext]_specVars
=============================================================================
