------------------------------- MODULE EpHost -------------------------------
(***************************************************************************)
(* EP groups from creation to destruction (EpGroup), and on one rank of a  *)
(* high-throughput group that every rank has made, its handles (EpHandles).*)
(***************************************************************************)
EXTENDS EpGroup, EpHandles

hostVars == <<vars, handleVars>>

HostInit == Init /\ HandlesInit

GroupMade == \A r \in Ranks : at[r] = "made" /\ Cfg(r).algo = "HT"

(* Rank 1 starts to use its group. *)
OpenGroup ==
  /\ GroupMade /\ group.mode = "none"
  /\ group' = GroupOf(1)
  /\ UNCHANGED <<vars, handles, updates, landing, scratch, saved, result>>

Open == GroupMade /\ group.mode # "none"
UseHandles == Open /\ HandlesNext /\ UNCHANGED vars

(* A group outlives its handles. *)
CloseGroup(r) ==
  /\ DestroyHt(r) /\ group.mode # "none" /\ DOMAIN handles = {}
  /\ UNCHANGED handleVars

HostNext ==
  \/ OpenGroup \/ UseHandles
  \/ \E r \in Ranks : \/ (Create(r) \/ Use(r) \/ Leave(r)) /\ UNCHANGED handleVars
                      \/ CloseGroup(r)

HostSpec == HostInit /\ [][HostNext]_hostVars
=============================================================================
