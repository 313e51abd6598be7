------------------------------ MODULE MCPackRma ------------------------------
(* Three ranks, two communicators that share a slot on ranks 0 and 2 only:   *)
(* fan-outs, fan-ins, a rank without payload, and roles that swap.           *)
EXTENDS PackRma

MCProgram ==
  << [comm |-> "c1", edges |-> {<<0, 1>>, <<0, 2>>}],
     [comm |-> "c2", edges |-> {<<0, 2>>, <<1, 2>>}],
     [comm |-> "c1", edges |-> {<<1, 2>>}],
     [comm |-> "c2", edges |-> {<<0, 1>>}],
     [comm |-> "c1", edges |-> {<<0, 1>>, <<0, 2>>}],
     [comm |-> "c1", edges |-> {<<0, 2>>, <<1, 2>>}] >>

MCSlotOf ==
  [r \in {0, 1, 2} |-> [c \in {"c1", "c2"} |-> IF r = 1 /\ c = "c2" THEN "B" ELSE "A"]]
=============================================================================
