-------------------------- MODULE LlMaskClean_proofs --------------------------
(***************************************************************************)
(* The order of a mask clean, proved for any number of ranks.              *)
(*                                                                         *)
(* NVLink peers: the counter a rank stores at its peers only decreases and *)
(* tells clean and barrier apart, so that a rank that zeroes its words has *)
(* seen every near peer it counts on enter the same clean, whichever ranks *)
(* were masked and however many cleans there are.                          *)
(*                                                                         *)
(* RDMA peers: the signal has no clean number.  In the first clean it is   *)
(* enough: a rank tells a peer once per barrier, and as long as one rank   *)
(* has not entered no rank can pass the first barrier, nor any wait        *)
(* expire.                                                                 *)
(***************************************************************************)
EXTENDS LlMaskClean, FiniteSetTheorems, TLAPS

Places == {"idle", "arrive", "publish", "wait", "zero"}
Signals == {<<p, q, n, b>> : p \in Ranks, q \in Ranks, n \in 0 .. MaxCleans, b \in {1, 2}}

TypeOK ==
  /\ rdma \in Links
  /\ pc \in [Ranks -> Places]
  /\ barrier \in [Ranks -> {1, 2}]
  /\ cleans \in [Ranks -> 0 .. MaxCleans]
  /\ sync \in [Ranks -> [Ranks -> Int]]
  /\ signal \in [Ranks -> Nat]
  /\ net \subseteq Signals
  /\ told \in [Ranks -> SUBSET Ranks] /\ seen \in [Ranks -> SUBSET Ranks]
  /\ counted \in [Ranks -> {"no", "reached", "reset"}]
  /\ mask \in [Ranks -> SUBSET Ranks]
  /\ zeroed \in [Ranks -> 0 .. MaxCleans]

(* The barriers a rank has arrived at, which its own counter counts. *)
Arrivals(r) ==
  CASE pc[r] = "idle"                -> 2 * cleans[r]
    [] pc[r] = "arrive"              -> 2 * (cleans[r] - 1) + barrier[r] - 1
    [] pc[r] \in {"publish", "wait"} -> 2 * (cleans[r] - 1) + barrier[r]
    [] pc[r] = "zero"                -> 2 * (cleans[r] - 1) + 1

Counters ==
  \A r \in Ranks :
    /\ sync[r][r] = 0 - Arrivals(r)
    /\ pc[r] # "idle" => cleans[r] >= 1
    /\ pc[r] = "zero" => barrier[r] = 1

(* A peer's slot lags behind the peer's counter. *)
Lagging == \A r, p \in Ranks : sync[r][p] >= sync[p][p]

(* A rank has seen only peers that have arrived at its barrier. *)
SeenArrived ==
  \A r \in Ranks : pc[r] \in {"publish", "wait", "zero"} =>
    /\ \A p \in seen[r] : sync[p][p] <= sync[r][r]
    /\ pc[r] = "zero" => Near(r) \subseteq seen[r]

(* Before every rank has entered the first clean nobody passes the barrier. *)
Entered == {r \in Ranks : cleans[r] > 0}
Senders(r) == {p \in Ranks : r \in told[p] /\ <<p, r>> \in rdma}
Pending(r) == {m \in net : m[2] = r}

(* A rank that waits for the missing ones ... *)
Waits(r) ==
  /\ mask[r] = {} /\ barrier[r] = 1
  /\ pc[r] \in (IF r \in Entered THEN {"arrive", "publish", "wait"} ELSE {"idle"})
  /\ pc[r] \in {"idle", "arrive"} => told[r] = {}
  /\ r \notin told[r]
  /\ seen[r] \subseteq Entered
  /\ \A p \in Ranks : p \notin Entered => sync[r][p] = 0

(* ... counts every rank that told it at most once. *)
Counts(r) ==
  /\ counted[r] # "no" => Far(r) \subseteq Entered
  /\ IsFiniteSet(Pending(r))
  /\ signal[r] + Cardinality(Pending(r)) <= Cardinality(Senders(r))

Gathering ==
  (\E q \in Ranks : q \notin Entered) =>
    /\ \A r \in Ranks : Waits(r) /\ Counts(r)
    /\ \A m \in net : m[2] \in told[m[1]] /\ m[3] = 1 /\ m[4] = 1

IInv == TypeOK /\ Counters /\ Lagging /\ SeenArrived

(* Between the near peers the clean is in order, however many there are. *)
NearEntered ==
  \A r \in Ranks : pc[r] = "zero" => \A p \in Near(r) : cleans[p] >= cleans[r]

-----------------------------------------------------------------------------
(* The order among NVLink peers, for any number of cleans.                 *)
LEMMA Begins == Init => IInv
<1> SUFFICES ASSUME Init PROVE IInv
  OBVIOUS
<1>1. TypeOK
  BY CleanAssumption DEF Init, TypeOK, Places
<1>2. Counters
  <2> SUFFICES ASSUME NEW r \in Ranks
               PROVE  sync[r][r] = 0 - Arrivals(r) /\ pc[r] = "idle"
    BY DEF Counters
  <2>1. pc[r] = "idle" /\ cleans[r] = 0 /\ sync[r][r] = 0
    BY DEF Init
  <2>2. Arrivals(r) = 0
    BY <2>1 DEF Arrivals
  <2>3. 0 - Arrivals(r) = 0
    BY <2>2
  <2> QED
    BY <2>1, <2>3
<1>3. Lagging /\ SeenArrived
  BY DEF Init, Lagging, SeenArrived
<1> QED
  BY <1>1, <1>2, <1>3 DEF IInv

(* The steps of a rank between its barriers move its place only.           *)
LEMMA TypeHolds ==
  ASSUME TypeOK, Next
  PROVE  TypeOK'
<1> USE CleanAssumption DEF TypeOK, barVars, Goto, Places
<1>1. ASSUME NEW r \in Ranks, StartClean(r) PROVE TypeOK'
  BY <1>1 DEF StartClean
<1>2. ASSUME NEW r \in Ranks, Arrive(r) PROVE TypeOK'
  BY <1>2 DEF Arrive
<1>3. ASSUME NEW r \in Ranks, NEW p \in Ranks, Tell(r, p) PROVE TypeOK'
  <2>1. <<r, p, cleans[r], barrier[r]>> \in Signals
    BY DEF Signals
  <2>2. told' \in [Ranks -> SUBSET Ranks] /\ sync' \in [Ranks -> [Ranks -> Int]]
    BY <1>3 DEF Tell
  <2>3. net' \subseteq net \cup {<<r, p, cleans[r], barrier[r]>>}
    BY <1>3 DEF Tell
  <2>4. net' \subseteq Signals
    BY <2>1, <2>3
  <2> QED
    BY <1>3, <2>2, <2>4 DEF Tell
<1>4. ASSUME NEW r \in Ranks, AllTold(r) PROVE TypeOK'
  BY <1>4 DEF AllTold
<1>5. ASSUME NEW r \in Ranks, NEW p \in Ranks, See(r, p) PROVE TypeOK'
  BY <1>5 DEF See
<1>6. ASSUME NEW r \in Ranks, Count(r) PROVE TypeOK'
  BY <1>6 DEF Count
<1>7. ASSUME NEW r \in Ranks, ResetSignal(r) PROVE TypeOK'
  BY <1>7 DEF ResetSignal
<1>8. ASSUME NEW r \in Ranks, Leave(r) PROVE TypeOK'
  BY <1>8 DEF Leave
<1>9. ASSUME NEW r \in Ranks, Zero(r) PROVE TypeOK'
  BY <1>9 DEF Zero
<1>10. ASSUME NEW r \in Ranks, ExpireFar(r) PROVE TypeOK'
  BY <1>10 DEF ExpireFar, Far, Peers
<1>11. ASSUME NEW r \in Ranks, NEW p \in Ranks, ExpireNear(r, p) PROVE TypeOK'
  BY <1>11 DEF ExpireNear
<1>12. ASSUME NEW m \in net, Deliver(m) PROVE TypeOK'
  <2>1. m[2] \in Ranks
    BY DEF Signals
  <2> QED
    BY <1>12, <2>1 DEF Deliver
<1>13. CASE AllClean
  BY <1>13 DEF AllClean, vars
<1> QED
  BY <1>1, <1>2, <1>3, <1>4, <1>5, <1>6, <1>7, <1>8, <1>9, <1>10, <1>11, <1>12, <1>13
    DEF Next, Step

(* A rank's own counter moves when it arrives, its peers' slots when it    *)
(* tells them.                                                             *)
LEMMA SyncStep ==
  ASSUME TypeOK, Next
  PROVE  \/ \E r \in Ranks : Arrive(r)
         \/ \E r, p \in Ranks : /\ Tell(r, p) /\ p # r
                                /\ sync' \in {sync, [sync EXCEPT ![p][r] = sync[r][r]]}
         \/ sync' = sync
  BY DEF Next, Step, StartClean, Tell, AllTold, See, Count, ResetSignal, Leave, Zero, ExpireFar,
     ExpireNear, Deliver, AllClean, vars, Peers

LEMMA CountersHold ==
  ASSUME TypeOK, Counters, Next
  PROVE  Counters'
<1> SUFFICES ASSUME NEW q \in Ranks
             PROVE  /\ sync'[q][q] = 0 - Arrivals(q)'
                    /\ pc'[q] # "idle" => cleans'[q] >= 1
                    /\ pc'[q] = "zero" => barrier'[q] = 1
  BY DEF Counters
<1>1. /\ cleans[q] \in Nat /\ barrier[q] \in {1, 2} /\ sync[q][q] \in Int /\ pc[q] \in Places
      /\ sync[q][q] = 0 - Arrivals(q)
      /\ pc[q] # "idle" => cleans[q] >= 1
      /\ pc[q] = "zero" => barrier[q] = 1
  BY CleanAssumption DEF TypeOK, Counters
<1>2. CASE pc'[q] = pc[q] /\ cleans'[q] = cleans[q] /\ barrier'[q] = barrier[q]
           /\ sync'[q][q] = sync[q][q]
  BY <1>1, <1>2 DEF Arrivals
<1>3. CASE StartClean(q)
  <2>1. /\ pc[q] = "idle" /\ pc'[q] = "arrive" /\ cleans'[q] = cleans[q] + 1
        /\ barrier'[q] = 1 /\ sync' = sync
    BY <1>3 DEF StartClean, Goto, TypeOK
  <2>2. Arrivals(q) = 2 * cleans[q] /\ Arrivals(q)' = 2 * (cleans[q] + 1 - 1) + 1 - 1
    BY <1>1, <2>1 DEF Arrivals
  <2> QED
    BY <1>1, <2>1, <2>2
<1>4. CASE Arrive(q)
  <2>1. /\ pc[q] = "arrive" /\ pc'[q] = "publish" /\ cleans' = cleans /\ barrier' = barrier
        /\ sync'[q][q] = sync[q][q] - 1
    BY <1>4 DEF Arrive, Goto, TypeOK
  <2>2. /\ Arrivals(q) = 2 * (cleans[q] - 1) + barrier[q] - 1
        /\ Arrivals(q)' = 2 * (cleans[q] - 1) + barrier[q]
    BY <2>1 DEF Arrivals
  <2> QED
    BY <1>1, <2>1, <2>2
<1>5. CASE AllTold(q)
  <2>1. /\ pc[q] = "publish" /\ pc'[q] = "wait" /\ cleans' = cleans /\ barrier' = barrier
        /\ sync' = sync
    BY <1>5 DEF AllTold, Goto, TypeOK
  <2>2. Arrivals(q)' = Arrivals(q)
    BY <2>1 DEF Arrivals
  <2> QED
    BY <1>1, <2>1, <2>2
<1>6. CASE Leave(q)
  <2>1. /\ pc[q] = "wait" /\ cleans' = cleans /\ barrier' = barrier /\ sync' = sync
        /\ pc'[q] = IF barrier[q] = 1 THEN "zero" ELSE "idle"
    BY <1>6 DEF Leave, Through, Goto, TypeOK
  <2>2. Arrivals(q) = 2 * (cleans[q] - 1) + barrier[q]
    BY <2>1 DEF Arrivals
  <2>3. Arrivals(q)' = IF barrier[q] = 1 THEN 2 * (cleans[q] - 1) + 1 ELSE 2 * cleans[q]
    BY <2>1 DEF Arrivals
  <2> QED
    BY <1>1, <2>1, <2>2, <2>3
<1>7. CASE Zero(q)
  <2>1. /\ pc[q] = "zero" /\ pc'[q] = "arrive" /\ cleans' = cleans /\ barrier'[q] = 2
        /\ sync' = sync
    BY <1>7 DEF Zero, Goto, TypeOK
  <2>2. /\ Arrivals(q) = 2 * (cleans[q] - 1) + 1
        /\ Arrivals(q)' = 2 * (cleans[q] - 1) + 2 - 1
    BY <2>1 DEF Arrivals
  <2> QED
    BY <1>1, <2>1, <2>2
(* Every other step leaves the place and the counter of q alone. *)
<1>8. ASSUME NEW r \in Ranks, r # q,
             StartClean(r) \/ Arrive(r) \/ AllTold(r) \/ Leave(r) \/ Zero(r)
      PROVE  /\ pc'[q] = pc[q] /\ cleans'[q] = cleans[q] /\ barrier'[q] = barrier[q]
             /\ sync'[q][q] = sync[q][q]
  BY <1>8 DEF StartClean, Arrive, AllTold, Leave, Zero, Goto, TypeOK
<1>9. ASSUME NEW r \in Ranks, NEW p \in Ranks, Tell(r, p)
      PROVE  /\ pc'[q] = pc[q] /\ cleans'[q] = cleans[q] /\ barrier'[q] = barrier[q]
             /\ sync'[q][q] = sync[q][q]
  BY <1>9 DEF Tell, Peers, TypeOK
<1>10. CASE UNCHANGED <<pc, cleans, barrier, sync>>
  BY <1>2, <1>10
<1>11. ASSUME NEW r \in Ranks, Step(r)
       PROVE  \/ /\ r = q
                 /\ StartClean(q) \/ Arrive(q) \/ AllTold(q) \/ Leave(q) \/ Zero(q)
              \/ /\ pc'[q] = pc[q] /\ cleans'[q] = cleans[q] /\ barrier'[q] = barrier[q]
                 /\ sync'[q][q] = sync[q][q]
  BY <1>8, <1>9, <1>11 DEF Step, See, Count, ResetSignal
<1>12. ASSUME NEW r \in Ranks, ExpireFar(r) \/ \E p \in Ranks : ExpireNear(r, p)
       PROVE  UNCHANGED <<pc, cleans, barrier, sync>>
  BY <1>12 DEF ExpireFar, ExpireNear, barVars
<1>13. ASSUME NEW m \in net, Deliver(m)
       PROVE  UNCHANGED <<pc, cleans, barrier, sync>>
  BY <1>13 DEF Deliver, barVars
<1>14. CASE AllClean
  BY <1>10, <1>14 DEF AllClean, vars, barVars
<1> QED
  BY <1>2, <1>3, <1>4, <1>5, <1>6, <1>7, <1>10, <1>11, <1>12, <1>13, <1>14 DEF Next

LEMMA LaggingHolds ==
  ASSUME TypeOK, Lagging, Next
  PROVE  Lagging'
<1>1. sync \in [Ranks -> [Ranks -> Int]]
  BY DEF TypeOK
<1>2. ASSUME NEW r \in Ranks, Arrive(r)
      PROVE  Lagging'
  <2>1. sync' = [sync EXCEPT ![r][r] = sync[r][r] - 1]
    BY <1>2 DEF Arrive
  <2>2. \A p, q \in Ranks : sync'[q][p] = IF q = r /\ p = r THEN sync[r][r] - 1 ELSE sync[q][p]
    BY <1>1, <2>1
  <2> QED
    BY <1>1, <2>2 DEF Lagging
<1>3. ASSUME NEW r \in Ranks, NEW p \in Ranks, p # r,
             sync' = [sync EXCEPT ![p][r] = sync[r][r]]
      PROVE  Lagging'
  <2>1. \A q, s \in Ranks : sync'[q][s] = IF q = p /\ s = r THEN sync[r][r] ELSE sync[q][s]
    BY <1>1, <1>3
  <2> QED
    BY <1>1, <1>3, <2>1 DEF Lagging
<1>4. CASE sync' = sync
  BY <1>4 DEF Lagging
<1> QED
  BY <1>2, <1>3, <1>4, SyncStep

LEMMA SeenHolds ==
  ASSUME IInv, Next
  PROVE  SeenArrived'
<1>1. SUFFICES ASSUME NEW q \in Ranks, pc'[q] \in {"publish", "wait", "zero"}
               PROVE  /\ \A p \in seen'[q] : sync'[p][p] <= sync'[q][q]
                      /\ pc'[q] = "zero" => Near(q)' \subseteq seen'[q]
  BY DEF SeenArrived
<1>2. /\ TypeOK /\ Lagging /\ SeenArrived /\ sync \in [Ranks -> [Ranks -> Int]]
      /\ seen[q] \subseteq Ranks
  BY DEF IInv, TypeOK
(* Counters only go down, and that of q stands still until it arrives.     *)
<1>3. \A p \in Ranks : sync'[p][p] \in Int /\ sync'[p][p] <= sync[p][p]
  <2>1. ASSUME NEW r \in Ranks, Arrive(r), NEW p \in Ranks
        PROVE  sync'[p][p] \in Int /\ sync'[p][p] <= sync[p][p]
    BY <1>2, <2>1 DEF Arrive
  <2>2. ASSUME NEW r \in Ranks, NEW s \in Ranks, s # r,
               sync' \in {sync, [sync EXCEPT ![s][r] = sync[r][r]]}, NEW p \in Ranks
        PROVE  sync'[p][p] \in Int /\ sync'[p][p] <= sync[p][p]
    BY <1>2, <2>2
  <2>3. CASE sync' = sync
    BY <1>2, <2>3
  <2> QED
    BY <1>2, <2>1, <2>2, <2>3, SyncStep
<1>4. CASE /\ pc[q] \in {"publish", "wait", "zero"}
           /\ sync'[q][q] = sync[q][q] /\ seen'[q] = seen[q]
           /\ pc'[q] = "zero" => pc[q] = "zero" /\ mask'[q] = mask[q] /\ rdma' = rdma
  BY <1>2, <1>3, <1>4 DEF SeenArrived, Near, Peers
<1>5. CASE Arrive(q)
  BY <1>5 DEF Arrive, Goto, IInv, TypeOK
<1>6. ASSUME NEW p \in Ranks, See(q, p)
      PROVE  /\ \A s \in seen'[q] : sync'[s][s] <= sync'[q][q]
             /\ pc'[q] # "zero"
  <2>1. /\ pc[q] = "wait" /\ pc' = pc /\ sync' = sync /\ seen'[q] = seen[q] \cup {p}
        /\ sync[q][p] = sync[q][q]
    BY <1>2, <1>6 DEF See, TypeOK
  <2>2. sync[p][p] <= sync[q][q]
    BY <1>2, <2>1 DEF Lagging
  <2> QED
    BY <1>2, <2>1, <2>2 DEF SeenArrived
<1>7. CASE Leave(q)
  <2>1. pc[q] = "wait" /\ sync' = sync /\ seen' = seen /\ rdma' = rdma /\ Near(q) \subseteq seen[q]
    BY <1>7 DEF Leave, Through
  <2>2. pc'[q] = "zero" => mask' = mask
    BY <1>2, <1>7 DEF Leave, Goto, TypeOK
  <2> QED
    BY <1>2, <2>1, <2>2 DEF SeenArrived, Near, Peers
<1>8. ASSUME NEW r \in Ranks, r # q, Step(r)
      PROVE  /\ pc'[q] = pc[q] /\ sync'[q][q] = sync[q][q] /\ seen'[q] = seen[q]
             /\ mask'[q] = mask[q] /\ rdma' = rdma
  <2>1. CASE Arrive(r)
    BY <1>2, <1>8, <2>1 DEF Arrive, Goto, TypeOK
  <2>2. ASSUME NEW p \in Ranks, Tell(r, p)
        PROVE  /\ pc'[q] = pc[q] /\ sync'[q][q] = sync[q][q] /\ seen'[q] = seen[q]
               /\ mask'[q] = mask[q] /\ rdma' = rdma
    <3>1. pc' = pc /\ seen' = seen /\ mask' = mask /\ rdma' = rdma
      BY <2>2 DEF Tell
    <3>2. sync' \in {sync, [sync EXCEPT ![p][r] = sync[r][r]]}
      BY <2>2 DEF Tell
    <3>3. sync'[q][q] = sync[q][q]
      BY <1>2, <1>8, <3>2
    <3> QED
      BY <3>1, <3>3
  <2>3. CASE Leave(r)
    BY <1>2, <1>8, <2>3 DEF Leave, Goto, TypeOK
  <2>4. CASE StartClean(r) \/ AllTold(r) \/ Zero(r)
    BY <1>2, <1>8, <2>4 DEF StartClean, AllTold, Zero, Goto, TypeOK
  <2>5. CASE Count(r) \/ ResetSignal(r) \/ \E p \in Ranks : See(r, p)
    BY <1>2, <1>8, <2>5 DEF Count, ResetSignal, See, TypeOK
  <2> QED
    BY <1>8, <2>1, <2>2, <2>3, <2>4, <2>5 DEF Step
<1>9. CASE Step(q)
  <2>1. CASE StartClean(q) \/ Zero(q)
    BY <1>1, <1>2, <2>1 DEF StartClean, Zero, Goto, TypeOK
  <2>2. CASE AllTold(q)
    BY <1>2, <1>4, <2>2 DEF AllTold, Goto, TypeOK
  <2>3. CASE Count(q) \/ ResetSignal(q)
    BY <1>1, <1>4, <2>3 DEF Count, ResetSignal
  <2>4. ASSUME NEW p \in Ranks, Tell(q, p)
        PROVE  /\ \A s \in seen'[q] : sync'[s][s] <= sync'[q][q]
               /\ pc'[q] = "zero" => Near(q)' \subseteq seen'[q]
    BY <1>1, <1>2, <1>4, <2>4 DEF Tell, Peers, TypeOK
  <2> QED
    BY <1>5, <1>6, <1>7, <1>9, <2>1, <2>2, <2>3, <2>4 DEF Step
<1>10. ASSUME NEW r \in Ranks, ExpireFar(r) \/ \E p \in Ranks : ExpireNear(r, p)
       PROVE  /\ pc'[q] = pc[q] /\ sync'[q][q] = sync[q][q] /\ seen'[q] = seen[q]
              /\ pc'[q] = "zero" => pc[q] = "zero" /\ mask'[q] = mask[q] /\ rdma' = rdma
  BY <1>2, <1>10 DEF ExpireFar, ExpireNear, barVars, TypeOK
<1>11. CASE (\E m \in net : Deliver(m)) \/ AllClean
  BY <1>1, <1>4, <1>11 DEF Deliver, AllClean, barVars, vars
<1> QED
  BY <1>1, <1>4, <1>8, <1>9, <1>10, <1>11 DEF Next

THEOREM Invariance == Spec => []IInv
<1>1. IInv /\ Next => IInv'
  BY TypeHolds, CountersHold, LaggingHolds, SeenHolds DEF IInv
<1>2. IInv /\ UNCHANGED vars => IInv'
  BY DEF vars, barVars, IInv, TypeOK, Counters, Arrivals, Lagging, SeenArrived, Near, Peers
<1> QED
  BY <1>1, <1>2, Begins, PTL DEF Spec

THEOREM TypeCorrect == Spec => []TypeOK
<1>1. IInv => TypeOK
  BY DEF IInv
<1> QED
  BY <1>1, Invariance, PTL

(* A rank zeroes its words only after every near peer it still counts on   *)
(* has entered the same clean, in every clean and after any timeouts.      *)
THEOREM NearOrder == Spec => []NearEntered
<1>1. ASSUME IInv, NEW r \in Ranks, pc[r] = "zero", NEW p \in Near(r)
      PROVE  cleans[p] >= cleans[r]
  <2>1. /\ p \in Ranks /\ pc[p] \in Places /\ barrier[p] \in {1, 2}
        /\ cleans[p] \in Nat /\ cleans[r] \in Nat
    BY <1>1, CleanAssumption DEF IInv, TypeOK, Near, Peers
  <2>2. sync[p][p] <= sync[r][r]
    BY <1>1 DEF IInv, SeenArrived
  <2>3. sync[r][r] = 0 - Arrivals(r) /\ sync[p][p] = 0 - Arrivals(p)
    BY <1>1, <2>1 DEF IInv, Counters
  <2>4. Arrivals(r) = 2 * (cleans[r] - 1) + 1
    BY <1>1 DEF Arrivals
  <2>5. Arrivals(p) \in Int /\ Arrivals(p) <= 2 * cleans[p]
    BY <2>1 DEF Arrivals, Places
  <2> QED
    BY <2>1, <2>2, <2>3, <2>4, <2>5
<1>2. IInv => NearEntered
  BY <1>1 DEF NearEntered
<1> QED
  BY <1>2, Invariance, PTL

(* In a group within one NVLink domain, every clean is in order.           *)
THEOREM NvlinkOrder ==
  ASSUME \A l \in Links : l = {}
  PROVE  Spec => []ZeroAfterEntry
<1>1. TypeOK /\ NearEntered => ZeroAfterEntry
  BY DEF TypeOK, NearEntered, ZeroAfterEntry, Near
<1> QED
  BY <1>1, TypeCorrect, NearOrder, PTL

-----------------------------------------------------------------------------
(* The first clean, over NVLink and RDMA.                                  *)

(* While a rank is missing no wait expires, and nobody has left.           *)
LEMMA NoTimeout ==
  ASSUME TypeOK, MaxCleans = 1, Gathering, NEW q \in Ranks, q \notin Entered
  PROVE  ~Stuck
<1>1. pc[q] = "idle" /\ cleans[q] # MaxCleans
  BY DEF Gathering, Waits, Entered
<1> QED
  BY <1>1 DEF Stuck

(* What is known of a rank as long as rank q is missing.                   *)
LEMMA Missing ==
  ASSUME TypeOK, Counters, MaxCleans = 1, Gathering, NEW q \in Ranks, q \notin Entered,
         NEW r \in Ranks
  PROVE  /\ Senders(r) \subseteq Far(r) /\ Senders(r) \subseteq Entered
         /\ IsFiniteSet(Senders(r)) /\ IsFiniteSet(Far(r))
         /\ Peers(r) = Ranks \ {r}
         /\ pc[r] \in {"publish", "wait"} => sync[r][r] = 0 - 1
         /\ ~Through(r)
         /\ pc[r] # "zero"
<1>1. \A p \in Ranks : p \notin Entered => pc[p] = "idle" /\ told[p] = {}
  BY DEF Gathering, Waits
<1>2. mask[r] = {} /\ barrier[r] = 1 /\ pc[r] # "zero"
  BY DEF Gathering, Waits
<1>3. Peers(r) = Ranks \ {r}
  BY <1>2 DEF Peers
<1>4. Senders(r) \subseteq Far(r)
  <2> SUFFICES ASSUME NEW p \in Ranks, r \in told[p], <<p, r>> \in rdma
               PROVE  p \in Far(r)
    BY DEF Senders
  <2>1. p # r
    BY DEF Gathering, Waits
  <2>2. <<r, p>> \in rdma
    BY CleanAssumption DEF TypeOK
  <2> QED
    BY <1>3, <2>1, <2>2 DEF Far
<1>5. Senders(r) \subseteq Entered
  BY <1>1 DEF Senders
<1>6. IsFiniteSet(Far(r)) /\ IsFiniteSet(Senders(r))
  <2>1. Far(r) \subseteq Ranks
    BY DEF Far, Peers
  <2>2. IsFiniteSet(Far(r))
    BY <2>1, CleanAssumption, FS_Subset
  <2> QED
    BY <1>4, <2>2, FS_Subset
<1>7. pc[r] \in {"publish", "wait"} => sync[r][r] = 0 - 1
  <2> SUFFICES ASSUME pc[r] \in {"publish", "wait"} PROVE sync[r][r] = 0 - 1
    OBVIOUS
  <2>1. cleans[r] = 1
    BY DEF Counters, TypeOK
  <2>2. Arrivals(r) = 1
    BY <1>2, <2>1 DEF Arrivals
  <2> QED
    BY <2>2 DEF Counters
<1>8. ~Through(r)
  <2> SUFFICES ASSUME Through(r) PROVE FALSE
    OBVIOUS
  <2>1. r \in Entered /\ q \in Peers(r)
    BY <1>1, <1>3 DEF Through
  <2>2. CASE q \in Near(r)
    BY <2>2 DEF Through, Gathering, Waits, Counts
  <2>3. CASE q \in Far(r)
    BY <2>3 DEF Through, Gathering, Waits, Counts
  <2> QED
    BY <2>1, <2>2, <2>3 DEF Near, Far
<1> QED
  BY <1>2, <1>3, <1>4, <1>5, <1>6, <1>7, <1>8

LEMMA GatheringHolds ==
  ASSUME TypeOK, Counters, MaxCleans = 1, Gathering, Next
  PROVE  Gathering'
<1>1. SUFFICES ASSUME NEW q \in Ranks, (q \notin Entered)'
               PROVE  /\ \A r \in Ranks : Waits(r)' /\ Counts(r)'
                      /\ \A m \in net' : m[2] \in told'[m[1]] /\ m[3] = 1 /\ m[4] = 1
  BY DEF Gathering
<1>2. q \notin Entered
  <2>1. CASE cleans' = cleans
    BY <1>1, <2>1 DEF Entered
  <2>2. ASSUME NEW r \in Ranks, StartClean(r)
        PROVE  cleans'[q] = cleans[q] \/ cleans'[q] = cleans[q] + 1
    BY <2>2 DEF StartClean, TypeOK
  <2>3. cleans[q] \in Nat
    BY CleanAssumption DEF TypeOK
  <2>4. cleans' = cleans \/ \E r \in Ranks : StartClean(r)
    BY DEF Next, Step, Arrive, Tell, AllTold, See, Count, ResetSignal, Leave, Zero, ExpireFar,
       ExpireNear, Deliver, AllClean, vars, barVars
  <2> QED
    BY <1>1, <2>1, <2>2, <2>3, <2>4 DEF Entered
<1>3. /\ \A r \in Ranks : Waits(r) /\ Counts(r)
      /\ \A m \in net : m[2] \in told[m[1]] /\ m[3] = 1 /\ m[4] = 1
  BY <1>2 DEF Gathering
<1>4. \A r \in Ranks :
        /\ Senders(r) \subseteq Far(r) /\ Senders(r) \subseteq Entered
        /\ IsFiniteSet(Senders(r)) /\ IsFiniteSet(Far(r))
        /\ Peers(r) = Ranks \ {r}
        /\ pc[r] \in {"publish", "wait"} => sync[r][r] = 0 - 1
        /\ ~Through(r) /\ pc[r] # "zero"
  BY <1>2, Missing
<1>5. ASSUME NEW s \in Ranks, StartClean(s)
      PROVE  /\ \A r \in Ranks : Waits(r)' /\ Counts(r)'
             /\ \A m \in net' : m[2] \in told'[m[1]] /\ m[3] = 1 /\ m[4] = 1
  <2>1. /\ UNCHANGED <<rdma, told, seen, counted, sync, signal, net, mask>>
        /\ pc' = [pc EXCEPT ![s] = "arrive"] /\ barrier' = [barrier EXCEPT ![s] = 1]
        /\ pc[s] = "idle" /\ Entered' = Entered \cup {s}
    BY <1>5, CleanAssumption DEF StartClean, Goto, Entered, TypeOK
  <2>2. ASSUME NEW r \in Ranks PROVE Waits(r)'
    BY <1>3, <2>1 DEF Waits, TypeOK
  <2>3. ASSUME NEW r \in Ranks PROVE Counts(r)'
    <3>1. Pending(r)' = Pending(r) /\ Senders(r)' = Senders(r) /\ Far(r)' = Far(r)
      BY <2>1 DEF Pending, Senders, Far, Peers
    <3> QED
      BY <1>3, <2>1, <3>1 DEF Counts
  <2> QED
    BY <1>3, <2>1, <2>2, <2>3
<1>6. ASSUME NEW s \in Ranks, Arrive(s)
      PROVE  /\ \A r \in Ranks : Waits(r)' /\ Counts(r)'
             /\ \A m \in net' : m[2] \in told'[m[1]] /\ m[3] = 1 /\ m[4] = 1
  <2>1. /\ UNCHANGED <<rdma, barrier, cleans, signal, net, mask>>
        /\ pc' = [pc EXCEPT ![s] = "publish"] /\ pc[s] = "arrive" /\ told[s] = {}
        /\ told' = [told EXCEPT ![s] = {}] /\ seen' = [seen EXCEPT ![s] = {}]
        /\ sync' = [sync EXCEPT ![s][s] = sync[s][s] - 1]
        /\ counted' = [counted EXCEPT ![s] = "no"] /\ Entered' = Entered
    BY <1>3, <1>6 DEF Arrive, Goto, Entered, Waits
  <2>2. told' = told
    BY <2>1 DEF TypeOK
  <2>3. s \in Entered
    BY <1>3, <2>1 DEF Waits
  <2>4. ASSUME NEW r \in Ranks PROVE Waits(r)'
    BY <1>3, <2>1, <2>2, <2>3 DEF Waits, TypeOK
  <2>5. ASSUME NEW r \in Ranks PROVE Counts(r)'
    <3>1. Pending(r)' = Pending(r) /\ Senders(r)' = Senders(r) /\ Far(r)' = Far(r)
      BY <2>1, <2>2 DEF Pending, Senders, Far, Peers
    <3>2. counted'[r] # "no" => counted[r] # "no"
      BY <2>1 DEF TypeOK
    <3> QED
      BY <1>3, <2>1, <3>1, <3>2 DEF Counts
  <2> QED
    BY <1>3, <2>1, <2>2, <2>4, <2>5
<1>7. ASSUME NEW s \in Ranks, NEW p \in Ranks, Tell(s, p)
      PROVE  /\ \A r \in Ranks : Waits(r)' /\ Counts(r)'
             /\ \A m \in net' : m[2] \in told'[m[1]] /\ m[3] = 1 /\ m[4] = 1
  <2> DEFINE new == <<s, p, 1, 1>>
  <2>1. /\ UNCHANGED <<rdma, pc, barrier, cleans, seen, counted, signal, mask>>
        /\ pc[s] = "publish" /\ p # s /\ p \notin told[s] /\ Entered' = Entered
        /\ told' = [told EXCEPT ![s] = told[s] \cup {p}]
        /\ cleans[s] = 1 /\ barrier[s] = 1
    BY <1>3, <1>4, <1>7 DEF Tell, Entered, Waits, TypeOK, Counters
  <2>2. /\ sync' \in {sync, [sync EXCEPT ![p][s] = sync[s][s]]}
        /\ <<s, p>> \in rdma => net' = net \cup {new}
        /\ <<s, p>> \notin rdma => net' = net
    BY <1>7, <2>1 DEF Tell
  <2>3. s \in Entered
    BY <1>3, <2>1 DEF Waits
  <2>4. ASSUME NEW r \in Ranks PROVE Waits(r)'
    <3>1. r \notin told'[r] /\ (pc[r] \in {"idle", "arrive"} => told'[r] = {})
      BY <1>3, <2>1 DEF Waits, TypeOK
    <3>2. \A x \in Ranks : x \notin Entered => sync'[r][x] = sync[r][x]
      BY <2>2, <2>3 DEF TypeOK
    <3> QED
      BY <1>3, <2>1, <3>1, <3>2 DEF Waits
  <2>5. \A x, r \in Ranks : r \in told'[x] <=> r \in told[x] \/ (x = s /\ r = p)
    BY <2>1 DEF TypeOK
  <2>6. new \notin net
    BY <1>3, <2>1
  <2>7. ASSUME NEW r \in Ranks PROVE Counts(r)'
    <3>1. Far(r)' = Far(r)
      BY <2>1 DEF Far, Peers
    <3>2. CASE r # p \/ <<s, p>> \notin rdma
      <4>1. Senders(r)' = Senders(r)
        BY <2>1, <2>5, <3>2 DEF Senders
      <4>2. Pending(r)' = Pending(r)
        BY <2>2, <3>2 DEF Pending
      <4> QED
        BY <1>3, <2>1, <3>1, <4>1, <4>2 DEF Counts
    <3>3. CASE r = p /\ <<s, p>> \in rdma
      <4>1. Senders(p)' = Senders(p) \cup {s} /\ s \notin Senders(p)
        BY <2>1, <2>5, <3>3 DEF Senders
      <4>2. Pending(p)' = Pending(p) \cup {new} /\ new \notin Pending(p)
        BY <2>2, <2>6, <3>3 DEF Pending
      <4>3. /\ IsFiniteSet(Pending(p)) /\ IsFiniteSet(Senders(p))
            /\ signal[p] + Cardinality(Pending(p)) <= Cardinality(Senders(p))
            /\ signal[p] \in Nat
        BY <1>3, <1>4 DEF Counts, TypeOK
      <4>4. Cardinality(Senders(p)') = Cardinality(Senders(p)) + 1
        <5>1. Cardinality(Senders(p) \cup {s}) = Cardinality(Senders(p)) + 1
          BY <4>1, <4>3, FS_AddElement
        <5> QED
          BY <4>1, <5>1
      <4>7. IsFiniteSet(Pending(p)') /\ Cardinality(Pending(p)') = Cardinality(Pending(p)) + 1
        <5>1. /\ IsFiniteSet(Pending(p) \cup {new})
              /\ Cardinality(Pending(p) \cup {new}) = Cardinality(Pending(p)) + 1
          BY <4>2, <4>3, FS_AddElement
        <5> QED
          BY <4>2, <5>1
      <4>5. Cardinality(Pending(p)) \in Nat /\ Cardinality(Senders(p)) \in Nat
        BY <4>3, FS_CardinalityType
      <4>6. signal'[p] + Cardinality(Pending(p)') <= Cardinality(Senders(p)')
        BY <2>1, <4>3, <4>4, <4>7, <4>5
      <4> QED
        BY <1>3, <2>1, <3>1, <3>3, <4>7, <4>6 DEF Counts
    <3> QED
      BY <3>2, <3>3
  <2>8. ASSUME NEW m \in net'
        PROVE  m[2] \in told'[m[1]] /\ m[3] = 1 /\ m[4] = 1
    <3>1. m \in net \/ m = new
      BY <2>2
    <3>2. m \in net => m[1] \in Ranks /\ m[2] \in Ranks
      BY DEF TypeOK, Signals
    <3> QED
      BY <1>3, <2>5, <3>1, <3>2
  <2> QED
    BY <2>4, <2>7, <2>8
<1>8. ASSUME NEW s \in Ranks, AllTold(s)
      PROVE  /\ \A r \in Ranks : Waits(r)' /\ Counts(r)'
             /\ \A m \in net' : m[2] \in told'[m[1]] /\ m[3] = 1 /\ m[4] = 1
  <2>1. /\ UNCHANGED <<rdma, barrier, cleans, told, seen, counted, sync, signal, net, mask>>
        /\ pc' = [pc EXCEPT ![s] = "wait"] /\ pc[s] = "publish" /\ Entered' = Entered
    BY <1>8 DEF AllTold, Goto, Entered
  <2>2. ASSUME NEW r \in Ranks PROVE Waits(r)'
    BY <1>3, <2>1 DEF Waits, TypeOK
  <2>3. ASSUME NEW r \in Ranks PROVE Counts(r)'
    <3>1. Pending(r)' = Pending(r) /\ Senders(r)' = Senders(r) /\ Far(r)' = Far(r)
      BY <2>1 DEF Pending, Senders, Far, Peers
    <3> QED
      BY <1>3, <2>1, <3>1 DEF Counts
  <2> QED
    BY <1>3, <2>1, <2>2, <2>3
<1>9. ASSUME NEW s \in Ranks, NEW p \in Ranks, See(s, p)
      PROVE  /\ \A r \in Ranks : Waits(r)' /\ Counts(r)'
             /\ \A m \in net' : m[2] \in told'[m[1]] /\ m[3] = 1 /\ m[4] = 1
  <2>1. /\ UNCHANGED <<rdma, pc, barrier, cleans, told, counted, sync, signal, net, mask>>
        /\ seen' = [seen EXCEPT ![s] = seen[s] \cup {p}]
        /\ pc[s] = "wait" /\ sync[s][p] = sync[s][s] /\ Entered' = Entered
    BY <1>9 DEF See, Entered
  <2>2. p \in Entered
    BY <1>3, <1>4, <2>1 DEF Waits
  <2>3. ASSUME NEW r \in Ranks PROVE Waits(r)'
    <3>1. seen'[r] \subseteq Entered
      BY <1>3, <2>1, <2>2 DEF Waits, TypeOK
    <3> QED
      BY <1>3, <2>1, <3>1 DEF Waits
  <2>4. ASSUME NEW r \in Ranks PROVE Counts(r)'
    <3>1. Pending(r)' = Pending(r) /\ Senders(r)' = Senders(r) /\ Far(r)' = Far(r)
      BY <2>1 DEF Pending, Senders, Far, Peers
    <3> QED
      BY <1>3, <2>1, <3>1 DEF Counts
  <2> QED
    BY <1>3, <2>1, <2>3, <2>4
<1>10. ASSUME NEW s \in Ranks, Count(s)
      PROVE  /\ \A r \in Ranks : Waits(r)' /\ Counts(r)'
             /\ \A m \in net' : m[2] \in told'[m[1]] /\ m[3] = 1 /\ m[4] = 1
  <2>1. /\ UNCHANGED <<rdma, pc, barrier, cleans, told, seen, sync, signal, net, mask>>
        /\ counted' = [counted EXCEPT ![s] = "reached"]
        /\ signal[s] >= Cardinality(Far(s)) /\ Entered' = Entered
    BY <1>10 DEF Count, Entered
  <2>2. ASSUME NEW r \in Ranks PROVE Waits(r)'
    BY <1>3, <2>1 DEF Waits
  <2>3. Far(s) \subseteq Entered
    <3>1. /\ Senders(s) \subseteq Far(s) /\ IsFiniteSet(Far(s)) /\ IsFiniteSet(Senders(s))
          /\ Senders(s) \subseteq Entered /\ IsFiniteSet(Pending(s))
      BY <1>3, <1>4 DEF Counts
    <3>2. /\ Cardinality(Pending(s)) \in Nat /\ Cardinality(Senders(s)) \in Nat
          /\ Cardinality(Far(s)) \in Nat
      BY <3>1, FS_CardinalityType
    <3>3. signal[s] + Cardinality(Pending(s)) <= Cardinality(Senders(s)) /\ signal[s] \in Nat
      BY <1>3 DEF Counts, TypeOK
    <3>4. Cardinality(Senders(s)) >= Cardinality(Far(s))
      BY <2>1, <3>2, <3>3
    <3>5. /\ Cardinality(Senders(s)) <= Cardinality(Far(s))
          /\ Cardinality(Senders(s)) = Cardinality(Far(s)) => Senders(s) = Far(s)
      BY <3>1, FS_Subset
    <3> QED
      BY <3>1, <3>2, <3>4, <3>5
  <2>4. ASSUME NEW r \in Ranks PROVE Counts(r)'
    <3>1. Pending(r)' = Pending(r) /\ Senders(r)' = Senders(r) /\ Far(r)' = Far(r)
      BY <2>1 DEF Pending, Senders, Far, Peers
    <3>2. counted'[r] # "no" => Far(r) \subseteq Entered
      BY <1>3, <2>1, <2>3 DEF Counts, TypeOK
    <3> QED
      BY <1>3, <2>1, <3>1, <3>2 DEF Counts
  <2> QED
    BY <1>3, <2>1, <2>2, <2>4
<1>11. ASSUME NEW s \in Ranks, ResetSignal(s)
      PROVE  /\ \A r \in Ranks : Waits(r)' /\ Counts(r)'
             /\ \A m \in net' : m[2] \in told'[m[1]] /\ m[3] = 1 /\ m[4] = 1
  <2>1. /\ UNCHANGED <<rdma, pc, barrier, cleans, told, seen, sync, net, mask>>
        /\ counted' = [counted EXCEPT ![s] = "reset"] /\ counted[s] = "reached"
        /\ signal' = [signal EXCEPT ![s] = 0] /\ Entered' = Entered
    BY <1>11 DEF ResetSignal, Entered
  <2>2. ASSUME NEW r \in Ranks PROVE Waits(r)'
    BY <1>3, <2>1 DEF Waits
  <2>3. ASSUME NEW r \in Ranks PROVE Counts(r)'
    <3>1. Pending(r)' = Pending(r) /\ Senders(r)' = Senders(r) /\ Far(r)' = Far(r)
      BY <2>1 DEF Pending, Senders, Far, Peers
    <3>2. counted'[r] # "no" => Far(r) \subseteq Entered
      BY <1>3, <2>1 DEF Counts, TypeOK
    <3>3. IsFiniteSet(Pending(r)) /\ Cardinality(Pending(r)) \in Nat /\ Cardinality(Senders(r)) \in Nat
      BY <1>3, <1>4, FS_CardinalityType DEF Counts
    <3>4. signal'[r] <= signal[r] /\ signal'[r] \in Nat /\ signal[r] \in Nat
      BY <2>1 DEF TypeOK
    <3>5. signal'[r] + Cardinality(Pending(r)) <= Cardinality(Senders(r))
      <4>1. signal[r] + Cardinality(Pending(r)) <= Cardinality(Senders(r))
        BY <1>3 DEF Counts
      <4> QED
        BY <3>3, <3>4, <4>1
    <3> QED
      BY <2>1, <3>1, <3>2, <3>3, <3>5 DEF Counts
  <2> QED
    BY <1>3, <2>1, <2>2, <2>3
<1>12. ASSUME NEW m \in net, Deliver(m)
      PROVE  /\ \A r \in Ranks : Waits(r)' /\ Counts(r)'
             /\ \A n \in net' : n[2] \in told'[n[1]] /\ n[3] = 1 /\ n[4] = 1
  <2>1. /\ UNCHANGED <<rdma, pc, barrier, cleans, told, seen, counted, sync, mask>>
        /\ net' = net \ {m} /\ signal' = [signal EXCEPT ![m[2]] = signal[m[2]] + 1]
        /\ Entered' = Entered
    BY <1>12 DEF Deliver, Entered, barVars
  <2>2. ASSUME NEW r \in Ranks PROVE Waits(r)'
    BY <1>3, <2>1 DEF Waits
  <2>3. ASSUME NEW r \in Ranks PROVE Counts(r)'
    <3>1. Senders(r)' = Senders(r) /\ Far(r)' = Far(r) /\ Pending(r)' = Pending(r) \ {m}
      BY <2>1 DEF Pending, Senders, Far, Peers
    <3>2. /\ IsFiniteSet(Pending(r)) /\ IsFiniteSet(Senders(r)) /\ signal[r] \in Nat
          /\ signal[r] + Cardinality(Pending(r)) <= Cardinality(Senders(r))
      BY <1>3, <1>4 DEF Counts, TypeOK
    <3>3. Cardinality(Pending(r)) \in Nat /\ Cardinality(Senders(r)) \in Nat
      BY <3>2, FS_CardinalityType
    <3>4. CASE m[2] # r
      <4>1. Pending(r)' = Pending(r) /\ signal'[r] = signal[r]
        BY <2>1, <3>1, <3>4 DEF Pending, TypeOK
      <4> QED
        BY <1>3, <2>1, <3>1, <4>1 DEF Counts
    <3>5. CASE m[2] = r
      <4>1. m \in Pending(r) /\ signal'[r] = signal[r] + 1
        BY <2>1, <3>5 DEF Pending, TypeOK
      <4>2. /\ IsFiniteSet(Pending(r) \ {m})
            /\ Cardinality(Pending(r) \ {m}) = Cardinality(Pending(r)) - 1
        BY <3>2, <4>1, FS_RemoveElement
      <4>3. signal'[r] + Cardinality(Pending(r) \ {m}) <= Cardinality(Senders(r))
        BY <3>2, <3>3, <4>1, <4>2
      <4> QED
        BY <1>3, <2>1, <3>1, <4>2, <4>3 DEF Counts
    <3> QED
      BY <3>4, <3>5
  <2> QED
    BY <1>3, <2>1, <2>2, <2>3
<1>13. ASSUME UNCHANGED vars
      PROVE  /\ \A r \in Ranks : Waits(r)' /\ Counts(r)'
             /\ \A m \in net' : m[2] \in told'[m[1]] /\ m[3] = 1 /\ m[4] = 1
  <2>1. UNCHANGED <<rdma, pc, barrier, cleans, sync, signal, net, told, seen, counted, mask>>
    BY <1>13 DEF vars, barVars
  <2>2. /\ Entered' = Entered
        /\ \A r \in Ranks : Pending(r)' = Pending(r) /\ Senders(r)' = Senders(r) /\ Far(r)' = Far(r)
    BY <2>1 DEF Entered, Pending, Senders, Far, Peers
  <2>3. ASSUME NEW r \in Ranks PROVE Waits(r)'
    BY <1>3, <2>1, <2>2 DEF Waits
  <2>4. ASSUME NEW r \in Ranks PROVE Counts(r)'
    BY <1>3, <2>1, <2>2 DEF Counts
  <2> QED
    BY <1>3, <2>1, <2>3, <2>4
<1>14. ASSUME NEW s \in Ranks, Leave(s) \/ Zero(s) PROVE FALSE
  BY <1>4, <1>14 DEF Leave, Zero
<1>15. ASSUME NEW s \in Ranks, ExpireFar(s) \/ \E p \in Ranks : ExpireNear(s, p)
       PROVE  FALSE
  BY <1>2, <1>15, NoTimeout DEF ExpireFar, ExpireNear
<1> QED
  BY <1>1, <1>5, <1>6, <1>7, <1>8, <1>9, <1>10, <1>11, <1>12, <1>13, <1>14, <1>15
     DEF Next, Step, AllClean

LEMMA GatheringBegins == Init => Gathering
<1> SUFFICES ASSUME Init, NEW r \in Ranks
             PROVE  Waits(r) /\ Counts(r) /\ net = {}
  BY DEF Gathering, Init
<1>1. Pending(r) = {} /\ Senders(r) = {}
  BY DEF Init, Pending, Senders
<1>2. Counts(r)
  BY <1>1, FS_EmptySet DEF Init, Counts
<1>3. Waits(r)
  BY DEF Init, Waits, Entered
<1> QED
  BY <1>2, <1>3 DEF Init

(* In a group's first clean, over any mix of NVLink and RDMA, a rank       *)
(* zeroes its words only after every peer it counts on has entered the     *)
(* clean.                                                                  *)
THEOREM FirstCleanOrder ==
  ASSUME MaxCleans = 1
  PROVE  Spec => []ZeroAfterEntry
<1>1. Init => Gathering
  BY GatheringBegins
<1>2. ASSUME IInv, Gathering, [Next]_vars PROVE Gathering'
  <2>1. CASE Next
    BY <1>2, <2>1, GatheringHolds DEF IInv
  <2>2. CASE UNCHANGED vars
    <3>1. UNCHANGED <<rdma, pc, barrier, cleans, sync, signal, net, told, seen, counted, mask>>
      BY <2>2 DEF vars, barVars
    <3>2. /\ Entered' = Entered
          /\ \A r \in Ranks : /\ Pending(r)' = Pending(r) /\ Senders(r)' = Senders(r)
                              /\ Far(r)' = Far(r)
      BY <3>1 DEF Entered, Pending, Senders, Far, Peers
    <3>3. ASSUME NEW q \in Ranks, q \notin Entered
          PROVE  \A r \in Ranks : Waits(r)' /\ Counts(r)'
      <4>1. \A r \in Ranks : Waits(r) /\ Counts(r)
        BY <1>2, <3>3 DEF Gathering
      <4>2. ASSUME NEW r \in Ranks PROVE Waits(r)'
        BY <3>1, <3>2, <4>1 DEF Waits
      <4>3. ASSUME NEW r \in Ranks PROVE Counts(r)'
        BY <3>1, <3>2, <4>1 DEF Counts
      <4> QED
        BY <4>2, <4>3
    <3> QED
      BY <1>2, <3>1, <3>2, <3>3 DEF Gathering
  <2> QED
    BY <1>2, <2>1, <2>2
<1>3. ASSUME IInv, Gathering PROVE ZeroAfterEntry
  <2> SUFFICES ASSUME NEW r \in Ranks, pc[r] = "zero", NEW p \in Peers(r)
               PROVE  cleans[p] >= cleans[r]
    BY DEF ZeroAfterEntry
  <2>1. p \in Ranks /\ cleans[p] \in 0 .. 1 /\ cleans[r] \in 0 .. 1
    BY <1>3 DEF IInv, TypeOK, Peers
  <2>2. p \in Entered
    BY <1>3, <2>1, Missing DEF IInv
  <2> QED
    BY <2>1, <2>2 DEF Entered
<1> QED
  BY <1>1, <1>2, <1>3, Invariance, PTL DEF Spec

===============================================================================
