---------------------------- MODULE M2nHost_proofs ----------------------------
(***************************************************************************)
(* The safety of what the host threads of nccl_m2n share: the window cache *)
(* (WindowCache), for any number of threads, any calls and any capacity,   *)
(* and the lifecycle of handles and runtime (M2nRuntime), for any number   *)
(* of threads, handles, configurations and calls.  The threads, their API  *)
(* lock and its in-flight count are the same in both.                      *)
(*                                                                         *)
(* The window cache: the in-flight count counts the calls (Counted), so a  *)
(* call that evicts is alone; it stays alone while the API lock is dropped *)
(* unless another call enters, which is what raced records (Alone).  The   *)
(* windows of the entries, of the retired list and of the calls in between *)
(* are then kept apart (Apart), because a newly registered one has a       *)
(* number of its own (Known).                                              *)
(*                                                                         *)
(* The runtime: the inductive invariant says who may be where;             *)
(* gM2nRuntimeMutex is held exactly by the thread that tears the runtime   *)
(* down, the runtime is in its destructor exactly then, and a call that    *)
(* works on a handle owns it.                                              *)
(***************************************************************************)
EXTENDS M2nRuntime, WindowCache, FiniteSetTheorems, SequenceTheorems, TLAPS

Places == {"idle", "lookup", "registering", "insert", "evict", "evicted", "use", "leave"}
Searching == {"lookup", "registering", "insert", "evict", "evicted"}
Holding == {"insert", "evict", "evicted"}

CacheTypeOK ==
  /\ apiLock \in Threads \cup {Free}
  /\ inFlight \in Int
  /\ pc \in [Threads -> Places]
  /\ wants \in [Threads -> Seq(Keys)]
  /\ got \in [Threads -> Seq(Nat)]
  /\ fresh \in [Threads -> Nat]
  /\ victim \in [Threads -> Slots]
  /\ entries \in Seq([key : Keys, window : Nat])
  /\ nextIdx \in Slots
  /\ retired \subseteq Nat
  /\ windows \in Seq(Keys)
  /\ registered \subseteq Nat
  /\ raced \in BOOLEAN

(* Who holds the API lock: a call that looks up, inserts or returns does.    *)
LockKept ==
  \A t \in Threads :
    /\ pc[t] \in {"lookup", "insert", "leave"} => apiLock = t
    /\ apiLock = t => pc[t] \in {"lookup", "insert", "leave", "use"}

Counted == inFlight = Cardinality(Active)

(* How far a call has got. *)
CallKept ==
  \A t \in Threads :
    /\ pc[t] = "idle" => got[t] = <<>> /\ wants[t] = <<>>
    /\ pc[t] \in Searching => Len(got[t]) < Len(wants[t])
    /\ fresh[t] # NoWindow <=> pc[t] \in Holding
    /\ pc[t] \in {"evict", "evicted"} => Len(entries) = Capacity

Sized == Len(entries) <= Capacity

(* The windows in the books are windows that have been registered. *)
Given == 1 .. Len(windows)
Known ==
  /\ \A i \in DOMAIN entries : entries[i].window \in Given
  /\ retired \subseteq Given /\ registered \subseteq Given
  /\ \A t \in Threads : fresh[t] # NoWindow => fresh[t] \in Given

(* A call that evicts is the only one, as long as no other has entered. *)
Alone == ~raced => \A t \in Evicting : Active = {t}

(* No window is in two entries or held by two calls. *)
Apart ==
  ~raced =>
    /\ \A i, j \in DOMAIN entries : entries[i].window = entries[j].window => i = j
    /\ \A t, u \in Threads : fresh[t] = fresh[u] /\ fresh[t] # NoWindow => t = u

(* The windows of a call that asked for one only. *)
SingleUse ==
  ~raced => \A t \in Threads : Len(wants[t]) = 1 => Range(got[t]) \subseteq registered

IInv ==
  /\ CacheTypeOK /\ LockKept /\ Counted /\ CallKept /\ Sized /\ Known
  /\ Alone /\ Apart /\ WindowsAccounted /\ SingleUse

-----------------------------------------------------------------------------
(* The first match is a match. *)
LEMMA MinMember ==
  ASSUME NEW S \in SUBSET Nat, IsFiniteSet(S), S # {}
  PROVE  Min(S) \in S
<1> DEFINE UpTo(i) == {j \in S : j <= i}
           T == {UpTo(i) : i \in S}
<1>1. T \subseteq FiniteSubsetsOf(S) /\ T # {}
  <2>1. ASSUME NEW i \in S PROVE UpTo(i) \in FiniteSubsetsOf(S)
    <3>1. UpTo(i) \in SUBSET S
      OBVIOUS
    <3>2. IsFiniteSet(UpTo(i))
      BY <3>1, FS_Subset
    <3> QED BY <3>1, <3>2 DEF FiniteSubsetsOf
  <2> QED BY <2>1
<1>2. PICK X \in T : \A Y \in T : ~(<<Y, X>> \in StrictSubsetOrdering(S))
  <2> HIDE DEF T
  <2> QED BY <1>1, FS_StrictSubsetOrderingWellFounded, WFMin
<1>3. PICK i \in S : X = UpTo(i)
  OBVIOUS
<1>4. ASSUME NEW k \in S, k < i PROVE FALSE
  <2>1. UpTo(k) \subseteq UpTo(i) /\ i \notin UpTo(k) /\ i \in UpTo(i)
    <3>1. i \in Nat /\ k \in Nat
      OBVIOUS
    <3>2. \A j \in S : j <= k => j <= i
      BY <1>4, <3>1
    <3>3. ~(i <= k) /\ i <= i
      BY <1>4, <3>1
    <3> QED BY <3>2, <3>3
  <2>2. UpTo(k) \in SUBSET S /\ UpTo(i) \in SUBSET S
    OBVIOUS
  <2>3. <<UpTo(k), UpTo(i)>> \in StrictSubsetOrdering(S)
    BY <2>1, <2>2, Zenon DEF StrictSubsetOrdering
  <2> QED BY <1>2, <1>3, <2>3
<1>5. \A k \in S : i <= k
  BY <1>4
<1> QED BY <1>5 DEF Min

LEMMA Listed ==
  ASSUME CacheTypeOK
  PROVE  /\ DOMAIN entries = 1 .. Len(entries) /\ Len(entries) \in Nat
         /\ \A i \in DOMAIN entries : entries[i] \in [key : Keys, window : Nat]
         /\ Len(windows) \in Nat
         /\ \A t \in Threads : Len(got[t]) \in Nat /\ Len(wants[t]) \in Nat
         /\ Capacity \in Nat
BY LenProperties, ElementOfSeq, CacheAssumption DEF CacheTypeOK

LEMMA FoundCached ==
  ASSUME CacheTypeOK, NEW k, Matches(k) # {}
  PROVE  Min(Matches(k)) \in DOMAIN entries /\ Found(k) \in Cached /\ Found(k) \in Nat
<1>1. Matches(k) \subseteq DOMAIN entries /\ Matches(k) \in SUBSET Nat /\ IsFiniteSet(Matches(k))
  <2>1. IsFiniteSet(DOMAIN entries)
    BY Listed, FS_Interval
  <2> QED BY <2>1, Listed, FS_Subset DEF Matches
<1>2. Min(Matches(k)) \in DOMAIN entries
  BY <1>1, MinMember
<1> QED BY <1>2, Listed DEF Found, Cached

(* What a step changes: the caller's place, and what it carries. *)
LEMMA NewKey ==
  ASSUME CacheTypeOK, CallKept, NEW t \in Threads, pc[t] \in Searching
  PROVE  Key(t) \in Keys
BY Listed, ElementOfSeq DEF CacheTypeOK, CallKept, Key

LEMMA Gained ==
  ASSUME CacheTypeOK, NEW t \in Threads, NEW w \in Nat, Obtain(t, w)
  PROVE  /\ got' \in [Threads -> Seq(Nat)]
         /\ \A u \in Threads : u # t => got'[u] = got[u]
         /\ Len(got'[t]) = Len(got[t]) + 1
         /\ Range(got'[t]) = Range(got[t]) \cup {w}
         /\ pc' = [pc EXCEPT ![t] = IF Len(got[t]) + 1 = Len(wants[t]) THEN "use" ELSE "lookup"]
<1>1. got[t] \in Seq(Nat)
  BY DEF CacheTypeOK
<1>2. got'[t] = Append(got[t], w)
  BY DEF Obtain, CacheTypeOK
<1>3. /\ Append(got[t], w) \in Seq(Nat) /\ Len(Append(got[t], w)) = Len(got[t]) + 1
      /\ \A i \in 1 .. Len(got[t]) : Append(got[t], w)[i] = got[t][i]
      /\ Append(got[t], w)[Len(got[t]) + 1] = w
  BY <1>1, AppendProperties
<1>4. Range(Append(got[t], w)) = Range(got[t]) \cup {w}
  <2>1. DOMAIN Append(got[t], w) = 1 .. Len(got[t]) + 1 /\ DOMAIN got[t] = 1 .. Len(got[t]) /\ Len(got[t]) \in Nat
    BY <1>1, <1>3, LenProperties
  <2>2. \A x : x \in Range(Append(got[t], w)) <=> x \in Range(got[t]) \/ x = w
    <3> TAKE x
    <3>1. x \in Range(got[t]) => x \in Range(Append(got[t], w))
      BY <1>3, <2>1 DEF Range
    <3>2. w \in Range(Append(got[t], w))
      BY <1>3, <2>1 DEF Range
    <3>3. x \in Range(Append(got[t], w)) => x \in Range(got[t]) \/ x = w
      BY <1>3, <2>1 DEF Range
    <3> QED BY <3>1, <3>2, <3>3
  <2> QED BY <2>2
<1> QED BY <1>2, <1>3, <1>4 DEF Obtain, Goto, CacheTypeOK

LEMMA Replaced ==
  ASSUME CacheTypeOK, CallKept, NEW t \in Threads, pc[t] \in Holding, Len(entries) = Capacity,
         NEW i \in Slots, Replace(t, i)
  PROVE  /\ i + 1 \in DOMAIN entries
         /\ entries' \in Seq([key : Keys, window : Nat]) /\ Len(entries') = Len(entries)
         /\ \A j \in DOMAIN entries :
              entries'[j].window = IF j = i + 1 THEN fresh[t] ELSE entries[j].window
         /\ nextIdx' \in Slots
<1>1. i + 1 \in 1 .. Len(entries) /\ entries \in Seq([key : Keys, window : Nat])
  BY CacheAssumption, Listed DEF Slots, CacheTypeOK
<1>2. NewEntry(t) \in [key : Keys, window : Nat] /\ NewEntry(t).window = fresh[t]
  BY NewKey DEF NewEntry, CacheTypeOK, Holding, Searching
<1>3. entries' = [entries EXCEPT ![i + 1] = NewEntry(t)]
  BY DEF Replace
<1>4. /\ entries' \in Seq([key : Keys, window : Nat]) /\ Len(entries') = Len(entries)
      /\ \A j \in 1 .. Len(entries) : entries'[j] = IF j = i + 1 THEN NewEntry(t) ELSE entries[j]
  BY <1>1, <1>2, <1>3, ExceptSeq
<1>5. nextIdx' \in Slots
  <2>1. nextIdx \in Nat /\ Capacity \in Nat \ {0} /\ nextIdx' = (nextIdx + 1) % Capacity
    BY CacheAssumption DEF Replace, Slots, CacheTypeOK
  <2> QED BY <2>1 DEF Slots
<1> QED BY <1>1, <1>2, <1>4, <1>5, Listed

LEMMA Appended ==
  ASSUME CacheTypeOK, CallKept, NEW t \in Threads, pc[t] \in Holding, entries' = Append(entries, NewEntry(t))
  PROVE  /\ entries' \in Seq([key : Keys, window : Nat]) /\ Len(entries') = Len(entries) + 1
         /\ \A j \in DOMAIN entries : entries'[j] = entries[j]
         /\ entries'[Len(entries) + 1].window = fresh[t]
<1>1. NewEntry(t) \in [key : Keys, window : Nat] /\ NewEntry(t).window = fresh[t]
  BY NewKey DEF NewEntry, CacheTypeOK, Holding, Searching
<1> QED BY <1>1, AppendProperties, Listed DEF CacheTypeOK

LEMMA RegisteredOne ==
  ASSUME CacheTypeOK, CallKept, NEW t \in Threads, Register(t)
  PROVE  /\ windows' \in Seq(Keys) /\ Len(windows') = Len(windows) + 1
         /\ Len(windows) + 1 \in Nat \ {0}
         /\ registered' = registered \cup {Len(windows) + 1}
         /\ fresh' = [fresh EXCEPT ![t] = Len(windows) + 1]
<1>1. Key(t) \in Keys
  BY NewKey DEF Register, Searching
<1>2. Len(windows') = Len(windows) + 1 /\ windows' \in Seq(Keys)
  BY <1>1, AppendProperties DEF Register, CacheTypeOK
<1> QED BY <1>2, Listed DEF Register

-----------------------------------------------------------------------------
LEMMA TypePreserved ==
  ASSUME CacheTypeOK, CallKept, Sized, [CacheNext]_windowVars
  PROVE  CacheTypeOK'
<1> USE DEF CacheTypeOK, Goto, requestVars, cacheVars, ncclVars, Places
<1>1. ASSUME NEW t \in Threads, NEW c \in Calls, EnterCall(t, c) PROVE CacheTypeOK'
  BY <1>1, CacheAssumption DEF EnterCall
<1>2. ASSUME NEW t \in Threads, Hit(t) PROVE CacheTypeOK'
  BY <1>2, FoundCached, Gained DEF Hit
<1>3. ASSUME NEW t \in Threads, Miss(t) \/ RegisterFails(t) PROVE CacheTypeOK'
  BY <1>3 DEF Miss, RegisterFails
<1>4. ASSUME NEW t \in Threads, Register(t) PROVE CacheTypeOK'
  <2>1. /\ windows' \in Seq(Keys) /\ registered' \subseteq Nat /\ fresh' \in [Threads -> Nat]
    BY <1>4, RegisteredOne
  <2> QED BY <1>4, <2>1 DEF Register
<1>5. ASSUME NEW t \in Threads, InsertNew(t) PROVE CacheTypeOK'
  <2>1. Obtain(t, fresh[t]) /\ pc[t] \in Holding /\ fresh[t] \in Nat
    BY <1>5 DEF InsertNew, Inserted, Holding
  <2>2. entries' \in Seq([key : Keys, window : Nat])
    BY <1>5, <2>1, Appended DEF InsertNew
  <2>3. got' \in [Threads -> Seq(Nat)] /\ pc' \in [Threads -> Places]
    BY <2>1, Gained
  <2>4. fresh' \in [Threads -> Nat]
    BY <1>5 DEF InsertNew, Inserted, NoWindow
  <2> QED BY <1>5, <2>2, <2>3, <2>4 DEF InsertNew, Inserted
<1>6. ASSUME NEW t \in Threads, InsertRetire(t) PROVE CacheTypeOK'
  <2>1. Len(entries) = Capacity
    BY <1>6, CacheAssumption, Listed DEF InsertRetire, Full, Sized
  <2>2. nextIdx + 1 \in DOMAIN entries
    BY <1>6, <2>1, Replaced DEF InsertRetire, Holding
  <2>3. Slot(nextIdx).window \in Nat
    BY <2>2, Listed DEF Slot
  <2>4. entries' \in Seq([key : Keys, window : Nat]) /\ nextIdx' \in Slots
    BY <1>6, <2>1, Replaced DEF InsertRetire, Holding
  <2>5. Obtain(t, fresh[t]) /\ fresh[t] \in Nat
    BY <1>6 DEF InsertRetire, Replace, Inserted
  <2>6. got' \in [Threads -> Seq(Nat)] /\ pc' \in [Threads -> Places]
    BY <2>5, Gained
  <2>7. fresh' \in [Threads -> Nat]
    BY <1>6 DEF InsertRetire, Replace, Inserted, NoWindow
  <2> QED BY <1>6, <2>3, <2>4, <2>6, <2>7 DEF InsertRetire, Replace, Inserted
<1>7. ASSUME NEW t \in Threads, InsertEvict(t) PROVE CacheTypeOK'
  BY <1>7 DEF InsertEvict
<1>8. ASSUME NEW t \in Threads, Deregister(t) PROVE CacheTypeOK'
  BY <1>8 DEF Deregister
<1>9. ASSUME NEW t \in Threads, EvictReturn(t) PROVE CacheTypeOK'
  <2>1. Len(entries) = Capacity /\ pc[t] \in Holding
    BY <1>9 DEF EvictReturn, CallKept, Holding
  <2>4. entries' \in Seq([key : Keys, window : Nat]) /\ nextIdx' \in Slots
    BY <1>9, <2>1, Replaced DEF EvictReturn
  <2>5. Obtain(t, fresh[t]) /\ fresh[t] \in Nat
    BY <1>9 DEF EvictReturn, Replace, Inserted
  <2>6. got' \in [Threads -> Seq(Nat)] /\ pc' \in [Threads -> Places]
    BY <2>5, Gained
  <2>7. fresh' \in [Threads -> Nat]
    BY <1>9 DEF EvictReturn, Replace, Inserted, NoWindow
  <2> QED BY <1>9, <2>4, <2>6, <2>7 DEF EvictReturn, Replace, Inserted
<1>10. ASSUME NEW t \in Threads, OpenWindow(t) \/ CloseWindow(t) PROVE CacheTypeOK'
  BY <1>10 DEF OpenWindow, CloseWindow
<1>11. ASSUME NEW t \in Threads, LeaveCall(t) PROVE CacheTypeOK'
  BY <1>11, EmptySeq DEF LeaveCall
<1>12. CASE Finalize
  <2>1. <<>> \in Seq([key : Keys, window : Nat]) /\ 0 \in Slots
    BY EmptySeq, CacheAssumption DEF Slots
  <2>2. registered' \subseteq registered
    BY <1>12 DEF Finalize
  <2> QED BY <1>12, <2>1, <2>2 DEF Finalize
<1>13. CASE UNCHANGED windowVars
  BY <1>13 DEF windowVars
<1> QED BY <1>1, <1>2, <1>3, <1>4, <1>5, <1>6, <1>7, <1>8, <1>9, <1>10, <1>11, <1>12, <1>13
     DEF CacheNext, CallProgress
LEMMA LockPreserved ==
  ASSUME CacheTypeOK, LockKept, [CacheNext]_windowVars
  PROVE  LockKept'
<1> USE CacheAssumption DEF CacheTypeOK, LockKept, Goto, requestVars, Places
<1>1. ASSUME NEW t \in Threads, NEW c \in Calls, EnterCall(t, c) PROVE LockKept'
  BY <1>1 DEF EnterCall
<1>2. ASSUME NEW t \in Threads, Hit(t) PROVE LockKept'
  BY <1>2 DEF Hit, Obtain
<1>3. ASSUME NEW t \in Threads, Miss(t) \/ RegisterFails(t) PROVE LockKept'
  BY <1>3 DEF Miss, RegisterFails
<1>4. ASSUME NEW t \in Threads, Register(t) PROVE LockKept'
  BY <1>4 DEF Register
<1>5. ASSUME NEW t \in Threads, InsertNew(t) \/ InsertRetire(t) PROVE LockKept'
  BY <1>5 DEF InsertNew, InsertRetire, Replace, Inserted, Obtain
<1>6. ASSUME NEW t \in Threads, InsertEvict(t) \/ Deregister(t) PROVE LockKept'
  BY <1>6 DEF InsertEvict, Deregister
<1>7. ASSUME NEW t \in Threads, EvictReturn(t) PROVE LockKept'
  BY <1>7 DEF EvictReturn, Replace, Inserted, Obtain
<1>8. ASSUME NEW t \in Threads, OpenWindow(t) \/ CloseWindow(t) \/ LeaveCall(t) PROVE LockKept'
  BY <1>8 DEF OpenWindow, CloseWindow, LeaveCall
<1>9. CASE Finalize \/ UNCHANGED windowVars
  BY <1>9 DEF Finalize, windowVars
<1> QED BY <1>1, <1>2, <1>3, <1>4, <1>5, <1>6, <1>7, <1>8, <1>9 DEF CacheNext, CallProgress

(* The calls in flight change when one enters and when one leaves. *)
LEMMA ActiveSteps ==
  ASSUME CacheTypeOK, [CacheNext]_windowVars
  PROVE  \/ \E t \in Threads, c \in Calls :
               EnterCall(t, c) /\ t \notin Active /\ Active' = Active \cup {t} /\ inFlight' = inFlight + 1
         \/ \E t \in Threads :
               LeaveCall(t) /\ t \in Active /\ Active' = Active \ {t} /\ inFlight' = inFlight - 1
         \/ UNCHANGED <<Active, inFlight>>
<1> USE DEF CacheTypeOK, Goto, Active, requestVars, Places
<1>1. ASSUME NEW t \in Threads, NEW c \in Calls, EnterCall(t, c)
      PROVE  t \notin Active /\ Active' = Active \cup {t} /\ inFlight' = inFlight + 1
  BY <1>1 DEF EnterCall
<1>2. ASSUME NEW t \in Threads, LeaveCall(t)
      PROVE  t \in Active /\ Active' = Active \ {t} /\ inFlight' = inFlight - 1
  BY <1>2 DEF LeaveCall
<1>3. ASSUME NEW t \in Threads, Hit(t) \/ InsertNew(t) \/ InsertRetire(t) \/ EvictReturn(t)
      PROVE  UNCHANGED <<Active, inFlight>>
  <2>1. /\ pc[t] # "idle" /\ inFlight' = inFlight
        /\ pc' = [pc EXCEPT ![t] = IF Len(got[t]) + 1 = Len(wants[t]) THEN "use" ELSE "lookup"]
    BY <1>3 DEF Hit, InsertNew, InsertRetire, EvictReturn, Replace, Inserted, Obtain
  <2> QED BY <2>1
<1>4. ASSUME NEW t \in Threads, Miss(t) \/ RegisterFails(t) \/ Register(t)
      PROVE  UNCHANGED <<Active, inFlight>>
  BY <1>4 DEF Miss, RegisterFails, Register
<1>5. ASSUME NEW t \in Threads, InsertEvict(t) \/ Deregister(t)
      PROVE  UNCHANGED <<Active, inFlight>>
  BY <1>5 DEF InsertEvict, Deregister
<1>6. ASSUME NEW t \in Threads, OpenWindow(t) \/ CloseWindow(t)
      PROVE  UNCHANGED <<Active, inFlight>>
  BY <1>6 DEF OpenWindow, CloseWindow
<1>7. CASE Finalize \/ UNCHANGED windowVars
  BY <1>7 DEF Finalize, windowVars
<1> QED BY <1>1, <1>2, <1>3, <1>4, <1>5, <1>6, <1>7 DEF CacheNext, CallProgress

LEMMA CountedPreserved ==
  ASSUME CacheTypeOK, Counted, [CacheNext]_windowVars
  PROVE  Counted'
<1>1. IsFiniteSet(Active)
  BY CacheAssumption, FS_Subset DEF Active
<1>2. Cardinality(Active)' = Cardinality(Active')
  OBVIOUS
<1> QED BY <1>1, <1>2, ActiveSteps, FS_AddElement, FS_RemoveElement DEF Counted

(* A call that starts an eviction is the only one in flight. *)
LEMMA EvictsAlone ==
  ASSUME CacheTypeOK, Counted, NEW t \in Threads, InsertEvict(t)
  PROVE  Active = {t}
<1>1. IsFiniteSet(Active) /\ t \in Active
  BY CacheAssumption, FS_Subset DEF Active, InsertEvict
<1>2. Cardinality(Active) \in Nat /\ Cardinality(Active) <= 1 /\ Cardinality(Active) # 0
  BY <1>1, FS_CardinalityType, FS_EmptySet DEF Counted, InsertEvict, Defer
<1>3. PICK x : Active = {x}
  BY <1>1, <1>2, FS_Singleton
<1> QED BY <1>1, <1>3

LEMMA InCallPreserved ==
  ASSUME CacheTypeOK, CallKept, Sized, [CacheNext]_windowVars
  PROVE  CallKept' /\ Sized'
<1> USE DEF CacheTypeOK, CallKept, Sized, Goto, requestVars, cacheVars, Places, Searching, Holding, NoWindow
<1>1. ASSUME NEW t \in Threads, NEW c \in Calls, EnterCall(t, c) PROVE CallKept' /\ Sized'
  <2>1. c \in Seq(Keys) /\ Len(c) > 0 /\ Len(got[t]) = 0
    BY <1>1, CacheAssumption, EmptySeq DEF EnterCall
  <2> QED BY <1>1, <2>1 DEF EnterCall
<1>2. ASSUME NEW t \in Threads, Hit(t) PROVE CallKept' /\ Sized'
  <2>1. /\ \A u \in Threads : u # t => got'[u] = got[u]
        /\ Len(got'[t]) = Len(got[t]) + 1
        /\ pc' = [pc EXCEPT ![t] = IF Len(got[t]) + 1 = Len(wants[t]) THEN "use" ELSE "lookup"]
    BY <1>2, FoundCached, Gained DEF Hit
  <2>2. Len(got[t]) \in Nat /\ Len(wants[t]) \in Nat
    BY Listed
  <2> QED BY <1>2, <2>1, <2>2 DEF Hit
<1>3. ASSUME NEW t \in Threads, Miss(t) \/ RegisterFails(t) PROVE CallKept' /\ Sized'
  BY <1>3 DEF Miss, RegisterFails
<1>4. ASSUME NEW t \in Threads, Register(t) PROVE CallKept' /\ Sized'
  <2>1. fresh' = [fresh EXCEPT ![t] = Len(windows) + 1] /\ Len(windows) + 1 \in Nat \ {0}
    BY <1>4, RegisteredOne
  <2> QED BY <1>4, <2>1 DEF Register
<1>5. ASSUME NEW t \in Threads, InsertNew(t) \/ InsertRetire(t) \/ EvictReturn(t)
      PROVE  CallKept' /\ Sized'
  <2>1. pc[t] \in Holding /\ Obtain(t, fresh[t]) /\ wants' = wants /\ fresh' = [fresh EXCEPT ![t] = NoWindow]
    BY <1>5 DEF InsertNew, InsertRetire, EvictReturn, Replace, Inserted
  <2>2. /\ \A u \in Threads : u # t => got'[u] = got[u]
        /\ Len(got'[t]) = Len(got[t]) + 1
        /\ pc' = [pc EXCEPT ![t] = IF Len(got[t]) + 1 = Len(wants[t]) THEN "use" ELSE "lookup"]
    BY <2>1, Gained
  <2>3. Len(got[t]) \in Nat /\ Len(wants[t]) \in Nat /\ Len(entries) \in Nat /\ Capacity \in Nat
    BY Listed, CacheAssumption
  <2>4. Len(entries') = Len(entries) \/ (~Full /\ Len(entries') = Len(entries) + 1)
    <3>1. CASE InsertNew(t)
      BY <2>1, <3>1, Appended DEF InsertNew
    <3>2. CASE InsertRetire(t)
      BY <2>1, <2>3, <3>2, Replaced DEF InsertRetire, Full
    <3>3. CASE EvictReturn(t)
      BY <2>1, <3>3, Replaced DEF EvictReturn
    <3> QED BY <1>5, <3>1, <3>2, <3>3
  <2> QED BY <2>1, <2>2, <2>3, <2>4 DEF Full
<1>6. ASSUME NEW t \in Threads, InsertEvict(t) \/ Deregister(t) PROVE CallKept' /\ Sized'
  <2>1. CASE InsertEvict(t)
    <3>1. Len(entries) = Capacity /\ entries' = entries
      BY <2>1, Listed DEF InsertEvict, Full
    <3> QED BY <2>1, <3>1 DEF InsertEvict
  <2>2. CASE Deregister(t)
    BY <2>2 DEF Deregister
  <2> QED BY <1>6, <2>1, <2>2
<1>7. ASSUME NEW t \in Threads, OpenWindow(t) \/ CloseWindow(t) \/ LeaveCall(t) PROVE CallKept' /\ Sized'
  BY <1>7 DEF OpenWindow, CloseWindow, LeaveCall
<1>8. CASE Finalize
  <2>1. Len(entries') = 0 /\ Capacity \in Nat /\ \A t \in Threads : pc[t] = "idle"
    BY <1>8, EmptySeq, CacheAssumption DEF Finalize, Active
  <2> QED BY <1>8, <2>1 DEF Finalize
<1>9. CASE UNCHANGED windowVars
  BY <1>9 DEF windowVars
<1> QED BY <1>1, <1>2, <1>3, <1>4, <1>5, <1>6, <1>7, <1>8, <1>9 DEF CacheNext, CallProgress
LEMMA KnownPreserved ==
  ASSUME CacheTypeOK, CallKept, Sized, Known, [CacheNext]_windowVars
  PROVE  Known'
<1> USE DEF requestVars, cacheVars, ncclVars
<1>0. /\ DOMAIN entries = 1 .. Len(entries) /\ Len(entries) \in Nat /\ Len(windows) \in Nat
      /\ entries' \in Seq([key : Keys, window : Nat]) /\ DOMAIN entries' = 1 .. Len(entries')
  <2>1. CacheTypeOK'
    BY TypePreserved
  <2>2. entries' \in Seq([key : Keys, window : Nat])
    BY <2>1 DEF CacheTypeOK
  <2> QED BY <2>2, Listed, LenProperties
<1>1. ASSUME UNCHANGED <<entries, retired, windows, fresh>>, registered' \subseteq registered
      PROVE  Known'
  BY <1>1 DEF Known, Given
<1>2. ASSUME NEW t \in Threads, Register(t) PROVE Known'
  <2>1. /\ Len(windows') = Len(windows) + 1
        /\ registered' = registered \cup {Len(windows) + 1}
        /\ fresh' = [fresh EXCEPT ![t] = Len(windows) + 1]
    BY <1>2, RegisteredOne
  <2>2. Given \subseteq Given' /\ Len(windows) + 1 \in Given'
    BY <1>0, <2>1 DEF Given
  <2> QED BY <1>2, <2>1, <2>2 DEF Register, Known, CacheTypeOK
<1>3. ASSUME NEW t \in Threads, InsertNew(t) \/ InsertRetire(t) \/ EvictReturn(t)
      PROVE  Known'
  <2>1. /\ pc[t] \in Holding /\ UNCHANGED <<windows, registered>>
        /\ fresh' = [fresh EXCEPT ![t] = NoWindow]
    BY <1>3 DEF InsertNew, InsertRetire, EvictReturn, Replace, Inserted, Holding
  <2>2. fresh[t] \in Given
    BY <2>1 DEF Known, CallKept
  <2>3. /\ \A i \in DOMAIN entries' : entries'[i].window \in Given
        /\ retired' \subseteq Given
    <3>1. CASE InsertNew(t)
      BY <1>0, <2>1, <2>2, <3>1, Appended DEF InsertNew, Known
    <3>2. CASE InsertRetire(t)
      <4>1. Len(entries) = Capacity
        BY <1>0, <3>2, Listed DEF InsertRetire, Full, Sized
      <4>2. /\ nextIdx + 1 \in DOMAIN entries /\ Len(entries') = Len(entries)
            /\ \A j \in DOMAIN entries : entries'[j].window \in {fresh[t], entries[j].window}
        BY <2>1, <3>2, <4>1, Replaced DEF InsertRetire, CacheTypeOK
      <4> QED BY <1>0, <2>2, <3>2, <4>2 DEF InsertRetire, Known, Slot
    <3>3. CASE EvictReturn(t)
      <4>1. Len(entries) = Capacity
        BY <3>3 DEF EvictReturn, CallKept
      <4>2. /\ Len(entries') = Len(entries)
            /\ \A j \in DOMAIN entries : entries'[j].window \in {fresh[t], entries[j].window}
        BY <2>1, <3>3, <4>1, Replaced DEF EvictReturn, CacheTypeOK
      <4> QED BY <1>0, <2>2, <3>3, <4>2 DEF EvictReturn, Known
    <3> QED BY <1>3, <3>1, <3>2, <3>3
  <2> QED BY <2>1, <2>3 DEF Known, Given, CacheTypeOK
<1>4. CASE Finalize
  <2>1. DOMAIN entries' = {} /\ retired' = {} /\ registered' \subseteq registered
        /\ UNCHANGED <<windows, fresh>>
    BY <1>0, <1>4, EmptySeq DEF Finalize
  <2> QED BY <2>1 DEF Known, Given
<1>5. ASSUME NEW t \in Threads,
             Hit(t) \/ Miss(t) \/ RegisterFails(t) \/ InsertEvict(t) \/ Deregister(t)
               \/ OpenWindow(t) \/ CloseWindow(t) \/ LeaveCall(t) \/ \E c \in Calls : EnterCall(t, c)
      PROVE  Known'
  BY <1>1, <1>5 DEF Hit, Miss, RegisterFails, InsertEvict, Deregister, OpenWindow, CloseWindow, LeaveCall, EnterCall
<1>6. CASE UNCHANGED windowVars
  BY <1>1, <1>6 DEF windowVars
<1> QED BY <1>2, <1>3, <1>4, <1>5, <1>6 DEF CacheNext, CallProgress

LEMMA AlonePreserved ==
  ASSUME CacheTypeOK, Counted, Alone, [CacheNext]_windowVars
  PROVE  Alone'
<1> USE DEF CacheTypeOK, Goto, requestVars, Places
<1>0. Evicting \subseteq Active /\ Evicting' \subseteq Active'
  BY DEF Evicting, Active
<1>1. ASSUME NEW t \in Threads, NEW c \in Calls, EnterCall(t, c) PROVE Alone'
  <2>1. ~raced' => Evicting = {}
    BY <1>1 DEF EnterCall
  <2>2. Evicting' \subseteq Evicting
    BY <1>1 DEF EnterCall, Evicting
  <2> QED BY <2>1, <2>2 DEF Alone
<1>2. ASSUME NEW t \in Threads, LeaveCall(t) PROVE Alone'
  <2>1. raced' = raced /\ t \in Active /\ t \notin Evicting /\ Evicting' \subseteq Evicting
    BY <1>2 DEF LeaveCall, Active, Evicting
  <2> QED BY <2>1 DEF Alone
<1>3. ASSUME NEW t \in Threads, InsertEvict(t) PROVE Alone'
  <2>1. Active' = Active
    BY <1>3 DEF InsertEvict, Active
  <2> QED BY <1>0, <1>3, <2>1, EvictsAlone DEF Alone
<1>4. ASSUME raced' = raced, Active' = Active, Evicting' \subseteq Evicting PROVE Alone'
  BY <1>4 DEF Alone
<1>5. ASSUME NEW t \in Threads, Hit(t) \/ InsertNew(t) \/ InsertRetire(t) \/ EvictReturn(t)
      PROVE  raced' = raced /\ Active' = Active /\ Evicting' \subseteq Evicting
  <2>1. /\ pc[t] # "idle" /\ raced' = raced
        /\ pc' = [pc EXCEPT ![t] = IF Len(got[t]) + 1 = Len(wants[t]) THEN "use" ELSE "lookup"]
    BY <1>5 DEF Hit, InsertNew, InsertRetire, EvictReturn, Replace, Inserted, Obtain
  <2> QED BY <2>1 DEF Active, Evicting
<1>6. ASSUME NEW t \in Threads, Miss(t) \/ RegisterFails(t) \/ Register(t) \/ Deregister(t)
                                \/ OpenWindow(t) \/ CloseWindow(t)
      PROVE  raced' = raced /\ Active' = Active /\ Evicting' \subseteq Evicting
  BY <1>6 DEF Miss, RegisterFails, Register, Deregister, OpenWindow, CloseWindow, Active, Evicting
<1>7. CASE Finalize \/ UNCHANGED windowVars
  BY <1>4, <1>7 DEF Finalize, windowVars, Active, Evicting
<1> QED BY <1>1, <1>2, <1>3, <1>4, <1>5, <1>6, <1>7 DEF CacheNext, CallProgress
-----------------------------------------------------------------------------
(* The books: what each step moves from one place to another. *)
LEMMA NoVictims ==
  ASSUME Alone, ~raced, NEW t \in Threads, pc[t] \notin {"idle", "evicted"}
  PROVE  Victims = {}
<1>1. \A u \in Threads : pc[u] # "evicted"
  BY DEF Alone, Evicting, Active
<1> QED BY <1>1 DEF Victims

LEMMA FreshTaken ==
  ASSUME CacheTypeOK, Apart, ~raced, NEW t \in Threads, fresh[t] # NoWindow,
         fresh' = [fresh EXCEPT ![t] = NoWindow]
  PROVE  Fresh' = Fresh \ {fresh[t]} /\ fresh[t] \in Fresh
<1>1. \A u \in Threads : fresh'[u] = IF u = t THEN NoWindow ELSE fresh[u]
  BY DEF CacheTypeOK
<1>2. \A w : w \in Fresh <=> w # NoWindow /\ \E u \in Threads : fresh[u] = w
  BY DEF Fresh
<1>3. \A w : w \in Fresh' <=> w # NoWindow /\ \E u \in Threads : fresh'[u] = w
  BY DEF Fresh, NoWindow
<1>4. \A w : w \in Fresh' <=> w \in Fresh /\ w # fresh[t]
  BY <1>1, <1>2, <1>3 DEF Apart
<1> QED BY <1>2, <1>4

LEMMA SlotReplaced ==
  ASSUME CacheTypeOK, Apart, ~raced, NEW f \in Nat, f \notin Cached, NEW k \in DOMAIN entries,
         DOMAIN entries' = DOMAIN entries,
         \A j \in DOMAIN entries : entries'[j].window = IF j = k THEN f ELSE entries[j].window
  PROVE  /\ Cached' = (Cached \ {entries[k].window}) \cup {f}
         /\ entries[k].window \in Cached
         /\ \A i, j \in DOMAIN entries' : entries'[i].window = entries'[j].window => i = j
<1>1. \A w : w \in Cached <=> \E j \in DOMAIN entries : entries[j].window = w
  BY DEF Cached
<1>2. \A w : w \in Cached' <=> \E j \in DOMAIN entries : entries'[j].window = w
  BY DEF Cached
<1>3. \A w : w \in Cached' <=> (w \in Cached /\ w # entries[k].window) \/ w = f
  <2> TAKE w
  <2>1. CASE w = f
    BY <1>2, <2>1
  <2>2. CASE w # f
    <3>1. w \in Cached' => w \in Cached /\ w # entries[k].window
      BY <1>1, <1>2, <2>2 DEF Apart
    <3>2. w \in Cached /\ w # entries[k].window => w \in Cached'
      BY <1>1, <1>2
    <3> QED BY <2>2, <3>1, <3>2
  <2> QED BY <2>1, <2>2
<1>4. \A i, j \in DOMAIN entries' : entries'[i].window = entries'[j].window => i = j
  BY <1>1 DEF Apart
<1> QED BY <1>1, <1>3, <1>4

Books == WindowsAccounted /\ Apart

LEMMA BooksSame ==
  ASSUME Books, UNCHANGED <<entries, retired, registered, fresh>>, raced' = raced, Victims' = Victims
  PROVE  Books'
<1>1. Cached' = Cached /\ Fresh' = Fresh
  BY DEF Cached, Fresh, NoWindow
<1> QED BY <1>1 DEF Books, WindowsAccounted, Apart, NoWindow

LEMMA BooksPreserved ==
  ASSUME CacheTypeOK, CallKept, Sized, Known, Counted, Alone, Books, [CacheNext]_windowVars
  PROVE  Books'
<1> USE DEF requestVars, cacheVars, ncclVars
<1>0. CacheTypeOK' /\ Alone'
  BY TypePreserved, AlonePreserved
<1>1. ASSUME NEW t \in Threads,
             Hit(t) \/ Miss(t) \/ RegisterFails(t) \/ InsertEvict(t)
               \/ OpenWindow(t) \/ CloseWindow(t) \/ LeaveCall(t) \/ \E c \in Calls : EnterCall(t, c)
      PROVE  Books'
  <2>1. ~raced' => ~raced
    BY <1>1 DEF Hit, Miss, RegisterFails, InsertEvict, OpenWindow, CloseWindow, LeaveCall, EnterCall
  <2>2. UNCHANGED <<entries, retired, registered, fresh>>
    BY <1>1 DEF Hit, Miss, RegisterFails, InsertEvict, OpenWindow, CloseWindow, LeaveCall, EnterCall
  <2>3. {u \in Threads : pc[u] = "evicted"}' = {u \in Threads : pc[u] = "evicted"}
    <3>1. \A u \in Threads : pc'[u] = "evicted" <=> pc[u] = "evicted"
      BY <1>1 DEF Hit, Miss, RegisterFails, InsertEvict, OpenWindow, CloseWindow, LeaveCall, EnterCall,
                  Obtain, Goto, CacheTypeOK
    <3> QED BY <3>1
  <2>4. \A u \in Threads : pc[u] = "evicted" => victim'[u] = victim[u]
    BY <1>1 DEF Hit, Miss, RegisterFails, InsertEvict, OpenWindow, CloseWindow, LeaveCall, EnterCall, CacheTypeOK
  <2>5. Victims' = Victims
    BY <2>2, <2>3, <2>4 DEF Victims, Slot
  <2>6. Cached' = Cached /\ Fresh' = Fresh
    BY <2>2 DEF Cached, Fresh, NoWindow
  <2> QED BY <2>1, <2>2, <2>5, <2>6 DEF Books, WindowsAccounted, Apart, NoWindow
<1>2. ASSUME NEW t \in Threads, Register(t) PROVE Books'
  <2>1. /\ registered' = registered \cup {Len(windows) + 1}
        /\ fresh' = [fresh EXCEPT ![t] = Len(windows) + 1]
        /\ pc[t] = "registering" /\ UNCHANGED <<entries, retired, raced, victim>>
        /\ pc' = [pc EXCEPT ![t] = "insert"]
    BY <1>2, RegisteredOne DEF Register, Goto
  <2>2. fresh[t] = NoWindow
    BY <2>1 DEF CallKept, Holding
  <2>3. Len(windows) + 1 # NoWindow /\ Len(windows) + 1 \notin Given
    BY Listed DEF NoWindow, Given
  <2>4. \A u \in Threads : fresh'[u] = IF u = t THEN Len(windows) + 1 ELSE fresh[u]
    BY <2>1 DEF CacheTypeOK
  <2>5. \A w : w \in Fresh' <=> w \in Fresh \/ w = Len(windows) + 1
    <3>1. \A w : w \in Fresh <=> w # NoWindow /\ \E u \in Threads : fresh[u] = w
      BY DEF Fresh
    <3>2. \A w : w \in Fresh' <=> w # NoWindow /\ \E u \in Threads : fresh'[u] = w
      BY DEF Fresh, NoWindow
    <3> QED BY <2>2, <2>3, <2>4, <3>1, <3>2
  <2>6. Cached' = Cached /\ Len(windows) + 1 \notin Cached /\ Len(windows) + 1 \notin retired
    BY <2>1, <2>3 DEF Cached, Known
  <2>7. ~raced => Victims = {} /\ Victims' = {}
    <3> SUFFICES ASSUME ~raced PROVE Victims = {} /\ Victims' = {}
      OBVIOUS
    <3>1. \A u \in Threads : pc'[u] # "evicted"
      <4>1. ~raced' /\ pc'[t] = "insert"
        BY <2>1 DEF CacheTypeOK
      <4> QED BY <1>0, <4>1 DEF Alone, Evicting, Active
    <3> QED BY <2>1, <3>1, NoVictims DEF Victims
  <2>8. Apart'
    BY <2>1, <2>3, <2>4 DEF Books, Apart, Known, NoWindow
  <2>9. WindowsAccounted'
    <3> SUFFICES ASSUME ~raced PROVE
          /\ registered' = ((Cached' \ Victims') \cup retired' \cup Fresh')
          /\ Cached' \cap retired' = {} /\ Fresh' \cap (Cached' \cup retired') = {}
      BY <2>1 DEF WindowsAccounted
    <3>1. Fresh' = Fresh \cup {Len(windows) + 1}
      BY <2>5
    <3> QED BY <2>1, <2>6, <2>7, <3>1 DEF Books, WindowsAccounted
  <2> QED BY <2>8, <2>9 DEF Books
<1>3. ASSUME NEW t \in Threads, Deregister(t) PROVE Books'
  <2>1. /\ registered' = registered \ {Slot(victim[t]).window} /\ pc[t] = "evict"
        /\ UNCHANGED <<entries, retired, raced, victim, fresh>>
        /\ pc' = [pc EXCEPT ![t] = "evicted"]
    BY <1>3 DEF Deregister, Goto
  <2>2. Cached' = Cached /\ Fresh' = Fresh
    BY <2>1 DEF Cached, Fresh, NoWindow
  <2>3. Slot(victim[t]).window \in Cached
    <3>1. Len(entries) = Capacity /\ victim[t] \in 0 .. Capacity - 1 /\ Capacity \in Nat
      BY <2>1, Listed DEF CallKept, CacheTypeOK, Slots
    <3> QED BY <3>1, Listed DEF Cached, Slot
  <2>4. ~raced => Victims = {} /\ Victims' = {Slot(victim[t]).window}
    <3> SUFFICES ASSUME ~raced PROVE Victims = {} /\ Victims' = {Slot(victim[t]).window}
      OBVIOUS
    <3>1. \A u \in Threads : pc'[u] = "evicted" <=> u = t
      BY <2>1 DEF Alone, Evicting, Active, CacheTypeOK
    <3>2. {u \in Threads : pc'[u] = "evicted"} = {t}
      BY <3>1
    <3> QED BY <2>1, <3>2, NoVictims DEF Victims, Slot
  <2> QED BY <2>1, <2>2, <2>3, <2>4 DEF Books, WindowsAccounted, Apart, NoWindow
<1>4. ASSUME NEW t \in Threads, InsertNew(t) \/ InsertRetire(t) \/ EvictReturn(t)
      PROVE  Books'
  <2> SUFFICES ASSUME ~raced
               PROVE  /\ registered' = ((Cached' \ Victims') \cup retired' \cup Fresh')
                      /\ Cached' \cap retired' = {} /\ Fresh' \cap (Cached' \cup retired') = {}
                      /\ \A i, j \in DOMAIN entries' : entries'[i].window = entries'[j].window => i = j
                      /\ \A u, v \in Threads : fresh'[u] = fresh'[v] /\ fresh'[u] # NoWindow => u = v
    BY <1>4 DEF InsertNew, InsertRetire, EvictReturn, Replace, Inserted, Books, WindowsAccounted, Apart,
       NoWindow
  <2>1. /\ pc[t] \in Holding /\ UNCHANGED <<registered, raced, victim>>
        /\ fresh' = [fresh EXCEPT ![t] = NoWindow]
        /\ pc' = [pc EXCEPT ![t] = IF Len(got[t]) + 1 = Len(wants[t]) THEN "use" ELSE "lookup"]
    BY <1>4 DEF InsertNew, InsertRetire, EvictReturn, Replace, Inserted, Obtain, Goto, Holding
  <2>2. fresh[t] # NoWindow /\ fresh[t] \in Nat
    BY <2>1 DEF CallKept, CacheTypeOK
  <2>3. Fresh' = Fresh \ {fresh[t]} /\ fresh[t] \in Fresh
    BY <2>1, <2>2, FreshTaken DEF Books
  <2>4. fresh[t] \notin Cached /\ fresh[t] \notin retired
    BY <2>3 DEF Books, WindowsAccounted
  <2>5. \A u, v \in Threads : fresh'[u] = fresh'[v] /\ fresh'[u] # NoWindow => u = v
    BY <2>1 DEF Books, Apart, CacheTypeOK
  <2>6. Victims' = {}
    <3>1. ~raced' /\ pc'[t] \in {"use", "lookup"}
      BY <2>1 DEF CacheTypeOK
    <3> QED BY <1>0, <3>1 DEF Victims, Alone, Evicting, Active
  <2>7. CASE InsertNew(t)
    <3>1. Victims = {} /\ UNCHANGED retired
      BY <2>7, NoVictims DEF InsertNew
    <3>2. /\ Len(entries') = Len(entries) + 1 /\ DOMAIN entries' = 1 .. Len(entries')
          /\ \A j \in DOMAIN entries : entries'[j] = entries[j]
          /\ entries'[Len(entries) + 1].window = fresh[t]
      BY <1>0, <2>1, <2>7, Appended, LenProperties DEF InsertNew, CacheTypeOK
    <3>3. \A w : w \in Cached' <=> w \in Cached \/ w = fresh[t]
      <4>1. \A w : w \in Cached <=> \E j \in 1 .. Len(entries) : entries[j].window = w
        BY Listed DEF Cached
      <4>2. \A w : w \in Cached' <=> \E j \in 1 .. Len(entries) + 1 : entries'[j].window = w
        BY <3>2 DEF Cached
      <4> QED BY <3>2, <4>1, <4>2, Listed
    <3>4. \A i, j \in DOMAIN entries' : entries'[i].window = entries'[j].window => i = j
      <4>1. \A i \in DOMAIN entries' :
              \/ i \in DOMAIN entries /\ entries'[i].window = entries[i].window /\ entries[i].window \in Cached
              \/ i = Len(entries) + 1 /\ entries'[i].window = fresh[t]
        BY <3>2, Listed DEF Cached
      <4> QED BY <2>4, <4>1 DEF Books, Apart
    <3>5. Cached' = Cached \cup {fresh[t]}
      BY <3>3
    <3> QED BY <2>1, <2>3, <2>4, <2>5, <2>6, <3>1, <3>4, <3>5 DEF Books, WindowsAccounted
  <2>8. CASE InsertRetire(t)
    <3>0. Len(entries) = Capacity /\ nextIdx \in Slots
      BY <2>8, Listed DEF InsertRetire, Full, Sized, CacheTypeOK
    <3>1. Victims = {} /\ retired' = retired \cup {entries[nextIdx + 1].window}
      BY <2>8, NoVictims DEF InsertRetire, Slot
    <3>2. /\ nextIdx + 1 \in DOMAIN entries /\ Len(entries') = Len(entries)
          /\ DOMAIN entries' = 1 .. Len(entries')
          /\ \A j \in DOMAIN entries :
               entries'[j].window = IF j = nextIdx + 1 THEN fresh[t] ELSE entries[j].window
      BY <1>0, <2>1, <2>8, <3>0, Replaced, LenProperties DEF InsertRetire, CacheTypeOK
    <3>3. /\ Cached' = (Cached \ {entries[nextIdx + 1].window}) \cup {fresh[t]}
          /\ entries[nextIdx + 1].window \in Cached
          /\ \A i, j \in DOMAIN entries' : entries'[i].window = entries'[j].window => i = j
      BY <2>2, <2>4, <3>2, SlotReplaced, Listed DEF Books
    <3> QED BY <2>1, <2>3, <2>4, <2>5, <2>6, <3>1, <3>3 DEF Books, WindowsAccounted
  <2>9. CASE EvictReturn(t)
    <3>0. Len(entries) = Capacity /\ victim[t] \in Slots /\ pc[t] = "evicted"
      BY <2>9 DEF EvictReturn, CallKept, CacheTypeOK
    <3>1. Victims = {entries[victim[t] + 1].window} /\ UNCHANGED retired
      <4>1. \A u \in Threads : pc[u] = "evicted" <=> u = t
        BY <3>0 DEF Alone, Evicting, Active
      <4>2. {u \in Threads : pc[u] = "evicted"} = {t}
        BY <4>1
      <4> QED BY <2>9, <4>2 DEF Victims, Slot, EvictReturn
    <3>2. /\ victim[t] + 1 \in DOMAIN entries /\ Len(entries') = Len(entries)
          /\ DOMAIN entries' = 1 .. Len(entries')
          /\ \A j \in DOMAIN entries :
               entries'[j].window = IF j = victim[t] + 1 THEN fresh[t] ELSE entries[j].window
      BY <1>0, <2>1, <2>9, <3>0, Replaced, LenProperties DEF EvictReturn, CacheTypeOK
    <3>3. /\ Cached' = (Cached \ {entries[victim[t] + 1].window}) \cup {fresh[t]}
          /\ entries[victim[t] + 1].window \in Cached
          /\ \A i, j \in DOMAIN entries' : entries'[i].window = entries'[j].window => i = j
      BY <2>2, <2>4, <3>2, SlotReplaced, Listed DEF Books
    <3> QED BY <2>1, <2>3, <2>4, <2>5, <2>6, <3>1, <3>3 DEF Books, WindowsAccounted
  <2> QED BY <1>4, <2>7, <2>8, <2>9
<1>5. CASE Finalize
  <2>1. /\ DOMAIN entries' = {} /\ retired' = {} /\ UNCHANGED <<fresh, raced>>
        /\ registered' = registered \ (retired \cup Cached)
    BY <1>5, EmptySeq, LenProperties DEF Finalize, Cached
  <2>2. \A u \in Threads : pc[u] = "idle" /\ fresh[u] = NoWindow
    BY <1>5 DEF Finalize, Active, CallKept, Holding
  <2>3. Fresh = {} /\ Fresh' = {} /\ Cached' = {}
    BY <2>1, <2>2 DEF Fresh, Cached, NoWindow
  <2> QED BY <2>1, <2>2, <2>3 DEF Books, WindowsAccounted, Apart, NoWindow
<1>6. CASE UNCHANGED windowVars
  BY <1>6, BooksSame DEF windowVars, Victims, Slot
<1> QED BY <1>1, <1>2, <1>3, <1>4, <1>5, <1>6 DEF CacheNext, CallProgress
-----------------------------------------------------------------------------
LEMMA SingleUsePreserved ==
  ASSUME CacheTypeOK, CallKept, Alone, Books, SingleUse, [CacheNext]_windowVars
  PROVE  SingleUse'
<1> USE DEF requestVars, cacheVars, ncclVars
<1>0. \A f : f = <<>> => Range(f) = {} /\ Len(f) = 0
  BY EmptySeq DEF Range
<1>1. ASSUME NEW t \in Threads, Hit(t) \/ InsertNew(t) \/ InsertRetire(t) \/ EvictReturn(t)
      PROVE  SingleUse'
  <2>1. UNCHANGED <<raced, wants, registered>>
    BY <1>1 DEF Hit, InsertNew, InsertRetire, EvictReturn, Replace, Inserted
  <2> SUFFICES ASSUME ~raced, NEW u \in Threads, Len(wants[u]) = 1
               PROVE  Range(got'[u]) \subseteq registered
    BY <2>1 DEF SingleUse
  <2>2. PICK w \in Nat : Obtain(t, w) /\ w \in registered
    <3>1. CASE Hit(t)
      <4>1. Victims = {}
        BY <3>1, NoVictims DEF Hit
      <4> QED BY <3>1, <4>1, FoundCached DEF Hit, Books, WindowsAccounted
    <3>2. CASE InsertNew(t) \/ InsertRetire(t) \/ EvictReturn(t)
      <4>1. Obtain(t, fresh[t]) /\ pc[t] \in Holding
        BY <3>2 DEF InsertNew, InsertRetire, EvictReturn, Replace, Inserted, Holding
      <4>2. fresh[t] \in Fresh /\ fresh[t] \in Nat
        BY <4>1 DEF CallKept, Fresh, CacheTypeOK
      <4> QED BY <4>1, <4>2 DEF Books, WindowsAccounted
    <3> QED BY <1>1, <3>1, <3>2
  <2>3. Range(got[u]) \subseteq registered
    BY DEF SingleUse
  <2> QED BY <2>2, <2>3, Gained
<1>2. ASSUME NEW t \in Threads, Deregister(t) PROVE SingleUse'
  <2>1. UNCHANGED <<raced, wants, got>> /\ pc[t] = "evict"
    BY <1>2 DEF Deregister
  <2> SUFFICES ASSUME ~raced, NEW u \in Threads, Len(wants[u]) = 1
               PROVE  Range(got[u]) = {}
    BY <2>1 DEF SingleUse
  <2>2. Active = {t}
    BY <2>1 DEF Alone, Evicting
  <2>3. u = t
    BY <1>0, <2>2 DEF Active, CallKept
  <2>4. Len(got[t]) < 1 /\ got[t] \in Seq(Nat)
    BY <2>1, <2>3 DEF CallKept, Searching, CacheTypeOK
  <2>5. got[t] = <<>>
    BY <2>4, EmptySeq
  <2> QED BY <1>0, <2>3, <2>5
<1>3. CASE Finalize
  <2>1. \A u \in Threads : got'[u] = <<>>
    BY <1>3 DEF Finalize, Active, CallKept
  <2> QED BY <1>0, <2>1 DEF SingleUse
<1>4. ASSUME NEW t \in Threads, NEW c \in Calls, EnterCall(t, c) PROVE SingleUse'
  <2>1. /\ got' = got /\ registered' = registered /\ (~raced' => ~raced) /\ got[t] = <<>>
        /\ \A u \in Threads : u # t => wants'[u] = wants[u]
    BY <1>4 DEF EnterCall, CacheTypeOK, CallKept
  <2> QED BY <1>0, <2>1 DEF SingleUse
<1>5. ASSUME NEW t \in Threads, LeaveCall(t) PROVE SingleUse'
  <2>1. /\ UNCHANGED <<registered, raced>> /\ got'[t] = <<>>
        /\ \A u \in Threads : u # t => wants'[u] = wants[u] /\ got'[u] = got[u]
    BY <1>5 DEF LeaveCall, CacheTypeOK
  <2> QED BY <1>0, <2>1 DEF SingleUse
<1>6. ASSUME NEW t \in Threads, Register(t) PROVE SingleUse'
  BY <1>6 DEF Register, SingleUse
<1>7. ASSUME NEW t \in Threads, Miss(t) \/ RegisterFails(t) \/ InsertEvict(t) \/ OpenWindow(t) \/ CloseWindow(t)
      PROVE  SingleUse'
  BY <1>7 DEF Miss, RegisterFails, InsertEvict, OpenWindow, CloseWindow, SingleUse
<1>8. CASE UNCHANGED windowVars
  BY <1>8 DEF windowVars, SingleUse
<1> QED BY <1>1, <1>2, <1>3, <1>4, <1>5, <1>6, <1>7, <1>8 DEF CacheNext, CallProgress

LEMMA InitIInv == CacheInit => IInv
<1> SUFFICES ASSUME CacheInit PROVE IInv
  OBVIOUS
<1>1. /\ <<>> \in Seq([key : Keys, window : Nat]) /\ <<>> \in Seq(Keys) /\ <<>> \in Seq(Nat)
      /\ Len(<<>>) = 0 /\ DOMAIN <<>> = {} /\ 0 \in Slots /\ Capacity \in Nat
  BY EmptySeq, LenProperties, CacheAssumption DEF Slots
<1>2. CacheTypeOK
  <2>1. pc \in [Threads -> Places] /\ fresh \in [Threads -> Nat]
    BY DEF CacheInit, Places, NoWindow
  <2>2. wants \in [Threads -> Seq(Keys)] /\ got \in [Threads -> Seq(Nat)] /\ victim \in [Threads -> Slots]
    BY <1>1 DEF CacheInit
  <2>3. entries \in Seq([key : Keys, window : Nat]) /\ windows \in Seq(Keys)
    BY <1>1 DEF CacheInit
  <2>4. raced \in BOOLEAN
    BY Zenon DEF CacheInit
  <2>6. apiLock \in Threads \cup {Free} /\ inFlight \in Int
    BY DEF CacheInit
  <2>5. retired \subseteq Nat /\ registered \subseteq Nat /\ nextIdx \in Slots
    BY <1>1 DEF CacheInit
  <2> QED BY <2>1, <2>2, <2>3, <2>4, <2>5, <2>6 DEF CacheTypeOK
<1>3. LockKept
  BY CacheAssumption DEF CacheInit, LockKept
<1>4. Active = {} /\ Evicting = {} /\ Fresh = {} /\ Victims = {} /\ Cached = {}
  BY <1>1 DEF CacheInit, Active, Evicting, Fresh, Victims, Cached, NoWindow
<1>5. Counted /\ Alone
  BY <1>4, FS_EmptySet DEF CacheInit, Counted, Alone
<1>6. CallKept /\ Sized /\ Known
  BY <1>1 DEF CacheInit, CallKept, Sized, Known, Searching, Holding, NoWindow
<1>7. Apart /\ WindowsAccounted
  BY <1>1, <1>4 DEF CacheInit, Apart, WindowsAccounted, NoWindow
<1>8. SingleUse
  <2>1. \A t \in Threads : Len(wants[t]) = 0
    BY <1>1 DEF CacheInit
  <2> QED BY <2>1 DEF SingleUse
<1> QED BY <1>2, <1>3, <1>5, <1>6, <1>7, <1>8 DEF IInv

LEMMA NextIInv == IInv /\ [CacheNext]_windowVars => IInv'
BY TypePreserved, LockPreserved, CountedPreserved, InCallPreserved, KnownPreserved, AlonePreserved,
   BooksPreserved, SingleUsePreserved DEF IInv, Books

(* The inductive invariant of the cache. *)
THEOREM Invariance == CacheSpec => []IInv
<1>1. CacheInit => IInv
  BY InitIInv
<1>2. IInv /\ [CacheNext]_windowVars => IInv'
  BY NextIInv
<1> QED BY <1>1, <1>2, PTL DEF CacheSpec

(* Every variable of the cache keeps its type. *)
THEOREM TypeCorrect == CacheSpec => []CacheTypeOK
<1>1. IInv => CacheTypeOK
  BY DEF IInv
<1> QED BY <1>1, Invariance, PTL

(* No window leaks and none is deregistered twice, unless a call enters      *)
(* while an eviction has the API lock dropped (reshard_cache.cc:228-252).    *)
THEOREM Accounted == CacheSpec => []WindowsAccounted
<1>1. IInv => WindowsAccounted
  BY DEF IInv
<1> QED BY <1>1, Invariance, PTL

(* The window a call was given stays registered while the call lasts, if the *)
(* call asked for one window and no call has entered during an eviction.     *)
THEOREM SingleWindowKept == CacheSpec => []SingleUse
<1>1. IInv => SingleUse
  BY DEF IInv
<1> QED BY <1>1, Invariance, PTL

(* The same for every call when all calls ask for one window, as all do but  *)
(* the user-window split calls, which ask for two.                           *)
THEOREM UsedKept ==
  ASSUME \A c \in Calls : Len(c) = 1
  PROVE  CacheSpec => []UsedUnlessRaced
<1> DEFINE OneEach == \A t \in Threads : pc[t] = "idle" \/ Len(wants[t]) = 1
<1>1. CacheInit => OneEach
  BY DEF CacheInit
<1>2. IInv /\ OneEach /\ [CacheNext]_windowVars => OneEach'
  <2> SUFFICES ASSUME IInv, OneEach, [CacheNext]_windowVars PROVE OneEach'
    OBVIOUS
  <2>1. ASSUME NEW t \in Threads, NEW c \in Calls, EnterCall(t, c) PROVE OneEach'
    BY <2>1 DEF EnterCall, Goto, IInv, CacheTypeOK
  <2>2. ASSUME NEW t \in Threads, LeaveCall(t) PROVE OneEach'
    BY <2>2 DEF LeaveCall, Goto, IInv, CacheTypeOK
  <2>3. CASE UNCHANGED Active
    <3>1. \A u \in Threads : pc'[u] = "idle" <=> pc[u] = "idle"
      BY <2>3 DEF Active
    <3>2. wants' = wants \/ (\E t \in Threads : LeaveCall(t) \/ \E c \in Calls : EnterCall(t, c))
      BY DEF CacheNext, CallProgress, Hit, Miss, Register, RegisterFails, InsertNew, InsertRetire, InsertEvict,
         Deregister, EvictReturn, OpenWindow, CloseWindow, Finalize, Replace, Inserted, windowVars, requestVars
    <3> QED BY <2>1, <2>2, <3>1, <3>2
  <2> QED BY <2>1, <2>2, <2>3, ActiveSteps DEF IInv
<1>3. IInv /\ OneEach => UsedUnlessRaced
  <2>1. \A f : f = <<>> => Range(f) = {}
    BY DEF Range
  <2> QED BY <2>1 DEF IInv, CallKept, SingleUse, UsedUnlessRaced, UsedWindowRegistered
<1> QED BY <1>1, <1>2, <1>3, Invariance, PTL DEF CacheSpec

(* An eviction starts with no other call in flight, so it spares the windows *)
(* that other calls have been given (m2nApiHasConcurrentCalls).              *)
THEOREM EvictionSpares == CacheSpec => EvictionSparesUsers
<1>1. IInv /\ [CacheNext]_windowVars =>
        [\A t, u \in Threads : /\ pc[t] # "evict" /\ pc'[t] = "evict" /\ u # t
           => Slot(nextIdx).window \notin Range(got[u])]_windowVars
  <2> SUFFICES ASSUME IInv, CacheNext, NEW t \in Threads, NEW u \in Threads,
                      pc[t] # "evict", pc'[t] = "evict", u # t
               PROVE  Slot(nextIdx).window \notin Range(got[u])
    OBVIOUS
  <2>1. InsertEvict(t)
    BY DEF CacheNext, CallProgress, EnterCall, Hit, Miss, Register, RegisterFails, InsertNew, InsertRetire,
       InsertEvict, Deregister, EvictReturn, OpenWindow, CloseWindow, LeaveCall, Finalize, Replace,
       Inserted, Obtain, Goto, requestVars, IInv, CacheTypeOK
  <2>2. Active = {t}
    BY <2>1, EvictsAlone DEF IInv
  <2>3. got[u] = <<>>
    BY <2>2 DEF Active, IInv, CallKept
  <2> QED BY <2>3 DEF Range
<1> QED BY <1>1, Invariance, PTL DEF CacheSpec, EvictionSparesUsers

-----------------------------------------------------------------------------
(* The handles and the runtime of src/nccl_m2n/src/m2n_init.cc.               *)

InTeardown == {"teardown", "window", "drained"}
Owning == {"using", "outside", "used", "release"}

(* The in-flight count of the API lock is the number of calls in flight. *)
FlightCount == inFlight = Cardinality(InCall)

(* The teardown of the runtime runs in the thread that holds gM2nRuntimeMutex *)
(* and in no other.                                                           *)
TeardownLocked ==
  /\ \A t \in Threads : runtimeLock = t <=> pc[t] \in InTeardown
  /\ runtime = "teardown" <=> runtimeLock # Free

(* A call that works on a handle has a reference to its state. *)
OwnerHasHandle == \A t \in Threads : pc[t] \in Owning => own[t] # None

RuntimeInv ==
  /\ TypeOK
  /\ FlightCount
  /\ TeardownLocked
  /\ OwnerHasHandle
  /\ HandleHasRuntime
  /\ CachesOfThisEpoch

(* The steps of a thread, calls included. *)
Step(t) ==
  \/ Progress(t) \/ ReshardUse(t)
  \/ Call(t, "Init", None)
  \/ \E h \in Handles, op \in {"Finalize", "Reshard"} : Call(t, op, h)

(* The steps that only move a call along. *)
Advance(t) ==
  \/ InitRejected(t) \/ ReshardRejected(t) \/ FinalizeUnknown(t)
  \/ ReshardOpenWindow(t) \/ ReshardCloseWindow(t) \/ ReshardDone(t)
  \/ TeardownOpenWindow(t) \/ TeardownCloseWindow(t)

-----------------------------------------------------------------------------
(* The initial state satisfies the invariant. *)
LEMMA InitRuntimeInv == Init => RuntimeInv
<1> SUFFICES ASSUME Init PROVE RuntimeInv
  OBVIOUS
<1>0. Cardinality(Threads) \in Nat
  BY RuntimeAssumption, FS_CardinalityType
<1>1. TypeOK
  <2>1. call \in [Threads -> [op : {"Init", "Finalize", "Reshard"}, handle : Handles \cup {None}]]
    BY DEF Init, NoCall
  <2>2. quarantine \in BOOLEAN
    BY DEF Init
  <2> QED BY <1>0, <2>1, <2>2, RuntimeAssumption DEF Init, TypeOK
<1>2. FlightCount
  BY FS_EmptySet DEF Init, FlightCount, InCall
<1>3. Live = {}
  BY DEF Init, Live, Owned
<1> QED BY <1>1, <1>2, <1>3, RuntimeAssumption DEF Init, RuntimeInv, TeardownLocked, InTeardown,
      OwnerHasHandle, Owning, HandleHasRuntime, CachesOfThisEpoch

(* A call is in flight from Enter to Leave; no other step changes the count. *)
LEMMA CountPreserved ==
  ASSUME TypeOK, FlightCount, NEW t \in Threads, Step(t)
  PROVE  FlightCount' /\ inFlight' \in 0 .. Cardinality(Threads)
<1>0. IsFiniteSet(InCall) /\ IsFiniteSet(InCall')
  BY RuntimeAssumption, FS_Subset DEF InCall
<1>1. FlightCount'
  <2>1. CASE Enter(t)
    <3>1. InCall' = InCall \cup {t} /\ t \notin InCall
      BY <2>1 DEF Enter, Goto, InCall, TypeOK
    <3> QED BY <1>0, <2>1, <3>1, FS_AddElement DEF FlightCount, Enter
  <2>2. CASE Leave(t)
    <3>1. InCall' = InCall \ {t} /\ t \in InCall
      BY <2>2 DEF Leave, Goto, InCall, TypeOK
    <3> QED BY <1>0, <2>2, <3>1, FS_RemoveElement DEF FlightCount, Leave
  <2>3. CASE Advance(t) \/ ReshardUse(t) \/ \E c \in Configs : InitHandle(t, c)
    <3>1. inFlight' = inFlight /\ InCall' = InCall
      BY <2>3 DEF Advance, InitRejected, ReshardRejected, FinalizeUnknown, ReshardOpenWindow,
         ReshardCloseWindow, ReshardDone, TeardownOpenWindow, TeardownCloseWindow, ReshardUse,
         InitHandle, Goto, InCall, TypeOK, callVars
    <3> QED BY <3>1 DEF FlightCount
  <2>4. CASE \/ ReshardAcquire(t) \/ FinalizeHandle(t) \/ Unreference(t)
             \/ DeleteState(t) \/ BeginTeardown(t) \/ EndTeardown(t)
    <3>1. inFlight' = inFlight /\ InCall' = InCall
      BY <2>4 DEF ReshardAcquire, FinalizeHandle, Unreference, DeleteState, BeginTeardown,
         EndTeardown, Goto, InCall, TypeOK
    <3> QED BY <3>1 DEF FlightCount
  <2>5. ASSUME NEW h \in Handles \cup {None}, NEW op \in {"Init", "Finalize", "Reshard"},
               Call(t, op, h)
        PROVE  FlightCount'
    <3>1. inFlight' = inFlight /\ InCall' = InCall
      BY <2>5 DEF Call, Goto, InCall, TypeOK
    <3> QED BY <3>1 DEF FlightCount
  <2> QED BY <2>1, <2>2, <2>3, <2>4, <2>5 DEF Step, Progress, Advance
<1>2. inFlight' \in 0 .. Cardinality(Threads)
  <2>1. InCall' \in SUBSET Threads
    BY DEF InCall
  <2>2. Cardinality(InCall') <= Cardinality(Threads)
    BY <2>1, RuntimeAssumption, FS_Subset
  <2>3. Cardinality(InCall') \in Nat /\ Cardinality(Threads) \in Nat
    BY <1>0, RuntimeAssumption, FS_CardinalityType
  <2> QED BY <1>1, <2>2, <2>3 DEF FlightCount
<1> QED BY <1>1, <1>2

(* A handle attaches to the runtime of the epoch, or to a new one. *)
LEMMA AttachType ==
  ASSUME TypeOK, NEW c \in Configs, AttachRuntime(c)
  PROVE  /\ runtime' = "alive" /\ epoch' \in Nat /\ cached' \in Nat
         /\ config' \in Configs \cup {None} /\ quarantine' \in BOOLEAN
<1>1. CASE runtime = "alive"
  BY <1>1 DEF TypeOK, AttachRuntime, epochVars
<1>2. CASE runtime # "alive"
  <2>1. /\ runtime' = "alive" /\ epoch' = epoch + 1 /\ config' = c
        /\ quarantine' = FALSE /\ cached' = cached
    BY <1>2 DEF AttachRuntime
  <2>2. quarantine' \in BOOLEAN
    BY <2>1
  <2> QED BY <2>1, <2>2 DEF TypeOK
<1> QED BY <1>1, <1>2

(* Types are preserved by every step. *)
LEMMA RuntimeTypePreserved ==
  ASSUME TypeOK, NEW t \in Threads, Step(t), inFlight' \in 0 .. Cardinality(Threads)
  PROVE  TypeOK'
<1>1. CASE Enter(t) \/ Leave(t)
  BY <1>1 DEF Enter, Leave, Goto, TypeOK, NoCall, handleVars, epochVars
<1>2. CASE Advance(t)
  BY <1>2 DEF Advance, InitRejected, ReshardRejected, FinalizeUnknown, ReshardOpenWindow,
     ReshardCloseWindow, ReshardDone, TeardownOpenWindow, TeardownCloseWindow, Goto, TypeOK,
     lockVars, handleVars, epochVars
<1>3. ASSUME NEW c \in Configs, InitHandle(t, c)
      PROVE  TypeOK'
  <2>1. nextId \in Handles /\ nextId' \in 1 .. MaxTokens + 1
    BY <1>3, RuntimeAssumption DEF InitHandle, TypeOK, Handles, Tokens
  <2> QED BY <1>3, <2>1, AttachType DEF InitHandle, Goto, TypeOK, lockVars
<1>4. CASE ReshardAcquire(t)
  <2>1. call[t].handle \in Handles /\ Default \in Handles
    BY <1>4 DEF ReshardAcquire, TypeOK, Handles
  <2>2. CASE call[t].handle \in table
    BY <1>4, <2>1, <2>2 DEF ReshardAcquire, Goto, TypeOK, lockVars, epochVars
  <2>3. CASE call[t].handle \notin table
    BY <1>4, <2>1, <2>3, AttachType, RuntimeAssumption DEF ReshardAcquire, Goto, TypeOK, lockVars
  <2> QED BY <2>2, <2>3
<1>5. CASE ReshardUse(t)
  BY <1>5 DEF ReshardUse, TypeOK, lockVars, callVars, handleVars
<1>6. CASE FinalizeHandle(t) \/ Unreference(t) \/ DeleteState(t)
  BY <1>6 DEF FinalizeHandle, Unreference, DeleteState, Goto, TypeOK, lockVars, epochVars
<1>7. CASE BeginTeardown(t) \/ EndTeardown(t)
  <2>1. quarantine' \in BOOLEAN
    <3>1. quarantine \in BOOLEAN
      BY DEF TypeOK
    <3>2. quarantine' \in {quarantine, TRUE}
      BY <1>7 DEF BeginTeardown, EndTeardown
    <3> QED BY <3>1, <3>2
  <2>2. CASE BeginTeardown(t)
    BY <2>1, <2>2 DEF BeginTeardown, Goto, TypeOK
  <2>3. CASE EndTeardown(t)
    BY <2>1, <2>3 DEF EndTeardown, Goto, TypeOK, handleVars
  <2> QED BY <1>7, <2>2, <2>3
<1>8. ASSUME NEW h \in Handles \cup {None}, NEW op \in {"Init", "Finalize", "Reshard"},
             Call(t, op, h)
      PROVE  TypeOK'
  BY <1>8, RuntimeAssumption DEF Call, Goto, TypeOK, lockVars, handleVars, epochVars
<1> QED BY <1>1, <1>2, <1>3, <1>4, <1>5, <1>6, <1>7, <1>8 DEF Step, Progress, Advance

-----------------------------------------------------------------------------
(* While the runtime is torn down its lock keeps every attachment out. *)
LEMMA TeardownPreserved ==
  ASSUME RuntimeInv, NEW t \in Threads, Step(t)
  PROVE  TeardownLocked'
<1> USE DEF RuntimeInv, InTeardown
<1>1. CASE Enter(t) \/ Leave(t) \/ Advance(t)
  BY <1>1 DEF Enter, Leave, Advance, InitRejected, ReshardRejected, FinalizeUnknown,
     ReshardOpenWindow, ReshardCloseWindow, ReshardDone, TeardownOpenWindow,
     TeardownCloseWindow, Goto, TypeOK, TeardownLocked, lockVars, epochVars
<1>2. CASE ReshardAcquire(t) \/ \E c \in Configs : InitHandle(t, c)
  <2>1. pc[t] = "entered" /\ runtimeLock' = runtimeLock
        /\ \E p \in {"using", "leave", "release"} : pc' = [pc EXCEPT ![t] = p]
    BY <1>2 DEF ReshardAcquire, InitHandle, Goto, lockVars
  <2>2. runtime' = runtime \/ (runtimeLock = Free /\ runtime' = "alive")
    BY <1>2 DEF ReshardAcquire, InitHandle, AttachRuntime, epochVars
  <2> QED BY <2>1, <2>2 DEF TypeOK, TeardownLocked
<1>3. CASE ReshardUse(t) \/ FinalizeHandle(t) \/ Unreference(t) \/ DeleteState(t)
  BY <1>3 DEF ReshardUse, FinalizeHandle, Unreference, DeleteState, Goto, TypeOK,
     TeardownLocked, lockVars, callVars, epochVars
<1>4. CASE BeginTeardown(t)
  BY <1>4, RuntimeAssumption DEF BeginTeardown, Goto, TypeOK, TeardownLocked
<1>5. CASE EndTeardown(t)
  BY <1>5, RuntimeAssumption DEF EndTeardown, Goto, TypeOK, TeardownLocked
<1>6. ASSUME NEW h \in Handles \cup {None}, NEW op \in {"Init", "Finalize", "Reshard"},
             Call(t, op, h)
      PROVE  TeardownLocked'
  BY <1>6 DEF Call, Goto, TypeOK, TeardownLocked, lockVars, epochVars
<1> QED BY <1>1, <1>2, <1>3, <1>4, <1>5, <1>6 DEF Step, Progress, Advance

(* A call owns its handle from the moment it resolves. *)
LEMMA OwnerPreserved ==
  ASSUME RuntimeInv, NEW t \in Threads, Step(t)
  PROVE  OwnerHasHandle'
<1> USE DEF RuntimeInv, Owning
<1>1. CASE Enter(t) \/ Leave(t) \/ Advance(t)
  BY <1>1 DEF Enter, Leave, Advance, InitRejected, ReshardRejected, FinalizeUnknown,
     ReshardOpenWindow, ReshardCloseWindow, ReshardDone, TeardownOpenWindow,
     TeardownCloseWindow, Goto, TypeOK, OwnerHasHandle, handleVars
<1>2. CASE \/ ReshardAcquire(t) \/ FinalizeHandle(t) \/ \E c \in Configs : InitHandle(t, c)
  <2>1. None \notin Handles /\ Default \in Handles
    BY RuntimeAssumption DEF Handles
  <2>2. CASE \E c \in Configs : InitHandle(t, c)
    <3>1. nextId \in Handles
      BY <2>2 DEF InitHandle, TypeOK, Handles, Tokens
    <3> QED BY <2>1, <2>2, <3>1 DEF InitHandle, Goto, TypeOK, OwnerHasHandle
  <2>3. CASE ReshardAcquire(t) \/ FinalizeHandle(t)
    <3>1. call[t].handle # None
      BY <2>1, <2>3 DEF ReshardAcquire, FinalizeHandle, TypeOK
    <3> QED BY <2>3, <3>1 DEF ReshardAcquire, FinalizeHandle, Goto, TypeOK, OwnerHasHandle
  <2> QED BY <1>2, <2>2, <2>3
<1>3. CASE \/ ReshardUse(t) \/ Unreference(t) \/ DeleteState(t)
           \/ BeginTeardown(t) \/ EndTeardown(t)
  BY <1>3 DEF ReshardUse, Unreference, DeleteState, BeginTeardown, EndTeardown, Goto, TypeOK,
     OwnerHasHandle, callVars, handleVars
<1>4. ASSUME NEW h \in Handles \cup {None}, NEW op \in {"Init", "Finalize", "Reshard"},
             Call(t, op, h)
      PROVE  OwnerHasHandle'
  BY <1>4 DEF Call, Goto, TypeOK, OwnerHasHandle, handleVars
<1> QED BY <1>1, <1>2, <1>3, <1>4 DEF Step, Progress, Advance

(* The last state to go leaves no handle that resolves and no owner. *)
LEMMA TeardownEmpties ==
  ASSUME RuntimeInv, NEW t \in Threads, BeginTeardown(t)
  PROVE  Live' = {}
<1>1. table \subseteq Live /\ own[t] \notin table
  BY DEF BeginTeardown, Live, LastReference
<1>2. table = {}
  BY <1>1 DEF BeginTeardown
<1>3. \A u \in Threads \ {t} : own[u] = None
  BY DEF BeginTeardown, LastReference, Live, Owned
<1>4. own'[t] = None /\ table' = table /\ \A u \in Threads \ {t} : own'[u] = own[u]
  BY DEF BeginTeardown, RuntimeInv, TypeOK
<1> QED BY <1>2, <1>3, <1>4 DEF Live, Owned

(* How a step touches the epoch: not at all, by using the caches of the live  *)
(* runtime, by attaching, or by one end of a teardown.                        *)
LEMMA EpochStep ==
  ASSUME NEW t \in Threads, Step(t)
  PROVE  \/ UNCHANGED epochVars /\ Live' \subseteq Live
         \/ ReshardUse(t)
         \/ UNCHANGED epochVars /\ runtime = "alive"
         \/ \E c \in Configs : AttachRuntime(c)
         \/ BeginTeardown(t)
         \/ EndTeardown(t)
<1>1. CASE Enter(t) \/ Leave(t) \/ Advance(t)
  BY <1>1 DEF Enter, Leave, Advance, InitRejected, ReshardRejected, FinalizeUnknown,
     ReshardOpenWindow, ReshardCloseWindow, ReshardDone, TeardownOpenWindow,
     TeardownCloseWindow, Live, Owned, handleVars
<1>2. CASE \E c \in Configs : InitHandle(t, c)
  BY <1>2 DEF InitHandle
<1>3. CASE ReshardAcquire(t)
  <2>1. CASE call[t].handle \in table
    <3>1. UNCHANGED epochVars /\ table' = table
          /\ own' = [own EXCEPT ![t] = call[t].handle]
      BY <1>3, <2>1 DEF ReshardAcquire
    <3>2. Live' \subseteq Live
      BY <2>1, <3>1 DEF Live, Owned
    <3> QED BY <3>1, <3>2
  <2>2. CASE call[t].handle \notin table
    BY <1>3, <2>2, RuntimeAssumption DEF ReshardAcquire
  <2> QED BY <2>1, <2>2
<1>4. CASE FinalizeHandle(t)
  <2>1. UNCHANGED epochVars /\ table' = table \ {call[t].handle} /\ call[t].handle \in table
        /\ own' = [own EXCEPT ![t] = call[t].handle]
    BY <1>4 DEF FinalizeHandle
  <2>2. Live' \subseteq Live
    BY <2>1 DEF Live, Owned
  <2> QED BY <2>1, <2>2
<1>5. CASE Unreference(t) \/ DeleteState(t)
  <2>1. UNCHANGED epochVars /\ table' = table /\ own' = [own EXCEPT ![t] = None]
    BY <1>5 DEF Unreference, DeleteState
  <2>2. Live' \subseteq Live
    BY <2>1 DEF Live, Owned
  <2> QED BY <2>1, <2>2
<1>6. ASSUME NEW h \in Handles \cup {None}, NEW op \in {"Init", "Finalize", "Reshard"},
             Call(t, op, h)
      PROVE  UNCHANGED epochVars /\ Live' \subseteq Live
  BY <1>6 DEF Call, Live, Owned, handleVars
<1> QED BY <1>1, <1>2, <1>3, <1>4, <1>5, <1>6 DEF Step, Progress, Advance

(* A live handle state has a live runtime, and the caches are of its epoch. *)
LEMMA EpochPreserved ==
  ASSUME RuntimeInv, NEW t \in Threads, Step(t)
  PROVE  HandleHasRuntime' /\ CachesOfThisEpoch'
<1> USE DEF RuntimeInv
<1>1. CASE UNCHANGED epochVars /\ (Live' \subseteq Live \/ runtime = "alive")
  BY <1>1 DEF HandleHasRuntime, CachesOfThisEpoch, epochVars
<1>2. CASE ReshardUse(t)
  <2>1. own[t] # None /\ own[t] \in Live
    BY <1>2 DEF ReshardUse, OwnerHasHandle, Owning, Live, Owned
  <2>2. runtime = "alive"
    BY <2>1 DEF HandleHasRuntime
  <2> QED BY <1>2, <2>2 DEF ReshardUse, HandleHasRuntime, CachesOfThisEpoch
<1>3. CASE \E c \in Configs : AttachRuntime(c)
  <2>1. runtime # "teardown"
    BY <1>3 DEF AttachRuntime, TeardownLocked
  <2> QED BY <1>3, <2>1 DEF AttachRuntime, TypeOK, HandleHasRuntime, CachesOfThisEpoch, epochVars
<1>4. CASE BeginTeardown(t)
  BY <1>4, TeardownEmpties DEF BeginTeardown, HandleHasRuntime, CachesOfThisEpoch
<1>5. CASE EndTeardown(t)
  <2>1. pc[t] \in InTeardown /\ runtime = "teardown"
    BY <1>5, RuntimeAssumption DEF EndTeardown, TeardownLocked, InTeardown
  <2>2. Live = {} /\ Live' = Live
    BY <1>5, <2>1 DEF EndTeardown, HandleHasRuntime, Live, Owned, handleVars
  <2> QED BY <1>5, <2>2 DEF EndTeardown, HandleHasRuntime, CachesOfThisEpoch
<1> QED BY <1>1, <1>2, <1>3, <1>4, <1>5, EpochStep

-----------------------------------------------------------------------------
(* The invariant is inductive. *)
LEMMA NextRuntimeInv == RuntimeInv /\ [Next]_vars => RuntimeInv'
<1> SUFFICES ASSUME RuntimeInv, [Next]_vars PROVE RuntimeInv'
  OBVIOUS
<1>1. ASSUME NEW t \in Threads, Step(t)
      PROVE  RuntimeInv'
  <2>1. FlightCount' /\ inFlight' \in 0 .. Cardinality(Threads)
    BY <1>1, CountPreserved DEF RuntimeInv
  <2> QED BY <1>1, <2>1, RuntimeTypePreserved, TeardownPreserved, OwnerPreserved, EpochPreserved DEF RuntimeInv
<1>2. CASE UNCHANGED vars
  BY <1>2 DEF vars, lockVars, callVars, handleVars, epochVars, RuntimeInv, TypeOK, FlightCount,
     InCall, TeardownLocked, OwnerHasHandle, HandleHasRuntime, CachesOfThisEpoch, Live, Owned
<1> QED BY <1>1, <1>2 DEF Next, Step

(* The invariant holds in every reachable state of the library. *)
THEOREM RuntimeInvariant == Spec => []RuntimeInv
BY InitRuntimeInv, NextRuntimeInv, PTL DEF Spec

(* Every variable keeps its type, the in-flight count below the number of     *)
(* host threads.                                                              *)
THEOREM RuntimeType == Spec => []TypeOK
<1>1. RuntimeInv => TypeOK
  BY DEF RuntimeInv
<1> QED BY <1>1, RuntimeInvariant, PTL

(* No handle, new or old, ever refers to a runtime that is torn down: a racing*)
(* Init waits out the whole teardown (m2n_init.cc:63-71, 116-132).            *)
THEOREM HandleRuntimeCorrect == Spec => []HandleHasRuntime
<1>1. RuntimeInv => HandleHasRuntime
  BY DEF RuntimeInv
<1> QED BY <1>1, RuntimeInvariant, PTL

(* No resource of an earlier epoch is found in the global caches of a later   *)
(* one, a quarantined epoch included (m2n_init.cc:100-109).                   *)
THEOREM CachesCorrect == Spec => []CachesOfThisEpoch
<1>1. RuntimeInv => CachesOfThisEpoch
  BY DEF RuntimeInv
<1> QED BY <1>1, RuntimeInvariant, PTL

(* The configuration in force never changes under a live handle. *)
THEOREM ConfigCorrect == Spec => ConfigFrozen
<1>1. ASSUME RuntimeInv, NEW t \in Threads, Step(t), config' # config
      PROVE  Live = {}
  <2>1. CASE \E c \in Configs : AttachRuntime(c)
    BY <1>1, <2>1 DEF AttachRuntime, RuntimeInv, HandleHasRuntime, epochVars
  <2>2. CASE EndTeardown(t)
    BY <1>1, <2>2, RuntimeAssumption DEF EndTeardown, RuntimeInv, TeardownLocked, InTeardown,
       HandleHasRuntime
  <2>3. CASE UNCHANGED epochVars \/ ReshardUse(t) \/ BeginTeardown(t)
    BY <1>1, <2>3 DEF epochVars, ReshardUse, BeginTeardown
  <2> QED BY <1>1, <2>1, <2>2, <2>3, EpochStep
<1>2. RuntimeInv /\ [Next]_vars => [config' # config => Live = {}]_vars
  BY <1>1 DEF Next, Step
<1> QED BY <1>2, RuntimeInvariant, PTL DEF Spec, ConfigFrozen
================================================================================
