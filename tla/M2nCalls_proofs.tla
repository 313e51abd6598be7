--------------------------- MODULE M2nCalls_proofs ---------------------------
(***************************************************************************)
(* What the calls of a process hold, how their kernels are ordered and     *)
(* what groups report, proved for any number of threads, any               *)
(* communicators, any scripts of calls and groups, any capacities and any  *)
(* failures.                                                               *)
(*                                                                         *)
(* IInv.  A call's error returns differ by what it has obtained: none      *)
(* before the work stream, the staging buffer or not, a reserved DevComm   *)
(* slot or not.  IInv says what a call holds at each place: until the      *)
(* buffer is obtained it is still to be obtained (BufferDue), and a slot   *)
(* is reserved only where the call creates a DevComm (DevsHeld).           *)
(*                                                                         *)
(* OInv.  Whoever holds a buffer, a DevComm's mutex or a lane is on a      *)
(* stream that runs behind all kernels that used it, and so is an idle     *)
(* one's event (Covers); every valid half of a cached plan was built for   *)
(* the shape of its slot, and a call knows its slot (PlanInv).  Both need  *)
(* that a call is an entry of the scripts (Named).                         *)
(*                                                                         *)
(* Reports.  What a group is executed as names each of its entries once,   *)
(* bucket by bucket, but those of a bucket that is refused (UnitsRight);   *)
(* while it is executed, what it has issued comes before what is left      *)
(* (RunRight).  Buckets, bins and units are recursive functions: the       *)
(* inductions over them go by a least counterexample (Least).              *)
(***************************************************************************)
EXTENDS M2nCalls, FiniteSetTheorems, SequenceTheorems, WellFoundedInduction, TLAPS

Places == {"user", "obtain", "registering", "creating", "mutex", "take", "submitting"}
Whats == {"buffer", "plan", "window", "probe", "dev"}

IsDev(d) ==
  d = [state |-> d.state, key |-> d.key, holder |-> d.holder,
       poisoned |-> d.poisoned, event |-> d.event]
IsBuffer(b) ==
  b = [allocated |-> b.allocated, reserved |-> b.reserved, poisoned |-> b.poisoned,
       event |-> b.event, plans |-> b.plans]
IsHeld(h) ==
  h = [buffer |-> h.buffer, missed |-> h.missed, plan |-> h.plan, dev |-> h.dev, uses |-> h.uses]

Has(s, what) == \E i \in DOMAIN s : s[i].do = what

(* A probe comes first; one buffer, then at most one plan. *)
Orderly(s) ==
  /\ s \in Seq({s[i] : i \in DOMAIN s})
  /\ \A i, j \in DOMAIN s : s[i].do = "buffer" /\ s[j].do = "buffer" => i = j
  /\ \A i, j \in DOMAIN s : s[i].do = "plan" /\ s[j].do = "plan" => i = j
  /\ \A i, j \in DOMAIN s : s[i].do = "buffer" /\ s[j].do = "plan" => i < j
  /\ \A i \in DOMAIN s : s[i].do = "probe" => i = 1

TypeOK ==
  /\ "free" \notin Threads
  /\ apiLock \in Threads \cup {"free"}
  /\ pc \in [Threads -> Places]
  /\ call = [t \in Threads |-> call[t]]
  /\ todo = [t \in Threads |-> todo[t]] /\ \A t \in Threads : Orderly(todo[t])
  /\ held = [t \in Threads |-> held[t]]
  /\ \A t \in Threads : IsHeld(held[t]) /\ held[t].buffer \in BOOLEAN
  /\ devs = [i \in Slots |-> devs[i]] /\ \A i \in Slots : IsDev(devs[i])
  /\ buffers = [c \in Comms |-> buffers[c]]
  /\ \A c \in Comms : IsBuffer(buffers[c]) /\ buffers[c].reserved \in BOOLEAN

(* Who holds the API lock: a call between the places that drop it. *)
LockHeld ==
  /\ apiLock # "free" => pc[apiLock] \in {"obtain", "take"}
  /\ \A t \in Threads : pc[t] = "obtain" => apiLock = t

(* A call that creates a DevComm has its slot; the mutexes belong to calls.  *)
DevsHeld ==
  \A i \in Slots :
    /\ devs[i].holder # "free" => devs[i].holder \in Calling
    /\ devs[i].state = "reserved" =>
         devs[i].holder \in Threads /\ pc[devs[i].holder] = "creating"

(* A DevComm a call has found stays; a call that creates one has a slot. *)
InUse(t) ==
  /\ pc[t] \in {"mutex", "take"} => held[t].dev \in Slots /\ devs[held[t].dev].state = "valid"
  /\ pc[t] = "creating" => \E i \in Slots : devs[i].state = "reserved" /\ devs[i].holder = t
DevsInUse == \A t \in Threads : InUse(t)

(* What a call is obtaining. *)
Obtaining ==
  \A t \in Threads :
    /\ pc[t] = "submitting" => todo[t] = <<>>
    /\ pc[t] = "registering" => todo[t] # <<>> /\ Head(todo[t]).do = "window"
    /\ pc[t] \in {"creating", "mutex", "take"} => todo[t] # <<>> /\ Head(todo[t]).do \in {"probe", "dev"}

(* A call has the buffer or has yet to obtain it, once. *)
Due(t, what) == Has(todo[t], what)
BufferDue ==
  \A t \in Threads :
    /\ pc[t] = "user" => held[t] = Nothing
    /\ (pc[t] # "user" /\ setting.algo # "PACK") => (held[t].buffer <=> ~Due(t, "buffer"))

(* A buffer is reserved while one call has it. *)
BuffersHeld ==
  \A c \in Comms :
    /\ \A t \in Threads : held[t].buffer /\ Comm(t) = c => buffers[c].reserved
    /\ \A t, u \in Threads :
         held[t].buffer /\ held[u].buffer /\ Comm(t) = c /\ Comm(u) = c => t = u
    /\ buffers[c].reserved => \E t \in Threads : held[t].buffer /\ Comm(t) = c

(* A PACK call obtains nothing here. *)
PackHolds ==
  setting.algo = "PACK" =>
    /\ \A t \in Threads : pc[t] \in {"user", "obtain"} /\ todo[t] = <<>> /\ ~held[t].buffer
    /\ \A i \in Slots : devs[i].holder = "free"

IInv == TypeOK /\ LockHeld /\ DevsHeld /\ DevsInUse /\ Obtaining /\ BufferDue /\ BuffersHeld /\ PackHolds

-----------------------------------------------------------------------------
LEMMA Longer ==
  ASSUME NEW S, NEW s \in Seq(S), NEW t \in Seq(S), Orderly(s),
         \A i \in DOMAIN t : t[i].do \notin {"buffer", "plan", "probe"}
  PROVE  /\ s \o t \in Seq(S) /\ Orderly(s \o t)
         /\ Has(s, "buffer") => Has(s \o t, "buffer")
         /\ Has(s, "plan") => Has(s \o t, "plan")
<1> DEFINE u == s \o t
<1>1. /\ u \in Seq(S) /\ Len(u) = Len(s) + Len(t)
      /\ \A i \in 1 .. Len(s) + Len(t) : u[i] = IF i <= Len(s) THEN s[i] ELSE t[i - Len(s)]
  BY ConcatProperties
<1>2. DOMAIN s = 1 .. Len(s) /\ DOMAIN t = 1 .. Len(t) /\ Len(s) \in Nat /\ Len(t) \in Nat
  OBVIOUS
<1> HIDE DEF u
<1>3. DOMAIN u = 1 .. Len(s) + Len(t) /\ u \in Seq({u[i] : i \in DOMAIN u})
  BY <1>1, <1>2
<1>4. \A i \in DOMAIN u : /\ i \in DOMAIN s => u[i] = s[i]
                          /\ i \notin DOMAIN s => u[i].do \notin {"buffer", "plan", "probe"}
  <2> SUFFICES ASSUME NEW i \in DOMAIN u
               PROVE  /\ i \in DOMAIN s => u[i] = s[i]
                      /\ i \notin DOMAIN s => u[i].do \notin {"buffer", "plan", "probe"}
    OBVIOUS
  <2>1. CASE i <= Len(s)
    BY <1>1, <1>2, <1>3, <2>1
  <2>2. CASE ~(i <= Len(s))
    <3>1. i - Len(s) \in DOMAIN t /\ u[i] = t[i - Len(s)] /\ i \notin DOMAIN s
      BY <1>1, <1>2, <1>3, <2>2
    <3> QED BY <3>1
  <2> QED BY <2>1, <2>2
<1>5. DOMAIN s \subseteq DOMAIN u
  BY <1>2, <1>3
<1>6. Orderly(u)
  BY <1>3, <1>4, <1>5 DEF Orderly
<1>7. ASSUME NEW what, Has(s, what) PROVE Has(u, what)
  BY <1>4, <1>5, <1>7 DEF Has
<1> QED BY <1>1, <1>6, <1>7 DEF u

LEMMA NeedsOrderly ==
  ASSUME NEW e
  PROVE  /\ Orderly(Needs(e))
         /\ setting.algo = "PACK" => Needs(e) = <<>>
         /\ setting.algo # "PACK" => Has(Needs(e), "buffer")
         /\ setting.algo \notin {"PACK", "DIRECT"} => Has(Needs(e), "plan")
<1>1. CASE setting.algo = "PACK"
  <2>1. Needs(e) = <<>>
    BY <1>1 DEF Needs, Splits
  <2>2. Orderly(<<>>)
    BY DEF Orderly
  <2> QED BY <1>1, <2>1, <2>2
<1>2. CASE setting.algo # "PACK" /\ Splits(e)
  <2> DEFINE first == <<Get("buffer", <<>>), Get("plan", <<>>), Get("window", CommA(e))>>
             next == <<Get("window", CommB)>>
             S == {Get("buffer", <<>>), Get("plan", <<>>), Get("window", CommA(e)), Get("window", CommB),
                   Get("dev", CommA(e)), Get("dev", CommB)}
  <2>1. Needs(e) = first \o DevComm(CommA(e)) \o next \o DevComm(CommB)
    BY <1>2 DEF Needs, Splits
  <2>2. first \in Seq(S) /\ Orderly(first) /\ Has(first, "buffer") /\ Has(first, "plan")
    <3>1. first \in Seq(S)
      BY DEF Get
    <3>2. Orderly(first)
      BY DEF Orderly, Get
    <3>3. Has(first, "buffer")
      BY DEF Has, Get
    <3>4. Has(first, "plan")
      BY DEF Has, Get
    <3> QED BY <3>1, <3>2, <3>3, <3>4
  <2>3. /\ next \in Seq(S) /\ DevComm(CommA(e)) \in Seq(S) /\ DevComm(CommB) \in Seq(S)
        /\ \A i \in DOMAIN next : next[i].do \notin {"buffer", "plan", "probe"}
        /\ \A i \in DOMAIN DevComm(CommA(e)) : DevComm(CommA(e))[i].do \notin {"buffer", "plan", "probe"}
        /\ \A i \in DOMAIN DevComm(CommB) : DevComm(CommB)[i].do \notin {"buffer", "plan", "probe"}
    <3>1. next \in Seq(S) /\ \A i \in DOMAIN next : next[i].do \notin {"buffer", "plan", "probe"}
      BY DEF Get
    <3>2. DevComm(CommA(e)) \in Seq(S) /\ DevComm(CommB) \in Seq(S)
      <4>1. Get("dev", CommA(e)) \in S /\ Get("dev", CommB) \in S
        OBVIOUS
      <4> HIDE DEF S
      <4> QED BY <4>1 DEF DevComm
    <3>3. ASSUME NEW k, NEW i \in DOMAIN DevComm(k) PROVE DevComm(k)[i].do \notin {"buffer", "plan", "probe"}
      BY <3>3 DEF DevComm, Get
    <3> QED BY <3>1, <3>2, <3>3
  <2> HIDE DEF first, next, S
  <2>4. /\ first \o DevComm(CommA(e)) \in Seq(S) /\ Orderly(first \o DevComm(CommA(e)))
        /\ Has(first \o DevComm(CommA(e)), "buffer") /\ Has(first \o DevComm(CommA(e)), "plan")
    BY <2>2, <2>3, Longer
  <2>5. /\ first \o DevComm(CommA(e)) \o next \in Seq(S) /\ Orderly(first \o DevComm(CommA(e)) \o next)
        /\ Has(first \o DevComm(CommA(e)) \o next, "buffer")
        /\ Has(first \o DevComm(CommA(e)) \o next, "plan")
    BY <2>3, <2>4, Longer
  <2> DEFINE most == first \o DevComm(CommA(e)) \o next
  <2> HIDE DEF most
  <2>6. /\ Orderly(most \o DevComm(CommB))
        /\ Has(most \o DevComm(CommB), "buffer") /\ Has(most \o DevComm(CommB), "plan")
    <3>1. most \in Seq(S) /\ Orderly(most) /\ Has(most, "buffer") /\ Has(most, "plan")
      BY <2>5 DEF most
    <3> QED BY <3>1, <2>3, Longer
  <2>7. Needs(e) = most \o DevComm(CommB)
    BY <2>1 DEF most
  <2> QED BY <1>2, <2>6, <2>7
<1>3. CASE setting.algo = "DIRECT" /\ ~Splits(e)
  <2> DEFINE s == <<Get("probe", <<e.comm, "probe">>), Get("buffer", <<>>), Get("window", <<e.comm, "all">>),
                    Get("dev", <<e.comm, e.shape>>)>>
  <2>1. Needs(e) = s
    BY <1>3 DEF Needs
  <2>2. Orderly(s)
    BY DEF Orderly, Get
  <2>3. Has(s, "buffer")
    BY DEF Has, Get
  <2> QED BY <1>3, <2>1, <2>2, <2>3
<1>4. CASE setting.algo \notin {"PACK", "DIRECT"} /\ ~Splits(e)
  <2> DEFINE first == <<Get("probe", <<e.comm, "probe">>), Get("buffer", <<>>), Get("window", <<e.comm, "all">>),
                        Get("plan", <<>>)>>
             dev == DevComm(<<e.comm, "main">>)
             S == {Get("probe", <<e.comm, "probe">>), Get("buffer", <<>>), Get("window", <<e.comm, "all">>),
                   Get("plan", <<>>), Get("dev", <<e.comm, "main">>)}
  <2>1. Needs(e) = first \o dev
    BY <1>4 DEF Needs
  <2>2. first \in Seq(S) /\ Orderly(first) /\ Has(first, "buffer") /\ Has(first, "plan")
    <3>1. first \in Seq(S)
      BY DEF Get
    <3>2. Orderly(first)
      BY DEF Orderly, Get
    <3>3. Has(first, "buffer")
      BY DEF Has, Get
    <3>4. Has(first, "plan")
      BY DEF Has, Get
    <3> QED BY <3>1, <3>2, <3>3, <3>4
  <2>3. dev \in Seq(S) /\ \A i \in DOMAIN dev : dev[i].do \notin {"buffer", "plan", "probe"}
    <3>1. Get("dev", <<e.comm, "main">>) \in S
      OBVIOUS
    <3>2. \A i \in DOMAIN dev : dev[i].do \notin {"buffer", "plan", "probe"}
      BY DEF DevComm, Get
    <3> HIDE DEF S
    <3> QED BY <3>1, <3>2 DEF DevComm
  <2> HIDE DEF first, dev, S
  <2>4. Orderly(Needs(e)) /\ Has(Needs(e), "buffer") /\ Has(Needs(e), "plan")
    BY <2>1, <2>2, <2>3, Longer
  <2> QED BY <1>4, <2>4
<1> QED BY <1>1, <1>2, <1>3, <1>4 DEF Splits

LEMMA TailOrderly ==
  ASSUME NEW s, Orderly(s), s # <<>>
  PROVE  /\ Orderly(Tail(s))
         /\ \A what : Has(s, what) <=> Head(s).do = what \/ Has(Tail(s), what)
         /\ Head(s).do = "buffer" => ~Has(Tail(s), "buffer")
         /\ Head(s).do = "plan" => ~Has(Tail(s), "buffer") /\ ~Has(Tail(s), "plan")
         /\ ~Has(Tail(s), "probe")
<1> DEFINE u == Tail(s)
<1>1. /\ DOMAIN s = 1 .. Len(s) /\ Len(s) \in Nat /\ Len(s) >= 1 /\ Head(s) = s[1]
      /\ u \in Seq({s[i] : i \in DOMAIN s}) /\ Len(u) = Len(s) - 1
      /\ \A i \in 1 .. Len(s) - 1 : u[i] = s[i + 1]
  BY DEF Orderly
<1>2. DOMAIN u = 1 .. Len(s) - 1
  BY <1>1
<1> HIDE DEF u
<1>3. \A i \in DOMAIN u : i + 1 \in DOMAIN s /\ u[i] = s[i + 1]
  BY <1>1, <1>2
<1>4. \A i \in DOMAIN s : i = 1 \/ (i - 1 \in DOMAIN u /\ u[i - 1] = s[i])
  BY <1>1, <1>2
<1>5. u \in Seq({u[i] : i \in DOMAIN u})
  <2>1. DOMAIN u = 1 .. Len(u) /\ Len(u) \in Nat /\ u = [i \in 1 .. Len(u) |-> u[i]]
    BY <1>1
  <2> DEFINE T == {u[i] : i \in DOMAIN u}
  <2>2. \A i \in 1 .. Len(u) : u[i] \in T
    BY <2>1
  <2> HIDE DEF T
  <2>3. u \in Seq(T)
    BY <2>1, <2>2
  <2> QED BY <2>3 DEF T
<1>6. Orderly(u)
  <2>1. ASSUME NEW i \in DOMAIN u, NEW j \in DOMAIN u
        PROVE  /\ u[i].do = "buffer" /\ u[j].do = "buffer" => i = j
               /\ u[i].do = "plan" /\ u[j].do = "plan" => i = j
               /\ u[i].do = "buffer" /\ u[j].do = "plan" => i < j
               /\ u[i].do = "probe" => i = 1
    <3>1. i + 1 \in DOMAIN s /\ u[i] = s[i + 1] /\ j + 1 \in DOMAIN s /\ u[j] = s[j + 1]
      BY <1>3, <2>1
    <3>2. i \in Int /\ j \in Int /\ i >= 1
      BY <1>1, <1>2
    <3> QED BY <3>1, <3>2 DEF Orderly
  <2> QED BY <1>5, <2>1 DEF Orderly
<1>7. 1 \in DOMAIN s /\ DOMAIN u \subseteq Int /\ \A i \in DOMAIN u : i >= 1
  BY <1>1, <1>2
<1>8. ASSUME NEW what
      PROVE  Has(s, what) <=> Head(s).do = what \/ Has(u, what)
  BY <1>1, <1>3, <1>4, <1>7 DEF Has
<1>9. Head(s).do = "buffer" => ~Has(u, "buffer")
  <2> SUFFICES ASSUME NEW i \in DOMAIN u, Head(s).do = "buffer", u[i].do = "buffer" PROVE FALSE
    BY DEF Has
  <2>1. i + 1 \in DOMAIN s /\ s[i + 1].do = "buffer" /\ s[1].do = "buffer" /\ 1 \in DOMAIN s
    BY <1>1, <1>3, <1>7
  <2>2. i + 1 = 1
    BY <2>1 DEF Orderly
  <2> QED BY <1>7, <2>2
<1>10. Head(s).do = "plan" => ~Has(u, "buffer") /\ ~Has(u, "plan")
  <2> SUFFICES ASSUME NEW i \in DOMAIN u, Head(s).do = "plan" PROVE u[i].do \notin {"buffer", "plan"}
    BY DEF Has
  <2>1. i + 1 \in DOMAIN s /\ u[i] = s[i + 1] /\ s[1].do = "plan" /\ 1 \in DOMAIN s /\ i + 1 # 1 /\ ~(i + 1 < 1)
    BY <1>1, <1>3, <1>7
  <2> QED BY <2>1 DEF Orderly
<1>11. ~Has(u, "probe")
  BY <1>1, <1>3, <1>7 DEF Orderly, Has
<1> QED BY <1>6, <1>8, <1>9, <1>10, <1>11 DEF u

-----------------------------------------------------------------------------
LEMMA InitIInv ==
  ASSUME "free" \notin Threads, CallsInit
  PROVE  IInv
<1>1. TypeOK
  <2>1. Orderly(<<>>)
    BY DEF Orderly
  <2>2. IsHeld(Nothing) /\ Nothing.buffer \in BOOLEAN
    BY DEF IsHeld, Nothing
  <2>3. IsDev(FreeSlot)
    BY DEF IsDev, FreeSlot
  <2>4. IsBuffer(NoBuffer) /\ NoBuffer.reserved \in BOOLEAN
    BY DEF IsBuffer, NoBuffer
  <2> QED BY <2>1, <2>2, <2>3, <2>4 DEF CallsInit, TypeOK, Places
<1>2. LockHeld /\ DevsHeld /\ Obtaining /\ BufferDue /\ BuffersHeld /\ PackHolds
  BY DEF CallsInit, LockHeld, DevsHeld, Obtaining, BufferDue, BuffersHeld, PackHolds, FreeSlot, NoBuffer, Nothing, Due, Has
<1>3. DevsInUse
  BY DEF CallsInit, DevsInUse, InUse
<1> QED BY <1>1, <1>2, <1>3 DEF IInv

(* What every way out of a call does: what it held is released. *)
DevsLeave(t) ==
  /\ devs' = [i \in Slots |-> devs'[i]]
  /\ \A i \in Slots :
       /\ IsDev(devs'[i])
       /\ devs'[i].holder = IF devs[i].holder = t THEN "free" ELSE devs[i].holder
       /\ devs'[i].state = IF devs[i].state = "reserved" /\ devs[i].holder = t THEN "free" ELSE devs[i].state
BuffersLeave(t) ==
  /\ buffers' = [c \in Comms |-> buffers'[c]]
  /\ \A c \in Comms :
       /\ IsBuffer(buffers'[c])
       /\ buffers'[c].reserved = IF held[t].buffer /\ Comm(t) = c THEN FALSE ELSE buffers[c].reserved
Leaves(t) ==
  /\ apiLock \in {"free", t} /\ apiLock' = "free"
  /\ pc' = [pc EXCEPT ![t] = "user"]
  /\ call' = [call EXCEPT ![t] = NoCall]
  /\ todo' = [todo EXCEPT ![t] = <<>>]
  /\ held' = [held EXCEPT ![t] = Nothing]
  /\ DevsLeave(t) /\ BuffersLeave(t)
  /\ setting' = setting /\ script' = script

LEMMA LeavesIInv ==
  ASSUME IInv, NEW t \in Threads, Leaves(t)
  PROVE  IInv'
<1> USE DEF IInv
<1>0. Comms' = Comms /\ Slots' = Slots
  BY DEF Leaves, DevsLeave, BuffersLeave, Comms, Entries, Slots
<1>1. TypeOK'
  <2>1. Orderly(<<>>)
    BY DEF Orderly
  <2>2. IsHeld(Nothing) /\ Nothing.buffer \in BOOLEAN
    BY DEF IsHeld, Nothing
  <2>3. todo' = [u \in Threads |-> todo'[u]] /\ \A u \in Threads : Orderly(todo'[u])
    BY <2>1 DEF Leaves, DevsLeave, BuffersLeave, TypeOK
  <2>4. held' = [u \in Threads |-> held'[u]] /\ \A u \in Threads : IsHeld(held'[u]) /\ held'[u].buffer \in BOOLEAN
    BY <2>2 DEF Leaves, DevsLeave, BuffersLeave, TypeOK
  <2>5. apiLock' \in Threads \cup {"free"} /\ pc' \in [Threads -> Places] /\ call' = [u \in Threads |-> call'[u]]
    BY DEF Leaves, DevsLeave, BuffersLeave, TypeOK, Places
  <2>6. devs' = [i \in Slots |-> devs'[i]] /\ \A i \in Slots : IsDev(devs'[i])
    BY DEF Leaves, DevsLeave, BuffersLeave
  <2>7. /\ buffers' = [c \in Comms |-> buffers'[c]]
        /\ \A c \in Comms : IsBuffer(buffers'[c]) /\ buffers'[c].reserved \in BOOLEAN
    BY DEF Leaves, DevsLeave, BuffersLeave, TypeOK
  <2> QED BY <1>0, <2>3, <2>4, <2>5, <2>6, <2>7 DEF TypeOK
<1>2. LockHeld'
  BY DEF Leaves, DevsLeave, BuffersLeave, LockHeld, TypeOK
<1>3. DevsHeld'
  BY <1>0 DEF Leaves, DevsLeave, BuffersLeave, DevsHeld, TypeOK, Calling
<1>4. BufferDue'
  BY DEF Leaves, DevsLeave, BuffersLeave, BufferDue, TypeOK, Due
<1>5. BuffersHeld'
  <2> SUFFICES ASSUME NEW c \in Comms
      PROVE  /\ \A u \in Threads : held'[u].buffer /\ Comm(u)' = c => buffers'[c].reserved
             /\ \A u, v \in Threads :
                  held'[u].buffer /\ held'[v].buffer /\ Comm(u)' = c /\ Comm(v)' = c => u = v
             /\ buffers'[c].reserved => \E u \in Threads : held'[u].buffer /\ Comm(u)' = c
    BY <1>0 DEF BuffersHeld
  <2>1. ~held'[t].buffer
    BY DEF Leaves, DevsLeave, BuffersLeave, TypeOK, Nothing
  <2>2. \A u \in Threads : u # t => held'[u] = held[u] /\ Comm(u)' = Comm(u)
    BY DEF Leaves, DevsLeave, BuffersLeave, TypeOK, Comm
  <2>3. buffers'[c].reserved = IF held[t].buffer /\ Comm(t) = c THEN FALSE ELSE buffers[c].reserved
    BY DEF Leaves, DevsLeave, BuffersLeave
  <2>4. /\ \A u \in Threads : held[u].buffer /\ Comm(u) = c => buffers[c].reserved
        /\ \A u, v \in Threads : held[u].buffer /\ held[v].buffer /\ Comm(u) = c /\ Comm(v) = c => u = v
        /\ buffers[c].reserved => \E u \in Threads : held[u].buffer /\ Comm(u) = c
    BY DEF BuffersHeld
  <2>5. \A u \in Threads : held'[u].buffer /\ Comm(u)' = c => u # t /\ held[u].buffer /\ Comm(u) = c
    BY <2>1, <2>2
  <2>6. \A u \in Threads : held'[u].buffer /\ Comm(u)' = c => buffers'[c].reserved
    BY <2>3, <2>4, <2>5
  <2>7. buffers'[c].reserved => \E u \in Threads : held'[u].buffer /\ Comm(u)' = c
    <3>1. CASE held[t].buffer /\ Comm(t) = c
      BY <2>3, <3>1
    <3>2. CASE ~(held[t].buffer /\ Comm(t) = c)
      BY <2>2, <2>3, <2>4, <3>2
    <3> QED BY <3>1, <3>2
  <2> QED BY <2>4, <2>5, <2>6, <2>7
<1>6. PackHolds'
  BY <1>0 DEF Leaves, DevsLeave, BuffersLeave, PackHolds, TypeOK, Nothing
<1>7. Obtaining'
  BY DEF Leaves, DevsLeave, BuffersLeave, Obtaining, TypeOK
<1>8. DevsInUse'
  <2> SUFFICES ASSUME NEW u \in Threads PROVE InUse(u)'
    BY DEF DevsInUse
  <2>1. CASE u = t
    BY <2>1 DEF Leaves, TypeOK, InUse
  <2>2. CASE u # t
    <3>1. InUse(u) /\ pc'[u] = pc[u] /\ held'[u] = held[u]
      BY <2>2 DEF Leaves, TypeOK, DevsInUse
    <3>2. \A i \in Slots :
            /\ devs[i].state = "valid" => devs'[i].state = "valid"
            /\ devs[i].holder = u => devs'[i].holder = u /\ devs'[i].state = devs[i].state
      BY <2>2 DEF Leaves, DevsLeave
    <3> QED BY <1>0, <3>1, <3>2 DEF InUse
  <2> QED BY <2>1, <2>2
<1> QED BY <1>1, <1>2, <1>3, <1>4, <1>5, <1>6, <1>7, <1>8

(* The error returns.  Where no slot is reserved the mutexes are released. *)
LEMMA ReleaseShape ==
  ASSUME IInv, NEW t \in Threads, pc[t] # "creating", devs' = Release(t, devs)
  PROVE  DevsLeave(t)
BY DEF IInv, TypeOK, DevsHeld, Release, IsDev, DevsLeave

LEMMA UnreservedShape ==
  ASSUME IInv, NEW t \in Threads, devs' = Release(t, Unreserved(t))
  PROVE  DevsLeave(t)
<1>1. ASSUME NEW i \in Slots
      PROVE  /\ IsDev(devs'[i])
             /\ devs'[i].holder = IF devs[i].holder = t THEN "free" ELSE devs[i].holder
             /\ devs'[i].state = IF devs[i].state = "reserved" /\ devs[i].holder = t THEN "free" ELSE devs[i].state
  <2>1. CASE i \in Mine(t)
    <3>1. Unreserved(t)[i] = FreeSlot /\ devs[i].holder = t /\ t # "free" /\ devs[i].state = "reserved"
      BY <2>1 DEF Unreserved, Mine, IInv, TypeOK
    <3>2. devs'[i] = FreeSlot
      BY <3>1 DEF Release, FreeSlot
    <3> QED BY <3>1, <3>2 DEF FreeSlot, IsDev
  <2>2. CASE i \notin Mine(t)
    <3>1. Unreserved(t)[i] = devs[i] /\ (devs[i].state = "reserved" => devs[i].holder # t)
      BY <2>2 DEF Unreserved, Mine
    <3>2. devs'[i] = IF devs[i].holder = t THEN [devs[i] EXCEPT !.holder = "free"] ELSE devs[i]
      BY <3>1 DEF Release
    <3>3. IsDev(devs[i])
      BY DEF IInv, TypeOK
    <3> QED BY <3>1, <3>2, <3>3 DEF IsDev
  <2> QED BY <2>1, <2>2
<1> QED BY <1>1 DEF Release, DevsLeave

LEMMA FailLeaves ==
  ASSUME IInv, NEW t \in Threads, pc[t] # "user", apiLock \in {"free", t},
         \/ pc[t] # "creating" /\ Fail(t, devs)
         \/ Fail(t, Unreserved(t))
  PROVE  IInv'
<1>1. DevsLeave(t)
  BY ReleaseShape, UnreservedShape DEF Fail
<1>2. BuffersLeave(t)
  <2>1. CASE held[t].buffer
    <3>1. buffers' = [buffers EXCEPT ![Comm(t)].reserved = FALSE, ![Comm(t)].event = tail[Work(t)]]
      BY <2>1 DEF Fail
    <3>2. buffers = [c \in Comms |-> buffers[c]]
      BY DEF IInv, TypeOK
    <3>3. buffers' = [c \in Comms |-> buffers'[c]]
      BY <3>1, <3>2
    <3>4. ASSUME NEW c \in Comms
          PROVE  buffers'[c] = IF Comm(t) = c THEN [buffers[c] EXCEPT !.reserved = FALSE, !.event = tail[Work(t)]]
                                               ELSE buffers[c]
      BY <3>1, <3>2
    <3>5. \A c \in Comms : IsBuffer(buffers[c])
      BY DEF IInv, TypeOK
    <3>6. ASSUME NEW c \in Comms
          PROVE  /\ IsBuffer(buffers'[c])
                 /\ buffers'[c].reserved = IF Comm(t) = c THEN FALSE ELSE buffers[c].reserved
      BY <3>4, <3>5 DEF IsBuffer
    <3> QED BY <2>1, <3>3, <3>6 DEF BuffersLeave
  <2>2. CASE ~held[t].buffer
    BY <2>2 DEF Fail, IInv, TypeOK, BuffersLeave
  <2> QED BY <2>1, <2>2
<1>3. Leaves(t)
  BY <1>1, <1>2 DEF Fail, Return, Goto, Leaves, choices
<1> QED BY <1>3, LeavesIInv

(* The launch, whatever part of it fails. *)
LEMMA EnqueuesShape ==
  ASSUME IInv, NEW t \in Threads, pc[t] # "user", pc[t] # "creating", todo[t] = <<>>,
         setting.algo # "PACK",
         NEW tails, NEW launched, NEW fault, Enqueues(t, tails, launched, fault)
  PROVE  DevsLeave(t) /\ BuffersLeave(t)
<1>1. held[t].buffer
  BY DEF IInv, BufferDue, Due, Has
<1>2. devs' = [i \in Slots |-> devs'[i]]
  BY DEF Enqueues
<1>3. ASSUME NEW i \in Slots
      PROVE  /\ IsDev(devs'[i])
             /\ devs'[i].holder = IF devs[i].holder = t THEN "free" ELSE devs[i].holder
             /\ devs'[i].state = IF devs[i].state = "reserved" /\ devs[i].holder = t THEN "free" ELSE devs[i].state
  <2>1. IsDev(devs[i]) /\ (devs[i].state = "reserved" => devs[i].holder # t)
    BY DEF IInv, TypeOK, DevsHeld
  <2> DEFINE x == IF launched THEN tails[Work(t)] \cup {Len(kernels) + 1} ELSE tails[Work(t)]
             d == IF <<"dev", i>> \in Recorded(t, fault) THEN [devs[i] EXCEPT !.event = x] ELSE devs[i]
             p == IF <<"dev", i>> \in Poisoned(t, fault) THEN [d EXCEPT !.poisoned = TRUE] ELSE d
  <2>2. devs'[i] = IF p.holder = t THEN [p EXCEPT !.holder = "free"] ELSE p
    BY DEF Enqueues
  <2> QED BY <2>1, <2>2 DEF IsDev
<1>4. buffers' = [c \in Comms |-> buffers'[c]]
  BY DEF Enqueues, IInv, TypeOK
<1>5. ASSUME NEW c \in Comms
      PROVE  /\ IsBuffer(buffers'[c])
             /\ buffers'[c].reserved = IF Comm(t) = c THEN FALSE ELSE buffers[c].reserved
  <2>1. IsBuffer(buffers[c]) /\ buffers = [d \in Comms |-> buffers[d]]
    BY DEF IInv, TypeOK
  <2>2. CASE c # Comm(t)
    BY <2>1, <2>2 DEF Enqueues
  <2>3. CASE c = Comm(t)
    <3>1. PICK x, y, z : buffers'[c] = [buffers[c] EXCEPT !.reserved = FALSE, !.event = x, !.poisoned = y, !.plans = z]
      BY <2>1, <2>3 DEF Enqueues
    <3> QED BY <2>1, <2>3, <3>1 DEF IsBuffer
  <2> QED BY <2>2, <2>3
<1> QED BY <1>1, <1>2, <1>3, <1>4, <1>5 DEF DevsLeave, BuffersLeave

LEMMA LaunchLeaves ==
  ASSUME IInv, NEW t \in Threads, Launch(t) \/ CloseHostRma(t)
  PROVE  IInv'
<1>1. /\ pc[t] \in {"obtain", "submitting"} /\ todo[t] = <<>> /\ setting.algo # "PACK"
      /\ apiLock \in {"free", t} /\ apiLock' = "free" /\ UNCHANGED choices
  BY DEF Launch, CloseHostRma, Ready, IInv, LockHeld, Obtaining, PackHolds
<1>2. Return(t, TRUE) \/ Return(t, FALSE)
  BY DEF Launch, CloseHostRma
<1>3. DevsLeave(t) /\ BuffersLeave(t)
  <2>1. CASE Launch(t)
    <3>1. \/ Enqueues(t, Prepared(t), TRUE, NoFault)
          \/ Enqueues(t, Prepared(t), FALSE, NoFault)
          \/ \E f \in FaultsOf(t) : Enqueues(t, Prepared(t), TRUE, f)
      BY <2>1 DEF Launch
    <3> QED BY <1>1, <3>1, EnqueuesShape
  <2>2. CASE CloseHostRma(t)
    <3>1. \/ Enqueues(t, tail, TRUE, NoFault)
          \/ Enqueues(t, tail, FALSE, NoFault)
          \/ \E f \in FaultsOf(t) : Enqueues(t, tail, TRUE, f)
      BY <2>2 DEF CloseHostRma
    <3> QED BY <1>1, <3>1, EnqueuesShape
  <2> QED BY <2>1, <2>2
<1>4. Leaves(t)
  BY <1>1, <1>2, <1>3 DEF Return, Goto, Leaves, choices
<1> QED BY <1>4, LeavesIInv

-----------------------------------------------------------------------------
(* What a step within a call does that neither obtains nor returns a buffer. *)
DevsStay(t) ==
  /\ devs' = [i \in Slots |-> devs'[i]]
  /\ \A i \in Slots :
       /\ IsDev(devs'[i])
       /\ devs'[i].holder # devs[i].holder => devs'[i].holder \in {"free", t}
       /\ devs'[i].state = "reserved" =>
            \/ devs'[i].holder = t /\ pc'[t] = "creating"
            \/ devs[i].state = "reserved" /\ devs'[i].holder = devs[i].holder /\ devs[i].holder # t
       /\ devs[i].state = "valid" => devs'[i].state = "valid"
       /\ devs[i].state = "reserved" /\ devs[i].holder # t =>
            devs'[i].state = "reserved" /\ devs'[i].holder = devs[i].holder
BuffersStay ==
  /\ buffers' = [c \in Comms |-> buffers'[c]]
  /\ \A c \in Comms : IsBuffer(buffers'[c]) /\ buffers'[c].reserved = buffers[c].reserved
HeldStays(t) ==
  held' = [held EXCEPT ![t] = held'[t]] /\ IsHeld(held'[t]) /\ held'[t].buffer = held[t].buffer
TodoStays(t) ==
  /\ todo' = [todo EXCEPT ![t] = todo'[t]]
  /\ \/ todo'[t] = todo[t]
     \/ todo[t] # <<>> /\ Head(todo[t]).do # "buffer" /\ todo'[t] = Tail(todo[t])
PlaceStays(t) ==
  /\ pc[t] # "user" /\ pc'[t] \in Places \ {"user"} /\ pc' = [pc EXCEPT ![t] = pc'[t]]
  /\ apiLock' # apiLock => {apiLock, apiLock'} \subseteq {"free", t}
  /\ apiLock' = t => pc'[t] \in {"obtain", "take"}
  /\ pc'[t] = "obtain" => apiLock' = t
  /\ pc'[t] = "submitting" => todo'[t] = <<>>
  /\ pc'[t] = "registering" => todo'[t] # <<>> /\ Head(todo'[t]).do = "window"
  /\ pc'[t] \in {"creating", "mutex", "take"} =>
       todo'[t] # <<>> /\ Head(todo'[t]).do \in {"probe", "dev"}
Stays(t) ==
  /\ PlaceStays(t) /\ TodoStays(t) /\ HeldStays(t) /\ DevsStay(t) /\ BuffersStay /\ InUse(t)'
  /\ call' = call /\ setting.algo # "PACK" /\ setting' = setting /\ script' = script

LEMMA StaysIInv ==
  ASSUME IInv, NEW t \in Threads, Stays(t)
  PROVE  IInv'
<1>0. Comms' = Comms /\ Slots' = Slots
  BY DEF Stays, PlaceStays, TodoStays, HeldStays, DevsStay, BuffersStay, Comms, Entries, Slots
<1>8. Orderly(todo'[t]) /\ (Due(t, "buffer")' <=> Due(t, "buffer"))
  <2>1. Orderly(todo[t])
    BY DEF IInv, TypeOK
  <2>2. CASE todo'[t] = todo[t]
    BY <2>1, <2>2 DEF Due
  <2>3. CASE todo[t] # <<>> /\ Head(todo[t]).do # "buffer" /\ todo'[t] = Tail(todo[t])
    <3>1. /\ Orderly(Tail(todo[t]))
          /\ Has(todo[t], "buffer") <=> Head(todo[t]).do = "buffer" \/ Has(Tail(todo[t]), "buffer")
      BY <2>1, <2>3, TailOrderly
    <3> QED BY <2>3, <3>1 DEF Due
  <2> QED BY <2>2, <2>3 DEF Stays, PlaceStays, TodoStays, HeldStays, DevsStay, BuffersStay
<1>1. TypeOK'
  <2>1. todo' = [u \in Threads |-> todo'[u]] /\ \A u \in Threads : Orderly(todo'[u])
    <3>1. Orderly(todo'[t])
      BY <1>8
    <3> QED BY <3>1 DEF Stays, PlaceStays, TodoStays, HeldStays, DevsStay, BuffersStay, IInv, TypeOK
  <2>2. held' = [u \in Threads |-> held'[u]] /\ \A u \in Threads : IsHeld(held'[u]) /\ held'[u].buffer \in BOOLEAN
    BY DEF Stays, PlaceStays, TodoStays, HeldStays, DevsStay, BuffersStay, IInv, TypeOK
  <2>3. /\ apiLock' \in Threads \cup {"free"} /\ call' = [u \in Threads |-> call'[u]]
        /\ pc' \in [Threads -> Places]
    BY DEF Stays, PlaceStays, TodoStays, HeldStays, DevsStay, BuffersStay, IInv, TypeOK
  <2>4. /\ buffers' = [c \in Comms |-> buffers'[c]]
        /\ \A c \in Comms : IsBuffer(buffers'[c]) /\ buffers'[c].reserved \in BOOLEAN
    BY DEF Stays, PlaceStays, TodoStays, HeldStays, DevsStay, BuffersStay, IInv, TypeOK
  <2>5. /\ devs' = [i \in Slots |-> devs'[i]] /\ \A i \in Slots : IsDev(devs'[i])
        /\ "free" \notin Threads
    BY DEF Stays, PlaceStays, TodoStays, HeldStays, DevsStay, BuffersStay, IInv, TypeOK
  <2> QED BY <1>0, <2>1, <2>2, <2>3, <2>4, <2>5 DEF TypeOK
<1>2. LockHeld'
  BY DEF Stays, PlaceStays, TodoStays, HeldStays, DevsStay, BuffersStay, LockHeld, IInv, TypeOK
<1>3. DevsHeld'
  <2> SUFFICES ASSUME NEW i \in Slots
      PROVE  /\ devs'[i].holder # "free" => devs'[i].holder \in Threads /\ pc'[devs'[i].holder] # "user"
             /\ devs'[i].state = "reserved" => devs'[i].holder \in Threads /\ pc'[devs'[i].holder] = "creating"
    BY <1>0 DEF DevsHeld, Calling
  <2>1. /\ devs[i].holder # "free" => devs[i].holder \in Threads /\ pc[devs[i].holder] # "user"
        /\ devs[i].state = "reserved" => devs[i].holder \in Threads /\ pc[devs[i].holder] = "creating"
    BY DEF IInv, DevsHeld, Calling
  <2>2. \A u \in Threads : u # t => pc'[u] = pc[u]
    BY DEF Stays, PlaceStays, TodoStays, HeldStays, DevsStay, BuffersStay, IInv, TypeOK
  <2> QED BY <2>1, <2>2 DEF Stays, PlaceStays, TodoStays, HeldStays, DevsStay, BuffersStay, IInv, TypeOK
<1>4. Obtaining'
  <2>1. \A u \in Threads : u # t => pc'[u] = pc[u] /\ todo'[u] = todo[u]
    BY DEF Stays, PlaceStays, TodoStays, HeldStays, DevsStay, BuffersStay, IInv, TypeOK
  <2> QED BY <2>1 DEF Stays, PlaceStays, TodoStays, HeldStays, DevsStay, BuffersStay, Obtaining, IInv
<1>5. BufferDue'
  <2>1. ASSUME NEW u \in Threads, u # t
        PROVE  /\ pc'[u] = pc[u] /\ held'[u] = held[u]
               /\ Due(u, "buffer")' <=> Due(u, "buffer")
    BY <2>1 DEF Stays, PlaceStays, TodoStays, HeldStays, DevsStay, BuffersStay, IInv, TypeOK, Due
  <2>2. pc[t] # "user" /\ pc'[t] # "user" /\ held'[t].buffer = held[t].buffer /\ setting' = setting
    BY DEF Stays, PlaceStays, TodoStays, HeldStays, DevsStay, BuffersStay
  <2> QED BY <1>8, <2>1, <2>2 DEF BufferDue, IInv
<1>6. BuffersHeld'
  <2>1. \A u \in Threads : held'[u].buffer = held[u].buffer /\ Comm(u)' = Comm(u)
    BY DEF Stays, PlaceStays, TodoStays, HeldStays, DevsStay, BuffersStay, IInv, TypeOK, Comm
  <2> QED BY <1>0, <2>1 DEF Stays, PlaceStays, TodoStays, HeldStays, DevsStay, BuffersStay, BuffersHeld, IInv
<1>7. PackHolds'
  BY DEF Stays, PlaceStays, TodoStays, HeldStays, DevsStay, BuffersStay, PackHolds
<1>9. DevsInUse'
  <2> SUFFICES ASSUME NEW u \in Threads PROVE InUse(u)'
    BY DEF DevsInUse
  <2>1. CASE u = t
    BY <2>1 DEF Stays
  <2>2. CASE u # t
    <3>1. InUse(u) /\ pc'[u] = pc[u] /\ held'[u] = held[u]
      BY <2>2 DEF Stays, PlaceStays, HeldStays, IInv, TypeOK, DevsInUse
    <3>2. \A i \in Slots :
            /\ devs[i].state = "valid" => devs'[i].state = "valid"
            /\ devs[i].state = "reserved" /\ devs[i].holder = u => devs'[i].holder = u /\ devs'[i].state = "reserved"
      BY <2>2 DEF Stays, DevsStay
    <3> QED BY <1>0, <3>1, <3>2 DEF InUse
  <2> QED BY <2>1, <2>2
<1> QED BY <1>1, <1>2, <1>3, <1>4, <1>5, <1>6, <1>7, <1>9 DEF IInv

(* Before a call obtains a thing. *)
LEMMA WantsFacts ==
  ASSUME IInv, NEW t \in Threads, NEW S, Wants(t, S)
  PROVE  /\ pc[t] = "obtain" /\ apiLock = t /\ t # "free" /\ setting.algo # "PACK"
         /\ todo[t] # <<>> /\ Head(todo[t]).do \in S
BY DEF Wants, IInv, LockHeld, PackHolds, TypeOK

LEMMA DevsKept ==
  ASSUME IInv, NEW t \in Threads, pc[t] # "creating", devs' = devs
  PROVE  DevsStay(t)
BY DEF IInv, TypeOK, DevsHeld, DevsStay

LEMMA BuffersKept ==
  ASSUME IInv, buffers' = buffers
  PROVE  BuffersStay
BY DEF IInv, TypeOK, BuffersStay

LEMMA HeldKept ==
  ASSUME IInv, NEW t \in Threads, held' = held
  PROVE  HeldStays(t)
BY DEF IInv, TypeOK, HeldStays

LEMMA TodoKept ==
  ASSUME IInv, NEW t \in Threads, todo' = todo
  PROVE  TodoStays(t)
BY DEF IInv, TypeOK, TodoStays

LEMMA TodoTail ==
  ASSUME IInv, NEW t \in Threads, Obtained(t), todo[t] # <<>>, Head(todo[t]).do # "buffer"
  PROVE  TodoStays(t)
BY DEF IInv, TypeOK, TodoStays, Obtained

LEMMA NotUsing ==
  ASSUME NEW t, pc'[t] \notin {"mutex", "take", "creating"}
  PROVE  InUse(t)'
BY DEF InUse

LEMMA WindowStays ==
  ASSUME IInv, NEW t \in Threads, TakeWindow(t) \/ OpenRegistration(t) \/ Register(t)
  PROVE  Stays(t)
<1>1. CASE TakeWindow(t)
  <2>1. Wants(t, {"window"}) /\ Obtained(t) /\ UNCHANGED <<setting, script, pc, call, held, apiLock, buffers, devs>>
    BY <1>1 DEF TakeWindow, choices, cacheVars
  <2>2. /\ pc[t] = "obtain" /\ apiLock = t /\ t # "free" /\ setting.algo # "PACK"
        /\ todo[t] # <<>> /\ Head(todo[t]).do = "window"
    BY <2>1, WantsFacts
  <2>3. PlaceStays(t)
    BY <2>1, <2>2 DEF PlaceStays, IInv, TypeOK, Places
  <2>4. InUse(t)'
    BY <2>1, <2>2, NotUsing
  <2> QED BY <2>1, <2>2, <2>3, <2>4, TodoTail, HeldKept, DevsKept, BuffersKept DEF Stays
<1>2. CASE OpenRegistration(t)
  <2>1. Wants(t, {"window"}) /\ UNCHANGED <<setting, script, todo, call, held, buffers, devs>>
    BY <1>2 DEF OpenRegistration, choices, cacheVars
  <2>2. /\ pc[t] = "obtain" /\ apiLock = t /\ t # "free" /\ setting.algo # "PACK"
        /\ todo[t] # <<>> /\ Head(todo[t]).do = "window"
    BY <2>1, WantsFacts
  <2>3. PlaceStays(t)
    BY <1>2, <2>1, <2>2 DEF OpenRegistration, Goto, PlaceStays, IInv, TypeOK, Places
  <2>4. InUse(t)'
    BY <1>2, <2>1, <2>2, NotUsing DEF OpenRegistration, Goto, IInv, TypeOK
  <2> QED BY <2>1, <2>2, <2>3, <2>4, TodoKept, HeldKept, DevsKept, BuffersKept DEF Stays
<1>3. CASE Register(t)
  <2>1. Obtained(t) /\ UNCHANGED <<setting, script, call, held, buffers, devs>>
    BY <1>3 DEF Register, choices
  <2>2. /\ pc[t] = "registering" /\ apiLock = "free"
        /\ todo[t] # <<>> /\ Head(todo[t]).do = "window" /\ setting.algo # "PACK"
    BY <1>3 DEF Register, IInv, Obtaining, PackHolds
  <2>3. PlaceStays(t)
    BY <1>3, <2>1, <2>2 DEF Register, Goto, PlaceStays, IInv, TypeOK, Places
  <2>4. InUse(t)'
    BY <1>3, <2>1, <2>2, NotUsing DEF Register, Goto, IInv, TypeOK
  <2> QED BY <2>1, <2>2, <2>3, <2>4, TodoTail, HeldKept, DevsKept, BuffersKept DEF Stays
<1> QED BY <1>1, <1>2, <1>3

LEMMA PlanStays ==
  ASSUME IInv, NEW t \in Threads, TakePlan(t)
  PROVE  Stays(t)
<1>1. Wants(t, {"plan"}) /\ Obtained(t) /\ UNCHANGED <<setting, script, pc, call, apiLock, devs>>
  BY DEF TakePlan, choices
<1>2. /\ pc[t] = "obtain" /\ apiLock = t /\ t # "free" /\ setting.algo # "PACK"
      /\ todo[t] # <<>> /\ Head(todo[t]).do = "plan"
  BY <1>1, WantsFacts
<1>3. HeldStays(t)
  <2>1. held' = held \/ held' = [held EXCEPT ![t].missed = TRUE]
    BY DEF TakePlan
  <2> QED BY <2>1 DEF HeldStays, IInv, TypeOK, IsHeld
<1>4. BuffersStay
  <2>1. CASE buffers' = buffers
    BY <2>1, BuffersKept
  <2>2. CASE buffers' # buffers
    <3> DEFINE q == Invalidate(Entry(t).plans[held[t].plan], call[t].shape)
    <3>1. buffers' = [buffers EXCEPT ![Comm(t)].plans[held[t].plan] = q]
      BY <2>2 DEF TakePlan
    <3> HIDE DEF q
    <3>2. buffers = [c \in Comms |-> buffers[c]] /\ \A c \in Comms : IsBuffer(buffers[c])
      BY DEF IInv, TypeOK
    <3>3. buffers' = [c \in Comms |-> buffers'[c]]
      BY <3>1, <3>2
    <3>4. ASSUME NEW c \in Comms, c # Comm(t)
          PROVE  buffers'[c] = buffers[c]
      BY <3>1, <3>2, <3>4
    <3>5. ASSUME NEW c \in Comms, c = Comm(t)
          PROVE  buffers'[c] = [buffers[c] EXCEPT !.plans = [@ EXCEPT ![held[t].plan] = q]]
      BY <3>1, <3>2, <3>5
    <3>6. ASSUME NEW c \in Comms
          PROVE  IsBuffer(buffers'[c]) /\ buffers'[c].reserved = buffers[c].reserved
      BY <3>2, <3>4, <3>5 DEF IsBuffer
    <3> QED BY <3>3, <3>6 DEF BuffersStay
  <2> QED BY <2>1, <2>2
<1>5. PlaceStays(t)
  BY <1>1, <1>2 DEF PlaceStays, IInv, TypeOK, Places
<1>6. InUse(t)'
  BY <1>1, <1>2, NotUsing
<1> QED BY <1>1, <1>2, <1>3, <1>4, <1>5, <1>6, TodoTail, DevsKept DEF Stays

LEMMA HostRmaStays ==
  ASSUME IInv, NEW t \in Threads, OpenHostRma(t)
  PROVE  Stays(t)
<1>1. /\ pc[t] = "obtain" /\ apiLock = t /\ todo[t] = <<>> /\ setting.algo # "PACK" /\ t # "free"
  BY DEF OpenHostRma, Ready, IInv, LockHeld, TypeOK
<1>2. UNCHANGED <<setting, script, todo, call, held, buffers, devs>>
  BY DEF OpenHostRma, choices, cacheVars
<1>3. PlaceStays(t)
  BY <1>1, <1>2 DEF OpenHostRma, Goto, PlaceStays, IInv, TypeOK, Places
<1>4. InUse(t)'
  BY <1>1, <1>2, NotUsing DEF OpenHostRma, Goto, IInv, TypeOK
<1> QED BY <1>1, <1>2, <1>3, <1>4, TodoKept, HeldKept, DevsKept, BuffersKept DEF Stays

(* The first of a set of slots is one of them. *)
LEMMA MinMember ==
  ASSUME NEW S \in SUBSET Nat, IsFiniteSet(S), S # {}
  PROVE  Min(S) \in S
<1> DEFINE UpTo(i) == {j \in S : j <= i}
           T == {UpTo(i) : i \in S}
<1>1. T \subseteq FiniteSubsetsOf(S) /\ T # {}
  <2>1. ASSUME NEW i \in S PROVE UpTo(i) \in FiniteSubsetsOf(S)
    <3>1. UpTo(i) \in SUBSET S
      OBVIOUS
    <3>2. IsFiniteSet(UpTo(i))
      BY <3>1, FS_Subset
    <3> QED BY <3>1, <3>2 DEF FiniteSubsetsOf
  <2> QED BY <2>1
<1>2. PICK X \in T : \A Y \in T : ~(<<Y, X>> \in StrictSubsetOrdering(S))
  <2> HIDE DEF T
  <2> QED BY <1>1, FS_StrictSubsetOrderingWellFounded, WFMin
<1>3. PICK i \in S : X = UpTo(i)
  OBVIOUS
<1>4. ASSUME NEW k \in S, k < i PROVE FALSE
  <2>1. UpTo(k) \subseteq UpTo(i) /\ i \notin UpTo(k) /\ i \in UpTo(i)
    <3>1. i \in Nat /\ k \in Nat
      OBVIOUS
    <3>2. \A j \in S : j <= k => j <= i
      BY <1>4, <3>1
    <3>3. ~(i <= k) /\ i <= i
      BY <1>4, <3>1
    <3> QED BY <3>2, <3>3
  <2>2. UpTo(k) \in SUBSET S /\ UpTo(i) \in SUBSET S
    OBVIOUS
  <2>3. <<UpTo(k), UpTo(i)>> \in StrictSubsetOrdering(S)
    BY <2>1, <2>2, Zenon DEF StrictSubsetOrdering
  <2> QED BY <1>2, <1>3, <2>3
<1>5. \A k \in S : i <= k
  BY <1>4
<1> QED BY <1>5 DEF Min

LEMMA FirstSlot ==
  ASSUME DevCommSlots \in Nat, NEW S \in SUBSET Slots, S # {}
  PROVE  Min(S) \in S
<1>1. IsFiniteSet(Slots) /\ S \in SUBSET Nat
  BY FS_Interval DEF Slots
<1>2. IsFiniteSet(S)
  BY <1>1, FS_Subset
<1> QED BY <1>1, <1>2, MinMember

(* A slot reserved, filled, or released with an event. *)
LEMMA SlotSet ==
  ASSUME NEW e, IsDev(e), NEW x, NEW y
  PROVE  /\ [e EXCEPT !.state = x, !.holder = y]
              = [state |-> x, key |-> e.key, holder |-> y, poisoned |-> e.poisoned, event |-> e.event]
         /\ [e EXCEPT !.state = x, !.key = y]
              = [state |-> x, key |-> y, holder |-> e.holder, poisoned |-> e.poisoned, event |-> e.event]
         /\ [e EXCEPT !.holder = x, !.event = y]
              = [state |-> e.state, key |-> e.key, holder |-> x, poisoned |-> e.poisoned, event |-> y]
<1>1. e = [state |-> e.state, key |-> e.key, holder |-> e.holder, poisoned |-> e.poisoned, event |-> e.event]
  BY DEF IsDev
<1> DEFINE m == [e EXCEPT !.state = x]
           n == [e EXCEPT !.holder = x]
<1>2. m = [state |-> x, key |-> e.key, holder |-> e.holder, poisoned |-> e.poisoned, event |-> e.event]
  BY <1>1
<1>3. n = [state |-> e.state, key |-> e.key, holder |-> x, poisoned |-> e.poisoned, event |-> e.event]
  BY <1>1
<1>4. /\ [e EXCEPT !.state = x, !.holder = y] = [m EXCEPT !.holder = y]
      /\ [e EXCEPT !.state = x, !.key = y] = [m EXCEPT !.key = y]
      /\ [e EXCEPT !.holder = x, !.event = y] = [n EXCEPT !.event = y]
  OBVIOUS
<1> HIDE DEF m, n
<1>5. [m EXCEPT !.holder = y] = [state |-> x, key |-> e.key, holder |-> y, poisoned |-> e.poisoned, event |-> e.event]
  BY <1>2
<1>6. [m EXCEPT !.key = y] = [state |-> x, key |-> y, holder |-> e.holder, poisoned |-> e.poisoned, event |-> e.event]
  BY <1>2
<1>7. [n EXCEPT !.event = y] = [state |-> e.state, key |-> e.key, holder |-> x, poisoned |-> e.poisoned, event |-> y]
  BY <1>3
<1> QED BY <1>4, <1>5, <1>6, <1>7

LEMMA FindStays ==
  ASSUME IInv, DevCommSlots \in Nat, NEW t \in Threads, FindDevComm(t)
  PROVE  Stays(t)
<1> DEFINE d == Min(Matching(Key(t)))
<1>1. Wants(t, {"probe", "dev"}) /\ UNCHANGED <<setting, script, todo, call, buffers, devs>>
  BY DEF FindDevComm, choices, cacheVars
<1>2. /\ pc[t] = "obtain" /\ apiLock = t /\ t # "free" /\ setting.algo # "PACK"
      /\ todo[t] # <<>> /\ Head(todo[t]).do \in {"probe", "dev"}
  BY <1>1, WantsFacts
<1>3. d \in Slots /\ devs[d].state = "valid"
  <2>1. Matching(Key(t)) \in SUBSET Slots /\ Matching(Key(t)) # {}
    BY DEF FindDevComm, Matching
  <2>2. d \in Matching(Key(t))
    BY <2>1, FirstSlot
  <2> QED BY <2>2 DEF Matching
<1>4. held' = [held EXCEPT ![t].dev = d]
  BY DEF FindDevComm
<1> HIDE DEF d
<1>5. HeldStays(t) /\ held'[t].dev = d
  BY <1>4 DEF HeldStays, IInv, TypeOK, IsHeld
<1>6. PlaceStays(t)
  BY <1>1, <1>2 DEF FindDevComm, Goto, PlaceStays, IInv, TypeOK, Places
<1>7. pc'[t] \in {"take", "mutex"}
  BY DEF FindDevComm, Goto, IInv, TypeOK
<1>8. InUse(t)'
  BY <1>1, <1>3, <1>5, <1>7 DEF InUse, Slots
<1> QED BY <1>1, <1>2, <1>5, <1>6, <1>8, TodoKept, DevsKept, BuffersKept DEF Stays

LEMMA OpenCreationStays ==
  ASSUME IInv, DevCommSlots \in Nat, NEW t \in Threads, OpenCreation(t)
  PROVE  Stays(t)
<1> DEFINE d == Min(Unused)
<1>1. Wants(t, {"probe", "dev"}) /\ UNCHANGED <<setting, script, todo, call, held, buffers>>
  BY DEF OpenCreation, choices
<1>2. /\ pc[t] = "obtain" /\ apiLock = t /\ t # "free" /\ setting.algo # "PACK"
      /\ todo[t] # <<>> /\ Head(todo[t]).do \in {"probe", "dev"}
  BY <1>1, WantsFacts
<1>3. d \in Slots /\ devs[d].state = "free"
  <2>1. Unused \in SUBSET Slots /\ Unused # {}
    BY DEF OpenCreation, Unused
  <2>2. d \in Unused
    BY <2>1, FirstSlot
  <2> QED BY <2>2 DEF Unused
<1>4. devs' = [devs EXCEPT ![d].state = "reserved", ![d].holder = t]
  BY DEF OpenCreation, Reserve
<1> HIDE DEF d
<1>5. devs = [i \in Slots |-> devs[i]] /\ \A i \in Slots : IsDev(devs[i])
  BY DEF IInv, TypeOK
<1>6. devs' = [i \in Slots |-> devs'[i]]
  BY <1>4, <1>5
<1>7. devs'[d] = [devs[d] EXCEPT !.state = "reserved", !.holder = t]
  BY <1>3, <1>4, <1>5
<1>8. ASSUME NEW i \in Slots, i # d PROVE devs'[i] = devs[i]
  BY <1>4, <1>5, <1>8
<1>9. PlaceStays(t) /\ pc'[t] = "creating"
  BY <1>1, <1>2 DEF OpenCreation, Goto, PlaceStays, IInv, TypeOK, Places
<1>10. IsDev(devs'[d]) /\ devs'[d].state = "reserved" /\ devs'[d].holder = t
  <2>1. devs'[d] = [state |-> "reserved", key |-> devs[d].key, holder |-> t,
                    poisoned |-> devs[d].poisoned, event |-> devs[d].event]
    BY <1>3, <1>5, <1>7, SlotSet
  <2> QED BY <2>1 DEF IsDev
<1>11. DevsStay(t)
  <2>1. \A i \in Slots : devs[i].state = "reserved" => devs[i].holder # t
    BY <1>2 DEF IInv, DevsHeld
  <2> QED BY <1>3, <1>5, <1>6, <1>8, <1>9, <1>10, <2>1 DEF DevsStay
<1>12. InUse(t)'
  BY <1>3, <1>9, <1>10 DEF InUse, Slots
<1> QED BY <1>1, <1>2, <1>9, <1>11, <1>12, TodoKept, HeldKept, BuffersKept DEF Stays

LEMMA CreateStays ==
  ASSUME IInv, DevCommSlots \in Nat, NEW t \in Threads, Create(t)
  PROVE  Stays(t)
<1> DEFINE d == Min(Mine(t) \cup Matching(Key(t)))
           new == [FreeSlot EXCEPT !.state = "valid", !.key = Key(t)]
<1>1. /\ pc[t] = "creating" /\ apiLock = "free" /\ t # "free"
      /\ UNCHANGED <<setting, script, todo, call, buffers>>
  BY DEF Create, choices, IInv, TypeOK
<1>2. todo[t] # <<>> /\ Head(todo[t]).do \in {"probe", "dev"} /\ setting.algo # "PACK"
  BY <1>1 DEF IInv, Obtaining, PackHolds
<1>3. d \in Slots /\ (d \in Mine(t) \/ devs[d].state = "valid")
  <2> DEFINE S == Mine(t) \cup Matching(Key(t))
  <2>1. Mine(t) # {}
    BY <1>1 DEF IInv, DevsInUse, InUse, Mine
  <2>2. S \in SUBSET Slots /\ S # {}
    BY <2>1 DEF Mine, Matching
  <2> HIDE DEF S
  <2>3. Min(S) \in S
    BY <2>2, FirstSlot
  <2>4. d \in Mine(t) \cup Matching(Key(t))
    BY <2>3 DEF S
  <2> QED BY <2>4 DEF Mine, Matching
<1>4. held' = [held EXCEPT ![t].dev = d]
  BY DEF Create
<1> HIDE DEF d
<1>5. HeldStays(t) /\ held'[t].dev = d
  BY <1>4 DEF HeldStays, IInv, TypeOK, IsHeld
<1>6. PlaceStays(t)
  BY <1>1, <1>2 DEF Create, Goto, PlaceStays, IInv, TypeOK, Places
<1>7. pc'[t] \in {"take", "mutex"}
  BY DEF Create, Goto, IInv, TypeOK
<1>8. /\ devs' = [i \in Slots |-> devs'[i]]
      /\ \A i \in Slots : devs'[i] = IF i \in Mine(t) THEN new ELSE devs[i]
  BY DEF Create
<1>9. IsDev(new) /\ new.state = "valid" /\ new.holder = "free"
  <2>1. IsDev(FreeSlot) /\ FreeSlot.holder = "free"
    BY DEF IsDev, FreeSlot
  <2>2. new = [state |-> "valid", key |-> Key(t), holder |-> FreeSlot.holder,
               poisoned |-> FreeSlot.poisoned, event |-> FreeSlot.event]
    BY <2>1, SlotSet
  <2> HIDE DEF new
  <2> QED BY <2>1, <2>2 DEF IsDev
<1> HIDE DEF new
<1>10. \A i \in Slots : (i \in Mine(t)) <=> (devs[i].state = "reserved" /\ devs[i].holder = t)
  BY DEF Mine
<1>11. DevsStay(t)
  <2>1. \A i \in Slots : IsDev(devs[i])
    BY DEF IInv, TypeOK
  <2> QED BY <1>8, <1>9, <1>10, <2>1 DEF DevsStay
<1>12. InUse(t)'
  BY <1>3, <1>5, <1>7, <1>8, <1>9 DEF InUse, Slots
<1> QED BY <1>1, <1>2, <1>5, <1>6, <1>11, <1>12, TodoKept, BuffersKept DEF Stays

LEMMA LockUseStays ==
  ASSUME IInv, NEW t \in Threads, LockUse(t)
  PROVE  Stays(t)
<1> DEFINE d == held[t].dev
<1>1. /\ pc[t] = "mutex" /\ t # "free" /\ devs[d].holder = "free"
      /\ UNCHANGED <<setting, script, todo, call, held, apiLock, buffers>>
  BY DEF LockUse, choices, IInv, TypeOK
<1>2. todo[t] # <<>> /\ Head(todo[t]).do \in {"probe", "dev"} /\ setting.algo # "PACK" /\ apiLock # t
  BY <1>1 DEF IInv, Obtaining, PackHolds, LockHeld
<1>3. d \in Slots /\ devs[d].state = "valid"
  BY <1>1 DEF IInv, DevsInUse, InUse
<1>4. devs' = [devs EXCEPT ![d].holder = t]
  BY DEF LockUse
<1> HIDE DEF d
<1>5. devs = [i \in Slots |-> devs[i]] /\ \A i \in Slots : IsDev(devs[i])
  BY DEF IInv, TypeOK
<1>6. devs' = [i \in Slots |-> devs'[i]]
  BY <1>4, <1>5
<1>7. devs'[d] = [devs[d] EXCEPT !.holder = t]
  BY <1>3, <1>4, <1>5
<1>8. ASSUME NEW i \in Slots, i # d PROVE devs'[i] = devs[i]
  BY <1>4, <1>5, <1>8
<1>9. PlaceStays(t) /\ pc'[t] = "take"
  BY <1>1, <1>2 DEF LockUse, Goto, PlaceStays, IInv, TypeOK, Places
<1>10. IsDev(devs'[d]) /\ devs'[d].state = "valid" /\ devs'[d].holder = t
  BY <1>3, <1>5, <1>7 DEF IsDev
<1>11. DevsStay(t)
  <2>1. \A i \in Slots : devs[i].state = "reserved" => devs[i].holder # t
    BY <1>1 DEF IInv, DevsHeld
  <2> QED BY <1>3, <1>5, <1>6, <1>8, <1>9, <1>10, <2>1 DEF DevsStay
<1>12. InUse(t)'
  BY <1>1, <1>3, <1>9, <1>10 DEF InUse, Slots, d
<1> QED BY <1>1, <1>2, <1>9, <1>11, <1>12, TodoKept, HeldKept, BuffersKept DEF Stays

LEMMA TakeDevCommIInv ==
  ASSUME IInv, NEW t \in Threads, TakeDevComm(t)
  PROVE  IInv'
<1> DEFINE d == held[t].dev
           w == WaitFor(tail, call[t], DevCommEvent(d))[Work(t)]
<1>1. pc[t] = "take" /\ t # "free" /\ apiLock \in {"free", t}
  BY DEF TakeDevComm, IInv, TypeOK
<1>2. todo[t] # <<>> /\ Head(todo[t]).do \in {"probe", "dev"} /\ setting.algo # "PACK"
  BY <1>1 DEF IInv, Obtaining, PackHolds
<1>3. CASE devs[d].poisoned
  BY <1>1, <1>3, FailLeaves DEF TakeDevComm
<1>4. CASE ~devs[d].poisoned
  <2>1. /\ apiLock' = t /\ pc' = [pc EXCEPT ![t] = "obtain"] /\ Obtained(t)
        /\ UNCHANGED <<setting, script, call, buffers>>
    BY <1>4 DEF TakeDevComm, Goto, choices
  <2>2. \/ devs' = [devs EXCEPT ![d].holder = "free", ![d].event = w] /\ held' = held
        \/ held' = [held EXCEPT ![t].uses = Append(@, d)] /\ devs' = devs
    BY <1>4 DEF TakeDevComm
  <2>3. d \in Slots /\ devs[d].state = "valid"
    BY <1>1 DEF IInv, DevsInUse, InUse
  <2> HIDE DEF d, w
  <2>4. HeldStays(t)
    BY <2>2 DEF HeldStays, IInv, TypeOK, IsHeld
  <2>5. DevsStay(t)
    <3>1. CASE devs' = devs
      BY <1>1, <3>1, DevsKept
    <3>2. CASE devs' = [devs EXCEPT ![d].holder = "free", ![d].event = w]
      <4>1. devs = [i \in Slots |-> devs[i]] /\ \A i \in Slots : IsDev(devs[i])
        BY DEF IInv, TypeOK
      <4>2. devs' = [i \in Slots |-> devs'[i]]
        BY <3>2, <4>1
      <4>3. devs'[d] = [devs[d] EXCEPT !.holder = "free", !.event = w]
        BY <2>3, <3>2, <4>1
      <4>4. ASSUME NEW i \in Slots, i # d PROVE devs'[i] = devs[i]
        BY <3>2, <4>1, <4>4
      <4>5. IsDev(devs'[d]) /\ devs'[d].state = "valid" /\ devs'[d].holder = "free"
        <5>1. devs'[d] = [state |-> devs[d].state, key |-> devs[d].key, holder |-> "free",
                          poisoned |-> devs[d].poisoned, event |-> w]
          BY <2>3, <4>1, <4>3, SlotSet
        <5> QED BY <2>3, <5>1 DEF IsDev
      <4>6. \A i \in Slots : devs[i].state = "reserved" => devs[i].holder # t
        BY <1>1 DEF IInv, DevsHeld
      <4> QED BY <2>3, <4>1, <4>2, <4>4, <4>5, <4>6 DEF DevsStay
    <3> QED BY <2>2, <3>1, <3>2
  <2>6. PlaceStays(t)
    BY <1>1, <2>1 DEF PlaceStays, IInv, TypeOK, Places
  <2>7. InUse(t)'
    BY <2>1, NotUsing DEF IInv, TypeOK
  <2>8. Stays(t)
    BY <1>2, <2>1, <2>4, <2>5, <2>6, <2>7, TodoTail, BuffersKept DEF Stays
  <2> QED BY <2>8, StaysIInv
<1> QED BY <1>3, <1>4

-----------------------------------------------------------------------------
(* The error returns, one by one. *)
LEMMA FailuresIInv ==
  ASSUME IInv, NEW t \in Threads,
         RegisterFails(t) \/ CreateFails(t) \/ CapacityExhausted(t) \/ LaneUnavailable(t)
  PROVE  IInv'
<1>1. CASE RegisterFails(t)
  BY <1>1, FailLeaves DEF RegisterFails
<1>2. CASE CreateFails(t)
  BY <1>2, FailLeaves DEF CreateFails
<1>3. CASE CapacityExhausted(t)
  <2>1. pc[t] = "obtain" /\ apiLock = t
    BY <1>3, WantsFacts DEF CapacityExhausted
  <2> QED BY <1>3, <2>1, FailLeaves DEF CapacityExhausted
<1>4. CASE LaneUnavailable(t)
  <2>1. pc[t] = "obtain" /\ apiLock = t
    BY <1>4 DEF LaneUnavailable, Ready, IInv, LockHeld
  <2> QED BY <1>4, <2>1, FailLeaves DEF LaneUnavailable
<1> QED BY <1>1, <1>2, <1>3, <1>4

LEMMA PackIInv ==
  ASSUME IInv, NEW t \in Threads, Pack(t)
  PROVE  IInv'
<1>1. /\ pc[t] = "obtain" /\ setting.algo = "PACK" /\ apiLock = t /\ apiLock' = "free" /\ t # "free"
      /\ UNCHANGED <<setting, script, devs, buffers>>
  BY DEF Pack, IInv, LockHeld, TypeOK, choices, cacheVars
<1>2. Return(t, TRUE) \/ Return(t, FALSE)
  BY DEF Pack
<1>3. DevsLeave(t)
  BY <1>1 DEF DevsLeave, IInv, TypeOK, DevsHeld, PackHolds
<1>4. BuffersLeave(t)
  BY <1>1 DEF BuffersLeave, IInv, TypeOK, PackHolds
<1>5. Leaves(t)
  BY <1>1, <1>2, <1>3, <1>4 DEF Leaves, Return, Goto
<1> QED BY <1>5, LeavesIInv

LEMMA IdleIInv ==
  ASSUME IInv, UNCHANGED <<setting, script, pc, call, todo, held, apiLock, devs, buffers>>
  PROVE  IInv'
<1>1. Comms' = Comms /\ Slots' = Slots /\ Calling' = Calling
  BY DEF Comms, Entries, Slots, Calling
<1>2. \A t \in Threads : Comm(t)' = Comm(t) /\ InUse(t)' = InUse(t)
  BY <1>1 DEF Comm, InUse
<1>3. TypeOK'
  BY <1>1 DEF IInv, TypeOK
<1>4. LockHeld' /\ DevsHeld' /\ DevsInUse'
  BY <1>1, <1>2 DEF IInv, LockHeld, DevsHeld, DevsInUse
<1>5. Obtaining' /\ BufferDue'
  BY DEF IInv, Obtaining, BufferDue, Due
<1>6. BuffersHeld' /\ PackHolds'
  BY <1>1, <1>2 DEF IInv, BuffersHeld, PackHolds
<1> QED BY <1>3, <1>4, <1>5, <1>6 DEF IInv

LEMMA BeginIInv ==
  ASSUME IInv, NEW t \in Threads, Begin(t)
  PROVE  IInv'
<1>1. pc[t] = "user" /\ apiLock = "free" /\ t # "free" /\ UNCHANGED <<setting, script, devs, buffers>>
  BY DEF Begin, Issues, choices, cacheVars, IInv, TypeOK
<1>2. held[t] = Nothing /\ held[t].buffer = FALSE
  BY <1>1 DEF IInv, BufferDue, Nothing
<1>3. CASE Issued(t).flaw # "none"
  <2>1. Return(t, FALSE) /\ apiLock' = apiLock
    BY <1>3 DEF Begin
  <2>2. DevsLeave(t)
    BY <1>1 DEF DevsLeave, IInv, TypeOK, DevsHeld, Calling
  <2>3. BuffersLeave(t)
    BY <1>1, <1>2 DEF BuffersLeave, IInv, TypeOK
  <2>4. Leaves(t)
    BY <1>1, <2>1, <2>2, <2>3 DEF Leaves, Return, Goto
  <2> QED BY <2>4, LeavesIInv
<1>4. CASE Issued(t).flaw = "none"
  <2> DEFINE e == Issued(t)
  <2>1. /\ apiLock' = t /\ pc' = [pc EXCEPT ![t] = "obtain"] /\ call' = [call EXCEPT ![t] = e]
        /\ todo' = [todo EXCEPT ![t] = Needs(e)] /\ held' = held
    BY <1>4 DEF Begin, Goto
  <2>2. /\ Orderly(Needs(e))
        /\ setting.algo = "PACK" => Needs(e) = <<>>
        /\ setting.algo # "PACK" => Has(Needs(e), "buffer")
    BY NeedsOrderly
  <2> HIDE DEF e
  <2>3. Comms' = Comms /\ Slots' = Slots
    BY <1>1 DEF Comms, Entries, Slots
  <2>4. /\ pc'[t] = "obtain" /\ todo'[t] = Needs(e)
        /\ \A u \in Threads : u # t => pc'[u] = pc[u] /\ todo'[u] = todo[u] /\ call'[u] = call[u]
    BY <2>1 DEF IInv, TypeOK
  <2>5. TypeOK'
    <3>1. todo' = [u \in Threads |-> todo'[u]] /\ \A u \in Threads : Orderly(todo'[u])
      BY <2>1, <2>2, <2>4 DEF IInv, TypeOK
    <3> QED BY <1>1, <2>1, <2>3, <3>1 DEF IInv, TypeOK, Places
  <2>6. LockHeld'
    BY <1>1, <2>1, <2>4 DEF IInv, LockHeld, TypeOK
  <2>7. DevsHeld'
    BY <1>1, <2>1, <2>3, <2>4 DEF IInv, DevsHeld, Calling
  <2>8. DevsInUse'
    <3> SUFFICES ASSUME NEW u \in Threads PROVE InUse(u)'
      BY DEF DevsInUse
    <3>1. InUse(u)
      BY DEF IInv, DevsInUse
    <3> QED BY <1>1, <2>1, <2>3, <2>4, <3>1 DEF InUse
  <2>9. Obtaining'
    BY <2>4 DEF IInv, Obtaining
  <2>10. BufferDue'
    <3>1. setting.algo # "PACK" => Due(t, "buffer")'
      BY <2>2, <2>4 DEF Due
    <3>2. \A u \in Threads : u # t => (Due(u, "buffer")' <=> Due(u, "buffer"))
      BY <2>4 DEF Due
    <3> QED BY <1>1, <1>2, <2>1, <2>4, <3>1, <3>2 DEF IInv, BufferDue
  <2>11. BuffersHeld'
    <3>1. \A u \in Threads : held'[u].buffer => Comm(u)' = Comm(u) /\ u # t
      BY <1>2, <2>1, <2>4 DEF Comm
    <3>2. \A u \in Threads : held[u].buffer => Comm(u)' = Comm(u) /\ u # t
      BY <1>2, <2>1, <2>4 DEF Comm
    <3> QED BY <1>1, <2>1, <2>3, <3>1, <3>2 DEF IInv, BuffersHeld
  <2>12. PackHolds'
    BY <1>1, <1>2, <2>1, <2>2, <2>3, <2>4 DEF IInv, PackHolds
  <2> QED BY <2>5, <2>6, <2>7, <2>8, <2>9, <2>10, <2>11, <2>12 DEF IInv
<1> QED BY <1>3, <1>4

LEMMA TakeBufferIInv ==
  ASSUME IInv, NEW t \in Threads, TakeBuffer(t)
  PROVE  IInv'
<1> DEFINE slot == ControlSlot(Comm(t), call[t].shape)
           Refuses == Entry(t).reserved \/ Entry(t).poisoned \/ (setting.algo # "DIRECT" /\ slot = 0)
<1>1. /\ pc[t] = "obtain" /\ apiLock = t /\ t # "free" /\ setting.algo # "PACK"
      /\ todo[t] # <<>> /\ Head(todo[t]).do = "buffer" /\ UNCHANGED <<setting, script>>
  BY WantsFacts DEF TakeBuffer, choices
<1>2. Orderly(todo[t]) /\ todo[t] # <<>>
  BY <1>1 DEF IInv, TypeOK
<1>3. Due(t, "buffer")
  <2>1. Has(todo[t], "buffer") <=> Head(todo[t]).do = "buffer" \/ Has(Tail(todo[t]), "buffer")
    BY <1>2, TailOrderly
  <2> QED BY <1>1, <2>1 DEF Due
<1>4. ~held[t].buffer
  BY <1>1, <1>3 DEF IInv, BufferDue, TypeOK
<1>5. CASE Refuses
  <2>1. apiLock' = "free" /\ devs' = Release(t, devs) /\ Return(t, FALSE) /\ buffers' = buffers
    BY <1>5 DEF TakeBuffer
  <2>2. DevsLeave(t)
    BY <1>1, <2>1, ReleaseShape
  <2>3. BuffersLeave(t)
    BY <1>4, <2>1 DEF BuffersLeave, IInv, TypeOK
  <2>4. Leaves(t)
    BY <1>1, <2>1, <2>2, <2>3 DEF Leaves, Return, Goto
  <2> QED BY <2>4, LeavesIInv
<1>6. CASE ~Refuses
  <2>1. /\ buffers' = [buffers EXCEPT ![Comm(t)].allocated = TRUE, ![Comm(t)].reserved = TRUE]
        /\ held' = [held EXCEPT ![t].buffer = TRUE, ![t].plan = slot]
        /\ todo' = [todo EXCEPT ![t] = Tail(@)]
        /\ UNCHANGED <<pc, call, apiLock, devs>>
    BY <1>6 DEF TakeBuffer, Obtained
  <2>2. ~buffers[Comm(t)].reserved
    BY <1>6 DEF Entry
  <2> HIDE DEF slot, Refuses
  <2>3. Comms' = Comms /\ Slots' = Slots /\ \A u \in Threads : Comm(u)' = Comm(u)
    BY <1>1, <2>1 DEF Comms, Entries, Slots, Comm
  <2>4. todo'[t] = Tail(todo[t]) /\ \A u \in Threads : u # t => todo'[u] = todo[u] /\ held'[u] = held[u]
    BY <2>1 DEF IInv, TypeOK
  <2>5. Orderly(todo'[t]) /\ ~Due(t, "buffer")'
    <3>1. Orderly(Tail(todo[t])) /\ ~Has(Tail(todo[t]), "buffer")
      BY <1>1, <1>2, TailOrderly
    <3> QED BY <2>4, <3>1 DEF Due
  <2>6. IsHeld(held'[t]) /\ held'[t].buffer = TRUE
    <3>1. held'[t] = [held[t] EXCEPT !.buffer = TRUE, !.plan = slot]
      BY <2>1 DEF IInv, TypeOK
    <3>2. IsHeld(held[t])
      BY DEF IInv, TypeOK
    <3> QED BY <3>1, <3>2 DEF IsHeld
  <2>7. /\ buffers' = [c \in Comms |-> buffers'[c]]
        /\ \A c \in Comms : IsBuffer(buffers'[c]) /\ buffers'[c].reserved = (Comm(t) = c \/ buffers[c].reserved)
    <3>1. buffers = [c \in Comms |-> buffers[c]]
          /\ \A c \in Comms : IsBuffer(buffers[c]) /\ buffers[c].reserved \in BOOLEAN
      BY DEF IInv, TypeOK
    <3>2. buffers' = [c \in Comms |-> buffers'[c]]
      BY <2>1, <3>1
    <3>3. ASSUME NEW c \in Comms, Comm(t) = c
          PROVE  buffers'[c] = [buffers[c] EXCEPT !.allocated = TRUE, !.reserved = TRUE]
      BY <2>1, <3>1, <3>3
    <3>4. ASSUME NEW c \in Comms, Comm(t) # c
          PROVE  buffers'[c] = buffers[c]
      BY <2>1, <3>1, <3>4
    <3>5. ASSUME NEW c \in Comms
          PROVE  IsBuffer(buffers'[c]) /\ buffers'[c].reserved = (Comm(t) = c \/ buffers[c].reserved)
      <4>1. CASE Comm(t) = c
        BY <3>1, <3>3, <4>1 DEF IsBuffer
      <4>2. CASE Comm(t) # c
        BY <3>1, <3>4, <4>2
      <4> QED BY <4>1, <4>2
    <3> QED BY <3>2, <3>5
  <2>8. TypeOK'
    <3>1. todo' = [u \in Threads |-> todo'[u]] /\ \A u \in Threads : Orderly(todo'[u])
      BY <2>1, <2>4, <2>5 DEF IInv, TypeOK
    <3>2. held' = [u \in Threads |-> held'[u]] /\ \A u \in Threads : IsHeld(held'[u]) /\ held'[u].buffer \in BOOLEAN
      BY <2>1, <2>4, <2>6 DEF IInv, TypeOK
    <3>3. \A c \in Comms : buffers'[c].reserved \in BOOLEAN
      BY <2>7 DEF IInv, TypeOK
    <3> QED BY <2>1, <2>3, <2>7, <3>1, <3>2, <3>3 DEF IInv, TypeOK
  <2>9. LockHeld' /\ DevsHeld'
    BY <2>1, <2>3 DEF IInv, LockHeld, DevsHeld, Calling
  <2>10. DevsInUse'
    <3> SUFFICES ASSUME NEW u \in Threads PROVE InUse(u)'
      BY DEF DevsInUse
    <3>1. InUse(u)
      BY DEF IInv, DevsInUse
    <3> QED BY <1>1, <2>1, <2>3, <2>4, <3>1 DEF InUse
  <2>11. Obtaining'
    BY <1>1, <2>1, <2>4 DEF IInv, Obtaining
  <2>12. BufferDue'
    <3>1. \A u \in Threads : u # t => (Due(u, "buffer")' <=> Due(u, "buffer"))
      BY <2>4 DEF Due
    <3> QED BY <1>1, <2>1, <2>4, <2>5, <2>6, <3>1 DEF IInv, BufferDue
  <2>13. BuffersHeld'
    <3> SUFFICES ASSUME NEW c \in Comms
        PROVE  /\ \A u \in Threads : held'[u].buffer /\ Comm(u) = c => buffers'[c].reserved
               /\ \A u, v \in Threads :
                    held'[u].buffer /\ held'[v].buffer /\ Comm(u) = c /\ Comm(v) = c => u = v
               /\ buffers'[c].reserved => \E u \in Threads : held'[u].buffer /\ Comm(u) = c
      BY <2>3 DEF BuffersHeld
    <3>1. /\ \A u \in Threads : held[u].buffer /\ Comm(u) = c => buffers[c].reserved
          /\ \A u, v \in Threads : held[u].buffer /\ held[v].buffer /\ Comm(u) = c /\ Comm(v) = c => u = v
          /\ buffers[c].reserved => \E u \in Threads : held[u].buffer /\ Comm(u) = c
      BY DEF IInv, BuffersHeld
    <3>2. buffers'[c].reserved = (Comm(t) = c \/ buffers[c].reserved)
      BY <2>7
    <3> QED BY <1>4, <2>2, <2>4, <2>6, <3>1, <3>2
  <2>14. PackHolds'
    BY <1>1 DEF PackHolds
  <2> QED BY <2>8, <2>9, <2>10, <2>11, <2>12, <2>13, <2>14 DEF IInv
<1> QED BY <1>5, <1>6

LEMMA NextIInv ==
  ASSUME IInv, DevCommSlots \in Nat, [CallsNext]_callsVars
  PROVE  IInv'
<1>1. ASSUME NEW t \in Threads, CallStep(t)
      PROVE  IInv'
  <2>1. CASE GroupStart(t) \/ Enqueue(t) \/ GroupAbort(t) \/ GroupEnd(t)
    BY <2>1, IdleIInv DEF GroupStart, Enqueue, GroupAbort, GroupEnd, choices, cacheVars
  <2>2. CASE Begin(t) \/ TakeBuffer(t)
    BY <2>2, BeginIInv, TakeBufferIInv
  <2>3. CASE TakeWindow(t) \/ OpenRegistration(t) \/ Register(t) \/ TakePlan(t) \/ OpenHostRma(t)
    BY <2>3, WindowStays, PlanStays, HostRmaStays, StaysIInv
  <2>4. CASE FindDevComm(t) \/ OpenCreation(t) \/ Create(t) \/ LockUse(t)
    BY <2>4, FindStays, OpenCreationStays, CreateStays, LockUseStays, StaysIInv
  <2>5. CASE TakeDevComm(t)
    BY <2>5, TakeDevCommIInv
  <2>6. CASE RegisterFails(t) \/ CreateFails(t) \/ CapacityExhausted(t) \/ LaneUnavailable(t)
    BY <2>6, FailuresIInv
  <2>7. CASE Launch(t) \/ CloseHostRma(t)
    BY <2>7, LaunchLeaves
  <2>8. CASE Pack(t)
    BY <2>8, PackIInv
  <2> QED BY <1>1, <2>1, <2>2, <2>3, <2>4, <2>5, <2>6, <2>7, <2>8 DEF CallStep
<1>2. CASE UNCHANGED callsVars
  BY <1>2, IdleIInv DEF callsVars, choices, threadVars, cacheVars
<1> QED BY <1>1, <1>2 DEF CallsNext

-----------------------------------------------------------------------------
(* The invariant holds for any threads, scripts, communicators and failures. *)
THEOREM CallsInvariant ==
  ASSUME CallsAssumption
  PROVE  CallsSpec => []IInv
<1>1. CallsInit => IInv
  BY InitIInv DEF CallsAssumption
<1>2. IInv /\ [CallsNext]_callsVars => IInv'
  BY NextIInv DEF CallsAssumption
<1> QED BY <1>1, <1>2, PTL DEF CallsSpec

LEMMA HeldFromIInv ==
  ASSUME IInv
  PROVE  HeldByCalls
<1>1. apiLock # "free" => apiLock \in Calling
  BY DEF IInv, TypeOK, LockHeld, Calling
<1>2. \A i \in Slots : (devs[i].state = "reserved" \/ devs[i].holder # "free") => devs[i].holder \in Calling
  BY DEF IInv, DevsHeld, Calling
<1>3. ASSUME NEW c \in Comms
      PROVE  Cardinality({t \in Calling : held[t].buffer /\ Comm(t) = c}) = IF buffers[c].reserved THEN 1 ELSE 0
  <2> DEFINE S == {t \in Calling : held[t].buffer /\ Comm(t) = c}
  <2>1. \A t \in Threads : held[t].buffer => t \in Calling
    BY DEF IInv, BufferDue, Nothing, Calling
  <2>2. CASE buffers[c].reserved
    <3>1. PICK t \in Threads : held[t].buffer /\ Comm(t) = c
      BY <2>2 DEF IInv, BuffersHeld
    <3>2. S = {t}
      BY <2>1, <3>1 DEF IInv, BuffersHeld, Calling
    <3> QED BY <2>2, <3>2, FS_Singleton
  <2>3. CASE ~buffers[c].reserved
    <3>1. S = {}
      BY <2>3 DEF IInv, BuffersHeld, Calling
    <3> QED BY <2>3, <3>1, FS_EmptySet
  <2> QED BY <2>2, <2>3
<1> QED BY <1>1, <1>2, <1>3 DEF HeldByCalls

(* What is held is held by a call in flight, and each reserved staging       *)
(* buffer by exactly one: no error return, at whatever step of whatever call, *)
(* leaves the API lock, a DevComm's mutex, a DevComm slot or a buffer taken   *)
(* (reshard_cache.cc:421-437, reshard_call_setup.cc:165).                     *)
THEOREM HeldAlways ==
  ASSUME CallsAssumption
  PROVE  CallsSpec => []HeldByCalls
<1>1. IInv => HeldByCalls
  BY HeldFromIInv
<1>2. CallsSpec => []IInv
  BY CallsInvariant
<1> QED BY <1>1, <1>2, PTL

-----------------------------------------------------------------------------
(* What a group is executed as.  The order on the numbers is well-founded,   *)
(* which gives induction: a set of counterexamples has a least element.      *)
Below == {ss \in Nat \X Nat : ss[1] < ss[2]}

LEMMA Least ==
  ASSUME NEW T \in SUBSET Nat, T # {}
  PROVE  \E m \in T : \A n \in T : m <= n
<1>1. IsWellFoundedOn(Below, Nat)
  BY NatLessThanWellFounded DEF OpToRel, Below
<1>2. \E m \in T : \A n \in T : <<n, m>> \notin Below
  BY <1>1, WFMin
<1>3. \E m \in T : \A n \in T : ~(n < m)
  BY <1>2 DEF Below
<1> QED BY <1>3

(* Recursive functions exist: f is what step makes of base, up to n.         *)
Follows(base, step, n, f) == f[0] = base /\ \A i \in 1 .. n : f[i] = step[<<i, f[i - 1]>>]
Reaches(X, base, step, n) == \E f \in [0 .. n -> X] : Follows(base, step, n, f)

LEMMA Stages ==
  ASSUME NEW X, NEW base \in X, NEW step \in [(Nat \X X) -> X]
  PROVE  \A n \in Nat : Reaches(X, base, step, n)
<1> DEFINE Bad == {k \in Nat : ~Reaches(X, base, step, k)}
<1> SUFFICES ASSUME Bad # {} PROVE FALSE
  OBVIOUS
<1>1. PICK m \in Bad : \A k \in Bad : m <= k
  BY Least
<1>2. m # 0
  <2>1. [i \in 0 .. 0 |-> base] \in [0 .. 0 -> X] /\ Follows(base, step, 0, [i \in 0 .. 0 |-> base])
    BY DEF Follows
  <2> QED BY <2>1 DEF Reaches
<1>3. m \in Nat /\ m - 1 \in Nat /\ m - 1 \notin Bad
  BY <1>1, <1>2
<1>4. PICK f \in [0 .. m - 1 -> X] : Follows(base, step, m - 1, f)
  BY <1>3 DEF Reaches
<1>5. step[<<m, f[m - 1]>>] \in X
  BY <1>3
<1> DEFINE g == [i \in 0 .. m |-> IF i = m THEN step[<<m, f[m - 1]>>] ELSE f[i]]
<1>6. g \in [0 .. m -> X]
  BY <1>2, <1>3, <1>5
<1>7. g[0] = base
  BY <1>3, <1>4 DEF Follows
<1>8. ASSUME NEW i \in 1 .. m
      PROVE  g[i] = step[<<i, g[i - 1]>>]
  <2>1. CASE i = m
    <3>1. m \in 0 .. m /\ m - 1 \in 0 .. m /\ m - 1 # m
      BY <1>3, <1>2
    <3>2. g[m] = step[<<m, f[m - 1]>>] /\ g[m - 1] = f[m - 1]
      BY <3>1
    <3> QED BY <2>1, <3>2
  <2>2. CASE i # m
    <3>1. i \in 1 .. m - 1 /\ i - 1 \in 0 .. m - 1 /\ i - 1 # m /\ i \in 0 .. m /\ i - 1 \in 0 .. m
      BY <2>2, <1>3
    <3>2. g[i] = f[i] /\ g[i - 1] = f[i - 1]
      BY <2>2, <3>1
    <3> QED BY <3>1, <3>2, <1>4 DEF Follows
  <2> QED BY <2>1, <2>2
<1>9. Reaches(X, base, step, m)
  <2> HIDE DEF g
  <2> QED BY <1>6, <1>7, <1>8 DEF Reaches, Follows
<1> QED BY <1>9, <1>1

(* Nonempty sequences of the numbers of n entries. *)
Numbers(n) == Seq(1 .. n) \ {<<>>}

LEMMA FiledType ==
  ASSUME NEW n \in Nat, NEW entries, NEW buckets \in Seq(Numbers(n)), NEW i \in 1 .. n
  PROVE  Filed(entries, buckets, i) \in Seq(Numbers(n)) \ {<<>>}
<1> DEFINE mine == {b \in DOMAIN buckets : Context(entries[buckets[b][1]]) = Context(entries[i])}
<1>1. <<i>> \in Numbers(n)
  BY DEF Numbers
<1>2. CASE mine = {}
  <2>1. Filed(entries, buckets, i) = Append(buckets, <<i>>)
    BY <1>2 DEF Filed
  <2>2. Append(buckets, <<i>>) \in Seq(Numbers(n)) \ {<<>>}
    BY <1>1
  <2> QED BY <2>1, <2>2
<1>3. CASE mine # {}
  <2> DEFINE m == Min(mine)
             q == Append(buckets[m], i)
  <2>1. Filed(entries, buckets, i) = [buckets EXCEPT ![m] = q]
    BY <1>3 DEF Filed
  <2>2. m \in DOMAIN buckets => q \in Numbers(n)
    <3> HIDE DEF m
    <3>1. ASSUME NEW s \in Seq(1 .. n)
          PROVE  Append(s, i) \in Seq(1 .. n) /\ Append(s, i) # <<>>
      BY AppendProperties
    <3>2. m \in DOMAIN buckets => buckets[m] \in Seq(1 .. n)
      BY DEF Numbers
    <3> QED BY <3>1, <3>2 DEF Numbers
  <2>3. buckets # <<>>
    BY <1>3
  <2> HIDE DEF m, q
  <2>4. [buckets EXCEPT ![m] = q] \in Seq(Numbers(n)) \ {<<>>}
    <3>1. CASE m \in DOMAIN buckets
      <4>1. m \in 1 .. Len(buckets) /\ q \in Numbers(n)
        BY <2>2, <3>1
      <4> QED BY <4>1, ExceptSeq, <2>3
    <3>2. CASE m \notin DOMAIN buckets
      <4>1. [buckets EXCEPT ![m] = q] = buckets
        BY <3>2
      <4> QED BY <2>3, <4>1
    <3> QED BY <3>1, <3>2
  <2> QED BY <2>1, <2>4
<1> QED BY <1>2, <1>3

Rising(q) == \A a, b \in DOMAIN q : a < b => q[a] < q[b]

LEMMA Appended ==
  ASSUME NEW S, NEW q \in Seq(S), NEW x \in S
  PROVE  /\ Append(q, x) \in Seq(S) /\ Append(q, x) # <<>>
         /\ Range(Append(q, x)) = Range(q) \cup {x}
<1> DEFINE p == Append(q, x)
<1>1. /\ p \in Seq(S) /\ Len(p) = Len(q) + 1
      /\ \A i \in 1 .. Len(q) : p[i] = q[i]
      /\ p[Len(q) + 1] = x
  BY AppendProperties
<1>2. Len(q) \in Nat /\ DOMAIN q = 1 .. Len(q) /\ DOMAIN p = 1 .. Len(q) + 1
  BY <1>1
<1> HIDE DEF p
<1>3. Range(p) \subseteq Range(q) \cup {x}
  BY <1>1, <1>2 DEF Range
<1>4. Range(q) \cup {x} \subseteq Range(p)
  BY <1>1, <1>2 DEF Range
<1>5. p # <<>>
  BY <1>1, <1>2
<1> QED BY <1>1, <1>3, <1>4, <1>5 DEF p

LEMMA RisingAppended ==
  ASSUME NEW q \in Seq(Nat), NEW x \in Nat, Rising(q), \A y \in Range(q) : y < x
  PROVE  Rising(Append(q, x))
<1> DEFINE p == Append(q, x)
<1>1. /\ p \in Seq(Nat) /\ Len(p) = Len(q) + 1
      /\ \A i \in 1 .. Len(q) : p[i] = q[i]
      /\ p[Len(q) + 1] = x
  BY AppendProperties
<1>2. Len(q) \in Nat /\ DOMAIN q = 1 .. Len(q) /\ DOMAIN p = 1 .. Len(q) + 1
  BY <1>1
<1>3. \A i \in 1 .. Len(q) : q[i] < x
  BY <1>2 DEF Range
<1> HIDE DEF p
<1>4. ASSUME NEW a \in DOMAIN p, NEW b \in DOMAIN p, a < b
      PROVE  p[a] < p[b]
  <2>1. a \in 1 .. Len(q)
    BY <1>2, <1>4
  <2>2. CASE b \in 1 .. Len(q)
    BY <1>1, <1>2, <1>4, <2>1, <2>2 DEF Rising
  <2>3. CASE b = Len(q) + 1
    BY <1>1, <1>3, <2>1, <2>3
  <2> QED BY <1>2, <2>2, <2>3
<1> QED BY <1>4 DEF Rising, p

LEMMA BinIs ==
  ASSUME NEW n \in Nat, NEW entries, NEW bucket \in Seq(1 .. n), NEW s
  PROVE  /\ Bin(entries, bucket, s) \in Seq(1 .. n)
         /\ Range(Bin(entries, bucket, s)) = {i \in Range(bucket) : entries[i].shape = s}
         /\ Rising(bucket) => Rising(Bin(entries, bucket, s))
<1> DEFINE N == Len(bucket)
           X == Seq(1 .. n)
           Next1(k, q) == IF entries[bucket[k]].shape = s THEN Append(q, bucket[k]) ELSE q
           Eqn(f) == f = [k \in 0 .. N |-> IF k = 0 THEN <<>> ELSE Next1(k, f[k - 1])]
           bin == CHOOSE f : Eqn(f)
           step == [p \in Nat \X X |-> IF p[1] \in 1 .. N THEN Next1(p[1], p[2]) ELSE p[2]]
<1>1. N \in Nat /\ DOMAIN bucket = 1 .. N /\ \A k \in 1 .. N : bucket[k] \in 1 .. n
  OBVIOUS
<1>2. <<>> \in X
  OBVIOUS
<1>3. Bin(entries, bucket, s) = bin[N]
  BY DEF Bin
<1>4. ASSUME NEW k \in 1 .. N, NEW q \in X
      PROVE  Next1(k, q) \in X
  BY <1>1, Appended
<1>5. \E f : Eqn(f)
  <2>1. step \in [Nat \X X -> X]
    <3> HIDE DEF N, X, Next1
    <3>1. ASSUME NEW p \in Nat \X X
          PROVE  (IF p[1] \in 1 .. N THEN Next1(p[1], p[2]) ELSE p[2]) \in X
      BY <1>4
    <3> QED BY <3>1
  <2>2. PICK f \in [0 .. N -> X] : Follows(<<>>, step, N, f)
    <3> HIDE DEF N, X, step
    <3> QED BY <1>1, <1>2, <2>1, Stages DEF Reaches
  <2>3. ASSUME NEW k \in 0 .. N
        PROVE  f[k] = IF k = 0 THEN <<>> ELSE Next1(k, f[k - 1])
    <3>1. k # 0 => k \in 1 .. N /\ f[k - 1] \in X /\ k \in Nat
      <4> HIDE DEF X, N
      <4> QED BY <1>1
    <3>2. k # 0 => step[<<k, f[k - 1]>>] = Next1(k, f[k - 1])
      <4> HIDE DEF X, N, Next1
      <4> QED BY <3>1
    <3> HIDE DEF step, N, X, Next1
    <3> QED BY <2>2, <3>1, <3>2 DEF Follows
  <2> QED BY <2>3
<1>6. Eqn(bin)
  <2> HIDE DEF Eqn
  <2> QED BY <1>5
<1>7. \A k \in 0 .. N : bin[k] = IF k = 0 THEN <<>> ELSE Next1(k, bin[k - 1])
  <2>1. ASSUME NEW f, Eqn(f)
        PROVE  \A k \in 0 .. N : f[k] = IF k = 0 THEN <<>> ELSE Next1(k, f[k - 1])
    BY <2>1
  <2> HIDE DEF bin, Eqn
  <2> QED BY <1>6, <2>1
<1> DEFINE Upto(k) == {i \in {bucket[j] : j \in 1 .. k} : entries[i].shape = s}
           Right(k) == /\ bin[k] \in X
                       /\ Range(bin[k]) = Upto(k)
                       /\ Rising(bucket) => Rising(bin[k])
<1> HIDE DEF bin
<1>8. Right(0)
  <2>1. bin[0] = <<>>
    BY <1>1, <1>7
  <2> QED BY <1>2, <2>1 DEF Range, Rising
<1>9. ASSUME NEW k \in 1 .. N, Right(k - 1)
      PROVE  Right(k)
  <2>1. bin[k] = Next1(k, bin[k - 1]) /\ k \in Nat /\ k # 0
    BY <1>1, <1>7
  <2>2. {bucket[j] : j \in 1 .. k} = {bucket[j] : j \in 1 .. k - 1} \cup {bucket[k]}
    BY <2>1
  <2>3. CASE entries[bucket[k]].shape # s
    <3>1. bin[k] = bin[k - 1] /\ Upto(k) = Upto(k - 1)
      BY <2>1, <2>2, <2>3
    <3> QED BY <1>9, <3>1
  <2>4. CASE entries[bucket[k]].shape = s
    <3>1. bin[k] = Append(bin[k - 1], bucket[k]) /\ Upto(k) = Upto(k - 1) \cup {bucket[k]}
      BY <2>1, <2>2, <2>4
    <3>2. bin[k] \in X /\ Range(bin[k]) = Upto(k)
      <4> HIDE DEF Upto
      <4> QED BY <1>1, <1>9, <3>1, Appended
    <3>3. ASSUME Rising(bucket)
          PROVE  Rising(bin[k])
      <4>1. ASSUME NEW y \in Upto(k - 1)
            PROVE  y < bucket[k]
        <5>1. PICK j \in 1 .. k - 1 : y = bucket[j]
          OBVIOUS
        <5>2. j \in 1 .. N /\ j < k
          BY <1>1
        <5> QED BY <1>1, <3>3, <5>1, <5>2 DEF Rising
      <4>2. bin[k - 1] \in Seq(Nat) /\ bucket[k] \in Nat
        <5>1. bin[k - 1] \in Seq(1 .. n)
          BY <1>9
        <5>2. \A q \in Seq(1 .. n) : q \in Seq(Nat)
          OBVIOUS
        <5> QED BY <1>1, <5>1, <5>2
      <4> HIDE DEF Upto
      <4> QED BY <1>9, <3>1, <3>3, <4>1, <4>2, RisingAppended
    <3> QED BY <3>2, <3>3
  <2> QED BY <2>3, <2>4
<1>10. \A k \in 0 .. N : Right(k)
  <2> HIDE DEF Right
  <2> DEFINE Bad == {k \in 0 .. N : ~Right(k)}
  <2> SUFFICES ASSUME Bad # {} PROVE FALSE
    OBVIOUS
  <2>1. PICK k \in Bad : \A j \in Bad : k <= j
    <3>1. Bad \in SUBSET Nat
      BY <1>1
    <3> HIDE DEF Bad
    <3> QED BY <3>1, Least
  <2>2. k \in 1 .. N /\ k - 1 \in 0 .. N
    BY <1>1, <1>8, <2>1
  <2>3. k - 1 \notin Bad
    BY <2>1, <2>2
  <2> QED BY <1>9, <2>1, <2>2, <2>3
<1>11. Upto(N) = {i \in Range(bucket) : entries[i].shape = s}
  BY <1>1 DEF Range
<1>12. Right(N)
  <2>1. N \in 0 .. N
    BY <1>1
  <2> HIDE DEF Right, N
  <2> QED BY <1>10, <2>1
<1> QED BY <1>3, <1>11, <1>12

(* The elements of a finite set in a strict order: each has a rank. *)
LEMMA Ranks ==
  ASSUME NEW S, IsFiniteSet(S), NEW R,
         \A x \in S : <<x, x>> \notin R,
         \A x, y \in S : x # y => <<x, y>> \in R \/ <<y, x>> \in R,
         \A x, y, z \in S : <<x, y>> \in R /\ <<y, z>> \in R => <<x, z>> \in R
  PROVE  /\ \A k \in 1 .. Cardinality(S) : \E x \in S : Cardinality({y \in S : <<y, x>> \in R}) = k - 1
         /\ \A x \in S : Cardinality({y \in S : <<y, x>> \in R}) + 1 \in 1 .. Cardinality(S)
         /\ \A x, y \in S : Cardinality({z \in S : <<z, x>> \in R}) = Cardinality({z \in S : <<z, y>> \in R}) => x = y
<1> DEFINE B(x) == {y \in S : <<y, x>> \in R}
           n == Cardinality(S)
           f == [x \in S |-> Cardinality(B(x)) + 1]
<1>1. n \in Nat
  BY FS_CardinalityType
<1>2. ASSUME NEW x \in S
      PROVE  IsFiniteSet(B(x)) /\ Cardinality(B(x)) \in Nat /\ Cardinality(B(x)) < n
  <2>1. B(x) \in SUBSET S /\ x \notin B(x)
    OBVIOUS
  <2> HIDE DEF B
  <2>2. IsFiniteSet(B(x)) /\ Cardinality(B(x)) <= n /\ Cardinality(B(x)) # n
    BY <2>1, FS_Subset
  <2>3. Cardinality(B(x)) \in Nat
    BY <2>2, FS_CardinalityType
  <2> QED BY <1>1, <2>2, <2>3
<1>3. ASSUME NEW x \in S, NEW y \in S, <<x, y>> \in R
      PROVE  Cardinality(B(x)) < Cardinality(B(y))
  <2>1. B(x) \in SUBSET B(y) /\ x \in B(y) /\ x \notin B(x)
    BY <1>3
  <2>2. /\ IsFiniteSet(B(y)) /\ Cardinality(B(x)) \in Nat /\ Cardinality(B(y)) \in Nat
    BY <1>2
  <2> HIDE DEF B
  <2>3. Cardinality(B(x)) <= Cardinality(B(y)) /\ Cardinality(B(x)) # Cardinality(B(y))
    BY <2>1, <2>2, FS_Subset
  <2> QED BY <2>2, <2>3
<1>4. \A x, y \in S : Cardinality(B(x)) = Cardinality(B(y)) => x = y
  <2> SUFFICES ASSUME NEW x \in S, NEW y \in S, x # y
               PROVE  Cardinality(B(x)) # Cardinality(B(y))
    BY Zenon
  <2>1. Cardinality(B(x)) \in Nat /\ Cardinality(B(y)) \in Nat
    BY <1>2
  <2>2. Cardinality(B(x)) < Cardinality(B(y)) \/ Cardinality(B(y)) < Cardinality(B(x))
    BY <1>3
  <2> HIDE DEF B
  <2> QED BY <2>1, <2>2
<1>5. \A x \in S : Cardinality(B(x)) + 1 \in 1 .. n
  <2> HIDE DEF B, n
  <2> QED BY <1>1, <1>2
<1>6. f \in Injection(S, 1 .. n)
  <2> HIDE DEF B, n
  <2>1. f \in [S -> 1 .. n]
    BY <1>5
  <2>2. \A x, y \in S : f[x] = f[y] => x = y
    BY <1>2, <1>4
  <2> QED BY <2>1, <2>2 DEF Injection, IsInjective
<1>7. f \in Surjection(S, 1 .. n)
  <2>1. IsFiniteSet(1 .. n) /\ Cardinality(1 .. n) = n
    BY <1>1, FS_Interval
  <2> HIDE DEF f
  <2> QED BY <1>6, <2>1, FS_Injection
<1>8. \A k \in 1 .. n : \E x \in S : Cardinality(B(x)) = k - 1
  <2> TAKE k \in 1 .. n
  <2>1. PICK x \in S : f[x] = k
    <3> HIDE DEF f
    <3> QED BY <1>7 DEF Surjection
  <2>2. Cardinality(B(x)) + 1 = k /\ Cardinality(B(x)) \in Nat
    BY <1>2, <2>1
  <2> HIDE DEF B
  <2> QED BY <2>2
<1> HIDE DEF f
<1> QED BY <1>4, <1>5, <1>8

(* A bucket's part: k entries filed.  Each is in one bucket, by its context; *)
(* buckets and what is in them are in the order of the entries.              *)
Partition(entries, k, bs) ==
  /\ bs \in Seq(Numbers(k))
  /\ \A b \in DOMAIN bs : Rising(bs[b])
  /\ \A i \in 1 .. k : \E b \in DOMAIN bs : i \in Range(bs[b])
  /\ \A b, c \in DOMAIN bs : \A i \in Range(bs[b]), j \in Range(bs[c]) :
       Context(entries[i]) = Context(entries[j]) <=> b = c
  /\ \A b, c \in DOMAIN bs : b < c => bs[b][1] < bs[c][1]

LEMMA FirstIn ==
  ASSUME NEW n \in Nat, NEW q \in Numbers(n)
  PROVE  /\ q \in Seq(1 .. n) /\ DOMAIN q = 1 .. Len(q) /\ Len(q) \in Nat /\ 1 \in DOMAIN q /\ q[1] \in Range(q)
         /\ Range(q) \subseteq 1 .. n
<1>1. q \in Seq(1 .. n) /\ q # <<>>
  BY DEF Numbers
<1>2. DOMAIN q = 1 .. Len(q) /\ Len(q) \in Nat /\ 1 \in DOMAIN q
  BY <1>1
<1> QED BY <1>1, <1>2 DEF Range

LEMMA Refiled ==
  ASSUME NEW k \in Nat, NEW entries, NEW bs, Partition(entries, k, bs)
  PROVE  Partition(entries, k + 1, Filed(entries, bs, k + 1))
<1> DEFINE i == k + 1
           mine == {b \in DOMAIN bs : Context(entries[bs[b][1]]) = Context(entries[i])}
           new == Filed(entries, bs, i)
<1>1. /\ bs \in Seq(Numbers(k)) /\ DOMAIN bs = 1 .. Len(bs) /\ Len(bs) \in Nat
      /\ \A b \in DOMAIN bs : bs[b] \in Numbers(k)
  BY DEF Partition
<1>2. i \in 1 .. i /\ i \in Nat /\ 1 .. i = 1 .. k \cup {i}
  OBVIOUS
<1>3. ASSUME NEW b \in DOMAIN bs
      PROVE  /\ bs[b] \in Numbers(i) /\ bs[b] \in Seq(Nat) /\ bs[b][1] \in Range(bs[b]) /\ bs[b][1] \in 1 .. k
             /\ \A j \in Range(bs[b]) : j \in 1 .. k /\ j < i
             /\ 1 \in DOMAIN bs[b]
  <2>1. /\ bs[b] \in Seq(1 .. k) /\ bs[b] # <<>> /\ bs[b][1] \in Range(bs[b]) /\ Range(bs[b]) \subseteq 1 .. k
        /\ 1 \in DOMAIN bs[b]
    BY <1>1, FirstIn DEF Numbers
  <2>2. ASSUME NEW q \in Seq(1 .. k)
        PROVE  q \in Seq(1 .. i) /\ q \in Seq(Nat)
    BY <1>2
  <2> QED BY <1>2, <2>1, <2>2 DEF Numbers
<1>4. bs \in Seq(Numbers(i))
  BY <1>1, <1>3
<1>5. ASSUME NEW b \in DOMAIN bs, NEW j \in Range(bs[b])
      PROVE  Context(entries[j]) = Context(entries[i]) <=> b \in mine
  <2>1. Context(entries[j]) = Context(entries[bs[b][1]])
    <3>1. bs[b][1] \in Range(bs[b])
      BY <1>3
    <3>2. \A l, h \in Range(bs[b]) : Context(entries[l]) = Context(entries[h])
      BY DEF Partition
    <3> QED BY <3>1, <3>2
  <2> QED BY <2>1
<1>6. CASE mine = {}
  <2>1. new = Append(bs, <<i>>)
    BY <1>6 DEF Filed
  <2>2. <<i>> \in Numbers(i) /\ Rising(<<i>>) /\ Range(<<i>>) = {i} /\ <<i>>[1] = i
    BY <1>2 DEF Numbers, Rising, Range
  <2>3. /\ new \in Seq(Numbers(i)) /\ DOMAIN new = 1 .. Len(bs) + 1
        /\ \A b \in 1 .. Len(bs) : new[b] = bs[b]
        /\ new[Len(bs) + 1] = <<i>>
    <3> DEFINE one == <<i>>
    <3> HIDE DEF one, i, new
    <3> QED BY <1>1, <1>4, <2>1, <2>2, AppendProperties DEF one
  <2> HIDE DEF new
  <2>4. ASSUME NEW b \in DOMAIN new
        PROVE  Rising(new[b])
    <3>1. CASE b \in DOMAIN bs
      <4>1. Rising(bs[b]) /\ new[b] = bs[b]
        BY <1>1, <2>3, <3>1 DEF Partition
      <4> QED BY <4>1
    <3>2. CASE b = Len(bs) + 1
      BY <2>2, <2>3, <3>2
    <3> QED BY <1>1, <2>3, <3>1, <3>2
  <2>5. \A j \in 1 .. i : \E b \in DOMAIN new : j \in Range(new[b])
    <3> TAKE j \in 1 .. i
    <3>1. CASE j = i
      BY <1>1, <2>2, <2>3, <3>1
    <3>2. CASE j \in 1 .. k
      <4>1. PICK b \in DOMAIN bs : j \in Range(bs[b])
        BY <3>2 DEF Partition
      <4> QED BY <1>1, <2>3, <4>1
    <3> QED BY <1>2, <3>1, <3>2
  <2>6. ASSUME NEW b \in DOMAIN new, NEW c \in DOMAIN new, NEW j \in Range(new[b]), NEW l \in Range(new[c])
        PROVE  Context(entries[j]) = Context(entries[l]) <=> b = c
    <3>1. CASE b \in DOMAIN bs /\ c \in DOMAIN bs
      BY <1>1, <2>3, <3>1 DEF Partition
    <3>2. CASE b \in DOMAIN bs /\ c = Len(bs) + 1
      <4>1. l = i /\ j \in Range(bs[b]) /\ b # c
        BY <1>1, <2>2, <2>3, <3>2
      <4> QED BY <1>5, <1>6, <3>2, <4>1
    <3>3. CASE c \in DOMAIN bs /\ b = Len(bs) + 1
      <4>1. j = i /\ l \in Range(bs[c]) /\ b # c
        BY <1>1, <2>2, <2>3, <3>3
      <4> QED BY <1>5, <1>6, <3>3, <4>1
    <3>4. CASE b = Len(bs) + 1 /\ c = Len(bs) + 1
      BY <2>2, <2>3, <3>4
    <3> QED BY <1>1, <2>3, <3>1, <3>2, <3>3, <3>4
  <2>7. ASSUME NEW b \in DOMAIN new, NEW c \in DOMAIN new, b < c
        PROVE  new[b][1] < new[c][1]
    <3>1. b \in DOMAIN bs
      BY <1>1, <2>3, <2>7
    <3>2. CASE c \in DOMAIN bs
      BY <1>1, <2>3, <2>7, <3>1, <3>2 DEF Partition
    <3>3. CASE c = Len(bs) + 1
      <4>1. new[b][1] \in 1 .. k /\ new[c][1] = i
        BY <1>1, <1>3, <2>2, <2>3, <3>1, <3>3
      <4> QED BY <4>1
    <3> QED BY <1>1, <2>3, <3>2, <3>3
  <2> QED BY <2>3, <2>4, <2>5, <2>6, <2>7 DEF Partition, new
<1>7. CASE mine # {}
  <2> DEFINE m == Min(mine)
             q == Append(bs[m], i)
  <2>1. m \in mine
    <3>0. IsFiniteSet(1 .. Len(bs))
      <4>1. Len(bs) \in Int /\ 1 \in Int
        BY <1>1
      <4> QED BY <4>1, FS_Interval
    <3>1. mine \in SUBSET Nat /\ mine \in SUBSET (1 .. Len(bs)) /\ IsFiniteSet(1 .. Len(bs))
      BY <1>1, <3>0
    <3>2. IsFiniteSet(mine)
      BY <3>1, FS_Subset
    <3> HIDE DEF mine
    <3> QED BY <1>7, <3>1, <3>2, MinMember
  <2>2. \A b \in mine : b = m
    <3> TAKE b \in mine
    <3>1. Context(entries[bs[b][1]]) = Context(entries[bs[m][1]]) /\ b \in DOMAIN bs /\ m \in DOMAIN bs
      BY <2>1
    <3>2. bs[b][1] \in Range(bs[b]) /\ bs[m][1] \in Range(bs[m])
      BY <1>3, <3>1
    <3> HIDE DEF m, mine
    <3> QED BY <3>1, <3>2 DEF Partition
  <2>3. new = [bs EXCEPT ![m] = q]
    BY <1>7 DEF Filed
  <2> HIDE DEF m
  <2>4. m \in DOMAIN bs
    BY <2>1
  <2>5. bs[m] \in Seq(1 .. i) /\ bs[m] \in Seq(Nat) /\ bs[m] # <<>> /\ 1 \in DOMAIN bs[m]
    BY <1>3, <2>4 DEF Numbers
  <2>6. q \in Numbers(i) /\ Range(q) = Range(bs[m]) \cup {i}
    BY <1>2, <2>5, Appended DEF Numbers
  <2>7. Rising(q)
    <3>1. Rising(bs[m]) /\ \A y \in Range(bs[m]) : y < i
      BY <1>3, <2>4 DEF Partition
    <3> HIDE DEF i
    <3> QED BY <1>2, <2>5, <3>1, RisingAppended
  <2>8. q[1] = bs[m][1]
    <3>1. 1 \in 1 .. Len(bs[m])
      BY <2>5
    <3> QED BY <2>5, <3>1, AppendProperties
  <2> HIDE DEF q
  <2>9. /\ new \in Seq(Numbers(i)) /\ DOMAIN new = DOMAIN bs
        /\ \A b \in DOMAIN bs : new[b] = IF b = m THEN q ELSE bs[b]
    <3>1. m \in 1 .. Len(bs) /\ q \in Numbers(i)
      BY <1>1, <2>4, <2>6
    <3> DEFINE N == Numbers(i)
    <3> HIDE DEF N, new
    <3>2. bs \in Seq(N) /\ q \in N
      BY <1>4, <3>1 DEF N
    <3>3. new \in Seq(N) /\ Len(new) = Len(bs)
      BY <2>3, <3>1, <3>2, ExceptSeq
    <3>4. DOMAIN new = DOMAIN bs /\ \A b \in DOMAIN bs : new[b] = IF b = m THEN q ELSE bs[b]
      BY <2>3
    <3> QED BY <3>3, <3>4 DEF N
  <2> HIDE DEF new
  <2>10. ASSUME NEW b \in DOMAIN bs
         PROVE  /\ Range(new[b]) = IF b = m THEN Range(bs[b]) \cup {i} ELSE Range(bs[b])
                /\ new[b][1] = bs[b][1]
                /\ Rising(new[b])
    BY <2>6, <2>7, <2>8, <2>9 DEF Partition
  <2>11. \A j \in 1 .. i : \E b \in DOMAIN new : j \in Range(new[b])
    <3> TAKE j \in 1 .. i
    <3>1. CASE j = i
      BY <2>4, <2>9, <2>10, <3>1
    <3>2. CASE j \in 1 .. k
      <4>1. PICK b \in DOMAIN bs : j \in Range(bs[b])
        BY <3>2 DEF Partition
      <4> QED BY <2>9, <2>10, <4>1
    <3> QED BY <1>2, <3>1, <3>2
  <2>12. ASSUME NEW b \in DOMAIN bs, NEW j \in Range(new[b])
         PROVE  j \in Range(bs[b]) \/ (j = i /\ b = m)
    BY <2>10
  <2>13. ASSUME NEW b \in DOMAIN bs, NEW j \in Range(bs[b])
         PROVE  Context(entries[j]) = Context(entries[i]) <=> b = m
    BY <1>5, <2>1, <2>2
  <2>14. ASSUME NEW b \in DOMAIN new, NEW c \in DOMAIN new, NEW j \in Range(new[b]), NEW l \in Range(new[c])
         PROVE  Context(entries[j]) = Context(entries[l]) <=> b = c
    <3>0. b \in DOMAIN bs /\ c \in DOMAIN bs
      BY <2>9
    <3>1. CASE j \in Range(bs[b]) /\ l \in Range(bs[c])
      BY <3>0, <3>1 DEF Partition
    <3>2. CASE j \in Range(bs[b]) /\ l = i /\ c = m
      BY <2>13, <3>0, <3>2
    <3>3. CASE j = i /\ b = m /\ l \in Range(bs[c])
      <4>1. Context(entries[l]) = Context(entries[i]) <=> c = m
        BY <2>13, <3>0, <3>3
      <4> QED BY <3>3, <4>1
    <3>4. CASE j = i /\ b = m /\ l = i /\ c = m
      BY <3>4
    <3> QED BY <3>0, <2>12, <3>1, <3>2, <3>3, <3>4
  <2>15. \A b, c \in DOMAIN new : b < c => new[b][1] < new[c][1]
    BY <2>9, <2>10 DEF Partition
  <2> QED BY <2>9, <2>10, <2>11, <2>14, <2>15 DEF Partition, new
<1> QED BY <1>6, <1>7

(* partitionGroupEntries is a recursive function of what it files. *)
LEMMA BucketsStages ==
  ASSUME NEW S, NEW entries \in Seq(S)
  PROVE  \E filed : /\ Buckets(entries) = filed[Len(entries)]
                    /\ \A i \in 0 .. Len(entries) :
                         filed[i] = IF i = 0 THEN <<>> ELSE Filed(entries, filed[i - 1], i)
<1> DEFINE n == Len(entries)
           X == Seq(Numbers(n))
           Eqn(f) == f = [i \in 0 .. n |-> IF i = 0 THEN <<>> ELSE Filed(entries, f[i - 1], i)]
           filed == CHOOSE f : Eqn(f)
           step == [p \in Nat \X X |-> IF p[1] \in 1 .. n THEN Filed(entries, p[2], p[1]) ELSE p[2]]
<1>1. n \in Nat
  OBVIOUS
<1>2. <<>> \in X
  OBVIOUS
<1>3. Buckets(entries) = filed[n]
  BY DEF Buckets
<1>4. \E f : Eqn(f)
  <2>1. step \in [Nat \X X -> X]
    <3> HIDE DEF n, X
    <3>1. ASSUME NEW p \in Nat \X X
          PROVE  (IF p[1] \in 1 .. n THEN Filed(entries, p[2], p[1]) ELSE p[2]) \in X
      BY <1>1, FiledType DEF X
    <3> QED BY <3>1
  <2>2. PICK f \in [0 .. n -> X] : Follows(<<>>, step, n, f)
    <3> HIDE DEF n, X, step
    <3> QED BY <1>1, <1>2, <2>1, Stages DEF Reaches
  <2>3. ASSUME NEW i \in 0 .. n
        PROVE  f[i] = IF i = 0 THEN <<>> ELSE Filed(entries, f[i - 1], i)
    <3>1. i # 0 => i \in 1 .. n /\ f[i - 1] \in X /\ i \in Nat
      BY <1>1
    <3>2. i # 0 => step[<<i, f[i - 1]>>] = Filed(entries, f[i - 1], i)
      BY <3>1
    <3> HIDE DEF step, n, X
    <3> QED BY <2>2, <3>1, <3>2 DEF Follows
  <2> QED BY <2>3
<1>5. Eqn(filed)
  <2> HIDE DEF Eqn
  <2> QED BY <1>4
<1>6. \A i \in 0 .. n : filed[i] = IF i = 0 THEN <<>> ELSE Filed(entries, filed[i - 1], i)
  <2>1. ASSUME NEW f, Eqn(f)
        PROVE  \A i \in 0 .. n : f[i] = IF i = 0 THEN <<>> ELSE Filed(entries, f[i - 1], i)
    BY <2>1
  <2> HIDE DEF filed, Eqn
  <2> QED BY <1>5, <2>1
<1> HIDE DEF filed
<1> QED BY <1>3, <1>6

(* The buckets of a group partition it by context. *)
LEMMA BucketsPartition ==
  ASSUME NEW S, NEW entries \in Seq(S)
  PROVE  Partition(entries, Len(entries), Buckets(entries))
<1> DEFINE n == Len(entries)
<1>1. n \in Nat
  OBVIOUS
<1>2. PICK filed : /\ Buckets(entries) = filed[n]
                   /\ \A i \in 0 .. n : filed[i] = IF i = 0 THEN <<>> ELSE Filed(entries, filed[i - 1], i)
  BY BucketsStages
<1> HIDE DEF n
<1> DEFINE Right(k) == Partition(entries, k, filed[k])
<1>3. Right(0)
  <2>1. filed[0] = <<>>
    BY <1>1, <1>2
  <2> QED BY <2>1 DEF Partition
<1>4. ASSUME NEW k \in 1 .. n, Right(k - 1)
      PROVE  Right(k)
  <2>1. k \in 0 .. n /\ k # 0 /\ k - 1 \in Nat /\ (k - 1) + 1 = k
    BY <1>1
  <2>2. filed[k] = Filed(entries, filed[k - 1], k)
    BY <1>2, <2>1
  <2>3. Partition(entries, (k - 1) + 1, Filed(entries, filed[k - 1], (k - 1) + 1))
    BY <1>4, <2>1, Refiled
  <2> QED BY <2>1, <2>2, <2>3
<1>5. \A k \in 0 .. n : Right(k)
  <2> HIDE DEF Right
  <2> DEFINE Bad == {k \in 0 .. n : ~Right(k)}
  <2> SUFFICES ASSUME Bad # {} PROVE FALSE
    OBVIOUS
  <2>1. PICK k \in Bad : \A j \in Bad : k <= j
    <3>1. Bad \in SUBSET Nat
      BY <1>1
    <3> HIDE DEF Bad
    <3> QED BY <3>1, Least
  <2>2. k \in 1 .. n /\ k - 1 \in 0 .. n
    BY <1>1, <1>3, <2>1
  <2>3. k - 1 \notin Bad
    BY <2>1, <2>2
  <2> QED BY <1>4, <2>1, <2>2, <2>3
<1> QED BY <1>1, <1>2, <1>5 DEF n

(* FirstOf, of a group's entries. *)
First(entries, i) == Min({j \in DOMAIN entries : SameContext(entries[i], entries[j])})

LEMMA MinIs ==
  ASSUME NEW T \in SUBSET Nat, NEW x \in T, \A y \in T : x <= y
  PROVE  Min(T) = x
<1>1. \A z \in T : (\A y \in T : z <= y) => z = x
  OBVIOUS
<1> QED BY <1>1 DEF Min

LEMMA FirstIs ==
  ASSUME NEW S, NEW entries \in Seq(S), NEW bs, Partition(entries, Len(entries), bs),
         NEW b \in DOMAIN bs, NEW i \in Range(bs[b])
  PROVE  First(entries, i) = bs[b][1]
<1> DEFINE n == Len(entries)
           mates == {j \in DOMAIN entries : SameContext(entries[i], entries[j])}
<1>1. n \in Nat /\ DOMAIN entries = 1 .. n
  OBVIOUS
<1>2. \A c \in DOMAIN bs : bs[c] \in Numbers(n)
  BY DEF Partition
<1>3. bs[b] \in Seq(1 .. n) /\ DOMAIN bs[b] = 1 .. Len(bs[b]) /\ 1 \in DOMAIN bs[b] /\ bs[b][1] \in Range(bs[b])
      /\ Range(bs[b]) \subseteq 1 .. n /\ Len(bs[b]) \in Nat
  BY <1>1, <1>2, FirstIn
<1>4. \A j : SameContext(entries[i], entries[j]) <=> Context(entries[i]) = Context(entries[j])
  BY DEF SameContext, Context, Stream
<1>5. mates = Range(bs[b])
  <2>1. ASSUME NEW j \in mates
        PROVE  j \in Range(bs[b])
    <3>1. PICK c \in DOMAIN bs : j \in Range(bs[c])
      BY <1>1 DEF Partition
    <3> QED BY <1>4, <3>1 DEF Partition
  <2>2. ASSUME NEW j \in Range(bs[b])
        PROVE  j \in mates
    BY <1>1, <1>3, <1>4 DEF Partition
  <2> QED BY <2>1, <2>2
<1>6. \A j \in Range(bs[b]) : bs[b][1] <= j
  <2> TAKE j \in Range(bs[b])
  <2>1. PICK a \in DOMAIN bs[b] : j = bs[b][a]
    BY DEF Range
  <2>2. Rising(bs[b])
    BY DEF Partition
  <2>3. a = 1 \/ (1 < a /\ bs[b][1] < bs[b][a])
    BY <1>3, <2>2 DEF Rising
  <2>4. bs[b][1] \in Nat /\ j \in Nat
    BY <1>3
  <2> QED BY <2>1, <2>3, <2>4
<1>7. mates \in SUBSET Nat
  BY <1>1
<1> HIDE DEF mates
<1>8. Min(mates) = bs[b][1]
  BY <1>3, <1>5, <1>6, <1>7, MinIs
<1> QED BY <1>8 DEF First, mates

(* What a group may issue before what: a bucket that appears before another, *)
(* and in one bucket, unless it is fused, what was recorded before.          *)
Earlier(fused, entries, i, j) ==
  \/ First(entries, i) < First(entries, j)
  \/ First(entries, i) = First(entries, j) /\ i # j /\ (fused \/ i < j)

Sorted(fused, entries, q) == \A a, b \in DOMAIN q : a < b => Earlier(fused, entries, q[a], q[b])
Together(entries, q) == \A i \in Range(q) : First(entries, i) = First(entries, q[1])
Within(us) == UNION {Range(us[a]) : a \in DOMAIN us}
Lined(fused, entries, us) ==
  /\ us \in Seq(Numbers(Len(entries)))
  /\ \A a \in DOMAIN us : Sorted(fused, entries, us[a]) /\ Together(entries, us[a])
  /\ \A a, b \in DOMAIN us : a < b => \A i \in Range(us[a]), j \in Range(us[b]) : Earlier(fused, entries, i, j)

(* An entry that no unit has: its bucket is refused as a whole. *)
Excused(fused, entries, us, i) ==
  fused /\ \E a \in DOMAIN us : /\ entries[us[a][1]].flaw # "none"
                               /\ First(entries, i) = First(entries, us[a][1])

LEMMA FunctionSeq ==
  ASSUME NEW T, NEW m \in Nat, NEW f, f = [k \in 1 .. m |-> f[k]], \A k \in 1 .. m : f[k] \in T
  PROVE  f \in Seq(T) /\ DOMAIN f = 1 .. m
<1>1. f \in [1 .. m -> T]
  OBVIOUS
<1> QED BY <1>1

(* The bins of a fused bucket, one to a shape. *)
LEMMA BinsAre ==
  ASSUME NEW n \in Nat, NEW entries, NEW q \in Numbers(n), Rising(q)
  PROVE  LET us == Bins(entries, q)
             N == Cardinality({entries[i].shape : i \in Range(q)})
         IN  /\ N \in Nat /\ us = [k \in 1 .. N |-> us[k]]
             /\ \A k \in 1 .. N : us[k] \in Numbers(n) /\ Rising(us[k]) /\ Range(us[k]) \subseteq Range(q)
             /\ \A k, l \in 1 .. N : k # l => Range(us[k]) \cap Range(us[l]) = {}
             /\ \A i \in Range(q) : \E k \in 1 .. N : i \in Range(us[k])
<1> DEFINE shapes == {entries[i].shape : i \in Range(q)}
           N == Cardinality(shapes)
           bin == [s \in shapes |-> Bin(entries, q, s)]
           R == {rs \in shapes \X shapes : \/ Len(bin[rs[1]]) > Len(bin[rs[2]])
                                           \/ /\ Len(bin[rs[1]]) = Len(bin[rs[2]])
                                              /\ Head(bin[rs[1]]) < Head(bin[rs[2]])}
           before(s) == {r \in shapes : \/ Len(bin[r]) > Len(bin[s])
                                        \/ Len(bin[r]) = Len(bin[s]) /\ Head(bin[r]) < Head(bin[s])}
           pick(k) == CHOOSE s \in shapes : Cardinality(before(s)) = k - 1
           us == Bins(entries, q)
<1>1. q \in Seq(1 .. n) /\ DOMAIN q = 1 .. Len(q) /\ Len(q) \in Nat /\ Range(q) \subseteq 1 .. n
  BY FirstIn
<1>2. IsFiniteSet(shapes)
  <2>1. IsFiniteSet(1 .. Len(q))
    BY <1>1, FS_Interval
  <2> DEFINE f == [k \in 1 .. Len(q) |-> entries[q[k]].shape]
  <2>2. f \in Surjection(1 .. Len(q), shapes)
    <3>1. \A k \in 1 .. Len(q) : f[k] \in shapes
      BY <1>1 DEF Range
    <3>2. \A s \in shapes : \E k \in 1 .. Len(q) : f[k] = s
      BY <1>1 DEF Range
    <3>3. f \in [1 .. Len(q) -> shapes]
      BY <3>1
    <3> HIDE DEF f, shapes
    <3> QED BY <3>2, <3>3 DEF Surjection
  <2> HIDE DEF f, shapes
  <2> QED BY <2>1, <2>2, FS_Surjection
<1>3. N \in Nat
  BY <1>2, FS_CardinalityType
<1>4. ASSUME NEW s \in shapes
      PROVE  /\ bin[s] \in Numbers(n) /\ Rising(bin[s])
             /\ Range(bin[s]) = {i \in Range(q) : entries[i].shape = s}
             /\ Head(bin[s]) \in Range(bin[s]) /\ Head(bin[s]) \in Nat /\ Len(bin[s]) \in Nat
  <2>1. /\ bin[s] \in Seq(1 .. n) /\ Rising(bin[s])
        /\ Range(bin[s]) = {i \in Range(q) : entries[i].shape = s}
    BY <1>1, BinIs
  <2> HIDE DEF bin
  <2>2. bin[s] # <<>>
    <3>1. PICK i \in Range(q) : entries[i].shape = s
      OBVIOUS
    <3>2. i \in Range(bin[s])
      BY <2>1, <3>1
    <3> QED BY <3>2 DEF Range
  <2>3. bin[s] \in Numbers(n)
    BY <2>1, <2>2 DEF Numbers
  <2>4. bin[s][1] \in Range(bin[s]) /\ Range(bin[s]) \subseteq 1 .. n /\ Len(bin[s]) \in Nat
    BY <2>3, FirstIn
  <2>5. Head(bin[s]) = bin[s][1]
    BY <2>1, <2>2
  <2> QED BY <2>1, <2>3, <2>4, <2>5
<1>5. us = [k \in 1 .. N |-> bin[pick(k)]]
  BY DEF Bins
<1> HIDE DEF bin, shapes
<1>6. \A s \in shapes : <<s, s>> \notin R
  BY <1>4
<1>7. \A r, s \in shapes : r # s => <<r, s>> \in R \/ <<s, r>> \in R
  <2> TAKE r \in shapes, s \in shapes
  <2> SUFFICES ASSUME r # s PROVE <<r, s>> \in R \/ <<s, r>> \in R
    OBVIOUS
  <2>1. Head(bin[r]) # Head(bin[s])
    BY <1>4
  <2> QED BY <1>4, <2>1
<1>8. \A r, s, v \in shapes : <<r, s>> \in R /\ <<s, v>> \in R => <<r, v>> \in R
  BY <1>4
<1>9. \A s \in shapes : {r \in shapes : <<r, s>> \in R} = before(s)
  OBVIOUS
<1> HIDE DEF R, before, N
<1>10. /\ \A k \in 1 .. N : \E s \in shapes : Cardinality(before(s)) = k - 1
       /\ \A s \in shapes : Cardinality(before(s)) + 1 \in 1 .. N
       /\ \A r, s \in shapes : Cardinality(before(r)) = Cardinality(before(s)) => r = s
  <2>1. /\ \A k \in 1 .. Cardinality(shapes) :
             \E x \in shapes : Cardinality({y \in shapes : <<y, x>> \in R}) = k - 1
        /\ \A x \in shapes : Cardinality({y \in shapes : <<y, x>> \in R}) + 1 \in 1 .. Cardinality(shapes)
        /\ \A x, y \in shapes :
             Cardinality({z \in shapes : <<z, x>> \in R}) = Cardinality({z \in shapes : <<z, y>> \in R}) => x = y
    BY <1>2, <1>6, <1>7, <1>8, Ranks
  <2> QED BY <1>9, <2>1 DEF N
<1>11. \A k \in 1 .. N : pick(k) \in shapes /\ Cardinality(before(pick(k))) = k - 1
  BY <1>10
<1> HIDE DEF pick
<1>12. ASSUME NEW k \in 1 .. N
       PROVE  us[k] = bin[pick(k)] /\ pick(k) \in shapes
  BY <1>5, <1>11
<1>13. us = [k \in 1 .. N |-> us[k]]
  BY <1>5
<1> HIDE DEF us
<1>14. \A k \in 1 .. N : us[k] \in Numbers(n) /\ Rising(us[k]) /\ Range(us[k]) \subseteq Range(q)
  BY <1>4, <1>12
<1>15. ASSUME NEW k \in 1 .. N, NEW l \in 1 .. N, k # l
       PROVE  Range(us[k]) \cap Range(us[l]) = {}
  <2>1. pick(k) # pick(l)
    BY <1>11, <1>15, <1>3
  <2>2. /\ Range(us[k]) = {i \in Range(q) : entries[i].shape = pick(k)}
        /\ Range(us[l]) = {i \in Range(q) : entries[i].shape = pick(l)}
    BY <1>4, <1>12
  <2> QED BY <2>1, <2>2
<1>16. ASSUME NEW i \in Range(q)
       PROVE  \E k \in 1 .. N : i \in Range(us[k])
  <2>1. entries[i].shape \in shapes
    BY DEF shapes
  <2> DEFINE s == entries[i].shape
             k == Cardinality(before(s)) + 1
  <2>2. k \in 1 .. N /\ Cardinality(before(s)) \in Nat
    <3>1. before(s) \in SUBSET shapes
      BY DEF before
    <3>2. IsFiniteSet(before(s))
      BY <1>2, <3>1, FS_Subset
    <3> QED BY <1>10, <2>1, <3>2, FS_CardinalityType
  <2>3. pick(k) = s
    <3>1. Cardinality(before(pick(k))) = Cardinality(before(s)) /\ pick(k) \in shapes
      BY <1>11, <2>2
    <3> HIDE DEF k
    <3> QED BY <1>10, <2>1, <3>1
  <2> HIDE DEF k
  <2>4. i \in Range(us[k])
    BY <1>4, <1>12, <2>1, <2>2, <2>3
  <2> QED BY <2>2, <2>4
<1> QED BY <1>3, <1>13, <1>14, <1>15, <1>16 DEF N, shapes, us

(* The units of a bucket. *)
LEMMA BucketUnits ==
  ASSUME NEW S, NEW entries \in Seq(S), NEW q \in Numbers(Len(entries)), Rising(q),
         \A i \in Range(q) : First(entries, i) = q[1]
  PROVE  /\ Lined(Fused, entries, Units(entries, q))
         /\ Within(Units(entries, q)) \subseteq Range(q)
         /\ \A i \in Range(q) : i \in Within(Units(entries, q)) \/ Excused(Fused, entries, Units(entries, q), i)
<1> DEFINE n == Len(entries)
           us == Units(entries, q)
<1>1. n \in Nat
  OBVIOUS
<1>2. /\ q \in Seq(1 .. n) /\ DOMAIN q = 1 .. Len(q) /\ Len(q) \in Nat /\ Range(q) \subseteq 1 .. n
      /\ 1 \in DOMAIN q /\ q[1] \in Range(q)
  BY FirstIn
<1>3. ASSUME NEW u \in Numbers(n), Range(u) \subseteq Range(q)
      PROVE  Together(entries, u)
  <2>1. u[1] \in Range(u)
    BY <1>1, FirstIn
  <2> QED BY <1>3, <2>1 DEF Together
<1>4. CASE ~Fuses(q)
  <2>1. us = [k \in 1 .. Len(q) |-> <<q[k]>>]
    BY <1>2, <1>4 DEF Units
  <2>2. ASSUME NEW k \in 1 .. Len(q)
        PROVE  /\ us[k] \in Numbers(n) /\ Range(us[k]) = {q[k]} /\ Sorted(Fused, entries, us[k])
               /\ q[k] \in Range(q)
    <3>1. us[k] = <<q[k]>> /\ q[k] \in 1 .. n /\ q[k] \in Range(q)
      BY <1>2, <2>1 DEF Range
    <3>2. DOMAIN <<q[k]>> = {1} /\ <<q[k]>>[1] = q[k] /\ <<q[k]>> # <<>>
      OBVIOUS
    <3> QED BY <3>1, <3>2 DEF Numbers, Range, Sorted
  <2> HIDE DEF us
  <2>3. us \in Seq(Numbers(n)) /\ DOMAIN us = 1 .. Len(q)
    <3>1. us = [k \in 1 .. Len(q) |-> us[k]]
      BY <2>1
    <3> QED BY <1>2, <2>2, <3>1, FunctionSeq
  <2>4. \A a, b \in DOMAIN us : a < b => \A i \in Range(us[a]), j \in Range(us[b]) : Earlier(Fused, entries, i, j)
    <3>1. ASSUME NEW a \in 1 .. Len(q), NEW b \in 1 .. Len(q), a < b
          PROVE  Earlier(Fused, entries, q[a], q[b])
      <4>1. q[a] < q[b] /\ q[a] \in Nat /\ q[b] \in Nat
        BY <1>2, <3>1 DEF Rising
      <4>2. First(entries, q[a]) = First(entries, q[b])
        BY <2>2
      <4> QED BY <4>1, <4>2 DEF Earlier
    <3> QED BY <2>2, <2>3, <3>1
  <2>5. Lined(Fused, entries, us)
    BY <1>3, <2>2, <2>3, <2>4 DEF Lined
  <2>6. Within(us) = Range(q)
    <3>1. Within(us) \subseteq Range(q)
      BY <2>2, <2>3 DEF Within
    <3>2. \A i \in Range(q) : \E k \in DOMAIN us : i \in Range(us[k])
      BY <1>2, <2>2, <2>3 DEF Range
    <3> QED BY <3>1, <3>2 DEF Within
  <2> QED BY <2>5, <2>6 DEF us
<1>5. CASE Fuses(q)
  <2>0. Fused
    BY <1>5 DEF Fuses, Fused
  <2>1. ASSUME NEW i \in Range(q), NEW j \in Range(q), i # j
        PROVE  Earlier(Fused, entries, i, j)
    BY <2>0, <2>1 DEF Earlier
  <2>2. CASE Flawed(entries, q) = {}
    <3> DEFINE N == Cardinality({entries[i].shape : i \in Range(q)})
    <3>1. us = Bins(entries, q)
      BY <1>5, <2>2 DEF Units
    <3>2. /\ N \in Nat /\ us = [k \in 1 .. N |-> us[k]]
          /\ \A k \in 1 .. N : us[k] \in Numbers(n) /\ Rising(us[k]) /\ Range(us[k]) \subseteq Range(q)
          /\ \A k, l \in 1 .. N : k # l => Range(us[k]) \cap Range(us[l]) = {}
          /\ \A i \in Range(q) : \E k \in 1 .. N : i \in Range(us[k])
      <4> DEFINE vs == Bins(entries, q)
      <4>1. /\ N \in Nat /\ vs = [k \in 1 .. N |-> vs[k]]
            /\ \A k \in 1 .. N : vs[k] \in Numbers(n) /\ Rising(vs[k]) /\ Range(vs[k]) \subseteq Range(q)
            /\ \A k, l \in 1 .. N : k # l => Range(vs[k]) \cap Range(vs[l]) = {}
            /\ \A i \in Range(q) : \E k \in 1 .. N : i \in Range(vs[k])
        BY <1>1, BinsAre
      <4> HIDE DEF N, us
      <4> QED BY <3>1, <4>1
    <3> HIDE DEF N, us
    <3>3. us \in Seq(Numbers(n)) /\ DOMAIN us = 1 .. N
      BY <3>2, FunctionSeq
    <3>4. ASSUME NEW k \in 1 .. N
          PROVE  Sorted(Fused, entries, us[k])
      <4>1. us[k] \in Seq(1 .. n) /\ Rising(us[k]) /\ Range(us[k]) \subseteq Range(q)
        BY <3>2 DEF Numbers
      <4>2. ASSUME NEW a \in DOMAIN us[k], NEW b \in DOMAIN us[k], a < b
            PROVE  Earlier(Fused, entries, us[k][a], us[k][b])
        <5>1. us[k][a] < us[k][b] /\ us[k][a] \in 1 .. n /\ us[k][b] \in 1 .. n
          BY <4>1, <4>2 DEF Rising
        <5>2. us[k][a] \in Range(q) /\ us[k][b] \in Range(q)
          BY <4>1 DEF Range
        <5> QED BY <2>1, <5>1, <5>2
      <4> QED BY <4>2 DEF Sorted
    <3>5. \A a, b \in DOMAIN us : a < b => \A i \in Range(us[a]), j \in Range(us[b]) : Earlier(Fused, entries, i, j)
      <4> TAKE a \in DOMAIN us, b \in DOMAIN us
      <4> SUFFICES ASSUME a < b, NEW i \in Range(us[a]), NEW j \in Range(us[b])
                   PROVE  Earlier(Fused, entries, i, j)
        OBVIOUS
      <4>1. a \in 1 .. N /\ b \in 1 .. N /\ a # b
        BY <3>2, <3>3
      <4>2. i # j /\ i \in Range(q) /\ j \in Range(q)
        BY <3>2, <4>1
      <4> QED BY <2>1, <4>2
    <3>6. Lined(Fused, entries, us)
      BY <1>3, <3>2, <3>3, <3>4, <3>5 DEF Lined
    <3>7. Within(us) = Range(q)
      BY <3>2, <3>3 DEF Within
    <3> QED BY <3>6, <3>7 DEF us
  <2>3. CASE Flawed(entries, q) # {}
    <3> DEFINE m == Min(Flawed(entries, q))
    <3>1. us = <<<<m>>>>
      BY <1>5, <2>3 DEF Units
    <3>2. m \in Flawed(entries, q)
      <4>1. Flawed(entries, q) \in SUBSET (1 .. n) /\ IsFiniteSet(1 .. n)
        BY <1>1, <1>2, FS_Interval DEF Flawed
      <4>2. IsFiniteSet(Flawed(entries, q)) /\ Flawed(entries, q) \in SUBSET Nat
        BY <4>1, FS_Subset
      <4> QED BY <2>3, <4>2, MinMember
    <3> HIDE DEF m, us
    <3>3. m \in Range(q) /\ m \in 1 .. n /\ entries[m].flaw # "none"
      BY <1>2, <3>2 DEF Flawed
    <3>4. DOMAIN us = {1} /\ us[1] = <<m>> /\ Range(<<m>>) = {m} /\ <<m>>[1] = m /\ <<m>> \in Numbers(n)
      BY <3>1, <3>3 DEF Range, Numbers
    <3>5. us \in Seq(Numbers(n))
      <4> DEFINE M == Numbers(n)
                 u == <<m>>
      <4>1. u \in M /\ us = <<u>>
        BY <3>1, <3>4
      <4> HIDE DEF M, u
      <4>2. <<u>> \in Seq(M)
        BY <4>1
      <4> QED BY <4>1, <4>2 DEF M
    <3>6. Sorted(Fused, entries, <<m>>)
      <4>1. DOMAIN <<m>> = {1}
        OBVIOUS
      <4> QED BY <4>1 DEF Sorted
    <3>7. Lined(Fused, entries, us)
      BY <1>3, <3>3, <3>4, <3>5, <3>6 DEF Lined
    <3>8. Within(us) \subseteq Range(q)
      BY <3>3, <3>4 DEF Within
    <3>9. \A i \in Range(q) : Excused(Fused, entries, us, i)
      BY <2>0, <3>3, <3>4 DEF Excused
    <3> QED BY <3>7, <3>8, <3>9 DEF us
  <2> QED BY <2>2, <2>3
<1> QED BY <1>4, <1>5

LEMMA LinedConcat ==
  ASSUME NEW fused, NEW entries, NEW us, NEW vs, Len(entries) \in Nat, Lined(fused, entries, us), Lined(fused, entries, vs),
         \A i \in Within(us), j \in Within(vs) : Earlier(fused, entries, i, j)
  PROVE  /\ Lined(fused, entries, us \o vs)
         /\ Within(us \o vs) = Within(us) \cup Within(vs)
         /\ \A i : Excused(fused, entries, us, i) \/ Excused(fused, entries, vs, i) => Excused(fused, entries, us \o vs, i)
<1> DEFINE N == Numbers(Len(entries))
           ws == us \o vs
<1>1. us \in Seq(N) /\ vs \in Seq(N)
  BY DEF Lined
<1> HIDE DEF N
<1>2. /\ DOMAIN us = 1 .. Len(us) /\ DOMAIN vs = 1 .. Len(vs) /\ Len(us) \in Nat /\ Len(vs) \in Nat
      /\ ws \in Seq(N) /\ DOMAIN ws = 1 .. Len(us) + Len(vs)
      /\ \A a \in 1 .. Len(us) : ws[a] = us[a]
      /\ \A a \in 1 .. Len(vs) : ws[Len(us) + a] = vs[a]
  <2>1. ws \in Seq(N) /\ Len(ws) = Len(us) + Len(vs)
        /\ \A a \in 1 .. Len(us) + Len(vs) : ws[a] = IF a <= Len(us) THEN us[a] ELSE vs[a - Len(us)]
    BY <1>1, ConcatProperties
  <2>2. DOMAIN us = 1 .. Len(us) /\ DOMAIN vs = 1 .. Len(vs) /\ Len(us) \in Nat /\ Len(vs) \in Nat
    BY <1>1
  <2> HIDE DEF ws
  <2>3. DOMAIN ws = 1 .. Len(us) + Len(vs)
    BY <2>1
  <2> QED BY <2>1, <2>2, <2>3
<1>3. ASSUME NEW a \in DOMAIN ws
      PROVE  \/ a \in DOMAIN us /\ ws[a] = us[a]
             \/ a - Len(us) \in DOMAIN vs /\ a > Len(us) /\ ws[a] = vs[a - Len(us)]
  <2>1. CASE a <= Len(us)
    BY <1>2, <2>1
  <2>2. CASE a > Len(us)
    <3>1. a - Len(us) \in 1 .. Len(vs) /\ Len(us) + (a - Len(us)) = a
      BY <1>2, <2>2
    <3> QED BY <1>2, <2>2, <3>1
  <2> QED BY <1>2, <2>1, <2>2
<1>4. /\ \A a \in DOMAIN us : a \in DOMAIN ws /\ ws[a] = us[a]
      /\ \A a \in DOMAIN vs : Len(us) + a \in DOMAIN ws /\ ws[Len(us) + a] = vs[a]
  BY <1>2
<1> HIDE DEF ws
<1>5. \A a \in DOMAIN ws : Sorted(fused, entries, ws[a]) /\ Together(entries, ws[a])
  BY <1>3 DEF Lined
<1>6. ASSUME NEW a \in DOMAIN ws, NEW b \in DOMAIN ws, a < b, NEW i \in Range(ws[a]), NEW j \in Range(ws[b])
      PROVE  Earlier(fused, entries, i, j)
  <2>1. CASE b \in DOMAIN us /\ ws[b] = us[b]
    <3>1. a \in DOMAIN us /\ ws[a] = us[a]
      BY <1>2, <1>3, <1>6, <2>1
    <3> QED BY <1>6, <2>1, <3>1 DEF Lined
  <2>2. CASE b - Len(us) \in DOMAIN vs /\ b > Len(us) /\ ws[b] = vs[b - Len(us)]
    <3>1. CASE a \in DOMAIN us /\ ws[a] = us[a]
      <4>1. i \in Within(us) /\ j \in Within(vs)
        BY <2>2, <3>1 DEF Within
      <4> QED BY <4>1
    <3>2. CASE a - Len(us) \in DOMAIN vs /\ a > Len(us) /\ ws[a] = vs[a - Len(us)]
      <4>1. a - Len(us) < b - Len(us)
        BY <1>2, <1>6
      <4> QED BY <2>2, <3>2, <4>1 DEF Lined
    <3> QED BY <1>3, <3>1, <3>2
  <2> QED BY <1>3, <2>1, <2>2
<1>7. Lined(fused, entries, ws)
  BY <1>2, <1>5, <1>6 DEF Lined, N
<1>8. Within(ws) = Within(us) \cup Within(vs)
  <2>1. Within(ws) \subseteq Within(us) \cup Within(vs)
    BY <1>3 DEF Within
  <2>2. Within(us) \subseteq Within(ws) /\ Within(vs) \subseteq Within(ws)
    BY <1>4 DEF Within
  <2> QED BY <2>1, <2>2
<1>9. \A i : Excused(fused, entries, us, i) \/ Excused(fused, entries, vs, i) => Excused(fused, entries, ws, i)
  BY <1>4 DEF Excused
<1> QED BY <1>7, <1>8, <1>9 DEF ws

(* What a group is executed as: its units are in order, and have every entry *)
(* but those of a bucket that is refused.                                    *)
LEMMA UnitsRight ==
  ASSUME NEW S, NEW entries \in Seq(S)
  PROVE  /\ Lined(Fused, entries, AllUnits(entries))
         /\ \A i \in 1 .. Len(entries) :
              i \in Within(AllUnits(entries)) \/ Excused(Fused, entries, AllUnits(entries), i)
<1> DEFINE N == Numbers(Len(entries))
           bs == Buckets(entries)
           n == Len(bs)
           X == Seq(N)
           Eqn(f) == f = [b \in 0 .. n |-> IF b = 0 THEN <<>> ELSE f[b - 1] \o Units(entries, bs[b])]
           units == CHOOSE f : Eqn(f)
           step == [p \in Nat \X X |-> IF p[1] \in 1 .. n THEN p[2] \o Units(entries, bs[p[1]]) ELSE p[2]]
<1>0. Partition(entries, Len(entries), bs) /\ Len(entries) \in Nat
  BY BucketsPartition
<1>1. bs \in Seq(N) /\ n \in Nat /\ DOMAIN bs = 1 .. n
  BY <1>0 DEF Partition
<1>2. <<>> \in X
  OBVIOUS
<1>3. AllUnits(entries) = units[n]
  BY DEF AllUnits
<1> HIDE DEF bs
<1>4. ASSUME NEW b \in 1 .. n
      PROVE  /\ Lined(Fused, entries, Units(entries, bs[b]))
             /\ Within(Units(entries, bs[b])) \subseteq Range(bs[b])
             /\ \A i \in Range(bs[b]) : \/ i \in Within(Units(entries, bs[b]))
                                        \/ Excused(Fused, entries, Units(entries, bs[b]), i)
             /\ Units(entries, bs[b]) \in X
  <2>1. bs[b] \in N /\ Rising(bs[b]) /\ \A i \in Range(bs[b]) : First(entries, i) = bs[b][1]
    <3>1. bs[b] \in N /\ Rising(bs[b])
      BY <1>0, <1>1 DEF Partition
    <3>2. b \in DOMAIN bs
      BY <1>1
    <3> HIDE DEF N, n
    <3> QED BY <1>0, <3>1, <3>2, FirstIs
  <2> HIDE DEF n
  <2> QED BY <2>1, BucketUnits DEF Lined
<1> HIDE DEF N
<1>5. \E f : Eqn(f)
  <2>1. step \in [Nat \X X -> X]
    <3> HIDE DEF n
    <3>1. ASSUME NEW p \in Nat \X X
          PROVE  (IF p[1] \in 1 .. n THEN p[2] \o Units(entries, bs[p[1]]) ELSE p[2]) \in X
      BY <1>4, ConcatProperties
    <3> HIDE DEF X
    <3> QED BY <3>1
  <2>2. PICK f \in [0 .. n -> X] : Follows(<<>>, step, n, f)
    <3> HIDE DEF n, X, step
    <3> QED BY <1>1, <1>2, <2>1, Stages DEF Reaches
  <2>3. ASSUME NEW b \in 0 .. n
        PROVE  f[b] = IF b = 0 THEN <<>> ELSE f[b - 1] \o Units(entries, bs[b])
    <3>1. b # 0 => b \in 1 .. n /\ f[b - 1] \in X /\ b \in Nat
      <4> HIDE DEF X, n
      <4> QED BY <1>1
    <3>2. b # 0 => step[<<b, f[b - 1]>>] = f[b - 1] \o Units(entries, bs[b])
      <4> HIDE DEF X, n
      <4> QED BY <3>1
    <3> HIDE DEF step, n, X
    <3> QED BY <2>2, <3>1, <3>2 DEF Follows
  <2> QED BY <2>3
<1>6. Eqn(units)
  <2> HIDE DEF Eqn
  <2> QED BY <1>5
<1>7. \A b \in 0 .. n : units[b] = IF b = 0 THEN <<>> ELSE units[b - 1] \o Units(entries, bs[b])
  <2>1. ASSUME NEW f, Eqn(f)
        PROVE  \A b \in 0 .. n : f[b] = IF b = 0 THEN <<>> ELSE f[b - 1] \o Units(entries, bs[b])
    BY <2>1
  <2> HIDE DEF units, Eqn
  <2> QED BY <1>6, <2>1
<1> HIDE DEF n, X, units
<1> DEFINE Right(b) ==
             /\ Lined(Fused, entries, units[b])
             /\ \A i \in Within(units[b]) : \E c \in 1 .. b : i \in Range(bs[c])
             /\ \A c \in 1 .. b : \A i \in Range(bs[c]) :
                  i \in Within(units[b]) \/ Excused(Fused, entries, units[b], i)
<1>8. Right(0)
  <2>1. units[0] = <<>>
    BY <1>1, <1>7
  <2> QED BY <2>1 DEF Lined, Within
<1>9. ASSUME NEW b \in 1 .. n, Right(b - 1)
      PROVE  Right(b)
  <2> DEFINE us == units[b - 1]
             vs == Units(entries, bs[b])
  <2>1. units[b] = us \o vs /\ 1 .. b = 1 .. b - 1 \cup {b}
    <3>1. b \in 0 .. n /\ b # 0 /\ b \in Nat
      BY <1>1
    <3>2. units[b] = units[b - 1] \o Units(entries, bs[b])
      BY <1>7, <3>1
    <3>3. 1 .. b = 1 .. b - 1 \cup {b}
      BY <3>1
    <3> QED BY <3>2, <3>3
  <2>2. /\ Lined(Fused, entries, vs) /\ Within(vs) \subseteq Range(bs[b])
        /\ \A i \in Range(bs[b]) : i \in Within(vs) \/ Excused(Fused, entries, vs, i)
    BY <1>4
  <2>3. /\ Lined(Fused, entries, us)
        /\ \A i \in Within(us) : \E c \in 1 .. b - 1 : i \in Range(bs[c])
        /\ \A c \in 1 .. b - 1 : \A i \in Range(bs[c]) : i \in Within(us) \/ Excused(Fused, entries, us, i)
    BY <1>9
  <2> HIDE DEF us, vs
  <2>4. ASSUME NEW i \in Within(us), NEW j \in Within(vs)
        PROVE  Earlier(Fused, entries, i, j)
    <3>1. PICK c \in 1 .. b - 1 : i \in Range(bs[c])
      BY <2>3
    <3>2. c \in DOMAIN bs /\ b \in DOMAIN bs /\ c < b /\ j \in Range(bs[b])
      BY <1>1, <2>2
    <3>3. First(entries, i) = bs[c][1] /\ First(entries, j) = bs[b][1]
      BY <1>0, <3>1, <3>2, FirstIs
    <3>4. bs[c][1] < bs[b][1]
      BY <1>0, <3>2 DEF Partition
    <3> QED BY <3>3, <3>4 DEF Earlier
  <2>5. /\ Lined(Fused, entries, us \o vs)
        /\ Within(us \o vs) = Within(us) \cup Within(vs)
        /\ \A i : Excused(Fused, entries, us, i) \/ Excused(Fused, entries, vs, i)
             => Excused(Fused, entries, us \o vs, i)
    BY <1>0, <2>2, <2>3, <2>4, LinedConcat
  <2>6. ASSUME NEW i \in Within(units[b])
        PROVE  \E c \in 1 .. b : i \in Range(bs[c])
    BY <2>1, <2>2, <2>3, <2>5
  <2>7. ASSUME NEW c \in 1 .. b, NEW i \in Range(bs[c])
        PROVE  i \in Within(units[b]) \/ Excused(Fused, entries, units[b], i)
    BY <2>1, <2>2, <2>3, <2>5
  <2> QED BY <2>1, <2>5, <2>6, <2>7
<1>10. \A b \in 0 .. n : Right(b)
  <2> HIDE DEF Right
  <2> DEFINE Bad == {b \in 0 .. n : ~Right(b)}
  <2> SUFFICES ASSUME Bad # {} PROVE FALSE
    OBVIOUS
  <2>1. PICK k \in Bad : \A j \in Bad : k <= j
    <3>1. Bad \in SUBSET Nat
      BY <1>1
    <3> HIDE DEF Bad
    <3> QED BY <3>1, Least
  <2>2. k \in 1 .. n /\ k - 1 \in 0 .. n
    BY <1>1, <1>8, <2>1
  <2>3. k - 1 \notin Bad
    BY <2>1, <2>2
  <2> QED BY <1>9, <2>1, <2>2, <2>3
<1>11. Right(n)
  <2> HIDE DEF Right
  <2>1. n \in 0 .. n
    BY <1>1
  <2> QED BY <1>10, <2>1
<1>12. ASSUME NEW i \in 1 .. Len(entries)
       PROVE  i \in Within(units[n]) \/ Excused(Fused, entries, units[n], i)
  <2>1. PICK c \in DOMAIN bs : i \in Range(bs[c])
    BY <1>0 DEF Partition
  <2> QED BY <1>1, <1>11, <2>1
<1> QED BY <1>3, <1>11, <1>12

LEMMA UnitsType ==
  ASSUME NEW S, NEW entries \in Seq(S)
  PROVE  AllUnits(entries) \in Seq(Numbers(Len(entries)))
BY UnitsRight DEF Lined

-----------------------------------------------------------------------------
(* The entry a thread executes is one of its script, and what is left of the *)
(* group it executes names entries of the group.                             *)
IsGroup(g) == g = [active |-> g.active, depth |-> g.depth, error |-> g.error, entries |-> g.entries]
UnitsLeft(r) == r.on => r.units \in Seq(Numbers(Len(r.entries))) /\ r.units # <<>>
IsRunning(r) == UnitsLeft(r) /\ r = [on |-> r.on, entries |-> r.entries, units |-> r.units, issued |-> r.issued]

Named ==
  /\ script \in Scripts
  /\ at = [t \in Threads |-> at[t]] /\ \A t \in Threads : at[t] \in Nat
  /\ group = [t \in Threads |-> group[t]]
  /\ \A t \in Threads : IsGroup(group[t]) /\ group[t].entries \in Seq(Entries)
  /\ running = [t \in Threads |-> running[t]]
  /\ \A t \in Threads : IsRunning(running[t]) /\ running[t].entries \in Seq(Entries)
  /\ \A t \in Threads : pc[t] # "user" => call[t] \in Entries

LEMMA InitNamed ==
  ASSUME CallsInit
  PROVE  Named
<1>1. IsGroup(NoGroup) /\ NoGroup.entries = <<>> /\ IsRunning(NotRunning) /\ NotRunning.entries = <<>>
  BY DEF IsGroup, NoGroup, IsRunning, UnitsLeft, NotRunning
<1>2. <<>> \in Seq(Entries)
  OBVIOUS
<1>3. /\ script \in Scripts /\ at = [t \in Threads |-> 0] /\ group = [t \in Threads |-> NoGroup]
      /\ running = [t \in Threads |-> NotRunning] /\ \A t \in Threads : pc[t] = "user"
  BY DEF CallsInit
<1> QED BY <1>1, <1>2, <1>3 DEF Named

(* A step of the script that is a call. *)
LEMMA StepEntry ==
  ASSUME CallsAssumption, Named, NEW t \in Threads, at[t] < Len(script[t]), Step(t).op = "reshard"
  PROVE  Step(t) \in Entries
<1>1. script[t] \in Seq({script[t][i] : i \in DOMAIN script[t]}) /\ at[t] \in Nat
  BY DEF CallsAssumption, Named
<1>2. at[t] + 1 \in DOMAIN script[t]
  BY <1>1
<1> QED BY <1>2 DEF Entries, Step

LEMMA IssuedEntry ==
  ASSUME CallsAssumption, Named, NEW t \in Threads, Issues(t)
  PROVE  Issued(t) \in Entries
<1>1. CASE running[t].on
  <2>1. Index(running[t]) \in DOMAIN running[t].entries /\ running[t].entries \in Seq(Entries)
    <3>1. /\ running[t].units \in Seq(Numbers(Len(running[t].entries))) /\ running[t].units # <<>>
          /\ running[t].entries \in Seq(Entries)
      BY <1>1 DEF Named, IsRunning, UnitsLeft
    <3> DEFINE unit == Head(running[t].units)
    <3>2. unit \in Numbers(Len(running[t].entries))
      BY <3>1
    <3> HIDE DEF unit
    <3>3. Head(unit) \in 1 .. Len(running[t].entries)
      BY <3>2 DEF Numbers
    <3> QED BY <3>1, <3>3 DEF Index, unit
  <2>2. running[t].entries[Index(running[t])] \in Entries
    BY <2>1
  <2> QED BY <1>1, <2>2 DEF Issued
<1>2. CASE ~running[t].on
  BY <1>2, StepEntry DEF Issues, Issued
<1> QED BY <1>1, <1>2

LEMMA GroupNamed ==
  ASSUME CallsAssumption, Named, NEW t \in Threads,
         GroupStart(t) \/ Enqueue(t) \/ GroupAbort(t) \/ GroupEnd(t)
  PROVE  Named'
<1>0. UNCHANGED <<setting, script, pc, call>>
  BY DEF GroupStart, Enqueue, GroupAbort, GroupEnd, choices
<1>1. Entries' = Entries /\ UNCHANGED <<setting, script, pc, call>>
  BY <1>0 DEF Entries
<1>2. at' = [at EXCEPT ![t] = @ + 1] /\ at[t] < Len(script[t])
  BY DEF GroupStart, Enqueue, GroupAbort, GroupEnd, Advance, Steps
<1>3. IsGroup(NoGroup) /\ NoGroup.entries \in Seq(Entries)
  BY DEF IsGroup, NoGroup
<1>4. /\ group' = [group EXCEPT ![t] = group'[t]]
      /\ IsGroup(group'[t]) /\ group'[t].entries \in Seq(Entries)
  <2>1. IsGroup(group[t]) /\ group[t].entries \in Seq(Entries) /\ group = [u \in Threads |-> group[u]]
    BY DEF Named
  <2>2. CASE GroupStart(t)
    <3>1. CASE group[t].active
      <4>1. PICK d : group' = [group EXCEPT ![t] = [group[t] EXCEPT !.depth = d]]
        BY <2>1, <2>2, <3>1 DEF GroupStart
      <4> QED BY <2>1, <4>1 DEF IsGroup
    <3>2. CASE ~group[t].active
      <4> DEFINE g == [active |-> TRUE, depth |-> 1, error |-> FALSE, entries |-> <<>>]
      <4>1. group' = [group EXCEPT ![t] = g]
        BY <2>1, <2>2, <3>2 DEF GroupStart
      <4>2. IsGroup(g) /\ g.entries \in Seq(Entries)
        BY DEF IsGroup
      <4> QED BY <2>1, <4>1, <4>2
    <3> QED BY <3>1, <3>2
  <2>3. CASE Enqueue(t)
    <3>1. Step(t) \in Entries
      BY <1>2, <2>3, StepEntry DEF Enqueue, Steps
    <3>2. Append(group[t].entries, Step(t)) \in Seq(Entries)
      BY <2>1, <3>1
    <3>3. \/ group' = group
          \/ group' = [group EXCEPT ![t] = [group[t] EXCEPT !.error = TRUE]]
          \/ group' = [group EXCEPT ![t] = [group[t] EXCEPT !.entries = Append(group[t].entries, Step(t))]]
      BY <2>1, <2>3 DEF Enqueue
    <3>4. CASE group' = [group EXCEPT ![t] = [group[t] EXCEPT !.entries = Append(group[t].entries, Step(t))]]
      <4> DEFINE q == Append(group[t].entries, Step(t))
      <4>1. group'[t] = [group[t] EXCEPT !.entries = q] /\ q \in Seq(Entries)
        BY <2>1, <3>2, <3>4
      <4>2. group' = [group EXCEPT ![t] = group'[t]]
        BY <2>1, <3>4
      <4> HIDE DEF q
      <4> QED BY <2>1, <4>1, <4>2 DEF IsGroup
    <3> QED BY <2>1, <3>3, <3>4 DEF IsGroup
  <2>4. CASE GroupAbort(t)
    BY <1>3, <2>1, <2>4 DEF GroupAbort
  <2>5. CASE GroupEnd(t)
    <3>1. group' = [group EXCEPT ![t].depth = @ - 1] \/ group' = [group EXCEPT ![t] = NoGroup]
      BY <2>5 DEF GroupEnd
    <3> QED BY <1>3, <2>1, <3>1 DEF IsGroup
  <2> QED BY <2>2, <2>3, <2>4, <2>5
<1>5. /\ running' = [running EXCEPT ![t] = running'[t]]
      /\ IsRunning(running'[t]) /\ running'[t].entries \in Seq(Entries)
  <2>1. /\ IsRunning(running[t]) /\ running[t].entries \in Seq(Entries)
        /\ group[t].entries \in Seq(Entries) /\ running = [u \in Threads |-> running[u]]
    BY DEF Named
  <2>2. CASE running' = running
    BY <2>1, <2>2
  <2>3. CASE running' # running
    <3>1. GroupEnd(t)
      BY <2>3 DEF GroupStart, Enqueue, GroupAbort
    <3> DEFINE units == AllUnits(group[t].entries)
               r == [on |-> TRUE, entries |-> group[t].entries, units |-> units, issued |-> <<>>]
    <3>2. running' = [running EXCEPT ![t] = r] /\ units # <<>>
      BY <2>3, <3>1 DEF GroupEnd
    <3>3. units \in Seq(Numbers(Len(group[t].entries)))
      BY <2>1, UnitsType
    <3> HIDE DEF units
    <3>4. r.on = TRUE /\ r.units = units /\ r.entries = group[t].entries
          /\ r = [on |-> r.on, entries |-> r.entries, units |-> r.units, issued |-> r.issued]
      OBVIOUS
    <3> HIDE DEF r
    <3>5. IsRunning(r)
      BY <3>2, <3>3, <3>4 DEF IsRunning, UnitsLeft
    <3> QED BY <2>1, <3>2, <3>4, <3>5
  <2> QED BY <2>2, <2>3
<1>6. /\ at' = [u \in Threads |-> at'[u]] /\ \A u \in Threads : at'[u] \in Nat
  BY <1>2 DEF Named
<1>7. /\ group' = [u \in Threads |-> group'[u]]
      /\ \A u \in Threads : IsGroup(group'[u]) /\ group'[u].entries \in Seq(Entries)
  BY <1>4 DEF Named
<1>8. /\ running' = [u \in Threads |-> running'[u]]
      /\ \A u \in Threads : IsRunning(running'[u]) /\ running'[u].entries \in Seq(Entries)
  BY <1>5 DEF Named
<1>9. script' \in Scripts /\ \A u \in Threads : pc'[u] # "user" => call'[u] \in Entries
  BY <1>1 DEF Named
<1> QED BY <1>1, <1>6, <1>7, <1>8, <1>9 DEF Named

(* A step within a call, and the end of one. *)
Inner(t) ==
  /\ UNCHANGED <<setting, script, at, group, running, call, last>>
  /\ pc[t] # "user" /\ \E p : pc' = [pc EXCEPT ![t] = p]
Over(t) ==
  /\ UNCHANGED <<setting, script, group>>
  /\ at' = at \/ at' = [at EXCEPT ![t] = @ + 1]
  /\ Return(t, FALSE) \/ (pc[t] # "user" /\ Return(t, TRUE))

LEMMA InnerNamed ==
  ASSUME IInv, Named, NEW t \in Threads, Inner(t)
  PROVE  Named'
<1>1. Entries' = Entries
  BY DEF Inner, Entries
<1>2. \A u \in Threads : pc'[u] # "user" => call'[u] \in Entries
  BY DEF Inner, Named, IInv, TypeOK
<1> QED BY <1>1, <1>2 DEF Inner, Named

LEMMA ReturnRunning ==
  ASSUME Named, NEW t \in Threads, NEW ok, Return(t, ok)
  PROVE  /\ running' = [u \in Threads |-> running'[u]]
         /\ \A u \in Threads : IsRunning(running'[u]) /\ running'[u].entries \in Seq(Entries)
<1>1. /\ running = [u \in Threads |-> running[u]]
      /\ \A u \in Threads : IsRunning(running[u]) /\ running[u].entries \in Seq(Entries)
  BY DEF Named
<1>2. CASE running' = running
  BY <1>1, <1>2
<1>3. CASE running' = [running EXCEPT ![t] = NotRunning]
  <2>1. IsRunning(NotRunning) /\ NotRunning.entries \in Seq(Entries)
    BY DEF IsRunning, UnitsLeft, NotRunning
  <2> QED BY <1>1, <1>3, <2>1
<1>4. CASE running' # running /\ running' # [running EXCEPT ![t] = NotRunning]
  <2> DEFINE q == running[t].issued \o Head(running[t].units)
             v == Tail(running[t].units)
  <2>0. running[t].on /\ Len(running[t].units) # 1
    BY <1>4 DEF Return
  <2>1. running' = [running EXCEPT ![t].units = v, ![t].issued = q]
    BY <1>4 DEF Return
  <2>9. v \in Seq(Numbers(Len(running[t].entries))) /\ v # <<>>
    <3>1. running[t].units \in Seq(Numbers(Len(running[t].entries))) /\ running[t].units # <<>>
      BY <1>1, <2>0 DEF IsRunning, UnitsLeft
    <3>2. ASSUME NEW S, NEW u \in Seq(S), u # <<>>, Len(u) # 1
          PROVE  Tail(u) \in Seq(S) /\ Tail(u) # <<>>
      <4>1. Tail(u) \in Seq(S) /\ Len(Tail(u)) = Len(u) - 1 /\ Len(u) \in Nat \ {0, 1}
        BY <3>2, HeadTailProperties, EmptySeq
      <4> DEFINE w == Tail(u)
      <4> HIDE DEF w
      <4>2. w \in Seq(S) /\ Len(w) # 0
        BY <4>1 DEF w
      <4>3. w # <<>>
        BY <4>2
      <4> QED BY <4>2, <4>3 DEF w
    <3> QED BY <2>0, <3>1, <3>2
  <2> HIDE DEF q, v
  <2>2. running' = [u \in Threads |-> running'[u]]
    BY <1>1, <2>1
  <2>3. running'[t] = [running[t] EXCEPT !.units = v, !.issued = q]
    BY <1>1, <2>1
  <2>4. ASSUME NEW u \in Threads, u # t PROVE running'[u] = running[u]
    BY <1>1, <2>1, <2>4
  <2>5. IsRunning(running'[t]) /\ running'[t].entries = running[t].entries
    <3>1. IsRunning(running[t])
      BY <1>1
    <3>2. /\ running'[t].on = running[t].on /\ running'[t].entries = running[t].entries
          /\ running'[t].units = v /\ running'[t].issued = q
          /\ running'[t] = [on |-> running[t].on, entries |-> running[t].entries, units |-> v, issued |-> q]
      BY <3>1, <2>3 DEF IsRunning
    <3> QED BY <3>2, <2>9 DEF IsRunning, UnitsLeft
  <2> QED BY <1>1, <2>2, <2>4, <2>5
<1> QED BY <1>2, <1>3, <1>4

LEMMA OverNamed ==
  ASSUME IInv, Named, NEW t \in Threads, Over(t)
  PROVE  Named'
<1>1. Entries' = Entries
  BY DEF Over, Entries
<1>2. /\ running' = [u \in Threads |-> running'[u]]
      /\ \A u \in Threads : IsRunning(running'[u]) /\ running'[u].entries \in Seq(Entries)
  BY ReturnRunning DEF Over
<1>3. pc' = [pc EXCEPT ![t] = "user"] /\ call' = [call EXCEPT ![t] = NoCall]
  BY DEF Over, Return, Goto
<1>4. \A u \in Threads : pc'[u] # "user" => call'[u] \in Entries
  BY <1>3 DEF Named, IInv, TypeOK
<1>5. at' = [u \in Threads |-> at'[u]] /\ \A u \in Threads : at'[u] \in Nat
  BY DEF Over, Named
<1> QED BY <1>1, <1>2, <1>4, <1>5 DEF Over, Named

LEMMA BeginNamed ==
  ASSUME CallsAssumption, IInv, Named, NEW t \in Threads, Begin(t)
  PROVE  Named'
<1>1. UNCHANGED <<setting, script, group>> /\ (at' = at \/ at' = [at EXCEPT ![t] = @ + 1])
  BY DEF Begin, choices, Advance
<1>2. CASE Issued(t).flaw # "none"
  <2>1. Over(t)
    BY <1>1, <1>2 DEF Begin, Over
  <2> QED BY <2>1, OverNamed
<1>3. CASE Issued(t).flaw = "none"
  <2>1. Issued(t) \in Entries
    BY IssuedEntry DEF Begin
  <2>2. /\ pc' = [pc EXCEPT ![t] = "obtain"] /\ call' = [call EXCEPT ![t] = Issued(t)]
        /\ running' = running
    BY <1>3 DEF Begin, Goto
  <2>3. Entries' = Entries
    BY <1>1 DEF Entries
  <2>4. \A u \in Threads : pc'[u] # "user" => call'[u] \in Entries
    BY <2>1, <2>2 DEF Named, IInv, TypeOK
  <2>5. at' = [u \in Threads |-> at'[u]] /\ \A u \in Threads : at'[u] \in Nat
    BY <1>1 DEF Named
  <2> QED BY <1>1, <2>2, <2>3, <2>4, <2>5 DEF Named
<1> QED BY <1>2, <1>3

(* Which steps are which. *)
LEMMA InnerSteps ==
  ASSUME IInv, NEW t \in Threads,
         \/ TakeWindow(t) \/ OpenRegistration(t) \/ Register(t) \/ TakePlan(t)
         \/ FindDevComm(t) \/ OpenCreation(t) \/ Create(t) \/ LockUse(t) \/ OpenHostRma(t)
  PROVE  Inner(t)
<1> USE DEF choices
<1>0. pc = [pc EXCEPT ![t] = pc[t]]
  BY DEF IInv, TypeOK
<1>1. CASE TakeWindow(t) \/ TakePlan(t)
  BY <1>0, <1>1 DEF TakeWindow, TakePlan, Wants, Inner
<1>2. CASE OpenRegistration(t) \/ FindDevComm(t) \/ OpenCreation(t)
  BY <1>2 DEF OpenRegistration, FindDevComm, OpenCreation, Wants, Inner, Goto
<1>3. CASE Register(t) \/ Create(t) \/ LockUse(t)
  BY <1>3 DEF Register, Create, LockUse, Inner, Goto
<1>4. CASE OpenHostRma(t)
  BY <1>4 DEF OpenHostRma, Ready, Inner, Goto
<1> QED BY <1>1, <1>2, <1>3, <1>4

LEMMA OverSteps ==
  ASSUME IInv, NEW t \in Threads,
         \/ RegisterFails(t) \/ CreateFails(t) \/ CapacityExhausted(t) \/ LaneUnavailable(t)
         \/ Launch(t) \/ CloseHostRma(t) \/ Pack(t)
  PROVE  Over(t)
<1>1. CASE RegisterFails(t) \/ CreateFails(t) \/ CapacityExhausted(t) \/ LaneUnavailable(t)
  BY <1>1 DEF RegisterFails, CreateFails, CapacityExhausted, LaneUnavailable, Fail, Over, choices
<1>2. CASE Launch(t)
  BY <1>2 DEF Launch, Ready, Over, choices
<1>3. CASE CloseHostRma(t) \/ Pack(t)
  BY <1>3 DEF CloseHostRma, Pack, Over, choices
<1> QED BY <1>1, <1>2, <1>3

LEMMA EitherSteps ==
  ASSUME IInv, NEW t \in Threads, TakeBuffer(t) \/ TakeDevComm(t)
  PROVE  Inner(t) \/ Over(t)
<1>0. pc = [pc EXCEPT ![t] = pc[t]]
  BY DEF IInv, TypeOK
<1>1. CASE TakeBuffer(t)
  BY <1>0, <1>1 DEF TakeBuffer, Wants, Inner, Over, choices
<1>2. CASE TakeDevComm(t)
  BY <1>2 DEF TakeDevComm, Fail, Inner, Over, Goto, choices
<1> QED BY <1>1, <1>2

LEMMA NextNamed ==
  ASSUME CallsAssumption, IInv, Named, [CallsNext]_callsVars
  PROVE  Named'
<1>1. ASSUME NEW t \in Threads, CallStep(t)
      PROVE  Named'
  <2>1. CASE GroupStart(t) \/ Enqueue(t) \/ GroupAbort(t) \/ GroupEnd(t)
    BY <2>1, GroupNamed
  <2>2. CASE Begin(t)
    BY <2>2, BeginNamed
  <2>3. CASE Inner(t) \/ Over(t)
    BY <2>3, InnerNamed, OverNamed
  <2> QED BY <1>1, <2>1, <2>2, <2>3, InnerSteps, OverSteps, EitherSteps DEF CallStep
<1>2. CASE UNCHANGED callsVars
  <2>1. UNCHANGED <<setting, script, at, group, running, pc, call>>
    BY <1>2 DEF callsVars, choices, threadVars
  <2>2. Entries' = Entries
    BY <2>1 DEF Entries
  <2> QED BY <2>1, <2>2 DEF Named
<1> QED BY <1>1, <1>2 DEF CallsNext

-----------------------------------------------------------------------------
(* What a group issues and reports.  While it is executed, what it has       *)
(* issued comes before what is left, and together they are all its entries   *)
(* but those of a bucket still to be refused.                                *)
RunRight(fused, r) ==
  r.on =>
    /\ Lined(fused, r.entries, r.units)
    /\ r.issued \in Seq(1 .. Len(r.entries)) /\ Sorted(fused, r.entries, r.issued)
    /\ \A i \in Range(r.issued), j \in Within(r.units) : Earlier(fused, r.entries, i, j)
    /\ \A i \in 1 .. Len(r.entries) :
         i \in Range(r.issued) \/ i \in Within(r.units) \/ Excused(fused, r.entries, r.units, i)

ReportRight(fused, g) ==
  /\ Sorted(fused, g.entries, g.issued)
  /\ Len(g.issued) = Cardinality(Range(g.issued))
  /\ ~g.error => Range(g.issued) = DOMAIN g.entries
  /\ (g.error /\ g.named = 0) => Range(g.issued) = {}
  /\ g.named # 0 => \A i \in DOMAIN g.entries :
       /\ First(g.entries, i) < First(g.entries, g.named) => i \in Range(g.issued)
       /\ First(g.entries, i) > First(g.entries, g.named) \/ i = g.named => i \notin Range(g.issued)
       /\ (First(g.entries, i) = First(g.entries, g.named) /\ ~fused) => (i \in Range(g.issued) <=> i < g.named)

Reports ==
  /\ Named
  /\ last = [t \in Threads |-> last[t]]
  /\ \A t \in Threads : RunRight(Fused, running[t]) /\ ReportRight(Fused, last[t])
  /\ \A t \in Threads : pc[t] # "user" /\ running[t].on => Issued(t).flaw = "none"

LEMMA FirstNumber ==
  ASSUME NEW S, NEW entries \in Seq(S), NEW i \in 1 .. Len(entries)
  PROVE  First(entries, i) \in Nat
<1> DEFINE mates == {j \in DOMAIN entries : SameContext(entries[i], entries[j])}
<1>1. mates \in SUBSET Nat /\ mates \in SUBSET (1 .. Len(entries)) /\ Len(entries) \in Nat
  OBVIOUS
<1>2. i \in mates
  BY DEF SameContext
<1>3. IsFiniteSet(mates)
  <2>1. IsFiniteSet(1 .. Len(entries))
    BY <1>1, FS_Interval
  <2> HIDE DEF mates
  <2> QED BY <1>1, <2>1, FS_Subset
<1> HIDE DEF mates
<1>4. Min(mates) \in mates
  BY <1>1, <1>2, <1>3, MinMember
<1> QED BY <1>1, <1>4 DEF First, mates

LEMMA NotEarlier ==
  ASSUME NEW S, NEW entries \in Seq(S), NEW i \in 1 .. Len(entries), NEW fused
  PROVE  ~Earlier(fused, entries, i, i)
BY FirstNumber DEF Earlier

LEMMA SortedOnce ==
  ASSUME NEW S, NEW entries \in Seq(S), NEW fused, NEW q \in Seq(1 .. Len(entries)), Sorted(fused, entries, q)
  PROVE  Len(q) = Cardinality(Range(q))
<1> DEFINE D == 1 .. Len(q)
<1>1. DOMAIN q = D /\ Len(q) \in Nat /\ \A a \in D : q[a] \in 1 .. Len(entries)
  OBVIOUS
<1>2. IsFiniteSet(D) /\ Cardinality(D) = Len(q)
  <2>1. 1 \in Int /\ Len(q) \in Int /\ Len(q) \in Nat
    BY <1>1
  <2>2. IsFiniteSet(1 .. Len(q)) /\ Cardinality(1 .. Len(q)) = IF 1 > Len(q) THEN 0 ELSE Len(q) - 1 + 1
    BY <2>1, FS_Interval
  <2>3. (IF 1 > Len(q) THEN 0 ELSE Len(q) - 1 + 1) = Len(q)
    BY <2>1
  <2> QED BY <2>2, <2>3
<1>3. \A a, b \in D : q[a] = q[b] => a = b
  <2> SUFFICES ASSUME NEW a \in D, NEW b \in D, q[a] = q[b], a < b PROVE FALSE
    BY <1>1
  <2>1. Earlier(fused, entries, q[a], q[a])
    BY <1>1 DEF Sorted
  <2> QED BY <1>1, <2>1, NotEarlier
<1>4. q \in Surjection(D, Range(q)) /\ q \in Injection(D, Range(q))
  <2>1. q \in [D -> Range(q)]
    BY <1>1 DEF Range
  <2>2. \A y \in Range(q) : \E a \in D : q[a] = y
    BY <1>1 DEF Range
  <2> HIDE DEF D
  <2> QED BY <1>3, <2>1, <2>2 DEF Surjection, Injection, IsInjective
<1> HIDE DEF D
<1> QED BY <1>2, <1>4, FS_Surjection

LEMMA SortedConcat ==
  ASSUME NEW fused, NEW entries, NEW S, NEW p \in Seq(S), NEW q \in Seq(S),
         Sorted(fused, entries, p), Sorted(fused, entries, q),
         \A i \in Range(p), j \in Range(q) : Earlier(fused, entries, i, j)
  PROVE  p \o q \in Seq(S) /\ Sorted(fused, entries, p \o q) /\ Range(p \o q) = Range(p) \cup Range(q)
<1> DEFINE w == p \o q
<1>1. /\ DOMAIN p = 1 .. Len(p) /\ DOMAIN q = 1 .. Len(q) /\ Len(p) \in Nat /\ Len(q) \in Nat
      /\ w \in Seq(S) /\ DOMAIN w = 1 .. Len(p) + Len(q)
  <2>1. w \in Seq(S) /\ Len(w) = Len(p) + Len(q)
    BY ConcatProperties
  <2> QED BY <2>1
<1>2. \A a \in 1 .. Len(p) + Len(q) : w[a] = IF a <= Len(p) THEN p[a] ELSE q[a - Len(p)]
  BY ConcatProperties
<1> HIDE DEF w
<1>3. ASSUME NEW a \in DOMAIN w
      PROVE  \/ a \in DOMAIN p /\ w[a] = p[a]
             \/ a - Len(p) \in DOMAIN q /\ a > Len(p) /\ w[a] = q[a - Len(p)]
  BY <1>1, <1>2
<1>4. /\ \A a \in DOMAIN p : a \in DOMAIN w /\ w[a] = p[a]
      /\ \A a \in DOMAIN q : Len(p) + a \in DOMAIN w /\ w[Len(p) + a] = q[a]
  <2>1. ASSUME NEW a \in DOMAIN p
        PROVE  a \in DOMAIN w /\ w[a] = p[a]
    BY <1>1, <1>2
  <2>2. ASSUME NEW a \in DOMAIN q
        PROVE  Len(p) + a \in DOMAIN w /\ w[Len(p) + a] = q[a]
    <3>1. Len(p) + a \in 1 .. Len(p) + Len(q) /\ ~(Len(p) + a <= Len(p)) /\ (Len(p) + a) - Len(p) = a
      BY <1>1
    <3> QED BY <1>1, <1>2, <3>1
  <2> QED BY <2>1, <2>2
<1>5. ASSUME NEW a \in DOMAIN w, NEW b \in DOMAIN w, a < b
      PROVE  Earlier(fused, entries, w[a], w[b])
  <2>1. CASE b \in DOMAIN p /\ w[b] = p[b]
    <3>1. a \in DOMAIN p /\ w[a] = p[a]
      BY <1>1, <1>3, <1>5, <2>1
    <3> QED BY <1>5, <2>1, <3>1 DEF Sorted
  <2>2. CASE b - Len(p) \in DOMAIN q /\ b > Len(p) /\ w[b] = q[b - Len(p)]
    <3>1. CASE a \in DOMAIN p /\ w[a] = p[a]
      <4>1. w[a] \in Range(p) /\ w[b] \in Range(q)
        BY <2>2, <3>1 DEF Range
      <4> QED BY <4>1
    <3>2. CASE a - Len(p) \in DOMAIN q /\ a > Len(p) /\ w[a] = q[a - Len(p)]
      <4>1. a - Len(p) < b - Len(p)
        BY <1>1, <1>5
      <4> QED BY <2>2, <3>2, <4>1 DEF Sorted
    <3> QED BY <1>3, <3>1, <3>2
  <2> QED BY <1>3, <2>1, <2>2
<1>6. Range(w) = Range(p) \cup Range(q)
  <2>1. Range(w) \subseteq Range(p) \cup Range(q)
    BY <1>3 DEF Range
  <2>2. Range(p) \subseteq Range(w) /\ Range(q) \subseteq Range(w)
    BY <1>4 DEF Range
  <2> QED BY <2>1, <2>2
<1> QED BY <1>1, <1>5, <1>6 DEF Sorted, w

LEMMA RestIs ==
  ASSUME NEW S, NEW q \in Seq(S), q # <<>>
  PROVE  /\ Tail(q) \in Seq(S) /\ DOMAIN Tail(q) = 1 .. Len(q) - 1
         /\ \A a \in 1 .. Len(q) - 1 : Tail(q)[a] = q[a + 1]
<1>1. /\ Tail(q) \in Seq(S) /\ Len(Tail(q)) = Len(q) - 1
      /\ \A a \in 1 .. Len(Tail(q)) : Tail(q)[a] = q[a + 1]
  BY HeadTailProperties
<1> DEFINE w == Tail(q)
<1> HIDE DEF w
<1>2. w \in Seq(S) /\ Len(w) = Len(q) - 1
  BY <1>1 DEF w
<1>3. DOMAIN w = 1 .. Len(q) - 1
  BY <1>2
<1> QED BY <1>1, <1>3 DEF w

(* The next unit is issued. *)
LEMMA UnitIssued ==
  ASSUME NEW S, NEW fused, NEW r, r.entries \in Seq(S), r.on, RunRight(fused, r), r.units # <<>>,
         r.entries[Index(r)].flaw = "none",
         NEW issued, issued = r.issued \o Head(r.units),
         NEW rest, rest = Tail(r.units)
  PROVE  /\ issued \in Seq(1 .. Len(r.entries)) /\ Sorted(fused, r.entries, issued)
         /\ Lined(fused, r.entries, rest)
         /\ \A i \in Range(issued), j \in Within(rest) : Earlier(fused, r.entries, i, j)
         /\ \A i \in 1 .. Len(r.entries) :
              i \in Range(issued) \/ i \in Within(rest) \/ Excused(fused, r.entries, rest, i)
<1> DEFINE entries == r.entries
           n == Len(entries)
           us == r.units
           N == Numbers(n)
<1>1. n \in Nat /\ Lined(fused, entries, us) /\ us # <<>> /\ us \in Seq(N)
  BY DEF RunRight, Lined
<1> HIDE DEF N, n, us
<1>2. /\ rest \in Seq(N) /\ DOMAIN us = 1 .. Len(us) /\ Len(us) \in Nat /\ 1 \in DOMAIN us /\ Head(us) = us[1]
      /\ DOMAIN rest = 1 .. Len(us) - 1 /\ \A a \in 1 .. Len(us) - 1 : rest[a] = us[a + 1]
  <2>1. DOMAIN us = 1 .. Len(us) /\ Len(us) \in Nat /\ 1 \in DOMAIN us /\ Head(us) = us[1]
    BY <1>1
  <2>2. rest = Tail(us)
    BY DEF us
  <2>3. rest \in Seq(N) /\ DOMAIN rest = 1 .. Len(us) - 1 /\ \A a \in 1 .. Len(us) - 1 : rest[a] = us[a + 1]
    BY <1>1, <2>2, RestIs
  <2> QED BY <2>1, <2>3
<1>3. /\ us[1] \in Seq(1 .. n) /\ Sorted(fused, entries, us[1]) /\ Together(entries, us[1])
      /\ us[1] # <<>> /\ us[1][1] \in Range(us[1])
  <2>1. us[1] \in N
    BY <1>1, <1>2
  <2>2. us[1] \in Seq(1 .. n) /\ us[1] # <<>> /\ us[1][1] \in Range(us[1])
    BY <1>1, <2>1, FirstIn DEF N, Numbers
  <2>3. Sorted(fused, entries, us[1]) /\ Together(entries, us[1])
    BY <1>1, <1>2 DEF Lined
  <2> QED BY <2>2, <2>3
<1>4. issued = r.issued \o us[1] /\ Index(r) = us[1][1]
  <2>1. Head(us[1]) = us[1][1]
    BY <1>3
  <2> QED BY <1>2, <2>1 DEF Index, us
<1>5. Range(us[1]) \subseteq Within(us) /\ Within(rest) \subseteq Within(us)
      /\ Within(us) \subseteq Range(us[1]) \cup Within(rest)
  <2>1. Range(us[1]) \subseteq Within(us)
    BY <1>2 DEF Within
  <2>2. ASSUME NEW a \in DOMAIN rest
        PROVE  a + 1 \in DOMAIN us /\ rest[a] = us[a + 1]
    BY <1>2
  <2>3. ASSUME NEW a \in DOMAIN us, a # 1
        PROVE  a - 1 \in DOMAIN rest /\ us[a] = rest[a - 1]
    <3>1. a - 1 \in 1 .. Len(us) - 1 /\ (a - 1) + 1 = a
      BY <1>2, <2>3
    <3> QED BY <1>2, <3>1
  <2> QED BY <2>1, <2>2, <2>3 DEF Within
<1>6. r.issued \in Seq(1 .. n) /\ Sorted(fused, entries, r.issued)
      /\ \A i \in Range(r.issued), j \in Within(us) : Earlier(fused, entries, i, j)
  BY DEF RunRight, n, us
<1>7. issued \in Seq(1 .. n) /\ Sorted(fused, entries, issued) /\ Range(issued) = Range(r.issued) \cup Range(us[1])
  <2> DEFINE p == r.issued
             v == us[1]
             D == 1 .. n
  <2>1. p \in Seq(D) /\ v \in Seq(D) /\ Sorted(fused, entries, p) /\ Sorted(fused, entries, v)
    BY <1>3, <1>6
  <2>2. \A i \in Range(p), j \in Range(v) : Earlier(fused, entries, i, j)
    BY <1>5, <1>6
  <2> HIDE DEF p, v, D, entries
  <2>3. p \o v \in Seq(D) /\ Sorted(fused, entries, p \o v) /\ Range(p \o v) = Range(p) \cup Range(v)
    BY <2>1, <2>2, SortedConcat
  <2> QED BY <1>4, <2>3 DEF p, v, D
<1>8. Lined(fused, entries, rest)
  <2>1. \A a \in DOMAIN rest : Sorted(fused, entries, rest[a]) /\ Together(entries, rest[a])
    BY <1>1, <1>2 DEF Lined
  <2>2. ASSUME NEW a \in DOMAIN rest, NEW b \in DOMAIN rest, a < b
        PROVE  \A i \in Range(rest[a]), j \in Range(rest[b]) : Earlier(fused, entries, i, j)
    <3>1. a + 1 \in DOMAIN us /\ b + 1 \in DOMAIN us /\ a + 1 < b + 1 /\ rest[a] = us[a + 1] /\ rest[b] = us[b + 1]
      BY <1>2, <2>2
    <3> QED BY <1>1, <3>1 DEF Lined
  <2> QED BY <1>2, <2>1, <2>2 DEF Lined, N, n
<1>9. ASSUME NEW i \in Range(us[1]), NEW j \in Within(rest)
      PROVE  Earlier(fused, entries, i, j)
  <2>1. PICK a \in DOMAIN rest : j \in Range(rest[a])
    BY DEF Within
  <2>2. a + 1 \in DOMAIN us /\ 1 < a + 1 /\ rest[a] = us[a + 1]
    BY <1>2
  <2> QED BY <1>1, <1>2, <2>1, <2>2 DEF Lined
<1>10. \A i \in Range(issued), j \in Within(rest) : Earlier(fused, entries, i, j)
  BY <1>5, <1>6, <1>7, <1>9
<1>11. ASSUME NEW i \in 1 .. n
       PROVE  i \in Range(issued) \/ i \in Within(rest) \/ Excused(fused, entries, rest, i)
  <2>1. i \in Range(r.issued) \/ i \in Within(us) \/ Excused(fused, entries, us, i)
    BY DEF RunRight, n, us
  <2>2. CASE Excused(fused, entries, us, i)
    <3>1. fused /\ \E a \in DOMAIN us : /\ entries[us[a][1]].flaw # "none"
                                       /\ First(entries, i) = First(entries, us[a][1])
      BY <2>2 DEF Excused
    <3>2. PICK a \in DOMAIN us : entries[us[a][1]].flaw # "none" /\ First(entries, i) = First(entries, us[a][1])
      BY <3>1
    <3>3. a # 1
      BY <1>4, <3>2
    <3>4. a - 1 \in DOMAIN rest /\ rest[a - 1] = us[a]
      <4>1. a - 1 \in 1 .. Len(us) - 1 /\ (a - 1) + 1 = a
        BY <1>2, <3>3
      <4> QED BY <1>2, <4>1
    <3> QED BY <3>1, <3>2, <3>4 DEF Excused
  <2> QED BY <1>5, <1>7, <2>1, <2>2
<1> QED BY <1>7, <1>8, <1>10, <1>11 DEF n

(* All is issued when the last unit is. *)
LEMMA AllIssued ==
  ASSUME NEW S, NEW fused, NEW r, r.entries \in Seq(S), r.on, RunRight(fused, r), Len(r.units) = 1,
         r.entries[Index(r)].flaw = "none"
  PROVE  ReportRight(fused, Outcome(r.entries, r.issued \o Head(r.units), FALSE, 0))
<1> DEFINE issued == r.issued \o Head(r.units)
           rest == Tail(r.units)
           n == Len(r.entries)
<1>1. r.units \in Seq(Numbers(n)) /\ r.units # <<>> /\ DOMAIN rest = {}
  <2>1. r.units \in Seq(Numbers(n))
    BY DEF RunRight, Lined
  <2> DEFINE N == Numbers(n)
             us == r.units
  <2> HIDE DEF N, us
  <2>2. us \in Seq(N) /\ Len(us) = 1
    BY <2>1 DEF N, us
  <2>3. us # <<>>
    <3>1. Len(<<>>) = 0
      OBVIOUS
    <3>2. Len(us) # 0
      BY <2>2
    <3> QED BY <3>1, <3>2
  <2>4. DOMAIN Tail(us) = 1 .. 1 - 1
    BY <2>2, <2>3, RestIs
  <2>5. DOMAIN Tail(us) = {}
    BY <2>4
  <2> QED BY <2>1, <2>3, <2>5 DEF us
<1> HIDE DEF issued, rest
<1>2. /\ issued \in Seq(1 .. n) /\ Sorted(fused, r.entries, issued)
      /\ \A i \in 1 .. n : i \in Range(issued) \/ i \in Within(rest) \/ Excused(fused, r.entries, rest, i)
  BY <1>1, UnitIssued DEF issued, rest
<1>3. \A i \in 1 .. n : i \in Range(issued)
  BY <1>1, <1>2 DEF Within, Excused
<1>4. Range(issued) \subseteq 1 .. n /\ DOMAIN r.entries = 1 .. n
  BY <1>2 DEF Range
<1>5. Len(issued) = Cardinality(Range(issued))
  BY <1>2, SortedOnce
<1> DEFINE g == Outcome(r.entries, issued, FALSE, 0)
<1>6. g.entries = r.entries /\ g.issued = issued /\ g.error = FALSE /\ g.named = 0
  BY DEF Outcome
<1> HIDE DEF g
<1>7. ReportRight(fused, g)
  BY <1>2, <1>3, <1>4, <1>5, <1>6 DEF ReportRight
<1> QED BY <1>7 DEF g, issued

(* A unit fails: what is reported is its first entry. *)
LEMMA UnitFailed ==
  ASSUME NEW S, NEW fused, NEW r, r.entries \in Seq(S), r.on, RunRight(fused, r), r.units # <<>>
  PROVE  ReportRight(fused, Outcome(r.entries, r.issued, TRUE, Index(r)))
<1> DEFINE entries == r.entries
           n == Len(entries)
           us == r.units
           h == Index(r)
           issued == r.issued
<1>1. /\ n \in Nat /\ DOMAIN entries = 1 .. n /\ Lined(fused, entries, us) /\ us \in Seq(Numbers(n)) /\ us # <<>>
      /\ issued \in Seq(1 .. n) /\ Sorted(fused, entries, issued)
      /\ \A i \in Range(issued), j \in Within(us) : Earlier(fused, entries, i, j)
      /\ \A i \in 1 .. n : i \in Range(issued) \/ i \in Within(us) \/ Excused(fused, entries, us, i)
  <2>1. n \in Nat /\ DOMAIN entries = 1 .. n /\ us # <<>>
    OBVIOUS
  <2>2. Lined(fused, entries, us) /\ issued \in Seq(1 .. n) /\ Sorted(fused, entries, issued)
    BY DEF RunRight
  <2>3. /\ \A i \in Range(issued), j \in Within(us) : Earlier(fused, entries, i, j)
        /\ \A i \in 1 .. n : i \in Range(issued) \/ i \in Within(us) \/ Excused(fused, entries, us, i)
    BY DEF RunRight
  <2>4. us \in Seq(Numbers(n))
    BY <2>2 DEF Lined
  <2> QED BY <2>1, <2>2, <2>3, <2>4
<1>2. h = Head(Head(us))
  BY DEF Index
<1> HIDE DEF us, h, issued, n
<1>3. /\ DOMAIN us = 1 .. Len(us) /\ Len(us) \in Nat /\ 1 \in DOMAIN us /\ Head(us) = us[1]
      /\ us[1] \in Numbers(n)
  <2> DEFINE N == Numbers(n)
  <2> HIDE DEF N
  <2>1. us \in Seq(N) /\ us # <<>>
    BY <1>1 DEF N
  <2>2. DOMAIN us = 1 .. Len(us) /\ Len(us) \in Nat /\ 1 \in DOMAIN us /\ Head(us) = us[1] /\ us[1] \in N
    BY <2>1
  <2> QED BY <2>2 DEF N
<1>4. h = us[1][1] /\ h \in Range(us[1]) /\ h \in 1 .. n /\ h \in Within(us) /\ 1 \in DOMAIN us[1]
      /\ DOMAIN us[1] = 1 .. Len(us[1])
  <2>1. us[1] \in Seq(1 .. n) /\ us[1] # <<>> /\ us[1][1] \in Range(us[1]) /\ Range(us[1]) \subseteq 1 .. n
        /\ 1 \in DOMAIN us[1] /\ DOMAIN us[1] = 1 .. Len(us[1])
    BY <1>1, <1>3, FirstIn DEF Numbers
  <2>2. Head(us[1]) = us[1][1]
    BY <2>1
  <2> QED BY <1>2, <1>3, <2>1, <2>2 DEF Within
<1>5. \A i \in 1 .. n : First(entries, i) \in Nat
  BY FirstNumber DEF n
(* Nothing that is left comes before the entry that failed. *)
<1>6. ASSUME NEW i \in 1 .. n, i \notin Range(issued)
      PROVE  /\ First(entries, h) <= First(entries, i)
             /\ (First(entries, h) = First(entries, i) /\ ~fused) => h <= i
  <2>1. CASE Excused(fused, entries, us, i)
    <3>1. fused /\ \E a \in DOMAIN us : First(entries, i) = First(entries, us[a][1])
      BY <2>1 DEF Excused
    <3>2. PICK a \in DOMAIN us : First(entries, i) = First(entries, us[a][1])
      BY <3>1
    <3>3. CASE a = 1
      BY <1>4, <1>5, <3>1, <3>2, <3>3
    <3>4. CASE a # 1
      <4>1. us[a] \in Numbers(n)
        BY <1>1
      <4>2. us[a][1] \in Range(us[a]) /\ us[a][1] \in 1 .. n
        BY <1>1, <4>1, FirstIn
      <4>3. Earlier(fused, entries, h, us[a][1])
        <5>1. 1 < a
          BY <1>3, <3>4
        <5> QED BY <1>1, <1>3, <1>4, <4>2, <5>1 DEF Lined
      <4> QED BY <1>4, <1>5, <3>1, <3>2, <4>2, <4>3 DEF Earlier
    <3> QED BY <3>3, <3>4
  <2>2. CASE i \in Within(us)
    <3>1. PICK a \in DOMAIN us : i \in Range(us[a])
      BY <2>2 DEF Within
    <3>2. CASE a = 1
      <4>1. First(entries, i) = First(entries, h)
        BY <1>1, <1>3, <1>4, <3>1, <3>2 DEF Lined, Together
      <4>2. PICK b \in DOMAIN us[1] : i = us[1][b]
        BY <3>1, <3>2 DEF Range
      <4>3. b = 1 \/ 1 < b
        BY <1>4
      <4>4. CASE b = 1
        BY <1>4, <1>5, <4>1, <4>2, <4>4
      <4>5. CASE 1 < b
        <5>1. Earlier(fused, entries, h, i)
          BY <1>1, <1>3, <1>4, <4>2, <4>5 DEF Lined, Sorted
        <5> QED BY <1>4, <1>5, <4>1, <5>1 DEF Earlier
      <4> QED BY <4>3, <4>4, <4>5
    <3>3. CASE a # 1
      <4>1. Earlier(fused, entries, h, i)
        <5>1. 1 < a
          BY <1>3, <3>3
        <5> QED BY <1>1, <1>3, <1>4, <3>1, <5>1 DEF Lined
      <4> QED BY <1>4, <1>5, <4>1 DEF Earlier
    <3> QED BY <3>2, <3>3
  <2> QED BY <1>1, <1>6, <2>1, <2>2
(* What has been issued comes before it. *)
<1>7. ASSUME NEW i \in Range(issued)
      PROVE  /\ First(entries, i) <= First(entries, h) /\ i # h
             /\ (First(entries, i) = First(entries, h) /\ ~fused) => i < h
  <2>1. i \in 1 .. n /\ Earlier(fused, entries, i, h)
    BY <1>1, <1>4 DEF Range
  <2> QED BY <1>4, <1>5, <2>1 DEF Earlier
<1>8. \A i \in DOMAIN entries :
        /\ First(entries, i) < First(entries, h) => i \in Range(issued)
        /\ First(entries, i) > First(entries, h) \/ i = h => i \notin Range(issued)
        /\ (First(entries, i) = First(entries, h) /\ ~fused) => (i \in Range(issued) <=> i < h)
  <2> TAKE i \in DOMAIN entries
  <2>1. i \in 1 .. n /\ First(entries, i) \in Nat /\ First(entries, h) \in Nat /\ h \in 1 .. n
    BY <1>1, <1>4, <1>5
  <2> QED BY <1>6, <1>7, <2>1
<1>9. Len(issued) = Cardinality(Range(issued))
  BY <1>1, SortedOnce DEF n
<1> DEFINE g == Outcome(entries, issued, TRUE, h)
<1>10. g.entries = entries /\ g.issued = issued /\ g.error = TRUE /\ g.named = h
  BY DEF Outcome
<1> HIDE DEF g
<1>11. ReportRight(fused, g)
  <2>1. h # 0
    BY <1>1, <1>4
  <2>2. Sorted(fused, g.entries, g.issued) /\ Len(g.issued) = Cardinality(Range(g.issued))
    BY <1>1, <1>9, <1>10
  <2>3. (~g.error => Range(g.issued) = DOMAIN g.entries) /\ ((g.error /\ g.named = 0) => Range(g.issued) = {})
    BY <1>10, <2>1
  <2>4. g.named # 0 => \A i \in DOMAIN g.entries :
          /\ First(g.entries, i) < First(g.entries, g.named) => i \in Range(g.issued)
          /\ First(g.entries, i) > First(g.entries, g.named) \/ i = g.named => i \notin Range(g.issued)
          /\ (First(g.entries, i) = First(g.entries, g.named) /\ ~fused) => (i \in Range(g.issued) <=> i < g.named)
    BY <1>8, <1>10
  <2> QED BY <2>2, <2>3, <2>4 DEF ReportRight
<1> QED BY <1>11 DEF g, h, issued

LEMMA NothingReported ==
  ASSUME NEW fused, NEW entries, NEW error, error = TRUE \/ (error = FALSE /\ entries = <<>>)
  PROVE  ReportRight(fused, Outcome(entries, <<>>, error, 0))
<1> DEFINE g == Outcome(entries, <<>>, error, 0)
<1>1. g.entries = entries /\ g.issued = <<>> /\ g.error = error /\ g.named = 0
  BY DEF Outcome
<1> HIDE DEF g
<1>2. DOMAIN g.issued = {} /\ Range(g.issued) = {} /\ Len(g.issued) = 0
  BY <1>1 DEF Range
<1>3. Cardinality({}) = 0
  BY FS_EmptySet
<1>4. ~g.error => Range(g.issued) = DOMAIN g.entries
  <2>1. DOMAIN <<>> = {}
    OBVIOUS
  <2> QED BY <1>1, <1>2, <2>1
<1>5. ReportRight(fused, g)
  BY <1>1, <1>2, <1>3, <1>4 DEF ReportRight, Sorted
<1> QED BY <1>5 DEF g

LEMMA InitReports ==
  ASSUME CallsInit
  PROVE  Reports
<1>1. Named
  BY InitNamed
<1>2. /\ last = [t \in Threads |-> Outcome(<<>>, <<>>, FALSE, 0)] /\ running = [t \in Threads |-> NotRunning]
      /\ \A t \in Threads : pc[t] = "user"
  BY DEF CallsInit
<1>3. NotRunning.on = FALSE
  BY DEF NotRunning
<1>4. \A t \in Threads : RunRight(Fused, running[t]) /\ ReportRight(Fused, last[t])
  <2>1. ReportRight(Fused, Outcome(<<>>, <<>>, FALSE, 0))
    BY NothingReported
  <2> QED BY <1>2, <1>3, <2>1 DEF RunRight
<1> QED BY <1>1, <1>2, <1>3, <1>4 DEF Reports

(* A step of one thread. *)
LEMMA StepReports ==
  ASSUME IInv, Reports, Named', NEW t \in Threads, setting' = setting,
         running' = [running EXCEPT ![t] = running'[t]], last' = [last EXCEPT ![t] = last'[t]],
         \A u \in Threads : u # t => pc'[u] = pc[u],
         RunRight(Fused, running'[t]), ReportRight(Fused, last'[t]),
         pc'[t] # "user" /\ running'[t].on => running'[t].entries[Index(running'[t])].flaw = "none"
  PROVE  Reports'
<1>1. Fused' = Fused
  BY DEF Fused
<1>2. running = [u \in Threads |-> running[u]] /\ last = [u \in Threads |-> last[u]]
  BY DEF Reports, Named
<1>3. \A u \in Threads : u # t => running'[u] = running[u] /\ last'[u] = last[u]
  BY <1>2
<1>4. last' = [u \in Threads |-> last'[u]]
  BY <1>2
<1>5. \A u \in Threads : RunRight(Fused, running'[u]) /\ ReportRight(Fused, last'[u])
  BY <1>3 DEF Reports
<1>6. ASSUME NEW u \in Threads, pc'[u] # "user", running'[u].on
      PROVE  Issued(u)'.flaw = "none"
  <2>1. CASE u = t
    BY <1>6, <2>1 DEF Issued
  <2>2. CASE u # t
    <3>1. pc[u] # "user" /\ running'[u] = running[u]
      BY <1>3, <1>6, <2>2
    <3>2. Issued(u).flaw = "none"
      BY <1>6, <3>1 DEF Reports
    <3> QED BY <1>6, <3>1, <3>2 DEF Issued
  <2> QED BY <2>1, <2>2
<1> QED BY <1>1, <1>4, <1>5, <1>6 DEF Reports

LEMMA ReturnReports ==
  ASSUME IInv, Reports, Named', NEW t \in Threads, setting' = setting,
         NEW ok \in BOOLEAN, Return(t, ok), ok => pc[t] # "user"
  PROVE  Reports'
<1> DEFINE r == running[t]
           entries == r.entries
           issued == r.issued \o Head(r.units)
<1>1. /\ running = [u \in Threads |-> running[u]] /\ last = [u \in Threads |-> last[u]]
      /\ IsRunning(r) /\ entries \in Seq(Entries) /\ RunRight(Fused, r) /\ ReportRight(Fused, last[t])
  BY DEF Reports, Named
<1>2. pc' = [pc EXCEPT ![t] = "user"] /\ pc = [u \in Threads |-> pc[u]]
  BY DEF Return, Goto, IInv, TypeOK
<1>3. pc'[t] = "user" /\ \A u \in Threads : u # t => pc'[u] = pc[u]
  BY <1>2
<1>4. CASE ~r.on
  <2>1. running' = running /\ last' = last
    BY <1>4 DEF Return
  <2> QED BY <1>1, <1>3, <2>1, StepReports
<1>5. CASE r.on /\ ~ok
  <2>1. /\ running' = [running EXCEPT ![t] = NotRunning]
        /\ last' = [last EXCEPT ![t] = Outcome(entries, r.issued, TRUE, Index(r))]
    BY <1>5 DEF Return
  <2>2. r.units # <<>>
    BY <1>1, <1>5 DEF IsRunning, UnitsLeft
  <2>3. ReportRight(Fused, Outcome(entries, r.issued, TRUE, Index(r)))
    BY <1>1, <1>5, <2>2, UnitFailed
  <2>4. running'[t] = NotRunning /\ last'[t] = Outcome(entries, r.issued, TRUE, Index(r))
    BY <1>1, <2>1
  <2>5. RunRight(Fused, NotRunning) /\ ~NotRunning.on
    BY DEF RunRight, NotRunning
  <2> QED BY <1>1, <1>3, <2>1, <2>3, <2>4, <2>5, StepReports
<1>6. CASE r.on /\ ok
  <2>1. entries[Index(r)].flaw = "none"
    BY <1>6 DEF Reports, Issued
  <2>2. r.units # <<>>
    BY <1>1, <1>6 DEF IsRunning, UnitsLeft
  <2>3. CASE Len(r.units) = 1
    <3>1. /\ running' = [running EXCEPT ![t] = NotRunning]
          /\ last' = [last EXCEPT ![t] = Outcome(entries, issued, FALSE, 0)]
      BY <1>6, <2>3 DEF Return
    <3>2. ReportRight(Fused, Outcome(entries, issued, FALSE, 0))
      BY <1>1, <1>6, <2>1, <2>3, AllIssued
    <3> HIDE DEF issued
    <3>3. running'[t] = NotRunning /\ last'[t] = Outcome(entries, issued, FALSE, 0)
      BY <1>1, <3>1
    <3>4. RunRight(Fused, NotRunning) /\ ~NotRunning.on
      BY DEF RunRight, NotRunning
    <3> QED BY <1>1, <1>3, <3>1, <3>2, <3>3, <3>4, StepReports
  <2>4. CASE Len(r.units) # 1
    <3> DEFINE rest == Tail(r.units)
               w == [r EXCEPT !.units = rest, !.issued = issued]
    <3>1. running' = [running EXCEPT ![t].units = Tail(@), ![t].issued = issued] /\ last' = last
      BY <1>6, <2>4 DEF Return
    <3>2. /\ issued \in Seq(1 .. Len(entries)) /\ Sorted(Fused, entries, issued)
          /\ Lined(Fused, entries, rest)
          /\ \A i \in Range(issued), j \in Within(rest) : Earlier(Fused, entries, i, j)
          /\ \A i \in 1 .. Len(entries) :
               i \in Range(issued) \/ i \in Within(rest) \/ Excused(Fused, entries, rest, i)
      BY <1>1, <1>6, <2>1, <2>2, UnitIssued
    <3>3. running' = [running EXCEPT ![t].units = rest, ![t].issued = issued]
      BY <1>1, <3>1
    <3> HIDE DEF issued, rest
    <3>4. running' = [running EXCEPT ![t] = w]
      BY <1>1, <3>3
    <3>5. w.on = r.on /\ w.entries = entries /\ w.units = rest /\ w.issued = issued
      BY <1>1 DEF IsRunning
    <3> HIDE DEF w
    <3>6. RunRight(Fused, w)
      BY <3>2, <3>5 DEF RunRight
    <3>7. running'[t] = w
      BY <1>1, <3>4
    <3> QED BY <1>1, <1>3, <3>1, <3>4, <3>6, <3>7, StepReports
  <2> QED BY <2>3, <2>4
<1> QED BY <1>4, <1>5, <1>6

LEMMA GroupReports ==
  ASSUME CallsAssumption, IInv, Reports, Named', NEW t \in Threads,
         GroupStart(t) \/ Enqueue(t) \/ GroupAbort(t) \/ GroupEnd(t)
  PROVE  Reports'
<1>1. setting' = setting /\ pc' = pc /\ pc[t] = "user" /\ ~running[t].on
  BY DEF GroupStart, Enqueue, GroupAbort, GroupEnd, choices, Steps
<1>2. /\ running = [u \in Threads |-> running[u]] /\ last = [u \in Threads |-> last[u]]
      /\ RunRight(Fused, running[t]) /\ ReportRight(Fused, last[t])
      /\ group[t].entries \in Seq(Entries)
  BY DEF Reports, Named
<1>3. CASE running' = running /\ last' = last
  BY <1>1, <1>2, <1>3, StepReports
<1>4. ASSUME running' = running,
             NEW entries, NEW error, error = TRUE \/ (error = FALSE /\ entries = <<>>),
             last' = [last EXCEPT ![t] = Outcome(entries, <<>>, error, 0)]
      PROVE  Reports'
  <2>1. ReportRight(Fused, Outcome(entries, <<>>, error, 0))
    BY <1>4, NothingReported
  <2>2. last'[t] = Outcome(entries, <<>>, error, 0)
    BY <1>2, <1>4
  <2> QED BY <1>1, <1>2, <1>4, <2>1, <2>2, StepReports
<1>5. CASE GroupEnd(t)
  <2> DEFINE entries == group[t].entries
             units == AllUnits(entries)
             r == [on |-> TRUE, entries |-> entries, units |-> units, issued |-> <<>>]
  <2>1. \/ running' = running /\ last' = last
        \/ running' = running /\ last' = [last EXCEPT ![t] = Outcome(entries, <<>>, TRUE, 0)]
        \/ running' = running /\ last' = [last EXCEPT ![t] = Outcome(<<>>, <<>>, FALSE, 0)]
        \/ running' = [running EXCEPT ![t] = r] /\ last' = last
    BY <1>5 DEF GroupEnd
  <2>2. CASE running' = [running EXCEPT ![t] = r] /\ last' = last
    <3>1. /\ Lined(Fused, entries, units)
          /\ \A i \in 1 .. Len(entries) : i \in Within(units) \/ Excused(Fused, entries, units, i)
      BY <1>2, UnitsRight
    <3> HIDE DEF entries, units
    <3>2. r.on = TRUE /\ r.entries = entries /\ r.units = units /\ r.issued = <<>>
      OBVIOUS
    <3>3. <<>> \in Seq(1 .. Len(entries)) /\ Range(<<>>) = {} /\ DOMAIN <<>> = {}
      BY DEF Range
    <3> HIDE DEF r
    <3>4. RunRight(Fused, r)
      BY <3>1, <3>2, <3>3 DEF RunRight, Sorted
    <3>5. running'[t] = r
      BY <1>2, <2>2
    <3> QED BY <1>1, <1>2, <2>2, <3>4, <3>5, StepReports
  <2> HIDE DEF r, units, entries
  <2> QED BY <1>3, <1>4, <2>1, <2>2
<1> QED BY <1>3, <1>5 DEF GroupStart, Enqueue, GroupAbort

LEMMA InnerReports ==
  ASSUME IInv, Reports, Named', NEW t \in Threads, Inner(t)
  PROVE  Reports'
<1>1. /\ running = [u \in Threads |-> running[u]] /\ last = [u \in Threads |-> last[u]]
      /\ RunRight(Fused, running[t]) /\ ReportRight(Fused, last[t])
  BY DEF Reports, Named
<1>2. setting' = setting /\ running' = running /\ last' = last /\ \A u \in Threads : u # t => pc'[u] = pc[u]
  BY DEF Inner, IInv, TypeOK
<1>3. running[t].on => running[t].entries[Index(running[t])].flaw = "none"
  BY DEF Reports, Issued, Inner
<1> QED BY <1>1, <1>2, <1>3, StepReports

LEMMA BeginReports ==
  ASSUME CallsAssumption, IInv, Reports, Named', NEW t \in Threads, Begin(t)
  PROVE  Reports'
<1>1. setting' = setting
  BY DEF Begin, choices
<1>2. CASE Issued(t).flaw # "none"
  <2>1. Return(t, FALSE)
    BY <1>2 DEF Begin
  <2> QED BY <1>1, <2>1, ReturnReports
<1>3. CASE Issued(t).flaw = "none"
  <2>1. pc' = [pc EXCEPT ![t] = "obtain"] /\ running' = running /\ last' = last
    BY <1>3 DEF Begin, Goto
  <2>2. /\ running = [u \in Threads |-> running[u]] /\ last = [u \in Threads |-> last[u]]
        /\ RunRight(Fused, running[t]) /\ ReportRight(Fused, last[t])
    BY DEF Reports, Named
  <2>3. \A u \in Threads : u # t => pc'[u] = pc[u]
    BY <2>1 DEF IInv, TypeOK
  <2>4. running[t].on => running[t].entries[Index(running[t])].flaw = "none"
    BY <1>3 DEF Issued
  <2> QED BY <1>1, <2>1, <2>2, <2>3, <2>4, StepReports
<1> QED BY <1>2, <1>3

LEMMA NextReports ==
  ASSUME CallsAssumption, IInv, Reports, [CallsNext]_callsVars
  PROVE  Reports'
<1>0. Named'
  BY NextNamed DEF Reports
<1>1. ASSUME NEW t \in Threads, CallStep(t)
      PROVE  Reports'
  <2>1. CASE GroupStart(t) \/ Enqueue(t) \/ GroupAbort(t) \/ GroupEnd(t)
    BY <1>0, <2>1, GroupReports
  <2>2. CASE Begin(t)
    BY <1>0, <2>2, BeginReports
  <2>3. CASE Inner(t)
    BY <1>0, <2>3, InnerReports
  <2>4. CASE Over(t)
    <3>1. setting' = setting /\ (Return(t, FALSE) \/ (pc[t] # "user" /\ Return(t, TRUE)))
      BY <2>4 DEF Over
    <3> QED BY <1>0, <3>1, ReturnReports
  <2> QED BY <1>1, <2>1, <2>2, <2>3, <2>4, InnerSteps, OverSteps, EitherSteps DEF CallStep
<1>2. CASE UNCHANGED callsVars
  <2>1. UNCHANGED <<setting, running, pc, last>>
    BY <1>2 DEF callsVars, choices, threadVars
  <2>2. Fused' = Fused /\ \A t \in Threads : running[t].on => Issued(t)' = Issued(t)
    BY <2>1 DEF Fused, Issued
  <2> QED BY <1>0, <2>1, <2>2 DEF Reports
<1> QED BY <1>1, <1>2 DEF CallsNext

LEMMA ReportsGive ==
  ASSUME Reports
  PROVE  IssuedInOrder /\ ErrorsExact
<1>1. \A t \in Threads : \A i : FirstOf(last[t], i) = First(last[t].entries, i)
  BY DEF FirstOf, First
<1>2. IssuedInOrder
  <2> SUFFICES ASSUME NEW t \in Threads, NEW m \in DOMAIN last[t].issued, NEW n \in DOMAIN last[t].issued, m < n
               PROVE  \/ FirstOf(last[t], last[t].issued[m]) < FirstOf(last[t], last[t].issued[n])
                      \/ /\ FirstOf(last[t], last[t].issued[m]) = FirstOf(last[t], last[t].issued[n])
                         /\ (Fused \/ last[t].issued[m] < last[t].issued[n])
    BY DEF IssuedInOrder
  <2>1. Earlier(Fused, last[t].entries, last[t].issued[m], last[t].issued[n])
    BY DEF Reports, ReportRight, Sorted
  <2> QED BY <1>1, <2>1 DEF Earlier
<1>3. ErrorsExact
  <2> SUFFICES ASSUME NEW t \in Threads
               PROVE  /\ Len(last[t].issued) = Cardinality(Range(last[t].issued))
                      /\ ~last[t].error => Range(last[t].issued) = DOMAIN last[t].entries
                      /\ (last[t].error /\ last[t].named = 0) => Range(last[t].issued) = {}
                      /\ last[t].named # 0 => \A i \in DOMAIN last[t].entries :
                           /\ FirstOf(last[t], i) < FirstOf(last[t], last[t].named) => i \in Range(last[t].issued)
                           /\ (FirstOf(last[t], i) > FirstOf(last[t], last[t].named) \/ i = last[t].named)
                                => i \notin Range(last[t].issued)
                           /\ (FirstOf(last[t], i) = FirstOf(last[t], last[t].named) /\ ~Fused)
                                => (i \in Range(last[t].issued) <=> i < last[t].named)
    BY DEF ErrorsExact
  <2>1. ReportRight(Fused, last[t])
    BY DEF Reports
  <2> QED BY <1>1, <2>1 DEF ReportRight
<1> QED BY <1>2, <1>3

(* A group issues its entries bucket by bucket in order of first appearance,  *)
(* and reports what happened: each entry was issued once, or the one it names *)
(* was not, nor anything behind it, and all that came before was, whatever    *)
(* was recorded, fused or flawed and whichever call fails                     *)
(* (m2n_group.cc:188-217, 316-350).                                           *)
THEOREM ReportsAlways ==
  ASSUME CallsAssumption
  PROVE  CallsSpec => [](IssuedInOrder /\ ErrorsExact)
<1>1. CallsInit => Reports
  BY InitReports
<1>2. IInv /\ Reports /\ [CallsNext]_callsVars => Reports'
  BY NextReports
<1>3. Reports => IssuedInOrder /\ ErrorsExact
  BY ReportsGive
<1>4. CallsSpec => []IInv
  BY CallsInvariant
<1> QED BY <1>1, <1>2, <1>3, <1>4, PTL DEF CallsSpec

-----------------------------------------------------------------------------
(* The order of the kernels.  Whoever has a thing is behind all the kernels  *)
(* that used it, by its work stream or because they have finished, and the   *)
(* thing's event covers them for the next one: a buffer's while nobody has   *)
(* it (BufferCover), a DevComm's and a lane's at any time (DevCover,         *)
(* LaneCover).                                                               *)

Behind(t) == done \cup tail[Work(t)]

Kernels ==
  /\ tail = [s \in Streams |-> tail[s]]
  /\ kernels \in Seq({kernels[k] : k \in DOMAIN kernels})
  /\ \A k \in DOMAIN kernels : kernels[k].comm \in Comms /\ kernels[k].lane \in {-1} \cup Range(LaneOf)
  /\ \A k \in DOMAIN kernels : \A i \in kernels[k].uses : i \in Slots /\ devs[i].state = "valid"
  /\ lanes = [l \in Range(LaneOf) |-> lanes[l]]

BufferCover ==
  \A c \in Comms : \A k \in DOMAIN kernels : kernels[k].comm = c =>
    /\ \A t \in Threads : held[t].buffer /\ Comm(t) = c => k \in Behind(t)
    /\ ~buffers[c].reserved /\ ~buffers[c].poisoned => k \in done \cup buffers[c].event

(* A call's DevComms are valid; without internal streams it has their mutexes. *)
MutexHeld ==
  \A t \in Threads :
    /\ held[t].uses \in Seq(Slots)
    /\ \A i \in Range(held[t].uses) : devs[i].state = "valid" /\ (~Pooled => devs[i].holder = t)
    /\ ~Pooled /\ pc[t] = "take" => devs[held[t].dev].holder = t /\ held[t].dev \notin Range(held[t].uses)

DevCover ==
  (~quarantine /\ ~Pooled) =>
    \A i \in Slots : \A k \in DOMAIN kernels : i \in kernels[k].uses =>
      /\ k \in done \cup devs[i].event
      /\ \A t \in Threads : i \in Range(held[t].uses) => k \in Behind(t)

LaneCover ==
  (~quarantine /\ setting.algo # "HOST") =>
    \A k \in DOMAIN kernels : kernels[k].lane # -1 => k \in done \cup lanes[kernels[k].lane].event

Covers == Kernels /\ BufferCover /\ MutexHeld /\ DevCover /\ LaneCover
Orders == BuffersOrdered /\ DevCommsOrdered /\ LanesOrdered

-----------------------------------------------------------------------------
Grown(a, b) == b = [s \in Streams |-> b[s]] /\ \A s \in Streams : a[s] \subseteq b[s]

LEMMA EntryIn ==
  ASSUME NEW e \in Entries
  PROVE  CallerStream(e) \in Streams /\ WorkStream(e) \in Streams /\ e.comm \in Comms
BY DEF Streams, WorkStream, Comms

LEMMA Joins ==
  ASSUME NEW T, T = [s \in Streams |-> T[s]], NEW e \in Entries
  PROVE  /\ Grown(T, T) /\ Grown(T, JoinCaller(T, e)) /\ Grown(T, JoinWork(T, e))
         /\ \A event : Grown(T, WaitFor(T, e, event)) /\ event \subseteq WaitFor(T, e, event)[WorkStream(e)]
<1>1. CallerStream(e) \in Streams /\ WorkStream(e) \in Streams
  BY EntryIn
<1>2. ASSUME NEW x \in Streams, NEW E
      PROVE  /\ Grown(T, [T EXCEPT ![x] = @ \cup E])
             /\ E \subseteq [T EXCEPT ![x] = @ \cup E][x]
  BY DEF Grown
<1>3. Grown(T, T)
  BY DEF Grown
<1> QED BY <1>1, <1>2, <1>3 DEF JoinCaller, JoinWork, WaitFor

LEMMA GrownTwice ==
  ASSUME NEW a, NEW b, NEW c, Grown(a, b), Grown(b, c)
  PROVE  Grown(a, c)
BY DEF Grown

LEMMA WorkIn ==
  ASSUME Named, NEW t \in Threads, pc[t] # "user"
  PROVE  call[t] \in Entries /\ Work(t) \in Streams /\ CallerStream(call[t]) \in Streams /\ Comm(t) \in Comms
BY EntryIn DEF Named, Work, Comm

LEMMA HolderCalls ==
  ASSUME IInv, NEW t \in Threads, held[t] # Nothing
  PROVE  pc[t] # "user"
BY DEF IInv, BufferDue

-----------------------------------------------------------------------------
(* A step of thread t that enqueues no kernel. *)
Flow(t) ==
  /\ UNCHANGED <<setting, script, kernels, done, quarantine, lanes>>
  /\ Grown(tail, tail')
  /\ \A u \in Threads : u # t => held'[u] = held[u] /\ call'[u] = call[u] /\ pc'[u] = pc[u]
  /\ held'[t] = Nothing \/ call'[t] = call[t]

BufferFlow(t) ==
  /\ held'[t].buffer /\ ~held[t].buffer =>
       /\ ~buffers[Comm(t)].reserved /\ ~buffers[Comm(t)].poisoned
       /\ buffers[Comm(t)].event \subseteq tail'[Work(t)]
  /\ \A c \in Comms : ~buffers'[c].reserved /\ ~buffers'[c].poisoned =>
       \/ ~buffers[c].reserved /\ ~buffers[c].poisoned /\ buffers[c].event \subseteq buffers'[c].event
       \/ held[t].buffer /\ Comm(t) = c /\ tail[Work(t)] \subseteq buffers'[c].event

DevFlow(t) ==
  /\ \A i \in Slots : devs[i].state = "valid" =>
       /\ devs'[i].state = "valid"
       /\ ~Pooled => devs[i].event \subseteq devs'[i].event
       /\ ~Pooled /\ devs[i].holder \in Threads \ {t} => devs'[i].holder = devs[i].holder
  /\ held'[t].uses \in Seq(Slots)
  /\ \A i \in Range(held'[t].uses) :
       /\ \/ i \in Range(held[t].uses)
          \/ i = held[t].dev /\ devs[i].state = "valid" /\ (~Pooled => devs[i].event \subseteq tail'[Work(t)])
       /\ ~Pooled => devs'[i].holder = t
  /\ ~Pooled /\ pc'[t] = "take" => devs'[held'[t].dev].holder = t /\ held'[t].dev \notin Range(held'[t].uses)

LEMMA FlowTails ==
  ASSUME IInv, Named, NEW t \in Threads, Flow(t)
  PROVE  /\ Entries' = Entries /\ Comms' = Comms /\ Streams' = Streams /\ Slots' = Slots
         /\ Pooled' = Pooled
         /\ \A u \in Threads : held'[u] # Nothing => Work(u)' = Work(u) /\ Comm(u)' = Comm(u)
         /\ \A u \in Threads : held[u] # Nothing => Behind(u) \subseteq done' \cup tail'[Work(u)]
<1>1. Entries' = Entries /\ Pooled' = Pooled
  BY DEF Flow, Entries, Pooled
<1>2. Comms' = Comms /\ Slots' = Slots
  BY <1>1 DEF Comms, Slots
<1>3. ASSUME NEW e PROVE CallerStream(e)' = CallerStream(e) /\ WorkStream(e)' = WorkStream(e)
  BY <1>1 DEF CallerStream, WorkStream, Stream
<1>4. Streams' = Streams
  BY <1>1, <1>2, <1>3 DEF Streams, CallerStream, Stream
<1>5. ASSUME NEW u \in Threads, held'[u] # Nothing
      PROVE  Work(u)' = Work(u) /\ Comm(u)' = Comm(u)
  <2>1. call'[u] = call[u]
    BY <1>5 DEF Flow
  <2> QED BY <2>1, <1>1 DEF Work, Comm, WorkStream, CallerStream, Stream
<1>6. ASSUME NEW u \in Threads, held[u] # Nothing
      PROVE  Behind(u) \subseteq done' \cup tail'[Work(u)]
  BY <1>6, HolderCalls, WorkIn DEF Flow, Grown, Behind
<1> QED BY <1>1, <1>2, <1>4, <1>5, <1>6

LEMMA FlowCovers ==
  ASSUME IInv, Named, Covers, NEW t \in Threads, Flow(t), BufferFlow(t), DevFlow(t), IInv'
  PROVE  Covers'
<1> USE FlowTails
<1>1. Kernels'
  BY DEF Flow, Grown, DevFlow, Covers, Kernels
<1>2. BufferCover'
  <2> SUFFICES ASSUME NEW c \in Comms, NEW k \in DOMAIN kernels, kernels[k].comm = c
      PROVE  /\ \A u \in Threads : held'[u].buffer /\ Comm(u)' = c => k \in Behind(u)'
             /\ ~buffers'[c].reserved /\ ~buffers'[c].poisoned => k \in done' \cup buffers'[c].event
    BY DEF BufferCover, Flow
  <2>1. /\ \A u \in Threads : held[u].buffer /\ Comm(u) = c => k \in Behind(u)
        /\ ~buffers[c].reserved /\ ~buffers[c].poisoned => k \in done \cup buffers[c].event
    BY DEF Covers, BufferCover
  <2>2. ASSUME NEW u \in Threads, held'[u].buffer, Comm(u)' = c
        PROVE  k \in Behind(u)'
    <3>1. held'[u] # Nothing
      BY <2>2 DEF Nothing
    <3>2. Comm(u) = c /\ Behind(u)' = done' \cup tail'[Work(u)]
      BY <2>2, <3>1 DEF Behind
    <3>3. CASE held[u].buffer
      <4>1. held[u] # Nothing
        BY <3>3 DEF Nothing
      <4> QED BY <2>1, <3>2, <3>3, <4>1
    <3>4. CASE ~held[u].buffer
      <4>1. u = t
        BY <2>2, <3>4 DEF Flow
      <4> QED BY <2>1, <2>2, <3>2, <3>4, <4>1 DEF BufferFlow, Flow
    <3> QED BY <3>3, <3>4
  <2>3. ASSUME ~buffers'[c].reserved, ~buffers'[c].poisoned
        PROVE  k \in done' \cup buffers'[c].event
    BY <2>1, <2>3 DEF BufferFlow, Flow, Behind
  <2> QED BY <2>2, <2>3
<1>3. MutexHeld'
  <2> SUFFICES ASSUME NEW u \in Threads
      PROVE  /\ held'[u].uses \in Seq(Slots)
             /\ \A i \in Range(held'[u].uses) : devs'[i].state = "valid" /\ (~Pooled => devs'[i].holder = u)
             /\ ~Pooled /\ pc'[u] = "take" =>
                  devs'[held'[u].dev].holder = u /\ held'[u].dev \notin Range(held'[u].uses)
    BY DEF MutexHeld
  <2>0. \A v \in Threads : \A i \in Range(held[v].uses) : i \in Slots
    BY DEF Covers, MutexHeld, Range
  <2>1. CASE u = t
    <3>1. \A i \in Range(held'[t].uses) : i \in Slots
      BY DEF DevFlow, Range
    <3> QED BY <2>1, <3>1 DEF DevFlow, Covers, MutexHeld
  <2>2. CASE u # t
    <3>1. held'[u] = held[u] /\ pc'[u] = pc[u]
      BY <2>2 DEF Flow
    <3>2. pc[u] = "take" => held[u].dev \in Slots /\ devs[held[u].dev].state = "valid"
      BY DEF IInv, DevsInUse, InUse
    <3> QED BY <2>0, <2>2, <3>1, <3>2 DEF DevFlow, Covers, MutexHeld
  <2> QED BY <2>1, <2>2
<1>4. DevCover'
  <2> SUFFICES ASSUME ~quarantine, ~Pooled, NEW i \in Slots, NEW k \in DOMAIN kernels, i \in kernels[k].uses
      PROVE  /\ k \in done' \cup devs'[i].event
             /\ \A u \in Threads : i \in Range(held'[u].uses) => k \in Behind(u)'
    BY DEF DevCover, Flow
  <2>1. /\ k \in done \cup devs[i].event /\ devs[i].state = "valid"
        /\ \A u \in Threads : i \in Range(held[u].uses) => k \in Behind(u)
    BY DEF Covers, DevCover, Kernels
  <2>2. k \in done' \cup devs'[i].event
    BY <2>1 DEF DevFlow, Flow
  <2>3. ASSUME NEW u \in Threads, i \in Range(held'[u].uses)
        PROVE  k \in Behind(u)'
    <3>1. held'[u] # Nothing
      BY <2>3 DEF Nothing, Range
    <3>2. Behind(u)' = done' \cup tail'[Work(u)]
      BY <2>3, <3>1 DEF Behind
    <3>3. CASE i \in Range(held[u].uses)
      <4>1. held[u] # Nothing
        BY <3>3 DEF Nothing, Range
      <4> QED BY <2>1, <3>2, <3>3, <4>1
    <3>4. CASE i \notin Range(held[u].uses)
      <4>1. u = t
        BY <2>3, <3>4 DEF Flow
      <4> QED BY <2>1, <2>3, <3>2, <3>4, <4>1 DEF DevFlow, Flow
    <3> QED BY <3>3, <3>4
  <2> QED BY <2>2, <2>3
<1>5. LaneCover'
  BY DEF Flow, Covers, LaneCover
<1> QED BY <1>1, <1>2, <1>3, <1>4, <1>5 DEF Covers

LEMMA FlowOrders ==
  ASSUME NEW t \in Threads, Flow(t), Orders
  PROVE  Orders'
BY DEF Flow, Orders, BuffersOrdered, DevCommsOrdered, LanesOrdered, Ordered, Pooled

-----------------------------------------------------------------------------
(* The steps that enqueue nothing, one by one. *)
LEMMA BufferSame ==
  ASSUME NEW t \in Threads, buffers' = buffers, held'[t].buffer => held[t].buffer
  PROVE  BufferFlow(t)
BY DEF BufferFlow

LEMMA DevSame ==
  ASSUME Covers, NEW t \in Threads, devs' = devs, pc'[t] # "take",
         held'[t].uses = held[t].uses \/ held'[t] = Nothing
  PROVE  DevFlow(t)
<1>1. CASE held'[t] = Nothing
  <2>1. held'[t].uses \in Seq(Slots) /\ Range(held'[t].uses) = {}
    BY <1>1 DEF Nothing, Range
  <2> QED BY <2>1 DEF DevFlow
<1>2. CASE held'[t].uses = held[t].uses
  BY <1>2 DEF DevFlow, Covers, MutexHeld
<1> QED BY <1>1, <1>2

(* The record of a step of t in one variable. *)
LEMMA Others ==
  ASSUME IInv, NEW t \in Threads,
         \E h : held' = [held EXCEPT ![t] = h], \E c : call' = [call EXCEPT ![t] = c],
         \E p : pc' = [pc EXCEPT ![t] = p]
  PROVE  \A u \in Threads : u # t => held'[u] = held[u] /\ call'[u] = call[u] /\ pc'[u] = pc[u]
BY DEF IInv, TypeOK

LEMMA FailFlow ==
  ASSUME IInv, Named, Covers, NEW t \in Threads, pc[t] # "user", Fail(t, devs) \/ Fail(t, Unreserved(t))
  PROVE  Flow(t) /\ BufferFlow(t) /\ DevFlow(t)
<1>1. /\ UNCHANGED <<setting, script, kernels, done, quarantine, lanes>> /\ tail' = JoinCaller(tail, call[t])
      /\ held' = [held EXCEPT ![t] = Nothing] /\ call' = [call EXCEPT ![t] = NoCall]
      /\ pc' = [pc EXCEPT ![t] = "user"]
  BY DEF Fail, Return, Goto, choices
<1>2. held'[t] = Nothing /\ pc'[t] = "user"
  BY <1>1 DEF IInv, TypeOK
<1>3. Flow(t)
  <2>1. Grown(tail, tail')
    BY <1>1, WorkIn, Joins DEF Covers, Kernels
  <2>2. \A u \in Threads : u # t => held'[u] = held[u] /\ call'[u] = call[u] /\ pc'[u] = pc[u]
    BY <1>1 DEF IInv, TypeOK
  <2> QED BY <1>1, <1>2, <2>1, <2>2 DEF Flow
<1>4. BufferFlow(t)
  <2>1. CASE held[t].buffer
    <3> DEFINE w == tail[Work(t)]
    <3>1. buffers' = [buffers EXCEPT ![Comm(t)].reserved = FALSE, ![Comm(t)].event = w]
      BY <2>1 DEF Fail
    <3> HIDE DEF w
    <3>2. buffers = [c \in Comms |-> buffers[c]] /\ \A c \in Comms : IsBuffer(buffers[c])
      BY DEF IInv, TypeOK
    <3>3. ASSUME NEW c \in Comms, c # Comm(t)
          PROVE  buffers'[c] = buffers[c]
      BY <3>1, <3>2, <3>3
    <3>4. ASSUME NEW c \in Comms, c = Comm(t)
          PROVE  buffers'[c].event = w
      <4>1. buffers'[c] = [buffers[c] EXCEPT !.reserved = FALSE, !.event = w]
        BY <3>1, <3>2, <3>4
      <4> QED BY <3>2, <4>1 DEF IsBuffer
    <3> QED BY <2>1, <3>3, <3>4, <1>2 DEF BufferFlow, Nothing, w
  <2>2. CASE ~held[t].buffer
    <3>1. buffers' = buffers
      BY <2>2 DEF Fail
    <3>2. ~held'[t].buffer
      BY <1>2 DEF Nothing
    <3> QED BY <3>1, <3>2, BufferSame
  <2> QED BY <2>1, <2>2
<1>5. DevFlow(t)
  <2>1. held'[t].uses \in Seq(Slots) /\ Range(held'[t].uses) = {}
    BY <1>2 DEF Nothing, Range
  <2>2. ASSUME NEW i \in Slots, devs[i].state = "valid"
        PROVE  /\ devs'[i].state = "valid" /\ devs[i].event \subseteq devs'[i].event
               /\ devs[i].holder \in Threads \ {t} => devs'[i].holder = devs[i].holder
    <3>1. Unreserved(t)[i] = devs[i]
      BY <2>2 DEF Unreserved, Mine
    <3>2. devs'[i] = IF devs[i].holder = t THEN [devs[i] EXCEPT !.holder = "free"] ELSE devs[i]
      BY <3>1 DEF Fail, Release
    <3> QED BY <2>2, <3>2 DEF IInv, TypeOK, IsDev
  <2> QED BY <1>2, <2>1, <2>2 DEF DevFlow
<1> QED BY <1>3, <1>4, <1>5

LEMMA BeginFlow ==
  ASSUME CallsAssumption, IInv, Named, Covers, NEW t \in Threads, Begin(t)
  PROVE  Flow(t) /\ BufferFlow(t) /\ DevFlow(t)
<1>1. UNCHANGED <<setting, script, kernels, done, quarantine, lanes, buffers, devs>> /\ pc[t] = "user"
  BY DEF Begin, Issues, choices, cacheVars
<1>2. held[t] = Nothing
  BY <1>1 DEF IInv, BufferDue
<1>3. held' = held /\ Grown(tail, tail') /\ (\E c : call' = [call EXCEPT ![t] = c]) /\ \E p : pc' = [pc EXCEPT ![t] = p]
  <2>1. CASE Issued(t).flaw # "none"
    <3>1. tail' = tail /\ held' = [held EXCEPT ![t] = Nothing] /\ call' = [call EXCEPT ![t] = NoCall]
          /\ pc' = [pc EXCEPT ![t] = "user"]
      BY <2>1 DEF Begin, Return, Goto
    <3>2. Grown(tail, tail')
      BY <3>1 DEF Covers, Kernels, Grown
    <3> QED BY <1>2, <3>1, <3>2 DEF IInv, TypeOK
  <2>2. CASE Issued(t).flaw = "none"
    <3>1. Issued(t) \in Entries
      BY IssuedEntry DEF Begin
    <3>2. tail' = JoinWork(tail, Issued(t)) /\ held' = held /\ call' = [call EXCEPT ![t] = Issued(t)]
          /\ pc' = [pc EXCEPT ![t] = "obtain"]
      BY <2>2 DEF Begin, Goto
    <3>3. Grown(tail, tail')
      BY <3>1, <3>2, Joins DEF Covers, Kernels
    <3> QED BY <3>2, <3>3
  <2> QED BY <2>1, <2>2
<1>4. pc'[t] # "take"
  BY DEF Begin, Return, Goto, IInv, TypeOK
<1>5. \A u \in Threads : u # t => held'[u] = held[u] /\ call'[u] = call[u] /\ pc'[u] = pc[u]
  BY <1>3 DEF IInv, TypeOK
<1>6. Flow(t)
  BY <1>1, <1>2, <1>3, <1>5 DEF Flow
<1> QED BY <1>1, <1>3, <1>4, <1>6, BufferSame, DevSame

(* Steps that change neither buffers nor streams. *)
LEMMA QuietFlow ==
  ASSUME IInv, Named, Covers, NEW t \in Threads,
         UNCHANGED <<setting, script, kernels, done, quarantine, lanes, call>>,
         \E h : held' = [held EXCEPT ![t] = h], \E p : pc' = [pc EXCEPT ![t] = p],
         Grown(tail, tail')
  PROVE  Flow(t)
BY DEF Flow, IInv, TypeOK

LEMMA IdleFlow ==
  ASSUME IInv, Named, Covers, NEW t \in Threads,
         UNCHANGED <<setting, script, kernels, done, quarantine, lanes, buffers, devs, tail, pc, call, held>>
  PROVE  Flow(t) /\ BufferFlow(t) /\ DevFlow(t)
<1>1. Grown(tail, tail')
  BY DEF Covers, Kernels, Grown
<1>2. Flow(t)
  BY <1>1 DEF Flow
<1>3. DevFlow(t)
  BY DEF DevFlow, Covers, MutexHeld
<1> QED BY <1>2, <1>3, BufferSame

LEMMA WindowFlow ==
  ASSUME IInv, Named, Covers, NEW t \in Threads,
         TakeWindow(t) \/ OpenRegistration(t) \/ Register(t) \/ OpenHostRma(t)
  PROVE  Flow(t) /\ BufferFlow(t) /\ DevFlow(t)
<1>1. /\ UNCHANGED <<setting, script, kernels, done, quarantine, lanes, buffers, devs, held, call>>
      /\ (tail' = tail \/ tail' = Prepared(t)) /\ pc[t] # "user"
  BY DEF TakeWindow, OpenRegistration, Register, OpenHostRma, Ready, Wants, choices, cacheVars, streamVars
<1>2. \E p : pc' = [pc EXCEPT ![t] = p] /\ p # "take"
  <2>1. CASE TakeWindow(t)
    <3>1. pc' = [pc EXCEPT ![t] = pc[t]] /\ pc[t] = "obtain"
      BY <2>1 DEF TakeWindow, Wants, IInv, TypeOK
    <3> QED BY <3>1
  <2>2. CASE ~TakeWindow(t)
    BY <2>2 DEF OpenRegistration, Register, OpenHostRma, Goto
  <2> QED BY <2>1, <2>2
<1>3. Grown(tail, tail')
  <2>1. call[t] \in Entries /\ tail = [s \in Streams |-> tail[s]]
    BY <1>1, WorkIn DEF Covers, Kernels
  <2>2. Grown(tail, JoinWork(tail, call[t]))
    BY <2>1, Joins
  <2>3. Grown(JoinWork(tail, call[t]), Prepared(t))
    <3> DEFINE T == JoinWork(tail, call[t])
    <3>1. T = [s \in Streams |-> T[s]]
      BY <2>2 DEF Grown
    <3> HIDE DEF T
    <3>2. \A event : Grown(T, WaitFor(T, call[t], event))
      BY <2>1, <3>1, Joins
    <3> QED BY <3>2 DEF Prepared, T
  <2>4. Grown(tail, tail)
    BY <2>1, Joins
  <2> QED BY <1>1, <2>2, <2>3, <2>4, GrownTwice
<1>4. Flow(t)
  <2>1. held' = [held EXCEPT ![t] = held[t]]
    BY <1>1 DEF IInv, TypeOK
  <2> QED BY <1>1, <1>2, <1>3, <2>1, QuietFlow
<1>5. pc'[t] # "take"
  BY <1>2 DEF IInv, TypeOK
<1> QED BY <1>1, <1>4, <1>5, BufferSame, DevSame

LEMMA PlanFlow ==
  ASSUME IInv, Named, Covers, NEW t \in Threads, TakePlan(t)
  PROVE  Flow(t) /\ BufferFlow(t) /\ DevFlow(t)
<1>1. /\ UNCHANGED <<setting, script, kernels, done, quarantine, lanes, devs, call, pc, tail>> /\ pc[t] = "obtain"
  BY DEF TakePlan, Wants, choices, streamVars
<1>2. held' = held \/ held' = [held EXCEPT ![t].missed = TRUE]
  BY DEF TakePlan
<1>3. \E h : held' = [held EXCEPT ![t] = h] /\ h.buffer = held[t].buffer /\ h.uses = held[t].uses
  <2>1. held = [u \in Threads |-> held[u]] /\ IsHeld(held[t])
    BY DEF IInv, TypeOK
  <2>2. CASE held' = held
    BY <2>1, <2>2
  <2>3. CASE held' = [held EXCEPT ![t].missed = TRUE]
    <3>1. held' = [held EXCEPT ![t] = [held[t] EXCEPT !.missed = TRUE]]
      BY <2>1, <2>3
    <3>2. [held[t] EXCEPT !.missed = TRUE].buffer = held[t].buffer /\ [held[t] EXCEPT !.missed = TRUE].uses = held[t].uses
      BY <2>1 DEF IsHeld
    <3> QED BY <3>1, <3>2
  <2> QED BY <1>2, <2>2, <2>3
<1>4. held'[t].buffer = held[t].buffer /\ held'[t].uses = held[t].uses /\ pc'[t] # "take"
  BY <1>1, <1>3 DEF IInv, TypeOK
<1>5. Flow(t)
  <2>1. pc' = [pc EXCEPT ![t] = pc[t]]
    BY <1>1 DEF IInv, TypeOK
  <2>2. Grown(tail, tail')
    BY <1>1 DEF Covers, Kernels, Grown
  <2> QED BY <1>1, <1>3, <2>1, <2>2, QuietFlow
<1>6. BufferFlow(t)
  <2>1. \A c \in Comms : /\ buffers'[c].reserved = buffers[c].reserved
                         /\ buffers'[c].poisoned = buffers[c].poisoned
                         /\ buffers'[c].event = buffers[c].event
    <3>1. buffers = [c \in Comms |-> buffers[c]] /\ \A c \in Comms : IsBuffer(buffers[c])
      BY DEF IInv, TypeOK
    <3>2. CASE buffers' = buffers
      BY <3>2
    <3>3. CASE buffers' # buffers
      <4> DEFINE q == Invalidate(Entry(t).plans[held[t].plan], call[t].shape)
      <4>1. buffers' = [buffers EXCEPT ![Comm(t)].plans[held[t].plan] = q]
        BY <3>3 DEF TakePlan
      <4> HIDE DEF q
      <4>2. ASSUME NEW c \in Comms
            PROVE  buffers'[c] = IF c = Comm(t) THEN [buffers[c] EXCEPT !.plans = [buffers[c].plans EXCEPT ![held[t].plan] = q]]
                                 ELSE buffers[c]
        BY <3>1, <4>1
      <4> DEFINE r == [buffers[Comm(t)].plans EXCEPT ![held[t].plan] = q]
      <4>3. \A c \in Comms : buffers'[c] = IF c = Comm(t) THEN [buffers[c] EXCEPT !.plans = r] ELSE buffers[c]
        BY <4>2
      <4> HIDE DEF r
      <4> QED BY <3>1, <4>3 DEF IsBuffer
    <3> QED BY <3>2, <3>3
  <2> QED BY <1>4, <2>1 DEF BufferFlow
<1> QED BY <1>1, <1>4, <1>5, <1>6, DevSame

LEMMA TakeBufferFlow ==
  ASSUME IInv, Named, Covers, NEW t \in Threads, TakeBuffer(t)
  PROVE  Flow(t) /\ BufferFlow(t) /\ DevFlow(t)
<1>1. UNCHANGED <<setting, script, kernels, done, quarantine, lanes>> /\ pc[t] = "obtain"
  BY DEF TakeBuffer, Wants, choices
<1>2. call[t] \in Entries /\ Comm(t) \in Comms /\ Work(t) = WorkStream(call[t]) /\ tail = [s \in Streams |-> tail[s]]
  BY <1>1, WorkIn DEF Covers, Kernels, Work
<1>3. \/ /\ devs' = Release(t, devs) /\ tail' = JoinCaller(tail, call[t]) /\ buffers' = buffers
         /\ held' = [held EXCEPT ![t] = Nothing] /\ call' = [call EXCEPT ![t] = NoCall]
         /\ pc' = [pc EXCEPT ![t] = "user"]
      \/ /\ ~Entry(t).reserved /\ ~Entry(t).poisoned
         /\ tail' = WaitFor(tail, call[t], BufferEvent(t))
         /\ buffers' = [buffers EXCEPT ![Comm(t)].allocated = TRUE, ![Comm(t)].reserved = TRUE]
         /\ \E slot : held' = [held EXCEPT ![t].buffer = TRUE, ![t].plan = slot]
         /\ UNCHANGED <<pc, call, devs>>
  BY DEF TakeBuffer, Return, Goto
<1>4. CASE /\ devs' = Release(t, devs) /\ tail' = JoinCaller(tail, call[t]) /\ buffers' = buffers
           /\ held' = [held EXCEPT ![t] = Nothing] /\ call' = [call EXCEPT ![t] = NoCall]
           /\ pc' = [pc EXCEPT ![t] = "user"]
  <2>1. held'[t] = Nothing /\ pc'[t] = "user"
    BY <1>4 DEF IInv, TypeOK
  <2>2. \A u \in Threads : u # t => held'[u] = held[u] /\ call'[u] = call[u] /\ pc'[u] = pc[u]
    BY <1>4 DEF IInv, TypeOK
  <2>3. Grown(tail, tail')
    BY <1>2, <1>4, Joins
  <2>4. Flow(t)
    BY <1>1, <2>1, <2>2, <2>3 DEF Flow
  <2>5. held'[t].uses \in Seq(Slots) /\ Range(held'[t].uses) = {} /\ ~held'[t].buffer
    BY <2>1 DEF Nothing, Range
  <2>6. ASSUME NEW i \in Slots, devs[i].state = "valid"
        PROVE  /\ devs'[i].state = "valid" /\ devs[i].event \subseteq devs'[i].event
               /\ devs[i].holder \in Threads \ {t} => devs'[i].holder = devs[i].holder
    <3>1. devs'[i] = IF devs[i].holder = t THEN [devs[i] EXCEPT !.holder = "free"] ELSE devs[i]
      BY <1>4 DEF Release
    <3> QED BY <2>6, <3>1 DEF IInv, TypeOK, IsDev
  <2>7. DevFlow(t)
    BY <2>1, <2>5, <2>6 DEF DevFlow
  <2>8. BufferFlow(t)
    BY <1>4, <2>5, BufferSame
  <2> QED BY <2>4, <2>7, <2>8
<1>5. CASE /\ ~Entry(t).reserved /\ ~Entry(t).poisoned
           /\ tail' = WaitFor(tail, call[t], BufferEvent(t))
           /\ buffers' = [buffers EXCEPT ![Comm(t)].allocated = TRUE, ![Comm(t)].reserved = TRUE]
           /\ \E slot : held' = [held EXCEPT ![t].buffer = TRUE, ![t].plan = slot]
           /\ UNCHANGED <<pc, call, devs>>
  <2>1. Grown(tail, tail') /\ buffers[Comm(t)].event \subseteq tail'[Work(t)]
    BY <1>2, <1>5, Joins DEF BufferEvent, Entry
  <2>2. PICK slot : held' = [held EXCEPT ![t].buffer = TRUE, ![t].plan = slot]
    BY <1>5
  <2>3. held = [u \in Threads |-> held[u]] /\ IsHeld(held[t])
    BY DEF IInv, TypeOK
  <2>4. \A u \in Threads : u # t => held'[u] = held[u] /\ call'[u] = call[u] /\ pc'[u] = pc[u]
    BY <1>5, <2>2, <2>3
  <2>5. held'[t] = [held[t] EXCEPT !.buffer = TRUE, !.plan = slot]
    BY <2>2, <2>3
  <2>6. held'[t].uses = held[t].uses
    BY <2>3, <2>5 DEF IsHeld
  <2>7. Flow(t)
    BY <1>1, <1>5, <2>1, <2>4 DEF Flow
  <2>8. BufferFlow(t)
    <3>1. buffers = [c \in Comms |-> buffers[c]] /\ \A c \in Comms : IsBuffer(buffers[c])
      BY DEF IInv, TypeOK
    <3>2. ASSUME NEW c \in Comms, c # Comm(t)
          PROVE  buffers'[c] = buffers[c]
      BY <1>5, <3>1, <3>2
    <3>3. ASSUME NEW c \in Comms, c = Comm(t)
          PROVE  buffers'[c].reserved = TRUE
      <4>1. buffers'[c] = [buffers[c] EXCEPT !.allocated = TRUE, !.reserved = TRUE]
        BY <1>5, <3>1, <3>3
      <4> QED BY <3>1, <4>1 DEF IsBuffer
    <3> QED BY <1>5, <2>1, <3>2, <3>3 DEF BufferFlow, Entry
  <2>9. pc'[t] # "take"
    BY <1>1, <1>5
  <2> QED BY <1>5, <2>6, <2>7, <2>8, <2>9, DevSame
<1> QED BY <1>3, <1>4, <1>5

LEMMA FindFlow ==
  ASSUME IInv, Named, Covers, NEW t \in Threads, FindDevComm(t)
  PROVE  Flow(t) /\ BufferFlow(t) /\ DevFlow(t)
<1>1. /\ UNCHANGED <<setting, script, kernels, done, quarantine, lanes, buffers, devs, call, tail>>
      /\ pc' = [pc EXCEPT ![t] = IF Pooled THEN "take" ELSE "mutex"]
  BY DEF FindDevComm, Goto, choices, cacheVars, streamVars
<1>2. PICK d : held' = [held EXCEPT ![t].dev = d]
  BY DEF FindDevComm
<1>3. held = [u \in Threads |-> held[u]] /\ IsHeld(held[t])
  BY DEF IInv, TypeOK
<1>4. held' = [held EXCEPT ![t] = [held[t] EXCEPT !.dev = d]]
  BY <1>2, <1>3
<1>5. held'[t].buffer = held[t].buffer /\ held'[t].uses = held[t].uses
  BY <1>3, <1>4 DEF IsHeld
<1>6. Grown(tail, tail')
  BY <1>1 DEF Covers, Kernels, Grown
<1>7. Flow(t)
  BY <1>1, <1>4, <1>6, QuietFlow
<1>8. DevFlow(t)
  <2>1. Pooled \/ pc'[t] # "take"
    BY <1>1 DEF IInv, TypeOK
  <2> QED BY <1>1, <1>5, <2>1 DEF DevFlow, Covers, MutexHeld
<1> QED BY <1>1, <1>5, <1>7, <1>8, BufferSame

LEMMA CreationFlow ==
  ASSUME DevCommSlots \in Nat, IInv, Named, Covers, NEW t \in Threads, OpenCreation(t)
  PROVE  Flow(t) /\ BufferFlow(t) /\ DevFlow(t)
<1>1. /\ UNCHANGED <<setting, script, kernels, done, quarantine, lanes, buffers, held, call, tail>>
      /\ pc' = [pc EXCEPT ![t] = "creating"] /\ devs' = Reserve(t) /\ Unused # {}
  BY DEF OpenCreation, Goto, choices, cacheVars, streamVars
<1>2. Grown(tail, tail')
  BY <1>1 DEF Covers, Kernels, Grown
<1>3. Flow(t)
  <2>1. held' = [held EXCEPT ![t] = held[t]]
    BY <1>1 DEF IInv, TypeOK
  <2> QED BY <1>1, <1>2, <2>1, QuietFlow
<1>4. DevFlow(t)
  <2> DEFINE j == Min(Unused)
  <2>1. devs' = [devs EXCEPT ![j].state = "reserved", ![j].holder = t]
    BY <1>1 DEF Reserve
  <2>2. j \in Unused
    BY <1>1, FirstSlot DEF Unused
  <2>3. devs[j].state = "free"
    BY <2>2 DEF Unused
  <2> HIDE DEF j
  <2>4. \A i \in Slots : devs[i].state = "valid" => devs'[i] = devs[i]
    BY <2>1, <2>3 DEF IInv, TypeOK
  <2>5. pc'[t] = "creating"
    BY <1>1 DEF IInv, TypeOK
  <2>6. \A i \in Range(held[t].uses) : i \in Slots /\ devs[i].state = "valid" /\ (~Pooled => devs[i].holder = t)
    BY DEF Covers, MutexHeld, Range
  <2>7. held'[t].uses \in Seq(Slots)
    BY <1>1 DEF Covers, MutexHeld
  <2> QED BY <1>1, <2>4, <2>5, <2>6, <2>7 DEF DevFlow
<1> QED BY <1>1, <1>3, <1>4, BufferSame

LEMMA CreateFlow ==
  ASSUME IInv, Named, Covers, NEW t \in Threads, Create(t)
  PROVE  Flow(t) /\ BufferFlow(t) /\ DevFlow(t)
<1>1. /\ UNCHANGED <<setting, script, kernels, done, quarantine, lanes, buffers, call, tail>>
      /\ pc' = [pc EXCEPT ![t] = IF Pooled THEN "take" ELSE "mutex"]
  BY DEF Create, Goto, choices, cacheVars, streamVars
<1>2. PICK d : held' = [held EXCEPT ![t].dev = d]
  BY DEF Create
<1>3. held = [u \in Threads |-> held[u]] /\ IsHeld(held[t])
  BY DEF IInv, TypeOK
<1>4. held' = [held EXCEPT ![t] = [held[t] EXCEPT !.dev = d]]
  BY <1>2, <1>3
<1>5. held'[t].buffer = held[t].buffer /\ held'[t].uses = held[t].uses
  BY <1>3, <1>4 DEF IsHeld
<1>6. Grown(tail, tail')
  BY <1>1 DEF Covers, Kernels, Grown
<1>7. Flow(t)
  BY <1>1, <1>4, <1>6, QuietFlow
<1>8. DevFlow(t)
  <2>1. Pooled \/ pc'[t] # "take"
    BY <1>1 DEF IInv, TypeOK
  <2>2. \A i \in Slots : devs[i].state = "valid" => devs'[i] = devs[i]
    BY DEF Create, Mine
  <2>3. \A i \in Range(held[t].uses) : i \in Slots /\ devs[i].state = "valid" /\ (~Pooled => devs[i].holder = t)
    BY DEF Covers, MutexHeld, Range
  <2>4. held'[t].uses \in Seq(Slots)
    BY <1>5 DEF Covers, MutexHeld
  <2> QED BY <1>5, <2>1, <2>2, <2>3, <2>4 DEF DevFlow
<1> QED BY <1>1, <1>5, <1>7, <1>8, BufferSame

LEMMA LockFlow ==
  ASSUME IInv, Named, Covers, NEW t \in Threads, LockUse(t)
  PROVE  Flow(t) /\ BufferFlow(t) /\ DevFlow(t)
<1> DEFINE d == held[t].dev
<1>1. /\ UNCHANGED <<setting, script, kernels, done, quarantine, lanes, buffers, held, call, tail>>
      /\ pc' = [pc EXCEPT ![t] = "take"] /\ devs[d].holder = "free" /\ devs' = [devs EXCEPT ![d].holder = t]
      /\ pc[t] = "mutex"
  BY DEF LockUse, Goto, choices, streamVars
<1>2. d \in Slots /\ devs[d].state = "valid" /\ t # "free"
  BY <1>1 DEF IInv, TypeOK, DevsInUse, InUse
<1>3. Grown(tail, tail')
  BY <1>1 DEF Covers, Kernels, Grown
<1>4. Flow(t)
  <2>1. held' = [held EXCEPT ![t] = held[t]]
    BY <1>1 DEF IInv, TypeOK
  <2> QED BY <1>1, <1>3, <2>1, QuietFlow
<1> HIDE DEF d
<1>5. DevFlow(t)
  <2>1. devs = [i \in Slots |-> devs[i]] /\ IsDev(devs[d])
    BY <1>2 DEF IInv, TypeOK
  <2>2. \A i \in Slots : i # d => devs'[i] = devs[i]
    BY <1>1, <2>1
  <2>3. devs'[d] = [devs[d] EXCEPT !.holder = t]
    BY <1>1, <1>2, <2>1
  <2>4. devs'[d].state = "valid" /\ devs'[d].holder = t /\ devs'[d].event = devs[d].event
    BY <1>2, <2>1, <2>3 DEF IsDev
  <2>5. \A i \in Range(held[t].uses) : i \in Slots /\ devs[i].state = "valid" /\ (~Pooled => devs[i].holder = t)
    BY DEF Covers, MutexHeld, Range
  <2>6. held'[t].uses \in Seq(Slots)
    BY <1>1 DEF Covers, MutexHeld
  <2>7. ~Pooled => d \notin Range(held[t].uses)
    BY <1>1, <1>2, <2>5
  <2>8. "free" \notin Threads
    BY DEF IInv, TypeOK
  <2>9. \A i \in Slots : devs[i].state = "valid" =>
          /\ devs'[i].state = "valid" /\ (~Pooled => devs[i].event \subseteq devs'[i].event)
          /\ devs[i].holder \in Threads \ {t} => devs'[i].holder = devs[i].holder
    BY <1>1, <1>2, <2>2, <2>4, <2>8
  <2>10. \A i \in Range(held[t].uses) : ~Pooled => devs'[i].holder = t
    BY <2>2, <2>4, <2>5
  <2> QED BY <1>1, <2>4, <2>6, <2>7, <2>9, <2>10 DEF DevFlow, d
<1> QED BY <1>1, <1>4, <1>5, BufferSame

LEMMA TakeFlow ==
  ASSUME IInv, Named, Covers, NEW t \in Threads, TakeDevComm(t)
  PROVE  Flow(t) /\ BufferFlow(t) /\ DevFlow(t)
<1> DEFINE d == held[t].dev
           w == WaitFor(tail, call[t], DevCommEvent(d))
<1>1. pc[t] = "take" /\ t # "free"
  BY DEF TakeDevComm, IInv, TypeOK
<1>2. CASE devs[d].poisoned
  BY <1>1, <1>2, FailFlow DEF TakeDevComm
<1>3. CASE ~devs[d].poisoned
  <2>1. /\ UNCHANGED <<setting, script, kernels, done, quarantine, lanes, call, buffers>>
        /\ pc' = [pc EXCEPT ![t] = "obtain"] /\ tail' = w
    BY <1>3 DEF TakeDevComm, Goto, choices
  <2>2. \/ devs' = [devs EXCEPT ![d].holder = "free", ![d].event = w[Work(t)]] /\ held' = held
        \/ held' = [held EXCEPT ![t].uses = Append(@, d)] /\ devs' = devs
    BY <1>3 DEF TakeDevComm
  <2>3. d \in Slots /\ devs[d].state = "valid"
    BY <1>1 DEF IInv, DevsInUse, InUse
  <2>4. Grown(tail, w) /\ DevCommEvent(d) \subseteq w[Work(t)]
    BY <1>1, WorkIn, Joins DEF Covers, Kernels, Work
  <2>5. ~Pooled => devs[d].event \subseteq w[Work(t)] /\ devs[d].holder = t /\ d \notin Range(held[t].uses)
    BY <1>1, <2>4 DEF DevCommEvent, Covers, MutexHeld
  <2>6. held = [u \in Threads |-> held[u]] /\ IsHeld(held[t]) /\ pc'[t] = "obtain"
    BY <2>1 DEF IInv, TypeOK
  <2>7. held[t].uses \in Seq(Slots)
        /\ \A i \in Range(held[t].uses) : i \in Slots /\ devs[i].state = "valid" /\ (~Pooled => devs[i].holder = t)
    BY DEF Covers, MutexHeld, Range
  <2> HIDE DEF d, w
  <2>8. CASE devs' = [devs EXCEPT ![d].holder = "free", ![d].event = w[Work(t)]] /\ held' = held
    <3>1. held' = [held EXCEPT ![t] = held[t]]
      BY <2>6, <2>8
    <3>2. Flow(t)
      BY <2>1, <2>4, <3>1, QuietFlow
    <3> DEFINE v == w[Work(t)]
    <3>3. devs = [i \in Slots |-> devs[i]] /\ IsDev(devs[d])
      BY <2>3 DEF IInv, TypeOK
    <3>4. devs' = [devs EXCEPT ![d].holder = "free", ![d].event = v]
      BY <2>8
    <3> HIDE DEF v
    <3>5. \A i \in Slots : i # d => devs'[i] = devs[i]
      BY <3>3, <3>4
    <3>6. devs'[d] = [devs[d] EXCEPT !.holder = "free", !.event = v]
      BY <2>3, <3>3, <3>4
    <3>7. devs'[d].state = devs[d].state /\ devs'[d].event = v
      <4>1. devs'[d] = [state |-> devs[d].state, key |-> devs[d].key, holder |-> "free",
                        poisoned |-> devs[d].poisoned, event |-> v]
        BY <2>3, <3>3, <3>6, SlotSet
      <4> QED BY <4>1
    <3>8. ASSUME NEW i \in Slots, devs[i].state = "valid"
          PROVE  /\ devs'[i].state = "valid" /\ (~Pooled => devs[i].event \subseteq devs'[i].event)
                 /\ ~Pooled /\ devs[i].holder \in Threads \ {t} => devs'[i].holder = devs[i].holder
      <4>1. CASE i = d
        BY <2>3, <2>5, <3>7, <4>1 DEF v
      <4>2. CASE i # d
        BY <3>5, <3>8, <4>2
      <4> QED BY <4>1, <4>2
    <3>9. \A i \in Range(held[t].uses) : ~Pooled => devs'[i].holder = t
      BY <2>5, <2>7, <3>5
    <3>10. DevFlow(t)
      BY <2>6, <2>7, <2>8, <3>8, <3>9 DEF DevFlow
    <3> QED BY <2>1, <2>8, <3>2, <3>10, BufferSame
  <2>9. CASE held' = [held EXCEPT ![t].uses = Append(@, d)] /\ devs' = devs
    <3> DEFINE q == Append(held[t].uses, d)
    <3>1. q \in Seq(Slots) /\ Range(q) = Range(held[t].uses) \cup {d}
      <4>1. q \in Seq(Slots) /\ DOMAIN q = 1 .. Len(held[t].uses) + 1 /\ DOMAIN held[t].uses = 1 .. Len(held[t].uses)
            /\ Len(held[t].uses) \in Nat
            /\ (\A i \in DOMAIN held[t].uses : q[i] = held[t].uses[i]) /\ q[Len(held[t].uses) + 1] = d
        BY <2>3, <2>7, AppendProperties
      <4> HIDE DEF q
      <4>2. DOMAIN q = DOMAIN held[t].uses \cup {Len(held[t].uses) + 1}
        BY <4>1
      <4> QED BY <4>1, <4>2 DEF Range
    <3>2. held' = [held EXCEPT ![t] = [held[t] EXCEPT !.uses = q]]
      BY <2>6, <2>9
    <3> HIDE DEF q
    <3>3. held'[t].uses = q /\ held'[t].buffer = held[t].buffer
      BY <2>6, <3>2 DEF IsHeld
    <3>4. Flow(t)
      BY <2>1, <2>4, <3>2, QuietFlow
    <3>5. DevFlow(t)
      BY <2>1, <2>3, <2>5, <2>6, <2>7, <2>9, <3>1, <3>3 DEF DevFlow, d
    <3> QED BY <2>1, <3>3, <3>4, <3>5, BufferSame
  <2> QED BY <2>2, <2>8, <2>9
<1> QED BY <1>2, <1>3

-----------------------------------------------------------------------------
(* The launch.  Which events are recorded, whatever record fails. *)
LEMMA PartsAre ==
  ASSUME NEW t \in Threads, held[t].uses \in Seq(Slots)
  PROVE  /\ Len(Parts(t)) \in Nat /\ Parts(t) \in Seq(Range(Parts(t)))
         /\ \A i : <<"dev", i>> \in Range(Parts(t)) <=> i \in Range(held[t].uses)
         /\ \A l : <<"lane", l>> \in Range(Parts(t)) <=> Splits(call[t]) /\ l = LaneOf[Comm(t)]
         /\ \A n \in 1 .. Len(Parts(t)) : Range(SubSeq(Parts(t), 1, n - 1)) \subseteq Range(Parts(t))
         /\ (Parts(t) \o <<<<"buffer", 0>>>>)[Len(Parts(t)) + 1] = <<"buffer", 0>>
<1> DEFINE u == held[t].uses
           a == [n \in DOMAIN u |-> <<"dev", u[n]>>]
           b == IF Splits(call[t]) THEN <<<<"lane", LaneOf[Comm(t)]>>>> ELSE <<>>
           S == {<<"dev", i>> : i \in Slots} \cup {<<"lane", LaneOf[Comm(t)]>>, <<"buffer", 0>>}
           p == Parts(t)
<1>1. u \in Seq(Slots) /\ Len(u) \in Nat /\ DOMAIN u = 1 .. Len(u)
  OBVIOUS
<1> HIDE DEF u
<1>2. a \in Seq(S) /\ Len(a) = Len(u) /\ \A n \in 1 .. Len(u) : a[n] = <<"dev", u[n]>>
  <2>1. \A n \in 1 .. Len(u) : <<"dev", u[n]>> \in S
    BY <1>1
  <2> HIDE DEF S
  <2> QED BY <1>1, <2>1
<1>3. b \in Seq(S)
  <2>1. <<"lane", LaneOf[Comm(t)]>> \in S
    OBVIOUS
  <2> HIDE DEF S
  <2> QED BY <2>1
<1>4. \A x : x \in Range(b) <=> Splits(call[t]) /\ x = <<"lane", LaneOf[Comm(t)]>>
  BY DEF Range
<1>5. p = a \o b
  BY DEF Parts, u
<1>6. \A x : x \in Range(a) <=> \E i \in Range(u) : x = <<"dev", i>>
  BY <1>1, <1>2 DEF Range
<1> HIDE DEF a, b, p
<1>7. p \in Seq(S) /\ Range(p) = Range(a) \cup Range(b)
  <2>1. /\ p \in Seq(S) /\ Len(p) = Len(a) + Len(b)
        /\ \A n \in 1 .. Len(a) + Len(b) : p[n] = IF n <= Len(a) THEN a[n] ELSE b[n - Len(a)]
    <3> HIDE DEF S
    <3> QED BY <1>2, <1>3, <1>5, ConcatProperties
  <2> HIDE DEF S
  <2>2. Len(a) \in Nat /\ Len(b) \in Nat /\ DOMAIN a = 1 .. Len(a) /\ DOMAIN b = 1 .. Len(b)
        /\ DOMAIN p = 1 .. Len(a) + Len(b)
    BY <1>2, <1>3, <2>1
  <2>3. ASSUME NEW n \in DOMAIN p
        PROVE  p[n] \in Range(a) \cup Range(b)
    <3>1. CASE n <= Len(a)
      <4>1. n \in DOMAIN a /\ p[n] = a[n]
        BY <2>1, <2>2, <3>1
      <4> QED BY <4>1 DEF Range
    <3>2. CASE ~(n <= Len(a))
      <4>1. n - Len(a) \in DOMAIN b /\ p[n] = b[n - Len(a)]
        BY <2>1, <2>2, <3>2
      <4> QED BY <4>1 DEF Range
    <3> QED BY <3>1, <3>2
  <2>4. ASSUME NEW n \in DOMAIN a
        PROVE  a[n] \in Range(p)
    <3>1. n \in DOMAIN p /\ p[n] = a[n]
      BY <2>1, <2>2
    <3> QED BY <3>1 DEF Range
  <2>5. ASSUME NEW n \in DOMAIN b
        PROVE  b[n] \in Range(p)
    <3>1. n + Len(a) \in DOMAIN p /\ ~(n + Len(a) <= Len(a)) /\ n + Len(a) - Len(a) = n
      BY <2>2
    <3>2. p[n + Len(a)] = b[n]
      BY <2>1, <2>2, <3>1
    <3> QED BY <3>1, <3>2 DEF Range
  <2>6. Range(p) \subseteq Range(a) \cup Range(b)
    BY <2>3 DEF Range
  <2>7. Range(a) \cup Range(b) \subseteq Range(p)
    BY <2>4, <2>5 DEF Range
  <2> QED BY <2>1, <2>6, <2>7
<1>8. \A i : <<"dev", i>> \in Range(p) <=> i \in Range(u)
  BY <1>4, <1>6, <1>7
<1>9. \A l : <<"lane", l>> \in Range(p) <=> Splits(call[t]) /\ l = LaneOf[Comm(t)]
  BY <1>4, <1>6, <1>7
<1>10. ASSUME NEW n \in 1 .. Len(p)
       PROVE  Range(SubSeq(p, 1, n - 1)) \subseteq Range(p)
  <2> HIDE DEF S
  <2>1. Len(p) \in Nat /\ DOMAIN p = 1 .. Len(p)
    BY <1>7
  <2> DEFINE r == SubSeq(p, 1, n - 1)
  <2>2. DOMAIN r = 1 .. n - 1 /\ \A m \in 1 .. n - 1 : r[m] = p[m]
    BY <1>7, <2>1
  <2> HIDE DEF r
  <2>3. Range(r) \subseteq Range(p)
    BY <2>1, <2>2 DEF Range
  <2> QED BY <2>3 DEF r
<1>11. (p \o <<<<"buffer", 0>>>>)[Len(p) + 1] = <<"buffer", 0>>
  <2>1. <<"buffer", 0>> \in S
    OBVIOUS
  <2> HIDE DEF S
  <2>2. <<<<"buffer", 0>>>> \in Seq(S) /\ Len(<<<<"buffer", 0>>>>) = 1 /\ Len(p) \in Nat
    BY <1>7, <2>1
  <2> DEFINE v == <<<<"buffer", 0>>>>
  <2>3. v \in Seq(S) /\ Len(v) = 1 /\ v[1] = <<"buffer", 0>>
    BY <2>2
  <2> HIDE DEF v
  <2>4. (p \o v)[Len(p) + 1] = v[1]
    BY <1>7, <2>2, <2>3, ConcatProperties
  <2> QED BY <2>3, <2>4 DEF v
<1>12. p \in Seq(Range(p))
  <2> HIDE DEF S
  <2>1. Len(p) \in Nat /\ DOMAIN p = 1 .. Len(p) /\ p = [n \in 1 .. Len(p) |-> p[n]]
    BY <1>7
  <2>2. \A n \in 1 .. Len(p) : p[n] \in Range(p)
    BY <2>1 DEF Range
  <2> QED BY <2>1, <2>2
<1> QED BY <1>7, <1>8, <1>9, <1>10, <1>11, <1>12 DEF p, u

Through(t, tails, launched) ==
  IF launched THEN tails[Work(t)] \cup {Len(kernels) + 1} ELSE tails[Work(t)]
Lane(t) == IF Splits(call[t]) THEN LaneOf[Comm(t)] ELSE -1
Launched(t, tails) ==
  \E kernel : /\ kernels' = Append(kernels, kernel)
              /\ kernel.comm = Comm(t) /\ kernel.uses = Range(held[t].uses)
              /\ kernel.lane = Lane(t) /\ kernel.before = tails[Work(t)] \cup done

(* What the launch leaves behind for the next users of its things. *)
Enqueued(t, tails, launched) ==
  /\ IF launched THEN Launched(t, tails) ELSE kernels' = kernels
  /\ done \subseteq done' /\ (~quarantine' => ~quarantine)
  /\ \A i \in Slots :
       IF i \in Range(held[t].uses)
       THEN ~quarantine' => Through(t, tails, launched) \subseteq done' \cup devs'[i].event
       ELSE devs'[i].event = devs[i].event
  /\ lanes' = [l \in Range(LaneOf) |-> lanes'[l]]
  /\ \A l \in Range(LaneOf) :
       IF Splits(call[t]) /\ l = LaneOf[Comm(t)]
       THEN ~quarantine' => Through(t, tails, launched) \subseteq done' \cup lanes'[l].event
       ELSE lanes'[l].event = lanes[l].event
  /\ \A c \in Comms :
       IF c = Comm(t)
       THEN ~buffers'[c].poisoned => Through(t, tails, launched) \subseteq done' \cup buffers'[c].event
       ELSE buffers'[c] = buffers[c]
  /\ Grown(tail, tail')

LEMMA EnqueuesEffect ==
  ASSUME IInv, Named, Covers, NEW t \in Threads, pc[t] # "user",
         NEW tails, Grown(tail, tails), NEW launched \in BOOLEAN, NEW fault \in {NoFault} \cup FaultsOf(t),
         Enqueues(t, tails, launched, fault)
  PROVE  Enqueued(t, tails, launched)
<1> DEFINE after == Through(t, tails, launched)
           uses == held[t].uses
<1>1. /\ call[t] \in Entries /\ Work(t) \in Streams /\ CallerStream(call[t]) \in Streams /\ Comm(t) \in Comms
      /\ uses \in Seq(Slots)
  BY WorkIn DEF Covers, MutexHeld
<1>2. Len(Parts(t)) \in Nat
  BY <1>1, PartsAre
<1>3. fault.part \in 0 .. Len(Parts(t)) + 1
  <2> DEFINE n == Len(Parts(t))
  <2>1. fault = NoFault \/ \E i \in 1 .. n + 1, s \in BOOLEAN : fault = [part |-> i, sync |-> s]
    BY DEF FaultsOf
  <2>2. n \in Nat
    BY <1>2
  <2> HIDE DEF n
  <2>3. fault.part \in 0 .. n + 1
    <3>1. CASE fault = NoFault
      <4>1. fault.part = 0
        BY <3>1 DEF NoFault
      <4> QED BY <2>2, <4>1
    <3>2. CASE \E i \in 1 .. n + 1, s \in BOOLEAN : fault = [part |-> i, sync |-> s]
      <4>1. PICK i \in 1 .. n + 1, s \in BOOLEAN : fault = [part |-> i, sync |-> s]
        BY <3>2
      <4>2. fault.part = i
        BY <4>1
      <4> QED BY <2>2, <4>2
    <3> QED BY <2>1, <3>1, <3>2
  <2> QED BY <2>3 DEF n
<1>4. done \subseteq done' /\ (fault.part # 0 /\ fault.sync => after \subseteq done')
  BY DEF Enqueues, Through
<1>5. /\ ~quarantine' => ~quarantine
      /\ ~quarantine' => fault.part = 0 \/ fault.sync
  BY DEF Enqueues, Poisoned
<1>6. IF launched THEN Launched(t, tails) ELSE kernels' = kernels
  <2>1. CASE launched
    <3>1. PICK plan : kernels' = Append(kernels, Kernel(t, tails[Work(t)] \cup done, plan))
      BY <2>1 DEF Enqueues
    <3> QED BY <2>1, <3>1 DEF Kernel, Launched, Lane
  <2>2. CASE ~launched
    BY <2>2 DEF Enqueues
  <2> QED BY <2>1, <2>2
<1>7. /\ \A x : x \in Recorded(t, fault) => x \in Range(Parts(t))
      /\ \A x : x \in Range(Parts(t)) /\ x \notin Recorded(t, fault) => fault.part # 0
  <2>1. CASE fault.part = 0
    BY <2>1 DEF Recorded
  <2>2. CASE fault.part # 0
    <3>1. CASE fault.part \in 1 .. Len(Parts(t))
      BY <1>1, <2>2, <3>1, PartsAre DEF Recorded
    <3>2. CASE fault.part = Len(Parts(t)) + 1
      <4>1. ASSUME NEW S, NEW p \in Seq(S)
            PROVE  Range(SubSeq(p, 1, Len(p))) \subseteq Range(p)
        <5>1. SubSeq(p, 1, Len(p)) = p
          OBVIOUS
        <5> QED BY <5>1
      <4>2. Parts(t) \in Seq(Range(Parts(t)))
        BY <1>1, PartsAre
      <4>3. fault.part - 1 = Len(Parts(t))
        BY <1>2, <3>2
      <4> QED BY <2>2, <4>1, <4>2, <4>3 DEF Recorded
    <3> QED BY <1>2, <1>3, <2>2, <3>1, <3>2
  <2> QED BY <2>1, <2>2
<1>8. ASSUME NEW i \in Slots
      PROVE  IF i \in Range(uses)
             THEN ~quarantine' => after \subseteq done' \cup devs'[i].event
             ELSE devs'[i].event = devs[i].event
  <2>1. IsDev(devs[i]) /\ (<<"dev", i>> \in Range(Parts(t)) <=> i \in Range(uses))
    BY <1>1, PartsAre DEF IInv, TypeOK
  <2>2. devs'[i].event = IF <<"dev", i>> \in Recorded(t, fault) THEN after ELSE devs[i].event
    <3> DEFINE d == IF <<"dev", i>> \in Recorded(t, fault) THEN [devs[i] EXCEPT !.event = after] ELSE devs[i]
               p == IF <<"dev", i>> \in Poisoned(t, fault) THEN [d EXCEPT !.poisoned = TRUE] ELSE d
    <3>1. devs'[i] = IF p.holder = t THEN [p EXCEPT !.holder = "free"] ELSE p
      BY DEF Enqueues, Through
    <3> HIDE DEF after
    <3>2. IsDev(d) /\ d.event = IF <<"dev", i>> \in Recorded(t, fault) THEN after ELSE devs[i].event
      BY <2>1 DEF IsDev
    <3> HIDE DEF d
    <3>3. IsDev(p) /\ p.event = d.event
      BY <3>2 DEF IsDev
    <3> HIDE DEF p
    <3> QED BY <3>1, <3>2, <3>3 DEF IsDev
  <2>3. CASE i \in Range(uses)
    <3>1. CASE <<"dev", i>> \in Recorded(t, fault)
      BY <2>2, <2>3, <3>1
    <3>2. CASE <<"dev", i>> \notin Recorded(t, fault)
      BY <1>4, <1>5, <1>7, <2>1, <2>3, <3>2
    <3> QED BY <3>1, <3>2
  <2>4. CASE i \notin Range(uses)
    BY <1>7, <2>1, <2>2, <2>4
  <2> QED BY <2>3, <2>4
<1>9. lanes' = [l \in Range(LaneOf) |-> lanes'[l]]
  <2>1. lanes = [l \in Range(LaneOf) |-> lanes[l]]
    BY DEF Covers, Kernels
  <2> QED BY <2>1 DEF Enqueues
<1>10. ASSUME NEW l \in Range(LaneOf)
       PROVE  IF Splits(call[t]) /\ l = LaneOf[Comm(t)]
              THEN ~quarantine' => after \subseteq done' \cup lanes'[l].event
              ELSE lanes'[l].event = lanes[l].event
  <2>1. <<"lane", l>> \in Range(Parts(t)) <=> Splits(call[t]) /\ l = LaneOf[Comm(t)]
    BY <1>1, PartsAre
  <2>2. lanes'[l].event = IF <<"lane", l>> \in Recorded(t, fault) THEN after ELSE lanes[l].event
    <3>1. l \in DOMAIN lanes
      BY DEF Covers, Kernels
    <3> QED BY <3>1 DEF Enqueues, Through
  <2>3. CASE <<"lane", l>> \in Recorded(t, fault)
    BY <1>7, <2>1, <2>2, <2>3
  <2>4. CASE <<"lane", l>> \notin Recorded(t, fault)
    BY <1>4, <1>5, <1>7, <2>1, <2>2, <2>4
  <2> QED BY <2>3, <2>4
<1>11. ASSUME NEW c \in Comms
       PROVE  IF c = Comm(t)
              THEN ~buffers'[c].poisoned => after \subseteq done' \cup buffers'[c].event
              ELSE buffers'[c] = buffers[c]
  <2>1. IsBuffer(buffers[c]) /\ buffers = [d \in Comms |-> buffers[d]]
    BY DEF IInv, TypeOK
  <2>2. CASE c # Comm(t)
    BY <2>1, <2>2 DEF Enqueues
  <2>3. CASE c = Comm(t)
    <3> DEFINE x == IF fault.part = Len(Parts(t)) + 1 THEN buffers[c].event ELSE after
               y == buffers[c].poisoned \/ <<"buffer", 0>> \in Poisoned(t, fault)
    <3>1. PICK z : buffers'[c] = [buffers[c] EXCEPT !.reserved = FALSE, !.event = x, !.poisoned = y, !.plans = z]
      BY <2>1, <2>3 DEF Enqueues, Through
    <3>2. fault.part = Len(Parts(t)) + 1 /\ ~fault.sync => y
      BY <1>1, <1>2, PartsAre DEF Poisoned
    <3> HIDE DEF x, y
    <3>3. buffers'[c].event = x /\ buffers'[c].poisoned = y
      BY <2>1, <3>1 DEF IsBuffer
    <3>4. CASE fault.part = Len(Parts(t)) + 1
      BY <1>2, <1>3, <1>4, <2>3, <3>2, <3>3, <3>4
    <3>5. CASE fault.part # Len(Parts(t)) + 1
      BY <2>3, <3>3, <3>5 DEF x
    <3> QED BY <3>4, <3>5
  <2> QED BY <2>2, <2>3
<1>12. Grown(tail, tail')
  <2> DEFINE T == [tails EXCEPT ![Work(t)] = after]
  <2>1. tail' = JoinCaller(T, call[t])
    BY DEF Enqueues, Through
  <2>2. Grown(tails, T)
    BY <1>1 DEF Through, Grown
  <2> HIDE DEF T, after
  <2>3. T = [s \in Streams |-> T[s]]
    BY <2>2 DEF Grown
  <2>4. Grown(T, tail')
    BY <1>1, <2>1, <2>3, Joins
  <2> QED BY <2>2, <2>4, GrownTwice
<1> QED BY <1>4, <1>5, <1>6, <1>8, <1>9, <1>10, <1>11, <1>12 DEF Enqueued

(* The kernels after the launch: those before it, and at most one more. *)
New(t, tails, launched, k) ==
  /\ launched /\ k = Len(kernels) + 1
  /\ kernels'[k].comm = Comm(t) /\ kernels'[k].uses = Range(held[t].uses)
  /\ kernels'[k].lane = Lane(t) /\ kernels'[k].before = tails[Work(t)] \cup done

LEMMA KernelsAfter ==
  ASSUME Kernels, NEW t \in Threads, NEW tails, NEW launched \in BOOLEAN, Enqueued(t, tails, launched)
  PROVE  /\ kernels' \in Seq({kernels'[k] : k \in DOMAIN kernels'})
         /\ DOMAIN kernels \subseteq DOMAIN kernels' /\ Len(kernels) \in Nat /\ DOMAIN kernels = 1 .. Len(kernels)
         /\ \A k \in DOMAIN kernels' :
              IF k \in DOMAIN kernels THEN kernels'[k] = kernels[k] ELSE New(t, tails, launched, k)
<1>1. kernels \in Seq({kernels[k] : k \in DOMAIN kernels})
  BY DEF Kernels
<1>2. CASE ~launched
  <2>1. kernels' = kernels
    BY <1>2 DEF Enqueued
  <2> QED BY <1>1, <2>1
<1>3. CASE launched
  <2>1. PICK kernel : /\ kernels' = Append(kernels, kernel)
                      /\ kernel.comm = Comm(t) /\ kernel.uses = Range(held[t].uses)
                      /\ kernel.lane = Lane(t) /\ kernel.before = tails[Work(t)] \cup done
    BY <1>3 DEF Enqueued, Launched
  <2> DEFINE S == {kernels[k] : k \in DOMAIN kernels} \cup {kernel}
  <2>2. kernels \in Seq(S) /\ kernel \in S
    <3> DEFINE R == {kernels[k] : k \in DOMAIN kernels}
    <3>1. kernels \in Seq(R) /\ S = R \cup {kernel}
      BY <1>1
    <3> HIDE DEF R, S
    <3> QED BY <3>1
  <2> HIDE DEF S
  <2>3. /\ kernels' \in Seq(S) /\ Len(kernels) \in Nat
        /\ DOMAIN kernels = 1 .. Len(kernels) /\ DOMAIN kernels' = 1 .. Len(kernels) + 1
        /\ Len(kernels') = Len(kernels) + 1
        /\ (\A k \in 1 .. Len(kernels) : kernels'[k] = kernels[k]) /\ kernels'[Len(kernels) + 1] = kernel
    BY <2>1, <2>2, AppendProperties
  <2>4. kernels' \in Seq({kernels'[k] : k \in DOMAIN kernels'})
    <3> DEFINE R == {kernels'[k] : k \in DOMAIN kernels'}
    <3>1. \A k \in 1 .. Len(kernels') : kernels'[k] \in R
      BY <2>3
    <3>2. kernels' = [k \in 1 .. Len(kernels') |-> kernels'[k]] /\ Len(kernels') \in Nat
      BY <2>3
    <3> HIDE DEF R
    <3>3. kernels' \in Seq(R)
      BY <3>1, <3>2
    <3> QED BY <3>3 DEF R
  <2>5. ASSUME NEW k \in DOMAIN kernels'
        PROVE  IF k \in DOMAIN kernels THEN kernels'[k] = kernels[k] ELSE New(t, tails, launched, k)
    <3>1. CASE k \in DOMAIN kernels
      BY <2>3, <3>1
    <3>2. CASE k \notin DOMAIN kernels
      <4>1. k = Len(kernels) + 1
        BY <2>3, <3>2
      <4>2. kernels'[k] = kernel
        BY <2>3, <4>1
      <4> QED BY <1>3, <2>1, <3>2, <4>1, <4>2 DEF New
    <3> QED BY <3>1, <3>2
  <2>6. DOMAIN kernels \subseteq DOMAIN kernels'
    BY <2>3
  <2> QED BY <2>3, <2>4, <2>5, <2>6
<1> QED BY <1>2, <1>3

(* What whoever launches is behind: the kernels that used any of its things. *)
LanesWaited(t, tails) ==
  setting.algo # "HOST" /\ Splits(call[t]) => lanes[LaneOf[Comm(t)]].event \subseteq tails[Work(t)]
Ahead(t, tails) == done \cup tails[Work(t)]

LEMMA LaunchBehind ==
  ASSUME IInv, Named, Covers, NEW t \in Threads, pc[t] # "user", held[t].buffer,
         NEW tails, Grown(tail, tails), LanesWaited(t, tails), NEW k \in DOMAIN kernels
  PROVE  /\ kernels[k].comm = Comm(t) => k \in Ahead(t, tails)
         /\ ~quarantine /\ ~Pooled /\ kernels[k].uses \cap Range(held[t].uses) # {} => k \in Ahead(t, tails)
         /\ ~quarantine /\ setting.algo # "HOST" /\ kernels[k].lane # -1 /\ kernels[k].lane = Lane(t) =>
              k \in Ahead(t, tails)
<1>1. Behind(t) \subseteq Ahead(t, tails) /\ Comm(t) \in Comms
  BY WorkIn DEF Grown, Behind, Ahead
<1>2. kernels[k].comm = Comm(t) => k \in Behind(t)
  BY <1>1 DEF Covers, BufferCover
<1>3. ASSUME ~quarantine, ~Pooled, NEW i, i \in kernels[k].uses, i \in Range(held[t].uses)
      PROVE  k \in Behind(t)
  <2>1. i \in Slots
    BY <1>3 DEF Covers, Kernels
  <2> QED BY <1>3, <2>1 DEF Covers, DevCover
<1>4. ASSUME ~quarantine, setting.algo # "HOST", kernels[k].lane # -1, kernels[k].lane = Lane(t)
      PROVE  k \in Ahead(t, tails)
  <2>1. Splits(call[t]) /\ kernels[k].lane = LaneOf[Comm(t)]
    BY <1>4 DEF Lane
  <2>2. k \in done \cup lanes[LaneOf[Comm(t)]].event
    BY <1>4, <2>1 DEF Covers, LaneCover
  <2> QED BY <1>4, <2>1, <2>2 DEF LanesWaited, Ahead
<1> QED BY <1>1, <1>2, <1>3, <1>4

LEMMA EnqueuesOrders ==
  ASSUME IInv, Named, Covers, Orders, NEW t \in Threads, pc[t] # "user", held[t].buffer,
         NEW tails, Grown(tail, tails), LanesWaited(t, tails), NEW launched \in BOOLEAN,
         Enqueued(t, tails, launched), UNCHANGED setting
  PROVE  Orders'
<1>0. /\ ~quarantine' => ~quarantine
      /\ Pooled' = Pooled
  BY DEF Enqueued, Pooled
<1>1. /\ DOMAIN kernels = 1 .. Len(kernels) /\ Len(kernels) \in Nat
      /\ \A k \in DOMAIN kernels' :
           IF k \in DOMAIN kernels THEN kernels'[k] = kernels[k] ELSE New(t, tails, launched, k)
  BY KernelsAfter DEF Covers
<1>2. ASSUME NEW j \in DOMAIN kernels', NEW i \in 1 .. j - 1
      PROVE  /\ i \in DOMAIN kernels /\ kernels'[i] = kernels[i]
             /\ \/ j \in DOMAIN kernels /\ kernels'[j] = kernels[j]
                \/ New(t, tails, launched, j)
  <2>1. CASE j \in DOMAIN kernels
    <3>1. i \in DOMAIN kernels
      BY <1>1, <2>1
    <3>2. i \in DOMAIN kernels'
      BY <3>1, KernelsAfter DEF Covers
    <3> QED BY <1>1, <2>1, <3>1, <3>2
  <2>2. CASE j \notin DOMAIN kernels
    <3>1. New(t, tails, launched, j)
      BY <1>1, <2>2
    <3>2. i \in DOMAIN kernels
      BY <1>1, <3>1 DEF New
    <3>3. i \in DOMAIN kernels'
      BY <3>2, KernelsAfter DEF Covers
    <3> QED BY <1>1, <3>1, <3>2, <3>3
  <2> QED BY <2>1, <2>2
<1>3. BuffersOrdered'
  <2> SUFFICES ASSUME NEW j \in DOMAIN kernels', NEW i \in 1 .. j - 1, kernels'[i].comm = kernels'[j].comm
      PROVE  i \in kernels'[j].before
    BY DEF BuffersOrdered, Ordered
  <2>1. CASE j \in DOMAIN kernels /\ kernels'[j] = kernels[j]
    BY <1>2, <2>1 DEF Orders, BuffersOrdered, Ordered
  <2>2. CASE New(t, tails, launched, j)
    BY <1>2, <2>2, LaunchBehind DEF New, Ahead
  <2> QED BY <1>2, <2>1, <2>2
<1>4. DevCommsOrdered'
  <2> SUFFICES ASSUME ~quarantine', ~Pooled', NEW j \in DOMAIN kernels', NEW i \in 1 .. j - 1,
                      kernels'[i].uses \cap kernels'[j].uses # {}
      PROVE  i \in kernels'[j].before
    BY DEF DevCommsOrdered, Ordered
  <2>1. CASE j \in DOMAIN kernels /\ kernels'[j] = kernels[j]
    BY <1>0, <1>2, <2>1 DEF Orders, DevCommsOrdered, Ordered
  <2>2. CASE New(t, tails, launched, j)
    BY <1>0, <1>2, <2>2, LaunchBehind DEF New, Ahead
  <2> QED BY <1>2, <2>1, <2>2
<1>5. LanesOrdered'
  <2> SUFFICES ASSUME ~quarantine', setting.algo # "HOST", NEW j \in DOMAIN kernels', NEW i \in 1 .. j - 1,
                      kernels'[i].lane # -1, kernels'[i].lane = kernels'[j].lane
      PROVE  i \in kernels'[j].before
    BY DEF LanesOrdered, Ordered
  <2>1. CASE j \in DOMAIN kernels /\ kernels'[j] = kernels[j]
    BY <1>0, <1>2, <2>1 DEF Orders, LanesOrdered, Ordered
  <2>2. CASE New(t, tails, launched, j)
    BY <1>0, <1>2, <2>2, LaunchBehind DEF New, Ahead
  <2> QED BY <1>2, <2>1, <2>2
<1> QED BY <1>3, <1>4, <1>5 DEF Orders

(* The launch keeps the covers. *)
LEMMA EnqueuesCovers ==
  ASSUME CallsAssumption, IInv, Named, Covers, NEW t \in Threads, pc[t] # "user", held[t].buffer,
         NEW tails, Grown(tail, tails), LanesWaited(t, tails), NEW launched \in BOOLEAN,
         Enqueued(t, tails, launched), DevsLeave(t),
         UNCHANGED <<setting, script>>, held' = [held EXCEPT ![t] = Nothing],
         call' = [call EXCEPT ![t] = NoCall], pc' = [pc EXCEPT ![t] = "user"]
  PROVE  Covers'
<1> DEFINE through == Through(t, tails, launched)
<1>0. /\ ~quarantine' => ~quarantine
      /\ done \subseteq done' /\ Grown(tail, tail')
  BY DEF Enqueued
<1>1. /\ DOMAIN kernels = 1 .. Len(kernels) /\ Len(kernels) \in Nat
      /\ \A k \in DOMAIN kernels' :
           IF k \in DOMAIN kernels THEN kernels'[k] = kernels[k] ELSE New(t, tails, launched, k)
      /\ kernels' \in Seq({kernels'[k] : k \in DOMAIN kernels'})
  BY KernelsAfter DEF Covers
<1>2. /\ Entries' = Entries /\ Comms' = Comms /\ Streams' = Streams /\ Slots' = Slots /\ Pooled' = Pooled
      /\ \A e : WorkStream(e)' = WorkStream(e)
  BY DEF Entries, Comms, Streams, Slots, Pooled, WorkStream, CallerStream, Stream
<1>3. held'[t] = Nothing /\ pc'[t] = "user" /\ Range(held'[t].uses) = {} /\ ~held'[t].buffer /\ held'[t].uses \in Seq(Slots)
  <2>1. held'[t] = Nothing /\ pc'[t] = "user"
    BY DEF IInv, TypeOK
  <2>2. Nothing.uses = <<>> /\ ~Nothing.buffer
    BY DEF Nothing
  <2>3. Range(<<>>) = {} /\ <<>> \in Seq(Slots)
    BY DEF Range
  <2> QED BY <2>1, <2>2, <2>3
<1>4. ASSUME NEW u \in Threads, u # t
      PROVE  held'[u] = held[u] /\ call'[u] = call[u] /\ pc'[u] = pc[u]
             /\ Comm(u)' = Comm(u) /\ Work(u)' = Work(u)
  BY <1>2, <1>4 DEF IInv, TypeOK, Comm, Work
<1>5. ASSUME NEW u \in Threads, u # t, held[u] # Nothing
      PROVE  Behind(u) \subseteq Behind(u)'
  BY <1>0, <1>4, <1>5, HolderCalls, WorkIn DEF Grown, Behind
<1>6. Comm(t) \in Comms /\ call[t] \in Entries /\ held[t].uses \in Seq(Slots)
      /\ \A i \in Range(held[t].uses) : i \in Slots /\ devs[i].state = "valid" /\ (~Pooled => devs[i].holder = t)
  BY WorkIn DEF Covers, MutexHeld, Range
<1>7. Ahead(t, tails) \subseteq done \cup through
      /\ \A k : New(t, tails, launched, k) => k \in through
  BY DEF Ahead, Through, New
<1>8. Lane(t) \in {-1} \cup Range(LaneOf)
  <2>1. Comm(t) \in DOMAIN LaneOf
    <3>1. PICK u \in Threads : \E i \in DOMAIN script[u] : script[u][i].op = "reshard" /\ call[t] = script[u][i]
      BY <1>6 DEF Entries
    <3>2. script \in Scripts
      BY DEF Named
    <3> QED BY <3>1, <3>2 DEF CallsAssumption, Comm
  <2> QED BY <2>1 DEF Lane, Range
<1>9. \A i \in Slots : devs[i].state = "valid" => devs'[i].state = "valid" /\ (devs[i].holder # t => devs'[i].holder = devs[i].holder)
  BY DEF DevsLeave
<1>10. Kernels'
  <2>1. \A k \in DOMAIN kernels' : kernels'[k].comm \in Comms /\ kernels'[k].lane \in {-1} \cup Range(LaneOf)
    BY <1>1, <1>6, <1>8 DEF New, Covers, Kernels
  <2>2. \A k \in DOMAIN kernels' : \A i \in kernels'[k].uses : i \in Slots /\ devs'[i].state = "valid"
    BY <1>1, <1>6, <1>9 DEF New, Covers, Kernels
  <2>3. tail' = [s \in Streams |-> tail'[s]] /\ lanes' = [l \in Range(LaneOf) |-> lanes'[l]]
    BY <1>0 DEF Grown, Enqueued
  <2> QED BY <1>1, <1>2, <2>1, <2>2, <2>3 DEF Kernels
<1> HIDE DEF through
<1>11. BufferCover'
  <2> SUFFICES ASSUME NEW c \in Comms, NEW k \in DOMAIN kernels', kernels'[k].comm = c
      PROVE  /\ \A u \in Threads : held'[u].buffer /\ Comm(u)' = c => k \in Behind(u)'
             /\ ~buffers'[c].reserved /\ ~buffers'[c].poisoned => k \in done' \cup buffers'[c].event
    BY <1>2 DEF BufferCover
  <2>1. ASSUME NEW u \in Threads, held'[u].buffer, Comm(u)' = c
        PROVE  k \in Behind(u)'
    <3>1. u # t
      BY <1>3, <2>1
    <3>2. held[u].buffer /\ Comm(u) = c /\ held[u] # Nothing
      BY <1>4, <2>1, <3>1 DEF Nothing
    <3>3. c # Comm(t)
      BY <1>6, <3>1, <3>2 DEF IInv, BuffersHeld
    <3>4. k \in DOMAIN kernels /\ kernels[k].comm = c
      BY <1>1, <3>3 DEF New
    <3>5. k \in Behind(u)
      BY <3>2, <3>4 DEF Covers, BufferCover
    <3> QED BY <1>5, <3>1, <3>2, <3>5
  <2>2. ASSUME ~buffers'[c].reserved, ~buffers'[c].poisoned
        PROVE  k \in done' \cup buffers'[c].event
    <3>1. CASE c = Comm(t)
      <4>1. through \subseteq done' \cup buffers'[c].event
        BY <1>6, <2>2, <3>1 DEF Enqueued, through
      <4>2. k \in done \cup through
        <5>1. CASE k \in DOMAIN kernels
          BY <1>1, <1>7, <3>1, <5>1, LaunchBehind
        <5>2. CASE k \notin DOMAIN kernels
          BY <1>1, <1>7, <5>2
        <5> QED BY <5>1, <5>2
      <4> QED BY <1>0, <4>1, <4>2
    <3>2. CASE c # Comm(t)
      <4>1. k \in DOMAIN kernels /\ kernels[k].comm = c
        BY <1>1, <3>2 DEF New
      <4>2. buffers'[c] = buffers[c]
        BY <3>2 DEF Enqueued
      <4> QED BY <1>0, <2>2, <4>1, <4>2 DEF Covers, BufferCover
    <3> QED BY <3>1, <3>2
  <2> QED BY <2>1, <2>2
<1>12. MutexHeld'
  <2> SUFFICES ASSUME NEW u \in Threads
      PROVE  /\ held'[u].uses \in Seq(Slots)
             /\ \A i \in Range(held'[u].uses) : devs'[i].state = "valid" /\ (~Pooled => devs'[i].holder = u)
             /\ ~Pooled /\ pc'[u] = "take" =>
                  devs'[held'[u].dev].holder = u /\ held'[u].dev \notin Range(held'[u].uses)
    BY <1>2 DEF MutexHeld
  <2>1. CASE u = t
    BY <1>3, <2>1
  <2>2. CASE u # t
    <3>1. pc[u] = "take" => held[u].dev \in Slots /\ devs[held[u].dev].state = "valid"
      BY DEF IInv, DevsInUse, InUse
    <3>2. \A i \in Range(held[u].uses) : i \in Slots
      BY DEF Covers, MutexHeld, Range
    <3> QED BY <1>4, <1>9, <2>2, <3>1, <3>2 DEF Covers, MutexHeld
  <2> QED BY <2>1, <2>2
<1>13. DevCover'
  <2> SUFFICES ASSUME ~quarantine', ~Pooled, NEW i \in Slots, NEW k \in DOMAIN kernels', i \in kernels'[k].uses
      PROVE  /\ k \in done' \cup devs'[i].event
             /\ \A u \in Threads : i \in Range(held'[u].uses) => k \in Behind(u)'
    BY <1>2 DEF DevCover
  <2>0. ~quarantine
    BY <1>0
  <2>1. k \in done' \cup devs'[i].event
    <3>1. CASE i \in Range(held[t].uses)
      <4>1. through \subseteq done' \cup devs'[i].event
        BY <3>1 DEF Enqueued, through
      <4>2. k \in done \cup through
        <5>1. CASE k \in DOMAIN kernels
          BY <1>1, <1>7, <2>0, <3>1, <5>1, LaunchBehind
        <5>2. CASE k \notin DOMAIN kernels
          BY <1>1, <1>7, <5>2
        <5> QED BY <5>1, <5>2
      <4> QED BY <1>0, <4>1, <4>2
    <3>2. CASE i \notin Range(held[t].uses)
      <4>1. k \in DOMAIN kernels /\ i \in kernels[k].uses
        BY <1>1, <3>2 DEF New
      <4>2. devs'[i].event = devs[i].event
        BY <3>2 DEF Enqueued
      <4> QED BY <1>0, <2>0, <4>1, <4>2 DEF Covers, DevCover
    <3> QED BY <3>1, <3>2
  <2>2. ASSUME NEW u \in Threads, i \in Range(held'[u].uses)
        PROVE  k \in Behind(u)'
    <3>1. u # t
      BY <1>3, <2>2
    <3>2. i \in Range(held[u].uses) /\ held[u] # Nothing
      BY <1>4, <2>2, <3>1 DEF Nothing, Range
    <3>3. devs[i].holder = u
      BY <3>2 DEF Covers, MutexHeld
    <3>4. i \notin Range(held[t].uses)
      BY <1>6, <3>1, <3>3
    <3>5. k \in DOMAIN kernels /\ i \in kernels[k].uses
      BY <1>1, <3>4 DEF New
    <3>6. k \in Behind(u)
      BY <2>0, <3>2, <3>5 DEF Covers, DevCover
    <3> QED BY <1>5, <3>1, <3>2, <3>6
  <2> QED BY <2>1, <2>2
<1>14. LaneCover'
  <2> SUFFICES ASSUME ~quarantine', setting.algo # "HOST", NEW k \in DOMAIN kernels', kernels'[k].lane # -1
      PROVE  k \in done' \cup lanes'[kernels'[k].lane].event
    BY DEF LaneCover
  <2> DEFINE l == kernels'[k].lane
  <2>0. ~quarantine /\ l \in Range(LaneOf)
    BY <1>0, <1>10 DEF Kernels
  <2>1. CASE Splits(call[t]) /\ l = LaneOf[Comm(t)]
    <3>1. through \subseteq done' \cup lanes'[l].event
      BY <2>0, <2>1 DEF Enqueued, through
    <3>2. k \in done \cup through
      <4>1. CASE k \in DOMAIN kernels
        <5>1. kernels[k].lane = Lane(t)
          BY <1>1, <2>1, <4>1 DEF Lane
        <5> QED BY <1>1, <1>7, <2>0, <4>1, <5>1, LaunchBehind
      <4>2. CASE k \notin DOMAIN kernels
        BY <1>1, <1>7, <4>2
      <4> QED BY <4>1, <4>2
    <3> QED BY <1>0, <3>1, <3>2
  <2>2. CASE ~(Splits(call[t]) /\ l = LaneOf[Comm(t)])
    <3>1. k \in DOMAIN kernels /\ kernels[k].lane = l
      BY <1>1, <2>2 DEF New, Lane
    <3>2. lanes'[l].event = lanes[l].event
      BY <2>0, <2>2 DEF Enqueued
    <3> QED BY <1>0, <2>0, <3>1, <3>2 DEF Covers, LaneCover
  <2> QED BY <2>1, <2>2
<1> QED BY <1>10, <1>11, <1>12, <1>13, <1>14 DEF Covers

(* Host RMA is submitted by the algorithm that uses it. *)
Submits == \A t \in Threads : pc[t] = "submitting" => setting.algo = "HOST"

LEMMA PreparedTails ==
  ASSUME IInv, Named, Covers, NEW t \in Threads, pc[t] # "user"
  PROVE  Grown(tail, Prepared(t)) /\ LanesWaited(t, Prepared(t))
<1>1. call[t] \in Entries /\ Work(t) = WorkStream(call[t]) /\ tail = [s \in Streams |-> tail[s]]
  BY WorkIn DEF Covers, Kernels, Work
<1> DEFINE T == JoinWork(tail, call[t])
<1>2. Grown(tail, T)
  BY <1>1, Joins
<1>3. T = [s \in Streams |-> T[s]]
  BY <1>2 DEF Grown
<1> HIDE DEF T
<1>4. \A event : Grown(T, WaitFor(T, call[t], event)) /\ event \subseteq WaitFor(T, call[t], event)[WorkStream(call[t])]
  BY <1>1, <1>3, Joins
<1>5. Grown(T, Prepared(t)) /\ LaneEvent(call[t]) \subseteq Prepared(t)[WorkStream(call[t])]
  BY <1>4 DEF Prepared, T
<1>6. Splits(call[t]) => LaneEvent(call[t]) = lanes[LaneOf[Comm(t)]].event
  BY DEF LaneEvent, Comm
<1>7. Grown(tail, Prepared(t))
  BY <1>2, <1>5, GrownTwice
<1> QED BY <1>1, <1>5, <1>6, <1>7 DEF LanesWaited

LEMMA LaunchCovers ==
  ASSUME CallsAssumption, IInv, Named, Submits, Covers, Orders, NEW t \in Threads, Launch(t) \/ CloseHostRma(t)
  PROVE  Covers' /\ Orders'
<1>1. /\ pc[t] \in {"obtain", "submitting"} /\ todo[t] = <<>> /\ setting.algo # "PACK"
      /\ UNCHANGED <<setting, script>>
  BY DEF Launch, CloseHostRma, Ready, Obtaining, IInv, PackHolds, choices
<1>2. /\ held' = [held EXCEPT ![t] = Nothing] /\ call' = [call EXCEPT ![t] = NoCall]
      /\ pc' = [pc EXCEPT ![t] = "user"]
  BY DEF Launch, CloseHostRma, Return, Goto
<1>3. held[t].buffer
  BY <1>1 DEF IInv, BufferDue, Due, Has
<1>4. PICK tails : /\ Grown(tail, tails) /\ LanesWaited(t, tails)
                   /\ \/ Enqueues(t, tails, TRUE, NoFault)
                      \/ Enqueues(t, tails, FALSE, NoFault)
                      \/ \E f \in FaultsOf(t) : Enqueues(t, tails, TRUE, f)
  <2>1. CASE Launch(t)
    <3>1. Grown(tail, Prepared(t)) /\ LanesWaited(t, Prepared(t))
      BY <1>1, PreparedTails
    <3> QED BY <2>1, <3>1 DEF Launch
  <2>2. CASE CloseHostRma(t)
    <3>1. Grown(tail, tail) /\ LanesWaited(t, tail)
      BY <2>2 DEF CloseHostRma, Submits, LanesWaited, Grown, Covers, Kernels
    <3> QED BY <2>2, <3>1 DEF CloseHostRma
  <2> QED BY <2>1, <2>2
<1>5. PICK launched \in BOOLEAN : \E f \in {NoFault} \cup FaultsOf(t) : Enqueues(t, tails, launched, f)
  BY <1>4
<1>6. PICK fault \in {NoFault} \cup FaultsOf(t) : Enqueues(t, tails, launched, fault)
  BY <1>5
<1>7. DevsLeave(t)
  BY <1>1, <1>6, EnqueuesShape
<1>8. Enqueued(t, tails, launched)
  BY <1>1, <1>4, <1>6, EnqueuesEffect
<1>9. Covers'
  BY <1>1, <1>2, <1>3, <1>4, <1>7, <1>8, EnqueuesCovers
<1>10. Orders'
  BY <1>1, <1>3, <1>4, <1>8, EnqueuesOrders
<1> QED BY <1>9, <1>10

LEMMA NextSubmits ==
  ASSUME IInv, Submits, [CallsNext]_callsVars
  PROVE  Submits'
<1>1. ASSUME NEW t \in Threads, CallStep(t)
      PROVE  Submits'
  <2>1. CASE GroupStart(t) \/ Enqueue(t) \/ GroupAbort(t) \/ GroupEnd(t)
    BY <2>1 DEF GroupStart, Enqueue, GroupAbort, GroupEnd, choices, Submits
  <2>2. CASE Over(t)
    BY <2>2 DEF Over, Return, Goto, Submits, IInv, TypeOK
  <2>3. CASE Begin(t)
    BY <2>3 DEF Begin, Return, Goto, choices, Submits, IInv, TypeOK
  <2>4. CASE TakeBuffer(t)
    BY <2>4 DEF TakeBuffer, Return, Goto, choices, Submits, IInv, TypeOK
  <2>5. CASE TakeWindow(t) \/ OpenRegistration(t) \/ Register(t) \/ TakePlan(t)
    BY <2>5 DEF TakeWindow, OpenRegistration, Register, TakePlan, Goto, choices, Submits, IInv, TypeOK
  <2>6. CASE FindDevComm(t) \/ OpenCreation(t) \/ Create(t) \/ LockUse(t)
    BY <2>6 DEF FindDevComm, OpenCreation, Create, LockUse, Goto, choices, Submits, IInv, TypeOK
  <2>7. CASE TakeDevComm(t)
    BY <2>7 DEF TakeDevComm, Fail, Return, Goto, choices, Submits, IInv, TypeOK
  <2>8. CASE OpenHostRma(t)
    BY <2>8 DEF OpenHostRma, Ready, choices, Goto, Submits
  <2> QED BY <1>1, <2>1, <2>2, <2>3, <2>4, <2>5, <2>6, <2>7, <2>8, OverSteps DEF CallStep
<1>2. CASE UNCHANGED callsVars
  BY <1>2 DEF callsVars, choices, threadVars, Submits
<1> QED BY <1>1, <1>2 DEF CallsNext

-----------------------------------------------------------------------------
LEMMA NextCovers ==
  ASSUME CallsAssumption, setting.algo # "PACK", IInv, Named, Submits, Covers, Orders, [CallsNext]_callsVars
  PROVE  Covers' /\ Orders'
<1>0. IInv'
  BY NextIInv DEF CallsAssumption
<1>1. ASSUME NEW t \in Threads, Flow(t), BufferFlow(t), DevFlow(t)
      PROVE  Covers' /\ Orders'
  BY <1>0, <1>1, FlowCovers, FlowOrders
<1>2. ASSUME NEW t \in Threads, CallStep(t)
      PROVE  Covers' /\ Orders'
  <2>1. CASE GroupStart(t) \/ Enqueue(t) \/ GroupAbort(t) \/ GroupEnd(t)
    <3>1. UNCHANGED <<setting, script, kernels, done, quarantine, lanes, buffers, devs, tail, pc, call, held>>
      BY <2>1 DEF GroupStart, Enqueue, GroupAbort, GroupEnd, choices, cacheVars, streamVars
    <3> QED BY <1>1, <3>1, IdleFlow
  <2>2. CASE Begin(t) \/ TakeBuffer(t)
    BY <1>1, <2>2, BeginFlow, TakeBufferFlow
  <2>3. CASE TakeWindow(t) \/ OpenRegistration(t) \/ Register(t) \/ TakePlan(t) \/ OpenHostRma(t)
    BY <1>1, <2>3, WindowFlow, PlanFlow
  <2>4. CASE FindDevComm(t) \/ OpenCreation(t) \/ Create(t) \/ LockUse(t) \/ TakeDevComm(t)
    BY <1>1, <2>4, FindFlow, CreationFlow, CreateFlow, LockFlow, TakeFlow DEF CallsAssumption
  <2>5. CASE RegisterFails(t) \/ CreateFails(t) \/ CapacityExhausted(t) \/ LaneUnavailable(t)
    <3>1. pc[t] # "user" /\ (Fail(t, devs) \/ Fail(t, Unreserved(t)))
      BY <2>5 DEF RegisterFails, CreateFails, CapacityExhausted, LaneUnavailable, Ready, Wants
    <3> QED BY <1>1, <3>1, FailFlow
  <2>6. CASE Launch(t) \/ CloseHostRma(t)
    BY <2>6, LaunchCovers
  <2>7. CASE Pack(t)
    BY <2>7 DEF Pack
  <2> QED BY <1>2, <2>1, <2>2, <2>3, <2>4, <2>5, <2>6, <2>7 DEF CallStep
<1>3. CASE UNCHANGED callsVars
  <2>1. Kernels' /\ BufferCover' /\ MutexHeld' /\ DevCover' /\ LaneCover' /\ Orders'
    <3>1. UNCHANGED <<setting, script, kernels, done, quarantine, lanes, buffers, devs, tail, pc, call, held>>
      BY <1>3 DEF callsVars, choices, threadVars, cacheVars, streamVars
    <3>2. \A t \in Threads : UNCHANGED <<Comm(t), Behind(t)>>
      BY <3>1 DEF Comm, Behind, Work, WorkStream, CallerStream, Stream, Pooled
    <3>3. UNCHANGED <<Entries, Comms, Slots, Streams, Pooled>>
      BY <3>1 DEF Entries, Comms, Slots, Streams, Pooled, CallerStream, Stream
    <3>4. Kernels' /\ BufferCover'
      BY <3>1, <3>2, <3>3 DEF Covers, Kernels, BufferCover
    <3>5. MutexHeld' /\ DevCover' /\ LaneCover'
      BY <3>1, <3>2, <3>3 DEF Covers, MutexHeld, DevCover, LaneCover
    <3>6. Orders'
      BY <3>1, <3>3 DEF Orders, BuffersOrdered, DevCommsOrdered, LanesOrdered, Ordered
    <3> QED BY <3>4, <3>5, <3>6
  <2> QED BY <2>1 DEF Covers
<1> QED BY <1>2, <1>3 DEF CallsNext

LEMMA InitCovers ==
  ASSUME CallsInit
  PROVE  Covers /\ Orders /\ Submits
<1>1. /\ kernels = <<>> /\ DOMAIN kernels = {} /\ tail = [s \in Streams |-> {}]
      /\ lanes = [l \in Range(LaneOf) |-> [event |-> {}, poisoned |-> FALSE]]
      /\ \A t \in Threads : held[t] = Nothing /\ pc[t] = "user"
  BY DEF CallsInit
<1>2. Nothing.uses = <<>> /\ Range(<<>>) = {} /\ <<>> \in Seq(Slots)
  BY DEF Nothing, Range
<1>3. Kernels /\ MutexHeld
  <2>1. kernels \in Seq({kernels[k] : k \in DOMAIN kernels})
    BY <1>1
  <2>2. Kernels
    BY <1>1, <2>1 DEF Kernels
  <2>3. MutexHeld
    BY <1>1, <1>2 DEF MutexHeld
  <2> QED BY <2>2, <2>3
<1>4. BufferCover /\ DevCover /\ LaneCover
  BY <1>1 DEF BufferCover, DevCover, LaneCover
<1>5. Orders /\ Submits
  BY <1>1 DEF Orders, BuffersOrdered, DevCommsOrdered, LanesOrdered, Ordered, Submits
<1> QED BY <1>3, <1>4, <1>5 DEF Covers

LEMMA KernelsStay ==
  ASSUME NEW t \in Threads, CallStep(t), ~Launch(t), ~CloseHostRma(t)
  PROVE  kernels' = kernels
BY DEF CallStep, GroupStart, Enqueue, GroupAbort, GroupEnd, Begin, TakeBuffer, TakeWindow, OpenRegistration,
       Register, RegisterFails, TakePlan, FindDevComm, OpenCreation, CapacityExhausted, Create, CreateFails,
       LockUse, TakeDevComm, LaneUnavailable, OpenHostRma, Pack, Fail, streamVars

-----------------------------------------------------------------------------
(* The plans.  A plan whose host copy is valid was written for the shape it  *)
(* is filed under, and so was its device copy; whoever has the buffer and    *)
(* has taken its plan finds its own shape there until it launches.           *)
Table == 1 .. ControlSlots
IsPlan(p) ==
  p = [shape |-> p.shape, hostValid |-> p.hostValid, host |-> p.host,
       deviceValid |-> p.deviceValid, device |-> p.device]
PlanOK(p) == IsPlan(p) /\ (p.hostValid => p.host = p.shape) /\ (p.deviceValid => p.device = p.shape)

PlansKept ==
  \A c \in Comms : /\ buffers[c].plans = [s \in Table |-> buffers[c].plans[s]]
                   /\ \A s \in Table : PlanOK(buffers[c].plans[s])

ControlKept ==
  /\ control = [c \in Comms |-> control[c]]
  /\ \A c \in Comms : /\ control[c] \in Seq({control[c][i] : i \in DOMAIN control[c]})
                      /\ Len(control[c]) <= ControlSlots

Taken(t) ==
  LET p == buffers[Comm(t)].plans[held[t].plan]
  IN  p.shape = call[t].shape /\ (held[t].missed \/ p.hostValid)
Planned(t) ==
  /\ pc[t] # "user" /\ ~held[t].buffer => Due(t, "plan")
  /\ held[t].buffer => held[t].plan \in Table
  /\ held[t].buffer /\ ~Due(t, "plan") => Taken(t)

PlanInv == PlansKept /\ ControlKept /\ \A t \in Threads : Planned(t)

(* A step of t that changes no plan. *)
SamePlans == \A c \in Comms : buffers'[c].plans = buffers[c].plans
Settles(t) == Flow(t) /\ SamePlans /\ \A u \in Threads : u # t => todo'[u] = todo[u]

LEMMA SettledPlans ==
  ASSUME IInv, Named, PlanInv, PlanRight, NEW t \in Threads, Settles(t), ControlKept', Planned(t)'
  PROVE  PlanInv' /\ PlanRight'
<1>1. Comms' = Comms /\ Table' = Table
  BY DEF Settles, Flow, Comms, Entries, Table
<1>2. PlansKept'
  BY <1>1 DEF Settles, SamePlans, PlanInv, PlansKept
<1>3. ASSUME NEW u \in Threads, u # t
      PROVE  Planned(u)'
  <2>1. /\ held'[u] = held[u] /\ call'[u] = call[u] /\ pc'[u] = pc[u] /\ Comm(u)' = Comm(u)
        /\ Due(u, "plan")' = Due(u, "plan")
    BY <1>3 DEF Settles, Flow, Comm, Due
  <2>2. Planned(u)
    BY DEF PlanInv
  <2>3. held[u].buffer => Comm(u) \in Comms
    <3>1. held[u].buffer => held[u] # Nothing
      BY DEF Nothing
    <3> QED BY <3>1, HolderCalls, WorkIn
  <2>4. held[u].buffer => Taken(u)' = Taken(u)
    BY <2>1, <2>3 DEF Settles, SamePlans, Taken
  <2> QED BY <1>1, <2>1, <2>2, <2>4 DEF Planned
<1>4. PlanRight'
  BY DEF Settles, Flow, PlanRight
<1> QED BY <1>2, <1>3, <1>4 DEF PlanInv

LEMMA ControlSame ==
  ASSUME PlanInv, UNCHANGED <<setting, script, control>>
  PROVE  ControlKept'
<1>1. Comms' = Comms
  BY DEF Comms, Entries
<1> QED BY <1>1 DEF PlanInv, ControlKept

LEMMA PlannedEnd ==
  ASSUME NEW t \in Threads, held'[t] = Nothing, pc'[t] = "user"
  PROVE  Planned(t)'
BY DEF Planned, Nothing

LEMMA PlannedSame ==
  ASSUME IInv, Named, PlanInv, NEW t \in Threads, pc[t] # "user", call'[t] = call[t],
         held'[t].buffer = held[t].buffer, held'[t].plan = held[t].plan, held'[t].missed = held[t].missed,
         Due(t, "plan")' = Due(t, "plan"), SamePlans
  PROVE  Planned(t)'
<1>1. Comm(t)' = Comm(t) /\ Comm(t) \in Comms /\ Table' = Table
  BY WorkIn DEF Comm, Table
<1>2. Taken(t)' = Taken(t)
  BY <1>1 DEF Taken, SamePlans
<1>3. Planned(t)
  BY DEF PlanInv
<1> QED BY <1>1, <1>2, <1>3 DEF Planned

LEMMA DueSame ==
  ASSUME IInv, NEW t \in Threads,
         todo' = todo \/ (Obtained(t) /\ todo[t] # <<>> /\ Head(todo[t]).do # "plan")
  PROVE  /\ Due(t, "plan")' = Due(t, "plan")
         /\ \A u \in Threads : u # t => todo'[u] = todo[u]
<1>1. CASE todo' = todo
  BY <1>1 DEF Due
<1>2. CASE Obtained(t) /\ todo[t] # <<>> /\ Head(todo[t]).do # "plan"
  <2>1. todo'[t] = Tail(todo[t]) /\ \A u \in Threads : u # t => todo'[u] = todo[u]
    BY <1>2 DEF Obtained, IInv, TypeOK
  <2>2. Has(todo[t], "plan") <=> Head(todo[t]).do = "plan" \/ Has(Tail(todo[t]), "plan")
    BY <1>2, TailOrderly DEF IInv, TypeOK
  <2>3. Has(todo[t], "plan") <=> Has(Tail(todo[t]), "plan")
    BY <1>2, <2>2
  <2>4. Has(todo[t], "plan") \in BOOLEAN /\ Has(Tail(todo[t]), "plan") \in BOOLEAN
    BY DEF Has
  <2> QED BY <2>1, <2>3, <2>4 DEF Due
<1> QED BY <1>1, <1>2

LEMMA QuietPlans ==
  ASSUME IInv, Named, Covers, PlanInv, PlanRight, NEW t \in Threads, Flow(t), pc[t] # "user",
         call'[t] = call[t], UNCHANGED <<buffers, control>>,
         held'[t].buffer = held[t].buffer, held'[t].plan = held[t].plan, held'[t].missed = held[t].missed,
         todo' = todo \/ (Obtained(t) /\ todo[t] # <<>> /\ Head(todo[t]).do # "plan")
  PROVE  PlanInv' /\ PlanRight'
<1>1. SamePlans /\ ControlKept'
  BY ControlSame DEF SamePlans, Flow
<1>2. Settles(t) /\ Planned(t)'
  BY <1>1, DueSame, PlannedSame DEF Settles
<1> QED BY <1>1, <1>2, SettledPlans

LEMMA EndPlans ==
  ASSUME IInv, Named, Covers, PlanInv, PlanRight, NEW t \in Threads, Flow(t), SamePlans, ControlKept',
         Return(t, FALSE)
  PROVE  PlanInv' /\ PlanRight'
<1>1. held'[t] = Nothing /\ pc'[t] = "user" /\ \A u \in Threads : u # t => todo'[u] = todo[u]
  BY DEF Return, Goto, IInv, TypeOK
<1> QED BY <1>1, PlannedEnd, SettledPlans DEF Settles

LEMMA FailPlans ==
  ASSUME IInv, Named, Covers, PlanInv, PlanRight, NEW t \in Threads, pc[t] # "user",
         Fail(t, devs) \/ Fail(t, Unreserved(t))
  PROVE  PlanInv' /\ PlanRight'
<1>1. SamePlans
  <2>1. CASE held[t].buffer
    <3> DEFINE w == tail[Work(t)]
    <3>1. buffers' = [buffers EXCEPT ![Comm(t)].reserved = FALSE, ![Comm(t)].event = w]
      BY <2>1 DEF Fail
    <3> HIDE DEF w
    <3>2. buffers = [c \in Comms |-> buffers[c]] /\ \A c \in Comms : IsBuffer(buffers[c])
      BY DEF IInv, TypeOK
    <3>3. ASSUME NEW c \in Comms
          PROVE  buffers'[c] = IF c = Comm(t) THEN [buffers[c] EXCEPT !.reserved = FALSE, !.event = w] ELSE buffers[c]
      BY <3>1, <3>2
    <3> QED BY <3>2, <3>3 DEF IsBuffer, SamePlans
  <2>2. CASE ~held[t].buffer
    BY <2>2 DEF Fail, SamePlans
  <2> QED BY <2>1, <2>2
<1>2. ControlKept'
  BY ControlSame DEF Fail, choices
<1> QED BY <1>1, <1>2, FailFlow, EndPlans DEF Fail

LEMMA BeginPlans ==
  ASSUME CallsAssumption, IInv, Named, Covers, PlanInv, PlanRight, setting.algo \notin {"PACK", "DIRECT"},
         NEW t \in Threads, Begin(t)
  PROVE  PlanInv' /\ PlanRight'
<1>1. UNCHANGED <<setting, script, buffers, control>> /\ pc[t] = "user"
  BY DEF Begin, Issues, choices, cacheVars
<1>2. SamePlans /\ ControlKept'
  BY <1>1, ControlSame DEF SamePlans
<1>3. Flow(t)
  BY BeginFlow
<1>4. CASE Issued(t).flaw # "none"
  BY <1>2, <1>3, <1>4, EndPlans DEF Begin
<1>5. CASE Issued(t).flaw = "none"
  <2>1. /\ pc' = [pc EXCEPT ![t] = "obtain"] /\ held' = held
        /\ todo' = [todo EXCEPT ![t] = Needs(Issued(t))]
    BY <1>5 DEF Begin, Goto
  <2>2. held'[t] = Nothing /\ todo'[t] = Needs(Issued(t)) /\ \A u \in Threads : u # t => todo'[u] = todo[u]
    BY <1>1, <2>1 DEF IInv, BufferDue, TypeOK
  <2>3. Due(t, "plan")'
    BY <2>2, NeedsOrderly DEF Due
  <2>4. Planned(t)'
    BY <2>2, <2>3 DEF Planned, Nothing
  <2> QED BY <1>2, <1>3, <2>2, <2>4, SettledPlans DEF Settles
<1> QED BY <1>4, <1>5

LEMMA StillPlans ==
  ASSUME CallsAssumption, IInv, Named, Covers, PlanInv, PlanRight, NEW t \in Threads,
         \/ TakeWindow(t) \/ OpenRegistration(t) \/ Register(t) \/ OpenHostRma(t)
         \/ FindDevComm(t) \/ OpenCreation(t) \/ Create(t) \/ LockUse(t)
  PROVE  PlanInv' /\ PlanRight'
<1>1. Flow(t)
  BY WindowFlow, FindFlow, CreationFlow, CreateFlow, LockFlow DEF CallsAssumption
<1>2. UNCHANGED <<buffers, control, call>> /\ pc[t] # "user"
  BY DEF TakeWindow, OpenRegistration, Register, OpenHostRma, FindDevComm, OpenCreation, Create, LockUse,
         Wants, Ready, cacheVars
<1>3. todo' = todo \/ (Obtained(t) /\ todo[t] # <<>> /\ Head(todo[t]).do # "plan")
  <2>1. CASE TakeWindow(t)
    BY <2>1 DEF TakeWindow, Wants
  <2>2. CASE Register(t)
    BY <2>2 DEF Register, IInv, Obtaining
  <2>3. CASE ~TakeWindow(t) /\ ~Register(t)
    BY <2>3 DEF OpenRegistration, OpenHostRma, FindDevComm, OpenCreation, Create, LockUse
  <2> QED BY <2>1, <2>2, <2>3
<1>4. held'[t].buffer = held[t].buffer /\ held'[t].plan = held[t].plan /\ held'[t].missed = held[t].missed
  <2>1. CASE held' = held
    BY <2>1
  <2>2. CASE \E d : held' = [held EXCEPT ![t].dev = d]
    <3>1. PICK d : held' = [held EXCEPT ![t].dev = d]
      BY <2>2
    <3>2. IsHeld(held[t]) /\ held'[t] = [held[t] EXCEPT !.dev = d]
      BY <3>1 DEF IInv, TypeOK
    <3> QED BY <3>2 DEF IsHeld
  <2> QED BY <2>1, <2>2 DEF TakeWindow, OpenRegistration, Register, OpenHostRma, FindDevComm, OpenCreation,
             Create, LockUse
<1> QED BY <1>1, <1>2, <1>3, <1>4, QuietPlans

LEMMA TakeDevCommPlans ==
  ASSUME IInv, Named, Covers, PlanInv, PlanRight, NEW t \in Threads, TakeDevComm(t)
  PROVE  PlanInv' /\ PlanRight'
<1>1. pc[t] = "take" /\ Flow(t) /\ todo[t] # <<>> /\ Head(todo[t]).do # "plan"
  BY TakeFlow DEF TakeDevComm, IInv, Obtaining
<1>2. CASE devs[held[t].dev].poisoned
  BY <1>1, <1>2, FailPlans DEF TakeDevComm
<1>3. CASE ~devs[held[t].dev].poisoned
  <2>1. UNCHANGED <<buffers, control, call>> /\ Obtained(t)
        /\ (held' = held \/ held' = [held EXCEPT ![t].uses = Append(@, held[t].dev)])
    BY <1>3 DEF TakeDevComm
  <2>2. held'[t].buffer = held[t].buffer /\ held'[t].plan = held[t].plan /\ held'[t].missed = held[t].missed
    <3> DEFINE q == Append(held[t].uses, held[t].dev)
    <3>1. held = [u \in Threads |-> held[u]] /\ IsHeld(held[t])
      BY DEF IInv, TypeOK
    <3>2. CASE held' = held
      BY <3>2
    <3>3. CASE held' = [held EXCEPT ![t].uses = Append(@, held[t].dev)]
      <4>1. held'[t] = [held[t] EXCEPT !.uses = q]
        BY <3>1, <3>3
      <4> HIDE DEF q
      <4> QED BY <3>1, <4>1 DEF IsHeld
    <3> QED BY <2>1, <3>2, <3>3
  <2> QED BY <1>1, <2>1, <2>2, QuietPlans
<1> QED BY <1>2, <1>3

(* A control slot is one of the table. *)
LEMMA ControlSlotIs ==
  ASSUME ControlSlots \in Nat, ControlKept, NEW c \in Comms, NEW shape
  PROVE  /\ ControlSlot(c, shape) \in 0 .. ControlSlots
         /\ ControlSlot(c, shape) > Len(control[c]) => Len(control[c]) < ControlSlots
         /\ Len(control[c]) \in Nat
<1> DEFINE n == Len(control[c])
           I == {i \in 1 .. n : control[c][i] = shape}
<1>1. n \in Nat /\ n <= ControlSlots
  <2> DEFINE S == {control[c][i] : i \in DOMAIN control[c]}
  <2>1. control[c] \in Seq(S) /\ n <= ControlSlots
    BY DEF ControlKept
  <2> HIDE DEF S
  <2> QED BY <2>1
<1> HIDE DEF n
<1>2. I # {} => Min(I) \in 1 .. n
  <2>1. I \in SUBSET (1 .. n) /\ IsFiniteSet(1 .. n)
    BY <1>1, FS_Interval
  <2>2. I \in SUBSET Nat /\ IsFiniteSet(I)
    BY <1>1, <2>1, FS_Subset
  <2>3. ASSUME I # {} PROVE Min(I) \in I
    BY <2>2, <2>3, MinMember
  <2> QED BY <2>3
<1>3. ControlSlot(c, shape)
        = LET mine == IF I # {} THEN Min(I) ELSE 0
          IN  IF mine # 0 THEN mine ELSE IF n < ControlSlots THEN n + 1 ELSE 0
  BY DEF ControlSlot, SelectInSeq, n
<1> DEFINE m == IF I # {} THEN Min(I) ELSE 0
<1>4. m \in 0 .. n
  BY <1>1, <1>2
<1>5. ControlSlot(c, shape) = IF m # 0 THEN m ELSE IF n < ControlSlots THEN n + 1 ELSE 0
  BY <1>3
<1> HIDE DEF m, I
<1> QED BY <1>1, <1>4, <1>5 DEF n

LEMMA TakeBufferPlans ==
  ASSUME CallsAssumption, IInv, Named, Covers, PlanInv, PlanRight, setting.algo \notin {"PACK", "DIRECT"},
         NEW t \in Threads, TakeBuffer(t)
  PROVE  PlanInv' /\ PlanRight'
<1> DEFINE slot == ControlSlot(Comm(t), call[t].shape)
           Refuses == Entry(t).reserved \/ Entry(t).poisoned \/ slot = 0
<1>1. /\ pc[t] = "obtain" /\ todo[t] # <<>> /\ Head(todo[t]).do = "buffer" /\ UNCHANGED <<setting, script>>
  BY WantsFacts DEF TakeBuffer, choices
<1>2. Comm(t) \in Comms /\ Comms' = Comms
  BY <1>1, WorkIn DEF Comms, Entries
<1>3. /\ slot \in 0 .. ControlSlots /\ Len(control[Comm(t)]) \in Nat
      /\ slot > Len(control[Comm(t)]) => Len(control[Comm(t)]) < ControlSlots
  BY <1>2, ControlSlotIs DEF PlanInv, CallsAssumption
<1>4. Flow(t)
  BY TakeBufferFlow
<1>5. ControlKept'
  <2>1. CASE control' = control
    BY <1>1, <2>1, ControlSame DEF PlanInv
  <2>2. CASE control' # control
    <3> DEFINE q == Append(control[Comm(t)], call[t].shape)
    <3>1. control' = [control EXCEPT ![Comm(t)] = q] /\ slot > Len(control[Comm(t)])
      BY <2>2 DEF TakeBuffer
    <3>2. q \in Seq({q[i] : i \in DOMAIN q}) /\ Len(q) <= ControlSlots
      <4> DEFINE S == {control[Comm(t)][i] : i \in DOMAIN control[Comm(t)]} \cup {call[t].shape}
                 R == {q[i] : i \in DOMAIN q}
      <4>1. control[Comm(t)] \in Seq(S) /\ call[t].shape \in S
        <5> DEFINE D == {control[Comm(t)][i] : i \in DOMAIN control[Comm(t)]}
        <5>1. control[Comm(t)] \in Seq(D) /\ S = D \cup {call[t].shape}
          BY <1>2 DEF PlanInv, ControlKept
        <5> HIDE DEF D, S
        <5> QED BY <5>1
      <4> HIDE DEF S
      <4>2. q \in Seq(S) /\ Len(q) = Len(control[Comm(t)]) + 1
        BY <4>1, AppendProperties
      <4> HIDE DEF q
      <4>3. DOMAIN q = 1 .. Len(q) /\ q = [i \in 1 .. Len(q) |-> q[i]] /\ Len(q) \in Nat
        BY <4>2
      <4>4. \A i \in 1 .. Len(q) : q[i] \in R
        BY <4>3
      <4> HIDE DEF R
      <4>5. q \in Seq(R)
        BY <4>3, <4>4
      <4>6. Len(q) <= ControlSlots
        BY <1>3, <3>1, <4>2 DEF CallsAssumption
      <4> QED BY <4>5, <4>6 DEF R
    <3> HIDE DEF q
    <3>3. /\ control = [c \in Comms |-> control[c]]
          /\ \A c \in Comms : /\ control[c] \in Seq({control[c][i] : i \in DOMAIN control[c]})
                              /\ Len(control[c]) <= ControlSlots
      BY DEF PlanInv, ControlKept
    <3>4. control' = [c \in Comms |-> control'[c]]
      BY <3>1, <3>3
    <3>5. \A c \in Comms : control'[c] = IF c = Comm(t) THEN q ELSE control[c]
      BY <3>1, <3>3
    <3>6. ASSUME NEW c \in Comms
          PROVE  /\ control'[c] \in Seq({control'[c][i] : i \in DOMAIN control'[c]})
                 /\ Len(control'[c]) <= ControlSlots
      <4>1. CASE c = Comm(t)
        <5>1. control'[c] = q
          BY <3>5, <4>1
        <5> QED BY <3>2, <5>1
      <4>2. CASE c # Comm(t)
        <5>1. control'[c] = control[c]
          BY <3>5, <4>2
        <5> QED BY <3>3, <5>1
      <4> QED BY <4>1, <4>2
    <3> QED BY <1>2, <3>4, <3>6 DEF ControlKept
  <2> QED BY <2>1, <2>2
<1>6. CASE Refuses
  <2>1. Return(t, FALSE) /\ buffers' = buffers
    BY <1>6 DEF TakeBuffer
  <2>2. SamePlans
    BY <2>1 DEF SamePlans
  <2> QED BY <1>4, <1>5, <2>1, <2>2, EndPlans
<1>7. CASE ~Refuses
  <2>1. /\ buffers' = [buffers EXCEPT ![Comm(t)].allocated = TRUE, ![Comm(t)].reserved = TRUE]
        /\ held' = [held EXCEPT ![t].buffer = TRUE, ![t].plan = slot]
        /\ Obtained(t) /\ slot # 0
        /\ UNCHANGED <<pc, call>>
    BY <1>7 DEF TakeBuffer
  <2>2. ~held[t].buffer
    <3>1. Has(todo[t], "buffer") <=> Head(todo[t]).do = "buffer" \/ Has(Tail(todo[t]), "buffer")
      BY <1>1, TailOrderly DEF IInv, TypeOK
    <3> QED BY <1>1, <3>1 DEF IInv, BufferDue, Due
  <2> HIDE DEF slot, Refuses
  <2>3. SamePlans
    <3>1. buffers = [c \in Comms |-> buffers[c]] /\ \A c \in Comms : IsBuffer(buffers[c])
      BY DEF IInv, TypeOK
    <3>2. ASSUME NEW c \in Comms
          PROVE  buffers'[c] = IF c = Comm(t) THEN [buffers[c] EXCEPT !.allocated = TRUE, !.reserved = TRUE] ELSE buffers[c]
      BY <2>1, <3>1
    <3> QED BY <3>1, <3>2 DEF IsBuffer, SamePlans
  <2>4. Due(t, "plan")' = Due(t, "plan") /\ \A u \in Threads : u # t => todo'[u] = todo[u]
    BY <1>1, <2>1, DueSame
  <2>5. held'[t].buffer /\ held'[t].plan = slot
    <3>1. IsHeld(held[t]) /\ held'[t] = [held[t] EXCEPT !.buffer = TRUE, !.plan = slot]
      BY <2>1 DEF IInv, TypeOK
    <3> QED BY <3>1 DEF IsHeld
  <2>6. Planned(t)'
    <3>1. Due(t, "plan")'
      BY <1>1, <2>2, <2>4 DEF PlanInv, Planned
    <3>2. slot \in Table
      BY <1>3, <2>1 DEF Table, CallsAssumption
    <3>3. Table' = Table
      BY DEF Table
    <3> QED BY <2>5, <3>1, <3>2, <3>3 DEF Planned
  <2> QED BY <1>4, <1>5, <2>3, <2>4, <2>6, SettledPlans DEF Settles
<1> QED BY <1>6, <1>7

LEMMA PlanSet ==
  ASSUME NEW p, IsPlan(p), NEW a, NEW b, NEW c, NEW d
  PROVE  [p EXCEPT !.shape = a, !.host = b, !.hostValid = c, !.deviceValid = d]
           = [shape |-> a, hostValid |-> c, host |-> b, deviceValid |-> d, device |-> p.device]
<1> DEFINE x == [p EXCEPT !.shape = a]
           y == [x EXCEPT !.host = b]
           z == [y EXCEPT !.hostValid = c]
<1>1. x = [shape |-> a, hostValid |-> p.hostValid, host |-> p.host, deviceValid |-> p.deviceValid, device |-> p.device]
  BY DEF IsPlan
<1>2. [p EXCEPT !.shape = a, !.host = b, !.hostValid = c, !.deviceValid = d] = [z EXCEPT !.deviceValid = d]
  OBVIOUS
<1> HIDE DEF x
<1>3. y = [shape |-> a, hostValid |-> p.hostValid, host |-> b, deviceValid |-> p.deviceValid, device |-> p.device]
  BY <1>1
<1> HIDE DEF y
<1>4. z = [shape |-> a, hostValid |-> c, host |-> b, deviceValid |-> p.deviceValid, device |-> p.device]
  BY <1>3
<1> HIDE DEF z
<1> QED BY <1>2, <1>4

LEMMA PlanParts ==
  ASSUME NEW p, PlanOK(p), NEW missed
  PROVE  /\ PlanOK(Finalized(p, missed)) /\ Finalized(p, missed).shape = p.shape
         /\ missed \/ p.hostValid => Finalized(p, missed).hostValid
         /\ p.hostValid => PlanOK(Uploaded(p)) /\ Uploaded(p).device = p.shape /\ Uploaded(p).shape = p.shape
         /\ \A shape : PlanOK(Invalidate(p, shape)) /\ Invalidate(p, shape).shape = shape
<1>1. IsPlan(p)
  BY DEF PlanOK
<1>2. PlanOK(Finalized(p, missed)) /\ Finalized(p, missed).shape = p.shape
  <2>1. CASE missed
    <3>1. Finalized(p, missed) = [shape |-> p.shape, hostValid |-> TRUE, host |-> p.shape,
                                  deviceValid |-> FALSE, device |-> p.device]
      BY <1>1, <2>1 DEF Finalized, IsPlan
    <3> HIDE DEF Finalized
    <3> QED BY <3>1 DEF PlanOK, IsPlan
  <2>2. CASE ~missed
    BY <2>2 DEF Finalized
  <2> QED BY <2>1, <2>2
<1>3. ASSUME missed \/ p.hostValid PROVE Finalized(p, missed).hostValid
  <2>1. CASE missed
    <3>1. Finalized(p, missed) = [shape |-> p.shape, hostValid |-> TRUE, host |-> p.shape,
                                  deviceValid |-> FALSE, device |-> p.device]
      BY <1>1, <2>1 DEF Finalized, IsPlan
    <3> QED BY <3>1
  <2>2. CASE ~missed
    BY <1>3, <2>2 DEF Finalized
  <2> QED BY <2>1, <2>2
<1>4. ASSUME p.hostValid PROVE PlanOK(Uploaded(p)) /\ Uploaded(p).device = p.shape /\ Uploaded(p).shape = p.shape
  <2>1. CASE p.deviceValid
    BY <2>1 DEF Uploaded, PlanOK
  <2>2. CASE ~p.deviceValid
    <3>1. Uploaded(p) = [shape |-> p.shape, hostValid |-> p.hostValid, host |-> p.host,
                         deviceValid |-> TRUE, device |-> p.host]
      BY <1>1, <2>2 DEF Uploaded, IsPlan
    <3>2. p.host = p.shape
      BY <1>4 DEF PlanOK
    <3> QED BY <1>4, <3>1, <3>2 DEF PlanOK, IsPlan
  <2> QED BY <2>1, <2>2
<1>5. ASSUME NEW shape PROVE PlanOK(Invalidate(p, shape)) /\ Invalidate(p, shape).shape = shape
  <2>1. Invalidate(p, shape) = [shape |-> shape, hostValid |-> FALSE, host |-> "partial",
                                deviceValid |-> FALSE, device |-> p.device]
    <3>1. \A v1, v2, v3 : [p EXCEPT !.shape = shape, !.host = v1, !.hostValid = v2, !.deviceValid = v3]
            = [shape |-> shape, hostValid |-> v2, host |-> v1, deviceValid |-> v3, device |-> p.device]
      BY <1>1, PlanSet
    <3>2. Invalidate(p, shape) = [p EXCEPT !.shape = shape, !.host = "partial", !.hostValid = FALSE, !.deviceValid = FALSE]
      BY Zenon DEF Invalidate
    <3> QED BY Zenon, <3>1, <3>2
  <2> QED BY <2>1 DEF PlanOK, IsPlan
<1> QED BY <1>2, <1>3, <1>4, <1>5

(* A step of the one that has the buffer, which may change its plans. *)
Changes(t) ==
  /\ held[t].buffer
  /\ UNCHANGED <<setting, script>>
  /\ \A c \in Comms : c # Comm(t) => buffers'[c].plans = buffers[c].plans
  /\ \A u \in Threads : u # t => held'[u] = held[u] /\ call'[u] = call[u] /\ pc'[u] = pc[u] /\ todo'[u] = todo[u]

LEMMA ChangedPlans ==
  ASSUME IInv, Named, PlanInv, NEW t \in Threads, Changes(t), Comm(t) \in Comms, ControlKept', Planned(t)',
         buffers'[Comm(t)].plans = [s \in Table |-> buffers'[Comm(t)].plans[s]],
         \A s \in Table : PlanOK(buffers'[Comm(t)].plans[s])
  PROVE  PlanInv'
<1>1. Comms' = Comms /\ Table' = Table
  BY DEF Changes, Comms, Entries, Table
<1>2. PlansKept'
  <2> SUFFICES ASSUME NEW c \in Comms
      PROVE  /\ buffers'[c].plans = [s \in Table |-> buffers'[c].plans[s]]
             /\ \A s \in Table : PlanOK(buffers'[c].plans[s])
    BY <1>1 DEF PlansKept
  <2>1. CASE c = Comm(t)
    BY <2>1
  <2>2. CASE c # Comm(t)
    <3>1. buffers'[c].plans = buffers[c].plans
      BY <2>2 DEF Changes
    <3> QED BY <3>1 DEF PlanInv, PlansKept
  <2> QED BY <2>1, <2>2
<1>3. ASSUME NEW u \in Threads, u # t
      PROVE  Planned(u)'
  <2>1. /\ held'[u] = held[u] /\ call'[u] = call[u] /\ pc'[u] = pc[u] /\ Comm(u)' = Comm(u)
        /\ Due(u, "plan")' = Due(u, "plan")
    BY <1>3 DEF Changes, Comm, Due
  <2>2. Planned(u)
    BY DEF PlanInv
  <2>3. held[u].buffer => Comm(u) \in Comms /\ Comm(u) # Comm(t)
    <3>1. held[u].buffer => held[u] # Nothing
      BY DEF Nothing
    <3>2. held[u].buffer => Comm(u) # Comm(t)
      BY <1>3 DEF Changes, IInv, BuffersHeld
    <3> QED BY <3>1, <3>2, HolderCalls, WorkIn
  <2>4. held[u].buffer => Taken(u)' = Taken(u)
    BY <2>1, <2>3 DEF Changes, Taken
  <2> QED BY <1>1, <2>1, <2>2, <2>4 DEF Planned
<1> QED BY <1>2, <1>3 DEF PlanInv

LEMMA TakePlanPlans ==
  ASSUME IInv, Named, Covers, PlanInv, PlanRight, NEW t \in Threads, TakePlan(t)
  PROVE  PlanInv' /\ PlanRight'
<1> DEFINE n == held[t].plan
           p == Entry(t).plans[n]
           q == Invalidate(p, call[t].shape)
<1>1. /\ pc[t] = "obtain" /\ todo[t] # <<>> /\ Head(todo[t]).do = "plan" /\ setting.algo # "PACK"
      /\ UNCHANGED <<setting, script, call, pc, control, kernels>> /\ Obtained(t)
  BY WantsFacts DEF TakePlan, choices, streamVars
<1>2. held[t].buffer /\ ~Has(Tail(todo[t]), "plan")
  <2>1. ~Has(Tail(todo[t]), "buffer") /\ ~Has(Tail(todo[t]), "plan")
        /\ (Has(todo[t], "buffer") <=> Head(todo[t]).do = "buffer" \/ Has(Tail(todo[t]), "buffer"))
    BY <1>1, TailOrderly DEF IInv, TypeOK
  <2> QED BY <1>1, <2>1 DEF IInv, BufferDue, Due
<1>3. Comm(t) \in Comms /\ n \in Table /\ ControlKept' /\ Table' = Table /\ Comm(t)' = Comm(t)
  BY <1>1, <1>2, WorkIn, ControlSame DEF PlanInv, Planned, Table, Comm
<1>4. /\ buffers[Comm(t)].plans = [s \in Table |-> buffers[Comm(t)].plans[s]]
      /\ \A s \in Table : PlanOK(buffers[Comm(t)].plans[s])
  BY <1>3 DEF PlanInv, PlansKept
<1>5. PlanOK(p) /\ PlanOK(q) /\ q.shape = call[t].shape
  <2>1. PlanOK(p)
    BY <1>3, <1>4 DEF Entry
  <2> HIDE DEF p
  <2>2. PlanOK(Invalidate(p, call[t].shape)) /\ Invalidate(p, call[t].shape).shape = call[t].shape
    BY <2>1, PlanParts
  <2> QED BY <2>1, <2>2
<1>6. \A u \in Threads : u # t => todo'[u] = todo[u]
  BY <1>1 DEF Obtained, IInv, TypeOK
<1>7. held = [u \in Threads |-> held[u]] /\ IsHeld(held[t]) /\ buffers = [c \in Comms |-> buffers[c]] /\ IsBuffer(buffers[Comm(t)])
  BY <1>3 DEF IInv, TypeOK
<1>8. CASE p.hostValid /\ p.shape = call[t].shape
  <2>1. buffers' = buffers /\ held' = held
    BY <1>8 DEF TakePlan
  <2>2. Changes(t)
    BY <1>1, <1>2, <1>6, <2>1 DEF Changes
  <2>3. Planned(t)'
    BY <1>1, <1>2, <1>3, <1>8, <2>1 DEF Planned, Taken, Entry
  <2>4. PlanInv'
    BY <1>3, <1>4, <2>1, <2>2, <2>3, ChangedPlans
  <2> QED BY <1>1, <2>4 DEF PlanRight
<1>9. CASE ~(p.hostValid /\ p.shape = call[t].shape)
  <2>1. /\ buffers' = [buffers EXCEPT ![Comm(t)].plans[n] = q]
        /\ held' = [held EXCEPT ![t].missed = TRUE]
    BY <1>9 DEF TakePlan
  <2>2. held'[t].buffer /\ held'[t].plan = n /\ held'[t].missed /\ \A u \in Threads : u # t => held'[u] = held[u]
    <3>1. held'[t] = [held[t] EXCEPT !.missed = TRUE]
      BY <1>7, <2>1
    <3>2. held'[t].buffer = held[t].buffer /\ held'[t].plan = n /\ held'[t].missed = TRUE
      BY <1>7, <3>1 DEF IsHeld
    <3>3. \A u \in Threads : u # t => held'[u] = held[u]
      BY <1>7, <2>1
    <3> QED BY <1>2, <3>2, <3>3
  <2> HIDE DEF n, q, p
  <2>3. \A c \in Comms : buffers'[c] = IF c = Comm(t)
                                      THEN [buffers[c] EXCEPT !.plans = [buffers[c].plans EXCEPT ![n] = q]]
                                      ELSE buffers[c]
    BY <1>7, <2>1
  <2>4. buffers'[Comm(t)].plans = [buffers[Comm(t)].plans EXCEPT ![n] = q]
    <3> DEFINE r == [buffers[Comm(t)].plans EXCEPT ![n] = q]
    <3>1. buffers'[Comm(t)] = [buffers[Comm(t)] EXCEPT !.plans = r]
      BY <1>3, <2>3
    <3> HIDE DEF r
    <3>2. buffers'[Comm(t)].plans = r
      BY <1>7, <3>1 DEF IsBuffer
    <3> QED BY <3>2 DEF r
  <2>5. /\ buffers'[Comm(t)].plans = [s \in Table |-> buffers'[Comm(t)].plans[s]]
        /\ \A s \in Table : buffers'[Comm(t)].plans[s] = IF s = n THEN q ELSE buffers[Comm(t)].plans[s]
    BY <1>4, <2>4
  <2>6. \A s \in Table : PlanOK(buffers'[Comm(t)].plans[s])
    BY <1>4, <1>5, <2>5
  <2>7. Changes(t)
    BY <1>1, <1>2, <1>6, <2>2, <2>3 DEF Changes
  <2>8. Planned(t)'
    <3>1. buffers'[Comm(t)].plans[n].shape = call[t].shape
      BY <1>3, <1>5, <2>5
    <3>2. Taken(t)'
      BY <1>1, <1>3, <2>2, <3>1 DEF Taken
    <3> QED BY <1>1, <1>3, <2>2, <3>2 DEF Planned
  <2>9. PlanInv'
    BY <1>3, <2>5, <2>6, <2>7, <2>8, ChangedPlans
  <2> QED BY <1>1, <2>9 DEF PlanRight
<1> QED BY <1>8, <1>9

LEMMA PlanAppended ==
  ASSUME Kernels, PlanRight, NEW kernel, kernel.plan = kernel.shape, kernels' = Append(kernels, kernel)
  PROVE  PlanRight'
<1> DEFINE S == {kernels[k] : k \in DOMAIN kernels} \cup {kernel}
<1>1. kernels \in Seq(S) /\ kernel \in S
  <2> DEFINE R == {kernels[k] : k \in DOMAIN kernels}
  <2>1. kernels \in Seq(R) /\ S = R \cup {kernel}
    BY DEF Kernels
  <2> HIDE DEF R, S
  <2> QED BY <2>1
<1> HIDE DEF S
<1>2. /\ Len(kernels) \in Nat
      /\ DOMAIN kernels = 1 .. Len(kernels) /\ DOMAIN kernels' = 1 .. Len(kernels) + 1
      /\ (\A k \in 1 .. Len(kernels) : kernels'[k] = kernels[k]) /\ kernels'[Len(kernels) + 1] = kernel
  BY <1>1, AppendProperties
<1>3. ASSUME NEW k \in DOMAIN kernels'
      PROVE  kernels'[k].plan = kernels'[k].shape
  <2>1. CASE k \in DOMAIN kernels
    BY <1>2, <2>1 DEF PlanRight
  <2>2. CASE k \notin DOMAIN kernels
    <3>1. k = Len(kernels) + 1
      BY <1>2, <2>2
    <3> QED BY <1>2, <3>1
  <2> QED BY <2>1, <2>2
<1> QED BY <1>3 DEF PlanRight

LEMMA LaunchPlans ==
  ASSUME IInv, Named, Covers, PlanInv, PlanRight, setting.algo \notin {"PACK", "DIRECT"},
         NEW t \in Threads, Launch(t) \/ CloseHostRma(t)
  PROVE  PlanInv' /\ PlanRight'
<1> DEFINE n == held[t].plan
           p == Entry(t).plans[n]
           q == Uploaded(Finalized(p, held[t].missed))
<1>1. /\ pc[t] # "user" /\ todo[t] = <<>> /\ UNCHANGED <<setting, script, control>>
  BY DEF Launch, CloseHostRma, Ready, Obtaining, IInv, choices
<1>2. /\ held'[t] = Nothing /\ pc'[t] = "user"
      /\ \A u \in Threads : u # t => held'[u] = held[u] /\ call'[u] = call[u] /\ pc'[u] = pc[u] /\ todo'[u] = todo[u]
  BY DEF Launch, CloseHostRma, Return, Goto, IInv, TypeOK
<1>3. held[t].buffer /\ ~Due(t, "plan")
  BY <1>1 DEF IInv, BufferDue, Due, Has
<1>4. Comm(t) \in Comms /\ n \in Table /\ n # 0 /\ ControlKept' /\ Taken(t)
  BY <1>1, <1>3, WorkIn, ControlSame DEF PlanInv, Planned, Table
<1>5. /\ buffers[Comm(t)].plans = [s \in Table |-> buffers[Comm(t)].plans[s]]
      /\ \A s \in Table : PlanOK(buffers[Comm(t)].plans[s])
  BY <1>4 DEF PlanInv, PlansKept
<1>6. PlanOK(q) /\ q.device = call[t].shape
  <2>1. PlanOK(p) /\ p.shape = call[t].shape /\ (held[t].missed \/ p.hostValid)
    BY <1>4, <1>5 DEF Entry, Taken
  <2> HIDE DEF p
  <2> DEFINE g == Finalized(p, held[t].missed)
  <2>2. PlanOK(g) /\ g.shape = call[t].shape /\ g.hostValid
    BY <2>1, PlanParts
  <2> HIDE DEF g
  <2>3. PlanOK(Uploaded(g)) /\ Uploaded(g).device = call[t].shape
    BY <2>2, PlanParts
  <2> QED BY <2>3 DEF g
<1>7. PICK tails, launched, fault : Enqueues(t, tails, launched, fault)
  BY DEF Launch, CloseHostRma
<1>8. PlanRight'
  <2>1. CASE launched
    <3>1. kernels' = Append(kernels, Kernel(t, tails[Work(t)] \cup done, q.device))
      BY <1>4, <1>7, <2>1 DEF Enqueues
    <3> DEFINE kernel == Kernel(t, tails[Work(t)] \cup done, q.device)
    <3>2. kernel.plan = q.device /\ kernel.shape = call[t].shape
      BY DEF Kernel
    <3> HIDE DEF q, kernel
    <3>3. kernel.plan = kernel.shape
      BY <1>6, <3>2
    <3>4. kernels' = Append(kernels, kernel)
      BY <3>1 DEF kernel
    <3> QED BY <3>3, <3>4, PlanAppended DEF Covers
  <2>2. CASE ~launched
    <3>1. kernels' = kernels
      BY <1>7, <2>2 DEF Enqueues
    <3> QED BY <3>1 DEF PlanRight
  <2> QED BY <2>1, <2>2
<1>9. /\ \A c \in Comms : c # Comm(t) => buffers'[c].plans = buffers[c].plans
      /\ buffers'[Comm(t)].plans = [buffers[Comm(t)].plans EXCEPT ![n] = q]
  <2> DEFINE r == [buffers[Comm(t)].plans EXCEPT ![n] = q]
  <2>1. buffers = [c \in Comms |-> buffers[c]] /\ \A c \in Comms : IsBuffer(buffers[c])
    BY DEF IInv, TypeOK
  <2>2. ASSUME NEW c \in Comms, c # Comm(t)
        PROVE  buffers'[c] = buffers[c]
    BY <1>7, <2>1, <2>2 DEF Enqueues
  <2>3. \E x, y : buffers'[Comm(t)] = [buffers[Comm(t)] EXCEPT !.reserved = FALSE, !.event = x, !.poisoned = y, !.plans = r]
    BY <1>4, <1>7, <2>1 DEF Enqueues
  <2>4. PICK x, y : buffers'[Comm(t)] = [buffers[Comm(t)] EXCEPT !.reserved = FALSE, !.event = x, !.poisoned = y, !.plans = r]
    BY <2>3
  <2> HIDE DEF r
  <2>5. buffers'[Comm(t)].plans = r
    BY <1>4, <2>1, <2>4 DEF IsBuffer
  <2> QED BY <2>2, <2>5 DEF r
<1> HIDE DEF n, q, p
<1>10. /\ buffers'[Comm(t)].plans = [s \in Table |-> buffers'[Comm(t)].plans[s]]
       /\ \A s \in Table : buffers'[Comm(t)].plans[s] = IF s = n THEN q ELSE buffers[Comm(t)].plans[s]
  BY <1>5, <1>9
<1>11. \A s \in Table : PlanOK(buffers'[Comm(t)].plans[s])
  BY <1>5, <1>6, <1>10
<1>12. Changes(t)
  BY <1>1, <1>2, <1>3, <1>9 DEF Changes
<1>13. PlanInv'
  BY <1>2, <1>4, <1>10, <1>11, <1>12, PlannedEnd, ChangedPlans
<1> QED BY <1>8, <1>13

LEMMA NextPlans ==
  ASSUME CallsAssumption, IInv, Named, Covers, PlanInv, PlanRight, setting.algo \notin {"PACK", "DIRECT"},
         [CallsNext]_callsVars
  PROVE  PlanInv' /\ PlanRight'
<1>1. ASSUME UNCHANGED <<setting, script, pc, call, todo, held, buffers, control, kernels>>
      PROVE  PlanInv' /\ PlanRight'
  <2>1. UNCHANGED <<Comms, Table>>
    BY <1>1 DEF Comms, Entries, Table
  <2>2. \A t \in Threads : Planned(t)' = Planned(t)
    <3>1. \A t \in Threads : UNCHANGED <<Comm(t), Due(t, "plan")>>
      BY <1>1 DEF Comm, Due
    <3> QED BY <1>1, <2>1, <3>1 DEF Planned, Taken
  <2>3. PlansKept' /\ ControlKept' /\ PlanRight'
    BY <1>1, <2>1, ControlSame DEF PlanInv, PlansKept, PlanRight
  <2> QED BY <2>2, <2>3 DEF PlanInv
<1>2. ASSUME NEW t \in Threads, CallStep(t)
      PROVE  PlanInv' /\ PlanRight'
  <2>1. CASE GroupStart(t) \/ Enqueue(t) \/ GroupAbort(t) \/ GroupEnd(t)
    <3>1. UNCHANGED <<setting, script, pc, call, todo, held, buffers, control, kernels>>
      BY <2>1 DEF GroupStart, Enqueue, GroupAbort, GroupEnd, choices, cacheVars, streamVars
    <3> QED BY <1>1, <3>1
  <2>2. CASE Begin(t) \/ TakeBuffer(t)
    BY <2>2, BeginPlans, TakeBufferPlans
  <2>3. CASE \/ TakeWindow(t) \/ OpenRegistration(t) \/ Register(t) \/ OpenHostRma(t)
             \/ FindDevComm(t) \/ OpenCreation(t) \/ Create(t) \/ LockUse(t)
    BY <2>3, StillPlans
  <2>4. CASE TakePlan(t) \/ TakeDevComm(t)
    BY <2>4, TakePlanPlans, TakeDevCommPlans
  <2>5. CASE RegisterFails(t) \/ CreateFails(t) \/ CapacityExhausted(t) \/ LaneUnavailable(t)
    <3>1. pc[t] # "user" /\ (Fail(t, devs) \/ Fail(t, Unreserved(t)))
      BY <2>5 DEF RegisterFails, CreateFails, CapacityExhausted, LaneUnavailable, Ready, Wants
    <3> QED BY <3>1, FailPlans
  <2>6. CASE Launch(t) \/ CloseHostRma(t)
    BY <2>6, LaunchPlans
  <2>7. CASE Pack(t)
    BY <2>7 DEF Pack
  <2> QED BY <1>2, <2>1, <2>2, <2>3, <2>4, <2>5, <2>6, <2>7 DEF CallStep
<1>3. CASE UNCHANGED callsVars
  <2>1. UNCHANGED <<setting, script, pc, call, todo, held, buffers, control, kernels>>
    BY <1>3 DEF callsVars, choices, threadVars, cacheVars, streamVars
  <2> QED BY <1>1, <2>1
<1> QED BY <1>2, <1>3 DEF CallsNext

(* DIRECT has no plans to file: the kernel is launched with the call's own.  *)
LEMMA DirectPlans ==
  ASSUME Covers, PlanRight, setting.algo = "DIRECT", [CallsNext]_callsVars
  PROVE  PlanRight'
<1>1. CASE kernels' = kernels
  BY <1>1 DEF PlanRight
<1>2. ASSUME NEW t \in Threads, Launch(t) \/ CloseHostRma(t)
      PROVE  PlanRight'
  <2>1. PICK tails, launched, fault : Enqueues(t, tails, launched, fault)
    BY <1>2 DEF Launch, CloseHostRma
  <2>2. CASE launched
    <3> DEFINE kernel == Kernel(t, tails[Work(t)] \cup done, call[t].shape)
    <3>1. kernels' = Append(kernels, kernel)
      BY <2>1, <2>2 DEF Enqueues
    <3>2. kernel.plan = kernel.shape
      BY DEF Kernel
    <3> HIDE DEF kernel
    <3> QED BY <3>1, <3>2, PlanAppended DEF Covers
  <2>3. CASE ~launched
    <3>1. kernels' = kernels
      BY <2>1, <2>3 DEF Enqueues
    <3> QED BY <1>1, <3>1
  <2> QED BY <2>2, <2>3
<1>3. ASSUME NEW t \in Threads, CallStep(t), ~Launch(t), ~CloseHostRma(t)
      PROVE  kernels' = kernels
  BY <1>3, KernelsStay
<1>4. CASE UNCHANGED callsVars
  <2>1. kernels' = kernels
    BY <1>4 DEF callsVars, streamVars
  <2> QED BY <1>1, <2>1
<1> QED BY <1>1, <1>2, <1>3, <1>4 DEF CallsNext

LEMMA InitPlans ==
  ASSUME CallsInit, ControlSlots \in Nat
  PROVE  PlanInv /\ PlanRight
<1>1. PlanOK(NoPlan)
  BY DEF PlanOK, IsPlan, NoPlan
<1>2. /\ buffers = [c \in Comms |-> NoBuffer] /\ control = [c \in Comms |-> <<>>] /\ DOMAIN kernels = {}
      /\ \A t \in Threads : pc[t] = "user" /\ held[t] = Nothing
  BY DEF CallsInit
<1>3. PlansKept
  <2>1. NoBuffer.plans = [s \in Table |-> NoPlan]
    BY DEF NoBuffer, Table
  <2>2. ASSUME NEW c \in Comms
        PROVE  buffers[c].plans = [s \in Table |-> NoPlan]
    BY <1>2, <2>1
  <2>3. ASSUME NEW c \in Comms
        PROVE  buffers[c].plans = [s \in Table |-> buffers[c].plans[s]] /\ \A s \in Table : PlanOK(buffers[c].plans[s])
    BY <1>1, <2>2
  <2> QED BY <2>3 DEF PlansKept
<1>4. ControlKept
  <2>1. ASSUME NEW c \in Comms
        PROVE  control[c] \in Seq({control[c][i] : i \in DOMAIN control[c]}) /\ Len(control[c]) <= ControlSlots
    <3>1. control[c] = <<>>
      BY <1>2
    <3> QED BY <3>1
  <2> QED BY <1>2, <2>1 DEF ControlKept
<1>5. \A t \in Threads : Planned(t)
  BY <1>2 DEF Planned, Nothing
<1>6. PlanRight
  BY <1>2 DEF PlanRight
<1> QED BY <1>3, <1>4, <1>5, <1>6 DEF PlanInv

-----------------------------------------------------------------------------
(* A PACK call enqueues no kernel here, and a DIRECT call has no plan.       *)
OInv ==
  /\ setting.algo = "PACK" => kernels = <<>>
  /\ setting.algo # "PACK" => Named /\ Submits /\ Covers /\ Orders /\ PlanRight
  /\ setting.algo \notin {"PACK", "DIRECT"} => PlanInv

LEMMA NextOInv ==
  ASSUME CallsAssumption, IInv, OInv, [CallsNext]_callsVars
  PROVE  OInv'
<1>1. setting' = setting
  <2>1. ASSUME NEW t \in Threads, CallStep(t)
        PROVE  setting' = setting
    <3>1. CASE Inner(t) \/ Over(t)
      BY <3>1 DEF Inner, Over
    <3>2. CASE GroupStart(t) \/ Enqueue(t) \/ GroupAbort(t) \/ GroupEnd(t) \/ Begin(t)
      BY <3>2 DEF GroupStart, Enqueue, GroupAbort, GroupEnd, Begin, choices
    <3> QED BY <2>1, <3>1, <3>2, InnerSteps, OverSteps, EitherSteps DEF CallStep
  <2> QED BY <2>1 DEF CallsNext, callsVars, choices
<1>2. CASE setting.algo = "PACK"
  <2>1. kernels' = kernels
    <3>1. ASSUME NEW t \in Threads, CallStep(t)
          PROVE  kernels' = kernels
      <4>1. ~Launch(t) /\ ~CloseHostRma(t)
        BY <1>2 DEF Launch, Ready, CloseHostRma, IInv, PackHolds
      <4> QED BY <3>1, <4>1, KernelsStay
    <3> QED BY <3>1 DEF CallsNext, callsVars, streamVars
  <2> QED BY <1>1, <1>2, <2>1 DEF OInv
<1>3. CASE setting.algo # "PACK"
  <2>1. Named' /\ Submits' /\ Covers' /\ Orders'
    BY <1>3, NextNamed, NextSubmits, NextCovers DEF OInv
  <2>2. CASE setting.algo = "DIRECT"
    <3>1. PlanRight'
      BY <2>2, DirectPlans DEF OInv
    <3> QED BY <1>1, <2>1, <2>2, <3>1 DEF OInv
  <2>3. CASE setting.algo # "DIRECT"
    <3>1. PlanInv' /\ PlanRight'
      BY <1>3, <2>3, NextPlans DEF OInv
    <3> QED BY <1>1, <1>3, <2>1, <2>3, <3>1 DEF OInv
  <2> QED BY <2>2, <2>3
<1> QED BY <1>2, <1>3

LEMMA InitOInv ==
  ASSUME CallsAssumption, CallsInit
  PROVE  OInv
BY InitNamed, InitCovers, InitPlans DEF OInv, CallsInit, CallsAssumption

LEMMA OrdersFromOInv ==
  ASSUME OInv
  PROVE  BuffersOrdered /\ DevCommsOrdered /\ LanesOrdered /\ PlanRight
<1>1. CASE setting.algo = "PACK"
  <2>1. DOMAIN kernels = {}
    BY <1>1 DEF OInv
  <2> QED BY <2>1 DEF BuffersOrdered, DevCommsOrdered, LanesOrdered, Ordered, PlanRight
<1>2. CASE setting.algo # "PACK"
  BY <1>2 DEF OInv, Orders
<1> QED BY <1>1, <1>2

THEOREM OrdersInvariant ==
  ASSUME CallsAssumption
  PROVE  CallsSpec => [](IInv /\ OInv)
<1>1. CallsInit => OInv
  BY InitOInv
<1>2. IInv /\ OInv /\ [CallsNext]_callsVars => OInv'
  BY NextOInv
<1>3. CallsSpec => []IInv
  BY CallsInvariant
<1> QED BY <1>1, <1>2, <1>3, PTL DEF CallsSpec

(* The kernels of the calls follow each other on what they share, whatever   *)
(* streams they were enqueued on, whichever threads made the calls, with     *)
(* which of them failing: the staging buffer of a communicator               *)
(* (reshard_cache.cc:421-437), the DevComms (reshard_internal.h:518-531) and *)
(* the lanes of commB (reshard_split_comm.cu:1247-1288); and each reads the  *)
(* plan of its own call's shape.                                             *)
THEOREM OrderedAlways ==
  ASSUME CallsAssumption
  PROVE  CallsSpec => [](BuffersOrdered /\ DevCommsOrdered /\ LanesOrdered /\ PlanRight)
<1>1. OInv => BuffersOrdered /\ DevCommsOrdered /\ LanesOrdered /\ PlanRight
  BY OrdersFromOInv
<1> QED BY <1>1, OrdersInvariant, PTL
=============================================================================
