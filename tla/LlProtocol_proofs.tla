-------------------------- MODULE LlProtocol_proofs --------------------------
(***************************************************************************)
(* The safety of the low-latency protocol, proved for any number of ranks, *)
(* any program of operations, any mix of NVLink and RDMA and any number of *)
(* failures, of groups whose operations alternate (Alternates): classic    *)
(* groups, and AFD groups in which dispatch and combine take turns.        *)
(*                                                                         *)
(* A rank that sends in an operation has heard in the operation before     *)
(* from every rank it sends to, so the receiver is at most one operation   *)
(* behind and has wiped the bank (Reached).  With two banks, what is in    *)
(* the words and the payload of a bank then belongs to one operation.      *)
(***************************************************************************)
EXTENDS LlProtocol, FiniteSetTheorems, TLAPS

(* Who sends in an operation has received from its receivers in the last. *)
Alternates(m) ==
  \/ m.tokens = m.experts
  \/ \A o \in 2 .. Len(m.program) : m.program[o] # m.program[o - 1]

(* The bank of an operation. *)
BankAt(o) == (o - 1) % 2

Places == {"idle", "send", "staged", "recv"}
Messages == [from : Ranks, to : Ranks, op : Nat, bank : Banks]
Ring == [epoch : Int, pending_epoch : Int, send_in_flight : BOOLEAN]

TypeOK ==
  /\ mode \in Modes
  /\ op \in [Ranks -> Nat \ {0}]
  /\ pc \in [Ranks -> Places]
  /\ ring \in [Ranks -> Ring]
  /\ bank \in [Ranks -> Banks]
  /\ wiped \in [Ranks -> BOOLEAN]
  /\ put \in [Ranks -> SUBSET Ranks] /\ published \in [Ranks -> SUBSET Ranks]
  /\ got \in [Ranks -> SUBSET Ranks]
  /\ word \in [Ranks -> [Banks -> [Ranks -> SUBSET Nat]]]
  /\ data \in [Ranks -> [Banks -> [Ranks -> Nat]]]
  /\ net \subseteq Messages
  /\ sent \in [Ranks -> SUBSET (Ranks \X Nat)]
  /\ mask \in [Ranks -> SUBSET Ranks] /\ dead \subseteq Ranks

(* The epoch of a rank follows its operations, and its bank the epoch. *)
Epochs ==
  \A r \in Ranks :
    /\ ring[r].epoch = IF pc[r] = "recv" THEN op[r] ELSE op[r] - 1
    /\ ring[r].send_in_flight =>
         ring[r].pending_epoch = op[r] - 1 /\ pc[r] \in {"send", "staged"}
    /\ pc[r] = "staged" => ring[r].send_in_flight
    /\ pc[r] # "idle" => bank[r] = BankAt(op[r]) /\ op[r] <= Len(mode.program)

Edge(o, s, r) ==
  o \in Ops /\ s \in Senders(mode.program[o]) /\ r \in Receivers(mode.program[o])
Published(s, r, o) == <<r, o>> \in sent[s]
HasPut(s, r, o) == Published(s, r, o) \/ (o = op[s] /\ r \in put[s])

(* The books of an operation in progress. *)
Working ==
  \A s, r \in Ranks :
    /\ r \in put[s] => pc[s] # "idle" /\ Edge(op[s], s, r)
    /\ r \in published[s] => r \in put[s] /\ wiped[s] /\ Published(s, r, op[s])
    /\ r \in got[s] => pc[s] # "idle" /\ Published(r, s, op[s])

MaskedDead == \A r \in Ranks : mask[r] \subseteq dead

SentRight ==
  \A s, r \in Ranks, o \in Nat :
    Published(s, r, o) => Edge(o, s, r) /\ o <= op[s] /\ (o = op[s] => r \in published[s])

(* An operation is over when everyone has been heard or masked. *)
Completed ==
  \A s, r \in Ranks, o \in Nat :
    Edge(o, s, r) /\ o < op[r] => Published(s, r, o) \/ s \in mask[r]

(* A sender is at most one operation ahead of its receivers. *)
Reached ==
  \A s, r \in Ranks, o \in Nat :
    HasPut(s, r, o) /\ o > 1 => Published(r, s, o - 1)

(* An operation of s that r has not finished with s. *)
Open(r, s, o) == o > op[r] \/ (o = op[r] /\ s \notin got[r])

WordsRight ==
  \A r, s \in Ranks, b \in Banks : \A o \in word[r][b][s] :
    /\ Published(s, r, o) /\ b = BankAt(o)
    /\ s \notin mask[r] => Open(r, s, o)

NetRight ==
  \A m \in net :
    /\ Published(m.from, m.to, m.op) /\ m.bank = BankAt(m.op) /\ <<m.from, m.to>> \in mode.rdma
    /\ m.op \notin word[m.to][m.bank][m.from]
    /\ m.from \notin mask[m.to] => Open(m.to, m.from, m.op)

(* A payload stays in its bank until its receiver has finished. *)
DataRight ==
  \A s, r \in Ranks, o \in Nat :
    HasPut(s, r, o) /\ op[r] <= o /\ s \notin mask[r] => data[r][BankAt(o)][s] = o

Kept ==
  \A s, r \in Ranks, o \in Nat :
    Published(s, r, o) /\ s \notin mask[r] /\ Open(r, s, o) =>
      \/ o \in word[r][BankAt(o)][s]
      \/ [from |-> s, to |-> r, op |-> o, bank |-> BankAt(o)] \in net

IInv ==
  /\ TypeOK /\ Epochs /\ Working /\ MaskedDead /\ SentRight /\ Completed
  /\ Reached /\ WordsRight /\ NetRight /\ DataRight /\ Kept

-----------------------------------------------------------------------------
LEMMA BankFacts ==
  \A a, b \in Nat \ {0} :
    /\ BankAt(a) \in Banks
    /\ BankAt(a) = BankAt(b) <=> a % 2 = b % 2
    /\ BankAt(a) = BankAt(b) /\ a < b => a + 2 <= b
    /\ BankAt(a + 1) = 1 - BankAt(a)
  BY DEF BankAt, Banks

-----------------------------------------------------------------------------
(* What the steps that write shared memory do, word by word.               *)
LEMMA WipeFacts ==
  ASSUME TypeOK, NEW r \in Ranks, WipeNextBank(r)
  PROVE  /\ 1 - bank[r] \in Banks
         /\ word' \in [Ranks -> [Banks -> [Ranks -> SUBSET Nat]]]
         /\ \A q \in Ranks, b \in Banks, s \in Ranks :
              /\ word'[q][b][s] \subseteq word[q][b][s]
              /\ q # r \/ b = bank[r] => word'[q][b][s] = word[q][b][s]
<1> DEFINE kept == [s \in Ranks |->
                     IF <<s, r>> \in mode.rdma THEN word[r][1 - bank[r]][s] ELSE {}]
<1>1. \A b \in Banks : 1 - b \in Banks /\ b # 1 - b
  BY DEF Banks
<1>2. bank[r] \in Banks /\ word \in [Ranks -> [Banks -> [Ranks -> SUBSET Nat]]]
  BY DEF TypeOK
<1>3. 1 - bank[r] \in Banks /\ bank[r] # 1 - bank[r]
  BY <1>1, <1>2
<1>4. kept \in [Ranks -> SUBSET Nat]
  BY <1>2, <1>3
<1>5. \A s \in Ranks : kept[s] \subseteq word[r][1 - bank[r]][s]
  OBVIOUS
<1>6. word' = [word EXCEPT ![r][1 - bank[r]] = kept]
  BY DEF WipeNextBank
<1> HIDE DEF kept
<1>7. word' \in [Ranks -> [Banks -> [Ranks -> SUBSET Nat]]]
  BY <1>2, <1>3, <1>4, <1>6
<1>8. ASSUME NEW q \in Ranks, NEW b \in Banks, NEW s \in Ranks
      PROVE  /\ word'[q][b][s] \subseteq word[q][b][s]
             /\ q # r \/ b = bank[r] => word'[q][b][s] = word[q][b][s]
  BY <1>2, <1>3, <1>5, <1>6
<1> QED
  BY <1>3, <1>7, <1>8

LEMMA PutFacts ==
  ASSUME TypeOK, NEW r \in Ranks, NEW d \in Ranks, SendPayload(r, d)
  PROVE  /\ data' \in [Ranks -> [Banks -> [Ranks -> Nat]]]
         /\ \A s \in Ranks :
              data'[d][bank[r]][s]
                = IF s = r \/ data[d][bank[r]][s] = op[r] THEN op[r] ELSE 0
         /\ \A q \in Ranks, b \in Banks :
              q # d \/ b # bank[r] => data'[q][b] = data[q][b]
<1> DEFINE left == [s \in Ranks |->
                     IF s = r \/ data[d][bank[r]][s] = op[r] THEN op[r] ELSE 0]
<1>1. /\ bank[r] \in Banks /\ op[r] \in Nat
      /\ data \in [Ranks -> [Banks -> [Ranks -> Nat]]]
  BY DEF TypeOK
<1>2. left \in [Ranks -> Nat]
  BY <1>1
<1>3. data' = [data EXCEPT ![d][bank[r]] = left]
  BY DEF SendPayload
<1>4. data'[d][bank[r]] = left
  BY <1>1, <1>3
<1>5. \A s \in Ranks :
        data'[d][bank[r]][s] = IF s = r \/ data[d][bank[r]][s] = op[r] THEN op[r] ELSE 0
  BY <1>4
<1> HIDE DEF left
<1>6. data' \in [Ranks -> [Banks -> [Ranks -> Nat]]]
  BY <1>1, <1>2, <1>3
<1>7. \A q \in Ranks, b \in Banks :
        q # d \/ b # bank[r] => data'[q][b] = data[q][b]
  BY <1>1, <1>3
<1> QED
  BY <1>5, <1>6, <1>7

-----------------------------------------------------------------------------
(* What the invariant says of one pair of ranks.                           *)
LEMMA EdgeFacts ==
  ASSUME TypeOK
  PROVE  /\ Len(mode.program) \in Nat
         /\ \A o \in Ops : o \in Nat \ {0} /\ mode.program[o] \in Kinds
         /\ \A k : Senders(k) \subseteq Ranks /\ Receivers(k) \subseteq Ranks
<1>1. /\ mode.tokens \subseteq Ranks /\ mode.experts \subseteq Ranks
      /\ mode.program \in Seq(Kinds)
  BY ModesAssumption DEF TypeOK
<1>2. /\ Len(mode.program) \in Nat
      /\ \A o \in 1 .. Len(mode.program) : mode.program[o] \in Kinds
  BY <1>1
<1>3. \A o \in Ops : o \in Nat \ {0} /\ mode.program[o] \in Kinds
  BY <1>2 DEF Ops
<1>4. \A k : Senders(k) \subseteq Ranks /\ Receivers(k) \subseteq Ranks
  BY <1>1 DEF Senders, Receivers
<1> QED
  BY <1>2, <1>3, <1>4

(* A sender is never more than one operation ahead of its receivers.       *)
LEMMA Ahead ==
  ASSUME IInv, NEW s \in Ranks, NEW r \in Ranks, NEW o \in Nat, HasPut(s, r, o)
  PROVE  /\ Edge(o, s, r) /\ o \in Nat \ {0}
         /\ o <= op[s] /\ o <= op[r] + 1
         /\ o > 1 => Published(r, s, o - 1)
         /\ o > op[r] => o = op[r] + 1 /\ s \in published[r]
<1>1. op[r] \in Nat \ {0} /\ op[s] \in Nat \ {0}
  BY DEF IInv, TypeOK
<1>2. Edge(o, s, r) /\ o <= op[s]
  BY <1>1 DEF IInv, HasPut, SentRight, Working
<1>3. o \in Nat \ {0}
  BY <1>2, EdgeFacts DEF Edge, IInv
<1>4. o > 1 => Published(r, s, o - 1)
  BY DEF IInv, Reached
<1>5. o > 1 => o - 1 <= op[r] /\ (o - 1 = op[r] => s \in published[r])
  BY <1>3, <1>4 DEF IInv, SentRight
<1> QED
  BY <1>1, <1>2, <1>3, <1>4, <1>5

(* Nobody has left behind a living sender that has not published.          *)
LEMMA NotBehind ==
  ASSUME IInv, NEW s \in Ranks, NEW r \in Ranks, s \notin dead,
         Edge(op[s], s, r), r \notin published[s]
  PROVE  /\ op[r] <= op[s] /\ s \notin mask[r]
         /\ ~Published(s, r, op[s])
         /\ op[r] = op[s] => s \notin got[r]
<1>1. op[r] \in Nat \ {0} /\ op[s] \in Nat \ {0}
  BY DEF IInv, TypeOK
<1>2. s \notin mask[r]
  BY DEF IInv, MaskedDead
<1>3. ~Published(s, r, op[s])
  BY <1>1 DEF IInv, SentRight
<1>4. ~ (op[s] < op[r])
  BY <1>1, <1>2, <1>3 DEF IInv, Completed
<1>5. op[r] = op[s] => s \notin got[r]
  BY <1>3 DEF IInv, Working
<1> QED
  BY <1>1, <1>2, <1>3, <1>4, <1>5

(* A word a rank may consume holds the current operation or nothing.       *)
LEMMA Fresh ==
  ASSUME IInv, NEW r \in Ranks, NEW s \in Ranks, Active(r), s \notin mask[r]
  PROVE  /\ bank[r] = BankAt(op[r]) /\ bank[r] \in Banks
         /\ \A o \in word[r][bank[r]][s] :
              o = op[r] /\ Published(s, r, o) /\ s \notin got[r]
         /\ s \in got[r] => word[r][bank[r]][s] = {}
<1>1. /\ op[r] \in Nat \ {0} /\ bank[r] \in Banks
      /\ word[r][bank[r]][s] \subseteq Nat
  BY DEF IInv, TypeOK
<1>2. bank[r] = BankAt(op[r])
  BY DEF IInv, Epochs, Active
<1>3. ASSUME NEW o \in word[r][bank[r]][s]
      PROVE  o = op[r] /\ Published(s, r, o) /\ s \notin got[r]
  <2>1. Published(s, r, o) /\ bank[r] = BankAt(o) /\ Open(r, s, o)
    BY <1>1 DEF IInv, WordsRight
  <2>2. HasPut(s, r, o) /\ o \in Nat
    BY <1>1, <2>1 DEF HasPut
  <2>3. o \in Nat \ {0} /\ o <= op[r] + 1
    BY <2>2, Ahead
  <2>4. o >= op[r] /\ (o = op[r] => s \notin got[r])
    BY <1>1, <2>1, <2>3 DEF Open
  <2>5. ~ (op[r] < o)
    <3>1. BankAt(op[r]) = BankAt(o) /\ op[r] < o => op[r] + 2 <= o
      BY <1>1, <2>3, BankFacts
    <3> QED
      BY <1>1, <1>2, <2>1, <2>3, <3>1
  <2> QED
    BY <1>1, <2>1, <2>3, <2>4, <2>5
<1> QED
  BY <1>1, <1>2, <1>3

-----------------------------------------------------------------------------
(* The steps of a rank that touch neither the buffers nor the books.       *)
LEMMA Quiet ==
  ASSUME IInv, UNCHANGED <<mode, op, workVars, memVars, mask>>
  PROVE  /\ SentRight' /\ Completed' /\ Reached'
         /\ WordsRight' /\ NetRight' /\ DataRight' /\ Kept'
<1> USE DEF workVars, memVars
<1>1. SentRight'
  BY DEF IInv, SentRight, Published, Edge, Ops, Senders, Receivers
<1>2. Completed'
  BY DEF IInv, Completed, Published, Edge, Ops, Senders, Receivers
<1>3. Reached'
  BY DEF IInv, Reached, HasPut, Published
<1>4. WordsRight'
  <2> SUFFICES ASSUME NEW r \in Ranks, NEW s \in Ranks, NEW b \in Banks, NEW o \in word[r][b][s]
               PROVE  /\ Published(s, r, o)' /\ b = BankAt(o)
                      /\ s \notin mask[r] => Open(r, s, o)'
    BY DEF WordsRight
  <2> QED
    BY DEF IInv, WordsRight, Published, Open
<1>5. NetRight'
  BY DEF IInv, NetRight, Published, Open
<1>6. DataRight'
  BY DEF IInv, DataRight, HasPut, Published
<1>7. Kept'
  BY DEF IInv, Kept, Published, Open
<1> QED
  BY <1>1, <1>2, <1>3, <1>4, <1>5, <1>6, <1>7

LEMMA LaunchHolds ==
  ASSUME IInv, NEW r \in Ranks, Launch(r)
  PROVE  IInv'
<1> USE DEF opVars, workVars, memVars, failVars
<1>1. op[r] \in Nat \ {0} /\ ring[r] \in Ring /\ ring[r].epoch = op[r] - 1
  BY DEF IInv, TypeOK, Epochs, Launch
<1>2. bank' = [bank EXCEPT ![r] = BankAt(op[r])] /\ BankAt(op[r]) \in Banks
  BY <1>1, BankFacts DEF Launch, BankOf, BankAt
<1>3. /\ ring' \in [Ranks -> Ring]
      /\ \A q \in Ranks : q # r => ring'[q] = ring[q]
      /\ ring'[r].epoch = op[r] - 1
      /\ ring'[r].send_in_flight => ring'[r].pending_epoch = op[r] - 1
  <2>1. CASE UNCHANGED ring
    BY <1>1, <2>1 DEF IInv, TypeOK, Launch
  <2>2. CASE ring' = [ring EXCEPT ![r].pending_epoch = ring[r].epoch,
                                  ![r].send_in_flight = TRUE]
    BY <1>1, <2>2 DEF IInv, TypeOK, Ring
  <2> QED
    BY <2>1, <2>2 DEF Launch
<1>4. TypeOK'
  <2>1. bank' \in [Ranks -> Banks] /\ pc' \in [Ranks -> Places]
    BY <1>2 DEF IInv, TypeOK, Launch, Goto, Places
  <2> QED
    BY <1>3, <2>1 DEF IInv, TypeOK, Launch
<1>5. Epochs'
  <2> SUFFICES ASSUME NEW q \in Ranks
               PROVE  /\ ring'[q].epoch = IF pc'[q] = "recv" THEN op[q] ELSE op[q] - 1
                      /\ ring'[q].send_in_flight =>
                           ring'[q].pending_epoch = op[q] - 1 /\ pc'[q] \in {"send", "staged"}
                      /\ pc'[q] = "staged" => ring'[q].send_in_flight
                      /\ pc'[q] # "idle" =>
                           bank'[q] = BankAt(op[q]) /\ op[q] <= Len(mode.program)
    BY DEF Epochs, Launch
  <2>1. CASE q = r
    BY <1>2, <1>3, <2>1 DEF IInv, TypeOK, Launch, Goto
  <2>2. CASE q # r
    BY <1>2, <1>3, <2>2 DEF IInv, TypeOK, Epochs, Launch, Goto
  <2> QED
    BY <2>1, <2>2
<1>6. Working'
  BY DEF IInv, TypeOK, Working, Launch, Goto, Edge, Ops, Published, Senders, Receivers
<1>7. MaskedDead'
  BY DEF IInv, MaskedDead, Launch
<1> QED
  BY <1>4, <1>5, <1>6, <1>7, Quiet DEF IInv, Launch

LEMMA SendDoneHolds ==
  ASSUME IInv, NEW r \in Ranks, SendDone(r)
  PROVE  IInv'
<1> USE DEF opVars, workVars, memVars, failVars
<1>1. /\ pc' \in [Ranks -> Places] /\ pc[r] = "send"
      /\ \A q \in Ranks : q # r => pc'[q] = pc[q]
      /\ pc'[r] = IF ring[r].send_in_flight THEN "staged" ELSE "recv"
  BY DEF IInv, TypeOK, SendDone, Goto, Places
<1>2. /\ ring' \in [Ranks -> Ring]
      /\ \A q \in Ranks : q # r => ring'[q] = ring[q]
      /\ ring'[r].send_in_flight = ring[r].send_in_flight
      /\ ring'[r].pending_epoch = ring[r].pending_epoch
      /\ ring'[r].epoch = IF ring[r].send_in_flight THEN ring[r].epoch ELSE ring[r].epoch + 1
  <2>1. CASE ring[r].send_in_flight
    BY <2>1 DEF IInv, TypeOK, SendDone
  <2>2. CASE ~ring[r].send_in_flight
    <3>1. ring \in [Ranks -> Ring] /\ ring' = [ring EXCEPT ![r].epoch = ring[r].epoch + 1]
      BY <2>2 DEF IInv, TypeOK, SendDone
    <3> QED
      BY <2>2, <3>1 DEF Ring
  <2> QED
    BY <2>1, <2>2
<1>3. TypeOK'
  BY <1>1, <1>2 DEF IInv, TypeOK, SendDone
<1>4. Epochs'
  <2> SUFFICES ASSUME NEW q \in Ranks
               PROVE  /\ ring'[q].epoch = IF pc'[q] = "recv" THEN op[q] ELSE op[q] - 1
                      /\ ring'[q].send_in_flight =>
                           ring'[q].pending_epoch = op[q] - 1 /\ pc'[q] \in {"send", "staged"}
                      /\ pc'[q] = "staged" => ring'[q].send_in_flight
                      /\ pc'[q] # "idle" =>
                           bank[q] = BankAt(op[q]) /\ op[q] <= Len(mode.program)
    BY DEF Epochs, SendDone
  <2>1. CASE q = r
    BY <1>1, <1>2, <2>1 DEF IInv, TypeOK, Epochs
  <2>2. CASE q # r
    BY <1>1, <1>2, <2>2 DEF IInv, Epochs
  <2> QED
    BY <2>1, <2>2
<1>5. Working'
  BY <1>1 DEF IInv, Working, SendDone, Edge, Ops, Published, Senders, Receivers
<1>6. MaskedDead'
  BY DEF IInv, MaskedDead, SendDone
<1> QED
  BY <1>3, <1>4, <1>5, <1>6, Quiet DEF IInv, SendDone

LEMMA CompleteHolds ==
  ASSUME IInv, NEW r \in Ranks, Complete(r)
  PROVE  IInv'
<1> USE DEF opVars, workVars, memVars, failVars
<1>1. op[r] \in Nat \ {0} /\ ring[r] \in Ring /\ ring[r].epoch = op[r] - 1
  BY DEF IInv, TypeOK, Epochs, Complete
<1>2. bank' = [bank EXCEPT ![r] = BankAt(op[r])] /\ BankAt(op[r]) \in Banks
  BY <1>1, BankFacts DEF IInv, Epochs, Complete, BankOf, BankAt
<1>3. /\ ring' \in [Ranks -> Ring]
      /\ \A q \in Ranks : q # r => ring'[q] = ring[q]
      /\ ring'[r].epoch = op[r] /\ ~ring'[r].send_in_flight
  <2>1. ring \in [Ranks -> Ring]
    BY DEF IInv, TypeOK
  <2>2. ring[r].epoch + 1 = op[r] /\ op[r] \in Int
    BY <1>1
  <2>3. ring' = [ring EXCEPT ![r].epoch = op[r], ![r].send_in_flight = FALSE]
    BY <2>2 DEF Complete
  <2> QED
    BY <2>1, <2>2, <2>3 DEF Ring
<1>4. /\ pc' \in [Ranks -> Places] /\ pc'[r] = "recv" /\ pc[r] = "staged"
      /\ \A q \in Ranks : q # r => pc'[q] = pc[q]
  BY DEF IInv, TypeOK, Complete, Goto, Places
<1>5. TypeOK'
  <2>1. bank' \in [Ranks -> Banks]
    BY <1>2 DEF IInv, TypeOK
  <2> QED
    BY <1>3, <1>4, <2>1 DEF IInv, TypeOK, Complete
<1>6. Epochs'
  <2> SUFFICES ASSUME NEW q \in Ranks
               PROVE  /\ ring'[q].epoch = IF pc'[q] = "recv" THEN op[q] ELSE op[q] - 1
                      /\ ring'[q].send_in_flight =>
                           ring'[q].pending_epoch = op[q] - 1 /\ pc'[q] \in {"send", "staged"}
                      /\ pc'[q] = "staged" => ring'[q].send_in_flight
                      /\ pc'[q] # "idle" =>
                           bank'[q] = BankAt(op[q]) /\ op[q] <= Len(mode.program)
    BY DEF Epochs, Complete
  <2>1. CASE q = r
    BY <1>2, <1>3, <1>4, <2>1 DEF IInv, TypeOK, Epochs
  <2>2. CASE q # r
    BY <1>2, <1>3, <1>4, <2>2 DEF IInv, TypeOK, Epochs
  <2> QED
    BY <2>1, <2>2
<1>7. Working'
  BY <1>4 DEF IInv, Working, Complete, Edge, Ops, Published, Senders, Receivers
<1>8. MaskedDead'
  BY DEF IInv, MaskedDead, Complete
<1> QED
  BY <1>5, <1>6, <1>7, <1>8, Quiet DEF IInv, Complete

LEMMA CrashHolds ==
  ASSUME IInv, NEW r \in Ranks, Crash(r)
  PROVE  IInv'
<1> USE DEF opVars, workVars, memVars, failVars
<1>1. TypeOK'
  BY DEF IInv, TypeOK, Crash
<1>2. Epochs'
  BY DEF IInv, Epochs, Crash
<1>3. Working'
  BY DEF IInv, Working, Crash, Edge, Ops, Published, Senders, Receivers
<1>4. MaskedDead'
  BY DEF IInv, MaskedDead, Crash
<1> QED
  BY <1>1, <1>2, <1>3, <1>4, Quiet DEF IInv, Crash

(* A rank that is masked can only be forgiven what it did not publish.     *)
LEMMA TimeoutHolds ==
  ASSUME IInv, NEW r \in Ranks, NEW s \in Ranks, Timeout(r, s)
  PROVE  IInv'
<1> USE DEF opVars, workVars, memVars, failVars
<1>1. /\ mask' \in [Ranks -> SUBSET Ranks]
      /\ \A q \in Ranks : mask[q] \subseteq mask'[q] /\ mask'[q] \subseteq mask[q] \cup {s}
  BY DEF IInv, TypeOK, Timeout
<1>2. TypeOK'
  BY <1>1 DEF IInv, TypeOK, Timeout
<1>3. Epochs'
  BY DEF IInv, Epochs, Timeout
<1>4. Working'
  BY DEF IInv, Working, Timeout, Edge, Ops, Published, Senders, Receivers
<1>5. MaskedDead'
  BY <1>1 DEF IInv, MaskedDead, Timeout
<1>6. SentRight'
  BY DEF IInv, SentRight, Timeout, Published, Edge, Ops, Senders, Receivers
<1>7. Completed'
  BY <1>1 DEF IInv, Completed, Timeout, Published, Edge, Ops, Senders, Receivers
<1>8. Reached'
  BY DEF IInv, Reached, Timeout, HasPut, Published
<1>9. WordsRight'
  <2> SUFFICES ASSUME NEW q \in Ranks, NEW p \in Ranks, NEW b \in Banks, NEW o \in word[q][b][p]
               PROVE  /\ Published(p, q, o)' /\ b = BankAt(o)
                      /\ p \notin mask'[q] => Open(q, p, o)'
    BY DEF WordsRight, Timeout
  <2> QED
    BY <1>1 DEF IInv, WordsRight, Timeout, Published, Open
<1>10. NetRight'
  <2> SUFFICES ASSUME NEW m \in net
               PROVE  /\ Published(m.from, m.to, m.op)' /\ m.bank = BankAt(m.op)
                      /\ <<m.from, m.to>> \in mode.rdma
                      /\ m.op \notin word[m.to][m.bank][m.from]
                      /\ m.from \notin mask'[m.to] => Open(m.to, m.from, m.op)'
    BY DEF NetRight, Timeout
  <2>1. m.to \in Ranks
    BY DEF IInv, TypeOK, Messages
  <2> QED
    BY <1>1, <2>1 DEF IInv, NetRight, Timeout, Published, Open
<1>11. DataRight'
  BY <1>1 DEF IInv, DataRight, Timeout, HasPut, Published
<1>12. Kept'
  BY <1>1 DEF IInv, Kept, Timeout, Published, Open
<1> QED
  BY <1>2, <1>3, <1>4, <1>5, <1>6, <1>7, <1>8, <1>9, <1>10, <1>11, <1>12 DEF IInv

(* No rank has been told of an operation of the bank that is wiped: who    *)
(* publishes in it has heard from this rank, which publishes wiped.        *)
LEMMA WipeHolds ==
  ASSUME IInv, NEW r \in Ranks, WipeNextBank(r)
  PROVE  IInv'
<1> USE DEF opVars, workVars, memVars, failVars
<1>1. /\ 1 - bank[r] \in Banks
      /\ word' \in [Ranks -> [Banks -> [Ranks -> SUBSET Nat]]]
      /\ \A q \in Ranks, b \in Banks, s \in Ranks :
           /\ word'[q][b][s] \subseteq word[q][b][s]
           /\ q # r \/ b = bank[r] => word'[q][b][s] = word[q][b][s]
  BY WipeFacts DEF IInv
<1>2. /\ wiped' = [wiped EXCEPT ![r] = TRUE] /\ pc[r] = "send" /\ ~wiped[r]
      /\ wiped \in [Ranks -> BOOLEAN] /\ bank[r] = BankAt(op[r]) /\ op[r] \in Nat \ {0}
  BY DEF IInv, TypeOK, Epochs, WipeNextBank
<1>3. TypeOK'
  BY <1>1, <1>2 DEF IInv, TypeOK, WipeNextBank
<1>4. Epochs'
  BY DEF IInv, Epochs, WipeNextBank
<1>5. Working'
  BY <1>2 DEF IInv, Working, WipeNextBank, Edge, Ops, Published, Senders, Receivers
<1>6. MaskedDead'
  BY DEF IInv, MaskedDead, WipeNextBank
<1>7. SentRight'
  BY DEF IInv, SentRight, WipeNextBank, Published, Edge, Ops, Senders, Receivers
<1>8. Completed'
  BY DEF IInv, Completed, WipeNextBank, Published, Edge, Ops, Senders, Receivers
<1>9. Reached'
  BY DEF IInv, Reached, WipeNextBank, HasPut, Published
<1>10. WordsRight'
  <2> SUFFICES ASSUME NEW q \in Ranks, NEW s \in Ranks, NEW b \in Banks, NEW o \in word'[q][b][s]
               PROVE  /\ Published(s, q, o)' /\ b = BankAt(o)
                      /\ s \notin mask[q] => Open(q, s, o)'
    BY DEF WordsRight, WipeNextBank
  <2>1. o \in word[q][b][s]
    BY <1>1
  <2> QED
    BY <2>1 DEF IInv, WordsRight, WipeNextBank, Published, Open
<1>11. NetRight'
  <2> SUFFICES ASSUME NEW m \in net
               PROVE  /\ Published(m.from, m.to, m.op)' /\ m.bank = BankAt(m.op)
                      /\ <<m.from, m.to>> \in mode.rdma
                      /\ m.op \notin word'[m.to][m.bank][m.from]
                      /\ m.from \notin mask[m.to] => Open(m.to, m.from, m.op)'
    BY DEF NetRight, WipeNextBank
  <2>1. m.to \in Ranks /\ m.from \in Ranks /\ m.bank \in Banks
    BY DEF IInv, TypeOK, Messages
  <2>2. word'[m.to][m.bank][m.from] \subseteq word[m.to][m.bank][m.from]
    BY <1>1, <2>1
  <2> QED
    BY <2>2 DEF IInv, NetRight, WipeNextBank, Published, Open
<1>12. DataRight'
  BY DEF IInv, DataRight, WipeNextBank, HasPut, Published
<1>13. Kept'
  <2> SUFFICES ASSUME NEW s \in Ranks, NEW q \in Ranks, NEW o \in Nat,
                      Published(s, q, o), s \notin mask[q], Open(q, s, o)
               PROVE  \/ o \in word'[q][BankAt(o)][s]
                      \/ [from |-> s, to |-> q, op |-> o, bank |-> BankAt(o)] \in net
    BY DEF Kept, WipeNextBank, Published, Open
  <2>1. \/ o \in word[q][BankAt(o)][s]
        \/ [from |-> s, to |-> q, op |-> o, bank |-> BankAt(o)] \in net
    BY DEF IInv, Kept
  <2>2. HasPut(s, q, o)
    BY DEF HasPut
  <2>3. o \in Nat \ {0} /\ (o > op[q] => o = op[q] + 1 /\ s \in published[q])
    BY <2>2, Ahead
  <2>4. BankAt(o) \in Banks
    BY <2>3, BankFacts
  <2>5. CASE q # r
    BY <1>1, <2>1, <2>4, <2>5
  <2>6. CASE q = r
    <3>1. s \notin published[r]
      BY <1>2 DEF IInv, Working
    <3>2. o = op[r]
      BY <1>2, <2>3, <2>6, <3>1 DEF Open
    <3> QED
      BY <1>1, <1>2, <2>1, <2>4, <2>6, <3>2
  <2> QED
    BY <2>5, <2>6
<1> QED
  BY <1>3, <1>4, <1>5, <1>6, <1>7, <1>8, <1>9, <1>10, <1>11, <1>12, <1>13 DEF IInv

(* Who sends in an operation has heard in the last from every receiver.    *)
LEMMA HeardFrom ==
  ASSUME IInv, Alternates(mode), NEW s \in Ranks, NEW r \in Ranks,
         Edge(op[s], s, r), r \notin mask[s], op[s] > 1
  PROVE  Published(r, s, op[s] - 1)
<1> DEFINE o == op[s]
<1>1. /\ o \in Nat \ {0} /\ Len(mode.program) \in Nat
      /\ \A n \in Ops : n \in Nat \ {0} /\ mode.program[n] \in Kinds
  BY EdgeFacts DEF IInv, TypeOK
<1>2. o \in Ops /\ o - 1 \in Ops /\ o \in 2 .. Len(mode.program)
  BY <1>1 DEF Edge, Ops
<1>3. mode.program[o] \in Kinds /\ mode.program[o - 1] \in Kinds
  BY <1>1, <1>2
<1>4. r \in Senders(mode.program[o - 1]) /\ s \in Receivers(mode.program[o - 1])
  <2>1. s \in Senders(mode.program[o]) /\ r \in Receivers(mode.program[o])
    BY DEF Edge
  <2>2. CASE mode.tokens = mode.experts
    BY <2>1, <2>2 DEF Senders, Receivers
  <2>3. CASE mode.program[o] # mode.program[o - 1]
    BY <1>3, <2>1, <2>3 DEF Senders, Receivers, Kinds
  <2> QED
    BY <1>2, <2>2, <2>3 DEF Alternates
<1>5. Edge(o - 1, r, s)
  BY <1>2, <1>4 DEF Edge
<1> QED
  BY <1>1, <1>5 DEF IInv, Completed

LEMMA SendPayloadHolds ==
  ASSUME IInv, Alternates(mode), NEW r \in Ranks, r \notin dead, NEW d \in Ranks,
         SendPayload(r, d)
  PROVE  IInv'
<1> USE DEF opVars, workVars, memVars, failVars
<1>1. /\ pc[r] = "send" /\ op[r] \in Nat \ {0} /\ op[d] \in Nat \ {0}
      /\ bank[r] = BankAt(op[r]) /\ op[r] <= Len(mode.program)
  BY DEF IInv, TypeOK, Epochs, SendPayload
<1>2. /\ put' = [put EXCEPT ![r] = put[r] \cup {d}]
      /\ put' \in [Ranks -> SUBSET Ranks]
  BY DEF IInv, TypeOK, SendPayload
<1>3. Edge(op[r], r, d) /\ d \notin mask[r] /\ d \notin put[r] /\ d \notin published[r]
  BY <1>1, EdgeFacts DEF SendPayload, Dests, Kind, Edge, Ops, IInv, Working
<1>4. op[d] <= op[r] /\ r \notin mask[d]
  BY <1>3, NotBehind
<1>5. op[r] > 1 => Published(d, r, op[r] - 1)
  BY <1>3, HeardFrom
<1>6. op[r] <= op[d] + 1
  BY <1>1, <1>5 DEF IInv, SentRight
<1>7. /\ data' \in [Ranks -> [Banks -> [Ranks -> Nat]]]
      /\ \A s \in Ranks :
           data'[d][bank[r]][s]
             = IF s = r \/ data[d][bank[r]][s] = op[r] THEN op[r] ELSE 0
      /\ \A q \in Ranks, b \in Banks :
           q # d \/ b # bank[r] => data'[q][b] = data[q][b]
  BY PutFacts DEF IInv
<1>8. TypeOK'
  BY <1>2, <1>7 DEF IInv, TypeOK, SendPayload
<1>9. Epochs'
  BY DEF IInv, Epochs, SendPayload
<1>10. Working'
  <2> SUFFICES ASSUME NEW p \in Ranks, NEW q \in Ranks
               PROVE  /\ q \in put'[p] => pc[p] # "idle" /\ Edge(op[p], p, q)
                      /\ q \in published[p] => /\ q \in put'[p] /\ wiped[p]
                                               /\ Published(p, q, op[p])
                      /\ q \in got[p] => pc[p] # "idle" /\ Published(q, p, op[p])
    BY DEF Working, SendPayload, Edge, Ops, Published, Senders, Receivers
  <2>1. put[p] \subseteq put'[p] /\ (q \in put'[p] => q \in put[p] \/ (p = r /\ q = d))
    BY <1>2 DEF IInv, TypeOK
  <2> QED
    BY <1>1, <1>3, <2>1 DEF IInv, Working
<1>11. MaskedDead'
  BY DEF IInv, MaskedDead, SendPayload
<1>12. SentRight'
  BY DEF IInv, SentRight, SendPayload, Published, Edge, Ops, Senders, Receivers
<1>13. Completed'
  BY DEF IInv, Completed, SendPayload, Published, Edge, Ops, Senders, Receivers
<1>14. Reached'
  <2> SUFFICES ASSUME NEW p \in Ranks, NEW q \in Ranks, NEW o \in Nat,
                      HasPut(p, q, o)', o > 1
               PROVE  Published(q, p, o - 1)
    BY DEF Reached, SendPayload, Published
  <2>1. HasPut(p, q, o) \/ (p = r /\ q = d /\ o = op[r])
    BY <1>2 DEF HasPut, Published, SendPayload, IInv, TypeOK
  <2> QED
    BY <1>5, <2>1 DEF IInv, Reached
<1>15. WordsRight'
  <2> SUFFICES ASSUME NEW q \in Ranks, NEW s \in Ranks, NEW b \in Banks, NEW o \in word[q][b][s]
               PROVE  /\ Published(s, q, o)' /\ b = BankAt(o)
                      /\ s \notin mask[q] => Open(q, s, o)'
    BY DEF WordsRight, SendPayload
  <2> QED
    BY DEF IInv, WordsRight, SendPayload, Published, Open
<1>16. NetRight'
  BY DEF IInv, NetRight, SendPayload, Published, Open
<1>17. DataRight'
  <2> SUFFICES ASSUME NEW s \in Ranks, NEW q \in Ranks, NEW o \in Nat,
                      HasPut(s, q, o)', op[q] <= o, s \notin mask[q]
               PROVE  data'[q][BankAt(o)][s] = o
    BY DEF DataRight, SendPayload
  <2>1. HasPut(s, q, o) \/ (s = r /\ q = d /\ o = op[r])
    BY <1>2 DEF HasPut, Published, SendPayload, IInv, TypeOK
  <2>2. o \in Nat \ {0} /\ BankAt(o) \in Banks
    BY <1>1, <2>1, Ahead, BankFacts
  <2>3. HasPut(s, q, o) => data[q][BankAt(o)][s] = o /\ o <= op[s] /\ o <= op[q] + 1
    BY Ahead DEF IInv, DataRight
  <2>4. CASE q # d \/ BankAt(o) # bank[r]
    BY <1>1, <1>7, <2>1, <2>2, <2>3, <2>4
  <2>5. CASE q = d /\ BankAt(o) = bank[r]
    <3>1. o <= op[d] + 1 /\ op[d] <= o
      BY <1>6, <2>1, <2>3, <2>5
    <3>2. o = op[r]
      <4>1. /\ BankAt(o) = BankAt(op[r]) /\ o < op[r] => o + 2 <= op[r]
            /\ BankAt(o) = BankAt(op[r]) /\ op[r] < o => op[r] + 2 <= o
        BY <1>1, <2>2, BankFacts
      <4> QED
        BY <1>1, <1>4, <1>6, <2>2, <2>5, <3>1, <4>1
    <3> QED
      BY <1>7, <2>1, <2>3, <2>5, <3>2
  <2> QED
    BY <2>4, <2>5
<1>18. Kept'
  BY DEF IInv, Kept, SendPayload, Published, Open
<1> QED
  BY <1>8, <1>9, <1>10, <1>11, <1>12, <1>13, <1>14, <1>15, <1>16, <1>17, <1>18 DEF IInv

(* What a publication replaces in its word is of an operation the receiver *)
(* has finished.                                                           *)
LEMMA PublishHolds ==
  ASSUME IInv, NEW r \in Ranks, r \notin dead, NEW d \in Ranks, Publish(r, d)
  PROVE  IInv'
<1> USE DEF opVars, workVars, memVars, failVars
<1> DEFINE new == [from |-> r, to |-> d, op |-> op[r], bank |-> bank[r]]
<1>1. /\ pc[r] = "send" /\ wiped[r] /\ d \in put[r] /\ d \notin published[r]
      /\ op[r] \in Nat \ {0} /\ op[d] \in Nat \ {0}
      /\ bank[r] = BankAt(op[r]) /\ bank[r] \in Banks
  BY DEF IInv, TypeOK, Epochs, Publish, MayPublish
<1>2. Edge(op[r], r, d) /\ HasPut(r, d, op[r])
  BY <1>1 DEF IInv, Working, HasPut
<1>3. /\ op[d] <= op[r] /\ r \notin mask[d] /\ ~Published(r, d, op[r])
      /\ op[d] = op[r] => r \notin got[d]
  BY <1>1, <1>2, NotBehind
<1>4. op[r] <= op[d] + 1
  BY <1>1, <1>2, Ahead
<1>5. /\ published' = [published EXCEPT ![r] = published[r] \cup {d}]
      /\ sent' = [sent EXCEPT ![r] = sent[r] \cup {<<d, op[r]>>}]
      /\ published' \in [Ranks -> SUBSET Ranks]
      /\ sent' \in [Ranks -> SUBSET (Ranks \X Nat)]
  BY <1>1 DEF IInv, TypeOK, Publish
<1>6. \A p, q \in Ranks, o \in Nat :
        Published(p, q, o)' <=> Published(p, q, o) \/ (p = r /\ q = d /\ o = op[r])
  BY <1>5 DEF Published, IInv, TypeOK
<1>7. \A p, q \in Ranks, o \in Nat : HasPut(p, q, o)' <=> HasPut(p, q, o)
  BY <1>1, <1>6 DEF HasPut, Publish
<1>8. /\ word' \in [Ranks -> [Banks -> [Ranks -> SUBSET Nat]]]
      /\ net' \subseteq net \cup {new} /\ net \subseteq net'
      /\ <<r, d>> \in mode.rdma => word' = word /\ new \in net'
      /\ <<r, d>> \notin mode.rdma => word'[d][bank[r]][r] = {op[r]} /\ net' = net
      /\ \A q \in Ranks, c \in Banks, t \in Ranks :
           q # d \/ c # bank[r] \/ t # r => word'[q][c][t] = word[q][c][t]
  <2>1. CASE <<r, d>> \in mode.rdma
    BY <2>1 DEF IInv, TypeOK, Publish
  <2>2. CASE <<r, d>> \notin mode.rdma
    <3>1. word' = [word EXCEPT ![d][bank[r]][r] = {op[r]}] /\ net' = net
      BY <2>2 DEF Publish
    <3>2. word \in [Ranks -> [Banks -> [Ranks -> SUBSET Nat]]] /\ {op[r]} \subseteq Nat
      BY <1>1 DEF IInv, TypeOK
    <3>3. word' \in [Ranks -> [Banks -> [Ranks -> SUBSET Nat]]]
      BY <1>1, <3>1, <3>2
    <3>4. word'[d][bank[r]][r] = {op[r]}
      BY <1>1, <3>1, <3>2
    <3>5. \A q \in Ranks, c \in Banks, t \in Ranks :
            q # d \/ c # bank[r] \/ t # r => word'[q][c][t] = word[q][c][t]
      BY <1>1, <3>1, <3>2
    <3> QED
      BY <2>2, <3>1, <3>3, <3>4, <3>5
  <2> QED
    BY <2>1, <2>2
<1>9. new \in Messages
  BY <1>1 DEF Messages
<1>10. TypeOK'
  BY <1>5, <1>8, <1>9 DEF IInv, TypeOK, Publish
<1>11. Epochs'
  BY DEF IInv, Epochs, Publish
<1>12. Working'
  <2> SUFFICES ASSUME NEW p \in Ranks, NEW q \in Ranks
               PROVE  /\ q \in put[p] => pc[p] # "idle" /\ Edge(op[p], p, q)
                      /\ q \in published'[p] => /\ q \in put[p] /\ wiped[p]
                                                /\ Published(p, q, op[p])'
                      /\ q \in got[p] => pc[p] # "idle" /\ Published(q, p, op[p])'
    BY DEF Working, Publish, Edge, Ops, Published, Senders, Receivers
  <2>1. q \in published'[p] => q \in published[p] \/ (p = r /\ q = d)
    BY <1>5 DEF IInv, TypeOK
  <2>2. op[p] \in Nat
    BY DEF IInv, TypeOK
  <2>3. /\ q \in put[p] => pc[p] # "idle" /\ Edge(op[p], p, q)
        /\ q \in published[p] => q \in put[p] /\ wiped[p] /\ Published(p, q, op[p])
        /\ q \in got[p] => pc[p] # "idle" /\ Published(q, p, op[p])
    BY DEF IInv, Working
  <2>4. /\ Published(p, q, op[p]) => Published(p, q, op[p])'
        /\ Published(q, p, op[p]) => Published(q, p, op[p])'
        /\ p = r /\ q = d => Published(p, q, op[p])'
    BY <1>6, <2>2 DEF Publish
  <2> QED
    BY <1>1, <2>1, <2>3, <2>4
<1>13. MaskedDead'
  BY DEF IInv, MaskedDead, Publish
<1>14. SentRight'
  <2> SUFFICES ASSUME NEW p \in Ranks, NEW q \in Ranks, NEW o \in Nat, Published(p, q, o)'
               PROVE  Edge(o, p, q) /\ o <= op[p] /\ (o = op[p] => q \in published'[p])
    BY DEF SentRight, Publish, Edge, Ops, Senders, Receivers
  <2>1. q \in published[p] => q \in published'[p]
    BY <1>5 DEF IInv, TypeOK
  <2>2. CASE Published(p, q, o)
    BY <2>1, <2>2 DEF IInv, SentRight
  <2>3. CASE p = r /\ q = d /\ o = op[r]
    <3>1. q \in published'[p]
      BY <1>5, <2>3 DEF IInv, TypeOK
    <3> QED
      BY <1>1, <1>2, <2>3, <3>1
  <2> QED
    BY <1>6, <2>2, <2>3
<1>15. Completed'
  <2> SUFFICES ASSUME NEW p \in Ranks, NEW q \in Ranks, NEW o \in Nat,
                      Edge(o, p, q), o < op[q]
               PROVE  Published(p, q, o)' \/ p \in mask[q]
    BY DEF Completed, Publish, Edge, Ops, Senders, Receivers
  <2> QED
    BY <1>6 DEF IInv, Completed
<1>16. Reached'
  <2> SUFFICES ASSUME NEW p \in Ranks, NEW q \in Ranks, NEW o \in Nat,
                      HasPut(p, q, o)', o > 1
               PROVE  Published(q, p, o - 1)'
    BY DEF Reached
  <2>1. Published(q, p, o - 1) /\ o - 1 \in Nat
    BY <1>7 DEF IInv, Reached
  <2> QED
    BY <1>6, <2>1
<1>17. WordsRight'
  <2> SUFFICES ASSUME NEW q \in Ranks, NEW s \in Ranks, NEW b \in Banks, NEW o \in word'[q][b][s]
               PROVE  /\ Published(s, q, o)' /\ b = BankAt(o)
                      /\ s \notin mask[q] => Open(q, s, o)
    BY DEF WordsRight, Publish, Open
  <2>1. CASE o \in word[q][b][s]
    <3>1. Published(s, q, o) /\ b = BankAt(o) /\ (s \notin mask[q] => Open(q, s, o))
      BY <2>1 DEF IInv, WordsRight
    <3>2. o \in Nat
      BY <2>1 DEF IInv, TypeOK
    <3> QED
      BY <1>6, <3>1, <3>2
  <2>2. CASE o \notin word[q][b][s]
    <3>1. q = d /\ b = bank[r] /\ s = r /\ o = op[r]
      BY <1>8, <2>2
    <3>2. Published(s, q, o)'
      BY <1>1, <1>6, <3>1
    <3>3. Open(q, s, o)
      BY <1>1, <1>3, <3>1 DEF Open
    <3> QED
      BY <1>1, <3>1, <3>2, <3>3
  <2> QED
    BY <2>1, <2>2
<1>18. NetRight'
  <2> SUFFICES ASSUME NEW m \in net'
               PROVE  /\ Published(m.from, m.to, m.op)' /\ m.bank = BankAt(m.op)
                      /\ <<m.from, m.to>> \in mode.rdma
                      /\ m.op \notin word'[m.to][m.bank][m.from]
                      /\ m.from \notin mask[m.to] => Open(m.to, m.from, m.op)
    BY DEF NetRight, Publish, Open
  <2>1. CASE m \in net
    <3>1. m.to \in Ranks /\ m.from \in Ranks /\ m.op \in Nat /\ m.bank \in Banks
      BY <2>1 DEF IInv, TypeOK, Messages
    <3>2. /\ Published(m.from, m.to, m.op) /\ m.bank = BankAt(m.op)
          /\ <<m.from, m.to>> \in mode.rdma /\ m.op \notin word[m.to][m.bank][m.from]
          /\ m.from \notin mask[m.to] => Open(m.to, m.from, m.op)
      BY <2>1 DEF IInv, NetRight
    <3>3. word'[m.to][m.bank][m.from] = word[m.to][m.bank][m.from]
      <4>1. CASE <<r, d>> \in mode.rdma
        BY <1>8, <4>1
      <4>2. CASE m.from # r \/ m.to # d
        BY <1>8, <3>1, <4>2
      <4> QED
        BY <3>2, <4>1, <4>2
    <3> QED
      BY <1>6, <3>1, <3>2, <3>3
  <2>2. CASE m = new
    <3>1. m.from = r /\ m.to = d /\ m.op = op[r] /\ m.bank = bank[r]
      BY <2>2
    <3>2. <<r, d>> \in mode.rdma \/ m \in net
      BY <1>8
    <3>3. op[r] \notin word[d][bank[r]][r]
      BY <1>1, <1>3 DEF IInv, WordsRight
    <3>4. Open(d, r, op[r])
      BY <1>1, <1>3 DEF Open
    <3>5. op[r] \in Nat
      BY <1>1
    <3>6. Published(r, d, op[r])'
      BY <1>6, <3>5 DEF Publish
    <3>7. CASE <<r, d>> \in mode.rdma
      <4>1. Published(m.from, m.to, m.op)'
        BY <3>1, <3>6 DEF Published, Publish
      <4> QED
        BY <1>1, <1>8, <3>1, <3>3, <3>4, <3>7, <4>1
    <3> QED
      BY <2>1, <3>2, <3>7
  <2> QED
    BY <1>8, <2>1, <2>2
<1>19. DataRight'
  <2> SUFFICES ASSUME NEW s \in Ranks, NEW q \in Ranks, NEW o \in Nat,
                      HasPut(s, q, o)', op[q] <= o, s \notin mask[q]
               PROVE  data[q][BankAt(o)][s] = o
    BY DEF DataRight, Publish
  <2> QED
    BY <1>7 DEF IInv, DataRight
<1>20. Kept'
  <2> SUFFICES ASSUME NEW s \in Ranks, NEW q \in Ranks, NEW o \in Nat,
                      Published(s, q, o)', s \notin mask[q], Open(q, s, o)
               PROVE  \/ o \in word'[q][BankAt(o)][s]
                      \/ [from |-> s, to |-> q, op |-> o, bank |-> BankAt(o)] \in net'
    BY DEF Kept, Publish, Open
  <2>1. CASE Published(s, q, o)
    <3>1. \/ o \in word[q][BankAt(o)][s]
          \/ [from |-> s, to |-> q, op |-> o, bank |-> BankAt(o)] \in net
      BY <2>1 DEF IInv, Kept
    <3>2. o \in Nat \ {0} /\ o <= op[s] /\ BankAt(o) \in Banks
      BY <2>1, Ahead, BankFacts DEF HasPut
    <3>3. CASE q # d \/ BankAt(o) # bank[r] \/ s # r
      BY <1>8, <3>1, <3>2, <3>3
    <3>4. CASE q = d /\ BankAt(o) = bank[r] /\ s = r
      <4>1. o # op[r]
        BY <1>3, <2>1, <3>4
      <4>2. BankAt(o) = BankAt(op[r]) /\ o < op[r] => o + 2 <= op[r]
        BY <1>1, <3>2, BankFacts
      <4>3. op[d] <= o
        BY <1>1, <3>2, <3>4 DEF Open
      <4> QED
        BY <1>1, <1>4, <3>2, <3>4, <4>1, <4>2, <4>3
    <3> QED
      BY <3>3, <3>4
  <2>2. CASE s = r /\ q = d /\ o = op[r]
    BY <1>1, <1>8, <2>2
  <2> QED
    BY <1>6, <2>1, <2>2
<1> QED
  BY <1>10, <1>11, <1>12, <1>13, <1>14, <1>15, <1>16, <1>17, <1>18, <1>19, <1>20 DEF IInv

LEMMA DeliverHolds ==
  ASSUME IInv, NEW m \in net, Deliver(m)
  PROVE  IInv'
<1> USE DEF opVars, workVars, memVars, failVars
<1>1. /\ m.from \in Ranks /\ m.to \in Ranks /\ m.op \in Nat /\ m.bank \in Banks
      /\ m \in Messages
  BY DEF IInv, TypeOK, Messages
<1>2. /\ Published(m.from, m.to, m.op) /\ m.bank = BankAt(m.op)
      /\ m.op \notin word[m.to][m.bank][m.from]
      /\ m.from \notin mask[m.to] => Open(m.to, m.from, m.op)
  BY DEF IInv, NetRight
<1>3. /\ word' \in [Ranks -> [Banks -> [Ranks -> SUBSET Nat]]]
      /\ word'[m.to][m.bank][m.from] = word[m.to][m.bank][m.from] \cup {m.op}
      /\ \A q \in Ranks, c \in Banks, t \in Ranks :
           q # m.to \/ c # m.bank \/ t # m.from => word'[q][c][t] = word[q][c][t]
  <2> DEFINE w == word[m.to][m.bank][m.from] \cup {m.op}
  <2>1. word \in [Ranks -> [Banks -> [Ranks -> SUBSET Nat]]] /\ w \subseteq Nat
    BY <1>1 DEF IInv, TypeOK
  <2>2. word' = [word EXCEPT ![m.to][m.bank][m.from] = w]
    BY DEF Deliver
  <2> HIDE DEF w
  <2>3. word' \in [Ranks -> [Banks -> [Ranks -> SUBSET Nat]]]
    BY <1>1, <2>1, <2>2
  <2>4. word'[m.to][m.bank][m.from] = w
    BY <1>1, <2>1, <2>2
  <2>5. \A q \in Ranks, c \in Banks, t \in Ranks :
          q # m.to \/ c # m.bank \/ t # m.from => word'[q][c][t] = word[q][c][t]
    BY <1>1, <2>1, <2>2
  <2> QED
    BY <2>3, <2>4, <2>5 DEF w
<1>4. ASSUME NEW q \in Ranks, NEW c \in Banks, NEW t \in Ranks
      PROVE  word[q][c][t] \subseteq word'[q][c][t]
  <2>1. CASE q = m.to /\ c = m.bank /\ t = m.from
    BY <1>3, <2>1
  <2>2. CASE ~(q = m.to /\ c = m.bank /\ t = m.from)
    BY <1>3, <2>2
  <2> QED
    BY <2>1, <2>2
<1>5. net' = net \ {m}
  BY DEF Deliver
<1>6. TypeOK'
  BY <1>3, <1>5 DEF IInv, TypeOK, Deliver
<1>7. Epochs'
  BY DEF IInv, Epochs, Deliver
<1>8. Working'
  BY DEF IInv, Working, Deliver, Edge, Ops, Published, Senders, Receivers
<1>9. MaskedDead'
  BY DEF IInv, MaskedDead, Deliver
<1>10. SentRight'
  BY DEF IInv, SentRight, Deliver, Published, Edge, Ops, Senders, Receivers
<1>11. Completed'
  BY DEF IInv, Completed, Deliver, Published, Edge, Ops, Senders, Receivers
<1>12. Reached'
  BY DEF IInv, Reached, Deliver, HasPut, Published
<1>13. WordsRight'
  <2> SUFFICES ASSUME NEW q \in Ranks, NEW s \in Ranks, NEW b \in Banks, NEW o \in word'[q][b][s]
               PROVE  /\ Published(s, q, o)' /\ b = BankAt(o)
                      /\ s \notin mask[q] => Open(q, s, o)'
    BY DEF WordsRight, Deliver
  <2>1. o \in word[q][b][s] \/ (q = m.to /\ b = m.bank /\ s = m.from /\ o = m.op)
    BY <1>3
  <2>2. /\ Published(s, q, o) /\ b = BankAt(o)
        /\ s \notin mask[q] => Open(q, s, o)
    BY <1>2, <2>1 DEF IInv, WordsRight
  <2> QED
    BY <2>2 DEF Deliver, Published, Open
<1>14. NetRight'
  <2> SUFFICES ASSUME NEW n \in net, n # m
               PROVE  /\ Published(n.from, n.to, n.op) /\ n.bank = BankAt(n.op)
                      /\ <<n.from, n.to>> \in mode.rdma
                      /\ n.op \notin word'[n.to][n.bank][n.from]
                      /\ n.from \notin mask[n.to] => Open(n.to, n.from, n.op)
    BY <1>5 DEF NetRight, Deliver, Published, Open
  <2>1. /\ n.to \in Ranks /\ n.from \in Ranks /\ n.op \in Nat /\ n.bank \in Banks
        /\ n \in Messages
    BY DEF IInv, TypeOK, Messages
  <2>2. /\ Published(n.from, n.to, n.op) /\ n.bank = BankAt(n.op)
        /\ <<n.from, n.to>> \in mode.rdma /\ n.op \notin word[n.to][n.bank][n.from]
        /\ n.from \notin mask[n.to] => Open(n.to, n.from, n.op)
    BY DEF IInv, NetRight
  <2>3. n.to # m.to \/ n.bank # m.bank \/ n.from # m.from \/ n.op # m.op
    BY <1>1, <2>1 DEF Messages
  <2>4. n.op \notin word'[n.to][n.bank][n.from]
    BY <1>3, <2>1, <2>2, <2>3
  <2> QED
    BY <2>2, <2>4
<1>15. DataRight'
  BY DEF IInv, DataRight, Deliver, HasPut, Published
<1>16. Kept'
  <2> SUFFICES ASSUME NEW s \in Ranks, NEW q \in Ranks, NEW o \in Nat,
                      Published(s, q, o), s \notin mask[q], Open(q, s, o)
               PROVE  \/ o \in word'[q][BankAt(o)][s]
                      \/ [from |-> s, to |-> q, op |-> o, bank |-> BankAt(o)] \in net'
    BY DEF Kept, Deliver, Published, Open
  <2> DEFINE n == [from |-> s, to |-> q, op |-> o, bank |-> BankAt(o)]
  <2>1. o \in word[q][BankAt(o)][s] \/ n \in net
    BY DEF IInv, Kept
  <2>2. BankAt(o) \in Banks
    BY Ahead, BankFacts DEF HasPut
  <2>3. CASE n = m
    <3>1. m.from = s /\ m.to = q /\ m.op = o /\ m.bank = BankAt(o)
      BY <2>3
    <3> QED
      BY <1>3, <3>1
  <2>4. CASE n # m
    <3> HIDE DEF n
    <3>1. o \in word[q][BankAt(o)][s] => o \in word'[q][BankAt(o)][s]
      BY <1>4, <2>2
    <3>2. n \in net => n \in net'
      BY <1>5, <2>4
    <3> QED
      BY <2>1, <3>1, <3>2 DEF n
  <2> QED
    BY <2>3, <2>4
<1> QED
  BY <1>6, <1>7, <1>8, <1>9, <1>10, <1>11, <1>12, <1>13, <1>14, <1>15, <1>16 DEF IInv

(* A rank consumes the publication of its operation, once, and no other.   *)
LEMMA ConsumeHolds ==
  ASSUME IInv, NEW r \in Ranks, NEW s \in Ranks, Consume(r, s)
  PROVE  IInv'
<1> USE DEF opVars, workVars, memVars, failVars
<1>1. Active(r) /\ s \notin mask[r] /\ s \notin got[r] /\ word[r][bank[r]][s] # {}
  BY DEF Consume, Polls, Active, Sources
<1>2. /\ bank[r] = BankAt(op[r]) /\ bank[r] \in Banks /\ op[r] \in Nat \ {0}
      /\ \A o \in word[r][bank[r]][s] : o = op[r] /\ Published(s, r, o)
  BY <1>1, Fresh DEF IInv, TypeOK
<1>3. op[r] \in word[r][bank[r]][s] /\ Published(s, r, op[r])
  BY <1>1, <1>2
<1>4. /\ word' \in [Ranks -> [Banks -> [Ranks -> SUBSET Nat]]]
      /\ word'[r][bank[r]][s] = {}
      /\ \A q \in Ranks, c \in Banks, t \in Ranks :
           q # r \/ c # bank[r] \/ t # s => word'[q][c][t] = word[q][c][t]
  <2>1. word \in [Ranks -> [Banks -> [Ranks -> SUBSET Nat]]]
    BY DEF IInv, TypeOK
  <2>2. word' = [word EXCEPT ![r][bank[r]][s] = {}]
    BY DEF Consume
  <2>3. word' \in [Ranks -> [Banks -> [Ranks -> SUBSET Nat]]]
    BY <1>2, <2>1, <2>2
  <2>4. word'[r][bank[r]][s] = {}
    BY <1>2, <2>1, <2>2
  <2>5. \A q \in Ranks, c \in Banks, t \in Ranks :
          q # r \/ c # bank[r] \/ t # s => word'[q][c][t] = word[q][c][t]
    BY <1>2, <2>1, <2>2
  <2> QED
    BY <2>3, <2>4, <2>5
<1>5. /\ got' \in [Ranks -> SUBSET Ranks]
      /\ \A q, t \in Ranks : t \in got'[q] <=> t \in got[q] \/ (q = r /\ t = s)
  BY DEF IInv, TypeOK, Consume
(* Only the operation just heard closes. *)
<1>6. \A q, t \in Ranks, o \in Nat :
        Open(q, t, o)' <=> Open(q, t, o) /\ ~(q = r /\ t = s /\ o = op[r])
  BY <1>2, <1>5 DEF Open, Consume, IInv, TypeOK
<1>7. TypeOK'
  BY <1>4, <1>5 DEF IInv, TypeOK, Consume
<1>8. Epochs'
  BY DEF IInv, Epochs, Consume
<1>9. Working'
  <2> SUFFICES ASSUME NEW p \in Ranks, NEW q \in Ranks
               PROVE  /\ q \in put[p] => pc[p] # "idle" /\ Edge(op[p], p, q)
                      /\ q \in published[p] => /\ q \in put[p] /\ wiped[p]
                                               /\ Published(p, q, op[p])
                      /\ q \in got'[p] => pc[p] # "idle" /\ Published(q, p, op[p])
    BY DEF Working, Consume, Edge, Ops, Published, Senders, Receivers
  <2> QED
    BY <1>1, <1>3, <1>5 DEF IInv, Working, Active
<1>10. MaskedDead'
  BY DEF IInv, MaskedDead, Consume
<1>11. SentRight'
  BY DEF IInv, SentRight, Consume, Published, Edge, Ops, Senders, Receivers
<1>12. Completed'
  BY DEF IInv, Completed, Consume, Published, Edge, Ops, Senders, Receivers
<1>13. Reached'
  BY DEF IInv, Reached, Consume, HasPut, Published
<1>14. WordsRight'
  <2> SUFFICES ASSUME NEW q \in Ranks, NEW t \in Ranks, NEW b \in Banks, NEW o \in word'[q][b][t]
               PROVE  /\ Published(t, q, o)' /\ b = BankAt(o)
                      /\ t \notin mask[q] => Open(q, t, o)'
    BY DEF WordsRight, Consume
  <2>1. o \in word[q][b][t] /\ ~(q = r /\ b = bank[r] /\ t = s)
    BY <1>4
  <2>2. o \in Nat
    BY <2>1 DEF IInv, TypeOK
  <2>3. Published(t, q, o) /\ b = BankAt(o) /\ (t \notin mask[q] => Open(q, t, o))
    BY <2>1 DEF IInv, WordsRight
  <2>4. Open(q, t, o) => Open(q, t, o)'
    BY <1>2, <1>6, <2>1, <2>2, <2>3
  <2>5. Published(t, q, o)'
    BY <2>3 DEF Consume, Published
  <2> QED
    BY <2>3, <2>4, <2>5
<1>15. NetRight'
  <2> SUFFICES ASSUME NEW n \in net
               PROVE  /\ Published(n.from, n.to, n.op) /\ n.bank = BankAt(n.op)
                      /\ <<n.from, n.to>> \in mode.rdma
                      /\ n.op \notin word'[n.to][n.bank][n.from]
                      /\ n.from \notin mask[n.to] => Open(n.to, n.from, n.op)'
    BY DEF NetRight, Consume, Published
  <2>1. n.to \in Ranks /\ n.from \in Ranks /\ n.op \in Nat /\ n.bank \in Banks
    BY DEF IInv, TypeOK, Messages
  <2>2. /\ Published(n.from, n.to, n.op) /\ n.bank = BankAt(n.op)
        /\ <<n.from, n.to>> \in mode.rdma /\ n.op \notin word[n.to][n.bank][n.from]
        /\ n.from \notin mask[n.to] => Open(n.to, n.from, n.op)
    BY DEF IInv, NetRight
  <2>3. ~(n.to = r /\ n.from = s /\ n.op = op[r])
    BY <1>2, <1>3, <2>2
  <2>4. n.op \notin word'[n.to][n.bank][n.from]
    BY <1>4, <2>1, <2>2
  <2>5. Open(n.to, n.from, n.op) => Open(n.to, n.from, n.op)'
    BY <1>6, <2>1, <2>3
  <2> QED
    BY <2>2, <2>4, <2>5
<1>16. DataRight'
  BY DEF IInv, DataRight, Consume, HasPut, Published
<1>17. Kept'
  <2> SUFFICES ASSUME NEW t \in Ranks, NEW q \in Ranks, NEW o \in Nat,
                      Published(t, q, o), t \notin mask[q], Open(q, t, o)'
               PROVE  \/ o \in word'[q][BankAt(o)][t]
                      \/ [from |-> t, to |-> q, op |-> o, bank |-> BankAt(o)] \in net
    BY DEF Kept, Consume, Published
  <2>1. Open(q, t, o) /\ ~(q = r /\ t = s /\ o = op[r])
    BY <1>6
  <2>2. \/ o \in word[q][BankAt(o)][t]
        \/ [from |-> t, to |-> q, op |-> o, bank |-> BankAt(o)] \in net
    BY <2>1 DEF IInv, Kept
  <2>3. BankAt(o) \in Banks
    BY Ahead, BankFacts DEF HasPut
  <2>4. o \in word[q][BankAt(o)][t] => o \in word'[q][BankAt(o)][t]
    BY <1>2, <1>4, <2>1, <2>3
  <2> QED
    BY <2>2, <2>4
<1> QED
  BY <1>7, <1>8, <1>9, <1>10, <1>11, <1>12, <1>13, <1>14, <1>15, <1>16, <1>17 DEF IInv

(* When a rank finishes, only ranks it has masked may owe it something.    *)
LEMMA FinishHolds ==
  ASSUME IInv, NEW r \in Ranks, Finish(r)
  PROVE  IInv'
<1> USE DEF opVars, workVars, memVars, failVars
<1>1. /\ pc[r] = "recv" /\ op[r] \in Nat \ {0} /\ ring[r].epoch = op[r]
      /\ ~ring[r].send_in_flight
  BY DEF IInv, TypeOK, Epochs, Finish
<1>2. /\ op' = [op EXCEPT ![r] = op[r] + 1] /\ op' \in [Ranks -> Nat \ {0}]
      /\ op'[r] = op[r] + 1
      /\ \A q \in Ranks : q # r => op'[q] = op[q]
      /\ \A q \in Ranks : op[q] \in Nat /\ op'[q] \in Nat /\ op[q] <= op'[q]
  BY <1>1 DEF IInv, TypeOK, Finish
<1>3. /\ pc' \in [Ranks -> Places] /\ pc'[r] = "idle"
      /\ \A q \in Ranks : q # r => pc'[q] = pc[q]
  BY DEF IInv, TypeOK, Finish, Goto, Places
<1>4. /\ put' \in [Ranks -> SUBSET Ranks] /\ put'[r] = {}
      /\ published' \in [Ranks -> SUBSET Ranks] /\ published'[r] = {}
      /\ got' \in [Ranks -> SUBSET Ranks] /\ got'[r] = {}
      /\ wiped' \in [Ranks -> BOOLEAN]
  BY DEF IInv, TypeOK, Finish
<1>5. \A q \in Ranks : q # r => /\ put'[q] = put[q] /\ published'[q] = published[q]
                                /\ got'[q] = got[q] /\ wiped'[q] = wiped[q]
  BY DEF IInv, TypeOK, Finish
<1>6. \A s \in Ranks : Edge(op[r], s, r) => s \in got[r] \/ s \in mask[r]
  BY <1>1 DEF Finish, Sources, Edge, Kind
<1>7. \A s, q \in Ranks, o \in Nat : HasPut(s, q, o)' => HasPut(s, q, o)
  BY <1>2, <1>4, <1>5 DEF HasPut, Published, Finish
<1>8. \A q, s \in Ranks, o \in Nat : Open(q, s, o)' => Open(q, s, o)
  BY <1>2, <1>4, <1>5 DEF Open
<1>9. ASSUME NEW q \in Ranks, NEW s \in Ranks, NEW o \in Nat,
             Published(s, q, o), s \notin mask[q], Open(q, s, o)
      PROVE  Open(q, s, o)'
  <2>1. CASE q # r
    BY <1>2, <1>5, <1>9, <2>1 DEF Open
  <2>2. CASE q = r
    <3>1. Edge(o, s, r)
      BY <1>9, <2>2 DEF IInv, SentRight
    <3>2. o # op[r]
      BY <1>6, <1>9, <2>2, <3>1 DEF Open
    <3> QED
      BY <1>2, <1>4, <1>9, <2>2, <3>2 DEF Open
  <2> QED
    BY <2>1, <2>2
<1>10. TypeOK'
  BY <1>2, <1>3, <1>4 DEF IInv, TypeOK, Finish
<1>11. Epochs'
  <2> SUFFICES ASSUME NEW q \in Ranks
               PROVE  /\ ring[q].epoch = IF pc'[q] = "recv" THEN op'[q] ELSE op'[q] - 1
                      /\ ring[q].send_in_flight =>
                           ring[q].pending_epoch = op'[q] - 1 /\ pc'[q] \in {"send", "staged"}
                      /\ pc'[q] = "staged" => ring[q].send_in_flight
                      /\ pc'[q] # "idle" =>
                           bank[q] = BankAt(op'[q]) /\ op'[q] <= Len(mode.program)
    BY DEF Epochs, Finish
  <2>1. CASE q = r
    BY <1>1, <1>2, <1>3, <2>1
  <2>2. CASE q # r
    BY <1>2, <1>3, <2>2 DEF IInv, Epochs
  <2> QED
    BY <2>1, <2>2
<1>12. Working'
  <2> SUFFICES ASSUME NEW p \in Ranks, NEW q \in Ranks
               PROVE  /\ q \in put'[p] => pc'[p] # "idle" /\ Edge(op[p], p, q)'
                      /\ q \in published'[p] => /\ q \in put'[p] /\ wiped'[p]
                                                /\ Published(p, q, op[p])'
                      /\ q \in got'[p] => pc'[p] # "idle" /\ Published(q, p, op[p])'
    BY DEF Working
  <2>1. CASE p = r
    BY <1>4, <2>1
  <2>2. CASE p # r
    BY <1>2, <1>3, <1>5, <2>2
      DEF IInv, Working, Finish, Edge, Ops, Published, Senders, Receivers
  <2> QED
    BY <2>1, <2>2
<1>13. MaskedDead'
  BY DEF IInv, MaskedDead, Finish
<1>14. SentRight'
  <2> SUFFICES ASSUME NEW p \in Ranks, NEW q \in Ranks, NEW o \in Nat, Published(p, q, o)
               PROVE  Edge(o, p, q) /\ o <= op'[p] /\ (o = op'[p] => q \in published'[p])
    BY DEF SentRight, Finish, Published, Edge, Ops, Senders, Receivers
  <2>1. Edge(o, p, q) /\ o <= op[p] /\ (o = op[p] => q \in published[p])
    BY DEF IInv, SentRight
  <2> QED
    BY <1>2, <1>5, <2>1
<1>15. Completed'
  <2> SUFFICES ASSUME NEW p \in Ranks, NEW q \in Ranks, NEW o \in Nat,
                      Edge(o, p, q), o < op'[q]
               PROVE  Published(p, q, o) \/ p \in mask[q]
    BY DEF Completed, Finish, Published, Edge, Ops, Senders, Receivers
  <2>1. CASE o < op[q]
    BY <2>1 DEF IInv, Completed
  <2>2. CASE q = r /\ o = op[r]
    BY <1>6, <2>2 DEF IInv, Working
  <2> QED
    BY <1>2, <2>1, <2>2
<1>16. Reached'
  <2> SUFFICES ASSUME NEW p \in Ranks, NEW q \in Ranks, NEW o \in Nat,
                      HasPut(p, q, o)', o > 1
               PROVE  Published(q, p, o - 1)
    BY DEF Reached, Finish, Published
  <2> QED
    BY <1>7 DEF IInv, Reached
<1>17. WordsRight'
  <2> SUFFICES ASSUME NEW q \in Ranks, NEW s \in Ranks, NEW b \in Banks, NEW o \in word[q][b][s]
               PROVE  /\ Published(s, q, o)' /\ b = BankAt(o)
                      /\ s \notin mask[q] => Open(q, s, o)'
    BY DEF WordsRight, Finish
  <2>1. Published(s, q, o) /\ b = BankAt(o) /\ (s \notin mask[q] => Open(q, s, o))
    BY DEF IInv, WordsRight
  <2>2. o \in Nat
    BY DEF IInv, TypeOK
  <2>3. Published(s, q, o)'
    BY <2>1 DEF Finish, Published
  <2> QED
    BY <1>9, <2>1, <2>2, <2>3
<1>18. NetRight'
  <2> SUFFICES ASSUME NEW n \in net
               PROVE  /\ Published(n.from, n.to, n.op) /\ n.bank = BankAt(n.op)
                      /\ <<n.from, n.to>> \in mode.rdma
                      /\ n.op \notin word[n.to][n.bank][n.from]
                      /\ n.from \notin mask[n.to] => Open(n.to, n.from, n.op)'
    BY DEF NetRight, Finish, Published
  <2>1. n.to \in Ranks /\ n.from \in Ranks /\ n.op \in Nat /\ n.bank \in Banks
    BY DEF IInv, TypeOK, Messages
  <2>2. /\ Published(n.from, n.to, n.op) /\ n.bank = BankAt(n.op)
        /\ <<n.from, n.to>> \in mode.rdma /\ n.op \notin word[n.to][n.bank][n.from]
        /\ n.from \notin mask[n.to] => Open(n.to, n.from, n.op)
    BY DEF IInv, NetRight
  <2> QED
    BY <1>9, <2>1, <2>2
<1>19. DataRight'
  <2> SUFFICES ASSUME NEW s \in Ranks, NEW q \in Ranks, NEW o \in Nat,
                      HasPut(s, q, o)', op'[q] <= o, s \notin mask[q]
               PROVE  data[q][BankAt(o)][s] = o
    BY DEF DataRight, Finish
  <2>1. HasPut(s, q, o) /\ op[q] <= o
    BY <1>2, <1>7
  <2> QED
    BY <2>1 DEF IInv, DataRight
<1>20. Kept'
  <2> SUFFICES ASSUME NEW s \in Ranks, NEW q \in Ranks, NEW o \in Nat,
                      Published(s, q, o), s \notin mask[q], Open(q, s, o)'
               PROVE  \/ o \in word[q][BankAt(o)][s]
                      \/ [from |-> s, to |-> q, op |-> o, bank |-> BankAt(o)] \in net
    BY DEF Kept, Finish, Published
  <2> QED
    BY <1>8 DEF IInv, Kept
<1> QED
  BY <1>10, <1>11, <1>12, <1>13, <1>14, <1>15, <1>16, <1>17, <1>18, <1>19, <1>20 DEF IInv

-----------------------------------------------------------------------------
LEMMA Begins == Init => IInv
<1> SUFFICES ASSUME Init PROVE IInv
  OBVIOUS
<1>1. TypeOK
  BY DEF Init, TypeOK, Places, Ring, Banks
<1>2. Epochs
  BY DEF Init, Epochs
<1>3. Working /\ MaskedDead /\ SentRight
  BY DEF Init, Working, MaskedDead, SentRight, Published
<1>4. Completed
  <2>1. Len(mode.program) \in Nat
    BY <1>1, EdgeFacts
  <2> QED
    BY <2>1 DEF Init, Completed, Edge, Ops
<1>5. Reached /\ DataRight
  BY DEF Init, Reached, DataRight, HasPut, Published
<1>6. WordsRight
  BY DEF Init, WordsRight, Banks
<1>7. NetRight /\ Kept
  BY DEF Init, NetRight, Kept, Published
<1> QED
  BY <1>1, <1>2, <1>3, <1>4, <1>5, <1>6, <1>7 DEF IInv

LEMMA Holds ==
  ASSUME IInv, Alternates(mode), [Next]_vars
  PROVE  IInv' /\ mode' = mode
<1>1. ASSUME NEW r \in Ranks, RankStep(r)
      PROVE  IInv' /\ mode' = mode
  <2>1. mode' = mode
    BY <1>1 DEF RankStep, Launch, WipeNextBank, SendDone, Complete, Finish, SendPayload,
                Publish, Consume, Timeout
  <2>2. IInv'
    BY <1>1, LaunchHolds, WipeHolds, SendDoneHolds, CompleteHolds, FinishHolds,
       SendPayloadHolds, PublishHolds, ConsumeHolds, TimeoutHolds DEF RankStep
  <2> QED
    BY <2>1, <2>2
<1>2. ASSUME NEW r \in Ranks, Crash(r)
      PROVE  IInv' /\ mode' = mode
  BY <1>2, CrashHolds DEF Crash
<1>3. ASSUME NEW m \in net, Deliver(m)
      PROVE  IInv' /\ mode' = mode
  BY <1>3, DeliverHolds DEF Deliver
<1>4. CASE UNCHANGED vars
  <2>1. /\ UNCHANGED <<mode, op, workVars, memVars, mask>>
        /\ UNCHANGED <<mode, opVars, workVars, memVars, failVars>>
    BY <1>4 DEF vars, opVars, workVars, memVars, failVars
  <2>2. TypeOK'
    BY <2>1 DEF IInv, TypeOK, opVars, workVars, memVars, failVars
  <2>3. Epochs'
    BY <2>1 DEF IInv, Epochs, opVars
  <2>4. Working'
    BY <2>1 DEF IInv, Working, opVars, workVars, memVars, Edge, Ops, Published, Senders, Receivers
  <2>5. MaskedDead'
    BY <2>1 DEF IInv, MaskedDead, failVars
  <2> QED
    BY <2>1, <2>2, <2>3, <2>4, <2>5, Quiet DEF IInv
<1> QED
  BY <1>1, <1>2, <1>3, <1>4 DEF Next, Done

-----------------------------------------------------------------------------
(* The inductive invariant of every group whose operations alternate.      *)
THEOREM Invariance ==
  ASSUME \A m \in Modes : Alternates(m)
  PROVE  Spec => []IInv
<1>1. IInv => Alternates(mode)
  BY DEF IInv, TypeOK
<1>2. IInv /\ [Next]_vars => IInv'
  BY <1>1, Holds
<1> QED
  BY <1>2, Begins, PTL DEF Spec

(* The variables have their types. *)
THEOREM TypeCorrect ==
  ASSUME \A m \in Modes : Alternates(m)
  PROVE  Spec => []TypeOK
<1>1. IInv => TypeOK
  BY DEF IInv
<1> QED
  BY <1>1, Invariance, PTL

(* Ranks in the same operation use the same bank, in consecutive ones the  *)
(* two banks, however each splits its operations into sends and            *)
(* completions (selectLowLatencyEpoch).                                    *)
THEOREM SameBanks ==
  ASSUME \A m \in Modes : Alternates(m)
  PROVE  Spec => []BanksAgree
<1>1. ASSUME IInv, NEW p \in Ranks, NEW q \in Ranks, Active(p), Active(q)
      PROVE  bank[p] = bank[q] <=> op[p] % 2 = op[q] % 2
  <2>1. bank[p] = BankAt(op[p]) /\ bank[q] = BankAt(op[q])
    BY <1>1 DEF IInv, Epochs, Active
  <2>2. op[p] \in Nat \ {0} /\ op[q] \in Nat \ {0}
    BY <1>1 DEF IInv, TypeOK
  <2> QED
    BY <2>1, <2>2, BankFacts
<1>2. IInv => BanksAgree
  BY <1>1 DEF BanksAgree
<1> QED
  BY <1>2, Invariance, PTL

(* Without a barrier, a rank never takes a count or a flag of another      *)
(* operation: the count of its own, once, is all its word can hold.        *)
THEOREM CountsFresh ==
  ASSUME \A m \in Modes : Alternates(m)
  PROVE  Spec => []FreshCount
<1>1. IInv => FreshCount
  BY Fresh DEF FreshCount, Sources
<1> QED
  BY <1>1, Invariance, PTL

(* Payload a rank was told of stays until it is copied out: no peer writes *)
(* the bank for a later operation while it is read.                        *)
THEOREM PayloadKept ==
  ASSUME \A m \in Modes : Alternates(m)
  PROVE  Spec => []RightPayload
<1>1. ASSUME IInv, NEW r \in Ranks, NEW s \in Ranks, s \in got[r], s \notin mask[r]
      PROVE  data[r][bank[r]][s] = op[r]
  <2>1. op[r] \in Nat
    BY <1>1 DEF IInv, TypeOK
  <2>2. Published(s, r, op[r]) /\ bank[r] = BankAt(op[r])
    BY <1>1 DEF IInv, Working, Epochs
  <2> QED
    BY <1>1, <2>1, <2>2 DEF IInv, DataRight, HasPut
<1>2. IInv => RightPayload
  BY <1>1 DEF RightPayload, IInv, TypeOK
<1> QED
  BY <1>2, Invariance, PTL

(* No publication is wiped before its receiver takes it.                   *)
THEOREM NoneLost ==
  ASSUME \A m \in Modes : Alternates(m)
  PROVE  Spec => []PublicationKept
<1>1. ASSUME IInv, NEW p \in Ranks, NEW r \in Ranks, NEW o \in Ops,
             <<r, o>> \in sent[p], p \notin mask[r],
             op[r] < o \/ (op[r] = o /\ p \notin got[r])
      PROVE  \/ o \in word[r][(o - 1) % 2][p]
             \/ \E m \in net : m.from = p /\ m.to = r /\ m.op = o
  <2>1. o \in Nat /\ op[r] \in Nat
    BY <1>1, EdgeFacts DEF IInv, TypeOK
  <2>2. Published(p, r, o) /\ Open(r, p, o)
    BY <1>1, <2>1 DEF Published, Open
  <2>3. \/ o \in word[r][BankAt(o)][p]
        \/ [from |-> p, to |-> r, op |-> o, bank |-> BankAt(o)] \in net
    BY <1>1, <2>1, <2>2 DEF IInv, Kept
  <2>4. CASE [from |-> p, to |-> r, op |-> o, bank |-> BankAt(o)] \in net
    BY <2>4
  <2> QED
    BY <2>3, <2>4 DEF BankAt
<1>2. IInv => PublicationKept
  BY <1>1 DEF PublicationKept
<1> QED
  BY <1>2, Invariance, PTL
===============================================================================
