------------------------------ MODULE HtRounds ------------------------------
(***************************************************************************)
(* The rounds of high-throughput dispatch and combine kernels on all the   *)
(* ranks (src/nccl_ep/device/ht_ep.cuh).  What one block does with tokens  *)
(* is in HtKernels; here a buffer holds the number of the operation its    *)
(* contents are of, and the subject is the synchronisation around the      *)
(* data: the elected head and tail blocks, the flag and the barrier of an  *)
(* LSA team (the ranks that reach each other by loads and stores), the     *)
(* signals and the guard of a rail (the ranks of one local index, which    *)
(* put over the network), and the local_dup kernel behind a dispatch.      *)
(*                                                                         *)
(* All ranks run one program of operations on one stream.  Chunk b of a    *)
(* rank is the work of block b, on its QP.  The guard is that of           *)
(* NCCL_EP_DISABLE_GUARD; without it a program has to alternate.           *)
(***************************************************************************)
EXTENDS Integers, Sequences

CONSTANT Setups \* [teams, size, blocks, guard, count, dup, program]

Dispatch == "dispatch"
Combine == "combine"
Kinds == {Dispatch, Combine}

GuardAssumption ==
  \A s \in Setups : ~s.guard =>
    \A i \in 1 .. Len(s.program) - 1 : s.program[i] # s.program[i + 1]

VARIABLES
  setup,  \* the group and its program; chosen once
  op,     \* the operation each rank runs or runs next
  blk,    \* where each block of a rank stands
  todo,   \* the parts of its stage that a block has left
  head,   \* the head sync counter of a rank: 0 free, 1 claimed, 2 released
  grid,   \* the grid barrier counter of a rank
  lsaFlag,\* lsa_S2G_flags of a team, per kind
  expLsa, \* expected_lsa_flag_val of a rank, per kind
  expGin, \* expected_gin_flag_val of a rank, per kind
  bar,    \* arrivals of a rank at the LSA barrier of a kind
  guards, \* guards[r][kind][team]: the guard flag a rail peer put at r
  signal, \* signal[r][kind][team][chunk]
  wire,   \* the QPs: wire[src][team][channel]
  input,  \* the tokens of a rank
  packed, \* packed[r][team][chunk]: its staging for the chunks of a rail peer
  rows,   \* rows[r][src][chunk]: the received rows of a rank
  second, \* the rows local_dup fills from them
  counts, \* counts[r][peer]: the count rows of its team
  out,    \* the expert outputs of a rank
  red,    \* red[r][team][chunk]: the sums a rank puts to a rail peer
  sums,   \* sums[r][team][chunk]: the sums put to it
  got     \* got[r][chunk]: the operations whose outputs its combine added up

control == <<op, blk, todo, head, grid>>
flags == <<lsaFlag, expLsa, expGin, bar>>
network == <<guards, signal, wire>>
buffers == <<input, packed, rows, second, counts, out, red, sums, got>>
vars == <<setup, control, flags, network, buffers>>

Teams == 1 .. setup.teams
Locals == 1 .. setup.size
Ranks == Teams \X Locals
Blocks == 1 .. setup.blocks
Guard == "guard" \* the QP of reserved context 0
Last == Len(setup.program)

Team(r) == {r[1]} \X Locals
Far(r) == Teams \ {r[1]}
Peer(r, t) == <<t, r[2]>>
Running(r) == setup.program[op[r]]
Is(r, kind) == op[r] <= Last /\ Running(r) = kind
At(r, b, where) == op[r] <= Last /\ blk[r][b] = where
Idle(r) == \A b \in Blocks : blk[r][b] = "idle"
AllSame(S, n) == IF \A x \in S : x = n THEN n ELSE 0

PerKind(v) == [k \in Kinds |-> v]

Init ==
  /\ setup \in Setups
  /\ op = [r \in Ranks |-> 1]
  /\ blk = [r \in Ranks |-> [b \in Blocks |-> "idle"]]
  /\ todo = [r \in Ranks |-> [b \in Blocks |-> {}]]
  /\ head = [r \in Ranks |-> 0] /\ grid = [r \in Ranks |-> 0]
  /\ lsaFlag = [t \in Teams |-> PerKind(0)]
  /\ expLsa = [r \in Ranks |-> PerKind(setup.size)]
  /\ expGin = [r \in Ranks |-> PerKind(1)]
  /\ bar = [r \in Ranks |-> PerKind(0)]
  /\ guards = [r \in Ranks |-> PerKind([t \in Teams |-> 0])]
  /\ signal = [r \in Ranks |-> PerKind([t \in Teams |-> [b \in Blocks |-> 0]])]
  /\ wire = [r \in Ranks |-> [t \in Teams |-> [b \in Blocks |-> <<>>]]]
  /\ input = [r \in Ranks |-> 0] /\ out = [r \in Ranks |-> 0]
  /\ packed = [r \in Ranks |-> [t \in Teams |-> [b \in Blocks |-> 0]]]
  /\ rows = [r \in Ranks |-> [s \in Ranks |-> [b \in Blocks |-> 0]]]
  /\ second = [r \in Ranks |-> 0]
  /\ counts = [r \in Ranks |-> [p \in Ranks |-> 0]]
  /\ red = packed /\ sums = packed
  /\ got = [r \in Ranks |-> [b \in Blocks |-> {}]]

-----------------------------------------------------------------------------
(* The host launches the next operation when the kernels before it are over. *)
(* The user has written its inputs by then.                                  *)
Launch(r) ==
  /\ op[r] <= Last /\ Idle(r)
  /\ blk' = [blk EXCEPT ![r] = [b \in Blocks |-> "head"]]
  /\ IF Running(r) = Dispatch
     THEN input' = [input EXCEPT ![r] = op[r]] /\ UNCHANGED <<out, got>>
     ELSE /\ out' = [out EXCEPT ![r] = op[r]]
          /\ got' = [got EXCEPT ![r] = [b \in Blocks |-> {}]]
          /\ UNCHANGED input
  /\ UNCHANGED <<setup, op, todo, head, grid, flags, network, packed, rows, second, counts, red, sums>>

(* Faulty variant: the guard lets a rank get two rounds ahead of a rail peer. *)
GuardLags(r, kind) ==
  setup.guard => \A t \in Far(r) : guards[r][kind][t] + 2 >= expGin[r][kind]

(* warp_rdma_guard_wait: every rail peer is at most one round behind. *)
GuardMet(r, kind) ==
  setup.guard => \A t \in Far(r) : guards[r][kind][t] + 1 >= expGin[r][kind]

(* What a block has to do once it is past the head. *)
Parts(r, kind) ==
  {<<"take", t>> : t \in Teams} \cup
  IF kind = Dispatch THEN IF setup.teams > 1 THEN {<<"put", 0>>} ELSE {}
                     ELSE {<<"send", t>> : t \in Far(r)}

Begin(r, b) ==
  /\ GuardMet(r, Running(r))
  /\ blk' = [blk EXCEPT ![r][b] = "body"]
  /\ todo' = [todo EXCEPT ![r][b] = Parts(r, Running(r))]

HeadSync == setup.guard \/ setup.count

(* A dispatch head that needs no LSA barrier. *)
Unsynced(r, b) ==
  /\ At(r, b, "head") /\ Is(r, Dispatch) /\ ~HeadSync
  /\ Begin(r, b)
  /\ UNCHANGED <<setup, op, head, grid, flags, network, buffers>>

(* elect_first_block: the first admitted block claims the head. *)
ClaimHead(r, b) ==
  /\ At(r, b, "head") /\ head[r] = 0
  /\ Is(r, Dispatch) => HeadSync
  /\ head' = [head EXCEPT ![r] = 1]
  /\ blk' = [blk EXCEPT ![r][b] = "leader"]
  /\ UNCHANGED <<setup, op, todo, grid, flags, network, buffers>>

(* The leader of dispatch writes its count row to its team, arrives at the LSA *)
(* barrier and releases the other blocks when all of its team have arrived.    *)
ArriveHead(r, b) ==
  /\ At(r, b, "leader") /\ Is(r, Dispatch)
  /\ counts' = [p \in Ranks |-> IF setup.count /\ p \in Team(r)
                                THEN [counts[p] EXCEPT ![r] = op[r]] ELSE counts[p]]
  /\ bar' = [bar EXCEPT ![r][Dispatch] = @ + 1]
  /\ blk' = [blk EXCEPT ![r][b] = "synced"]
  /\ UNCHANGED <<setup, op, todo, head, grid, lsaFlag, expLsa, expGin, network,
                 input, packed, rows, second, out, red, sums, got>>

AllArrived(r, kind) == \A p \in Team(r) : bar[p][kind] >= bar[r][kind]

(* Faulty variant: nobody waits at the LSA barrier. *)
ArrivedMyself(r, kind) == bar[r][kind] > 0

BarrierMet(r, kind) == AllArrived(r, kind)

ReleaseHead(r, b) ==
  /\ At(r, b, "synced") /\ Is(r, Dispatch) /\ BarrierMet(r, Dispatch)
  /\ head' = [head EXCEPT ![r] = 2]
  /\ Begin(r, b)
  /\ UNCHANGED <<setup, op, grid, flags, network, buffers>>

FollowHead(r, b) ==
  /\ At(r, b, "head") /\ Is(r, Dispatch) /\ head[r] = 2
  /\ Begin(r, b)
  /\ UNCHANGED <<setup, op, head, grid, flags, network, buffers>>

(* The leader of combine adds to the team's flag, and every block polls it. *)
SignalTeam(r, b) ==
  /\ At(r, b, "leader") /\ Is(r, Combine)
  /\ lsaFlag' = [lsaFlag EXCEPT ![r[1]][Combine] = @ + 1]
  /\ blk' = [blk EXCEPT ![r][b] = "polling"]
  /\ UNCHANGED <<setup, op, todo, head, grid, expLsa, expGin, bar, network, buffers>>

Reached(r, kind) == lsaFlag[r[1]][kind] = expLsa[r][kind]

PollTeam(r, b) ==
  /\ Is(r, Combine)
  /\ At(r, b, "polling") \/ (At(r, b, "head") /\ head[r] # 0)
  /\ Reached(r, Combine)
  /\ Begin(r, b)
  /\ UNCHANGED <<setup, op, head, grid, flags, network, buffers>>
-----------------------------------------------------------------------------
Finish(r, b, part, then) ==
  /\ At(r, b, "body") /\ part \in todo[r][b]
  /\ todo' = [todo EXCEPT ![r][b] = (@ \ {part}) \cup then]

Message(what, from) == [what |-> what, kind |-> Running(from), is |-> 0]
Post(q, from) == q \o <<Message("put", from), Message("signal", from)>>

(* dispatch_N2N_warp: the chunk goes to every rail peer, behind it its signal. *)
PutChunk(r, b) ==
  /\ Is(r, Dispatch) /\ Finish(r, b, <<"put", 0>>, {<<"flush", 0>>})
  /\ wire' = [wire EXCEPT ![r] =
       [t \in Teams |-> IF t \in Far(r) THEN [@[t] EXCEPT ![b] = Post(@, r)] ELSE @[t]]]
  /\ UNCHANGED <<setup, op, blk, head, grid, flags, guards, signal, buffers>>

Unread(q) == {i \in DOMAIN q : q[i].what = "put" /\ q[i].is = 0}

(* The final flush: the puts of the block have read their source. *)
Flush(r, b) ==
  /\ Finish(r, b, <<"flush", 0>>, {})
  /\ \A t \in Far(r) : Unread(wire[r][t][b]) = {}
  /\ UNCHANGED <<setup, op, blk, head, grid, flags, network, buffers>>

(* waitSignal: the signals of the rounds add up to at least the expected one. *)
Signalled(r, t, b, kind) == signal[r][kind][t][b] >= expGin[r][kind]

(* G2S and S2G: the rows of one source go to the team, those of a remote source *)
(* from the staging its signal announced.                                       *)
Distribute(r, b, t) ==
  /\ Is(r, Dispatch) /\ Finish(r, b, <<"take", t>>, {})
  /\ t # r[1] => Signalled(r, t, b, Dispatch)
  /\ LET ready == ~setup.count \/ \A p \in Team(r) : counts[r][p] = op[r]
         row == IF ~ready THEN 0 ELSE IF t = r[1] THEN input[r] ELSE packed[r][t][b]
     IN rows' = [p \in Ranks |-> IF p \in Team(r)
                                 THEN [rows[p] EXCEPT ![Peer(r, t)][b] = row] ELSE rows[p]]
  /\ UNCHANGED <<setup, op, blk, head, grid, flags, network,
                 input, packed, second, counts, out, red, sums, got>>

(* Inter RED warps: the own tokens add up the rows of the team and the sums of *)
(* the remote teams.                                                           *)
SumOwn(r, b, t) ==
  /\ Is(r, Combine) /\ Finish(r, b, <<"take", t>>, {})
  /\ t # r[1] => Signalled(r, t, b, Combine)
  /\ got' = [got EXCEPT ![r][b] =
       @ \cup IF t = r[1] THEN {out[p] : p \in Team(r)} ELSE {sums[r][t][b]}]
  /\ UNCHANGED <<setup, op, blk, head, grid, flags, network,
                 input, packed, rows, second, counts, out, red, sums>>

(* Intra RED and N2N warps: the sum for a remote team goes through the RED *)
(* buffer.  Nothing waits for the put to have read it.                     *)
SumFar(r, b, t) ==
  /\ Is(r, Combine) /\ Finish(r, b, <<"send", t>>, {})
  /\ red' = [red EXCEPT ![r][t][b] = AllSame({out[p] : p \in Team(r)}, op[r])]
  /\ wire' = [wire EXCEPT ![r][t][b] = Post(@, r)]
  /\ UNCHANGED <<setup, op, blk, head, grid, flags, guards, signal,
                 input, packed, rows, second, counts, out, sums, got>>
-----------------------------------------------------------------------------
(* A QP reads the source of its puts and delivers in order. *)
ReadSource(r, t, b) ==
  \E i \in Unread(wire[r][t][b]) :
    /\ \A j \in Unread(wire[r][t][b]) : i <= j
    /\ wire' = [wire EXCEPT ![r][t][b][i].is =
         IF wire[r][t][b][i].kind = Dispatch THEN input[r] ELSE red[r][t][b]]
    /\ UNCHANGED <<setup, control, flags, guards, signal, buffers>>

Deliver(r, t, b) ==
  LET q == wire[r][t][b]
      m == Head(q)
      to == Peer(r, t)
  IN /\ q # <<>> /\ (m.what = "put" => m.is # 0)
     /\ wire' = [wire EXCEPT ![r][t][b] = Tail(@)]
     /\ IF m.what = "signal"
        THEN /\ signal' = [signal EXCEPT ![to][m.kind][r[1]][b] = @ + 1]
             /\ UNCHANGED <<packed, sums>>
        ELSE /\ UNCHANGED signal
             /\ IF m.kind = Dispatch
                THEN packed' = [packed EXCEPT ![to][r[1]][b] = m.is] /\ UNCHANGED sums
                ELSE sums' = [sums EXCEPT ![to][r[1]][b] = m.is] /\ UNCHANGED packed
     /\ UNCHANGED <<setup, control, flags, guards, input, rows, second, counts, out, red, got>>
-----------------------------------------------------------------------------
(* elect_last_block; the last one has the tail to do. *)
TailParts(r, kind) ==
  {<<IF kind = Dispatch THEN "bump" ELSE "reset", 0>>}
  \cup (IF setup.teams > 1 THEN {<<"publish", 0>>} ELSE {})
  \cup IF kind = Combine /\ setup.guard /\ setup.size > 1 THEN {<<"arrive", 0>>} ELSE {}

Arrive(r, b) ==
  /\ At(r, b, "body") /\ todo[r][b] = {}
  /\ grid' = [grid EXCEPT ![r] = @ + 1]
  /\ LET last == grid[r] = setup.blocks - 1
     IN /\ blk' = [blk EXCEPT ![r][b] = IF last THEN "tail" ELSE "done"]
        /\ todo' = [todo EXCEPT ![r][b] = IF last THEN TailParts(r, Running(r)) ELSE {}]
  /\ UNCHANGED <<setup, op, head, flags, network, buffers>>

TailStep(r, b, part, then) ==
  /\ At(r, b, "tail") /\ part \in todo[r][b]
  /\ todo' = [todo EXCEPT ![r][b] = (@ \ {part}) \cup then]

(* Dispatch: every rank of the team has stored all it has to store. *)
Bump(r, b) ==
  /\ TailStep(r, b, <<"bump", 0>>, {<<"poll", 0>>})
  /\ lsaFlag' = [lsaFlag EXCEPT ![r[1]][Dispatch] = @ + 1]
  /\ UNCHANGED <<setup, op, blk, head, grid, expLsa, expGin, bar, network, buffers>>

NextRound(r, kind) == expLsa' = [expLsa EXCEPT ![r][kind] = @ + setup.size]

PollTail(r, b) ==
  /\ TailStep(r, b, <<"poll", 0>>, {}) /\ Reached(r, Dispatch)
  /\ grid' = [grid EXCEPT ![r] = 0] /\ head' = [head EXCEPT ![r] = 0]
  /\ IF setup.dup THEN UNCHANGED expLsa ELSE NextRound(r, Dispatch)
  /\ UNCHANGED <<setup, op, blk, lsaFlag, expGin, bar, network, buffers>>

(* Faulty variant: the head sync counter is left released. *)
ResetGridOnly(r, b) ==
  /\ TailStep(r, b, <<"reset", 0>>, {})
  /\ grid' = [grid EXCEPT ![r] = 0]
  /\ NextRound(r, Combine)
  /\ UNCHANGED <<setup, op, blk, head, lsaFlag, expGin, bar, network, buffers>>

Reset(r, b) ==
  /\ TailStep(r, b, <<"reset", 0>>, {})
  /\ grid' = [grid EXCEPT ![r] = 0] /\ head' = [head EXCEPT ![r] = 0]
  /\ NextRound(r, Combine)
  /\ UNCHANGED <<setup, op, blk, lsaFlag, expGin, bar, network, buffers>>

(* warp_rdma_guard_publish: the round goes to the flag of every rail peer.  The *)
(* put has a context of its own, so it may pass any data: here it is at once,   *)
(* and one that is late only holds a waiter back.                               *)
Publish(r, b) ==
  /\ TailStep(r, b, <<"publish", 0>>, {})
  /\ guards' = IF ~setup.guard THEN guards
               ELSE [p \in Ranks |-> IF p[2] = r[2] /\ p # r
                     THEN [guards[p] EXCEPT ![Running(r)][r[1]] = expGin[r][Running(r)]]
                     ELSE guards[p]]
  /\ expGin' = [expGin EXCEPT ![r][Running(r)] = @ + 1]
  /\ UNCHANGED <<setup, op, blk, head, grid, lsaFlag, expLsa, bar, signal, wire, buffers>>

(* Combine: nobody of the team reads this rank's outputs any more. *)
ArriveTail(r, b) ==
  /\ TailStep(r, b, <<"arrive", 0>>, {<<"leave", 0>>})
  /\ bar' = [bar EXCEPT ![r][Combine] = @ + 1]
  /\ UNCHANGED <<setup, op, blk, head, grid, lsaFlag, expLsa, expGin, network, buffers>>

LeaveTail(r, b) ==
  /\ TailStep(r, b, <<"leave", 0>>, {}) /\ BarrierMet(r, Combine)
  /\ UNCHANGED <<setup, op, blk, head, grid, flags, network, buffers>>

EndBlock(r, b) ==
  /\ At(r, b, "tail") /\ todo[r][b] = {}
  /\ blk' = [blk EXCEPT ![r][b] = "done"]
  /\ UNCHANGED <<setup, op, todo, head, grid, flags, network, buffers>>

(* The kernel is over; local_dup is the next one on the stream. *)
EndKernel(r) ==
  /\ op[r] <= Last /\ \A b \in Blocks : blk[r][b] = "done"
  /\ LET dup == setup.dup /\ Running(r) = Dispatch
     IN /\ blk' = [blk EXCEPT ![r] = [b \in Blocks |-> IF dup THEN "dup" ELSE "idle"]]
        /\ op' = [op EXCEPT ![r] = IF dup THEN @ ELSE @ + 1]
  /\ UNCHANGED <<setup, todo, head, grid, flags, network, buffers>>

(* local_dup_kernel_impl: a block polls the flag, fills its secondary rows from *)
(* the primary ones, and the last one has the round to bump.                    *)
DupFill(r, b) ==
  /\ At(r, b, "dup") /\ lsaFlag[r[1]][Dispatch] >= expLsa[r][Dispatch]
  /\ second' = [second EXCEPT ![r] =
       AllSame(UNION {{rows[r][s][c] : c \in Blocks} : s \in Ranks}, op[r])]
  /\ blk' = [blk EXCEPT ![r][b] = "dupped"]
  /\ UNCHANGED <<setup, op, todo, head, grid, flags, network,
                 input, packed, rows, counts, out, red, sums, got>>

DupArrive(r, b) ==
  /\ At(r, b, "dupped")
  /\ LET last == grid[r] = setup.blocks - 1
     IN /\ grid' = [grid EXCEPT ![r] = IF last THEN 0 ELSE @ + 1]
        /\ blk' = [blk EXCEPT ![r] = IF last THEN [c \in Blocks |-> "idle"] ELSE [@ EXCEPT ![b] = "done"]]
        /\ op' = [op EXCEPT ![r] = IF last THEN @ + 1 ELSE @]
        /\ IF last THEN NextRound(r, Dispatch) ELSE UNCHANGED expLsa
  /\ UNCHANGED <<setup, todo, head, lsaFlag, expGin, bar, network, buffers>>
-----------------------------------------------------------------------------
BlockStep(r, b) ==
  \/ Unsynced(r, b) \/ ClaimHead(r, b) \/ ArriveHead(r, b) \/ ReleaseHead(r, b)
  \/ FollowHead(r, b) \/ SignalTeam(r, b) \/ PollTeam(r, b)
  \/ PutChunk(r, b) \/ Flush(r, b)
  \/ \E t \in Teams : Distribute(r, b, t) \/ SumOwn(r, b, t) \/ SumFar(r, b, t)
  \/ Arrive(r, b) \/ Bump(r, b) \/ PollTail(r, b) \/ Reset(r, b) \/ Publish(r, b)
  \/ ArriveTail(r, b) \/ LeaveTail(r, b) \/ EndBlock(r, b)
  \/ DupFill(r, b) \/ DupArrive(r, b)

NetworkStep(r, t, b) == ReadSource(r, t, b) \/ Deliver(r, t, b)

Next ==
  \E r \in Ranks :
    \/ Launch(r) \/ EndKernel(r)
    \/ \E b \in Blocks : BlockStep(r, b)
    \/ \E t \in Teams, b \in Blocks : NetworkStep(r, t, b)

Spec == Init /\ [][Next]_vars
-----------------------------------------------------------------------------
(* From the end of a dispatch to the launch of what follows, when the user *)
(* reads them, the received rows are those of that dispatch, of every      *)
(* source, and the secondary rows too: no peer that is ahead, and no put   *)
(* that is late, writes to them or to the staging they came through.       *)
RowsOfThisRound ==
  \A r \in Ranks :
    (Idle(r) /\ op[r] > 1 /\ setup.program[op[r] - 1] = Dispatch) =>
      /\ \A s \in Ranks, b \in Blocks : rows[r][s][b] = op[r] - 1
      /\ setup.dup => second[r] = op[r] - 1

(* A combine adds up outputs of its own round only, whether it reads them at *)
(* a team peer or gets them, added up, over the network: outputs are not     *)
(* rewritten, sums not overwritten, before they are read.                    *)
SumsOfThisRound ==
  \A r \in Ranks, b \in Blocks : (Is(r, Combine) /\ ~Idle(r)) => got[r][b] \subseteq {op[r]}

ProgramEnded == \A r \in Ranks : op[r] > Last
=============================================================================
