---------------------------- MODULE HtCombineRing ----------------------------
(***************************************************************************)
(* One block of the high-throughput combine kernel                         *)
(* (src/nccl_ep/device/ht_ep.cuh, combine_kernel_impl).  Each of its       *)
(* pipelines has a G2S warp, which loads the contributions to a token into *)
(* a ring of stages - one per entry of the token's row that has a slot,    *)
(* the last of them flagged, then one per remote team - and RED warps that *)
(* add them up and store the sum.  The pipelines 0 .. CPipes-1 (the        *)
(* "inter" groups) produce this rank's own tokens.  With several teams one *)
(* more (the "intra" groups) produces the tokens of the remote teams: it   *)
(* stores to the RED buffer, from which the N2N warp puts them.            *)
(*                                                                         *)
(* Units, tokens, rows and gates are those of HtDispatchRing.              *)
(***************************************************************************)
EXTENDS Integers, FiniteSets, SequencesExt

CONSTANTS
  CPipes,   \* PIPELINES_PER_BLOCK
  CStages,  \* STAGES_G2S of one pipeline
  OStages,  \* STAGES_S2G of one pipeline
  Empty     \* the entry -1 of a row

VARIABLES
  load, r2a, s2d, \* what is dispatched, the gate and the rows (HtDispatchRing)
  src,      \* where the G2S warp of each pipeline stands
  loads,    \* loads under way: <<stage, contribution>>
  stage,    \* the contribution in each stage
  lastFlag, \* the flag buffer of the stages
  filled, freed, \* the producer and consumer mbarriers of the stages
  red,      \* where the RED warps of each pipeline stand
  ostage,   \* the sum in each store stage
  stores,   \* stores under way: [n, stage, token]
  result,   \* the sum stored for each token: attn output, or the RED buffer
  counter,  \* rdma_streaming_counter
  chunkDone,\* lsa_to_rdma_mbarrier_buffer: the chunks all of whose sums are stored
  n2n,      \* where the N2N warp stands
  wire,     \* the <<token, content>> put to remote teams
  signals,  \* <<chunk, distance>> signalled to remote teams
  heard     \* <<chunk, distance>> whose signal from a remote team is in

srcVars == <<src, loads, stage, lastFlag, filled, freed>>
sumVars == <<red, ostage, stores, result>>
sendVars == <<counter, chunkDone, n2n, wire, signals>>
combineVars == <<srcVars, sumVars, sendVars, heard>>
dispatched == <<load, r2a, s2d>>

Teams == load.teams
Chunks == Len(load.units) \div Teams
Distances == 1 .. Teams - 1
Pipes == 0 .. CPipes - 1
SendPipe == CPipes
AllPipes == IF Teams > 1 THEN Pipes \cup {SendPipe} ELSE Pipes
Nothing == <<>>
Unstored == [is |-> FALSE, of |-> <<>>]

(* The record of token t = <<unit, index>>. *)
Data(t) == load.units[t[1] + 1][t[2]]
Gated(t) == t[2] \in r2a[t[1]]
UnitTokens(u) == [i \in DOMAIN load.units[u + 1] |-> <<u, i>>]

(* The own tokens of pipeline p: every CPipes-th of each chunk. *)
OwnTokens(p) ==
  SelectSeq(FlattenSeq([c \in 1 .. Chunks |-> UnitTokens((c - 1) * Teams)]),
            LAMBDA t : (t[2] - 1) % CPipes = p)

(* combine_chunk_meta: the k-th chunk of the send pipeline is that of the team *)
(* k % (Teams-1) + 1 steps ahead, which is Teams minus that many behind.       *)
MetaDistance(k) == (k % (Teams - 1)) + 1
MetaChunk(k) == k \div (Teams - 1)
MetaUnit(k) == MetaChunk(k) * Teams + (Teams - MetaDistance(k))
SendChunks == (Teams - 1) * Chunks

(* put_active_tokens: runs of gated tokens, cut at the batch size. *)
Limit == IF load.batch > 0 THEN load.batch ELSE load.cap
Close(b) == IF b.open = <<>> THEN b ELSE [done |-> Append(b.done, b.open), open |-> <<>>]
Extend(b, t) ==
  LET c == [b EXCEPT !.open = Append(@, t)]
  IN IF ~Gated(t) THEN Close(b) ELSE IF Len(c.open) >= Limit THEN Close(c) ELSE c
Batches(k) ==
  IF k >= SendChunks THEN <<>>
  ELSE Close(FoldLeft(Extend, [done |-> <<>>, open |-> <<>>], UnitTokens(MetaUnit(k)))).done

-----------------------------------------------------------------------------
(* A contribution: of an entry of the row, or of the team n steps behind. *)
Local(t, e) == <<t, e, 0>>
Remote(t, n) == <<t, 0, n>>

(* The local contributions to a token.  With local_reduce an entry whose rank *)
(* is that of the entry before it has been added up by the receiver.          *)
EntrySeq(t) ==
  LET row == s2d[t[1]][t[2]]
      sent == {e \in DOMAIN row : /\ row[e] # Empty
                                  /\ ~(load.dup /\ e > 1 /\ row[e - 1] = row[e])}
  IN [k \in 1 .. Cardinality(sent) |-> Local(t, SetToSortSeq(sent, <)[k])]

(* Remote teams that sent a part of the token (attn_to_rdma_map), nearest first. *)
RemoteSeq(t) ==
  LET far == IF t[1] % Teams = 0 THEN Data(t).remotes ELSE {}
  IN [k \in 1 .. Cardinality(far) |-> Remote(t, SetToSortSeq(far, <)[k])]

(* The kernel starts: its mbarriers are initialised. *)
CombineLaunch ==
  /\ src' = [p \in AllPipes |-> [todo |-> IF p = SendPipe
               THEN FlattenSeq([k \in 1 .. SendChunks |-> UnitTokens(MetaUnit(k - 1))])
               ELSE OwnTokens(p), entries |-> <<>>, lanes |-> {}, rest |-> <<>>, off |-> 0]]
  /\ loads' = [p \in AllPipes |-> {}]
  /\ stage' = [p \in AllPipes |-> [s \in 0 .. CStages - 1 |-> Nothing]]
  /\ lastFlag' = [p \in AllPipes |-> [s \in 0 .. CStages - 1 |-> FALSE]]
  /\ filled' = [p \in AllPipes |-> [s \in 0 .. CStages - 1 |-> 0]]
  /\ freed' = [p \in AllPipes |-> [s \in 0 .. CStages - 1 |-> 0]]
  /\ red' = [p \in AllPipes |-> [todo |-> IF p = SendPipe THEN UnitTokens(MetaUnit(0)) ELSE OwnTokens(p),
               at |-> "next", rest |-> <<>>, sum |-> <<>>, stage |-> 0, parity |-> 0,
               out |-> 0, n |-> 0, chunk |-> 0, pending |-> 0, made |-> 0]]
  /\ ostage' = [p \in AllPipes |-> [s \in 0 .. OStages - 1 |-> Nothing]]
  /\ stores' = [p \in AllPipes |-> {}]
  /\ result' = [u \in 0 .. Len(load.units) - 1 |-> [i \in DOMAIN load.units[u + 1] |-> Unstored]]
  /\ counter' = 0 /\ chunkDone' = {}
  /\ n2n' = [k |-> 0, todo |-> IF Teams > 1 THEN Batches(0) ELSE <<>>, sent |-> 0]
  /\ wire' = {} /\ signals' = {} /\ heard' = {}

Flip(bits, p, s) == [bits EXCEPT ![p][s] = 1 - @]

-----------------------------------------------------------------------------
(* The G2S warps *)

(* The signal of a chunk arrives from the team n steps behind. *)
SignalArrives(c, n) ==
  /\ <<c, n>> \notin heard
  /\ heard' = heard \cup {<<c, n>>}
  /\ UNCHANGED <<dispatched, srcVars, sumVars, sendVars>>

(* An own token waits for the signals of its chunk from all remote teams. *)
ChunkHeard(p, t) ==
  p # SendPipe => \A n \in Distances : <<t[1] \div Teams, n>> \in heard

SourceIdle(p) == src[p].entries = <<>> /\ src[p].lanes = {} /\ src[p].rest = <<>>

(* The warp goes on to its next token. *)
SourceNext(p) ==
  /\ SourceIdle(p) /\ src[p].todo # <<>>
  /\ LET t == Head(src[p].todo) IN
       /\ ChunkHeard(p, t)
       /\ src' = [src EXCEPT ![p].todo = Tail(@), ![p].rest = RemoteSeq(t),
                             ![p].entries = IF Gated(t) THEN EntrySeq(t) ELSE <<>>]
  /\ UNCHANGED <<dispatched, loads, stage, lastFlag, filled, freed, sumVars, sendVars, heard>>

StageOf(off) == off % CStages

(* issue_g2s_entry waits for the consumer with the parity of its lap. *)
StageFree(p, off) == freed[p][StageOf(off)] # 1 - ((off \div CStages) % 2)

WriteFlag(p, s, last) == [lastFlag EXCEPT ![p][s] = last]

(* issue_local_g2s_row: one lane issues the entries in order, so that the     *)
(* final one can be flagged.                                                  *)
IssueLocal(p) ==
  LET w == src[p] IN
  /\ w.entries # <<>> /\ StageFree(p, w.off)
  /\ loads' = [loads EXCEPT ![p] = @ \cup {<<StageOf(w.off), Head(w.entries)>>}]
  /\ lastFlag' = WriteFlag(p, StageOf(w.off), Len(w.entries) = 1)
  /\ src' = [src EXCEPT ![p].entries = Tail(@), ![p].off = @ + 1]
  /\ UNCHANGED <<dispatched, stage, filled, freed, sumVars, sendVars, heard>>

(* issue_rdma_g2s_row: the remote contributions go out by as many lanes as    *)
(* there are stages, each lane on its own.                                    *)
BatchRemote(p) ==
  LET w == src[p]
      k == IF Len(w.rest) > CStages THEN CStages ELSE Len(w.rest) IN
  /\ w.entries = <<>> /\ w.lanes = {} /\ w.rest # <<>>
  /\ src' = [src EXCEPT ![p].lanes = {<<w.off + j - 1, w.rest[j]>> : j \in 1 .. k},
                        ![p].rest = SubSeq(@, k + 1, Len(@)), ![p].off = @ + k]
  /\ UNCHANGED <<dispatched, loads, stage, lastFlag, filled, freed, sumVars, sendVars, heard>>

(* A remote contribution leaves the flag of its stage as it is. *)
IssueRemote(p, l) ==
  /\ l \in src[p].lanes /\ StageFree(p, l[1])
  /\ loads' = [loads EXCEPT ![p] = @ \cup {<<StageOf(l[1]), l[2]>>}]
  /\ src' = [src EXCEPT ![p].lanes = @ \ {l}]
  /\ UNCHANGED <<dispatched, stage, lastFlag, filled, freed, sumVars, sendVars, heard>>

LoadLands(p, l) ==
  /\ l \in loads[p]
  /\ loads' = [loads EXCEPT ![p] = @ \ {l}]
  /\ stage' = [stage EXCEPT ![p][l[1]] = l[2]]
  /\ filled' = Flip(filled, p, l[1])
  /\ UNCHANGED <<dispatched, src, lastFlag, freed, sumVars, sendVars, heard>>

-----------------------------------------------------------------------------
(* The RED warps *)

(* The next token to produce; the send pipeline skips tokens not gated. *)
RedNext(p) ==
  LET w == red[p]  t == Head(w.todo) IN
  /\ w.at = "next" /\ w.todo # <<>>
  /\ red' = [red EXCEPT ![p] =
       IF p = SendPipe /\ ~Gated(t) THEN [w EXCEPT !.todo = Tail(@)]
       ELSE [w EXCEPT !.at = IF Gated(t) THEN "local" ELSE "remote",
                      !.rest = RemoteSeq(t), !.sum = <<>>]]
  /\ UNCHANGED <<dispatched, srcVars, ostage, stores, result, sendVars, heard>>

StageFilled(p) == filled[p][red[p].stage] # red[p].parity

(* A stage is consumed: read, handed back, and the ring advanced. *)
Consume(p, w) ==
  /\ freed' = Flip(freed, p, w.stage)
  /\ red' = [red EXCEPT ![p] = IF w.stage + 1 = CStages
               THEN [w EXCEPT !.stage = 0, !.parity = 1 - @]
               ELSE [w EXCEPT !.stage = @ + 1]]

(* Local contributions, until the flagged one. *)
AddLocal(p) ==
  LET w == red[p] IN
  /\ w.at = "local" /\ StageFilled(p)
  /\ Consume(p, [w EXCEPT !.sum = Append(@, stage[p][w.stage]),
                          !.at = IF lastFlag[p][w.stage] THEN "remote" ELSE "local"])
  /\ UNCHANGED <<dispatched, src, loads, stage, lastFlag, filled, ostage, stores, result, sendVars, heard>>

(* One contribution of every remote team that sent a part. *)
AddRemote(p) ==
  LET w == red[p] IN
  /\ w.at = "remote" /\ w.rest # <<>> /\ StageFilled(p)
  /\ Consume(p, [w EXCEPT !.sum = Append(@, stage[p][w.stage]), !.rest = Tail(@)])
  /\ UNCHANGED <<dispatched, src, loads, stage, lastFlag, filled, ostage, stores, result, sendVars, heard>>

(* The store that last used this stage has read it. *)
StoreStageFree(p) == \A g \in stores[p] : g.n > red[p].n - (OStages - 1)

(* store_reduced_token, inter_store_token: padding tokens are not written.    *)
(* The send pipeline drains its stores after every batch.                     *)
StoreSum(p) ==
  LET w == red[p]  t == Head(w.todo)  real == Data(t).real IN
  /\ w.at = "remote" /\ w.rest = <<>> /\ StoreStageFree(p)
  /\ ostage' = [ostage EXCEPT ![p][w.out] = w.sum]
  /\ stores' = IF real THEN [stores EXCEPT ![p] = @ \cup {[n |-> w.n + 1, stage |-> w.out, token |-> t]}]
                       ELSE stores
  /\ red' = [red EXCEPT ![p] = [w EXCEPT
       !.todo = Tail(@), !.out = (@ + 1) % OStages, !.n = IF real THEN @ + 1 ELSE @,
       !.pending = @ + 1,
       !.at = IF p = SendPipe /\ load.batch > 0 /\ w.pending + 1 >= load.batch THEN "drain" ELSE "next"]]
  /\ UNCHANGED <<dispatched, srcVars, result, sendVars, heard>>

StoreLands(p, g) ==
  /\ g \in stores[p]
  /\ stores' = [stores EXCEPT ![p] = @ \ {g}]
  /\ result' = [result EXCEPT ![g.token[1]][g.token[2]] = [is |-> TRUE, of |-> ostage[p][g.stage]]]
  /\ UNCHANGED <<dispatched, srcVars, red, ostage, sendVars, heard>>

StoresLanded(p) == stores[p] = {}

(* streaming_drain: all stores have landed; the counter counts them. *)
Drain(p) ==
  LET w == red[p] IN
  /\ w.at \in {"drain", "drainEnd"} /\ StoresLanded(p)
  /\ counter' = IF load.batch > 0 THEN w.made + w.pending ELSE counter
  /\ red' = [red EXCEPT ![p] = [w EXCEPT !.made = @ + w.pending, !.pending = 0,
                                         !.at = IF w.at = "drain" THEN "next" ELSE "arrive"]]
  /\ UNCHANGED <<dispatched, srcVars, ostage, stores, result, chunkDone, n2n, wire, signals, heard>>

(* The end of a chunk: what is left is drained, and the chunk's mbarrier arrives. *)
ChunkEnds ==
  LET w == red[SendPipe] IN
  /\ Teams > 1 /\ w.at = "next" /\ w.todo = <<>> /\ w.chunk < SendChunks
  /\ red' = [red EXCEPT ![SendPipe].at = IF w.pending > 0 THEN "drainEnd" ELSE "arrive"]
  /\ UNCHANGED <<dispatched, srcVars, ostage, stores, result, sendVars, heard>>

ChunkArrives ==
  LET w == red[SendPipe] IN
  /\ Teams > 1 /\ w.at = "arrive"
  /\ chunkDone' = chunkDone \cup {w.chunk}
  /\ red' = [red EXCEPT ![SendPipe] = [w EXCEPT !.at = "next", !.chunk = @ + 1,
       !.todo = IF w.chunk + 1 < SendChunks THEN UnitTokens(MetaUnit(w.chunk + 1)) ELSE <<>>]]
  /\ UNCHANGED <<dispatched, srcVars, ostage, stores, result, counter, n2n, wire, signals, heard>>

-----------------------------------------------------------------------------
(* The N2N warp *)

(* Every chunk a rank can have gets its signal: those past its tokens (the    *)
(* residue) too.                                                              *)
AllChunks == (Teams - 1) * load.maxChunks

(* Streaming: the counter covers the batch.  Without it, the chunk is done. *)
BatchStored ==
  IF load.batch > 0 THEN counter >= n2n.sent + Len(Head(n2n.todo)) ELSE n2n.k \in chunkDone

PutBatch ==
  /\ n2n.todo # <<>> /\ BatchStored
  /\ wire' = wire \cup {<<t, result[t[1]][t[2]]>> : t \in Range(Head(n2n.todo))}
  /\ n2n' = [n2n EXCEPT !.todo = Tail(@), !.sent = @ + Len(Head(n2n.todo))]
  /\ UNCHANGED <<dispatched, srcVars, sumVars, counter, chunkDone, signals, heard>>

(* Faulty variant: only the chunks with tokens are signalled. *)
SignalProduced ==
  /\ Teams > 1 /\ n2n.k < AllChunks /\ n2n.todo = <<>>
  /\ n2n.k >= SendChunks \/ n2n.k \in chunkDone
  /\ signals' = IF n2n.k >= SendChunks THEN signals
                ELSE signals \cup {<<MetaChunk(n2n.k), MetaDistance(n2n.k)>>}
  /\ n2n' = [n2n EXCEPT !.k = @ + 1, !.todo = Batches(n2n.k + 1)]
  /\ UNCHANGED <<dispatched, srcVars, sumVars, counter, chunkDone, wire, heard>>

(* The chunk is done: its team is signalled, on the queue of its puts. *)
SignalChunk ==
  /\ Teams > 1 /\ n2n.k < AllChunks /\ n2n.todo = <<>>
  /\ n2n.k >= SendChunks \/ n2n.k \in chunkDone
  /\ signals' = signals \cup {<<MetaChunk(n2n.k), MetaDistance(n2n.k)>>}
  /\ n2n' = [n2n EXCEPT !.k = @ + 1, !.todo = Batches(n2n.k + 1)]
  /\ UNCHANGED <<dispatched, srcVars, sumVars, counter, chunkDone, wire, heard>>

-----------------------------------------------------------------------------
(* The stream goes on when every warp is done and every store has landed. *)
CombineEnded ==
  /\ \A p \in AllPipes : SourceIdle(p) /\ src[p].todo = <<>> /\ loads[p] = {}
                         /\ red[p].at = "next" /\ red[p].todo = <<>> /\ stores[p] = {}
  /\ Teams > 1 => red[SendPipe].chunk = SendChunks /\ n2n.k = AllChunks

CombineStep ==
  \/ \E p \in AllPipes :
       \/ SourceNext(p) \/ IssueLocal(p) \/ BatchRemote(p) \/ RedNext(p)
       \/ AddLocal(p) \/ AddRemote(p) \/ StoreSum(p) \/ Drain(p)
       \/ \E l \in src[p].lanes : IssueRemote(p, l)
       \/ \E l \in loads[p] : LoadLands(p, l)
       \/ \E g \in stores[p] : StoreLands(p, g)
  \/ \E c \in 0 .. Chunks - 1, n \in Distances : SignalArrives(c, n)
  \/ ChunkEnds \/ ChunkArrives \/ PutBatch \/ SignalChunk

-----------------------------------------------------------------------------
(* The tokens this block produces. *)
Produced ==
  UNION {{<<u, i>> : i \in {j \in DOMAIN load.units[u + 1] :
            load.units[u + 1][j].real /\ (u % Teams = 0 \/ j \in r2a[u])}}
         : u \in 0 .. Len(load.units) - 1}

(* What a token's sum must be made of: one contribution from every rank that  *)
(* has a slot for it (with local_reduce; otherwise of every slot), in the     *)
(* order of its row, then one from every remote team that sent a part, in the *)
(* order of the teams.  The order fixes the rounding.                         *)
IsWholeSum(x, t) ==
  LET row == Data(t).row
      slots == {e \in DOMAIN row : row[e] # Empty}
      first == {e \in slots : \A f \in slots : row[f] = row[e] => e <= f}
      near == IF load.dup THEN first ELSE slots
      far == IF t[1] % Teams = 0 THEN Data(t).remotes ELSE {} IN
  /\ Len(x) = Cardinality(near) + Cardinality(far)
  /\ Range(x) = {Local(t, e) : e \in near} \cup {Remote(t, n) : n \in far}
  /\ \A j, k \in DOMAIN x : j < k =>
       \/ x[j][3] < x[k][3]
       \/ x[j][3] = 0 /\ x[k][3] = 0 /\ x[j][2] < x[k][2]

Stored(t) == result[t[1]][t[2]]

(* A sum stored is the whole sum of its token: no stage is loaded again while *)
(* it is being added, and no sum overwritten while it is being stored.        *)
SumsRight == \A t \in Produced : Stored(t).is => IsWholeSum(Stored(t).of, t)

(* What is put to a remote team is the finished sum of its token, and a chunk *)
(* is signalled only after all its tokens have been put.                      *)
PutsFinished ==
  /\ \A x \in wire : x[2].is /\ IsWholeSum(x[2].of, x[1])
  /\ \A k \in 0 .. SendChunks - 1 : <<MetaChunk(k), MetaDistance(k)>> \in signals =>
       \A t \in Range(UnitTokens(MetaUnit(k))) : Gated(t) => t \in {x[1] : x \in wire}

(* When the kernel ends every token has its sum, and every remote team its    *)
(* signals, also for the chunks this rank has no tokens for.                  *)
Complete ==
  /\ \A t \in Produced : Stored(t).is
  /\ signals = (0 .. (IF Teams > 1 THEN load.maxChunks ELSE 0) - 1) \X Distances
=============================================================================
