----------------------------- MODULE EpHandles ------------------------------
(***************************************************************************)
(* The handles of a high-throughput group on one rank and the per-token    *)
(* maps they keep (src/nccl_ep/nccl_ep.cc): InitHandle, UpdateHandle,      *)
(* dispatch, combine, ImportHandle, HandleDestroy.                         *)
(*                                                                         *)
(* The host only enqueues; the device runs what is enqueued in order.      *)
(* ncclEpUpdateHandle either builds the maps (scan) or only counts, and    *)
(* then the forward dispatch builds them.  Every region of a handle is     *)
(* represented by the update whose routing it holds (0: none), so that an  *)
(* operation can be asked whose maps it reads.  Two regions belong to the  *)
(* group and are shared by its handles: the landing zone into which peers  *)
(* push routing rows, and the scratch of the scan.                         *)
(***************************************************************************)
EXTENDS EpLayout

CONSTANTS
  HandleNames,      \* names of handles
  Topks,        \* num_topk of the handles
  MaxUpdates,   \* bound on the calls of ncclEpUpdateHandle
  ForwardFirst  \* callers of a pull-push group dispatch forward before they dispatch
                \* backward or combine

VARIABLES
  group,    \* the group of the handles, once it is made
  handles,  \* the handles there are
  updates,  \* updates so far
  landing,  \* whose routing rows are in the shared landing zone
  scratch,  \* scan scratch of the group
  saved,    \* a copy of a handle's memory
  result    \* the last call: whether it was accepted, and whose maps it read

handleVars == <<group, handles, updates, landing, scratch, saved, result>>

NoScratch == [rank_mask |-> 0, scan_tmp |-> 0, recv_slots |-> 0]
Nothing == [op |-> "none", of |-> 0, accepted |-> TRUE, reads |-> {}, rows |-> {}, matched |-> TRUE]
NoCopy == [taken |-> FALSE]
HandlesInit ==
  /\ group = [mode |-> "none"] /\ handles = [h \in {} |-> 0] /\ updates = 0
  /\ landing = 0 /\ scratch = NoScratch /\ saved = NoCopy /\ result = Nothing

With(h, hd) == [x \in DOMAIN handles \cup {h} |-> IF x = h THEN hd ELSE handles[x]]
Returned(op, hd, accepted, reads, rows) ==
  result' = [op |-> op, of |-> hd.set, accepted |-> accepted, reads |-> reads, rows |-> rows,
             matched |-> hd.forwarded = hd.set]
-----------------------------------------------------------------------------
(* ht_init_handle: host state is fresh, the memory is whatever it was. *)
Fresh(l, k) ==
  [layout |-> l, k |-> k, fused |-> TRUE, built |-> FALSE, imported |-> FALSE, set |-> 0, forwarded |-> 0,
   row |-> 0, cached |-> 0, snap |-> 0, lerm |-> 0, em |-> 0, cnt |-> 0, s2d |-> 0]

InitHandle(h, l, k) ==
  /\ h \notin DOMAIN handles
  /\ IF HandleAccepted(group, l, k)
     THEN /\ handles' = With(h, Fresh(l, k))
          /\ scratch' = Ensured(scratch, ScanScratch(group, l))
     ELSE UNCHANGED <<handles, scratch>>
  /\ result' = Nothing /\ UNCHANGED <<group, updates, landing, saved>>

HandleDestroy(h) ==
  /\ h \in DOMAIN handles
  /\ handles' = [x \in DOMAIN handles \ {h} |-> handles[x]]
  /\ result' = Nothing /\ UNCHANGED <<group, updates, landing, scratch, saved>>
-----------------------------------------------------------------------------
(* Push flow: count own tokens; gather the counts of all ranks now if their layout *)
(* is wanted now.  The maps of the update before are gone.                          *)
PushCounted(hd, u, now) ==
  [hd EXCEPT !.row = u, !.snap = u, !.lerm = 0, !.s2d = 0, !.built = FALSE, !.fused = ~now,
             !.cnt = IF now THEN u ELSE 0, !.cached = IF now THEN u ELSE @]

(* Pull flow: the same, and nothing is cleared. *)
PullCounted(hd, u, now) ==
  [hd EXCEPT !.row = u, !.snap = u, !.built = FALSE, !.fused = ~now,
             !.cnt = IF now THEN u ELSE @, !.cached = IF now THEN u ELSE @]

(* A FLAT handle that can also count keeps a count for a handle imported from its memory. *)
Staged(g, l) == l = Flat /\ ~g.eager /\ ~ForceUnfused(g) /\ PullCount(g, l)

(* Scan: all maps are built. *)
Scanned(g, hd, u) ==
  [hd EXCEPT !.snap = u, !.lerm = u, !.em = u, !.cnt = u, !.s2d = u, !.row = IF Staged(g, hd.layout) THEN u ELSE @]

Updated(g, hd, u, info) ==
  LET l == hd.layout
      fused == IF l = Flat THEN ~info /\ ~ForceUnfused(g) ELSE hd.fused
      next == [hd EXCEPT !.set = u, !.fused = fused]
  IN IF PushCount(g, l) THEN PushCounted(next, u, info \/ g.eager \/ ForceUnfused(g))
     ELSE IF PullCountActive(g, l, fused) THEN PullCounted(next, u, info)
     ELSE Scanned(g, next, u)

UpdateHandle(h, info) ==
  /\ h \in DOMAIN handles /\ updates < MaxUpdates
  /\ updates' = updates + 1
  /\ IF group.policy = "require fused" /\ info
     THEN UNCHANGED handles /\ Returned("update", handles[h], FALSE, {}, {})
     ELSE LET hd == Updated(group, handles[h], updates + 1, info)
          IN handles' = With(h, hd) /\ Returned("update", hd, TRUE, {}, {})
  /\ UNCHANGED <<group, landing, scratch, saved>>
-----------------------------------------------------------------------------
(* Which flow a dispatch takes; only a forward one builds maps. *)
PushBuilds(g, hd) == PushCount(g, hd.layout)
PullBuilds(g, hd) == PullCountActive(g, hd.layout, hd.fused)
Counts(hd) == IF hd.fused THEN hd.row ELSE hd.cached

(* Faulty variant: only FLAT handles are marked. *)
ForwardedUnmarked(g, hd) ==
  LET done == [hd EXCEPT !.forwarded = hd.set]
      u == Counts(hd)
      marked == IF hd.layout = Flat THEN TRUE ELSE hd.built
  IN IF PushBuilds(g, hd) THEN [done EXCEPT !.s2d = u, !.cnt = u, !.em = u, !.lerm = u, !.built = marked]
     ELSE IF PullBuilds(g, hd) THEN [done EXCEPT !.em = u, !.cnt = u, !.s2d = u, !.built = marked]
     ELSE done

(* Peers push their rows into the landing zone, which is then copied to the handle. *)
Forwarded(g, hd) ==
  LET done == [hd EXCEPT !.forwarded = hd.set]
      u == Counts(hd)
  IN IF PushBuilds(g, hd) THEN [done EXCEPT !.s2d = u, !.cnt = u, !.em = u, !.lerm = u, !.built = TRUE]
     ELSE IF PullBuilds(g, hd)
     THEN [done EXCEPT !.em = u, !.cnt = u,
                       !.s2d = IF hd.layout = Flat THEN u ELSE @,
                       !.built = IF hd.layout = Flat THEN TRUE ELSE @]
     ELSE done

Maps(g, hd) ==
  {hd.cnt} \cup (IF Pull(g, hd.layout) THEN {} ELSE {hd.s2d})
    \cup (IF EmPermute(g, hd.layout) \/ Pull(g, hd.layout) THEN {hd.em} ELSE {})

(* Rows that are copied to the caller by the copy engine are counted by the host: ahead *)
(* of the kernel, or behind it when the kernel makes the count.                         *)
Copies(g, hd) == ~g.zero_copy /\ ~EmPermute(g, hd.layout) /\ ~Pull(g, hd.layout)
CountedInKernel(g, hd) == PushBuilds(g, hd) /\ hd.fused
(* Faulty variant: the host always counts ahead. *)
RowsCopiedEarly(g, hd) == IF Copies(g, hd) THEN {hd.cnt} ELSE {}

RowsCopied(g, hd) ==
  IF ~Copies(g, hd) THEN {}
  ELSE IF CountedInKernel(g, hd) THEN {Forwarded(g, hd).cnt} ELSE {hd.cnt}

Forward(h) ==
  /\ h \in DOMAIN handles
  /\ LET hd == handles[h]
         reads == (IF PushBuilds(group, hd) \/ PullBuilds(group, hd) THEN {Counts(hd), hd.snap} ELSE {hd.snap})
                    \cup Maps(group, Forwarded(group, hd))
     IN IF hd.set = 0
        THEN UNCHANGED <<handles, landing>> /\ Returned("dispatch", hd, FALSE, {}, {})
        ELSE /\ handles' = With(h, Forwarded(group, hd))
             /\ landing' = IF PushBuilds(group, hd) THEN Counts(hd) ELSE landing
             /\ Returned("dispatch", hd, TRUE, reads, RowsCopied(group, hd))
  /\ UNCHANGED <<group, updates, scratch, saved>>

(* A handle whose maps are made by the forward dispatch refuses to do without it. *)
MapsMissing(g, hd) ==
  /\ FlatMapsDeferred(g, hd.layout, hd.fused) \/ PushCount(g, hd.layout)
  /\ ~hd.built

(* The header: an imported handle was copied after a forward dispatch if it is to be *)
(* used for anything else.                                                            *)
MayUse(hd) ==
  hd.forwarded # hd.set => /\ ~hd.imported
                           /\ ForwardFirst => ~(Pull(group, hd.layout) /\ hd.layout = Major)

Backward(h) ==
  /\ h \in DOMAIN handles /\ MayUse(handles[h])
  /\ LET hd == handles[h]
         rejected == hd.set = 0 \/ MapsMissing(group, hd)
     IN Returned("backward", hd, ~rejected, IF rejected THEN {} ELSE Maps(group, hd), {})
  /\ UNCHANGED <<group, handles, updates, landing, scratch, saved>>

(* Faulty variant: the routing rows are read where peers pushed them. *)
CombineReadsLanding(g, hd) ==
  Maps(g, hd) \cup {hd.snap} \cup (IF PushCount(g, hd.layout) THEN {landing} ELSE {})

CombineReads(g, hd) ==
  Maps(g, hd) \cup {hd.snap}
    \cup (IF Pull(g, hd.layout) THEN (IF hd.layout = Flat /\ g.drop THEN {hd.s2d} ELSE {}) ELSE {hd.lerm})

Combine(h) ==
  /\ h \in DOMAIN handles /\ handles[h].set # 0 /\ MayUse(handles[h])
  /\ LET hd == handles[h]
         rejected == MapsMissing(group, hd)
     IN Returned("combine", hd, ~rejected, IF rejected THEN {} ELSE CombineReads(group, hd), {})
  /\ UNCHANGED <<group, handles, updates, landing, scratch, saved>>
-----------------------------------------------------------------------------
(* A copy of the handle's memory, and a handle made from it: what the host knew of it *)
(* is gone, so the maps are taken as built.                                           *)
Snapshot(h) ==
  /\ h \in DOMAIN handles /\ handles[h].set # 0 /\ ~saved.taken
  /\ saved' = [taken |-> TRUE, size |-> HandleMemSize(group, handles[h].layout, handles[h].k), of |-> handles[h]]
  /\ result' = Nothing /\ UNCHANGED <<group, handles, updates, landing, scratch>>

Reborn(hd) == [hd EXCEPT !.fused = TRUE, !.built = TRUE, !.imported = TRUE]

ImportHandle(h) ==
  /\ h \notin DOMAIN handles /\ saved.taken
  /\ LET hd == saved.of IN
       /\ saved.size >= HandleMemSize(group, hd.layout, hd.k) /\ HandleAccepted(group, hd.layout, hd.k)
       /\ handles' = With(h, Reborn(hd))
       /\ scratch' = Ensured(scratch, ScanScratch(group, hd.layout))
  /\ result' = Nothing /\ UNCHANGED <<group, updates, landing, saved>>
-----------------------------------------------------------------------------
HandlesNext ==
  \E h \in HandleNames :
    \/ \E l \in Layouts, k \in Topks : InitHandle(h, l, k)
    \/ \E info \in BOOLEAN : UpdateHandle(h, info)
    \/ Forward(h) \/ Backward(h) \/ Combine(h)
    \/ Snapshot(h) \/ ImportHandle(h) \/ HandleDestroy(h)
-----------------------------------------------------------------------------
(* An operation that the library accepts reads only what was made from the last *)
(* update of its handle.                                                        *)
ReadsOwn == result.accepted => result.reads \subseteq {result.of}

(* A backward dispatch or a combine that follows the forward dispatch of its update *)
(* is not refused.                                                                  *)
LegalAccepted ==
  result.op \in {"backward", "combine"} /\ result.of # 0 /\ result.matched => result.accepted

(* The host copies as many rows as the current routing delivered. *)
RowsDelivered == result.rows \subseteq {result.of}

(* Whatever handles a group has, its storage covers their kernels. *)
StorageCovers ==
  \A h \in DOMAIN handles :
    LET l == handles[h].layout k == handles[h].k
    IN Covers(group, l, k) /\ ScratchFits(scratch, ScanScratch(group, l))
=============================================================================
