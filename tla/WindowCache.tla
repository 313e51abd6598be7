----------------------------- MODULE WindowCache -----------------------------
(***************************************************************************)
(* The cache of library-registered NCCL windows of nccl_m2n                *)
(* (src/nccl_m2n/src/reshard_cache.cc:158-290, 513-565) as the reshard     *)
(* calls of several host threads drive it.                                 *)
(*                                                                         *)
(* A call looks its windows up under the API lock, registers the ones it   *)
(* misses with the lock dropped (registration is collective), and caches   *)
(* them.  A full cache replaces the entry at a rotating index.  The window *)
(* it replaces is deregistered on the spot, the lock dropped again, when   *)
(* no other call is in flight; otherwise it is retired, and deregistered   *)
(* when the caches are finalized.                                          *)
(*                                                                         *)
(* A key stands for the tuple (communicator, buffer, size, kind) of an     *)
(* entry.  Concurrent host calls on one communicator are unsupported       *)
(* (docs/release/RELEASE_NOTES_v0.2.md:45), so the keys of the calls in    *)
(* flight are disjoint.                                                    *)
(***************************************************************************)
EXTENDS HostThreads, FiniteSets, SequencesExt

CONSTANTS
  Keys,        \* what windows are cached under
  Calls,       \* the window keys a call asks for, in order
  Capacity,    \* MAX_WINDOW_CACHE_ENTRIES
  MaxWindows   \* bound: windows ever registered

ASSUME CacheAssumption ==
  /\ IsFiniteSet(Threads) /\ Free \notin Threads
  /\ Capacity \in Nat \ {0} /\ MaxWindows \in Nat
  /\ \A c \in Calls : c \in Seq(Keys) /\ c # <<>>

VARIABLES
  wants,      \* the keys of a thread's call
  got,        \* the windows its call has so far
  fresh,      \* the window it has registered and not cached yet
  victim,     \* the index its call is evicting (idx of cacheWindow)
  entries,    \* gInternalWindowCache.entries, as a sequence of count entries
  nextIdx,    \* gInternalWindowCache.nextIdx
  retired,    \* gRetiredWindowCacheEntries
  windows,    \* NCCL: for each window ever registered, its key
  registered, \* NCCL: the windows that are registered now
  raced       \* ghost: a call has entered while an eviction had the lock dropped

requestVars == <<inFlight, pc, wants, got, fresh, victim>>
cacheVars == <<entries, nextIdx, retired>>
ncclVars == <<windows, registered>>
windowVars == <<apiLock, requestVars, cacheVars, ncclVars, raced>>

NoWindow == 0
Windows == 1 .. MaxWindows
Slots == 0 .. Capacity - 1

Slot(i) == entries[i + 1]
Key(t) == wants[t][Len(got[t]) + 1]
Active == {t \in Threads : pc[t] # "idle"}
Evicting == {t \in Threads : pc[t] \in {"evict", "evicted"}}

(* The entry findCachedWindowByPtr returns for a key: the first that matches. *)
Matches(k) == {i \in DOMAIN entries : entries[i].key = k}
Found(k) == entries[Min(Matches(k))].window

-----------------------------------------------------------------------------
CacheInit ==
  /\ apiLock = Free /\ inFlight = 0
  /\ pc = [t \in Threads |-> "idle"]
  /\ wants = [t \in Threads |-> <<>>]
  /\ got = [t \in Threads |-> <<>>]
  /\ fresh = [t \in Threads |-> NoWindow]
  /\ victim = [t \in Threads |-> 0]
  /\ entries = <<>> /\ nextIdx = 0 /\ retired = {}
  /\ windows = <<>> /\ registered = {}
  /\ raced = FALSE

(* A public reshard call takes the API lock. *)
EnterCall(t, c) ==
  /\ pc[t] = "idle" /\ apiLock = Free
  /\ \A u \in Active : Range(c) \cap Range(wants[u]) = {}
  /\ apiLock' = t /\ inFlight' = inFlight + 1
  /\ wants' = [wants EXCEPT ![t] = c]
  /\ raced' = (raced \/ Evicting # {})
  /\ Goto(t, "lookup")
  /\ UNCHANGED <<got, fresh, victim, cacheVars, ncclVars>>

(* The call has its next window; after the last one it goes on to use them. *)
Obtain(t, w) ==
  /\ got' = [got EXCEPT ![t] = Append(@, w)]
  /\ Goto(t, IF Len(got[t]) + 1 = Len(wants[t]) THEN "use" ELSE "lookup")

Hit(t) ==
  /\ pc[t] = "lookup" /\ apiLock = t
  /\ Matches(Key(t)) # {}
  /\ Obtain(t, Found(Key(t)))
  /\ UNCHANGED <<apiLock, inFlight, wants, fresh, victim, cacheVars, ncclVars, raced>>

(* Faulty variant: the lock is kept while the call registers its window. *)
MissLocked(t) ==
  /\ pc[t] = "lookup" /\ apiLock = t
  /\ Matches(Key(t)) = {}
  /\ Goto(t, "registering")
  /\ UNCHANGED <<apiLock, inFlight, wants, got, fresh, victim, cacheVars, ncclVars, raced>>

(* A miss drops the lock around the collective registration. *)
Miss(t) ==
  /\ pc[t] = "lookup" /\ apiLock = t
  /\ Matches(Key(t)) = {}
  /\ apiLock' = Free
  /\ Goto(t, "registering")
  /\ UNCHANGED <<inFlight, wants, got, fresh, victim, cacheVars, ncclVars, raced>>

Register(t) ==
  /\ pc[t] = "registering" /\ apiLock = Free
  /\ Len(windows) < MaxWindows
  /\ windows' = Append(windows, Key(t))
  /\ registered' = registered \cup {Len(windows')}
  /\ fresh' = [fresh EXCEPT ![t] = Len(windows')]
  /\ apiLock' = t
  /\ Goto(t, "insert")
  /\ UNCHANGED <<inFlight, wants, got, victim, cacheVars, raced>>

(* Registration fails: the call returns its error. *)
RegisterFails(t) ==
  /\ pc[t] = "registering" /\ apiLock = Free
  /\ apiLock' = t
  /\ Goto(t, "leave")
  /\ UNCHANGED <<inFlight, wants, got, fresh, victim, cacheVars, ncclVars, raced>>

-----------------------------------------------------------------------------
(* cacheWindow *)

Full == Len(entries) >= Capacity
NewEntry(t) == [key |-> Key(t), window |-> fresh[t]]

Inserted(t) ==
  /\ Obtain(t, fresh[t])
  /\ fresh' = [fresh EXCEPT ![t] = NoWindow]
  /\ UNCHANGED <<inFlight, wants, victim, ncclVars, raced>>

InsertNew(t) ==
  /\ pc[t] = "insert" /\ apiLock = t /\ ~Full
  /\ entries' = Append(entries, NewEntry(t))
  /\ Inserted(t)
  /\ UNCHANGED <<apiLock, nextIdx, retired>>

(* The new entry takes slot i; the index moves on from where it is by now. *)
Replace(t, i) ==
  /\ entries' = [entries EXCEPT ![i + 1] = NewEntry(t)]
  /\ nextIdx' = (nextIdx + 1) % Capacity
  /\ Inserted(t)

(* Faulty variants: the calling thread itself is not counted; nothing defers. *)
DeferAboveTwo == inFlight > 2
NeverDefer == FALSE

(* m2nApiHasConcurrentCalls: a replaced window must not be torn down now. *)
Defer == inFlight > 1

(* Faulty variant: the replaced entry is overwritten and forgotten. *)
InsertForget(t) ==
  /\ pc[t] = "insert" /\ apiLock = t /\ Full /\ Defer
  /\ Replace(t, nextIdx)
  /\ UNCHANGED <<apiLock, retired>>

InsertRetire(t) ==
  /\ pc[t] = "insert" /\ apiLock = t /\ Full /\ Defer
  /\ retired' = retired \cup {Slot(nextIdx).window}
  /\ Replace(t, nextIdx)
  /\ UNCHANGED apiLock

(* No other call in flight: the lock is dropped for the deregistration, with *)
(* the entry still valid and the index where it was.                         *)
InsertEvict(t) ==
  /\ pc[t] = "insert" /\ apiLock = t /\ Full /\ ~Defer
  /\ apiLock' = Free
  /\ victim' = [victim EXCEPT ![t] = nextIdx]
  /\ Goto(t, "evict")
  /\ UNCHANGED <<inFlight, wants, got, fresh, cacheVars, ncclVars, raced>>

(* The deregistration reads its window from the entry, the lock not held. *)
Deregister(t) ==
  /\ pc[t] = "evict"
  /\ registered' = registered \ {Slot(victim[t]).window}
  /\ Goto(t, "evicted")
  /\ UNCHANGED <<apiLock, inFlight, wants, got, fresh, victim, cacheVars, windows, raced>>

EvictReturn(t) ==
  /\ pc[t] = "evicted" /\ apiLock = Free
  /\ apiLock' = t
  /\ Replace(t, victim[t])
  /\ UNCHANGED retired

-----------------------------------------------------------------------------
(* The call puts work on its windows, dropping the lock around collectives. *)
OpenWindow(t) ==
  /\ pc[t] = "use" /\ apiLock = t
  /\ apiLock' = Free
  /\ UNCHANGED <<requestVars, cacheVars, ncclVars, raced>>

CloseWindow(t) ==
  /\ pc[t] = "use" /\ apiLock = Free
  /\ apiLock' = t
  /\ Goto(t, "leave")
  /\ UNCHANGED <<inFlight, wants, got, fresh, victim, cacheVars, ncclVars, raced>>

LeaveCall(t) ==
  /\ pc[t] \in {"use", "leave"} /\ apiLock = t
  /\ apiLock' = Free /\ inFlight' = inFlight - 1
  /\ wants' = [wants EXCEPT ![t] = <<>>]
  /\ got' = [got EXCEPT ![t] = <<>>]
  /\ Goto(t, "idle")
  /\ UNCHANGED <<fresh, victim, cacheVars, ncclVars, raced>>

(* cacheFinalize of an epoch that is not quarantined.  No call is in flight: *)
(* a handle whose call is keeps the runtime alive.                           *)
Finalize ==
  /\ Active = {}
  /\ registered' = registered \ (retired \cup {entries[i].window : i \in DOMAIN entries})
  /\ entries' = <<>> /\ nextIdx' = 0 /\ retired' = {}
  /\ UNCHANGED <<apiLock, requestVars, windows, raced>>

CallProgress(t) ==
  \/ Hit(t) \/ Miss(t) \/ Register(t) \/ RegisterFails(t)
  \/ InsertNew(t) \/ InsertRetire(t) \/ InsertEvict(t) \/ Deregister(t) \/ EvictReturn(t)
  \/ CloseWindow(t) \/ LeaveCall(t)

CacheNext ==
  \/ \E t \in Threads : \/ \E c \in Calls : EnterCall(t, c)
                         \/ CallProgress(t) \/ OpenWindow(t)
  \/ Finalize

(* A call in flight goes on: the lock is handed to each thread that waits for *)
(* it, and a collective ends, successfully or not.                            *)
CacheSpec ==
  /\ CacheInit /\ [][CacheNext]_windowVars
  /\ \A t \in Threads : SF_windowVars(CallProgress(t))

-----------------------------------------------------------------------------
Cached == {entries[i].window : i \in DOMAIN entries}
Fresh == {fresh[t] : t \in Threads} \ {NoWindow}
Victims == {Slot(victim[t]).window : t \in {u \in Threads : pc[u] = "evicted"}}

(* Unless a call has entered while an eviction had the API lock dropped,       *)
(* every window NCCL has registered is the responsibility of exactly one       *)
(* place: an entry of the cache, the retired list, or the call that registered *)
(* it.  A window in none of them leaks, one in two is deregistered twice.      *)
WindowsAccounted ==
  ~raced =>
    /\ registered = ((Cached \ Victims) \cup retired \cup Fresh)
    /\ Cached \cap retired = {} /\ Fresh \cap (Cached \cup retired) = {}

(* A window a call has been given stays registered until the call is over. *)
UsedWindowRegistered == \A t \in Threads : Range(got[t]) \subseteq registered

(* The same, as long as no call has entered during an eviction. *)
UsedUnlessRaced == ~raced => UsedWindowRegistered

(* A call that starts to evict an entry never takes a window that another    *)
(* call in flight has been given: such a window is retired instead.          *)
EvictionSparesUsers ==
  [][\A t, u \in Threads : /\ pc[t] # "evict" /\ pc'[t] = "evict" /\ u # t
       => Slot(nextIdx).window \notin Range(got[u])]_windowVars

(* Every call returns. *)
CallsEnd == \A t \in Threads : pc[t] # "idle" ~> pc[t] = "idle"

=============================================================================
