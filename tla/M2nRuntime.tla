------------------------------ MODULE M2nRuntime ------------------------------
(***************************************************************************)
(* The nccl_m2n library lifecycle (src/nccl_m2n/src/m2n_init.cc): explicit *)
(* handles and the default handle share one process-wide runtime per       *)
(* init/finalize epoch; the release of the last handle state tears the     *)
(* runtime and the process-global caches down.                             *)
(*                                                                         *)
(* Two locks order the calls of the host threads.  The API lock            *)
(* (gM2nApiMutex) is held for a whole public call except in the windows    *)
(* M2nApiUnlock opens around blocking collectives; gM2nRuntimeMutex is     *)
(* held while a handle attaches to the runtime and while a handle state is *)
(* deleted, teardown included.  The default-handle and handle-table        *)
(* mutexes are only ever taken under the API lock and are left out.        *)
(*                                                                         *)
(* The callers keep the contract of nccl_m2n.h:259-260: a finalization     *)
(* does not race a reshard call on its handle or on the default handle.    *)
(***************************************************************************)
EXTENDS HostThreads, FiniteSets

CONSTANTS
  Configs,       \* configurations an explicit Init may ask for
  DefaultConfig, \* NCCL_M2N_CONFIG_INITIALIZER
  MaxTokens,     \* bound: explicit handles ever created (gNextM2nHandleId)
  MaxCalls,      \* bound: public calls each thread makes
  None           \* no handle, no configuration

Default == 0                       \* the internal default handle (NULL token)
Tokens  == 1 .. MaxTokens          \* explicit handles, monotonic and never reused
Handles == {Default} \cup Tokens

ASSUME RuntimeAssumption ==
  /\ IsFiniteSet(Threads) /\ Free \notin Threads
  /\ DefaultConfig \in Configs /\ None \notin Configs \cup Handles
  /\ MaxTokens \in Nat /\ MaxCalls \in Nat

VARIABLES
  runtimeLock, \* holder of gM2nRuntimeMutex
  call,        \* the call: its operation and handle
  calls,       \* calls each thread has made
  own,         \* the handle state a call's own shared_ptr keeps alive
  table,       \* gM2nHandleTable and gM2nDefaultHandle: handles that resolve
  nextId,      \* gNextM2nHandleId
  runtime,     \* gM2nRuntime: absent, alive, or in its destructor
  epoch,       \* ghost: runtimes created so far
  config,      \* the reshard configuration in force
  cached,      \* ghost: the epoch whose resources fill the global caches, 0 if empty
  quarantine   \* gReshardResourceQuarantineRequired

lockVars == <<apiLock, runtimeLock>>
callVars == <<inFlight, pc, call, calls>>
handleVars == <<own, table, nextId>>
epochVars == <<runtime, epoch, config, cached, quarantine>>
vars == <<lockVars, callVars, handleVars, epochVars>>

InCall == {t \in Threads : pc[t] \notin {"idle", "calling"}}

NoCall == [op |-> "Init", handle |-> None]

(* Handle states some shared_ptr still refers to. *)
Owned == {own[t] : t \in Threads} \ {None}
Live  == table \cup Owned

-----------------------------------------------------------------------------
Init ==
  /\ apiLock = Free /\ runtimeLock = Free
  /\ inFlight = 0
  /\ pc = [t \in Threads |-> "idle"]
  /\ call = [t \in Threads |-> NoCall]
  /\ calls = [t \in Threads |-> 0]
  /\ own = [t \in Threads |-> None]
  /\ table = {} /\ nextId = 1
  /\ runtime = "none" /\ epoch = 0 /\ config = None
  /\ cached = 0 /\ quarantine = FALSE

-----------------------------------------------------------------------------
(* Calls and the API lock (m2n_init.cc:196-217) *)

Busy(op, h) == \E t \in Threads : pc[t] # "idle" /\ call[t].op = op /\ call[t].handle = h

(* The callers' part of the contract. *)
MayCall(op, h) ==
  CASE op = "Init"     -> TRUE
    [] op = "Finalize" -> ~Busy("Reshard", h) /\ ~Busy("Reshard", Default)
    [] op = "Reshard"  -> /\ ~Busy("Finalize", h)
                          /\ h = Default => \A g \in Handles : ~Busy("Finalize", g)

Call(t, op, h) ==
  /\ pc[t] = "idle" /\ calls[t] < MaxCalls
  /\ MayCall(op, h)
  /\ calls' = [calls EXCEPT ![t] = @ + 1]
  /\ call' = [call EXCEPT ![t] = [op |-> op, handle |-> h]]
  /\ Goto(t, "calling")
  /\ UNCHANGED <<lockVars, inFlight, handleVars, epochVars>>

Enter(t) ==
  /\ pc[t] = "calling" /\ apiLock = Free
  /\ apiLock' = t
  /\ inFlight' = inFlight + 1
  /\ Goto(t, "entered")
  /\ UNCHANGED <<runtimeLock, call, calls, handleVars, epochVars>>

Leave(t) ==
  /\ pc[t] = "leave" /\ apiLock = t
  /\ apiLock' = Free
  /\ inFlight' = inFlight - 1
  /\ call' = [call EXCEPT ![t] = NoCall]
  /\ Goto(t, "idle")
  /\ UNCHANGED <<runtimeLock, calls, handleVars, epochVars>>

-----------------------------------------------------------------------------
(* attachRuntime: the first handle of an epoch creates and configures the     *)
(* runtime; a later one only shares it.  Blocks on gM2nRuntimeMutex with the  *)
(* API lock held.                                                             *)

(* Faulty variants: attach without gM2nRuntimeMutex; reconfigure on every attach. *)
AttachUnlocked(c) ==
  IF runtime = "alive"
    THEN UNCHANGED epochVars
    ELSE /\ runtime' = "alive" /\ epoch' = epoch + 1
         /\ config' = c /\ quarantine' = FALSE /\ UNCHANGED cached

AttachReconfigures(c) ==
  /\ runtimeLock = Free
  /\ runtime' = "alive" /\ config' = c
  /\ IF runtime = "alive"
       THEN UNCHANGED <<epoch, quarantine, cached>>
       ELSE epoch' = epoch + 1 /\ quarantine' = FALSE /\ UNCHANGED cached

AttachRuntime(c) ==
  /\ runtimeLock = Free
  /\ IF runtime = "alive"
       THEN UNCHANGED epochVars
       ELSE /\ runtime' = "alive" /\ epoch' = epoch + 1
            /\ config' = c /\ quarantine' = FALSE /\ UNCHANGED cached

(* ncclM2nInit: a bad argument or configuration fails first ... *)
InitRejected(t) ==
  /\ pc[t] = "entered" /\ call[t].op = "Init"
  /\ Goto(t, "leave")
  /\ UNCHANGED <<lockVars, inFlight, call, calls, handleVars, epochVars>>

(* ... then the new handle attaches and registers.  Registration can still    *)
(* fail; the new state is released then, with the runtime it may have created.*)
InitHandle(t, c) ==
  /\ pc[t] = "entered" /\ call[t].op = "Init" /\ nextId <= MaxTokens
  /\ AttachRuntime(c)
  /\ nextId' = nextId + 1
  /\ \/ table' = table \cup {nextId} /\ UNCHANGED own /\ Goto(t, "leave")
     \/ own' = [own EXCEPT ![t] = nextId] /\ UNCHANGED table /\ Goto(t, "release")
  /\ UNCHANGED <<lockVars, inFlight, call, calls>>

-----------------------------------------------------------------------------
(* acquireM2nHandle and the reshard call that uses the handle *)

(* An explicit handle that does not resolve fails the call. *)
ReshardRejected(t) ==
  /\ pc[t] = "entered" /\ call[t].op = "Reshard"
  /\ call[t].handle \notin table \cup {Default}
  /\ Goto(t, "leave")
  /\ UNCHANGED <<lockVars, inFlight, call, calls, handleVars, epochVars>>

(* The handle resolves; the default handle is created on first use. *)
ReshardAcquire(t) ==
  LET h == call[t].handle IN
  /\ pc[t] = "entered" /\ call[t].op = "Reshard" /\ h \in table \cup {Default}
  /\ IF h \in table
       THEN UNCHANGED <<table, epochVars>>
       ELSE AttachRuntime(DefaultConfig) /\ table' = table \cup {Default}
  /\ own' = [own EXCEPT ![t] = h]
  /\ Goto(t, "using")
  /\ UNCHANGED <<lockVars, inFlight, call, calls, nextId>>

(* The call fills the global caches of its epoch; device work it cannot fence *)
(* raises the quarantine.                                                     *)
ReshardUse(t) ==
  /\ pc[t] \in {"using", "used"} /\ apiLock = t
  /\ cached' = epoch
  /\ quarantine' \in {quarantine, TRUE}
  /\ UNCHANGED <<lockVars, callVars, handleVars, runtime, epoch, config>>

(* The windows of a call (the communicator's readiness is awaited in the      *)
(* first one); they are merged into one.                                      *)
ReshardOpenWindow(t) ==
  /\ pc[t] = "using" /\ apiLock = t
  /\ apiLock' = Free
  /\ Goto(t, "outside")
  /\ UNCHANGED <<runtimeLock, inFlight, call, calls, handleVars, epochVars>>

ReshardCloseWindow(t) ==
  /\ pc[t] = "outside" /\ apiLock = Free
  /\ apiLock' = t
  /\ Goto(t, "used")
  /\ UNCHANGED <<runtimeLock, inFlight, call, calls, handleVars, epochVars>>

ReshardDone(t) ==
  /\ pc[t] = "used"
  /\ Goto(t, "release")
  /\ UNCHANGED <<lockVars, inFlight, call, calls, handleVars, epochVars>>

-----------------------------------------------------------------------------
(* ncclM2nFinalize and deleteHandleState *)

(* Finalizing a default handle that does not exist succeeds; an unknown token *)
(* is an error.  Either way nothing is released.                              *)
FinalizeUnknown(t) ==
  /\ pc[t] = "entered" /\ call[t].op = "Finalize" /\ call[t].handle \notin table
  /\ Goto(t, "leave")
  /\ UNCHANGED <<lockVars, inFlight, call, calls, handleVars, epochVars>>

FinalizeHandle(t) ==
  LET h == call[t].handle IN
  /\ pc[t] = "entered" /\ call[t].op = "Finalize" /\ h \in table
  /\ table' = table \ {h}
  /\ own' = [own EXCEPT ![t] = h]
  /\ Goto(t, "release")
  /\ UNCHANGED <<lockVars, inFlight, call, calls, nextId, epochVars>>

LastReference(t) == own[t] \notin table \cup {own[u] : u \in Threads \ {t}}

(* A shared_ptr goes out of scope while others keep the state alive. *)
Unreference(t) ==
  /\ pc[t] = "release" /\ ~LastReference(t)
  /\ own' = [own EXCEPT ![t] = None]
  /\ Goto(t, "leave")
  /\ UNCHANGED <<lockVars, inFlight, call, calls, table, nextId, epochVars>>

(* deleteHandleState of a state that is not the last one. *)
DeleteState(t) ==
  /\ pc[t] = "release" /\ LastReference(t) /\ runtimeLock = Free
  /\ Live # {own[t]}
  /\ own' = [own EXCEPT ![t] = None]
  /\ Goto(t, "leave")
  /\ UNCHANGED <<lockVars, inFlight, call, calls, table, nextId, epochVars>>

(* The last state: the runtime's destructor starts, gM2nRuntimeMutex held to  *)
(* its end.  A cached event that cannot be synchronized raises the quarantine.*)
BeginTeardown(t) ==
  /\ pc[t] = "release" /\ LastReference(t) /\ runtimeLock = Free
  /\ Live = {own[t]}
  /\ runtimeLock' = t
  /\ own' = [own EXCEPT ![t] = None]
  /\ runtime' = "teardown"
  /\ quarantine' \in {quarantine, TRUE}
  /\ Goto(t, "teardown")
  /\ UNCHANGED <<apiLock, inFlight, call, calls, table, nextId, epoch, config, cached>>

(* cacheFinalize and reshardSplitCommFinalize release windows, DevComms and   *)
(* communicators with the API lock dropped, unless the resources are retained.*)
(* Between two of these windows only the finalizer runs: one stands for all.  *)
TeardownOpenWindow(t) ==
  /\ pc[t] = "teardown" /\ ~quarantine
  /\ apiLock' = Free
  /\ Goto(t, "window")
  /\ UNCHANGED <<runtimeLock, inFlight, call, calls, handleVars, epochVars>>

TeardownCloseWindow(t) ==
  /\ pc[t] = "window" /\ apiLock = Free
  /\ apiLock' = t
  /\ Goto(t, "drained")
  /\ UNCHANGED <<runtimeLock, inFlight, call, calls, handleVars, epochVars>>

(* Faulty variants: gM2nRuntimeMutex stays held; the caches survive a          *)
(* quarantined teardown.                                                      *)
EndTeardownKeepsLock(t) ==
  /\ pc[t] = "drained" \/ (pc[t] = "teardown" /\ quarantine)
  /\ runtime' = "none" /\ cached' = 0 /\ config' = None
  /\ Goto(t, "leave")
  /\ UNCHANGED <<lockVars, inFlight, call, calls, handleVars, epoch, quarantine>>

EndTeardownKeepsCaches(t) ==
  /\ pc[t] = "drained" \/ (pc[t] = "teardown" /\ quarantine)
  /\ runtime' = "none" /\ cached' = IF quarantine THEN cached ELSE 0
  /\ config' = None
  /\ runtimeLock' = Free
  /\ Goto(t, "leave")
  /\ UNCHANGED <<apiLock, inFlight, call, calls, handleVars, epoch, quarantine>>

EndTeardown(t) ==
  /\ pc[t] = "drained" \/ (pc[t] = "teardown" /\ quarantine)
  /\ runtime' = "none" /\ cached' = 0 /\ config' = None
  /\ runtimeLock' = Free
  /\ Goto(t, "leave")
  /\ UNCHANGED <<apiLock, inFlight, call, calls, handleVars, epoch, quarantine>>

-----------------------------------------------------------------------------
(* What a thread inside a call does next. *)
Progress(t) ==
  \/ Enter(t) \/ Leave(t)
  \/ InitRejected(t) \/ \E c \in Configs : InitHandle(t, c)
  \/ ReshardRejected(t) \/ ReshardAcquire(t)
  \/ ReshardOpenWindow(t) \/ ReshardCloseWindow(t) \/ ReshardDone(t)
  \/ FinalizeUnknown(t) \/ FinalizeHandle(t)
  \/ Unreference(t) \/ DeleteState(t) \/ BeginTeardown(t)
  \/ TeardownOpenWindow(t) \/ TeardownCloseWindow(t) \/ EndTeardown(t)

Next == \E t \in Threads :
  \/ Progress(t) \/ ReshardUse(t)
  \/ Call(t, "Init", None)
  \/ \E h \in Handles, op \in {"Finalize", "Reshard"} : Call(t, op, h)

(* A thread inside a call keeps running and blocked collectives complete.     *)
Fairness == \A t \in Threads : WF_vars(Progress(t))
Spec == Init /\ [][Next]_vars /\ Fairness

-----------------------------------------------------------------------------
(* Every variable keeps its type; the in-flight count never exceeds the calls *)
(* that can be in flight.                                                     *)
TypeOK ==
  /\ apiLock \in Threads \cup {Free} /\ runtimeLock \in Threads \cup {Free}
  /\ inFlight \in 0 .. Cardinality(Threads)
  /\ pc \in [Threads -> {"idle", "calling", "entered", "using", "outside", "used",
                        "release", "teardown", "window", "drained", "leave"}]
  /\ call \in [Threads -> [op : {"Init", "Finalize", "Reshard"}, handle : Handles \cup {None}]]
  /\ calls \in [Threads -> 0 .. MaxCalls]
  /\ own \in [Threads -> Handles \cup {None}]
  /\ table \subseteq Handles /\ nextId \in 1 .. MaxTokens + 1
  /\ runtime \in {"none", "alive", "teardown"}
  /\ epoch \in Nat /\ cached \in Nat
  /\ config \in Configs \cup {None} /\ quarantine \in BOOLEAN

(* While any handle resolves or any call owns one, the runtime it attached to *)
(* is alive: the teardown of an epoch never overlaps a handle of the next.    *)
HandleHasRuntime == Live # {} => runtime = "alive"

(* "A quarantine only outlives the epoch that raised it. The previous epoch's *)
(* caches are gone by now" (m2n_init.cc:101): resources in the global caches  *)
(* belong to the epoch of the runtime that is alive or being torn down.       *)
CachesOfThisEpoch == cached # 0 => cached = epoch /\ runtime # "none"

(* The settings of an epoch are those of its first handle: they never change  *)
(* while a handle of any kind is live (nccl_m2n.h:228-231).                   *)
ConfigFrozen == [][config' # config => Live = {}]_vars

(* A finalizer waits in ~M2nApiUnlock for the API lock, whose holder waits for *)
(* the gM2nRuntimeMutex the finalizer holds.                                   *)
LockCycle ==
  \E t, u \in Threads :
    /\ runtimeLock = t /\ pc[t] = "window"
    /\ apiLock = u /\ pc[u] = "entered"
    /\ call[u].op = "Init" \/ (call[u].op = "Reshard" /\ call[u].handle = Default)

(* Every public call returns, unless the host threads have met in that cycle: *)
(* it is the only way for a call to hang.                                     *)
OnlyHangIsLockCycle ==
  \A t \in Threads : (pc[t] # "idle") ~> (pc[t] = "idle" \/ LockCycle)

(* ncclM2nInit returns: a racing finalization delays it until the old epoch   *)
(* is torn down (m2n_init.cc:68-69) and the API lock, dropped around every    *)
(* blocking collective, deadlocks with nothing (reshard_internal.h:43-48).    *)
InitReturns ==
  \A t \in Threads : (pc[t] = "calling" /\ call[t].op = "Init") ~> (pc[t] = "idle")
=============================================================================
