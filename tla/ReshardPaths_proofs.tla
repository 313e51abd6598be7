------------------------- MODULE ReshardPaths_proofs -------------------------
(***************************************************************************)
(* What M2nCalls_proofs shows of the calls and SplitComms_proofs of the    *)
(* split communicators, carried over to the checked specification: its     *)
(* steps on the path "calls" are steps of M2nCalls, those on "split" are   *)
(* steps of SplitComms, and no path becomes another.                       *)
(*                                                                         *)
(* Api and Calls are instances of one module, and so are Splitting and     *)
(* Comms; the provers see two copies of each definition, so that a step's  *)
(* lemma expands both.                                                     *)
(***************************************************************************)
EXTENDS ReshardPaths, TLAPS

Calls == INSTANCE M2nCalls_proofs
Comms == INSTANCE SplitComms_proofs

CallsInv == path = "calls" => Calls!IInv /\ Calls!OInv /\ Calls!Reports

-----------------------------------------------------------------------------
LEMMA SameAssumption == Calls!CallsAssumption
BY Zenon, PathsAssumption
   DEF Api!CallsAssumption, Calls!CallsAssumption

LEMMA SameInit ==
  ASSUME Api!CallsInit
  PROVE  Calls!CallsInit
BY Zenon
   DEF Api!CallerStream, Calls!CallerStream, Api!CallsInit, Calls!CallsInit, Api!Comms,
       Calls!Comms, Api!Entries, Calls!Entries, Api!FreeSlot, Calls!FreeSlot, Api!NoBuffer,
       Calls!NoBuffer, Api!NoCall, Calls!NoCall, Api!NoGroup, Calls!NoGroup, Api!NoPlan,
       Calls!NoPlan, Api!NotRunning, Calls!NotRunning, Api!Nothing, Calls!Nothing,
       Api!Outcome, Calls!Outcome, Api!Range, Calls!Range, Api!Slots, Calls!Slots, Api!Stream,
       Calls!Stream, Api!Streams, Calls!Streams

(* The group API. *)
LEMMA SameGroups ==
  ASSUME NEW t
  PROVE  /\ Api!GroupStart(t) => Calls!GroupStart(t)
         /\ Api!Enqueue(t) => Calls!Enqueue(t)
         /\ Api!GroupAbort(t) => Calls!GroupAbort(t)
         /\ Api!GroupEnd(t) => Calls!GroupEnd(t)
<1>1. Api!GroupStart(t) => Calls!GroupStart(t)
  BY Zenon
     DEF Api!Advance, Calls!Advance, Api!GroupStart, Calls!GroupStart, Api!Step, Calls!Step,
         Api!Steps, Calls!Steps, Api!cacheVars, Calls!cacheVars, Api!choices, Calls!choices,
         Api!streamVars, Calls!streamVars
<1>2. Api!Enqueue(t) => Calls!Enqueue(t)
  BY Zenon
     DEF Api!Advance, Calls!Advance, Api!Enqueue, Calls!Enqueue, Api!Step, Calls!Step,
         Api!Steps, Calls!Steps, Api!cacheVars, Calls!cacheVars, Api!choices, Calls!choices,
         Api!streamVars, Calls!streamVars
<1>3. Api!GroupAbort(t) => Calls!GroupAbort(t)
  BY Zenon
     DEF Api!Advance, Calls!Advance, Api!GroupAbort, Calls!GroupAbort, Api!NoGroup,
         Calls!NoGroup, Api!Step, Calls!Step, Api!Steps, Calls!Steps, Api!cacheVars,
         Calls!cacheVars, Api!choices, Calls!choices, Api!streamVars, Calls!streamVars
<1>4. Api!GroupEnd(t) => Calls!GroupEnd(t)
  BY Zenon
     DEF Api!Advance, Calls!Advance, Api!AllUnits, Calls!AllUnits, Api!Bin, Calls!Bin, Api!Bins,
         Calls!Bins, Api!Buckets, Calls!Buckets, Api!Cardinality, Calls!Cardinality,
         Api!Context, Calls!Context, Api!Filed, Calls!Filed, Api!Flawed, Calls!Flawed,
         Api!Fuses, Calls!Fuses, Api!GroupEnd, Calls!GroupEnd, Api!Min, Calls!Min, Api!NoGroup,
         Calls!NoGroup, Api!Outcome, Calls!Outcome, Api!Range, Calls!Range, Api!Refused,
         Calls!Refused, Api!Step, Calls!Step, Api!Steps, Calls!Steps, Api!Stream, Calls!Stream,
         Api!Units, Calls!Units, Api!cacheVars, Calls!cacheVars, Api!choices, Calls!choices,
         Api!streamVars, Calls!streamVars
<1> QED BY <1>1, <1>2, <1>3, <1>4

(* The buffer, the windows and the plan. *)
LEMMA SameResources ==
  ASSUME NEW t
  PROVE  /\ Api!Begin(t) => Calls!Begin(t)
         /\ Api!TakeBuffer(t) => Calls!TakeBuffer(t)
         /\ Api!TakeWindow(t) => Calls!TakeWindow(t)
         /\ Api!OpenRegistration(t) => Calls!OpenRegistration(t)
         /\ Api!Register(t) => Calls!Register(t)
         /\ Api!RegisterFails(t) => Calls!RegisterFails(t)
         /\ Api!TakePlan(t) => Calls!TakePlan(t)
<1>1. Api!Begin(t) => Calls!Begin(t)
  BY Zenon
     DEF Api!Advance, Calls!Advance, Api!Begin, Calls!Begin, Api!CallerStream,
         Calls!CallerStream, Api!CommA, Calls!CommA, Api!CommB, Calls!CommB, Api!DevComm,
         Calls!DevComm, Api!Get, Calls!Get, Api!Goto, Calls!Goto, Api!Index, Calls!Index,
         Api!Issued, Calls!Issued, Api!Issues, Calls!Issues, Api!JoinWork, Calls!JoinWork,
         Api!Needs, Calls!Needs, Api!NoCall, Calls!NoCall, Api!NotRunning, Calls!NotRunning,
         Api!Nothing, Calls!Nothing, Api!Outcome, Calls!Outcome, Api!Pooled, Calls!Pooled,
         Api!Return, Calls!Return, Api!Splits, Calls!Splits, Api!Step, Calls!Step, Api!Stream,
         Calls!Stream, Api!UsesDevComm, Calls!UsesDevComm, Api!WorkStream, Calls!WorkStream,
         Api!cacheVars, Calls!cacheVars, Api!choices, Calls!choices
<1>2. Api!TakeBuffer(t) => Calls!TakeBuffer(t)
  BY Zenon
     DEF Api!BufferEvent, Calls!BufferEvent, Api!CallerStream, Calls!CallerStream, Api!Comm,
         Calls!Comm, Api!ControlSlot, Calls!ControlSlot, Api!Entry, Calls!Entry, Api!Goto,
         Calls!Goto, Api!Index, Calls!Index, Api!JoinCaller, Calls!JoinCaller, Api!Min,
         Calls!Min, Api!NoCall, Calls!NoCall, Api!NotRunning, Calls!NotRunning, Api!Nothing,
         Calls!Nothing, Api!Obtained, Calls!Obtained, Api!Outcome, Calls!Outcome, Api!Pooled,
         Calls!Pooled, Api!Release, Calls!Release, Api!Return, Calls!Return, Api!SelectInSeq,
         Calls!SelectInSeq, Api!Slots, Calls!Slots, Api!Stream, Calls!Stream, Api!TakeBuffer,
         Calls!TakeBuffer, Api!WaitFor, Calls!WaitFor, Api!Wants, Calls!Wants, Api!WorkStream,
         Calls!WorkStream, Api!choices, Calls!choices
<1>3. Api!TakeWindow(t) => Calls!TakeWindow(t)
  BY Zenon
     DEF Api!Key, Calls!Key, Api!Obtained, Calls!Obtained, Api!TakeWindow, Calls!TakeWindow,
         Api!Wants, Calls!Wants, Api!cacheVars, Calls!cacheVars, Api!choices, Calls!choices,
         Api!streamVars, Calls!streamVars
<1>4. Api!OpenRegistration(t) => Calls!OpenRegistration(t)
  BY Zenon
     DEF Api!Goto, Calls!Goto, Api!Key, Calls!Key, Api!OpenRegistration, Calls!OpenRegistration,
         Api!Wants, Calls!Wants, Api!cacheVars, Calls!cacheVars, Api!choices, Calls!choices,
         Api!streamVars, Calls!streamVars
<1>5. Api!Register(t) => Calls!Register(t)
  BY Zenon
     DEF Api!Goto, Calls!Goto, Api!Key, Calls!Key, Api!Obtained, Calls!Obtained, Api!Register,
         Calls!Register, Api!choices, Calls!choices, Api!streamVars, Calls!streamVars
<1>6. Api!RegisterFails(t) => Calls!RegisterFails(t)
  BY Zenon
     DEF Api!CallerStream, Calls!CallerStream, Api!Comm, Calls!Comm, Api!Fail, Calls!Fail,
         Api!Fault, Calls!Fault, Api!Goto, Calls!Goto, Api!Index, Calls!Index, Api!JoinCaller,
         Calls!JoinCaller, Api!MayFault, Calls!MayFault, Api!NoCall, Calls!NoCall,
         Api!NotRunning, Calls!NotRunning, Api!Nothing, Calls!Nothing, Api!Outcome,
         Calls!Outcome, Api!Pooled, Calls!Pooled, Api!RegisterFails, Calls!RegisterFails,
         Api!Release, Calls!Release, Api!Return, Calls!Return, Api!Slots, Calls!Slots,
         Api!Stream, Calls!Stream, Api!Work, Calls!Work, Api!WorkStream, Calls!WorkStream,
         Api!choices, Calls!choices
<1>7. Api!TakePlan(t) => Calls!TakePlan(t)
  BY Zenon
     DEF Api!Comm, Calls!Comm, Api!Entry, Calls!Entry, Api!Invalidate, Calls!Invalidate,
         Api!Obtained, Calls!Obtained, Api!TakePlan, Calls!TakePlan, Api!Wants, Calls!Wants,
         Api!choices, Calls!choices, Api!streamVars, Calls!streamVars
<1> QED BY <1>1, <1>2, <1>3, <1>4, <1>5, <1>6, <1>7

(* The DevComms. *)
LEMMA SameDevComms ==
  ASSUME NEW t
  PROVE  /\ Api!FindDevComm(t) => Calls!FindDevComm(t)
         /\ Api!OpenCreation(t) => Calls!OpenCreation(t)
         /\ Api!CapacityExhausted(t) => Calls!CapacityExhausted(t)
         /\ Api!Create(t) => Calls!Create(t)
         /\ Api!CreateFails(t) => Calls!CreateFails(t)
         /\ Api!LockUse(t) => Calls!LockUse(t)
         /\ Api!TakeDevComm(t) => Calls!TakeDevComm(t)
<1>1. Api!FindDevComm(t) => Calls!FindDevComm(t)
  BY Zenon
     DEF Api!FindDevComm, Calls!FindDevComm, Api!Goto, Calls!Goto, Api!Key, Calls!Key,
         Api!Matching, Calls!Matching, Api!Min, Calls!Min, Api!Pooled, Calls!Pooled, Api!Slots,
         Calls!Slots, Api!Wants, Calls!Wants, Api!cacheVars, Calls!cacheVars, Api!choices,
         Calls!choices, Api!streamVars, Calls!streamVars
<1>2. Api!OpenCreation(t) => Calls!OpenCreation(t)
  BY Zenon
     DEF Api!Goto, Calls!Goto, Api!Key, Calls!Key, Api!Matching, Calls!Matching, Api!Min,
         Calls!Min, Api!OpenCreation, Calls!OpenCreation, Api!Reserve, Calls!Reserve, Api!Slots,
         Calls!Slots, Api!Unused, Calls!Unused, Api!Wants, Calls!Wants, Api!choices,
         Calls!choices, Api!streamVars, Calls!streamVars
<1>3. Api!CapacityExhausted(t) => Calls!CapacityExhausted(t)
  BY Zenon
     DEF Api!CallerStream, Calls!CallerStream, Api!CapacityExhausted, Calls!CapacityExhausted,
         Api!Comm, Calls!Comm, Api!Fail, Calls!Fail, Api!Goto, Calls!Goto, Api!Index,
         Calls!Index, Api!JoinCaller, Calls!JoinCaller, Api!Key, Calls!Key, Api!Matching,
         Calls!Matching, Api!NoCall, Calls!NoCall, Api!NotRunning, Calls!NotRunning,
         Api!Nothing, Calls!Nothing, Api!Outcome, Calls!Outcome, Api!Pooled, Calls!Pooled,
         Api!Release, Calls!Release, Api!Return, Calls!Return, Api!Slots, Calls!Slots,
         Api!Stream, Calls!Stream, Api!Unused, Calls!Unused, Api!Wants, Calls!Wants, Api!Work,
         Calls!Work, Api!WorkStream, Calls!WorkStream, Api!choices, Calls!choices
<1>4. Api!Create(t) => Calls!Create(t)
  BY Zenon
     DEF Api!Create, Calls!Create, Api!FreeSlot, Calls!FreeSlot, Api!Goto, Calls!Goto, Api!Key,
         Calls!Key, Api!Matching, Calls!Matching, Api!Min, Calls!Min, Api!Mine, Calls!Mine,
         Api!Pooled, Calls!Pooled, Api!Slots, Calls!Slots, Api!choices, Calls!choices,
         Api!streamVars, Calls!streamVars
<1>5. Api!CreateFails(t) => Calls!CreateFails(t)
  BY Zenon
     DEF Api!CallerStream, Calls!CallerStream, Api!Comm, Calls!Comm, Api!CreateFails,
         Calls!CreateFails, Api!Fail, Calls!Fail, Api!Fault, Calls!Fault, Api!FreeSlot,
         Calls!FreeSlot, Api!Goto, Calls!Goto, Api!Index, Calls!Index, Api!JoinCaller,
         Calls!JoinCaller, Api!MayFault, Calls!MayFault, Api!Mine, Calls!Mine, Api!NoCall,
         Calls!NoCall, Api!NotRunning, Calls!NotRunning, Api!Nothing, Calls!Nothing,
         Api!Outcome, Calls!Outcome, Api!Pooled, Calls!Pooled, Api!Release, Calls!Release,
         Api!Return, Calls!Return, Api!Slots, Calls!Slots, Api!Stream, Calls!Stream,
         Api!Unreserved, Calls!Unreserved, Api!Work, Calls!Work, Api!WorkStream,
         Calls!WorkStream, Api!choices, Calls!choices
<1>6. Api!LockUse(t) => Calls!LockUse(t)
  BY Zenon
     DEF Api!Goto, Calls!Goto, Api!LockUse, Calls!LockUse, Api!choices, Calls!choices,
         Api!streamVars, Calls!streamVars
<1>7. Api!TakeDevComm(t) => Calls!TakeDevComm(t)
  BY Zenon
     DEF Api!CallerStream, Calls!CallerStream, Api!Comm, Calls!Comm, Api!DevCommEvent,
         Calls!DevCommEvent, Api!Fail, Calls!Fail, Api!Goto, Calls!Goto, Api!Index, Calls!Index,
         Api!JoinCaller, Calls!JoinCaller, Api!NoCall, Calls!NoCall, Api!NotRunning,
         Calls!NotRunning, Api!Nothing, Calls!Nothing, Api!Obtained, Calls!Obtained,
         Api!Outcome, Calls!Outcome, Api!Pooled, Calls!Pooled, Api!Release, Calls!Release,
         Api!Return, Calls!Return, Api!Slots, Calls!Slots, Api!Stream, Calls!Stream,
         Api!TakeDevComm, Calls!TakeDevComm, Api!WaitFor, Calls!WaitFor, Api!Work, Calls!Work,
         Api!WorkStream, Calls!WorkStream, Api!choices, Calls!choices
<1> QED BY <1>1, <1>2, <1>3, <1>4, <1>5, <1>6, <1>7

(* The launch. *)
LEMMA SameLaunch ==
  ASSUME NEW t
  PROVE  /\ Api!Launch(t) => Calls!Launch(t)
         /\ Api!CloseHostRma(t) => Calls!CloseHostRma(t)
<1>1. Api!FaultsOf(t) = Calls!FaultsOf(t)
  <2>1. Api!Parts(t) = Calls!Parts(t)
    BY Zenon
       DEF Api!Comm, Calls!Comm, Api!Parts, Calls!Parts, Api!Splits, Calls!Splits
  <2> QED BY SMT, <2>1 DEF Api!FaultsOf, Calls!FaultsOf
<1>2. ASSUME NEW tails, NEW launched, NEW fault
      PROVE  Api!Enqueues(t, tails, launched, fault) => Calls!Enqueues(t, tails, launched, fault)
  BY Zenon
     DEF Api!CallerStream, Calls!CallerStream, Api!Comm, Calls!Comm, Api!Enqueues,
         Calls!Enqueues, Api!Entry, Calls!Entry, Api!Finalized, Calls!Finalized, Api!JoinCaller,
         Calls!JoinCaller, Api!Kernel, Calls!Kernel, Api!NoPlan, Calls!NoPlan, Api!Parts,
         Calls!Parts, Api!Poisoned, Calls!Poisoned, Api!Pooled, Calls!Pooled, Api!Range,
         Calls!Range, Api!Recorded, Calls!Recorded, Api!Slots, Calls!Slots, Api!Splits,
         Calls!Splits, Api!Stream, Calls!Stream, Api!Uploaded, Calls!Uploaded, Api!Work,
         Calls!Work, Api!WorkStream, Calls!WorkStream
<1>3. ASSUME NEW ok
      PROVE  Api!Return(t, ok) => Calls!Return(t, ok)
  BY Zenon
     DEF Api!Goto, Calls!Goto, Api!Index, Calls!Index, Api!NoCall, Calls!NoCall, Api!NotRunning,
         Calls!NotRunning, Api!Nothing, Calls!Nothing, Api!Outcome, Calls!Outcome, Api!Return,
         Calls!Return
<1>4. Api!Prepared(t) = Calls!Prepared(t) /\ Api!NoFault = Calls!NoFault
  BY Zenon
     DEF Api!CallerStream, Calls!CallerStream, Api!JoinWork, Calls!JoinWork, Api!LaneEvent,
         Calls!LaneEvent, Api!NoFault, Calls!NoFault, Api!Pooled, Calls!Pooled, Api!Prepared,
         Calls!Prepared, Api!Splits, Calls!Splits, Api!Stream, Calls!Stream, Api!WaitFor,
         Calls!WaitFor, Api!WorkStream, Calls!WorkStream
<1>5. Api!Launch(t) => Calls!Launch(t)
  BY Zenon, <1>1, <1>2, <1>3, <1>4
     DEF Api!Comm, Calls!Comm, Api!Fault, Calls!Fault, Api!LanePoisoned, Calls!LanePoisoned,
         Api!Launch, Calls!Launch, Api!MayFault, Calls!MayFault, Api!Ready, Calls!Ready,
         Api!Splits, Calls!Splits, Api!choices, Calls!choices
<1>6. Api!CloseHostRma(t) => Calls!CloseHostRma(t)
  BY Zenon, <1>1, <1>2, <1>3, <1>4
     DEF Api!CloseHostRma, Calls!CloseHostRma, Api!Fault, Calls!Fault, Api!MayFault,
         Calls!MayFault, Api!choices, Calls!choices
<1> QED BY <1>5, <1>6

(* The other ends of a call. *)
LEMMA SameEnds ==
  ASSUME NEW t
  PROVE  /\ Api!LaneUnavailable(t) => Calls!LaneUnavailable(t)
         /\ Api!OpenHostRma(t) => Calls!OpenHostRma(t)
         /\ Api!Pack(t) => Calls!Pack(t)
<1>1. Api!LaneUnavailable(t) => Calls!LaneUnavailable(t)
  BY Zenon
     DEF Api!CallerStream, Calls!CallerStream, Api!Comm, Calls!Comm, Api!Fail, Calls!Fail,
         Api!Goto, Calls!Goto, Api!Index, Calls!Index, Api!JoinCaller, Calls!JoinCaller,
         Api!LanePoisoned, Calls!LanePoisoned, Api!LaneUnavailable, Calls!LaneUnavailable,
         Api!NoCall, Calls!NoCall, Api!NotRunning, Calls!NotRunning, Api!Nothing, Calls!Nothing,
         Api!Outcome, Calls!Outcome, Api!Pooled, Calls!Pooled, Api!Ready, Calls!Ready,
         Api!Release, Calls!Release, Api!Return, Calls!Return, Api!Slots, Calls!Slots,
         Api!Splits, Calls!Splits, Api!Stream, Calls!Stream, Api!Work, Calls!Work,
         Api!WorkStream, Calls!WorkStream, Api!choices, Calls!choices
<1>2. Api!OpenHostRma(t) => Calls!OpenHostRma(t)
  BY Zenon
     DEF Api!CallerStream, Calls!CallerStream, Api!Comm, Calls!Comm, Api!Goto, Calls!Goto,
         Api!JoinWork, Calls!JoinWork, Api!LaneEvent, Calls!LaneEvent, Api!LanePoisoned,
         Calls!LanePoisoned, Api!OpenHostRma, Calls!OpenHostRma, Api!Pooled, Calls!Pooled,
         Api!Prepared, Calls!Prepared, Api!Ready, Calls!Ready, Api!Splits, Calls!Splits,
         Api!Stream, Calls!Stream, Api!WaitFor, Calls!WaitFor, Api!WorkStream, Calls!WorkStream,
         Api!cacheVars, Calls!cacheVars, Api!choices, Calls!choices
<1>3. Api!Pack(t) => Calls!Pack(t)
  BY Zenon
     DEF Api!CallerStream, Calls!CallerStream, Api!Fault, Calls!Fault, Api!Goto, Calls!Goto,
         Api!Index, Calls!Index, Api!JoinCaller, Calls!JoinCaller, Api!MayFault, Calls!MayFault,
         Api!NoCall, Calls!NoCall, Api!NotRunning, Calls!NotRunning, Api!Nothing, Calls!Nothing,
         Api!Outcome, Calls!Outcome, Api!Pack, Calls!Pack, Api!Pooled, Calls!Pooled, Api!Return,
         Calls!Return, Api!Stream, Calls!Stream, Api!WorkStream, Calls!WorkStream,
         Api!cacheVars, Calls!cacheVars, Api!choices, Calls!choices
<1> QED BY <1>1, <1>2, <1>3

-----------------------------------------------------------------------------
LEMMA InitCallsInv ==
  ASSUME PathInit
  PROVE  CallsInv
<1> SUFFICES ASSUME path = "calls" PROVE Calls!IInv /\ Calls!OInv /\ Calls!Reports
  BY DEF CallsInv
<1>1. Api!CallsInit
  BY DEF PathInit
<1>2. Calls!CallsInit
  BY <1>1, SameInit
<1>3. "free" \notin Threads
  BY SameAssumption DEF Calls!CallsAssumption
<1> QED BY <1>2, <1>3, SameAssumption, Calls!InitIInv, Calls!InitOInv, Calls!InitReports

LEMMA SameStep ==
  ASSUME NEW t, Api!CallStep(t)
  PROVE  Calls!CallStep(t)
BY SameGroups, SameResources, SameDevComms, SameLaunch, SameEnds DEF Api!CallStep, Calls!CallStep

LEMMA SameStutter ==
  ASSUME UNCHANGED pathVars
  PROVE  UNCHANGED Calls!callsVars
BY DEF pathVars, sharedVars, onlyCalls, Calls!callsVars, Calls!choices, Calls!threadVars, Calls!cacheVars,
       Calls!streamVars

LEMMA NextCallsInv ==
  ASSUME CallsInv, [PathNext]_pathVars
  PROVE  CallsInv'
<1> SUFFICES ASSUME path' = "calls" PROVE Calls!IInv' /\ Calls!OInv' /\ Calls!Reports'
  BY DEF CallsInv
<1>1. path = "calls" /\ Calls!IInv /\ Calls!OInv /\ Calls!Reports
  BY DEF CallsInv, PathNext, pathVars
<1>2. [Calls!CallsNext]_Calls!callsVars
  <2>1. CASE Api!CallsNext
    BY <2>1, SameStep DEF Api!CallsNext, Calls!CallsNext
  <2>2. CASE UNCHANGED pathVars
    BY <2>2, SameStutter
  <2> QED BY <1>1, <2>1, <2>2 DEF PathNext
<1>3. DevCommSlots \in Nat
  BY SameAssumption DEF Calls!CallsAssumption
<1> QED BY <1>1, <1>2, <1>3, SameAssumption, Calls!NextIInv, Calls!NextOInv, Calls!NextReports

(* What a call holds, wherever it stands, and what the kernels enqueued are  *)
(* behind: for any threads, scripts of calls and groups, communicators,      *)
(* DevComm and control slot capacities, and failures.                        *)
THEOREM CallsInvariant == PathSpec => []CallsInv
<1>1. PathInit => CallsInv
  BY InitCallsInv
<1>2. CallsInv /\ [PathNext]_pathVars => CallsInv'
  BY NextCallsInv
<1> QED BY <1>1, <1>2, PTL DEF PathSpec

(* No error return, at whatever step of whatever call, leaves the API lock, a *)
(* DevComm's mutex, a DevComm slot or a staging buffer taken, and a buffer is *)
(* never in the hands of two calls (reshard_cache.cc:421-437,                 *)
(* reshard_call_setup.cc:165).                                                *)
THEOREM HeldAlways == PathSpec => []HeldByCalls
<1>1. CallsInv => HeldByCalls
  <2> SUFFICES ASSUME path = "calls", Calls!IInv PROVE Api!HeldByCalls
    BY DEF CallsInv, HeldByCalls
  <2>1. Calls!HeldByCalls
    BY Calls!HeldFromIInv
  <2> QED BY Zenon, <2>1
             DEF Api!Calling, Calls!Calling, Api!Cardinality, Calls!Cardinality, Api!Comm, Calls!Comm,
                 Api!Comms, Calls!Comms, Api!Entries, Calls!Entries, Api!HeldByCalls, Calls!HeldByCalls,
                 Api!Slots, Calls!Slots
<1> QED BY <1>1, CallsInvariant, PTL

(* The kernels of the calls run one after the other on the staging buffer, the *)
(* DevComms and the commB lane they share, whatever streams and threads their  *)
(* calls came on and whichever of them failed, and each reads the plan of its  *)
(* own call's shape (reshard_cache.cc:421-437, reshard_internal.h:518-531,     *)
(* reshard_split_comm.cu:1247-1288).                                           *)
THEOREM OrderedAlways == PathSpec => []ResourcesOrdered
<1>1. CallsInv => ResourcesOrdered
  <2> SUFFICES ASSUME path = "calls", Calls!OInv
               PROVE  Api!BuffersOrdered /\ Api!DevCommsOrdered /\ Api!LanesOrdered /\ Api!PlanRight
    BY DEF CallsInv, ResourcesOrdered
  <2>1. Calls!BuffersOrdered /\ Calls!DevCommsOrdered /\ Calls!LanesOrdered /\ Calls!PlanRight
    BY Calls!OrdersFromOInv
  <2>2. Api!BuffersOrdered
    BY <2>1, Zenon DEF Api!BuffersOrdered, Calls!BuffersOrdered, Api!Ordered, Calls!Ordered
  <2>3. Api!DevCommsOrdered
    BY <2>1, Zenon DEF Api!DevCommsOrdered, Calls!DevCommsOrdered, Api!Ordered, Calls!Ordered,
                       Api!Pooled, Calls!Pooled
  <2>4. Api!LanesOrdered
    BY <2>1, Zenon DEF Api!LanesOrdered, Calls!LanesOrdered, Api!Ordered, Calls!Ordered
  <2>5. Api!PlanRight
    BY <2>1, Zenon DEF Api!PlanRight, Calls!PlanRight
  <2> QED BY <2>2, <2>3, <2>4, <2>5
<1> QED BY <1>1, CallsInvariant, PTL

(* A group issues its entries bucket by bucket in order of first appearance,  *)
(* and what it reports is what happened: of a group that ends well every      *)
(* entry was issued, once; of one that names an entry neither that one nor    *)
(* anything behind it, and all that came before (m2n_group.cc:188-217,        *)
(* 316-350).                                                                  *)
THEOREM ReportsExact == PathSpec => []GroupsExact
<1>1. CallsInv => GroupsExact
  <2> SUFFICES ASSUME path = "calls", Calls!Reports
               PROVE  Api!IssuedInOrder /\ Api!ErrorsExact
    BY DEF CallsInv, GroupsExact
  <2>1. Calls!IssuedInOrder /\ Calls!ErrorsExact
    BY Calls!ReportsGive
  <2>2. Api!IssuedInOrder
    BY <2>1, Zenon
       DEF Api!FirstOf, Calls!FirstOf, Api!Fused, Calls!Fused, Api!IssuedInOrder,
           Calls!IssuedInOrder, Api!Min, Calls!Min, Api!SameContext, Calls!SameContext
  <2>3. Api!ErrorsExact
    BY <2>1, Zenon
       DEF Api!Cardinality, Calls!Cardinality, Api!ErrorsExact, Calls!ErrorsExact, Api!FirstOf,
           Calls!FirstOf, Api!Fused, Calls!Fused, Api!Min, Calls!Min, Api!Range, Calls!Range,
           Api!SameContext, Calls!SameContext
  <2> QED BY <2>2, <2>3
<1> QED BY <1>1, CallsInvariant, PTL

-----------------------------------------------------------------------------
SplitInv == path = "split" => Comms!IInv /\ Comms!NInv

LEMMA SameSplitAssumption == Comms!SplitAssumption
BY Zenon, PathsAssumption
   DEF Splitting!Members, Comms!Members, Splitting!Range, Comms!Range,
       Splitting!SplitAssumption, Comms!SplitAssumption

LEMMA SameSplitInit ==
  ASSUME Splitting!SplitInit
  PROVE  Comms!SplitInit
BY Zenon
   DEF Splitting!Kinds, Comms!Kinds, Splitting!NoResult, Comms!NoResult, Splitting!Nothing,
       Comms!Nothing, Splitting!SplitInit, Comms!SplitInit, Splitting!Steps, Comms!Steps

(* A collective, and the end of the kernels of a step. *)
LEMMA SameMeet ==
  ASSUME NEW i, NEW kind
  PROVE  /\ Splitting!Meet(i, kind) => Comms!Meet(i, kind)
         /\ Splitting!KernelsEnd(i) => Comms!KernelsEnd(i)
<1>1. Splitting!Meet(i, kind) => Comms!Meet(i, kind)
  BY Zenon
     DEF Splitting!Meet, Comms!Meet, Splitting!Members, Comms!Members, Splitting!Mints,
         Comms!Mints, Splitting!MyCall, Comms!MyCall, Splitting!Range, Comms!Range,
         Splitting!Waiting, Comms!Waiting, Splitting!tableVars, Comms!tableVars
<1>2. Splitting!KernelsEnd(i) => Comms!KernelsEnd(i)
  BY Zenon
     DEF Splitting!KernelsEnd, Comms!KernelsEnd, Splitting!Members, Comms!Members,
         Splitting!Oldest, Comms!Oldest, Splitting!Range, Comms!Range, Splitting!Runs,
         Comms!Runs, Splitting!callVars, Comms!callVars, Splitting!tableVars, Comms!tableVars
<1> QED BY <1>1, <1>2

(* A call begins, a runtime starts again. *)
LEMMA SameStarts ==
  ASSUME NEW r
  PROVE  /\ Splitting!StartCall(r) => Comms!StartCall(r)
         /\ Splitting!Restart(r) => Comms!Restart(r)
<1>1. Splitting!StartCall(r) => Comms!StartCall(r)
  BY Zenon
     DEF Splitting!Active, Comms!Active, Splitting!Ahead, Comms!Ahead, Splitting!CommAFor,
         Comms!CommAFor, Splitting!Enter, Comms!Enter, Splitting!FindCommA, Comms!FindCommA,
         Splitting!FindKnown, Comms!FindKnown, Splitting!FindShared, Comms!FindShared,
         Splitting!Found, Comms!Found, Splitting!Geometry, Comms!Geometry, Splitting!Involved,
         Comms!Involved, Splitting!Members, Comms!Members, Splitting!Min, Comms!Min,
         Splitting!MySteps, Comms!MySteps, Splitting!NextStep, Comms!NextStep,
         Splitting!Nothing, Comms!Nothing, Splitting!Overlap, Comms!Overlap, Splitting!Parent,
         Comms!Parent, Splitting!Range, Comms!Range, Splitting!Return, Comms!Return,
         Splitting!SelectInSeq, Comms!SelectInSeq, Splitting!StartA, Comms!StartA,
         Splitting!StartCall, Comms!StartCall, Splitting!Steps, Comms!Steps, Splitting!Submit,
         Comms!Submit, Splitting!tableVars, Comms!tableVars
<1>2. Splitting!Restart(r) => Comms!Restart(r)
  BY Zenon
     DEF Splitting!Ahead, Comms!Ahead, Splitting!Involved, Comms!Involved, Splitting!Members,
         Comms!Members, Splitting!MySteps, Comms!MySteps, Splitting!NextStep, Comms!NextStep,
         Splitting!Range, Comms!Range, Splitting!Restart, Comms!Restart, Splitting!Steps,
         Comms!Steps
<1> QED BY <1>1, <1>2

(* What is known of commB. *)
LEMMA SameCommB ==
  ASSUME NEW r
  PROVE  /\ Splitting!ParentsVoted(r) => Comms!ParentsVoted(r)
         /\ Splitting!LanesHeard(r) => Comms!LanesHeard(r)
         /\ Splitting!PoolVoted(r) => Comms!PoolVoted(r)
         /\ Splitting!SharedVoted(r) => Comms!SharedVoted(r)
         /\ Splitting!CommBSplit(r) => Comms!CommBSplit(r)
         /\ Splitting!LsaHeard(r) => Comms!LsaHeard(r)
         /\ Splitting!LsaHeardPipe(r) => Comms!LsaHeardPipe(r)
         /\ Splitting!NamespacesHeard(r) => Comms!NamespacesHeard(r)
<1>1. Splitting!ParentsVoted(r) => Comms!ParentsVoted(r)
  BY Zenon
     DEF Splitting!After, Comms!After, Splitting!Enter, Comms!Enter, Splitting!Fail, Comms!Fail,
         Splitting!Failed, Comms!Failed, Splitting!Heard, Comms!Heard, Splitting!MaxHeard,
         Comms!MaxHeard, Splitting!MyCall, Comms!MyCall, Splitting!Nothing, Comms!Nothing,
         Splitting!ParentsVoted, Comms!ParentsVoted, Splitting!Return, Comms!Return,
         Splitting!Stay, Comms!Stay, Splitting!tableVars, Comms!tableVars
<1>2. Splitting!LanesHeard(r) => Comms!LanesHeard(r)
  BY Zenon
     DEF Splitting!After, Comms!After, Splitting!Cardinality, Comms!Cardinality,
         Splitting!Enter, Comms!Enter, Splitting!FindOwner, Comms!FindOwner,
         Splitting!FindShared, Comms!FindShared, Splitting!Geometry, Comms!Geometry,
         Splitting!Heard, Comms!Heard, Splitting!IsGen, Comms!IsGen, Splitting!LanesHeard,
         Comms!LanesHeard, Splitting!Min, Comms!Min, Splitting!MyCall, Comms!MyCall,
         Splitting!Nothing, Comms!Nothing, Splitting!OneLane, Comms!OneLane, Splitting!Parent,
         Comms!Parent, Splitting!Range, Comms!Range, Splitting!Return, Comms!Return,
         Splitting!Reusable, Comms!Reusable, Splitting!SelectInSeq, Comms!SelectInSeq,
         Splitting!Stay, Comms!Stay, Splitting!tableVars, Comms!tableVars
<1>3. Splitting!PoolVoted(r) => Comms!PoolVoted(r)
  BY Zenon
     DEF Splitting!After, Comms!After, Splitting!Enter, Comms!Enter, Splitting!FindShared,
         Comms!FindShared, Splitting!Geometry, Comms!Geometry, Splitting!Has, Comms!Has,
         Splitting!Heard, Comms!Heard, Splitting!Min, Comms!Min, Splitting!Missing,
         Comms!Missing, Splitting!MyCall, Comms!MyCall, Splitting!Nothing, Comms!Nothing,
         Splitting!Parent, Comms!Parent, Splitting!Partial, Comms!Partial, Splitting!PoolVoted,
         Comms!PoolVoted, Splitting!Return, Comms!Return, Splitting!SelectInSeq,
         Comms!SelectInSeq, Splitting!Stay, Comms!Stay, Splitting!tableVars, Comms!tableVars
<1>4. Splitting!SharedVoted(r) => Comms!SharedVoted(r)
  BY Zenon
     DEF Splitting!After, Comms!After, Splitting!Enter, Comms!Enter, Splitting!Fail, Comms!Fail,
         Splitting!Failed, Comms!Failed, Splitting!FindOwner, Comms!FindOwner,
         Splitting!FindShared, Comms!FindShared, Splitting!Geometry, Comms!Geometry,
         Splitting!Heard, Comms!Heard, Splitting!IsGen, Comms!IsGen, Splitting!MaxHeard,
         Comms!MaxHeard, Splitting!Min, Comms!Min, Splitting!MyCall, Comms!MyCall,
         Splitting!Nothing, Comms!Nothing, Splitting!OnB, Comms!OnB, Splitting!Range,
         Comms!Range, Splitting!Return, Comms!Return, Splitting!Reusable, Comms!Reusable,
         Splitting!SelectInSeq, Comms!SelectInSeq, Splitting!SharedVoted, Comms!SharedVoted,
         Splitting!Stay, Comms!Stay, Splitting!tableVars, Comms!tableVars
<1>5. Splitting!CommBSplit(r) => Comms!CommBSplit(r)
  BY Zenon
     DEF Splitting!After, Comms!After, Splitting!CommBSplit, Comms!CommBSplit, Splitting!Enter,
         Comms!Enter, Splitting!Fresh, Comms!Fresh, Splitting!IsGen, Comms!IsGen,
         Splitting!MyCall, Comms!MyCall, Splitting!OnB, Comms!OnB, Splitting!Range, Comms!Range,
         Splitting!Stay, Comms!Stay, Splitting!tableVars, Comms!tableVars
<1>6. Splitting!LsaHeard(r) => Comms!LsaHeard(r)
  BY Zenon
     DEF Splitting!Active, Comms!Active, Splitting!After, Comms!After, Splitting!CommAFor,
         Comms!CommAFor, Splitting!Commit, Comms!Commit, Splitting!Enter, Comms!Enter,
         Splitting!Entry, Comms!Entry, Splitting!FindCommA, Comms!FindCommA, Splitting!Found,
         Comms!Found, Splitting!Geometry, Comms!Geometry, Splitting!Heard, Comms!Heard,
         Splitting!IsGen, Comms!IsGen, Splitting!LsaHeard, Comms!LsaHeard, Splitting!MaxHeard,
         Comms!MaxHeard, Splitting!MyCall, Comms!MyCall, Splitting!Nothing, Comms!Nothing,
         Splitting!Range, Comms!Range, Splitting!Return, Comms!Return, Splitting!StartA,
         Comms!StartA, Splitting!Store, Comms!Store, Splitting!Submit, Comms!Submit
<1>7. Splitting!LsaHeardPipe(r) => Comms!LsaHeardPipe(r)
  BY Zenon
     DEF Splitting!After, Comms!After, Splitting!Enter, Comms!Enter, Splitting!Heard,
         Comms!Heard, Splitting!IsGen, Comms!IsGen, Splitting!LsaHeardPipe, Comms!LsaHeardPipe,
         Splitting!MaxHeard, Comms!MaxHeard, Splitting!MyCall, Comms!MyCall, Splitting!Proposal,
         Comms!Proposal, Splitting!Propose, Comms!Propose, Splitting!Range, Comms!Range,
         Splitting!Stay, Comms!Stay, Splitting!tableVars, Comms!tableVars
<1>8. Splitting!NamespacesHeard(r) => Comms!NamespacesHeard(r)
  BY Zenon
     DEF Splitting!Active, Comms!Active, Splitting!After, Comms!After, Splitting!CommAFor,
         Comms!CommAFor, Splitting!Commit, Comms!Commit, Splitting!Enter, Comms!Enter,
         Splitting!Entry, Comms!Entry, Splitting!Fail, Comms!Fail, Splitting!Failed,
         Comms!Failed, Splitting!FindCommA, Comms!FindCommA, Splitting!Found, Comms!Found,
         Splitting!Geometry, Comms!Geometry, Splitting!Heard, Comms!Heard, Splitting!IsGen,
         Comms!IsGen, Splitting!MyCall, Comms!MyCall, Splitting!NamespaceLane,
         Comms!NamespaceLane, Splitting!NamespacesHeard, Comms!NamespacesHeard,
         Splitting!Nothing, Comms!Nothing, Splitting!Range, Comms!Range, Splitting!Return,
         Comms!Return, Splitting!StartA, Comms!StartA, Splitting!Stay, Comms!Stay,
         Splitting!Store, Comms!Store, Splitting!Submit, Comms!Submit, Splitting!tableVars,
         Comms!tableVars
<1> QED BY <1>1, <1>2, <1>3, <1>4, <1>5, <1>6, <1>7, <1>8

(* What is known of commA. *)
LEMMA SameCommA ==
  ASSUME NEW r
  PROVE  /\ Splitting!AVoted(r) => Comms!AVoted(r)
         /\ Splitting!CommASplit(r) => Comms!CommASplit(r)
         /\ Splitting!SrcLsaHeard(r) => Comms!SrcLsaHeard(r)
<1>1. Splitting!AVoted(r) => Comms!AVoted(r)
  BY Zenon
     DEF Splitting!AVoted, Comms!AVoted, Splitting!After, Comms!After, Splitting!Enter,
         Comms!Enter, Splitting!Fail, Comms!Fail, Splitting!Failed, Comms!Failed,
         Splitting!Heard, Comms!Heard, Splitting!MaxHeard, Comms!MaxHeard, Splitting!Nothing,
         Comms!Nothing, Splitting!Return, Comms!Return, Splitting!Stay, Comms!Stay,
         Splitting!tableVars, Comms!tableVars
<1>2. Splitting!CommASplit(r) => Comms!CommASplit(r)
  BY Zenon
     DEF Splitting!After, Comms!After, Splitting!CommASplit, Comms!CommASplit, Splitting!Enter,
         Comms!Enter, Splitting!Fresh, Comms!Fresh, Splitting!InA, Comms!InA, Splitting!IsSrc,
         Comms!IsSrc, Splitting!MyCall, Comms!MyCall, Splitting!Range, Comms!Range,
         Splitting!Stay, Comms!Stay, Splitting!tableVars, Comms!tableVars
<1>3. Splitting!SrcLsaHeard(r) => Comms!SrcLsaHeard(r)
  BY Zenon
     DEF Splitting!Active, Comms!Active, Splitting!After, Comms!After, Splitting!Geometry,
         Comms!Geometry, Splitting!Heard, Comms!Heard, Splitting!InA, Comms!InA,
         Splitting!MaxHeard, Comms!MaxHeard, Splitting!MyCall, Comms!MyCall, Splitting!Nothing,
         Comms!Nothing, Splitting!Range, Comms!Range, Splitting!Return, Comms!Return,
         Splitting!SrcLsaHeard, Comms!SrcLsaHeard, Splitting!Submit, Comms!Submit
<1> QED BY <1>1, <1>2, <1>3

LEMMA SameSplitNext ==
  ASSUME Splitting!SplitNext
  PROVE  Comms!SplitNext
<1>1. CASE \E i \in Splitting!Steps : (\E kind \in Splitting!Kinds : Splitting!Meet(i, kind)) \/ Splitting!KernelsEnd(i)
  <2>1. Splitting!Steps = Comms!Steps /\ Splitting!Kinds = Comms!Kinds
    BY DEF Splitting!Steps, Comms!Steps, Splitting!Kinds, Comms!Kinds
  <2> QED BY <1>1, <2>1, SameMeet DEF Comms!SplitNext
<1>2. CASE \E r \in Processes : Splitting!StartCall(r) \/ Splitting!Restart(r)
  BY <1>2, SameStarts DEF Comms!SplitNext
<1>3. CASE \E r \in Processes :
             \/ Splitting!ParentsVoted(r) \/ Splitting!LanesHeard(r) \/ Splitting!PoolVoted(r)
             \/ Splitting!SharedVoted(r) \/ Splitting!CommBSplit(r) \/ Splitting!LsaHeard(r)
             \/ Splitting!LsaHeardPipe(r) \/ Splitting!NamespacesHeard(r)
  BY <1>3, SameCommB DEF Comms!SplitNext
<1>4. CASE \E r \in Processes :
             Splitting!AVoted(r) \/ Splitting!CommASplit(r) \/ Splitting!SrcLsaHeard(r)
  BY <1>4, SameCommA DEF Comms!SplitNext
<1> QED BY <1>1, <1>2, <1>3, <1>4 DEF Splitting!SplitNext

LEMMA SplitStutter ==
  ASSUME UNCHANGED pathVars
  PROVE  UNCHANGED Comms!splitVars
BY DEF pathVars, sharedVars, onlySplit, Comms!splitVars, Comms!callVars, Comms!tableVars

-----------------------------------------------------------------------------
LEMMA InitSplitInv ==
  ASSUME PathInit
  PROVE  SplitInv
<1> SUFFICES ASSUME path = "split" PROVE Comms!IInv /\ Comms!NInv
  BY DEF SplitInv
<1>1. Splitting!SplitInit
  BY DEF PathInit
<1>2. Comms!SplitInit
  BY <1>1, SameSplitInit
<1> QED BY <1>2, SameSplitAssumption, Comms!InvInit, Comms!SpacesInit

LEMMA NextSplitInv ==
  ASSUME SplitInv, [PathNext]_pathVars
  PROVE  SplitInv'
<1> SUFFICES ASSUME path' = "split" PROVE Comms!IInv' /\ Comms!NInv'
  BY DEF SplitInv
<1>1. path = "split" /\ Comms!IInv /\ Comms!NInv
  BY DEF SplitInv, PathNext, pathVars
<1>2. [Comms!SplitNext]_Comms!splitVars
  <2>1. CASE Splitting!SplitNext
    BY <2>1, SameSplitNext
  <2>2. CASE UNCHANGED pathVars
    BY <2>2, SplitStutter
  <2> QED BY <1>1, <2>1, <2>2 DEF PathNext
<1> QED BY <1>1, <1>2, SameSplitAssumption, Comms!InvNext, Comms!SpacesNext

(* What the ranks know of the calls made so far, wherever each of them stands: *)
(* for any ranks, histories of calls and restarts, lanes and capacities.       *)
THEOREM SplitInvariant == PathSpec => []SplitInv
<1>1. PathInit => SplitInv
  BY InitSplitInv
<1>2. SplitInv /\ [PathNext]_pathVars => SplitInv'
  BY NextSplitInv
<1> QED BY <1>1, <1>2, PTL DEF PathSpec

(* The ranks of a parent that has split take one decision, and the members of *)
(* a communicator hold the handle of one split, with one lane and namespace;  *)
(* two parents on one commB never share a namespace, and a parent keeps its   *)
(* own (reshard_split_comm.cu:560-1160).                                      *)
THEOREM SplitsAlways == PathSpec => []SplitsAgree
<1>1. SplitInv => SplitsAgree
  <2> SUFFICES ASSUME path = "split", Comms!IInv, Comms!NInv
               PROVE  Splitting!SameSplit /\ Splitting!NamespacesApart
    BY DEF SplitInv, SplitsAgree
  <2>1. Comms!SameSplit /\ Comms!NamespacesApart
    BY SameSplitAssumption, Comms!InvSame, Comms!SpacesApart
  <2>2. Splitting!SameSplit
    BY <2>1, Zenon
       DEF Splitting!Answered, Comms!Answered, Splitting!CallSteps, Comms!CallSteps,
           Splitting!Members, Comms!Members, Splitting!Range, Comms!Range, Splitting!SameSplit,
           Comms!SameSplit, Splitting!Split, Comms!Split, Splitting!Steps, Comms!Steps
  <2>3. Splitting!NamespacesApart
    BY <2>1, Zenon
       DEF Splitting!CallSteps, Comms!CallSteps, Splitting!NamespacesApart, Comms!NamespacesApart,
           Splitting!Range, Comms!Range, Splitting!Split, Comms!Split, Splitting!Steps,
           Comms!Steps
  <2> QED BY <2>2, <2>3
<1> QED BY <1>1, SplitInvariant, PTL
=============================================================================
