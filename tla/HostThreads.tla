----------------------------- MODULE HostThreads -----------------------------
(***************************************************************************)
(* The host threads of a process inside nccl_m2n's public calls            *)
(* (src/nccl_m2n/src/m2n_init.cc:187-217): the API lock that a call holds  *)
(* except around blocking collectives, and the count of calls in flight,   *)
(* which it keeps while it has dropped the lock.                           *)
(***************************************************************************)
EXTENDS Integers

CONSTANTS
  Threads, \* host threads
  Free     \* a lock nobody holds

VARIABLES
  apiLock,  \* holder of gM2nApiMutex
  inFlight, \* gM2nApiInFlightCalls
  pc        \* where each thread's call stands

Goto(t, p) == pc' = [pc EXCEPT ![t] = p]
=============================================================================
