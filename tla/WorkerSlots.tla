----------------------------- MODULE WorkerSlots -----------------------------
(***************************************************************************)
(* The transport of the advice client (jev.call).  A request runs on a     *)
(* worker thread that holds one of a fixed number of slots; the caller     *)
(* waits for it for a bounded time, then cancels it and leaves.  A worker  *)
(* whose socket hangs keeps its slot until the socket gives up, so callers *)
(* that find no slot are told so at once instead of queueing.              *)
(*                                                                         *)
(* The service is external: a read returns another chunk, the end of the   *)
(* reply, or an error, or does not return for as long as the socket waits. *)
(* Replies are data; what matters is which result reaches which caller.    *)
(***************************************************************************)
EXTENDS Naturals, FiniteSets

CONSTANTS
  Calls,        \* calls of the lifetime of the process
  Slots         \* size of the semaphore _WORKER_SLOTS

ASSUME SlotsAssumption == Slots \in Nat \ {0}

VARIABLES
  free,         \* value of the semaphore
  client,       \* client[k]: where the caller of call k is
  worker,       \* worker[k]: where its worker thread is
  cancelled,    \* calls whose cancel event is set
  outcome,      \* outcome[k]: what the worker stored for the caller
  answer        \* answer[k]: what the caller returned or raised

svars == <<free, client, worker, cancelled, outcome, answer>>

CallerSteps == {"idle", "acquired", "waiting", "done"}
WorkerSteps == {"none", "ready", "reading", "fetched", "ended"}
Outcomes == {"none", "value", "error"}
Answers == {"none", "value", "error", "timeout", "busy", "failed"}

SlotsTypeOK ==
  /\ free \in 0..Slots
  /\ client \in [Calls -> CallerSteps]
  /\ worker \in [Calls -> WorkerSteps]
  /\ cancelled \subseteq Calls
  /\ outcome \in [Calls -> Outcomes]
  /\ answer \in [Calls -> Answers]

Moves(k, step) == client' = [client EXCEPT ![k] = step]
Runs(k, step) == worker' = [worker EXCEPT ![k] = step]
Answer(k, a) == /\ answer' = [answer EXCEPT ![k] = a]
                /\ Moves(k, "done")

-----------------------------------------------------------------------------
(* The caller.                                                             *)

Acquire(k) ==
  /\ client[k] = "idle"
  /\ IF free > 0
       THEN free' = free - 1 /\ Moves(k, "acquired") /\ UNCHANGED answer
       ELSE Answer(k, "busy") /\ UNCHANGED free
  /\ UNCHANGED <<worker, cancelled, outcome>>

Start(k) ==
  /\ client[k] = "acquired"
  /\ Moves(k, "waiting")
  /\ Runs(k, "ready")
  /\ UNCHANGED <<free, cancelled, outcome, answer>>

(* The thread cannot be started.                                           *)
StartFails(k) ==
  /\ client[k] = "acquired"
  /\ free' = free + 1
  /\ Answer(k, "failed")
  /\ UNCHANGED <<worker, cancelled, outcome>>

(* The join returns because the worker ended.                              *)
Joined(k) ==
  /\ client[k] = "waiting"
  /\ worker[k] = "ended"
  /\ Answer(k, outcome[k])
  /\ UNCHANGED <<free, worker, cancelled, outcome>>

(* Faulty: takes the slot back from a worker that still runs.              *)
TimesOutAndReleases(k) ==
  /\ client[k] = "waiting"
  /\ worker[k] # "ended"
  /\ cancelled' = cancelled \cup {k}
  /\ free' = free + 1
  /\ Answer(k, "timeout")
  /\ UNCHANGED <<worker, outcome>>

(* The join times out; a reply that is in but not yet released is late.    *)
TimesOut(k) ==
  /\ client[k] = "waiting"
  /\ worker[k] # "ended"
  /\ cancelled' = cancelled \cup {k}
  /\ Answer(k, "timeout")
  /\ UNCHANGED <<free, worker, outcome>>

-----------------------------------------------------------------------------
(* The worker thread.                                                      *)

Fetched(k, o) ==
  /\ outcome' = [outcome EXCEPT ![k] = o]
  /\ Runs(k, "fetched")

(* The first thing fetch does is to look at the cancel event.              *)
Connect(k) ==
  /\ worker[k] = "ready"
  /\ IF k \in cancelled
       THEN Fetched(k, "error")
       ELSE Runs(k, "reading") /\ UNCHANGED outcome
  /\ UNCHANGED <<free, client, cancelled, answer>>

(* The last read of the socket returns.  The cancel event and the deadline *)
(* are looked at before each read, so a reply that was already coming in   *)
(* can still complete after the caller has left.                           *)
Read(k) ==
  /\ worker[k] = "reading"
  /\ \E o \in {"value", "error"} : Fetched(k, o)
  /\ UNCHANGED <<free, client, cancelled, answer>>

(* Faulty: releases on success only.                                       *)
ReleaseOnSuccess(k) ==
  /\ worker[k] = "fetched"
  /\ Runs(k, "ended")
  /\ free' = IF outcome[k] = "value" THEN free + 1 ELSE free
  /\ UNCHANGED <<client, cancelled, outcome, answer>>

Release(k) ==
  /\ worker[k] = "fetched"
  /\ Runs(k, "ended")
  /\ free' = free + 1
  /\ UNCHANGED <<client, cancelled, outcome, answer>>

-----------------------------------------------------------------------------
SlotsInit ==
  /\ free = Slots
  /\ client = [k \in Calls |-> "idle"]
  /\ worker = [k \in Calls |-> "none"]
  /\ cancelled = {}
  /\ outcome = [k \in Calls |-> "none"]
  /\ answer = [k \in Calls |-> "none"]

SlotsNext ==
  \E k \in Calls :
    \/ Acquire(k) \/ Start(k) \/ StartFails(k) \/ Joined(k) \/ TimesOut(k)
    \/ Connect(k) \/ Read(k) \/ Release(k)

SlotsSpec == SlotsInit /\ [][SlotsNext]_svars

(* A join returns by its timeout at the latest; a worker thread is         *)
(* scheduled, and its socket operations have a timeout of their own.       *)
SlotsFairness ==
  \A k \in Calls :
    /\ WF_svars(Start(k) \/ StartFails(k))
    /\ WF_svars(Joined(k) \/ TimesOut(k))
    /\ WF_svars(Connect(k))
    /\ WF_svars(Read(k))
    /\ WF_svars(Release(k))

FairSlotsSpec == SlotsSpec /\ SlotsFairness

-----------------------------------------------------------------------------
(* Correctness.                                                            *)

(* The slots that are out: claimed by a caller that has not started its    *)
(* thread yet, or held by a thread that has not released.                  *)
Claims == {k \in Calls : client[k] = "acquired"}
Holders == {k \in Calls : worker[k] \in {"ready", "reading", "fetched"}}

(* No slot is lost and none is handed out twice, whichever of the caller   *)
(* and the worker comes first: every slot is free, claimed or held.        *)
SlotsAreConserved ==
  /\ Claims \cap Holders = {}
  /\ free + Cardinality(Claims \cup Holders) = Slots

(* Timed-out calls do not use the client up: once the sockets give up, a   *)
(* slot is free again.                                                     *)
SlotsComeBack == (free = 0) ~> (free > 0)
=============================================================================
