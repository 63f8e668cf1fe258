------------------------------ MODULE ProbeCycle -----------------------------
(***************************************************************************)
(* One case's probe cycle (harness.py): the agent commits one probe, the   *)
(* tool middleware of whichever dispatch claims it runs the bounded action *)
(* and captures its result, the agent compares the result and repairs the  *)
(* model, and Timeline accounting (replay) decides whether the case may be *)
(* used.                                                                   *)
(*                                                                         *)
(* Actors run concurrently: dispatches (tool calls inside the middleware), *)
(* the hook callbacks a host runs for them on worker threads, agents (the  *)
(* model and probe tools), and the session lifecycle.  Each one reads the  *)
(* case under the store lock, leaves the lock, and writes its copy back    *)
(* later.  One store transition is one step here: CaseStore shows that its *)
(* files implement that.                                                   *)
(*                                                                         *)
(* Abstractions: the case is its status, revision, pending probe and the   *)
(* mismatch it must repair; an event is its kind and the events it cites,  *)
(* its identity its position.  Tool arguments and result bytes are left    *)
(* out: every dispatch has its own tool call id and the committed tool.    *)
(* Dispatches that meet no committed probe pass through and change         *)
(* nothing; a dispatch refused before it claims the probe ends at once.    *)
(***************************************************************************)
EXTENDS Naturals, Sequences, FiniteSets

CONSTANTS
  Dispatches,   \* tool calls of the probe's tool
  Agents,       \* callers of the model and probe tools
  NoOne,        \* no dispatch and no agent
  MaxEvents     \* bound: events of the Timeline

ASSUME ActorsAssumption ==
  /\ Dispatches \cap Agents = {}
  /\ NoOne \notin Dispatches \cup Agents
ASSUME MaxEventsAssumption == MaxEvents \in Nat

VARIABLES
  case,         \* the case record on disk
  timeline,     \* its events
  lease,        \* who holds archive/.probe-execution.lock
  call,         \* call[d]: the middleware frame of dispatch d
  hook,         \* hook[d]: the hook callback working for dispatch d
  op            \* op[a]: the tool operation agent a is in

vars == <<case, timeline, lease, call, hook, op>>

-----------------------------------------------------------------------------
NoProbe == [id |-> 0, status |-> "none", by |-> NoOne, native |-> FALSE, seen |-> 0]

(* by: the tool call recorded as execution_tool_call_id.  native: the raw  *)
(* result provenance is a native one.  seen: observation_event_id.         *)
Probe == [id : Nat,
          status : {"none", "committed", "executing", "observed"},
          by : Dispatches \cup {NoOne},
          native : BOOLEAN,
          seen : 0..MaxEvents]

(* mismatch: mismatch_event_id of a stale case, 0 when it is not stale.    *)
Case == [status : {"active", "paused"},
         revision : 0..MaxEvents,
         probe : Probe,
         mismatch : 0..MaxEvents]

Kinds == {"committed", "started", "observed", "exposed", "compared", "discarded",
          "revised", "note", "case_paused", "case_resumed"}

(* probe: probe_id.  by: the dispatch a started or observed event is of,   *)
(* NoOne for a recovery.  ref: the observation compared, discarded or      *)
(* superseded, or the mismatch repaired.  material: a material mismatch.   *)
Event == [kind : Kinds, probe : Nat, by : Dispatches \cup {NoOne},
          ref : 0..MaxEvents, material : BOOLEAN]

Frames == {"idle", "seen", "claimed", "armed", "running", "returned", "recording", "done"}

Operations == {"commit", "compare", "recover", "discard", "revise", "pause"}

Idle == [pc |-> "idle", what |-> "pause",
         copy |-> [status |-> "active", revision |-> 0, probe |-> NoProbe, mismatch |-> 0],
         id |-> 0]

TypeOK ==
  /\ case \in Case
  /\ timeline \in Seq(Event)
  /\ lease \in Dispatches \cup Agents \cup {NoOne}
  /\ call \in [Dispatches -> [pc : Frames, native : BOOLEAN, captured : BOOLEAN, copy : Case]]
  /\ hook \in [Dispatches -> [pc : {"idle", "capture", "armed", "expose"}, copy : Case]]
  /\ op \in [Agents -> [pc : {"idle", "read", "probing", "checked"},
                        what : Operations, copy : Case, id : Nat]]

-----------------------------------------------------------------------------
(* Complete-history accounting (replay).                                   *)

EventsOf(kind) == {i \in DOMAIN timeline : timeline[i].kind = kind}

(* The newest observation of each probe, original or superseding.          *)
Observations ==
  LET all == EventsOf("observed") \cup EventsOf("exposed") IN
    {i \in all : \A j \in all : timeline[j].probe = timeline[i].probe => j <= i}

Cited(kind) == {timeline[i].ref : i \in EventsOf(kind)} \ {0}

Uncompared == Observations \ (Cited("compared") \cup Cited("discarded"))

InvalidComparisons == Cited("compared") \ Observations

Unaddressed ==
  {i \in EventsOf("compared") : timeline[i].material} \ Cited("revised")

AccountingClean ==
  Uncompared = {} /\ InvalidComparisons = {} /\ Unaddressed = {}

Usable ==
  /\ AccountingClean
  /\ case.mismatch = 0
  /\ case.probe.status \notin {"observed", "executing"}

-----------------------------------------------------------------------------
(* One store transition from a copy: refused unless the copy is current.   *)

(* Faulty: compares what the writer looked at, not the revision.           *)
SameProbe(copy) ==
  copy.probe.id = case.probe.id /\ copy.status = case.status

Current(copy) == copy.revision = case.revision

NextEvent == Len(timeline) + 1

Transition(copy, new, event) ==
  /\ Current(copy)
  /\ NextEvent <= MaxEvents
  /\ case' = [new EXCEPT !.revision = case.revision + 1]
  /\ timeline' = Append(timeline, event)

Says(kind, probe, by, ref) ==
  [kind |-> kind, probe |-> probe.id, by |-> by, ref |-> ref, material |-> FALSE]

(* _capture_observation: by is NoOne when a recovery writes the placeholder.*)
Capture(copy, by, native) ==
  LET probe == [copy.probe EXCEPT !.status = "observed", !.native = native,
                                  !.seen = NextEvent]
  IN Transition(copy, [copy EXCEPT !.probe = probe], Says("observed", probe, by, 0))

-----------------------------------------------------------------------------
(* The middleware frame of dispatch d.                                     *)

Frame(d, pc) == call' = [call EXCEPT ![d].pc = pc]

(* The case and then its replay, in one step: Reread admits only the probe *)
(* that was seen here, so a change between the two reads ends the frame.   *)
Arrive(d, native) ==
  /\ call[d].pc = "idle"
  /\ case.status = "active"
  /\ case.probe.status = "committed"
  /\ Usable
  /\ call' = [call EXCEPT ![d] =
       [pc |-> "seen", native |-> native, captured |-> FALSE, copy |-> case]]
  /\ UNCHANGED <<case, timeline, lease, hook, op>>

Claim(d) ==
  /\ call[d].pc = "seen"
  /\ UNCHANGED <<case, timeline, hook, op>>
  /\ \/ lease = NoOne /\ lease' = d /\ Frame(d, "claimed")
     \/ lease # NoOne /\ Frame(d, "done") /\ UNCHANGED lease

(* Faulty: looks again whose turn it is, not whether it was taken.         *)
RereadById(d) ==
  /\ call[d].pc = "claimed"
  /\ UNCHANGED <<case, timeline, hook, op>>
  /\ IF case.status = "active" /\ case.probe.id = call[d].copy.probe.id
       THEN /\ call' = [call EXCEPT ![d].pc = "armed", ![d].copy = case]
            /\ UNCHANGED lease
       ELSE Frame(d, "done") /\ lease' = NoOne

(* Under the lease the case is read again: a sibling may have been first.  *)
Reread(d) ==
  /\ call[d].pc = "claimed"
  /\ UNCHANGED <<case, timeline, hook, op>>
  /\ IF /\ case.status = "active"
        /\ case.probe.status = "committed"
        /\ case.probe.id = call[d].copy.probe.id
       THEN /\ call' = [call EXCEPT ![d].pc = "armed", ![d].copy = case]
            /\ UNCHANGED lease
       ELSE Frame(d, "done") /\ lease' = NoOne

(* probe_started; a lost race ends the frame before the action runs.       *)
Start(d) ==
  LET copy == call[d].copy
      probe == [copy.probe EXCEPT !.status = "executing", !.by = d]
      started == [copy EXCEPT !.probe = probe]
  IN
    /\ call[d].pc = "armed"
    /\ UNCHANGED <<hook, op>>
    /\ \/ /\ Transition(copy, started, Says("started", probe, d, 0))
          /\ call' = [call EXCEPT ![d].pc = "running", ![d].copy = case']
          /\ UNCHANGED lease
       \/ /\ ~Current(copy)
          /\ Frame(d, "done")
          /\ lease' = NoOne
          /\ UNCHANGED <<case, timeline>>

(* The action returns or raises.                                           *)
Return(d) ==
  /\ call[d].pc = "running"
  /\ Frame(d, "returned")
  /\ UNCHANGED <<case, timeline, lease, hook, op>>

(* A host without native hooks: the frame captures with the copy it has    *)
(* held since the action started, and fails when that copy is stale.       *)
CaptureReturned(d) ==
  /\ call[d].pc = "returned"
  /\ ~call[d].native
  /\ Capture(call[d].copy, d, FALSE)
  /\ Frame(d, "done")
  /\ lease' = NoOne
  /\ UNCHANGED <<hook, op>>

(* finalized has not been set: the scope of d's callbacks is still open.   *)
Live(d) == call[d].native /\ call[d].pc \in {"running", "returned", "recording"}

(* What record_native_tool_result and record_unknown_native_tool_result    *)
(* check before they capture, holding d's state lock.                      *)
MayCapture(d) ==
  /\ Live(d)
  /\ ~call[d].captured
  /\ hook[d].pc = "idle"
  /\ case.status = "active"
  /\ case.probe.status = "executing"
  /\ case.probe.id = call[d].copy.probe.id

(* The frame's own last attempt, with the case read afresh.                *)
RecordUnknown(d) ==
  /\ call[d].pc = "returned"
  /\ MayCapture(d)
  /\ call' = [call EXCEPT ![d].pc = "recording", ![d].copy = case]
  /\ UNCHANGED <<case, timeline, lease, hook, op>>

PersistUnknown(d) ==
  /\ call[d].pc = "recording"
  /\ Capture(call[d].copy, d, TRUE)
  /\ call' = [call EXCEPT ![d].pc = "done", ![d].captured = TRUE]
  /\ lease' = NoOne
  /\ UNCHANGED <<hook, op>>

(* Faulty: a frame whose capture failed keeps the lease.                   *)
FinishHolding(d) ==
  /\ call[d].pc \in {"returned", "recording"}
  /\ Frame(d, "done")
  /\ lease' = IF case.probe.status = "executing" THEN lease ELSE NoOne
  /\ UNCHANGED <<case, timeline, hook, op>>

(* finally: finalize the scope and release the lease, whether or not the   *)
(* result was captured (a stale copy, a lock that is not free).            *)
Finish(d) ==
  /\ call[d].pc \in {"returned", "recording"}
  /\ Frame(d, "done")
  /\ lease' = NoOne
  /\ UNCHANGED <<case, timeline, hook, op>>

(* The process of dispatch d dies; the operating system frees the lease.   *)
Crash(d) ==
  /\ call[d].pc \notin {"idle", "done"}
  /\ Frame(d, "done")
  /\ hook' = [hook EXCEPT ![d].pc = "idle"]
  /\ lease' = IF lease = d THEN NoOne ELSE lease
  /\ UNCHANGED <<case, timeline, op>>

-----------------------------------------------------------------------------
(* Hook callbacks (post_tool_call, transform_tool_result), on worker       *)
(* threads the host may abandon: they can outlive the frame.               *)

HookAt(d, pc, copy) == hook' = [hook EXCEPT ![d] = [pc |-> pc, copy |-> copy]]

HookRead(d) ==
  /\ call[d].pc # "recording"
  /\ MayCapture(d)
  /\ HookAt(d, "capture", case)
  /\ UNCHANGED <<case, timeline, lease, call, op>>

(* The last capture_guard before the write.                                *)
HookGuard(d) ==
  /\ hook[d].pc = "capture"
  /\ HookAt(d, IF Live(d) THEN "armed" ELSE "idle", hook[d].copy)
  /\ UNCHANGED <<case, timeline, lease, call, op>>

HookCapture(d) ==
  /\ hook[d].pc = "armed"
  /\ Capture(hook[d].copy, d, TRUE)
  /\ call' = [call EXCEPT ![d].captured = TRUE]
  /\ HookAt(d, "idle", hook[d].copy)
  /\ UNCHANGED <<lease, op>>

(* record_tool_result_exposure: a native observation is superseded only    *)
(* from within its scope, any other one by the call that produced it.      *)
ExposeRead(d) ==
  /\ hook[d].pc = "idle"
  /\ case.status = "active"
  /\ case.probe.status = "observed"
  /\ case.probe.by = d
  /\ case.probe.native => Live(d) /\ call[d].captured
  /\ HookAt(d, "expose", case)
  /\ UNCHANGED <<case, timeline, lease, call, op>>

(* Faulty: the case keeps naming the observation that was superseded.      *)
ExposeUnbound(d) ==
  LET copy == hook[d].copy IN
    /\ hook[d].pc = "expose"
    /\ Transition(copy, copy, Says("exposed", copy.probe, d, copy.probe.seen))
    /\ HookAt(d, "idle", copy)
    /\ UNCHANGED <<lease, call, op>>

Expose(d) ==
  LET copy == hook[d].copy
      probe == [copy.probe EXCEPT !.seen = NextEvent]
  IN
    /\ hook[d].pc = "expose"
    /\ Transition(copy, [copy EXCEPT !.probe = probe],
                  Says("exposed", probe, d, copy.probe.seen))
    /\ HookAt(d, "idle", copy)
    /\ UNCHANGED <<lease, call, op>>

(* A callback whose copy is stale, or that finds a lock taken, gives up.   *)
HookGiveUp(d) ==
  /\ hook[d].pc # "idle"
  /\ HookAt(d, "idle", hook[d].copy)
  /\ UNCHANGED <<case, timeline, lease, call, op>>

-----------------------------------------------------------------------------
(* The tools.  Refusals that leave everything as it was are not taken.     *)

Op(a, pc) == op' = [op EXCEPT ![a].pc = pc]

Refuse(a) == op' = [op EXCEPT ![a] = Idle]

Allowed(what, copy) ==
  CASE what \in {"commit", "revise"} -> copy.probe = NoProbe
    [] what = "compare" -> copy.probe.status = "observed"
    [] what = "recover" -> copy.probe.status = "executing"
    [] what = "discard" -> copy.probe # NoProbe
    [] what = "pause"   -> copy.probe = NoProbe /\ copy.mismatch = 0

Begin(a, what) ==
  /\ op[a].pc = "idle"
  /\ case.status = "active"
  /\ Allowed(what, case)
  /\ op' = [op EXCEPT ![a] = [pc |-> "read", what |-> what, copy |-> case, id |-> 0]]
  /\ UNCHANGED <<case, timeline, lease, call, hook>>

NeedsReplay(a) == op[a].what \in {"commit", "pause"}

NeedsLease(a) ==
  op[a].what \in {"recover", "discard"} /\ op[a].copy.probe.status = "executing"

(* replay, and the number of the next probe, from the Timeline as it is.   *)
Replay(a) ==
  /\ op[a].pc = "read"
  /\ NeedsReplay(a)
  /\ IF Usable
       THEN op' = [op EXCEPT ![a].pc = "checked",
                             ![a].id = Cardinality(EventsOf("committed")) + 1]
       ELSE Refuse(a)
  /\ UNCHANGED <<case, timeline, lease, call, hook>>

(* Faulty: does not ask whether the action is still running.               *)
AssumeDead(a) ==
  /\ op[a].pc = "read"
  /\ NeedsLease(a)
  /\ Op(a, "checked")
  /\ UNCHANGED <<case, timeline, lease, call, hook>>

(* probe_execution_is_live takes the lease to see whether it is free ...   *)
AskLease(a) ==
  /\ op[a].pc = "read"
  /\ NeedsLease(a)
  /\ \/ lease = NoOne /\ lease' = a /\ Op(a, "probing")
     \/ lease # NoOne /\ Refuse(a) /\ UNCHANGED lease
  /\ UNCHANGED <<case, timeline, call, hook>>

(* ... and gives it back before the answer is used.                        *)
LeaveLease(a) ==
  /\ op[a].pc = "probing"
  /\ lease' = NoOne
  /\ Op(a, "checked")
  /\ UNCHANGED <<case, timeline, call, hook>>

(* The checks of the operation are behind it; it writes and is over.       *)
Proceed(a, what) ==
  /\ op[a].what = what
  /\ op[a].pc = IF NeedsReplay(a) \/ NeedsLease(a) THEN "checked" ELSE "read"
  /\ Refuse(a)
  /\ UNCHANGED <<lease, call, hook>>

CommitProbe(a) ==
  LET copy == op[a].copy
      probe == [NoProbe EXCEPT !.id = op[a].id, !.status = "committed"]
  IN
    /\ Proceed(a, "commit")
    /\ Transition(copy, [copy EXCEPT !.probe = probe], Says("committed", probe, NoOne, 0))

(* A material mismatch makes the case stale and names this event.          *)
CompareProbe(a, mismatch) ==
  LET copy == op[a].copy IN
    /\ Proceed(a, "compare")
    /\ Transition(copy,
         [copy EXCEPT !.probe = NoProbe,
                      !.mismatch = IF mismatch THEN NextEvent ELSE @],
         [Says("compared", copy.probe, NoOne, copy.probe.seen) EXCEPT !.material = mismatch])

RecoverProbe(a) ==
  /\ Proceed(a, "recover")
  /\ Capture(op[a].copy, NoOne, FALSE)

(* Faulty: marks the pending probe instead of removing it.                 *)
MarkDiscarded(a) ==
  LET copy == op[a].copy IN
    /\ Proceed(a, "discard")
    /\ Transition(copy, [copy EXCEPT !.probe.status = "discarded"],
                  Says("discarded", copy.probe, NoOne, copy.probe.seen))

DiscardProbe(a) ==
  LET copy == op[a].copy IN
    /\ Proceed(a, "discard")
    /\ Transition(copy, [copy EXCEPT !.probe = NoProbe],
                  Says("discarded", copy.probe, NoOne, copy.probe.seen))

(* A revision of a stale case addresses its mismatch event.                *)
Revise(a) ==
  LET copy == op[a].copy IN
    /\ Proceed(a, "revise")
    /\ Transition(copy, [copy EXCEPT !.mismatch = 0],
                  Says("revised", NoProbe, NoOne, copy.mismatch))

PauseSettled(a) ==
  LET copy == op[a].copy IN
    /\ Proceed(a, "pause")
    /\ Transition(copy, [copy EXCEPT !.status = "paused"],
                  Says("case_paused", NoProbe, NoOne, 0))

(* The compare-and-swap refuses a copy that is no longer current.          *)
LoseRace(a) ==
  /\ op[a].pc \in {"read", "checked"}
  /\ ~Current(op[a].copy)
  /\ Refuse(a)
  /\ UNCHANGED <<case, timeline, lease, call, hook>>

-----------------------------------------------------------------------------
(* Transitions within one lock section.                                    *)

(* session_reset and session_finalize, whatever the probe is doing.        *)
LifecyclePause ==
  /\ case.status = "active"
  /\ Transition(case, [case EXCEPT !.status = "paused"],
                Says("case_paused", NoProbe, NoOne, 0))
  /\ UNCHANGED <<lease, call, hook, op>>

(* resume, and auto-resume on proof of life.                               *)
Resume ==
  /\ case.status = "paused"
  /\ Transition(case, [case EXCEPT !.status = "active"],
                Says("case_resumed", NoProbe, NoOne, 0))
  /\ UNCHANGED <<lease, call, hook, op>>

(* The failure of a method-advice call that was in flight is recorded on   *)
(* the case whatever its status.                                           *)
Note ==
  /\ Transition(case, case, Says("note", NoProbe, NoOne, 0))
  /\ UNCHANGED <<lease, call, hook, op>>

-----------------------------------------------------------------------------
Init ==
  /\ case = [status |-> "active", revision |-> 0, probe |-> NoProbe, mismatch |-> 0]
  /\ timeline = <<>>
  /\ lease = NoOne
  /\ call = [d \in Dispatches |->
               [pc |-> "idle", native |-> FALSE, captured |-> FALSE, copy |-> case]]
  /\ hook = [d \in Dispatches |-> [pc |-> "idle", copy |-> case]]
  /\ op = [a \in Agents |-> Idle]

Middleware(d) ==
  \/ \E native \in BOOLEAN : Arrive(d, native)
  \/ Claim(d) \/ Reread(d) \/ Start(d) \/ Return(d)
  \/ CaptureReturned(d) \/ RecordUnknown(d) \/ PersistUnknown(d) \/ Finish(d)

Callback(d) ==
  HookRead(d) \/ HookGuard(d) \/ HookCapture(d) \/ ExposeRead(d) \/ Expose(d) \/ HookGiveUp(d)

Tool(a) ==
  \/ \E what \in Operations : Begin(a, what)
  \/ Replay(a) \/ AskLease(a) \/ LeaveLease(a)
  \/ CommitProbe(a) \/ RecoverProbe(a) \/ DiscardProbe(a) \/ Revise(a) \/ PauseSettled(a)
  \/ \E mismatch \in BOOLEAN : CompareProbe(a, mismatch)
  \/ LoseRace(a)

Next ==
  \/ \E d \in Dispatches : Middleware(d) \/ Callback(d) \/ Crash(d)
  \/ \E a \in Agents : Tool(a)
  \/ LifecyclePause \/ Resume \/ Note

Spec == Init /\ [][Next]_vars

(* The host's tool call ends, and every frame runs its finally; a lease    *)
(* probe_execution_is_live took is given back.                             *)
Fairness ==
  /\ \A d \in Dispatches :
       /\ WF_vars(Reread(d)) /\ WF_vars(Start(d)) /\ WF_vars(Return(d)) /\ WF_vars(Finish(d))
  /\ \A a \in Agents : WF_vars(LeaveLease(a))

FairSpec == Spec /\ Fairness

-----------------------------------------------------------------------------
(* Correctness.                                                            *)

(* One probe is one execution and one captured result: no two dispatches   *)
(* start it, nothing else observes it after it was observed, and a result  *)
(* that is not a recovery's placeholder is the starter's own.              *)
OneExecutionOneCapture ==
  \A i, j \in EventsOf("started") \cup EventsOf("observed") :
    timeline[i].probe = timeline[j].probe =>
      /\ timeline[i].kind = timeline[j].kind => i = j
      /\ timeline[i].by = timeline[j].by \/ NoOne \in {timeline[i].by, timeline[j].by}

(* The history owes exactly what the case says it owes: its pending        *)
(* observation and its mismatch.  An observation nobody can compare any    *)
(* more, or a comparison of one that was superseded, would make the case   *)
(* unusable for ever, since accounting reads the complete Timeline.        *)
AccountingFollowsCase ==
  /\ Uncompared = {case.probe.seen} \ {0}
  /\ InvalidComparisons = {}
  /\ Unaddressed = {case.mismatch} \ {0}

(* No action runs as a probe while a material mismatch or an observation   *)
(* is unaccounted for, although the middleware replays before it has the   *)
(* lease and never again.                                                  *)
StartsOnlyWhenAccounted ==
  [][\A i \in DOMAIN timeline' \ DOMAIN timeline :
       timeline'[i].kind = "started" => AccountingClean]_vars

(* An executing probe is written off (recovered or discarded) only when    *)
(* the dispatch that executes it is over.                                  *)
WrittenOffOnlyWhenOver ==
  [][\A d \in Dispatches :
       /\ case.probe.status = "executing"
       /\ case.probe.by = d
       /\ \E i \in DOMAIN timeline' \ DOMAIN timeline :
            \/ timeline'[i].kind = "discarded"
            \/ timeline'[i].kind = "observed" /\ timeline'[i].by = NoOne
       => call[d].pc = "done"]_vars

(* A probe that is left executing can be recovered: its lease is released  *)
(* however its dispatch ended.                                             *)
ExecutionEndsOrCanBeRecovered ==
  case.probe.status = "executing" ~>
    (case.probe.status # "executing" \/ lease = NoOne)
=============================================================================
