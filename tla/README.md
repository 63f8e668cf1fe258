# Epistemic Harness: specifications and proofs

TLA+ specifications of `src/epistemic_harness`, the plugin that keeps an agent's
*epistemic cases* (a model of a decision, one probe at a time, and the complete
Timeline of what was committed, observed, compared and revised), the TLC runs
that check them on small instances, and TLAPS proofs of what holds for every
instance. Line numbers refer to the files of `src/epistemic_harness`.

Check a run with `tlc -config <cfg> <module>`, a proof with `tlapm <module>`.
`PROJECT.json` lists the runs, maps every definition to the lines it models, and
names for every property a faulty variant of the code that the property rejects.
Those variants are the operators marked `Faulty:` in the modules; no
specification uses them.

## 1. The system

| Component | State it keeps | Operations | Interacts with |
|---|---|---|---|
| Case store (`store.py`) | per case: `case.md`, `events.jsonl`, `archive/.pending-transition.json`, model snapshots, artifacts, `.probe-execution.lock`; per store: `sessions.json`, a process-wide file lock, compression intents | open, read, `transition_case`, `update_case`, lifecycle pause, resume, `prepare_injection` / `try_auto_resume`, migrate, adopt from lineage, prepare / recover / abort a compression, recover journals, probe lease | every other component, under its lock |
| Probe cycle (`harness.py`, hooks in `plugin.py`) | `pending_probe`, `stale`, `mismatch_event_id` of the case; the execution lease; per dispatch a `_NativeCaptureState` | commit, the tool middleware, `post_tool_call` and `transform_tool_result` callbacks, compare, recover, discard, revise, pause, close, `replay` | the store; host threads that run hooks and may abandon them |
| Method consultation (`harness.py`, `methods.py`, `jev.py`) | nothing but Timeline events: `method_offer_started`, `method_offered`, `method_offer_failed`, `method_chosen`, `method_consultation_excused` | offer (calls a hosted service), choose, the gate before a probe commit and before a closure | the store; a remote service with timeouts |
| Model content (`harness.py`) | claims, plan steps with dependencies, `stale`, `stale_ids` | commit of a bound probe, compare, expansion of staleness, revise | the probe cycle; evidence events of the Timeline |
| Closure calibration (`harness.py`) | none | label of every claim and of the case from the resolved status of what they cite | revise, close, transfer of lessons |
| Lesson transfer (`harness.py`) | none but the `case_closed` events | the transfer decision of a closure and its calibration; retrieval for new cases | closed cases, read through replay |
| Compression boundary (`store.py`, `harness.py`, `plugin.py`) | `compression-boundaries/*.json` | prepare, recover, abort of a migration; `session_compress`; lineage migration | session switches of the host; the first call of every operation |
| Locks (`locking.py`, `plugin.py`) | thread-local deadline | acquire with a deadline, 0.25 s lifecycle budget | every store operation |
| Case index (`case_index.py`) | per process: records and owners, cached by file signature | refresh, select | every lookup of the store |
| Advice client (`jev.py`) | four worker slots, a cancel event per call | build state, call, parse | method consultation |
| Injection and rendering (`plugin.py`, `presentation.py`) | none | render the case for a prompt within a size limit | `prepare_injection` |

What is hard here is concurrency, failure and long histories. Threads of one
host, several hosts and abandoned hook callbacks work on the same files. Most
operations read a case under the lock, leave the lock, and write later, relying
on `runtime_revision` alone. A process can die between any two durable writes.
A case may be used only if its *complete* history adds up, so one wrong event is
wrong for ever: a Timeline is never edited. And what a closed case is worth
depends on chains: of representations of one result, of plan steps, of lessons
built on lessons.

What makes each component correct:

- **Store**: a transition is all or nothing whatever crashes; no transition of a
  sibling is overwritten; a session has one active case at most; disposition
  numbers are never reused; a case resumes by itself only when nobody decided
  anything since it was paused.
- **Probe cycle**: the committed action runs once and its result is captured
  once; the history owes exactly what the case says it owes; nothing executes
  over an unaccounted history; what still runs is not written off.
- **Consultation**: a decision directly follows its own consultation; advice is
  about the case as it is; the gate is waived for service failures only; the
  budget bounds the calls.
- **Model content**: a probe is about the claim that the model holds; whatever
  rested on what a mismatch contradicted is reconsidered, and nothing else is
  blamed.
- **Calibration**: failures never support a claim; what the user said is never
  external evidence; a search is a lead; a label holds for each claim asserted.
- **Lesson transfer**: a lesson is never stronger than the weakest case it goes
  back to, however often it is repeated, and never its own echo.
- **Compression**: a prepared migration is kept until the case has moved, no
  child works before it, an abort gives the case back, no child waits for ever but
  for another case in its way.
- **Case index**: damage to a snapshot neither frees its session for a second
  case nor blocks sessions that have nothing to do with it.
- **Worker slots**: no slot is lost or handed out twice, and all come back.

## 2. Modules

    CaseLedger                 what a store promises, no files
      CaseStore                files, journal, crashes, stale copies; implements CaseLedger
        MCCaseStore            its instances for TLC
        CaseStoreProofs        proofs about it
      CompressionBoundary      intents, rotations and the core, over the ledger
        CompressionBoundaryProofs   proofs about the ledger, then about the boundary
    ProbeCycle                 one case: dispatches, hooks, agent, lifecycle
      MCProbeCycle, ProbeCycleProofs
    MethodConsultation         one case: callers, the advice service, the gate
      MCMethodConsultation
      MethodConsultationProofs      proofs about it, then about its transport
    WorkerSlots                the transport of the advice client
    CaseIndex                  several processes, each with its index, over damaged files
      MCCaseIndex, CaseIndexProofs
    ModelRepair                claims, plan steps, mismatch and repair of one case
      MCModelRepair, ModelRepairProofs
    Calibration                what claims cite and what label they earn
      MCCalibration, CalibrationProofs
    LessonTransfer             closed cases and the lessons they leave
      MCLessonTransfer, LessonTransferProofs

One composition carries the rest. `CaseStore` shows that files, journal and
crashes behave as `CaseLedger`, one step per transition; `CompressionBoundary`
extends the ledger, and `ProbeCycle` and `MethodConsultation` take one store
transition as one step from a copy whose revision must still be current. None of
them needs files. `MethodConsultation` sees of `WorkerSlots` only the answers
(a reply, a timeout, `busy`); `LessonTransfer` takes the label of a case, which
`Calibration` computes, as any label; `Calibration` leaves out how a probe gets
executed (`ProbeCycle`) and repaired (`ModelRepair`).

### CaseLedger

A record per case (`status`, `session`, `runtime_revision`, marker) and a
disposition high-water per session. Each operation replaces the record of one
case in one step computed from the record it replaces.

### CaseStore

| Model | Code |
|---|---|
| `file`, `timeline`, `journal` | `case.md`, `events.jsonl`, `archive/.pending-transition.json` |
| `cache`, `intact` | `sessions.json`; whether it is there and parses |
| `step` | the next durable write of `_apply_transaction_journal`; `"idle"` when nobody holds the lock |
| `reads` | case dictionaries held by harness operations outside the lock |
| `Commit` | `_commit_transaction` up to the journal write, with the CAS, the allocation of sequence numbers and the marker |
| `Apply` (`ApplyEvents`, `ApplyCase`, `ReconcileCache`, `Unlink`) | `_apply_transaction_journal`, one step per durable write |
| `Recoverable` | what recovery checks before it writes |
| `Recover` | `_recover_pending_transactions_locked`, the start of every operation |
| `Crash`, `LoseCache` | death of the holder between two writes, any number of times; a deleted or damaged `sessions.json` |
| `WriteBack` and its users | `transition_case` / `update_case` called with a copy |

The lock makes everything up to the journal write one step. An operation that is
refused leaves the disk alone and is the action not taken. An event carries the
record whose hash it carries in the code.

### CompressionBoundary

| Model | Code |
|---|---|
| `intents` | the files of `compression-boundaries/` |
| `clearing` | the lock holder is between the migration and the removal of its intent |
| `rotation[s]` | how far `prepare_compression` and the core are in replacing session `s`: each lock section and each callback is a step |
| `published`, `lineage`, `minted` | the sessions of the core, each with all its ancestors (external) |
| `ready[s]` | an operation of `s` has passed `recover_prepared_compression` |
| `Recover`, `Abort`, `Prepare` | the three store operations on intents |
| `BeginRotation`, `Publish`, `Rollback`, `Leave` | the core of the older protocol, which prepares its rotations (external) |
| `RotateUnprepared` | the core of the present one, which does not (external) |
| `Nearest`, `Follow` | `migrate_lineage_case`: the nearest ancestor, however far back, that has an active or validly marked case passes it on; `session_compress` |

Intents are the older of two protocols: the hooks of the plugin follow the
lineage instead and write no new ones (`TECHNICAL.md:224`), but the store keeps
the operations and recovers what it finds. In the model every rotation is of
either kind, so a case may be left behind on a session without an intent and be
fetched later by a grandchild.

This mixture has a consequence the recovery does not resolve by itself. When a
prepared case leaves its parent (closed, paused, or moved elsewhere) and another
one then follows the lineage to the child, from the parent or from farther back,
the intent is still there and `recover_prepared_compression` refuses every
operation of the child (`store.py:342`) until that other case has left it, which
only a callback that recovers nothing (a lifecycle pause, a further migration) can
bring about. `RefusedOnlyIfCaseLeft` says that this does not happen while the
prepared case still waits at the parent, and `ChildIsServed` that a child is
served unless it is in this state (`Refused`).

### ProbeCycle

| Model | Code |
|---|---|
| `case`, `timeline` | the case on disk and its events |
| `lease` | `archive/.probe-execution.lock` |
| `call[d]` | the frame of `tool_execution_middleware` for dispatch `d`: `seen` (case read), `claimed` (lease held), `armed` (read again), `running` (`probe_started` is durable), `returned`, `recording`, `done` |
| `hook[d]` | a callback (`post_tool_call`, `transform_tool_result`) between its read and its write; it can outlive the frame |
| `op[a]` | a tool operation of agent `a` between its read, its checks and its write |
| `Usable`, `AccountingClean` | `replay` |
| `Crash(d)` | the process of `d` dies; the operating system frees its lease |

### MethodConsultation

The Timeline readers of `methods.py` are operators on `timeline`; `caller[p]` is
the operation a caller is in. A call to the service happens between
`method_offer_started` and the event that ends it, with no lock held, and others
append meanwhile (`Other` stands for the rest of the harness).

### WorkerSlots

`free` is the semaphore `_WORKER_SLOTS`; `client[k]` and `worker[k]` are the two
sides of `jev.call` for call `k`, on two threads that meet only in the join, the
cancel event and the outcome. The service is external: it answers, fails, or is
silent until the socket gives up.

### CaseIndex

`case`, `signature`, `damaged`, `named`, `lost` are the files: the record of each
snapshot, a counter for its stat signature, whether it parses, the sessions its
Timeline names, whether the Timeline parses. `entries[p]` is the index of process
`p`. Every operation begins with `refresh` (`Refresh`), whose outcome `select`
(`Blocked`, `ActiveOn`) uses; a read may fail once although the file is intact.

### ModelRepair

`model` maps ids to claims or plan steps, `pending` is the probe with the copy of
the claim it is bound to, `stale` and `staleIds` what a mismatch left. `Expand` is
`_expand_stale_model_ids` with its sweeps, `Substantive` and `Signature` the test
of a repair, `Revise` every model the server would accept.

### Calibration

`timeline` holds only events that carry authority, `pending` the probe, `model`
the claims with their citations. `Resolved` follows an observation through the
representations that superseded it (`_resolve_observation_result_status`);
`ClaimLabel` and `CaseLabel` are `_closure_calibration`.

### LessonTransfer

Per case its status, label, transfer decision, lesson and recorded strength.
`Promotes` and `Ceiling` are `_validate_transfer_evidence` and the calibration of
a pattern. `roots` is a history variable: the cases that recorded by themselves what
a lesson repeats. Such a case need not have had evidence: a candidate can be left by
a case that closed as a hypothesis, and what is said of a pattern is that it repeats
two records, not that it is well supported; for that there is `NeverStronger`.

## 3. Runs

All runs set `CHECK_DEADLOCK FALSE`: callers may stop calling, and the bounds on
Timelines and revisions are reached.

| Run | Instance | What it shows |
|---|---|---|
| `store` | 2 cases, 2 sessions, 1 copy outside the lock, 3 events per Timeline, 3 dispositions per session, any number of crashes, under fairness | exclusiveness on disk; unique disposition numbers though `sessions.json` is lost; recovery accepts everything a crash leaves; **the store implements `CaseLedger`**; the journal drains |
| `store_lineage` | 2 cases, a lineage of three sessions, 4 events, 4 dispositions, symmetric | automatic resumption is never disputed, wherever the case was adopted from |
| `compression` | 2 cases, 3 sessions, 3 transitions per case, under fairness | promises are kept, children work after their recovery, aborts return the case, no child is refused while its case waits at the parent, children are served; the ledger's markers with the boundary around it |
| `probe_cycle` | 2 racing dispatches, 1 agent, 5 events, under fairness | one execution and one capture; accounting; starts; write-offs; a probe left executing can be recovered |
| `consultation` | 2 callers, 1 call, 6 events, symmetric | consulted decisions, current advice, single answers, earned waivers, bounded overrun |
| `worker_slots` | 4 calls, 2 slots, under fairness | slots are conserved and come back |
| `case_index` | 2 cases, 2 sessions, 2 processes, 3 writes of a snapshot, one Timeline that can be damaged, symmetric | one active case per session; no bystander is blocked; known owners stay protected |
| `model_repair` | a claim and two plan steps, two texts, every dependency list | snapshots hold; dependents are reconsidered; blame stays local |
| `calibration` | 2 asserted claims, 3 events, four histories of earlier versions, symmetric | what support rests on |
| `lesson_transfer` | 4 cases, 2 lessons, symmetric | patterns of patterns |
| `failed_attempts` | expected violation | see Findings |
| `dangling_offer` | expected violation | see Findings |

Type invariants are run in `probe_cycle`, `model_repair` and `calibration`; where they are only theorems the runs spend their time on the rest, as
they do with `LedgerExclusive` and `PatternsAgree`.

Why the bounds are enough. Two cases on two sessions is the least in which one
can take the other's place; the lineage run has three sessions so that there is
a nearer and a farther ancestor, and so has the compression run, where a third
session can hold the case that was promised, or the case that comes in between
can wait at a grandparent. Three events take a case through
opening, pause and resumption, or migration, in every order with its sibling,
and each of them is crashed between every two durable writes, its recovery too.
Five events hold commit, start, capture, exposure or comparison, and a revision
or a second commit, and two dispatches every race between two claims. Six events
hold two overlapping calls, their failures up to the cooldown, and a decision.
Three writes of a snapshot hold an opening, a damage and a repair, or a move in
between. Two plan steps form a chain and a cycle; two asserted claims differ in
what they earn; three events hold a result, another representation of it and its
comparison. Four closed cases hold a pattern over two candidates and a pattern
over that pattern. `MaxEvents`, `MaxSeq`, `MaxRevision` and `MaxSignature` stand
for no limit of the code; `MaxCalls`, `MaxTokens`, `MaxConsecutive` and `Slots`
are configuration. `Rivals` (claims of alternatives) is empty in the run: of the
label they can only make less.

Fairness.

- `CaseStore!Fairness`: a process that holds the lock goes on writing, and a store
  with a journal is opened or used again, which recovers it first; nothing is
  assumed about new operations. `JournalDrains` supposes that crashes end
  (`CrashesEnd`): an endless series of them would stop any recovery.
- `BoundaryFairness`: a published child keeps working, each of
  its operations recovers first, and the holder of the lock goes on unless it
  dies. It may die every time: an intent whose case has moved is then settled
  without a migration. A recovery that is refused is not assumed to succeed.
- `ProbeCycle!Fairness`: a frame that has the lease proceeds, the host's tool call
  ends, and the `finally` of the middleware runs; `probe_execution_is_live` gives
  back the lease it took. No callback and no agent is assumed to do anything.
- `SlotsFairness`: a join returns by its timeout at the latest, threads are
  scheduled, and a socket has a timeout of its own. No caller is assumed to call.

## 4. Proofs

Assumptions are those on the constants: `NoSession` is no session, `NoLesson` no
lesson, the root session is a session, there is a slot, bounds are natural
numbers, the lineage is a sequence of sessions, callers are finitely many,
`MaxCalls` is at least one (`jev.py:171` clamps it), a plan has finitely many
steps, and an absent text is no text. `CalibrationAssumption` says of the
Timelines a case may have been opened with (`Histories`) what `Ordered` says: an
event of a probe names its capture, captures and exposures keep the probe's
authority, links go back or name nothing, and an exposure that names a
representation of its own probe names the newest. It does not say that a link
leads to the same probe, nor that a comparison has the authority of its probe:
`_event_authority_map` prefers the descriptor of a comparison (`harness.py:3413`)
because old ones may disagree, and the run has a Timeline for each of these cases.

`CompressionBoundaryProofs`, its first part, on the ledger: the invariant adds to types and exclusiveness that a marker
is at most its session's high-water (`MarkersIssued`) and that two paused cases
of a session carry different markers (`MarkersDistinct`). From it follow
`LedgerExclusive`, `LedgerMarkers` and the action property `LedgerStaleMarkers`.

`CaseStoreProofs`: `OneActivePerSession` of the store is about `Outcome`, the
record that a pending journal will install, and is not inductive alone. The
invariant `IInv` adds that existing records are bound to sessions
(`BoundToSession`), that one journal at most is pending (`OnePending`), that a
journal holds the successor of the snapshot or the snapshot itself
(`JournalIsNext`), and that a copy with the current revision *is* the current
record (`CurrentCopiesAreExact`). The last conjunct is what the compare-and-swap
relies on and a theorem of its own, `StoreNoLostUpdate`: without it a stale copy
could bring an active status back. `StoreTypeOK` needs that the cache a reader
rebuilds is within bounds, hence a lemma on the maximum of a bounded set, by
well-founded induction on the naturals.

The second half of `CaseStoreProofs` is about what the files remember. `HInv` says
that a pending journal fits what is there at every stage of its application
(`JournalFits`), that a case at rest is the one its Timeline hashes
(`SettledBound`), that sequence numbers are unique over Timelines *and* pending
journals (`SeqsUnique`), that a well-formed `sessions.json` lacks no number but
those of a pending journal (`CacheAgrees`), and that a marker is a number its own
case drew, after which nothing was decided on it but its adoption (`MarkersDrawn`).
`StoreNeverWedged`, `StoreSequencesUnique` and `StoreProofOfLife` each read one of
them off. `StoreImplementsLedger` maps a case to `Outcome` and a counter to the
highest number drawn on any Timeline or journal: the step that writes the journal
is the ledger's step, every later write, crash, recovery and loss of the cache is
a stutter, and a commit draws the ledger's next number only because of
`CacheAgrees`. `StoreMarkers` is then a theorem about the ledger.

`ProbeCycleProofs`: the invariant has two halves. `HistoryInv` is about the case
and its Timeline: every event is counted by the revision (`TimelineIsComplete`), a
new probe has a number no event has seen (`IdsAreCounted`), and the status of the
pending probe is what its events say (`ProbeIsItsHistory`); with these,
`OneExecutionOneCapture` and `AccountingFollowsCase` are kept by every transition
that is written from a copy equal to the case, one lemma per kind of event. The
other half is about who writes: a copy whose revision is current is the case
(`Exact`), the lease is held by the frame that runs the action (`FrameHolds`), a
callback writes only what its own dispatch executed (`HookHolds`), and the
executor of a probe has begun and does not begin again (`ExecutorBegun`). The last
one carries `ProbeWrittenOff`: the tool gives back the lease it probed with before
it writes, and what it found stays true only because a dispatch that once ended
never runs again.

`CompressionBoundaryProofs`, its second part: every step of the boundary is a step of the ledger or
a stutter (`RefinesLedger`), so what is proved of the ledger carries over. The
invariant `BInv` follows the ids: a child belongs to one rotation and is not
published before that rotation says so (`ChildrenKept`), what an abort takes for
absent is published by nobody (`StalesKept`), an intent names a child of its own
parent and nothing else (`IntentsKept`, `SourcesKept`), the intent being cleared
has been migrated or was aborted (`ClearingKept`), and only published sessions
work (`ReadyKept`). `RecoveryComesFirst`, `PromisesAreKept` and
`AbortsReturnTheCase` follow from it. Without `StalesKept` the abort of a second
rotation could remove the intent of a child that exists.

The third part is about who may come between a child and its case. `RInv` says
how lineages hang together (`LineageKept`), that the child of a rotation is
untouched until it is published (`FreshKept`), that a session which was rotated or
continued has no intent to recover any more (`SourcesRecovered`), that no two
intents share a session on the same side (`IntentsUnique`), that intents follow
the lineage (`IntentsFollow`), and, what all of these are for, `Reserved`: while
the prepared case waits at the parent, no case is at work on the child or could be
resumed there by proof of life, and whether it waits or has left, it is on no
session from which the parent could get it back (the ancestors of the parent and
the children prepared from them for the same case). Each conjunct closes a way in: an operation of the child
recovers first, an operation of the parent needs it to be live, and the nearest
ancestor that has a case to pass on is the parent itself. Nothing is claimed of a
case that has left its parent, and nothing of sessions that were rotated without an
intent. `RefusalComesAfterwards` reads `RefusedOnlyIfCaseLeft` off `RInv`, which
was first checked over two cases and three sessions.

`MethodConsultationProofs`: what an operation read is out of date as soon as the
Timeline grows, and what saves each write is that it is then refused. `Holds` says
of every caller what its next write relies on *if its copy is current*; the four
statements about the history (`DecisionsAreConsulted`, `OffersAreCurrent`,
`OffersAreAnsweredOnce`, `GateIsWaivedForFailures`) are inductive with it. They
need lemmas on how the readers of a Timeline change when an event is appended.
`OverrunsAreBounded` counts over callers: the offers that count together with those
still in flight (`Spent`) grow only when a call starts, which is allowed below the
limit at that very tip, and a caller has one call at a time.

The last part of `MethodConsultationProofs` is about the transport (`WorkerSlots`).
`SlotsConservation` is a statement about the cardinality of two sets of calls; `SlotBeforeThread` says that a call claims its slot before its thread exists,
so that no call is in both.

`ModelRepairProofs`: `ExpandIsRestingOn` says what the loop of
`_expand_stale_model_ids` computes: the least set that holds the given items and
every step that rests on it (`RestingOn`, which is defined without a loop). It stays
inside every such set (`ExpandIsLeast`); and since a sweep that is not the last one
needed adds a step, as many sweeps as the plan has steps reach it all
(`ExpandIsClosed`). The invariant adds `StaleIsWhatRests`: the stale items are what
rests on the affected ones *in the model that is still there*, as no revision goes
through between the mismatch and its repair but the repair. `MismatchBlamesLocally`
and `DependentsReconsidered` are then statements about one step.

`CalibrationProofs`: `Resolved` is a recursive function over the Timeline. That it
satisfies its own equation is proved (`ResolvedIs`): a function exists for every
prefix, for else there would be a shortest prefix without one. `GoodWasAlwaysGood`
follows in the same way: the first event with a good status that replaced something
bad would have replaced a good one. The invariant says that the Timeline is
`Ordered`, that the pending probe's newest representation is the one an exposure
will name (`ProbeIsNewest`), that every comparison made since the case was opened
has the authority of its probe (`ComparedAsCommitted`), and that a claim cites
events of its own group (`CitesItsGroup`), which revisions check and later events
cannot change. `TestimonyCountsAsTestimony` follows for every event but the
comparisons the case was opened with (`inherited` counts what it was opened with);
for those the theorem says that they count for their own descriptor, as the code
has it. A link to another probe, as a comparison or as an exposure, makes an event
count for nothing (`expected_probe_id`), which `FailureNeverSupports` includes.

`LessonTransferProofs`: `NeverStronger` compares a lesson with cases it does not
cite itself. `Rooted` says that what a lesson goes back to is settled when its
case is closed, and that the roots recorded lessons of their own.

`CaseIndexProofs`, for any number of processes, cases and sessions and any damage:
an entry may be long out of date, so `OneActivePerSession` alone is not inductive.
`Faithful` says what an entry is worth: one whose signature is still that of the
snapshot holds the record itself, or names the session of the record it could not
read. `Attributed` says that the Timeline names a session before the record does,
which is what a fresh process relies on when it meets a damaged snapshot.
`KnownOwnersStayProtected` follows step by step.

Every safety property the passing runs check is stated by a theorem. Model-checked
only is liveness (`JournalDrains`, `ChildIsServed`,
`ExecutionEndsOrCanBeRecovered`, `SlotsComeBack`), which is beyond the proof
system, as is what the statements of section 5 refute. The induction theorems of the
library cannot be instantiated by the provers, so every induction above is on a
least counterexample (`LeastMember`, from well-foundedness of the naturals).

## 5. Findings

- `FailedAttemptsAreConsumed` (run `failed_attempts`). `TECHNICAL.md:140` says a
  failed attempt is consumed permanently, with authentication, caller-input and
  `busy` errors as the exceptions. `budget_used` (`methods.py:156`) counts offers
  and `EXCUSABLE_FAILURES`; a call whose case moved while it was in flight is
  recorded as `state_changed_during_call` or `state_write_failed` and is in
  neither set, although the service answered it.
- `NoDanglingOffer` (run `dangling_offer`). The comment at `harness.py:779` says a
  finished call must leave a terminal failure event. `_record_method_failure`
  reads the case in one lock section and writes in another; losing that race is
  only logged, and the `method_offer_started` stays without an end.

Five more statements of the documents do not hold of the models. Each is a
definition and has a configuration of its name beside the runs
(`tlc -config AbortRestoresParent.cfg CompressionBoundary`, and so on):

| Definition (module) | What is said | What happens |
|---|---|---|
| `AbortRestoresParent` (`CompressionBoundary`) | `harness.py:534`: an abort restores the case binding before the core reopens the parent | the child recovered first: its intent is gone, the abort reports dormant (`store.py:395`), the case stays on the child the core took back |
| `ReadableIsIndexed` (`MCCaseIndex`) | `TECHNICAL.md:411`: an *unreadable* snapshot is excluded from unrelated sessions | a read that fails once is remembered under the signature of the intact file (`case_index.py:33`), until something rewrites it |
| `AbstractIsProvisional` (`MCCalibration`) | `TECHNICAL.md:388`: a claim that relies only on abstracts is provisional | how much was read is recorded with the comparison; the observation it compared has no scope and may be cited instead |
| `MetadataDoesNotRepair` (`MCModelRepair`) | `harness.py:3529`: metadata edits remain ineffective | naming a dependency twice changes a step's signature; an `action` field makes a claim look like a step |
| `RelabellingDoesNotRepair` (`MCModelRepair`) | `TECHNICAL.md:335`: metadata alone does not repair a stale item | a contradicted claim that returns under another id, word for word, is not looked at (`harness.py:2249`) |

## 6. Not modelled

- Wall-clock lock deadlines and the 0.25 s lifecycle budget (`locking.py`,
  `plugin.py`): a lock that is not free is an operation not taken, which every
  model allows at every moment. That a dropped lifecycle callback leaves a case
  active on a session that ended is a state the models reach.
- Rendering, size shedding and injection (`presentation.py`, `plugin.py`): no
  state; the one state change, resumption by proof of life, is in `CaseStore`.
- The projection of a case within a text budget and the validation of replies
  (`jev.py`), argument digests, redaction, schemas: formatting and parsing.
- Retrieval of prior lessons for a new case: lexical scores over words.
- Artifact and model snapshot files, written before or with a transition and
  never changed; the creation of the commitment key, one exclusive link.
- What an operation answers: a commit whose apply fails after the journal write
  reports an error and takes effect later. The models say what is on disk.
- Nested re-entry of one dispatch. `_close` is in `CaseStore`,
  `MethodConsultation`, `Calibration` and `LessonTransfer`; `ProbeCycle` leaves it
  out, since nothing but a note can follow it and its preconditions are those of
  `PauseSettled`.
