------------------------------ MODULE CaseStore ------------------------------
(***************************************************************************)
(* The durable case store (store.py): one directory per case with a        *)
(* snapshot (case.md), an append-only Timeline (events.jsonl) and, while a *)
(* transition is in flight, a recovery journal; beside them sessions.json, *)
(* a cache of each session's disposition high-water.                       *)
(*                                                                         *)
(* Every operation runs under the process-wide file lock, so its reads and *)
(* its journal write are one step.  What follows the journal write is not: *)
(* Timeline, snapshot, cache and unlink are separate durable writes, the   *)
(* holder can die between any two of them, and the next operation of any   *)
(* process first replays the journal.  Operations of the harness that read *)
(* a case, leave the lock and write it back later are the `reads`.         *)
(*                                                                         *)
(* Abstractions: a case is its status, session, runtime_revision and       *)
(* auto-resume marker; the state hash an event carries is the record it    *)
(* hashes (equal hash = equal record); the event chain hash is the         *)
(* position in the sequence.  An operation that is refused (a live probe   *)
(* lease, a lock timeout, a failed validation) leaves the disk as it was   *)
(* and is the action not taken.                                            *)
(***************************************************************************)
EXTENDS Naturals, Sequences, FiniteSets

CONSTANTS
  Cases,        \* case ids
  Sessions,     \* Hermes session ids
  NoSession,    \* the session of a case that does not exist
  Lineage,      \* compression lineage of the sessions, oldest first
  Procs,        \* processes with a read-modify-write in flight
  MaxEvents,    \* bound: events of one Timeline
  MaxSeq        \* bound: dispositions of one session

ASSUME NoSessionAssumption == NoSession \notin Sessions
ASSUME BoundsAssumption == MaxEvents \in Nat /\ MaxSeq \in Nat
ASSUME LineageAssumption == Lineage \in Seq(Sessions)

VARIABLES
  file,         \* file[c]: the snapshot in case.md
  timeline,     \* timeline[c]: the events of events.jsonl
  journal,      \* journal[c]: archive/.pending-transition.json
  cache,        \* cache[s]: high-water of s in sessions.json
  intact,       \* sessions.json is present and well formed
  step,         \* the next durable write of the journal being applied
  reads         \* case records held outside the lock

disk == <<file, timeline, journal>>
index == <<cache, intact>>
vars == <<file, timeline, journal, cache, intact, step, reads>>

-----------------------------------------------------------------------------
Status == {"none", "active", "paused", "closed"}

CaseRec == [status   : Status,
            session  : Sessions \cup {NoSession},
            revision : Nat,
            marker   : Nat]

NoCase == [status |-> "none", session |-> NoSession, revision |-> 0, marker |-> 0]

(* Event types that carry a per-session disposition sequence;              *)
(* case_auto_resumed is a case_resumed whose payload says auto.            *)
DispositionKinds ==
  {"case_opened", "case_paused", "case_resumed", "case_auto_resumed",
   "case_closed", "session_migrated"}

Kinds == DispositionKinds \cup {"note"}

(* seq is 0 on an event without one; binds is the record whose hash the    *)
(* event carries (NoCase on all but the last event of a transaction).      *)
Event == [kind : Kinds, session : Sessions, seq : 0..MaxSeq, binds : CaseRec]

(* base is the number of events that precede the journal's own.            *)
Journal == [case : CaseRec, events : Seq(Event), base : Nat]

NoJournal == [case |-> NoCase, events |-> <<>>, base |-> 0]

Steps == {"idle", "events", "case", "cache", "unlink"}

TypeOK ==
  /\ file \in [Cases -> CaseRec]
  /\ timeline \in [Cases -> Seq(Event)]
  /\ journal \in [Cases -> Journal]
  /\ cache \in [Sessions -> 0..MaxSeq]
  /\ intact \in BOOLEAN
  /\ step \in Steps
  /\ reads \subseteq [proc : Procs, case : Cases, rec : CaseRec]

-----------------------------------------------------------------------------
(* Reading the disk.                                                       *)

Exists(c) == file[c].status # "none"

ActiveOn(s) == {c \in Cases : file[c].status = "active" /\ file[c].session = s}

Pending == {c \in Cases : journal[c].events # <<>>}

(* The lock is free and no journal is left to recover.                     *)
Ready == step = "idle" /\ Pending = {}

Max0(S) == IF S = {} THEN 0 ELSE CHOOSE n \in S : \A m \in S : m <= n

SeqsIn(events, s) ==
  {events[i].seq : i \in {j \in DOMAIN events : events[j].session = s}}

(* The sessions.json a rebuild from the Timelines writes.                  *)
Rebuilt ==
  [s \in Sessions |-> Max0(UNION {SeqsIn(timeline[c], s) : c \in Cases})]

(* Faulty: trusts whatever is left of a lost cache.                        *)
ReadCacheBlindly == cache

ReadCache == IF intact THEN cache ELSE Rebuilt

(* A reader that finds the cache unusable writes the rebuilt one back.     *)
TouchCache == cache' = ReadCache /\ intact' = TRUE

NextSeq(s) == ReadCache[s] + 1

Numbered(s) == NextSeq(s) <= MaxSeq

(* A snapshot is bound to a Timeline when the last event hashes it.        *)
Binds(rec, events) ==
  /\ events # <<>>
  /\ events[Len(events)].binds = rec

-----------------------------------------------------------------------------
(* Committing: the journal write decides the transaction.                  *)

Revised(c, status, session, marker) ==
  [status   |-> status,
   session  |-> session,
   revision |-> file[c].revision + 1,
   marker   |-> marker]

Final(kind, session, seq, rec) ==
  [kind |-> kind, session |-> session, seq |-> seq, binds |-> rec]

Commit(c, rec, events) ==
  /\ Ready
  /\ Exists(c) => Binds(file[c], timeline[c])
  /\ Len(timeline[c]) + Len(events) <= MaxEvents
  /\ journal' = [journal EXCEPT ![c] =
       [case |-> rec, events |-> events, base |-> Len(timeline[c])]]
  /\ step' = "events"
  /\ UNCHANGED <<file, timeline>>

(* A transition that disposes of session s: it is numbered within s.       *)
Disposition(c, kind, status, s, marker) ==
  LET rec == Revised(c, status, s, marker) IN
    /\ Numbered(s)
    /\ Commit(c, rec, <<Final(kind, s, NextSeq(s), rec)>>)
    /\ TouchCache

-----------------------------------------------------------------------------
(* Operations that read and write within one lock section.                 *)

(* observations: the initial observations recorded ahead of case_opened.   *)
Open(c, s, observations) ==
  LET rec == Revised(c, "active", s, 0)
      seen == [i \in 1..observations |-> Final("note", s, 0, NoCase)]
  IN
    /\ ~Exists(c)
    /\ ActiveOn(s) = {}
    /\ Numbered(s)
    /\ Commit(c, rec, Append(seen, Final("case_opened", s, NextSeq(s), rec)))
    /\ TouchCache
    /\ UNCHANGED reads

(* session_reset and session_finalize; a session that expired for good is  *)
(* paused without a marker.                                                *)
LifecyclePause(c, s, marked) ==
  /\ c \in ActiveOn(s)
  /\ Disposition(c, "case_paused", "paused", s,
                 IF marked THEN NextSeq(s) ELSE file[c].marker)
  /\ UNCHANGED reads

ResumePaused(c, s) ==
  /\ ActiveOn(s) = {}
  /\ file[c].status = "paused"
  /\ Binds(file[c], timeline[c])
  /\ Disposition(c, "case_resumed", "active", s, 0)
  /\ UNCHANGED reads

(* A paused case whose marker is the newest disposition of its session.    *)
MarkerValid(c, s) ==
  /\ file[c].status = "paused"
  /\ file[c].session = s
  /\ file[c].marker = ReadCache[s]
  /\ ReadCache[s] >= 1

(* The pre-LLM boundary of a session without an active case.               *)
ProofOfLife(s) ==
  /\ ActiveOn(s) = {}
  /\ UNCHANGED reads
  /\ \/ \E c \in Cases :
          /\ MarkerValid(c, s)
          /\ Binds(file[c], timeline[c])
          /\ Disposition(c, "case_auto_resumed", "active", s, 0)
     \/ /\ Ready
        /\ ~\E c \in Cases : MarkerValid(c, s)
        /\ TouchCache
        /\ UNCHANGED <<disk, step>>

(* Faulty: does not look for an active case on the new session.            *)
MigrateOverConflict(c, old, new) ==
  /\ c \in ActiveOn(old)
  /\ Disposition(c, "session_migrated", "active", new, file[c].marker)

MigrateActive(c, old, new) ==
  /\ c \in ActiveOn(old)
  /\ ActiveOn(new) \subseteq {c}
  /\ Disposition(c, "session_migrated", "active", new, file[c].marker)

Compress(c, old, new) ==
  /\ old # new
  /\ MigrateActive(c, old, new)
  /\ UNCHANGED reads

(* Faulty: looks at the records only, not at the history.                  *)
PristineNow(s) == \A c \in Cases : file[c].session # s

(* No case names the session, in its record or in its Timeline.            *)
Pristine(s) ==
  \A c \in Cases :
    /\ file[c].session # s
    /\ \A i \in DOMAIN timeline[c] : timeline[c][i].session # s

(* The positions of child's ancestors that own a case to adopt.            *)
Adoptable(child) ==
  {i \in DOMAIN Lineage :
     /\ \A j \in 1..i : Lineage[j] # child
     /\ child \in {Lineage[j] : j \in DOMAIN Lineage}
     /\ \/ ActiveOn(Lineage[i]) # {}
        \/ \E c \in Cases : MarkerValid(c, Lineage[i])}

AdoptFromLineage(child) ==
  /\ ActiveOn(child) = {}
  /\ Adoptable(child) # {}
  /\ UNCHANGED reads
  /\ LET ancestor == Lineage[Max0(Adoptable(child))] IN
       \/ \E c \in Cases : MigrateActive(c, ancestor, child)
       \/ /\ ActiveOn(ancestor) = {}
          /\ \E c \in Cases :
               /\ MarkerValid(c, ancestor)
               /\ Disposition(c, "session_migrated", "paused", child,
                    IF Pristine(child) THEN NextSeq(child) ELSE 0)

-----------------------------------------------------------------------------
(* Operations that read a case in one lock section and write it in a later *)
(* one: the runtime_revision of the copy must still be the current one.    *)

ReadCase(p, c) ==
  /\ Ready
  /\ Exists(c)
  /\ \A r \in reads : r.proc # p
  /\ reads' = reads \cup {[proc |-> p, case |-> c, rec |-> file[c]]}
  /\ UNCHANGED <<disk, index, step>>

(* Faulty: compares what the operation cares about, not the revision.      *)
SameStatus(r) == r.rec.status = file[r.case].status

Current(r) == r.rec.revision = file[r.case].revision

(* The record written is the copy with a new status: session and marker    *)
(* are the copy's, not the disk's.                                         *)
WriteBack(r, kind, status) ==
  LET rec == Revised(r.case, status, r.rec.session, r.rec.marker)
      seq == IF kind \in DispositionKinds THEN NextSeq(r.rec.session) ELSE 0
  IN
    /\ Current(r)
    /\ Commit(r.case, rec, <<Final(kind, r.rec.session, seq, rec)>>)
    /\ IF kind \in DispositionKinds
         THEN Numbered(r.rec.session) /\ TouchCache
         ELSE UNCHANGED index
    /\ reads' = reads \ {r}

PauseCase(r) ==
  /\ r.rec.status = "active"
  /\ WriteBack(r, "case_paused", "paused")

CloseCase(r) ==
  /\ r.rec.status = "active"
  /\ WriteBack(r, "case_closed", "closed")

(* Evidence, probe, comparison, revision and consultation transitions.     *)
NoteCase(r) == WriteBack(r, "note", r.rec.status)

(* A copy that lost the race is refused and dropped.                       *)
RefuseStale(r) ==
  /\ Ready
  /\ ~Current(r)
  /\ reads' = reads \ {r}
  /\ UNCHANGED <<disk, index, step>>

-----------------------------------------------------------------------------
(* Applying a journal, one durable write at a time.                        *)

(* Faulty: accepts only the predecessor snapshot.                          *)
RecoverableOnce(c) ==
  LET j == journal[c] IN
    /\ j.base <= Len(timeline[c])
    /\ Exists(c) => Binds(file[c], SubSeq(timeline[c], 1, j.base))
    /\ Binds(j.case, j.events)

(* What _apply_transaction_journal verifies before its first write.        *)
Recoverable(c) ==
  LET j == journal[c]
      have == Len(timeline[c])
      overlap == have - j.base
  IN
    /\ j.base <= have
    /\ overlap <= Len(j.events)
    /\ Exists(c) => \/ Binds(file[c], SubSeq(timeline[c], 1, j.base))
                    \/ Binds(file[c], timeline[c])
    /\ SubSeq(timeline[c], j.base + 1, have) = SubSeq(j.events, 1, overlap)
    /\ Binds(j.case, j.events)

ApplyEvents(c) ==
  /\ step = "events"
  /\ Recoverable(c)
  /\ timeline' = [timeline EXCEPT ![c] =
       SubSeq(timeline[c], 1, journal[c].base) \o journal[c].events]
  /\ step' = "case"
  /\ UNCHANGED <<file, journal, index, reads>>

ApplyCase(c) ==
  /\ step = "case"
  /\ file' = [file EXCEPT ![c] = journal[c].case]
  /\ step' = "cache"
  /\ UNCHANGED <<timeline, journal, index, reads>>

(* A journal without dispositions does not even read the cache.            *)
ReconcileCache(c) ==
  LET seqs(s) == SeqsIn(journal[c].events, s) \ {0} IN
    /\ step = "cache"
    /\ IF \A s \in Sessions : seqs(s) = {}
         THEN UNCHANGED index
         ELSE /\ cache' = [s \in Sessions |-> Max0({ReadCache[s]} \cup seqs(s))]
              /\ intact' = TRUE
    /\ step' = "unlink"
    /\ UNCHANGED <<disk, reads>>

Unlink(c) ==
  /\ step = "unlink"
  /\ journal' = [journal EXCEPT ![c] = NoJournal]
  /\ step' = "idle"
  /\ UNCHANGED <<file, timeline, index, reads>>

Apply(c) ==
  /\ c \in Pending
  /\ ApplyEvents(c) \/ ApplyCase(c) \/ ReconcileCache(c) \/ Unlink(c)

(* The first thing every operation does, and the store does at startup.    *)
Recover ==
  /\ step = "idle"
  /\ Pending # {}
  /\ step' = "events"
  /\ UNCHANGED <<disk, index, reads>>

(* The lock holder dies, or one of its writes fails: the lock is released  *)
(* with the journal still on disk.                                         *)
Crash ==
  /\ step # "idle"
  /\ step' = "idle"
  /\ UNCHANGED <<disk, index, reads>>

(* sessions.json is deleted or damaged: it no longer parses.               *)
LoseCache ==
  /\ intact
  /\ intact' = FALSE
  /\ cache' = [s \in Sessions |-> 0]
  /\ UNCHANGED <<disk, step, reads>>

-----------------------------------------------------------------------------
Init ==
  /\ file = [c \in Cases |-> NoCase]
  /\ timeline = [c \in Cases |-> <<>>]
  /\ journal = [c \in Cases |-> NoJournal]
  /\ cache = [s \in Sessions |-> 0]
  /\ intact = FALSE
  /\ step = "idle"
  /\ reads = {}

Operation ==
  \/ \E c \in Cases, s \in Sessions :
       \/ \E observations \in 0..1 : Open(c, s, observations)
       \/ \E marked \in BOOLEAN : LifecyclePause(c, s, marked)
       \/ ResumePaused(c, s)
       \/ \E new \in Sessions : Compress(c, s, new)
  \/ \E s \in Sessions : ProofOfLife(s) \/ AdoptFromLineage(s)
  \/ \E p \in Procs, c \in Cases : ReadCase(p, c)
  \/ \E r \in reads : PauseCase(r) \/ CloseCase(r) \/ NoteCase(r) \/ RefuseStale(r)

Next ==
  \/ Operation
  \/ \E c \in Cases : Apply(c)
  \/ Recover
  \/ Crash
  \/ LoseCache

Spec == Init /\ [][Next]_vars

(* A process that holds the lock keeps writing, and the store is opened    *)
(* again after a crash: __init__ and every operation recover first.        *)
Fairness ==
  /\ \A c \in Cases : WF_vars(Apply(c))
  /\ WF_vars(Recover)

FairSpec == Spec /\ Fairness

-----------------------------------------------------------------------------
(* Correctness.                                                            *)

(* A session never has two active cases, neither on disk nor in a journal  *)
(* that recovery will complete (store._get_active_case_no_recovery raises  *)
(* on a second one, and every operation of the session with it).           *)
Outcome(c) == IF c \in Pending THEN journal[c].case ELSE file[c]

OneActivePerSession ==
  \A c, d \in Cases :
    /\ Outcome(c).status = "active"
    /\ Outcome(d).status = "active"
    /\ Outcome(c).session = Outcome(d).session
    => c = d

(* Wherever a crash strikes, recovery included, what it leaves passes the  *)
(* checks recovery makes; and a case at rest passes the check every commit *)
(* makes.  Otherwise the store is wedged: each operation starts by raising.*)
NeverWedged ==
  /\ Cardinality(Pending) <= 1
  /\ \A c \in Cases :
       IF c \in Pending THEN Recoverable(c)
       ELSE Exists(c) => Binds(file[c], timeline[c])

(* Two dispositions of a session never share a sequence number, whatever   *)
(* happened to sessions.json: uniqueness is what lets a marker name one.   *)
DispositionSeqsUnique ==
  \A c, d \in Cases : \A i \in DOMAIN timeline[c], j \in DOMAIN timeline[d] :
    /\ timeline[c][i].seq = timeline[d][j].seq
    /\ timeline[c][i].seq # 0
    /\ timeline[c][i].session = timeline[d][j].session
    => c = d /\ i = j

(* The newest disposition of session s, over every Timeline.               *)
NewestOn(s) == Max0(UNION {SeqsIn(timeline[c], s) : c \in Cases})

(* A case is resumed without being asked only if nothing was decided since *)
(* the pause that marked it: the newest disposition of the session is the  *)
(* case's own, and if it was adopted on the way, the session it came to    *)
(* had never disposed of anything.                                         *)
ProofOfLifeIsUndisputed ==
  [][\A c \in Cases :
       LET resumes == \E i \in DOMAIN journal'[c].events :
                         /\ c \notin Pending
                         /\ journal'[c].events[i].kind = "case_auto_resumed"
           s == file[c].session
           paused == Max0({i \in DOMAIN timeline[c] : timeline[c][i].kind = "case_paused"})
           since == {i \in DOMAIN timeline[c] :
                       i > paused /\ timeline[c][i].kind \in DispositionKinds}
       IN resumes => /\ NewestOn(s) \in SeqsIn(timeline[c], s)
                     /\ \A i \in since : timeline[c][i].seq = 1]_vars

(* The store implements the ledger: journal, Timeline, snapshot and cache  *)
(* together behave as one record per case replaced in one step, crashes    *)
(* and lost caches are invisible, and a copy read before someone else's    *)
(* transition is never written over it.                                    *)
HighWater(s) ==
  Max0({ReadCache[s]} \cup UNION {SeqsIn(journal[c].events, s) : c \in Cases})

Ledger == INSTANCE CaseLedger WITH
  MaxRevision <- MaxEvents,
  cases <- [c \in Cases |-> Outcome(c)],
  hw <- [s \in Sessions |-> HighWater(s)]

ImplementsLedger == Ledger!Spec

(* A decided transition is eventually on disk and its journal gone, however *)
(* many crashes of it and of its recovery there were, once there are none  *)
(* any more and as long as the store keeps being used.                     *)
CrashesEnd == <>[][~Crash]_vars

JournalDrains ==
  CrashesEnd => \A c \in Cases : (c \in Pending) ~> (c \notin Pending)
=============================================================================
