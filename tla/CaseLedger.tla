----------------------------- MODULE CaseLedger -----------------------------
(***************************************************************************)
(* What the EpistemicStore promises its callers, with no files in sight:   *)
(* every case has one current record, every session one disposition        *)
(* high-water, and each operation replaces the record of one case in one   *)
(* indivisible step computed from the record it replaces.                  *)
(*                                                                         *)
(* CaseStore implements this specification with a journal, a Timeline, a   *)
(* snapshot file and a cache that are written one after the other.         *)
(***************************************************************************)
EXTENDS Naturals

CONSTANTS
  Cases,        \* case ids
  Sessions,     \* Hermes session ids
  NoSession,    \* the session of a case that does not exist
  MaxRevision   \* bound: durable transitions of one case

ASSUME NoSessionAssumption == NoSession \notin Sessions
ASSUME MaxRevisionAssumption == MaxRevision \in Nat

VARIABLES
  cases,        \* cases[c]: status, session, runtime_revision and marker of c
  hw            \* hw[s]: disposition high-water of session s

vars == <<cases, hw>>

Status == {"none", "active", "paused", "closed"}

(* marker is auto_resume_pending.seq_at_pause; 0 when the case has none.   *)
CaseRec == [status   : Status,
            session  : Sessions \cup {NoSession},
            revision : Nat,
            marker   : Nat]

NoCase == [status |-> "none", session |-> NoSession, revision |-> 0, marker |-> 0]

TypeOK ==
  /\ cases \in [Cases -> CaseRec]
  /\ hw \in [Sessions -> Nat]

ActiveOn(s) == {c \in Cases : cases[c].status = "active" /\ cases[c].session = s}

Advance(c, status, session, marker) ==
  /\ cases[c].revision < MaxRevision
  /\ cases' = [cases EXCEPT ![c] = [status   |-> status,
                                    session  |-> session,
                                    revision |-> cases[c].revision + 1,
                                    marker   |-> marker]]

(* Faulty: the numbering may restart after its record was lost.            *)
DisposeRestarting(s) == \E last \in {0, hw[s]} : hw' = [hw EXCEPT ![s] = last + 1]

Dispose(s) == hw' = [hw EXCEPT ![s] = @ + 1]

-----------------------------------------------------------------------------
Init ==
  /\ cases = [c \in Cases |-> NoCase]
  /\ hw = [s \in Sessions |-> 0]

Open(c, s) ==
  /\ cases[c].status = "none"
  /\ ActiveOn(s) = {}
  /\ Advance(c, "active", s, 0)
  /\ Dispose(s)

(* Evidence, probes, comparisons, revisions: no session disposition.       *)
Update(c) ==
  /\ cases[c].status # "none"
  /\ Advance(c, cases[c].status, cases[c].session, cases[c].marker)
  /\ UNCHANGED hw

Pause(c, s, marked) ==
  /\ cases[c].status = "active"
  /\ cases[c].session = s
  /\ Advance(c, "paused", s, IF marked THEN hw[s] + 1 ELSE 0)
  /\ Dispose(s)

Close(c, s) ==
  /\ cases[c].status = "active"
  /\ cases[c].session = s
  /\ Advance(c, "closed", s, 0)
  /\ Dispose(s)

Resume(c, s) ==
  /\ cases[c].status = "paused"
  /\ ActiveOn(s) = {}
  /\ Advance(c, "active", s, 0)
  /\ Dispose(s)

(* A paused case is eligible while its marker is its session's newest      *)
(* disposition.                                                            *)
MarkerValid(c, s) ==
  /\ cases[c].status = "paused"
  /\ cases[c].session = s
  /\ cases[c].marker >= 1
  /\ cases[c].marker = hw[s]

AutoResume(c, s) ==
  /\ MarkerValid(c, s)
  /\ ActiveOn(s) = {}
  /\ Advance(c, "active", s, 0)
  /\ Dispose(s)

Migrate(c, new) ==
  /\ cases[c].status = "active"
  /\ cases[c].session # new
  /\ ActiveOn(new) = {}
  /\ Advance(c, "active", new, 0)
  /\ Dispose(new)

(* Faulty: the adoption itself is not numbered on the child.               *)
AdoptUnnumbered(c, old, child) ==
  /\ MarkerValid(c, old)
  /\ old # child
  /\ ActiveOn(child) = {}
  /\ Advance(c, "paused", child, hw[child])
  /\ UNCHANGED hw

(* A marked paused case follows its session to a compression child; the    *)
(* marker survives only onto a session that never saw a disposition.       *)
Adopt(c, old, child) ==
  /\ MarkerValid(c, old)
  /\ old # child
  /\ ActiveOn(child) = {}
  /\ Advance(c, "paused", child, IF hw[child] = 0 THEN 1 ELSE 0)
  /\ Dispose(child)

Next ==
  \E c \in Cases :
    \/ Update(c)
    \/ \E s \in Sessions :
         \/ Open(c, s)
         \/ \E marked \in BOOLEAN : Pause(c, s, marked)
         \/ Close(c, s)
         \/ Resume(c, s)
         \/ AutoResume(c, s)
         \/ Migrate(c, s)
         \/ \E child \in Sessions : Adopt(c, s, child)

Spec == Init /\ [][Next]_vars

-----------------------------------------------------------------------------
(* A session never has two active cases: every lookup of "the" active case *)
(* of a session is unambiguous (store.get_active_case).                    *)
OneActivePerSession ==
  \A s \in Sessions : \A c, d \in ActiveOn(s) : c = d

(* At most one paused case of a session is eligible for auto-resume.       *)
OneValidMarkerPerSession ==
  \A s \in Sessions : \A c, d \in Cases :
    MarkerValid(c, s) /\ MarkerValid(d, s) => c = d

(* A marker that a later disposition made stale never becomes valid again  *)
(* where it is: eligibility is gained only by being paused or by moving to *)
(* another session (store.try_auto_resume: "a consumed marker can never    *)
(* re-validate").                                                          *)
StaleMarkerStaysStale ==
  [][\A c \in Cases, s \in Sessions :
       /\ cases[c].status = "paused"
       /\ cases[c].session = s
       /\ ~MarkerValid(c, s)
       => ~MarkerValid(c, s)']_vars
=============================================================================
