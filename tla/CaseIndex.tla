------------------------------ MODULE CaseIndex ------------------------------
(***************************************************************************)
(* The process-local session index (case_index.py).  Every lookup of a     *)
(* session's case compares the stat signature of each snapshot with the    *)
(* one it last read and parses only the snapshots that changed.  A         *)
(* snapshot that cannot be parsed hides its case from unrelated sessions   *)
(* and blocks the sessions known to have owned it, so that damage to an    *)
(* active case does not let its session open another one.                  *)
(*                                                                         *)
(* Several processes share the disk, each with its own index.  A case is   *)
(* the status and session its snapshot holds, or held before it was        *)
(* damaged; the signature is a counter (inode and timestamps change with   *)
(* every atomic replacement).  Each operation runs under the store lock    *)
(* and is one step, as CaseStore shows; one that raises is not taken.      *)
(***************************************************************************)
EXTENDS Naturals

CONSTANTS
  Cases,          \* case ids
  Sessions,       \* Hermes session ids
  NoSession,      \* the session of no case
  Procs,          \* processes with an index of their own
  Fragile,        \* cases whose Timeline can be damaged as well
  FailingReads,   \* whether a read can fail and leave the file as it is
  MaxSignature    \* bound: writes of one snapshot

ASSUME IndexAssumption ==
  /\ NoSession \notin Sessions
  /\ Fragile \subseteq Cases
  /\ FailingReads \in BOOLEAN
  /\ MaxSignature \in Nat

VARIABLES
  case,         \* case[c]: the record of c, readable or not
  signature,    \* signature[c]: the stat signature of case.md
  named,        \* named[c]: the sessions in the Timeline of c
  damaged,      \* cases whose snapshot cannot be parsed
  lost,         \* cases whose Timeline cannot be parsed
  entries       \* entries[p][c]: the index of process p

disk == <<case, signature, named, damaged, lost>>
vars == <<case, signature, named, damaged, lost, entries>>

-----------------------------------------------------------------------------
Record == [status : {"none", "active", "paused", "closed"},
           session : Sessions \cup {NoSession}]

NoRecord == [status |-> "none", session |-> NoSession]

(* kind "none" is a case the index has not met.                            *)
Entry == [kind      : {"none", "case", "error"},
          signature : 0..MaxSignature,
          case      : Record,
          owners    : SUBSET Sessions]

NoEntry == [kind |-> "none", signature |-> 0, case |-> NoRecord, owners |-> {}]

TypeOK ==
  /\ case \in [Cases -> Record]
  /\ signature \in [Cases -> 0..MaxSignature]
  /\ named \in [Cases -> SUBSET Sessions]
  /\ damaged \subseteq Cases
  /\ lost \subseteq Fragile
  /\ entries \in [Procs -> [Cases -> Entry]]

Exists(c) == case[c].status # "none"

-----------------------------------------------------------------------------
(* CaseIndex.refresh.                                                      *)

(* Faulty: looks at the Timeline alone.                                    *)
TimelineOwners(previous, c) == IF c \in lost THEN {} ELSE named[c]

(* Faulty: blocks every session.                                           *)
EveryOwner(previous, c) == Sessions

Owners(previous, c) ==
  previous.owners
    \cup ({previous.case.session} \ {NoSession})
    \cup (IF c \in lost THEN {} ELSE named[c])

(* The entry of c after a refresh in which the snapshots of `failed` could *)
(* not be read.                                                            *)
Refreshed(previous, c, failed) ==
  CASE ~Exists(c) -> NoEntry
    [] /\ Exists(c)
       /\ previous.kind # "none"
       /\ previous.signature = signature[c] -> previous
    [] OTHER ->
       IF c \in damaged \cup failed
         THEN [kind |-> "error", signature |-> signature[c],
               case |-> NoRecord, owners |-> Owners(previous, c)]
         ELSE [kind |-> "case", signature |-> signature[c],
               case |-> case[c], owners |-> {}]

Refresh(p, failed) == [c \in Cases |-> Refreshed(entries[p][c], c, failed)]

(* Every set of reads that may fail during one lookup.                     *)
Failures == IF FailingReads THEN {{}} \cup {{c} : c \in Cases} ELSE {{}}

(* Faulty: an unreadable case is simply not there.                         *)
NeverBlocked(index, s) == FALSE

(* CaseIndex.select raises for the session.                                *)
Blocked(index, s) == \E c \in Cases : index[c].kind = "error" /\ s \in index[c].owners

ActiveOn(index, s) ==
  {c \in Cases :
     /\ index[c].kind = "case"
     /\ index[c].case = [status |-> "active", session |-> s]}

(* store._get_active_case_no_recovery finds none.                          *)
NoActiveCase(index, s) == ~Blocked(index, s) /\ ActiveOn(index, s) = {}

-----------------------------------------------------------------------------
(* Operations of process p; each begins with a lookup.                     *)

Looks(p, index) == entries' = [entries EXCEPT ![p] = index]

(* An atomic replacement of the snapshot, after the event that names s.    *)
Write(c, status, s) ==
  /\ signature[c] < MaxSignature
  /\ c \notin damaged \cup lost
  /\ case' = [case EXCEPT ![c] = [status |-> status, session |-> s]]
  /\ signature' = [signature EXCEPT ![c] = @ + 1]
  /\ named' = [named EXCEPT ![c] = @ \cup {s}]
  /\ UNCHANGED <<damaged, lost>>

Lookup(p, index) ==
  /\ Looks(p, index)
  /\ UNCHANGED disk

Open(p, index, c, s) ==
  /\ ~Exists(c)
  /\ NoActiveCase(index, s)
  /\ Write(c, "active", s)
  /\ Looks(p, index)

Settle(p, index, c, s, status) ==
  /\ ~Blocked(index, s)
  /\ c \in ActiveOn(index, s)
  /\ Write(c, status, s)
  /\ Looks(p, index)

Resume(p, index, c, s) ==
  /\ NoActiveCase(index, s)
  /\ case[c].status = "paused"
  /\ Write(c, "active", s)
  /\ Looks(p, index)

Migrate(p, index, c, old, new) ==
  /\ ~Blocked(index, old)
  /\ c \in ActiveOn(index, old)
  /\ NoActiveCase(index, new)
  /\ Write(c, "active", new)
  /\ Looks(p, index)

(* The process starts again with an empty index.                           *)
Restart(p) ==
  /\ entries' = [entries EXCEPT ![p] = [c \in Cases |-> NoEntry]]
  /\ UNCHANGED disk

-----------------------------------------------------------------------------
(* What happens to the files.                                              *)

Touched(c) ==
  /\ Exists(c)
  /\ signature[c] < MaxSignature
  /\ signature' = [signature EXCEPT ![c] = @ + 1]

(* case.md is overwritten with something that does not parse.              *)
Damage(c) ==
  /\ Touched(c)
  /\ damaged' = damaged \cup {c}
  /\ UNCHANGED <<case, named, lost, entries>>

DamageTimeline(c) ==
  /\ Exists(c)
  /\ c \in Fragile \ lost
  /\ lost' = lost \cup {c}
  /\ UNCHANGED <<case, signature, named, damaged, entries>>

(* The operator restores the snapshot; a lost Timeline stays lost.         *)
Repair(c) ==
  /\ c \in damaged
  /\ Touched(c)
  /\ damaged' = damaged \ {c}
  /\ UNCHANGED <<case, named, lost, entries>>

-----------------------------------------------------------------------------
Init ==
  /\ case = [c \in Cases |-> NoRecord]
  /\ signature = [c \in Cases |-> 0]
  /\ named = [c \in Cases |-> {}]
  /\ damaged = {}
  /\ lost = {}
  /\ entries = [p \in Procs |-> [c \in Cases |-> NoEntry]]

Operation(p) ==
  \E failed \in Failures :
    LET index == Refresh(p, failed) IN
      \/ Lookup(p, index)
      \/ \E c \in Cases, s \in Sessions :
           \/ Open(p, index, c, s)
           \/ \E status \in {"paused", "closed"} : Settle(p, index, c, s, status)
           \/ Resume(p, index, c, s)
           \/ \E new \in Sessions \ {s} : Migrate(p, index, c, s, new)

Next ==
  \/ \E p \in Procs : Operation(p) \/ Restart(p)
  \/ \E c \in Cases : Damage(c) \/ DamageTimeline(c) \/ Repair(c)

Spec == Init /\ [][Next]_vars

-----------------------------------------------------------------------------
(* Correctness.                                                            *)

(* Damage to the snapshot of an active case never lets its session open,   *)
(* resume or receive another one, in any process, before or after a        *)
(* restart: when the snapshot is restored the session still has one active *)
(* case (store._get_active_case_no_recovery raises on two).  A case whose   *)
(* Timeline is gone as well is out of the reach of a restarted process.    *)
OneActivePerSession ==
  \A c, d \in Cases \ lost :
    /\ case[c].status = "active"
    /\ case[d].status = "active"
    /\ case[c].session = case[d].session
    => c = d

(* An unreadable case is excluded from unrelated sessions: no process      *)
(* blocks a session that the case never named.                             *)
BlocksOnlyNamed ==
  \A p \in Procs, c \in Cases :
    entries[p][c].kind = "error" => entries[p][c].owners \subseteq named[c]

(* A session a process knew a case by stays protected in it while the case *)
(* is unreadable: from the lookup that meets the damage, through further   *)
(* damage that reaches the Timeline too; only a restart forgets.           *)
KnownOwnersStayProtected ==
  [][\A p \in Procs, c \in Cases :
       entries'[p][c].kind = "error" =>
         entries[p][c].owners \cup ({entries[p][c].case.session} \ {NoSession})
           \subseteq entries'[p][c].owners]_vars

(* "An unreadable case snapshot is excluded" (TECHNICAL.md): a snapshot    *)
(* that can be read is not, once the process has looked again.             *)
ReadableIsIndexed ==
  \A p \in Procs, c \in Cases :
    Exists(c) /\ c \notin damaged => Refresh(p, {})[c].kind = "case"
=============================================================================
