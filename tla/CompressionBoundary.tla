------------------------- MODULE CompressionBoundary -------------------------
(***************************************************************************)
(* A session that is compressed continues under a new session id, and its  *)
(* active case has to follow it.  Before the Hermes core publishes the     *)
(* child, the harness leaves an intent file in compression-boundaries/;    *)
(* the child's first operation completes the migration and removes the     *)
(* file, and a core whose rotation failed has the intent aborted.          *)
(*                                                                         *)
(* The cases are the ledger's: CaseStore shows that one transition is one  *)
(* indivisible step of it whatever crashes.  What is not indivisible is    *)
(* what this module adds: the migration and the removal of its intent are  *)
(* two durable writes of one lock section, and preparing a compression is  *)
(* four lock sections with a callback into the core among them.            *)
(*                                                                         *)
(* Intents are the older of two protocols.  The present core publishes a   *)
(* child without a word to the harness, and the plugin's hooks let a case  *)
(* follow the published lineage, but they still recover the intents they   *)
(* find.  The module has both, in any mixture.                             *)
(*                                                                         *)
(* The core is external and modelled by the calls it makes: it mints a     *)
(* fresh id per child, rotates a session once at a time, and runs no turn  *)
(* of a session it is rotating or has rotated away; a process that missed  *)
(* the publication may still try to rotate the parent again.  A call that  *)
(* raises changes nothing on disk and is the action not taken.             *)
(***************************************************************************)
EXTENDS CaseLedger

CONSTANT Root       \* the session the core starts with

ASSUME RootAssumption == Root \in Sessions

VARIABLES
  intents,      \* the intent files: case, old_session_id, new_session_id
  clearing,     \* the intent whose case the lock holder has moved already
  published,    \* sessions the core has published
  lineage,      \* lineage[s]: the sessions s continues, each by its own lineage
  minted,       \* ids the core has given to a child
  rotation,     \* rotation[s]: how far the core is in rotating s
  ready         \* ready[s]: an operation of s is past its recovery

core == <<published, lineage, minted>>
bvars == <<cases, hw, intents, clearing, published, lineage, minted, rotation, ready>>

Intent == [case : Cases, old : Sessions, new : Sessions]

RotationSteps ==
  {"idle", "recover", "look", "prove", "abort", "prepare", "prepared", "published"}

(* child is the session to be published, stale the target to abort, case   *)
(* the singleton of the case_id that prepare_compression answered with.    *)
Rotation == [step  : RotationSteps,
             child : Sessions \cup {NoSession},
             stale : Sessions \cup {NoSession},
             case  : SUBSET Cases]

Idle == [step |-> "idle", child |-> NoSession, stale |-> NoSession, case |-> {}]

BoundaryTypeOK ==
  /\ TypeOK
  /\ intents \subseteq Intent
  /\ clearing \subseteq intents
  /\ published \subseteq minted /\ minted \subseteq Sessions
  /\ lineage \in [Sessions -> SUBSET Sessions]
  /\ rotation \in [Sessions -> Rotation]
  /\ ready \in [Sessions -> BOOLEAN]

From(s) == {i \in intents : i.old = s}
Targeting(s) == {i \in intents : i.new = s}

(* The lock is held from the migration to the removal of the intent.       *)
Free == clearing = {}

Continued(s) == \E t \in published : s \in lineage[t]

(* The core runs s: it is published, not being rotated and not continued.  *)
Live(s) ==
  /\ s \in published
  /\ rotation[s].step = "idle"
  /\ ~Continued(s)

Rotates(s, r) == rotation' = [rotation EXCEPT ![s] = r]

Goto(s, step) == Rotates(s, [rotation[s] EXCEPT !.step = step])

-----------------------------------------------------------------------------
(* store.recover_prepared_compression, the first call of every operation.  *)

Completable(i) == ActiveOn(i.new) = {} /\ i.case \in ActiveOn(i.old)
AlreadyThere(i) == i.case \in ActiveOn(i.new)
Dormant(i) ==
  /\ ActiveOn(i.new) = {}
  /\ ActiveOn(i.old) = {}
  /\ cases[i.case].status \in {"paused", "closed"}

(* Faulty: removes the intent before the case has moved.                   *)
ClearThenMigrate(i) ==
  /\ Completable(i)
  /\ intents' = intents \ {i}
  /\ UNCHANGED <<cases, hw, clearing>>

CompleteMigration(i) ==
  /\ Completable(i)
  /\ Migrate(i.case, i.new)
  /\ clearing' = {i}
  /\ UNCHANGED intents

(* Faulty: takes a case that has moved already for a conflict.             *)
SettleDormant(i) ==
  /\ Dormant(i)
  /\ intents' = intents \ {i}
  /\ UNCHANGED <<cases, hw, clearing>>

Settle(i) ==
  /\ AlreadyThere(i) \/ Dormant(i)
  /\ intents' = intents \ {i}
  /\ UNCHANGED <<cases, hw, clearing>>

Recover(s) ==
  /\ Free
  /\ s \in published
  /\ \E i \in intents :
       /\ Targeting(s) = {i}
       /\ CompleteMigration(i) \/ Settle(i)
  /\ UNCHANGED <<core, rotation, ready>>

ClearIntent ==
  /\ clearing # {}
  /\ intents' = intents \ clearing
  /\ clearing' = {}
  /\ UNCHANGED <<cases, hw, core, rotation, ready>>

(* The lock holder dies between the two writes.                            *)
Crash ==
  /\ clearing # {}
  /\ clearing' = {}
  /\ UNCHANGED <<cases, hw, intents, core, rotation, ready>>

-----------------------------------------------------------------------------
(* harness.prepare_compression, one lock section or callback per action.   *)

(* The core is about to compress old into a child with a fresh id.         *)
BeginRotation(old, new) ==
  /\ old \in published
  /\ rotation[old].step = "idle"
  /\ new \notin minted
  /\ minted' = minted \cup {new}
  /\ Rotates(old, [Idle EXCEPT !.step = "recover", !.child = new])
  /\ UNCHANGED <<cases, hw, intents, clearing, published, lineage, ready>>

RecoverSource(old) ==
  /\ Free
  /\ rotation[old].step = "recover"
  /\ Targeting(old) = {}
  /\ Goto(old, "look")
  /\ UNCHANGED <<cases, hw, intents, clearing, core, ready>>

(* get_prepared_compression_from.                                          *)
Look(old) ==
  /\ Free
  /\ rotation[old].step = "look"
  /\ \/ /\ \A i \in From(old) : i.new = rotation[old].child
        /\ Goto(old, "prepare")
     \/ \E i \in From(old) :
          /\ From(old) = {i}
          /\ i.new # rotation[old].child
          /\ Rotates(old, [rotation[old] EXCEPT !.step = "prove", !.stale = i.new])
  /\ UNCHANGED <<cases, hw, intents, clearing, core, ready>>

(* The session_exists callback denies the stale target.                    *)
ProveAbsence(old) ==
  /\ rotation[old].step = "prove"
  /\ rotation[old].stale \notin published
  /\ Goto(old, "abort")
  /\ UNCHANGED <<cases, hw, intents, clearing, core, ready>>

AbortedIntent(old) == {i \in From(old) : i.new = rotation[old].stale}

(* Faulty: leaves a case that has moved where it is.                       *)
AbortForgets(old) ==
  /\ Free
  /\ rotation[old].step = "abort"
  /\ intents' = intents \ AbortedIntent(old)
  /\ Goto(old, IF rotation[old].child = NoSession THEN "idle" ELSE "prepare")
  /\ UNCHANGED <<cases, hw, clearing, core, ready>>

(* abort_prepared_compression; a moved case goes back before its intent.   *)
Abort(old) ==
  /\ Free
  /\ rotation[old].step = "abort"
  /\ IF \E i \in AbortedIntent(old) : ActiveOn(old) = {} /\ AlreadyThere(i)
       THEN \E i \in AbortedIntent(old) :
              /\ Migrate(i.case, old)
              /\ clearing' = {i}
              /\ UNCHANGED <<intents, rotation>>
       ELSE /\ \A i \in AbortedIntent(old) : i.case \in ActiveOn(old)
            /\ intents' = intents \ AbortedIntent(old)
            /\ Goto(old, IF rotation[old].child = NoSession THEN "idle" ELSE "prepare")
            /\ UNCHANGED <<cases, hw, clearing>>
  /\ UNCHANGED <<core, ready>>

(* store.prepare_compression; a session without an active case is rotated  *)
(* without an intent.                                                      *)
Prepare(old) ==
  LET child == rotation[old].child IN
    /\ Free
    /\ rotation[old].step = "prepare"
    /\ \/ /\ ActiveOn(old) = {}
          /\ Goto(old, "prepared")
          /\ UNCHANGED intents
       \/ \E c \in ActiveOn(old) :
            /\ ActiveOn(child) \subseteq {c}
            /\ \A i \in From(old) : i.new = child
            /\ intents' = (intents \ From(old))
                            \cup {[case |-> c, old |-> old, new |-> child]}
            /\ Rotates(old, [rotation[old] EXCEPT !.step = "prepared", !.case = {c}])
    /\ UNCHANGED <<cases, hw, clearing, core, ready>>

-----------------------------------------------------------------------------
(* The core (external).                                                    *)

Continues(child, old) ==
  lineage' = [lineage EXCEPT ![child] = lineage[old] \cup {old}]

Publish(old) ==
  LET child == rotation[old].child IN
    /\ rotation[old].step = "prepared"
    /\ published' = published \cup {child}
    /\ Continues(child, old)
    /\ Goto(old, "published")
    /\ UNCHANGED <<cases, hw, intents, clearing, minted, ready>>

(* The core of today: the child is published with nothing prepared for it. *)
RotateUnprepared(old, new) ==
  /\ old \in published
  /\ rotation[old].step = "idle"
  /\ new \notin minted
  /\ minted' = minted \cup {new}
  /\ published' = published \cup {new}
  /\ Continues(new, old)
  /\ UNCHANGED <<cases, hw, intents, clearing, rotation, ready>>

(* The rotation fails, before or after the child was published: the core   *)
(* takes the child back and calls harness.abort_compression.               *)
Rollback(old) ==
  LET child == rotation[old].child IN
    /\ rotation[old].step \in {"prepared", "published"}
    /\ rotation[child].step = "idle"
    /\ ~Continued(child)
    /\ published' = published \ {child}
    /\ lineage' = [lineage EXCEPT ![child] = {}]
    /\ ready' = [ready EXCEPT ![child] = FALSE]
    /\ Rotates(old, [rotation[old] EXCEPT !.step = "abort", !.child = NoSession,
                                          !.stale = child])
    /\ UNCHANGED <<cases, hw, intents, clearing, minted>>

(* The rotation is over, was refused, or the core died in it.              *)
Leave(old) ==
  /\ rotation[old].step # "idle"
  /\ Rotates(old, Idle)
  /\ UNCHANGED <<cases, hw, intents, clearing, core, ready>>

-----------------------------------------------------------------------------
(* Work of a session.                                                      *)

(* Faulty: starts without looking for an intent.                           *)
BeginUnrecovered(s) ==
  /\ Free
  /\ Live(s)
  /\ ready' = [ready EXCEPT ![s] = TRUE]
  /\ UNCHANGED <<cases, hw, intents, clearing, core, rotation>>

(* A tool call, model operation or result of s whose recovery found        *)
(* nothing left to recover.                                                *)
BeginOperation(s) ==
  /\ Free
  /\ Live(s)
  /\ Targeting(s) = {}
  /\ ready' = [ready EXCEPT ![s] = TRUE]
  /\ UNCHANGED <<cases, hw, intents, clearing, core, rotation>>

Operate(s) ==
  /\ Free
  /\ Live(s)
  /\ ready[s]
  /\ \E c \in Cases : Open(c, s) \/ Pause(c, s, FALSE) \/ Close(c, s) \/ Resume(c, s)
  /\ ready' = [ready EXCEPT ![s] = FALSE]
  /\ UNCHANGED <<intents, clearing, core, rotation>>

(* session_reset, session_finalize and subagent_stop recover nothing.      *)
LifecyclePause(s) ==
  /\ Free
  /\ \E c \in Cases, marked \in BOOLEAN : Pause(c, s, marked)
  /\ UNCHANGED <<intents, clearing, core, rotation, ready>>

ProofOfLife(s) ==
  /\ Free
  /\ Live(s)
  /\ \E c \in Cases : AutoResume(c, s)
  /\ UNCHANGED <<intents, clearing, core, rotation, ready>>

(* A session has a case to pass on while one is at work there, or waits    *)
(* there for proof of life.                                                *)
Offers(s) == ActiveOn(s) # {} \/ \E c \in Cases : MarkerValid(c, s)

(* Faulty: walks the lineage from its root.                                *)
Eldest(s) ==
  {a \in lineage[s] : Offers(a) /\ \A b \in lineage[a] : ~Offers(b)}

(* The last session before s that has a case to pass on.                   *)
Nearest(s) ==
  {a \in lineage[s] :
     Offers(a) /\ \A b \in lineage[s] : a \in lineage[b] => ~Offers(b)}

(* A case follows the published lineage from however far back, whatever    *)
(* the intents say: migrate_lineage_case at a plugin boundary, or          *)
(* session_compress once there is no intent to recover.                    *)
Follow(s) ==
  /\ Free
  /\ s \in published
  /\ \E a \in Nearest(s), c \in Cases :
       \/ c \in ActiveOn(a) /\ Migrate(c, s)
       \/ ActiveOn(a) = {} /\ Adopt(c, a, s)
  /\ UNCHANGED <<intents, clearing, core, rotation, ready>>

-----------------------------------------------------------------------------
BoundaryInit ==
  /\ Init
  /\ intents = {}
  /\ clearing = {}
  /\ published = {Root}
  /\ minted = {Root}
  /\ lineage = [s \in Sessions |-> {}]
  /\ rotation = [s \in Sessions |-> Idle]
  /\ ready = [s \in Sessions |-> FALSE]

BoundaryNext ==
  \/ ClearIntent
  \/ Crash
  \/ \E s \in Sessions :
       \/ Recover(s)
       \/ \E new \in Sessions : BeginRotation(s, new) \/ RotateUnprepared(s, new)
       \/ RecoverSource(s) \/ Look(s) \/ ProveAbsence(s) \/ Abort(s) \/ Prepare(s)
       \/ Publish(s) \/ Rollback(s) \/ Leave(s)
       \/ BeginOperation(s) \/ Operate(s)
       \/ LifecyclePause(s) \/ ProofOfLife(s) \/ Follow(s)

BoundarySpec == BoundaryInit /\ [][BoundaryNext]_bvars

(* A published child keeps working, and each operation recovers first; the *)
(* lock holder goes on unless it dies.                                     *)
BoundaryFairness ==
  /\ WF_bvars(ClearIntent)
  /\ \A s \in Sessions : WF_bvars(Recover(s))

FairBoundarySpec == BoundarySpec /\ BoundaryFairness

-----------------------------------------------------------------------------
(* Correctness.                                                            *)

(* The child of a rotation that reached "prepared", or was published.      *)
Promised(s) ==
  \/ s \in published
  \/ \E old \in Sessions : rotation[old].step = "prepared" /\ rotation[old].child = s

(* No operation of a child runs while a prepared migration to it is still  *)
(* outstanding (recover_prepared_compression: "complete a prepared         *)
(* migration before the child can execute anything").                      *)
ExecutesRecovered == \A s \in Sessions : ready[s] => Targeting(s) = {}

(* While the parent still holds the case it promised to a child, the       *)
(* promise is not taken away: not by a crash in the middle of a recovery,  *)
(* and not by another rotation that takes the child for absent.            *)
PromiseIsKept ==
  [][\A i \in intents :
       /\ Promised(i.new)
       /\ Promised(i.new)'
       /\ i.case \in ActiveOn(i.old)
       => i \in intents']_bvars

(* An abort that finds the intent gives the case back before the intent is *)
(* gone, also when the child's recovery was cut off after the migration.   *)
AbortReturnsTheCase ==
  [][\A i \in intents \ intents' :
       Free /\ rotation[i.old].step = "abort" => i.case \in ActiveOn(i.old)]_bvars

(* A published child is refused its recovery, and with it every tool, only *)
(* after the prepared case has left its parent.  While the case is there,  *)
(* no second intent and no other case comes between it and the child.      *)
RefusedOnlyIfCaseLeft ==
  \A s \in published : \A i \in Targeting(s) :
    /\ Targeting(s) = {i}
    /\ i.case \in ActiveOn(i.old) => Completable(i)

(* What recover_prepared_compression refuses: another case is at work on   *)
(* one of the two sessions, or the prepared one on a third.                *)
Refused(i) ==
  \/ (ActiveOn(i.old) \cup ActiveOn(i.new)) \ {i.case} # {}
  \/ /\ cases[i.case].status = "active"
     /\ cases[i.case].session \notin {i.old, i.new}

(* A published child is eventually free of its intent, unless its recovery *)
(* is refused or the bound on transitions is reached.                      *)
ChildIsServed ==
  \A s \in Sessions :
    (s \in published /\ Targeting(s) # {}) ~>
      \/ s \notin published
      \/ Targeting(s) = {}
      \/ \E i \in Targeting(s) : Refused(i) \/ cases[i.case].revision = MaxRevision

(* What a docstring says, and the code does not do.                        *)
(* "Restore a prepared case binding before core reopens the parent"        *)
(* (harness.abort_compression): an abort that answers does not leave the   *)
(* prepared case on the child the core took back.                          *)
AbortRestoresParent ==
  [][\A old \in Sessions :
       /\ rotation[old].step = "abort"
       /\ rotation[old].child = NoSession
       /\ Abort(old)
       /\ rotation'[old].step = "idle"
       => rotation[old].case \cap ActiveOn(rotation[old].stale)' = {}]_bvars
=============================================================================
