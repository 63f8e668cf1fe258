---------------------- MODULE CompressionBoundaryProofs ----------------------
(***************************************************************************)
(* The ledger's promises, and what a compression keeps of the ledger, for  *)
(* every number of cases, sessions and transitions and whatever the core   *)
(* does among the lock sections of the harness.                            *)
(*                                                                         *)
(* The ledger needs to know that markers were issued and are distinct.     *)
(* The strengthening of the boundary follows the ids: a child belongs to   *)
(* one rotation and is not published before that rotation says so, an      *)
(* intent names a child of its own parent, and what an abort takes for     *)
(* absent is published by nobody any more.                                 *)
(*                                                                         *)
(* What a child may be refused for needs more: who could come between it   *)
(* and its case, when every session follows its whole lineage and some are *)
(* continued with nothing prepared.  The last part follows the case: while *)
(* its source holds it the child has none, and once it has left it is      *)
(* nowhere from where the source could get it back.                        *)
(***************************************************************************)
EXTENDS CompressionBoundary, TLAPS

-----------------------------------------------------------------------------
(* The ledger alone.                                                       *)

(* Strengthening: a marker is a sequence number already handed out in the  *)
(* session of its case, and no two paused cases of a session share one.    *)
MarkersIssued ==
  \A c \in Cases :
    cases[c].status = "paused" =>
      /\ cases[c].session \in Sessions
      /\ cases[c].marker <= hw[cases[c].session]

MarkersDistinct ==
  \A c, d \in Cases :
    /\ cases[c].status = "paused"
    /\ cases[d].status = "paused"
    /\ cases[c].session = cases[d].session
    /\ cases[c].marker = cases[d].marker
    /\ cases[c].marker # 0
    => c = d

Inv == TypeOK /\ OneActivePerSession /\ MarkersIssued /\ MarkersDistinct

-----------------------------------------------------------------------------
(* Every action replaces the record of one case: what Next does to it.     *)
Replaces(c, r) ==
  /\ r \in CaseRec
  /\ cases' = [cases EXCEPT ![c] = r]

(* Advance writes a well-typed record.                                     *)
LEMMA AdvanceReplaces ==
  ASSUME TypeOK, NEW c \in Cases, NEW status \in Status,
         NEW s \in Sessions \cup {NoSession}, NEW n \in Nat,
         Advance(c, status, s, n)
  PROVE  Replaces(c, [status |-> status, session |-> s,
                      revision |-> cases[c].revision + 1, marker |-> n])
  BY DEF TypeOK, CaseRec, Advance, Replaces

(* The steps that make case c active on session s.                         *)
LEMMA ActivationKeepsInv ==
  ASSUME Inv, NEW c \in Cases, NEW s \in Sessions, ActiveOn(s) = {},
         Advance(c, "active", s, 0), Dispose(s)
  PROVE  Inv'
<1> DEFINE r == [status |-> "active", session |-> s,
                 revision |-> cases[c].revision + 1, marker |-> 0]
<1>1. r \in CaseRec /\ cases' = [cases EXCEPT ![c] = r]
  BY AdvanceReplaces DEF Inv, Status, Replaces
<1>2. hw' = [hw EXCEPT ![s] = hw[s] + 1]
  BY DEF Dispose
<1>3. TypeOK'
  BY <1>1, <1>2 DEF Inv, TypeOK
<1>4. \A d \in Cases : ~(cases[d].status = "active" /\ cases[d].session = s)
  BY DEF ActiveOn
<1>5. OneActivePerSession'
  BY <1>1, <1>4 DEF Inv, TypeOK, OneActivePerSession, ActiveOn
<1>6. MarkersIssued'
  BY <1>1, <1>2 DEF Inv, TypeOK, CaseRec, MarkersIssued
<1>7. MarkersDistinct'
  BY <1>1 DEF Inv, TypeOK, MarkersDistinct
<1> QED BY <1>3, <1>5, <1>6, <1>7 DEF Inv

(* The steps that retire an active case from its session, or move a paused *)
(* one: the marker they write, if any, is the number they draw.            *)
LEMMA RetirementKeepsInv ==
  ASSUME Inv, NEW c \in Cases, NEW s \in Sessions, NEW n \in {0, hw[s] + 1},
         NEW status \in {"paused", "closed"},
         Advance(c, status, s, n), Dispose(s)
  PROVE  Inv'
<1> DEFINE r == [status |-> status, session |-> s,
                 revision |-> cases[c].revision + 1, marker |-> n]
<1>0. n \in Nat /\ hw[s] \in Nat
  BY DEF Inv, TypeOK
<1>1. r \in CaseRec /\ cases' = [cases EXCEPT ![c] = r]
  BY <1>0, AdvanceReplaces DEF Inv, Status, Replaces
<1>2. hw' = [hw EXCEPT ![s] = hw[s] + 1]
  BY DEF Dispose
<1>3. TypeOK'
  BY <1>1, <1>2 DEF Inv, TypeOK
<1>5. OneActivePerSession'
  BY <1>1 DEF Inv, TypeOK, OneActivePerSession, ActiveOn
<1>6. MarkersIssued'
  BY <1>0, <1>1, <1>2 DEF Inv, TypeOK, CaseRec, MarkersIssued
<1>7. MarkersDistinct'
  BY <1>0, <1>1 DEF Inv, TypeOK, CaseRec, MarkersIssued, MarkersDistinct
<1> QED BY <1>3, <1>5, <1>6, <1>7 DEF Inv

(* A transition that is no disposition (update_case) moves revisions only. *)
LEMMA UpdateKeepsInv ==
  ASSUME Inv, NEW c \in Cases, Update(c)
  PROVE  Inv'
<1>1. cases[c] \in CaseRec
  BY DEF Inv, TypeOK
<1>2. /\ cases' = [cases EXCEPT ![c] = [status   |-> cases[c].status,
                                        session  |-> cases[c].session,
                                        revision |-> cases[c].revision + 1,
                                        marker   |-> cases[c].marker]]
      /\ cases'[c] \in CaseRec
      /\ hw' = hw
  BY <1>1 DEF Inv, TypeOK, Update, Advance, CaseRec
<1>3. TypeOK'
  BY <1>1, <1>2 DEF Inv, TypeOK
<1>4. \A d \in Cases : /\ cases'[d].status = cases[d].status
                       /\ cases'[d].session = cases[d].session
                       /\ cases'[d].marker = cases[d].marker
  BY <1>2 DEF Inv, TypeOK
<1>5. OneActivePerSession' /\ MarkersIssued' /\ MarkersDistinct'
  BY <1>2, <1>4 DEF Inv, OneActivePerSession, ActiveOn, MarkersIssued, MarkersDistinct
<1> QED BY <1>3, <1>5 DEF Inv

(* Every step of the ledger keeps the inductive invariant.                 *)
LEMMA StepKeepsInv == Inv /\ [Next]_vars => Inv'
<1> SUFFICES ASSUME Inv, [Next]_vars PROVE Inv'
  OBVIOUS
<1>1. CASE UNCHANGED vars
  BY <1>1 DEF vars, Inv, TypeOK, OneActivePerSession, ActiveOn, MarkersIssued, MarkersDistinct
<1>2. ASSUME NEW c \in Cases, Update(c) PROVE Inv'
  BY <1>2, UpdateKeepsInv
<1>3. ASSUME NEW c \in Cases, NEW s \in Sessions, Open(c, s) PROVE Inv'
  BY <1>3, ActivationKeepsInv DEF Open
<1>4. ASSUME NEW c \in Cases, NEW s \in Sessions, NEW marked \in BOOLEAN, Pause(c, s, marked)
      PROVE Inv'
  BY <1>4, RetirementKeepsInv DEF Pause
<1>5. ASSUME NEW c \in Cases, NEW s \in Sessions, Close(c, s) PROVE Inv'
  BY <1>5, RetirementKeepsInv DEF Close
<1>6. ASSUME NEW c \in Cases, NEW s \in Sessions, Resume(c, s) PROVE Inv'
  BY <1>6, ActivationKeepsInv DEF Resume
<1>7. ASSUME NEW c \in Cases, NEW s \in Sessions, AutoResume(c, s) PROVE Inv'
  BY <1>7, ActivationKeepsInv DEF AutoResume
<1>8. ASSUME NEW c \in Cases, NEW s \in Sessions, Migrate(c, s) PROVE Inv'
  BY <1>8, ActivationKeepsInv DEF Migrate
<1>9. ASSUME NEW c \in Cases, NEW s \in Sessions, NEW child \in Sessions, Adopt(c, s, child)
      PROVE Inv'
  <2>1. (IF hw[child] = 0 THEN 1 ELSE 0) \in {0, hw[child] + 1}
    BY DEF Inv, TypeOK
  <2> QED BY <1>9, <2>1, RetirementKeepsInv DEF Adopt
<1> QED
  BY <1>1, <1>2, <1>3, <1>4, <1>5, <1>6, <1>7, <1>8, <1>9 DEF Next

(* The inductive invariant holds in every state of the ledger: types,
   exclusive sessions, and markers below or at their session's high-water. *)
THEOREM LedgerInvariant == Spec => []Inv
<1>1. Init => Inv
  BY NoSessionAssumption
     DEF Init, Inv, TypeOK, CaseRec, Status, NoCase, OneActivePerSession,
         ActiveOn, MarkersIssued, MarkersDistinct
<1> QED BY <1>1, StepKeepsInv, PTL DEF Spec

(* For any number of cases and sessions, and whatever the order of opens,  *)
(* pauses, resumes and migrations, a session never has two active cases.   *)
THEOREM LedgerExclusive == Spec => []OneActivePerSession
<1>1. Inv => OneActivePerSession
  BY DEF Inv
<1> QED BY <1>1, LedgerInvariant, PTL

(* At most one paused case of a session can be auto-resumed.               *)
THEOREM LedgerMarkers == Spec => []OneValidMarkerPerSession
<1>1. Inv => OneValidMarkerPerSession
  BY DEF Inv, OneValidMarkerPerSession, MarkersDistinct, MarkerValid, TypeOK, CaseRec
<1> QED BY <1>1, LedgerInvariant, PTL

(* A marker overtaken by a later disposition of its session is never valid *)
(* again: sequence numbers only grow.                                      *)
THEOREM LedgerStaleMarkers == Spec => StaleMarkerStaysStale
<1> DEFINE A == \A c \in Cases, s \in Sessions :
                  /\ cases[c].status = "paused"
                  /\ cases[c].session = s
                  /\ ~MarkerValid(c, s)
                  => ~MarkerValid(c, s)'
<1>1. Inv /\ [Next]_vars => [A]_vars
  <2> SUFFICES ASSUME Inv, Next,
                      NEW c \in Cases, NEW s \in Sessions,
                      cases[c].status = "paused", cases[c].session = s,
                      ~MarkerValid(c, s)
               PROVE  ~MarkerValid(c, s)'
    OBVIOUS
  <2>1. /\ cases[c].marker \in Nat /\ hw[s] \in Nat
        /\ cases[c].marker <= hw[s]
    BY DEF Inv, TypeOK, CaseRec, MarkersIssued
  <2>2. hw'[s] \in {hw[s], hw[s] + 1}
    BY DEF Inv, TypeOK, Next, Update, Open, Pause, Close, Resume, AutoResume,
           Migrate, Adopt, Dispose
  <2>3. CASE cases'[c].status = "paused" /\ cases'[c].session = s
             /\ cases'[c].marker = cases[c].marker
    BY <2>1, <2>2, <2>3 DEF MarkerValid
  <2>4. CASE cases'[c].status # "paused"
    BY <2>4 DEF MarkerValid
  <2>5. cases'[c].status # "paused" \/ cases'[c] = cases[c]
        \/ (/\ cases'[c].session = cases[c].session
            /\ cases'[c].marker = cases[c].marker)
    <3>1. ASSUME NEW d \in Cases, Update(d)
          PROVE  /\ cases'[c].session = cases[c].session
                 /\ cases'[c].marker = cases[c].marker
      BY <3>1 DEF Update, Advance, Inv, TypeOK
    <3>2. ASSUME NEW d \in Cases, NEW t \in Sessions, NEW marked \in BOOLEAN,
                 Open(d, t) \/ Pause(d, t, marked) \/ Close(d, t)
          PROVE  cases'[c] = cases[c]
      BY <3>2 DEF Open, Pause, Close, Advance, Inv, TypeOK
    <3>3. ASSUME NEW d \in Cases, NEW t \in Sessions,
                 Resume(d, t) \/ AutoResume(d, t) \/ Migrate(d, t)
          PROVE  cases'[c].status # "paused" \/ cases'[c] = cases[c]
      BY <3>3 DEF Resume, AutoResume, Migrate, Advance, Inv, TypeOK
    <3>4. ASSUME NEW d \in Cases, NEW t \in Sessions, NEW child \in Sessions,
                 Adopt(d, t, child)
          PROVE  cases'[c] = cases[c]
      <4>1. d # c
        BY <3>4 DEF Adopt, MarkerValid
      <4> QED BY <3>4, <4>1 DEF Adopt, Advance, Inv, TypeOK
    <3> QED BY <3>1, <3>2, <3>3, <3>4 DEF Next
  <2> QED BY <2>3, <2>4, <2>5 DEF MarkerValid
<1> QED BY <1>1, LedgerInvariant, PTL DEF Spec, StaleMarkerStaysStale

-----------------------------------------------------------------------------
(* The boundary around it.                                                 *)

ChildOf(s) == rotation[s].child

ChildrenKept ==
  /\ \A s \in Sessions : ChildOf(s) # NoSession => ChildOf(s) \in minted /\ ChildOf(s) # s
  /\ \A s, t \in Sessions : ChildOf(s) = ChildOf(t) /\ ChildOf(s) # NoSession => s = t
  /\ \A s \in Sessions :
       /\ rotation[s].step \in {"recover", "look", "prove", "abort", "prepare", "prepared"}
            => ChildOf(s) \notin published
       /\ rotation[s].step \in {"recover", "look", "prove", "prepare", "prepared", "published"}
            => ChildOf(s) # NoSession

Unclaimed(s) == \A t \in Sessions : ChildOf(t) # s

StalesKept ==
  \A s \in Sessions :
    /\ rotation[s].stale # NoSession =>
         rotation[s].stale \in minted /\ Unclaimed(rotation[s].stale)
    /\ rotation[s].step = "abort" => rotation[s].stale \notin published

IntentsKept ==
  \A i \in intents :
    /\ i.old # i.new
    /\ i.new \in minted
    /\ \A s \in Sessions : ChildOf(s) = i.new => s = i.old

(* A rotation past its look has no intents but those of its child, and one *)
(* that aborts none but those it aborts.                                   *)
Aimed(s, r, some) ==
  \A i \in some :
    i.old = s =>
      /\ r.step \in {"prepare", "prepared", "published"} => i.new = r.child
      /\ r.step \in {"prove", "abort"} => i.new = r.stale

SourcesKept == \A s \in Sessions : Aimed(s, rotation[s], intents)

ClearingKept ==
  \A i \in clearing :
    /\ clearing = {i}
    /\ i.case \in ActiveOn(i.old) => i.new \notin published /\ Unclaimed(i.new)

ReadyKept == \A s \in Sessions : ready[s] => s \in published

BInv ==
  /\ BoundaryTypeOK /\ Inv
  /\ ChildrenKept /\ StalesKept /\ IntentsKept /\ SourcesKept /\ ClearingKept /\ ReadyKept
  /\ ExecutesRecovered

-----------------------------------------------------------------------------
(* The ledger sees nothing but transitions of its own.                     *)
LEMMA LedgerStep ==
  ASSUME BoundaryTypeOK, [BoundaryNext]_bvars
  PROVE  [Next]_vars
<1>1. \A i \in intents : i.case \in Cases /\ i.old \in Sessions /\ i.new \in Sessions
  BY DEF BoundaryTypeOK, Intent
<1>2. CASE ClearIntent \/ Crash
  BY <1>2 DEF ClearIntent, Crash, vars
<1>3. ASSUME NEW s \in Sessions, Recover(s) PROVE [Next]_vars
  <2>1. PICK i \in intents : CompleteMigration(i) \/ Settle(i)
    BY <1>3 DEF Recover
  <2> QED  BY <1>1, <2>1 DEF CompleteMigration, Settle, Next, vars
<1>4. ASSUME NEW s \in Sessions, NEW new \in Sessions,
             BeginRotation(s, new) \/ RotateUnprepared(s, new)
      PROVE  [Next]_vars
  BY <1>4 DEF BeginRotation, RotateUnprepared, vars
<1>5. ASSUME NEW s \in Sessions, RecoverSource(s) \/ Look(s) \/ ProveAbsence(s)
      PROVE  [Next]_vars
  BY <1>5 DEF RecoverSource, Look, ProveAbsence, vars
<1>6. ASSUME NEW s \in Sessions, Abort(s) PROVE [Next]_vars
  BY <1>1, <1>6 DEF Abort, AbortedIntent, From, Next, vars
<1>7. ASSUME NEW s \in Sessions, Prepare(s) \/ Publish(s) \/ Rollback(s) \/ Leave(s)
      PROVE  [Next]_vars
  BY <1>7 DEF Prepare, Publish, Rollback, Leave, vars
<1>8. ASSUME NEW s \in Sessions, BeginOperation(s) PROVE [Next]_vars
  BY <1>8 DEF BeginOperation, vars
<1>9. ASSUME NEW s \in Sessions, Operate(s) \/ LifecyclePause(s) \/ ProofOfLife(s)
      PROVE  [Next]_vars
  BY <1>9 DEF Operate, LifecyclePause, ProofOfLife, Next
<1>10. ASSUME NEW s \in Sessions, Follow(s) PROVE [Next]_vars
  <2>1. Nearest(s) \subseteq Sessions
    BY DEF Nearest, BoundaryTypeOK
  <2> QED  BY <1>10, <2>1 DEF Follow, Next
<1>11. CASE UNCHANGED bvars
  BY <1>11 DEF bvars, vars
<1> QED  BY <1>2, <1>3, <1>4, <1>5, <1>6, <1>7, <1>8, <1>9, <1>10, <1>11 DEF BoundaryNext

(* ... which keeps the ledger in order.                                    *)
LEMMA LedgerKept ==
  ASSUME BInv, [BoundaryNext]_bvars
  PROVE  Inv' /\ TypeOK'
BY LedgerStep, StepKeepsInv DEF BInv, Inv

-----------------------------------------------------------------------------
(* What the strengthening says, by session and by intent.                  *)
LEMMA Facts ==
  ASSUME BInv
  PROVE  /\ NoSession \notin Sessions /\ published \subseteq minted /\ minted \subseteq Sessions
         /\ clearing \subseteq intents
         /\ \A s \in Sessions : /\ rotation[s] \in Rotation /\ ready[s] \in BOOLEAN
                                /\ ChildOf(s) \in Sessions \cup {NoSession}
         /\ \A i \in intents : i.case \in Cases /\ i.old \in Sessions /\ i.new \in Sessions
BY NoSessionAssumption DEF BInv, BoundaryTypeOK, Intent, Rotation, ChildOf

(* A record that rotation s may take on.                                   *)
Fits(s, r) ==
  /\ r.child \in {ChildOf(s), NoSession}
  /\ r.step \in {"recover", "look", "prove", "abort", "prepare", "prepared"}
       => r.child \notin published
  /\ r.step \in {"recover", "look", "prove", "prepare", "prepared", "published"}
       => r.child # NoSession
  /\ r.stale # NoSession =>
       /\ r.stale \in minted /\ r.child # r.stale
       /\ \A t \in Sessions \ {s} : ChildOf(t) # r.stale
  /\ r.step = "abort" => r.stale \notin published

(* The ids of s once it is known what its rotation becomes.                *)
LEMMA Rotated ==
  ASSUME BInv, NEW s \in Sessions, NEW r \in Rotation, Rotates(s, r)
  PROVE  /\ rotation' \in [Sessions -> Rotation]
         /\ rotation'[s] = r /\ ChildOf(s)' = r.child
         /\ \A t \in Sessions \ {s} : rotation'[t] = rotation[t] /\ ChildOf(t)' = ChildOf(t)
BY DEF BInv, BoundaryTypeOK, Rotates, ChildOf

(* A step of one rotation keeps the ids apart.                             *)
LEMMA RotationKeeps ==
  ASSUME BInv, NEW s \in Sessions, NEW r \in Rotation, Rotates(s, r), Fits(s, r),
         UNCHANGED <<core, cases, clearing>>
  PROVE  ChildrenKept' /\ StalesKept' /\ ClearingKept'
<1>1. /\ ChildrenKept /\ StalesKept /\ ClearingKept
      /\ published' = published /\ minted' = minted /\ clearing' = clearing
      /\ \A t : ActiveOn(t)' = ActiveOn(t)
  BY DEF BInv, core, ActiveOn
<1>2. \A t \in Sessions : ChildOf(t)' \in {ChildOf(t), NoSession}
  BY Rotated DEF Fits
<1>3. ChildrenKept'
  BY <1>1, <1>2, Rotated DEF ChildrenKept, Fits
<1>4. \A t \in minted : Unclaimed(t) => Unclaimed(t)'
  BY <1>2, Facts DEF Unclaimed
<1>5. StalesKept'
  <2>1. r.stale # NoSession => r.stale \in minted /\ Unclaimed(r.stale)'
    BY Rotated DEF Fits, Unclaimed
  <2>2. r.step = "abort" => r.stale \notin published
    BY DEF Fits
  <2>3. \A t \in Sessions \ {s} : rotation'[t] = rotation[t]
    BY Rotated
  <2> QED  BY <1>1, <1>4, <2>1, <2>2, <2>3, Rotated DEF StalesKept
<1>6. ClearingKept'
  <2>1. \A i \in clearing : i.new \in minted
    BY Facts DEF BInv, IntentsKept
  <2> QED  BY <1>1, <1>4, <2>1 DEF ClearingKept
<1> QED  BY <1>3, <1>5, <1>6

(* ... and its intents with them, if the ones it adds are its own.         *)
LEMMA IntentsStay ==
  ASSUME BInv, NEW s \in Sessions, NEW r \in Rotation, Rotates(s, r), Fits(s, r),
         minted' = minted,
         \A i \in intents' \ intents :
           /\ i.old = s /\ i.new = ChildOf(s)
           /\ ChildOf(s) # NoSession
  PROVE  IntentsKept'
<1>1. ChildrenKept /\ IntentsKept
  BY DEF BInv
<1>2. \A t \in Sessions : ChildOf(t)' \in {ChildOf(t), NoSession}
  BY Rotated DEF Fits
<1> SUFFICES ASSUME NEW i \in intents'
             PROVE  /\ i.old # i.new /\ i.new \in minted
                    /\ \A t \in Sessions : ChildOf(t)' = i.new => t = i.old
  BY DEF IntentsKept
<1>3. CASE i \in intents
  BY <1>1, <1>2, <1>3, Facts DEF IntentsKept
<1>4. CASE i \notin intents
  BY <1>1, <1>2, <1>4, Facts DEF ChildrenKept
<1> QED  BY <1>3, <1>4

-----------------------------------------------------------------------------
(* The five actions of a preparation that only move its rotation, with or  *)
(* without the intent.                                                     *)
LEMMA PreparationKeeps ==
  ASSUME BInv, NEW s \in Sessions,
         RecoverSource(s) \/ Look(s) \/ ProveAbsence(s) \/ Prepare(s) \/ Leave(s)
  PROVE  \E r \in Rotation :
           /\ Rotates(s, r) /\ Fits(s, r) /\ UNCHANGED <<core, cases, clearing, ready>>
           /\ intents' \subseteq Intent /\ (clearing = {} \/ intents' = intents)
           /\ Aimed(s, r, intents')
           /\ \A i \in intents' \ intents :
                i.old = s /\ i.new = ChildOf(s) /\ ChildOf(s) # NoSession
                /\ ChildOf(s) \notin published
<1>1. /\ rotation[s] \in Rotation /\ ChildrenKept /\ StalesKept /\ IntentsKept
      /\ intents \subseteq Intent /\ BoundaryTypeOK
      /\ ChildOf(s) = rotation[s].child /\ Aimed(s, rotation[s], intents)
  BY Facts DEF BInv, BoundaryTypeOK, SourcesKept, ChildOf
<1>2. /\ rotation[s].stale # NoSession =>
           rotation[s].stale \in minted /\ \A t \in Sessions : ChildOf(t) # rotation[s].stale
  BY <1>1 DEF StalesKept, Unclaimed
<1>3. CASE RecoverSource(s)
  <2> DEFINE r == [rotation[s] EXCEPT !.step = "look"]
  <2>1. /\ r \in Rotation /\ r.step = "look" /\ r.child = ChildOf(s)
        /\ r.stale = rotation[s].stale
    BY <1>1 DEF Rotation, RotationSteps
  <2>2. Rotates(s, r) /\ UNCHANGED <<core, cases, clearing, ready, intents>>
    BY <1>3 DEF RecoverSource, Goto
  <2>3. r.child \notin published /\ r.child # NoSession
    BY <1>1, <1>3, <2>1 DEF RecoverSource, ChildrenKept
  <2> HIDE DEF r
  <2>4. Fits(s, r)
    BY <1>2, <2>1, <2>3 DEF Fits
  <2>5. Aimed(s, r, intents')
    BY <2>1 DEF Aimed
  <2> QED  BY <1>1, <2>1, <2>2, <2>4, <2>5
<1>4. CASE Look(s) /\ Goto(s, "prepare") /\ \A i \in From(s) : i.new = ChildOf(s)
  <2> DEFINE r == [rotation[s] EXCEPT !.step = "prepare"]
  <2>1. /\ r \in Rotation /\ r.step = "prepare" /\ r.child = ChildOf(s)
        /\ r.stale = rotation[s].stale
    BY <1>1 DEF Rotation, RotationSteps
  <2>2. Rotates(s, r) /\ UNCHANGED <<core, cases, clearing, ready, intents>>
    BY <1>4 DEF Look, Goto
  <2>3. r.child \notin published /\ r.child # NoSession
    BY <1>1, <1>4, <2>1 DEF Look, ChildrenKept
  <2> HIDE DEF r
  <2>4. Fits(s, r)
    BY <1>2, <2>1, <2>3 DEF Fits
  <2>5. Aimed(s, r, intents')
    BY <1>4, <2>1, <2>2 DEF Aimed, From
  <2> QED  BY <1>1, <2>1, <2>2, <2>4, <2>5
<1>5. CASE Look(s) /\ ~(Goto(s, "prepare") /\ \A i \in From(s) : i.new = ChildOf(s))
  <2>1. PICK i \in From(s) :
          /\ i.new # ChildOf(s) /\ From(s) = {i}
          /\ Rotates(s, [rotation[s] EXCEPT !.step = "prove", !.stale = i.new])
    BY <1>5 DEF Look, ChildOf
  <2> DEFINE r == [rotation[s] EXCEPT !.step = "prove", !.stale = i.new]
  <2>2. i \in intents /\ i.old = s /\ i.new \in Sessions /\ i.new \in minted
    BY <1>1, <2>1, Facts DEF From, IntentsKept
  <2>3. \A t \in Sessions : ChildOf(t) # i.new
    BY <1>1, <2>1, <2>2 DEF IntentsKept
  <2>4. r \in Rotation /\ r.step = "prove" /\ r.child = ChildOf(s) /\ r.stale = i.new
    BY <1>1, <2>2 DEF Rotation, RotationSteps
  <2>5. Rotates(s, r) /\ UNCHANGED <<core, cases, clearing, ready, intents>>
    BY <1>5, <2>1 DEF Look
  <2>6. r.child \notin published /\ r.child # NoSession
    BY <1>1, <1>5, <2>4 DEF Look, ChildrenKept
  <2> HIDE DEF r
  <2>7. Fits(s, r)
    BY <2>1, <2>2, <2>3, <2>4, <2>6 DEF Fits
  <2>8. Aimed(s, r, intents')
    BY <2>1, <2>4, <2>5 DEF Aimed, From
  <2> QED  BY <1>1, <2>4, <2>5, <2>7, <2>8
<1>6. CASE ProveAbsence(s)
  <2> DEFINE r == [rotation[s] EXCEPT !.step = "abort"]
  <2>1. /\ r \in Rotation /\ r.step = "abort" /\ r.child = ChildOf(s)
        /\ r.stale = rotation[s].stale
    BY <1>1 DEF Rotation, RotationSteps
  <2>2. Rotates(s, r) /\ UNCHANGED <<core, cases, clearing, ready, intents>>
    BY <1>6 DEF ProveAbsence, Goto
  <2>3. r.child \notin published /\ r.stale \notin published
    BY <1>1, <1>6, <2>1 DEF ProveAbsence, ChildrenKept
  <2> HIDE DEF r
  <2>4. Fits(s, r)
    BY <1>2, <2>1, <2>3 DEF Fits
  <2>5. Aimed(s, r, intents')
    BY <1>1, <1>6, <2>1, <2>2 DEF ProveAbsence, Aimed
  <2> QED  BY <1>1, <2>1, <2>2, <2>4, <2>5
<1>7. CASE Leave(s)
  <2>1. /\ Idle \in Rotation /\ Idle.step = "idle" /\ Idle.child = NoSession
        /\ Idle.stale = NoSession
    BY DEF Idle, Rotation, RotationSteps
  <2>2. Fits(s, Idle)
    BY <2>1, Facts DEF Fits
  <2>3. Rotates(s, Idle) /\ UNCHANGED <<core, cases, clearing, ready, intents>>
    BY <1>7 DEF Leave
  <2>4. Aimed(s, Idle, intents')
    BY <2>1 DEF Aimed
  <2> QED  BY <1>1, <2>1, <2>2, <2>3, <2>4
<1>8. CASE Prepare(s)
  <2>1. /\ UNCHANGED <<core, cases, clearing, ready>> /\ clearing = {}
        /\ ChildOf(s) \notin published /\ ChildOf(s) # NoSession
    BY <1>1, <1>8 DEF Prepare, Free, ChildrenKept
  <2>2. CASE Goto(s, "prepared") /\ UNCHANGED intents
    <3> DEFINE r == [rotation[s] EXCEPT !.step = "prepared"]
    <3>1. /\ r \in Rotation /\ r.step = "prepared" /\ r.child = ChildOf(s)
          /\ r.stale = rotation[s].stale
      BY <1>1 DEF Rotation, RotationSteps
    <3>2. Rotates(s, r)
      BY <2>2 DEF Goto
    <3> HIDE DEF r
    <3>3. Fits(s, r)
      BY <1>2, <2>1, <3>1 DEF Fits
    <3>4. Aimed(s, r, intents')
      BY <1>1, <1>8, <2>2, <3>1 DEF Prepare, Aimed
    <3> QED  BY <1>1, <2>1, <2>2, <3>1, <3>2, <3>3, <3>4
  <2>3. ASSUME NEW c \in ActiveOn(s),
               intents' = (intents \ From(s)) \cup {[case |-> c, old |-> s, new |-> ChildOf(s)]},
               Rotates(s, [rotation[s] EXCEPT !.step = "prepared", !.case = {c}])
        PROVE  \E r \in Rotation :
           /\ Rotates(s, r) /\ Fits(s, r) /\ UNCHANGED <<core, cases, clearing, ready>>
           /\ intents' \subseteq Intent /\ (clearing = {} \/ intents' = intents)
           /\ Aimed(s, r, intents')
           /\ \A i \in intents' \ intents :
                i.old = s /\ i.new = ChildOf(s) /\ ChildOf(s) # NoSession
                /\ ChildOf(s) \notin published
    <3> DEFINE r == [rotation[s] EXCEPT !.step = "prepared", !.case = {c}]
               j == [case |-> c, old |-> s, new |-> ChildOf(s)]
    <3>1. c \in Cases
      BY DEF ActiveOn
    <3>2. /\ r \in Rotation /\ r.step = "prepared" /\ r.child = ChildOf(s)
          /\ r.stale = rotation[s].stale
      BY <1>1, <3>1 DEF Rotation, RotationSteps
    <3>3. ChildOf(s) \in Sessions
      BY <2>1, Facts
    <3>4. j \in Intent /\ j.old = s /\ j.new = ChildOf(s)
      BY <3>1, <3>3 DEF Intent
    <3> HIDE DEF r, j
    <3>5. Fits(s, r)
      BY <1>2, <2>1, <3>2 DEF Fits
    <3>6. intents' \subseteq Intent /\ \A i \in intents' \ intents : i = j
      BY <1>1, <2>3, <3>4 DEF j
    <3>7. Rotates(s, r)
      BY <2>3 DEF r
    <3>8. Aimed(s, r, intents')
      BY <2>3, <3>2, <3>4 DEF Aimed, From, j
    <3> QED  BY <2>1, <3>2, <3>4, <3>5, <3>6, <3>7, <3>8
  <2> QED  BY <1>8, <2>2, <2>3 DEF Prepare, ChildOf
<1> QED  BY <1>3, <1>4, <1>5, <1>6, <1>7, <1>8

(* One such action keeps the strengthening.                                *)
LEMMA PreparationKeepsBInv ==
  ASSUME BInv, Inv', NEW s \in Sessions,
         RecoverSource(s) \/ Look(s) \/ ProveAbsence(s) \/ Prepare(s) \/ Leave(s)
  PROVE  BInv'
<1>1. PICK r \in Rotation :
           /\ Rotates(s, r) /\ Fits(s, r) /\ UNCHANGED <<core, cases, clearing, ready>>
           /\ intents' \subseteq Intent /\ (clearing = {} \/ intents' = intents)
           /\ Aimed(s, r, intents')
           /\ \A i \in intents' \ intents :
                i.old = s /\ i.new = ChildOf(s) /\ ChildOf(s) # NoSession
                /\ ChildOf(s) \notin published
  BY PreparationKeeps
<1>2. BoundaryTypeOK'
  BY <1>1, Rotated DEF BInv, Inv, BoundaryTypeOK, core
<1>3. ChildrenKept' /\ StalesKept' /\ ClearingKept'
  BY <1>1, RotationKeeps
<1>4. IntentsKept'
  BY <1>1, IntentsStay DEF core
<1>5. ReadyKept'
  BY <1>1 DEF BInv, ReadyKept, core
<1>6. ExecutesRecovered'
  BY <1>1 DEF BInv, ReadyKept, ExecutesRecovered, Targeting, core
<1>7. SourcesKept'
  BY <1>1, Rotated DEF BInv, SourcesKept, Aimed
<1> QED  BY <1>2, <1>3, <1>4, <1>5, <1>6, <1>7 DEF BInv

(* A rotation begins: the id of its child is new to everybody.             *)
LEMMA BeginRotationKeeps ==
  ASSUME BInv, Inv', NEW old \in Sessions, NEW new \in Sessions, BeginRotation(old, new)
  PROVE  BInv'
<1> DEFINE r == [Idle EXCEPT !.step = "recover", !.child = new]
<1>1. r \in Rotation /\ r.step = "recover" /\ r.child = new /\ r.stale = NoSession
  BY DEF Idle, Rotation, RotationSteps
<1>2. /\ Rotates(old, r) /\ new \notin minted /\ minted' = minted \cup {new}
      /\ UNCHANGED <<cases, intents, clearing, published, lineage, ready>>
      /\ old \in published
  BY DEF BeginRotation
<1> HIDE DEF r
<1>3. /\ rotation' \in [Sessions -> Rotation] /\ rotation'[old] = r /\ ChildOf(old)' = new
      /\ \A t \in Sessions \ {old} : rotation'[t] = rotation[t] /\ ChildOf(t)' = ChildOf(t)
  BY <1>1, <1>2, Rotated
<1>4. \A t \in Sessions : ChildOf(t) # new
  BY <1>2, Facts DEF BInv, ChildrenKept
<1>5. BoundaryTypeOK'
  BY <1>2, <1>3 DEF BInv, Inv, BoundaryTypeOK
<1>6. ChildrenKept'
  BY <1>1, <1>2, <1>3, <1>4, Facts DEF BInv, ChildrenKept
<1>7. \A m \in minted : Unclaimed(m) => Unclaimed(m)'
  BY <1>2, <1>3 DEF Unclaimed
<1>8. StalesKept'
  BY <1>1, <1>2, <1>3, <1>7, Facts DEF BInv, StalesKept
<1>9. IntentsKept'
  BY <1>2, <1>3 DEF BInv, IntentsKept
<1>10. ClearingKept'
  BY <1>2, <1>7, Facts DEF BInv, ClearingKept, IntentsKept, ActiveOn
<1>11. ReadyKept' /\ ExecutesRecovered'
  BY <1>2 DEF BInv, ReadyKept, ExecutesRecovered, Targeting
<1>12. SourcesKept'
  BY <1>1, <1>2, <1>3 DEF BInv, SourcesKept, Aimed
<1> QED  BY <1>5, <1>6, <1>8, <1>9, <1>10, <1>11, <1>12 DEF BInv

(* A child is published: it is the child of no other rotation, and no      *)
(* abort takes it for absent.                                              *)
LEMMA PublishKeeps ==
  ASSUME BInv, Inv', NEW old \in Sessions, Publish(old)
  PROVE  BInv'
<1> DEFINE r == [rotation[old] EXCEPT !.step = "published"]
           child == ChildOf(old)
<1>1. rotation[old] \in Rotation /\ rotation[old].step = "prepared"
  BY Facts DEF Publish
<1>2. r \in Rotation /\ r.step = "published" /\ r.child = child
      /\ r.stale = rotation[old].stale
  BY <1>1 DEF Rotation, RotationSteps, ChildOf
<1>3. /\ Rotates(old, r) /\ published' = published \cup {child}
      /\ Continues(child, old)
      /\ UNCHANGED <<cases, intents, clearing, minted, ready>>
  BY DEF Publish, Goto, ChildOf
<1> HIDE DEF r
<1>4. /\ rotation' \in [Sessions -> Rotation] /\ rotation'[old] = r /\ ChildOf(old)' = child
      /\ \A t \in Sessions \ {old} : rotation'[t] = rotation[t] /\ ChildOf(t)' = ChildOf(t)
  BY <1>2, <1>3, Rotated
<1>5. child \in minted /\ child \in Sessions /\ child # NoSession
  BY <1>1, Facts DEF BInv, ChildrenKept
<1> HIDE DEF child
<1>6. BoundaryTypeOK'
  BY <1>3, <1>4, <1>5 DEF BInv, Inv, BoundaryTypeOK, Continues
<1>7. \A t \in Sessions \ {old} : ChildOf(t) # child
  BY <1>5 DEF BInv, ChildrenKept, child
<1>8. ChildrenKept'
  BY <1>2, <1>3, <1>4, <1>5, <1>7 DEF BInv, ChildrenKept, child
<1>9. \A m : Unclaimed(m) => Unclaimed(m)' /\ m # child
  BY <1>4 DEF Unclaimed, child
<1>10. StalesKept'
  <2>1. StalesKept /\ NoSession \notin published /\ NoSession # child
    BY <1>5, Facts DEF BInv
  <2>2. \A t \in Sessions : rotation'[t].stale = rotation[t].stale
    BY <1>2, <1>4
  <2>3. \A t \in Sessions : rotation'[t].step = "abort" => rotation[t].step = "abort"
    BY <1>2, <1>4
  <2> QED  BY <1>3, <1>9, <2>1, <2>2, <2>3 DEF StalesKept
<1>11. IntentsKept'
  BY <1>3, <1>4 DEF BInv, IntentsKept, child
<1>12. ClearingKept'
  BY <1>3, <1>9 DEF BInv, ClearingKept, ActiveOn
<1>13. ReadyKept' /\ ExecutesRecovered'
  BY <1>3 DEF BInv, ReadyKept, ExecutesRecovered, Targeting
<1>14. SourcesKept'
  BY <1>1, <1>2, <1>3, <1>4 DEF BInv, SourcesKept, Aimed, ChildOf, child
<1> QED  BY <1>6, <1>8, <1>10, <1>11, <1>12, <1>13, <1>14 DEF BInv

(* A child that nothing was prepared for is nobody's but its parent's.     *)
LEMMA UnpreparedKeeps ==
  ASSUME BInv, Inv', NEW old \in Sessions, NEW new \in Sessions, RotateUnprepared(old, new)
  PROVE  BInv'
<1>1. /\ new \notin minted /\ minted' = minted \cup {new}
      /\ published' = published \cup {new} /\ Continues(new, old)
      /\ UNCHANGED <<cases, intents, clearing, rotation, ready>>
  BY DEF RotateUnprepared
<1>2. BoundaryTypeOK'
  BY <1>1 DEF BInv, Inv, BoundaryTypeOK, Continues
<1>3. \A s \in Sessions : ChildOf(s)' = ChildOf(s) /\ ChildOf(s) # new
  BY <1>1, Facts DEF BInv, ChildrenKept, ChildOf
<1>4. ChildrenKept'
  BY <1>1, <1>3 DEF BInv, ChildrenKept
<1>5. \A m : Unclaimed(m)' = Unclaimed(m)
  BY <1>3 DEF Unclaimed
<1>6. StalesKept'
  <2>1. \A s \in Sessions : rotation[s].stale # new
    BY <1>1, Facts DEF BInv, StalesKept
  <2> QED  BY <1>1, <1>5, <2>1 DEF BInv, StalesKept
<1>7. IntentsKept' /\ ClearingKept'
  BY <1>1, <1>3, <1>5, Facts DEF BInv, IntentsKept, ClearingKept, ActiveOn
<1>8. SourcesKept' /\ ReadyKept' /\ ExecutesRecovered'
  BY <1>1 DEF BInv, SourcesKept, Aimed, ReadyKept, ExecutesRecovered, Targeting
<1> QED  BY <1>2, <1>4, <1>6, <1>7, <1>8 DEF BInv

(* A child is taken back: nobody claims its id any more.                   *)
LEMMA RollbackKeeps ==
  ASSUME BInv, Inv', NEW old \in Sessions, Rollback(old)
  PROVE  BInv'
<1>1. rotation[old] \in Rotation /\ rotation[old].step \in {"prepared", "published"}
  BY Facts DEF Rollback
<1>2. PICK child \in Sessions : child = ChildOf(old) /\ child \in minted
  BY <1>1, Facts DEF BInv, ChildrenKept
<1> DEFINE r == [rotation[old] EXCEPT !.step = "abort", !.child = NoSession, !.stale = child]
<1>3. r \in Rotation /\ r.step = "abort" /\ r.child = NoSession /\ r.stale = child
  BY <1>1, <1>2 DEF Rotation, RotationSteps
<1>4. /\ Rotates(old, r) /\ published' = published \ {child}
      /\ lineage' = [lineage EXCEPT ![child] = {}]
      /\ ready' = [ready EXCEPT ![child] = FALSE]
      /\ UNCHANGED <<cases, intents, clearing, minted>>
  BY <1>2 DEF Rollback, ChildOf
<1> HIDE DEF r
<1>5. /\ rotation' \in [Sessions -> Rotation] /\ rotation'[old] = r
      /\ ChildOf(old)' = NoSession
      /\ \A t \in Sessions \ {old} : rotation'[t] = rotation[t] /\ ChildOf(t)' = ChildOf(t)
  BY <1>3, <1>4, Rotated
<1>6. \A t \in Sessions \ {old} : ChildOf(t) # child
  BY <1>2, Facts DEF BInv, ChildrenKept
<1>7. BoundaryTypeOK'
  <2>1. ready' \in [Sessions -> BOOLEAN] /\ lineage' \in [Sessions -> SUBSET Sessions]
    BY <1>2, <1>4 DEF BInv, BoundaryTypeOK
  <2> QED  BY <1>4, <1>5, <2>1 DEF BInv, Inv, BoundaryTypeOK
<1>8. ChildrenKept'
  BY <1>3, <1>4, <1>5, Facts DEF BInv, ChildrenKept
<1>9. Unclaimed(child)' /\ \A m \in Sessions : Unclaimed(m) => Unclaimed(m)'
  BY <1>2, <1>5, <1>6, Facts DEF Unclaimed
<1>10. StalesKept'
  BY <1>2, <1>3, <1>4, <1>5, <1>9, Facts DEF BInv, StalesKept
<1>11. IntentsKept'
  BY <1>4, <1>5, Facts DEF BInv, IntentsKept
<1>12. ClearingKept'
  BY <1>4, <1>9, Facts DEF BInv, ClearingKept, ActiveOn
<1>13. ReadyKept' /\ ExecutesRecovered'
  BY <1>2, <1>4 DEF BInv, BoundaryTypeOK, ReadyKept, ExecutesRecovered, Targeting
<1>14. SourcesKept'
  BY <1>1, <1>2, <1>3, <1>4, <1>5 DEF BInv, SourcesKept, Aimed, ChildOf
<1> QED  BY <1>7, <1>8, <1>10, <1>11, <1>12, <1>13, <1>14 DEF BInv

(* Steps that move no rotation and publish nothing, and only remove        *)
(* intents: they have the ledger, the intents being cleared and the        *)
(* operations begun to answer for.                                         *)
BegunRecovered ==
  /\ ready' \in [Sessions -> BOOLEAN]
  /\ \A s \in Sessions : ready'[s] => ready[s] \/ (s \in published /\ Targeting(s) = {})

LEMMA NothingBegun ==
  ASSUME BInv, ready' = ready
  PROVE  BegunRecovered
BY DEF BInv, BoundaryTypeOK, BegunRecovered

LEMMA OthersKeep ==
  ASSUME BInv, Inv', core' = core, rotation' = rotation,
         intents' \subseteq intents, clearing' \subseteq intents',
         ClearingKept', BegunRecovered
  PROVE  BInv'
<1>1. BoundaryTypeOK' /\ ChildrenKept' /\ StalesKept' /\ IntentsKept' /\ SourcesKept'
  BY DEF BInv, Inv, BoundaryTypeOK, ChildrenKept, StalesKept, IntentsKept, Unclaimed, ChildOf,
         SourcesKept, Aimed, core, BegunRecovered
<1>2. ReadyKept' /\ ExecutesRecovered'
  BY DEF BInv, ReadyKept, ExecutesRecovered, Targeting, core, BegunRecovered
<1> QED  BY <1>1, <1>2 DEF BInv

(* A migration takes its case off the session it leaves.                   *)
LEMMA MigrationMoves ==
  ASSUME Inv, NEW c \in Cases, NEW s \in Sessions, Migrate(c, s)
  PROVE  \A t \in Sessions : c \in ActiveOn(t)' => t = s
BY DEF Inv, TypeOK, Migrate, Advance, ActiveOn

LEMMA RecoverKeeps ==
  ASSUME BInv, Inv', NEW s \in Sessions, Recover(s)
  PROVE  BInv'
<1>1. PICK i \in intents : CompleteMigration(i) \/ Settle(i)
  BY DEF Recover
<1>2. UNCHANGED <<core, rotation, ready>> /\ clearing = {} /\ ready \in [Sessions -> BOOLEAN]
  BY DEF Recover, Free, BInv, BoundaryTypeOK
<1>3. CASE CompleteMigration(i)
  <2>1. /\ clearing' = {i} /\ intents' = intents
        /\ i.old \in Sessions /\ i.new \in Sessions /\ i.old # i.new
        /\ \A t \in Sessions : i.case \in ActiveOn(t)' => t = i.new
    BY <1>3, Facts, MigrationMoves DEF CompleteMigration, BInv, IntentsKept
  <2>2. ClearingKept'
    BY <2>1 DEF ClearingKept
  <2> QED  BY <1>2, <2>1, <2>2, NothingBegun, OthersKeep
<1>4. CASE Settle(i)
  <2>1. clearing' = {} /\ intents' \subseteq intents
    BY <1>2, <1>4 DEF Settle
  <2> QED  BY <1>2, <2>1, NothingBegun, OthersKeep DEF ClearingKept
<1> QED  BY <1>1, <1>3, <1>4

(* The abort that gives a moved case back, and the one that is done.       *)
LEMMA AbortKeeps ==
  ASSUME BInv, Inv', NEW s \in Sessions, Abort(s)
  PROVE  BInv'
<1> DEFINE moved == \E i \in AbortedIntent(s) : ActiveOn(s) = {} /\ AlreadyThere(i)
<1>1. /\ UNCHANGED <<core, ready>> /\ clearing = {} /\ rotation[s].step = "abort"
      /\ ready \in [Sessions -> BOOLEAN] /\ rotation[s] \in Rotation
      /\ rotation[s].stale \notin published
  BY Facts DEF Abort, Free, BInv, BoundaryTypeOK, StalesKept
<1>2. CASE moved
  <2>1. PICK i \in AbortedIntent(s) :
          clearing' = {i} /\ UNCHANGED <<intents, rotation>>
    BY <1>2 DEF Abort
  <2>2. /\ i \in intents /\ i.new = rotation[s].stale /\ rotation[s].stale # NoSession
        /\ i.new \notin published /\ Unclaimed(i.new)
    <3>1. i \in intents /\ i.new = rotation[s].stale /\ i.new \in Sessions
      BY <2>1, Facts DEF AbortedIntent, From
    <3> QED  BY <1>1, <3>1, Facts DEF BInv, StalesKept
  <2>3. ClearingKept'
    BY <1>1, <2>1, <2>2 DEF ClearingKept, Unclaimed, ChildOf, core
  <2> QED  BY <1>1, <2>1, <2>2, <2>3, NothingBegun, OthersKeep
<1>3. CASE ~moved
  <2> DEFINE next == IF rotation[s].child = NoSession THEN "idle" ELSE "prepare"
             r == [rotation[s] EXCEPT !.step = next]
  <2>1. /\ Rotates(s, r) /\ intents' = intents \ AbortedIntent(s)
        /\ UNCHANGED <<cases, hw, clearing>>
    BY <1>3 DEF Abort, Goto
  <2>2. next \in {"idle", "prepare"} /\ (next = "prepare" => ChildOf(s) # NoSession)
    BY DEF ChildOf
  <2> HIDE DEF next
  <2>3. /\ r \in Rotation /\ r.step = next /\ r.child = ChildOf(s)
        /\ r.stale = rotation[s].stale
    BY <1>1, <2>2 DEF Rotation, RotationSteps, ChildOf
  <2>4. ChildOf(s) \notin published
    BY <1>1 DEF BInv, ChildrenKept
  <2>5. r.stale # NoSession =>
          r.stale \in minted /\ \A t \in Sessions : ChildOf(t) # r.stale
    BY <2>3 DEF BInv, StalesKept, Unclaimed
  <2> HIDE DEF r
  <2>6. Fits(s, r)
    BY <2>2, <2>3, <2>4, <2>5 DEF Fits
  <2>7. ChildrenKept' /\ StalesKept' /\ ClearingKept'
    BY <1>1, <2>1, <2>3, <2>6, RotationKeeps
  <2>8. IntentsKept'
    BY <1>1, <2>1, <2>3, <2>6, IntentsStay DEF core
  <2>9. BoundaryTypeOK'
    BY <1>1, <2>1, <2>3, Rotated DEF BInv, Inv, BoundaryTypeOK, core
  <2>10. ReadyKept' /\ ExecutesRecovered'
    BY <1>1, <2>1 DEF BInv, ReadyKept, ExecutesRecovered, Targeting, core
  <2>11. SourcesKept'
    <3>1. \A i \in intents' : i \in intents /\ i.old # s
      BY <1>1, <2>1 DEF BInv, SourcesKept, Aimed, AbortedIntent, From
    <3> QED  BY <2>1, <2>3, <3>1, Rotated DEF BInv, SourcesKept, Aimed
  <2> QED  BY <2>7, <2>8, <2>9, <2>10, <2>11 DEF BInv
<1> QED  BY <1>2, <1>3

(* The second write of a recovery or an abort, or the crash instead of it. *)
LEMMA ClearKeeps ==
  ASSUME BInv, Inv', ClearIntent \/ Crash
  PROVE  BInv'
<1>1. /\ clearing' = {} /\ intents' \subseteq intents /\ UNCHANGED <<core, rotation, ready>>
      /\ ready \in [Sessions -> BOOLEAN]
  BY DEF ClearIntent, Crash, BInv, BoundaryTypeOK
<1> QED  BY <1>1, NothingBegun, OthersKeep DEF ClearingKept

LEMMA BeginOperationKeeps ==
  ASSUME BInv, Inv', NEW s \in Sessions, BeginOperation(s)
  PROVE  BInv'
<1>1. /\ UNCHANGED <<intents, clearing, core, rotation>> /\ clearing = {}
      /\ s \in published /\ Targeting(s) = {} /\ ready' = [ready EXCEPT ![s] = TRUE]
  BY DEF BeginOperation, Free, Live
<1>2. ready' \in [Sessions -> BOOLEAN] /\ \A t \in Sessions \ {s} : ready'[t] = ready[t]
  BY <1>1 DEF BInv, BoundaryTypeOK
<1>3. BegunRecovered
  BY <1>1, <1>2 DEF BegunRecovered
<1> QED  BY <1>1, <1>3, OthersKeep DEF ClearingKept

(* What a session does to its cases, at work or at a lifecycle boundary.   *)
LEMMA WorkKeeps ==
  ASSUME BInv, Inv', NEW s \in Sessions,
         Operate(s) \/ LifecyclePause(s) \/ ProofOfLife(s) \/ Follow(s)
  PROVE  BInv'
<1>1. /\ UNCHANGED <<intents, clearing, core, rotation>> /\ clearing = {}
      /\ ready' = ready \/ ready' = [ready EXCEPT ![s] = FALSE]
  BY DEF Operate, LifecyclePause, ProofOfLife, Follow, Free
<1>2. ready' \in [Sessions -> BOOLEAN] /\ \A t \in Sessions : ready'[t] => ready[t]
  BY <1>1 DEF BInv, BoundaryTypeOK
<1>3. BegunRecovered
  BY <1>1, <1>2 DEF BegunRecovered
<1> QED  BY <1>1, <1>3, OthersKeep DEF ClearingKept

-----------------------------------------------------------------------------
(* The strengthening holds when the first session is published.            *)
THEOREM InitEstablishes == BoundaryInit => BInv
<1> SUFFICES ASSUME BoundaryInit PROVE BInv
  OBVIOUS
<1>1. Inv
  BY NoSessionAssumption
     DEF BoundaryInit, Init, Inv, TypeOK, CaseRec, Status, NoCase, OneActivePerSession,
         ActiveOn, MarkersIssued, MarkersDistinct
<1>2. /\ Idle \in Rotation /\ Idle.step = "idle" /\ Idle.child = NoSession
      /\ Idle.stale = NoSession
  BY DEF Idle, Rotation, RotationSteps
<1>3. BoundaryTypeOK
  BY <1>1, <1>2, RootAssumption DEF BoundaryInit, Inv, BoundaryTypeOK
<1>4. ChildrenKept /\ StalesKept /\ SourcesKept
  BY <1>2 DEF BoundaryInit, ChildrenKept, StalesKept, SourcesKept, Aimed, ChildOf
<1>5. IntentsKept /\ ClearingKept /\ ReadyKept /\ ExecutesRecovered
  BY DEF BoundaryInit, IntentsKept, ClearingKept, ReadyKept, ExecutesRecovered
<1> QED  BY <1>1, <1>3, <1>4, <1>5 DEF BInv

(* Every step of the harness, of the core and of the sessions keeps it.    *)
THEOREM NextKeeps == BInv /\ [BoundaryNext]_bvars => BInv'
<1> SUFFICES ASSUME BInv, [BoundaryNext]_bvars PROVE BInv'
  OBVIOUS
<1>1. Inv'
  BY LedgerKept
<1>2. CASE ClearIntent \/ Crash
  BY <1>1, <1>2, ClearKeeps
<1>3. ASSUME NEW s \in Sessions, Recover(s) PROVE BInv'
  BY <1>1, <1>3, RecoverKeeps
<1>4. ASSUME NEW s \in Sessions, NEW new \in Sessions,
             BeginRotation(s, new) \/ RotateUnprepared(s, new)
      PROVE  BInv'
  BY <1>1, <1>4, BeginRotationKeeps, UnpreparedKeeps
<1>5. ASSUME NEW s \in Sessions,
             RecoverSource(s) \/ Look(s) \/ ProveAbsence(s) \/ Prepare(s) \/ Leave(s)
      PROVE  BInv'
  BY <1>1, <1>5, PreparationKeepsBInv
<1>6. ASSUME NEW s \in Sessions, Abort(s) PROVE BInv'
  BY <1>1, <1>6, AbortKeeps
<1>7. ASSUME NEW s \in Sessions, Publish(s) PROVE BInv'
  BY <1>1, <1>7, PublishKeeps
<1>8. ASSUME NEW s \in Sessions, Rollback(s) PROVE BInv'
  BY <1>1, <1>8, RollbackKeeps
<1>9. ASSUME NEW s \in Sessions, BeginOperation(s) PROVE BInv'
  BY <1>1, <1>9, BeginOperationKeeps
<1>10. ASSUME NEW s \in Sessions,
              Operate(s) \/ LifecyclePause(s) \/ ProofOfLife(s) \/ Follow(s)
       PROVE  BInv'
  BY <1>1, <1>10, WorkKeeps
<1>11. CASE UNCHANGED bvars
  <2>1. /\ UNCHANGED <<cases, intents, clearing, core, rotation, ready>>
    BY <1>11 DEF bvars, core
  <2>2. ClearingKept' /\ clearing' \subseteq intents' /\ ready' \in [Sessions -> BOOLEAN]
    BY <2>1 DEF BInv, BoundaryTypeOK, ClearingKept, ActiveOn, Unclaimed, ChildOf, core
  <2> QED  BY <1>1, <2>1, <2>2, NothingBegun, OthersKeep
<1> QED  BY <1>2, <1>3, <1>4, <1>5, <1>6, <1>7, <1>8, <1>9, <1>10, <1>11 DEF BoundaryNext

(* The strengthening is an invariant.                                      *)
THEOREM Invariant == BoundarySpec => []BInv
BY InitEstablishes, NextKeeps, PTL DEF BoundarySpec

(* Intents, rotations and the lineage keep their form.                     *)
THEOREM TypeCorrect == BoundarySpec => []BoundaryTypeOK
<1>1. BInv => BoundaryTypeOK
  BY DEF BInv
<1> QED  BY <1>1, Invariant, PTL

(* Compressing, recovering and aborting are transitions of the ledger:     *)
(* what CaseLedger proves of cases and sessions holds here.                *)
THEOREM RefinesLedger == BoundarySpec => Spec
<1>1. BoundaryInit => Init
  BY DEF BoundaryInit
<1>2. BInv /\ [BoundaryNext]_bvars => [Next]_vars
  BY LedgerStep DEF BInv
<1> QED  BY <1>1, <1>2, Invariant, PTL DEF BoundarySpec, Spec

(* No operation of a child runs before its prepared migration is settled   *)
(* (recover_prepared_compression).                                         *)
THEOREM RecoveryComesFirst == BoundarySpec => []ExecutesRecovered
<1>1. BInv => ExecutesRecovered
  BY DEF BInv
<1> QED  BY <1>1, Invariant, PTL

-----------------------------------------------------------------------------
(* Who takes an intent away, and what then holds of it.                    *)
LEMMA WhoRemoves ==
  ASSUME BInv, [BoundaryNext]_bvars, NEW i \in intents, i \notin intents'
  PROVE  \/ i \in clearing
         \/ /\ i.case \notin ActiveOn(i.old)
            /\ i.new \in published
         \/ /\ rotation[i.old].step = "abort" /\ i.new = rotation[i.old].stale
            /\ i.case \in ActiveOn(i.old)
         \/ /\ rotation[i.old].step = "prepare"
            /\ i.case \notin ActiveOn(i.old)
<1>1. /\ i.case \in Cases /\ i.old \in Sessions /\ i.new \in Sessions /\ i.old # i.new
      /\ i \in Intent
  BY Facts DEF BInv, BoundaryTypeOK, IntentsKept
<1>2. CASE ClearIntent
  BY <1>2 DEF ClearIntent
<1>3. ASSUME NEW s \in Sessions, Recover(s)
      PROVE  i.case \notin ActiveOn(i.old) /\ i.new \in published
  <2>1. Settle(i) /\ Targeting(s) = {i} /\ s \in published
    BY <1>3 DEF Recover, CompleteMigration, Settle
  <2>2. i.new = s
    BY <2>1 DEF Targeting
  <2>3. i.case \notin ActiveOn(i.old)
    BY <1>1, <2>1 DEF Settle, AlreadyThere, Dormant, ActiveOn
  <2> QED  BY <2>1, <2>2, <2>3
<1>4. ASSUME NEW s \in Sessions, Abort(s)
      PROVE  /\ rotation[i.old].step = "abort" /\ i.new = rotation[i.old].stale
             /\ i.case \in ActiveOn(i.old)
  <2>1. i \in AbortedIntent(s) /\ \A j \in AbortedIntent(s) : j.case \in ActiveOn(s)
    BY <1>4 DEF Abort
  <2>2. i.old = s /\ i.new = rotation[s].stale
    BY <2>1 DEF AbortedIntent, From
  <2> QED  BY <1>4, <2>1, <2>2 DEF Abort
<1>5. ASSUME NEW s \in Sessions, Prepare(s)
      PROVE  rotation[i.old].step = "prepare" /\ i.case \notin ActiveOn(i.old)
  <2>1. PICK c \in ActiveOn(s) :
          /\ \A j \in From(s) : j.new = rotation[s].child
          /\ intents' = (intents \ From(s))
                          \cup {[case |-> c, old |-> s, new |-> rotation[s].child]}
    BY <1>5 DEF Prepare
  <2>2. i.old = s /\ i.new = rotation[s].child
    BY <2>1 DEF From
  <2>3. i.case # c
    BY <1>1, <2>1, <2>2 DEF Intent
  <2>4. i.case \notin ActiveOn(s)
    BY <1>1, <2>2, <2>3 DEF BInv, Inv, OneActivePerSession
  <2> QED  BY <1>5, <2>2, <2>4 DEF Prepare
<1>6. ASSUME NEW s \in Sessions, NEW new \in Sessions,
             \/ BeginRotation(s, new) \/ RotateUnprepared(s, new)
             \/ RecoverSource(s) \/ Look(s) \/ ProveAbsence(s) \/ Publish(s)
             \/ Rollback(s) \/ Leave(s) \/ BeginOperation(s) \/ Operate(s)
             \/ LifecyclePause(s) \/ ProofOfLife(s) \/ Follow(s)
      PROVE  FALSE
  BY <1>6 DEF BeginRotation, RotateUnprepared, RecoverSource, Look, ProveAbsence, Publish, Rollback, Leave,
              BeginOperation, Operate, LifecyclePause, ProofOfLife, Follow
<1>7. CASE Crash \/ UNCHANGED bvars
  BY <1>7 DEF Crash, bvars
<1> QED  BY <1>2, <1>3, <1>4, <1>5, <1>6, <1>7 DEF BoundaryNext

(* While its parent holds the case, the intent of a promised child stays,  *)
(* across crashes of a recovery and rotations that begin meanwhile         *)
(* (prepare_compression, recover_prepared_compression).                    *)
THEOREM PromisesAreKept == BoundarySpec => PromiseIsKept
<1> DEFINE A == \A i \in intents :
                  /\ Promised(i.new)
                  /\ Promised(i.new)'
                  /\ i.case \in ActiveOn(i.old)
                  => i \in intents'
<1>1. BInv /\ [BoundaryNext]_bvars => [A]_bvars
  <2> SUFFICES ASSUME BInv, [BoundaryNext]_bvars, NEW i \in intents, i \notin intents',
                      Promised(i.new), i.case \in ActiveOn(i.old)
               PROVE  FALSE
    OBVIOUS
  <2>1. i.old \in Sessions /\ i.new \in Sessions
    BY Facts
  <2>2. i.new \in published \/ ~Unclaimed(i.new)
    BY DEF Promised, Unclaimed, ChildOf
  <2>3. CASE i \in clearing
    BY <2>2, <2>3 DEF BInv, ClearingKept
  <2>4. CASE rotation[i.old].step = "abort" /\ i.new = rotation[i.old].stale
    <3>1. i.new # NoSession
      BY <2>1, Facts
    <3> QED  BY <2>1, <2>2, <2>4, <3>1 DEF BInv, StalesKept
  <2> QED  BY <2>3, <2>4, WhoRemoves
<1> QED  BY <1>1, Invariant, PTL DEF BoundarySpec, PromiseIsKept

(* An abort gives the case back before the intent is gone                  *)
(* (abort_prepared_compression).                                           *)
THEOREM AbortsReturnTheCase == BoundarySpec => AbortReturnsTheCase
<1> DEFINE A == \A i \in intents \ intents' :
                  Free /\ rotation[i.old].step = "abort" => i.case \in ActiveOn(i.old)
<1>1. BInv /\ [BoundaryNext]_bvars => [A]_bvars
  <2> SUFFICES ASSUME BInv, [BoundaryNext]_bvars, NEW i \in intents, i \notin intents',
                      Free, rotation[i.old].step = "abort"
               PROVE  i.case \in ActiveOn(i.old)
    OBVIOUS
  <2>1. i \notin clearing
    BY DEF Free
  <2>2. i.new \notin published
    BY Facts DEF BInv, SourcesKept, Aimed, StalesKept
  <2> QED  BY <2>1, <2>2, WhoRemoves
<1> QED  BY <1>1, Invariant, PTL DEF BoundarySpec, AbortReturnsTheCase

-----------------------------------------------------------------------------
(* Who may come between a published child and its case.                    *)

Marked(s) == {c \in Cases : MarkerValid(c, s)}

(* A session that is rotated is published, and so is all that it continues.*)
LineageKept ==
  /\ \A s \in Sessions : rotation[s].step # "idle" => s \in published
  /\ \A t \in published : lineage[t] \subseteq published \ {t}
  /\ \A t \in published : \A a \in lineage[t] : lineage[a] \subseteq lineage[t]

IntentsUnique ==
  \A i, j \in intents : i.old = j.old \/ i.new = j.new => i = j

(* An intent leads to a child of its source, which is no intent's source.  *)
IntentsFollow ==
  /\ \A i \in intents : i.new \in published => lineage[i.new] = lineage[i.old] \cup {i.old}
  /\ \A i, j \in intents : i.new # j.old

SourcesRecovered ==
  \A s \in Sessions : rotation[s].step \notin {"idle", "recover"} => Targeting(s) = {}

Untouched(s) == \A c \in Cases : cases[c].session # s

Unprepared == {"recover", "look", "prove", "abort", "prepare"}

(* Nothing has happened on a session that is yet to be published, and      *)
(* nothing is prepared for it before it is prepared for.                   *)
FreshKept ==
  /\ \A s \in Sessions \ published :
       s \notin minted \/ ~Unclaimed(s) => Untouched(s) /\ From(s) = {}
  /\ \A s \in Sessions :
       rotation[s].step \in Unprepared /\ ChildOf(s) # NoSession =>
         Targeting(ChildOf(s)) = {}

Committed(i) ==
  \/ i.new \in published
  \/ rotation[i.old].step \in {"prepared", "published"} /\ ChildOf(i.old) = i.new

(* Where the case of i would have to be for its source to get it back: on  *)
(* a session that the source continues, or on a child prepared from one.   *)
Sideways(i) == {j \in intents : j.case = i.case /\ j.old \in lineage[i.old]}

Above(i) == lineage[i.old] \cup {j.new : j \in Sideways(i)}

(* While the source holds the case its child has none, at work or waiting  *)
(* for proof of life; and a case that has left does not come back.         *)
ReservedFor(i) ==
  /\ i.case \in ActiveOn(i.old) => ActiveOn(i.new) = {} /\ Marked(i.new) = {}
  /\ cases[i.case].session \notin Above(i)

Reserved == \A i \in intents : Committed(i) => ReservedFor(i)

RInv ==
  /\ LineageKept /\ IntentsUnique /\ IntentsFollow
  /\ SourcesRecovered /\ FreshKept /\ Reserved

-----------------------------------------------------------------------------
(* A disposition of case c on session s.                                   *)
Disposes(s, c) ==
  /\ \A d \in Cases \ {c} : cases'[d] = cases[d]
  /\ cases'[c].session = s
  /\ \A t \in Sessions \ {s} : hw'[t] = hw[t]

LEMMA DispositionDisposes ==
  ASSUME Inv, NEW c \in Cases, NEW s \in Sessions, NEW status, NEW n,
         Advance(c, status, s, n), Dispose(s)
  PROVE  Disposes(s, c) /\ cases'[c].status = status
BY DEF Inv, TypeOK, Advance, Dispose, Disposes

(* The operations of the ledger that the boundary uses are such.           *)
LEMMA OperationDisposes ==
  ASSUME Inv, NEW c \in Cases, NEW s \in Sessions,
         \/ Open(c, s) \/ Close(c, s) \/ Resume(c, s) \/ AutoResume(c, s) \/ Migrate(c, s)
         \/ \E marked \in BOOLEAN : Pause(c, s, marked)
         \/ \E a \in Sessions : Adopt(c, a, s)
  PROVE  Disposes(s, c)
<1>1. PICK status, n : Advance(c, status, s, n) /\ Dispose(s)
  BY DEF Open, Close, Resume, AutoResume, Migrate, Pause, Adopt
<1> QED  BY <1>1, DispositionDisposes

-----------------------------------------------------------------------------
(* What follows of a committed intent: both its sessions are its own.      *)
LEMMA CommittedFacts ==
  ASSUME BInv, RInv, NEW i \in intents, Committed(i)
  PROVE  /\ i.case \in Cases /\ i.old \in Sessions /\ i.new \in Sessions /\ i.old # i.new
         /\ ReservedFor(i) /\ i.old \in published /\ Targeting(i.old) = {}
         /\ lineage[i.old] \subseteq published
         /\ ~Live(i.old) /\ \A a \in lineage[i.old] : ~Live(a)
<1>1. /\ i.case \in Cases /\ i.old \in Sessions /\ i.new \in Sessions /\ i.old # i.new
      /\ ReservedFor(i)
  BY Facts DEF BInv, IntentsKept, RInv, Reserved
<1>2. Targeting(i.old) = {}
  BY DEF Targeting, RInv, IntentsFollow
<1>3. CASE i.new \in published
  <2>1. /\ lineage[i.new] = lineage[i.old] \cup {i.old}
        /\ lineage[i.new] \subseteq published
    BY <1>3 DEF RInv, IntentsFollow, LineageKept
  <2> QED  BY <1>1, <1>2, <1>3, <2>1 DEF Live, Continued
<1>4. CASE rotation[i.old].step \in {"prepared", "published"}
  <2>1. i.old \in published
    BY <1>1, <1>4 DEF RInv, LineageKept
  <2> QED  BY <1>1, <1>2, <1>4, <2>1 DEF Live, Continued, RInv, LineageKept
<1> QED  BY <1>3, <1>4 DEF Committed

(* A disposition keeps the strengthening if its session is not a child to  *)
(* come and it respects every committed intent: the case does not return,  *)
(* the child gets nothing while its source holds the case, and the case    *)
(* goes nowhere from where it could return.                                *)
LEMMA DisposalKeeps ==
  ASSUME BInv, RInv, NEW s \in Sessions, NEW c \in Cases, Disposes(s, c),
         UNCHANGED <<core, rotation, intents>>,
         s \in published \/ cases[c].session = s,
         \A i \in intents : Committed(i) =>
           /\ s = i.old /\ c = i.case /\ c \in ActiveOn(s)' => c \in ActiveOn(s)
           /\ s = i.new => i.case \notin ActiveOn(i.old)'
           /\ c = i.case => s \notin Above(i)
  PROVE  RInv'
<1>1. /\ published' = published /\ lineage' = lineage /\ minted' = minted
      /\ rotation' = rotation /\ intents' = intents
      /\ \A t : Targeting(t)' = Targeting(t) /\ From(t)' = From(t)
      /\ \A t : ChildOf(t)' = ChildOf(t) /\ Unclaimed(t)' = Unclaimed(t)
  BY DEF core, Targeting, From, ChildOf, Unclaimed
<1>2. /\ \A d \in Cases \ {c} : cases'[d] = cases[d]
      /\ cases'[c].session = s
      /\ \A t \in Sessions \ {s} : hw'[t] = hw[t]
  BY DEF Disposes
<1>3. LineageKept' /\ IntentsUnique' /\ IntentsFollow' /\ SourcesRecovered'
  BY <1>1 DEF RInv, LineageKept, IntentsUnique, IntentsFollow, SourcesRecovered
<1>4. FreshKept'
  <2>1. ASSUME NEW t \in Sessions \ published, t \notin minted \/ ~Unclaimed(t)
        PROVE  Untouched(t)' /\ From(t) = {}
    <3>1. Untouched(t) /\ From(t) = {}
      BY <2>1 DEF RInv, FreshKept
    <3>2. t # s
      BY <3>1 DEF Untouched
    <3> QED  BY <1>2, <3>1, <3>2 DEF Untouched
  <2>2. \A t \in Sessions :
          rotation[t].step \in Unprepared /\ ChildOf(t) # NoSession =>
            Targeting(ChildOf(t)) = {}
    BY DEF RInv, FreshKept
  <2>3. \A t \in Sessions :
          rotation'[t].step \in Unprepared /\ ChildOf(t)' # NoSession =>
            {i \in intents' : i.new = ChildOf(t)'} = {}
    BY <1>1, <2>2 DEF Targeting
  <2> QED  BY <1>1, <2>1, <2>3 DEF FreshKept, Targeting
<1>5. Reserved'
  <2> SUFFICES ASSUME NEW i \in intents, Committed(i)
               PROVE  ReservedFor(i)'
    BY <1>1 DEF Reserved, Committed
  <2>1. /\ i.case \in Cases /\ i.old \in Sessions /\ i.new \in Sessions /\ ReservedFor(i)
    BY CommittedFacts
  <2>2. Above(i)' = Above(i)
    BY <1>1 DEF Above, Sideways
  <2>3. cases'[i.case].session \notin Above(i)
    BY <1>2, <2>1 DEF ReservedFor
  <2>4. ASSUME i.case \in ActiveOn(i.old)' PROVE ActiveOn(i.new)' = {} /\ Marked(i.new)' = {}
    <3>1. i.case \in ActiveOn(i.old)
      <4>1. CASE c = i.case
        <5>1. s = i.old
          BY <1>2, <2>4, <4>1 DEF ActiveOn
        <5> QED  BY <2>4, <4>1, <5>1
      <4>2. CASE c # i.case
        BY <1>2, <2>1, <2>4, <4>2 DEF ActiveOn
      <4> QED  BY <4>1, <4>2
    <3>2. ActiveOn(i.new) = {} /\ Marked(i.new) = {} /\ s # i.new
      BY <2>1, <2>4, <3>1 DEF ReservedFor
    <3> QED  BY <1>2, <2>1, <3>2 DEF ActiveOn, Marked, MarkerValid
  <2> QED  BY <2>2, <2>3, <2>4 DEF ReservedFor
<1> QED  BY <1>3, <1>4, <1>5 DEF RInv

(* A migration that completes an intent.                                   *)
LEMMA CompletionReserves ==
  ASSUME BInv, RInv, NEW s \in Sessions, NEW i \in intents, s \in published,
         Targeting(s) = {i}, CompleteMigration(i), UNCHANGED <<core, rotation>>
  PROVE  RInv'
<1>1. /\ i.case \in Cases /\ i.old \in Sessions /\ i.new = s /\ i.old # i.new
      /\ Migrate(i.case, s) /\ intents' = intents /\ cases[i.case].session = i.old
  BY Facts DEF CompleteMigration, Completable, ActiveOn, Targeting, BInv, IntentsKept
<1>2. Disposes(s, i.case)
  BY <1>1, OperationDisposes DEF BInv
<1>3. i.old \in lineage[s]
  BY <1>1 DEF RInv, IntentsFollow
<1>4. ASSUME NEW k \in intents, Committed(k)
      PROVE  /\ s # k.old
             /\ s = k.new => k.case \notin ActiveOn(k.old)'
             /\ i.case = k.case => s \notin Above(k)
  <2>1. /\ Targeting(k.old) = {} /\ ReservedFor(k) /\ k.old \in published
        /\ k.case \in Cases /\ k.old \in Sessions
    BY <1>4, CommittedFacts
  <2>2. s # k.old
    BY <1>1, <2>1
  <2>3. ASSUME s = k.new PROVE k.case \notin ActiveOn(k.old)'
    <3>1. k = i
      BY <1>1, <2>3 DEF RInv, IntentsUnique
    <3> QED  BY <1>1, <1>2, <3>1 DEF Disposes, ActiveOn
  <2>4. ASSUME i.case = k.case PROVE s \notin Above(k)
    <3>1. i.old \notin Above(k)
      BY <1>1, <2>1, <2>4 DEF ReservedFor
    <3>2. s \notin lineage[k.old]
      BY <1>3, <2>1, <3>1 DEF Above, RInv, LineageKept
    <3>3. ASSUME NEW j \in Sideways(k), s = j.new PROVE FALSE
      <4>1. j = i
        BY <1>1, <3>3 DEF Sideways, RInv, IntentsUnique
      <4> QED  BY <3>1, <3>3, <4>1 DEF Sideways, Above
    <3> QED  BY <3>2, <3>3 DEF Above
  <2> QED  BY <2>2, <2>3, <2>4
<1> QED  BY <1>1, <1>2, <1>4, DisposalKeeps

(* An abort that gives a case back.                                        *)
LEMMA ReturnReserves ==
  ASSUME BInv, RInv, NEW s \in Sessions, NEW i \in AbortedIntent(s), AlreadyThere(i),
         rotation[s].step = "abort", Migrate(i.case, s), UNCHANGED <<core, rotation, intents>>
  PROVE  RInv'
<1>1. /\ i \in intents /\ i.old = s /\ i.new = rotation[s].stale /\ i.case \in Cases
      /\ cases[i.case].session = i.new
  BY Facts DEF AbortedIntent, From, AlreadyThere, ActiveOn
<1>2. s \in published /\ Targeting(s) = {}
  BY DEF RInv, LineageKept, SourcesRecovered
<1>3. Disposes(s, i.case)
  BY <1>1, OperationDisposes DEF BInv
<1>4. ASSUME NEW k \in intents, Committed(k)
      PROVE  s # k.old /\ s # k.new /\ (i.case = k.case => s \notin Above(k))
  <2>1. k.case \in Cases /\ ReservedFor(k)
    BY <1>4, CommittedFacts
  <2>2. ASSUME s = k.old PROVE FALSE
    <3>1. k = i
      BY <1>1, <2>2 DEF RInv, IntentsUnique
    <3>2. k.new \notin published
      BY <1>1, <3>1 DEF BInv, StalesKept
    <3> QED  BY <1>4, <2>2, <3>2 DEF Committed
  <2>3. s # k.new
    BY <1>2 DEF Targeting
  <2>4. ASSUME i.case = k.case PROVE s \notin Above(k)
    <3>1. i.new \notin Above(k)
      BY <1>1, <2>1, <2>4 DEF ReservedFor
    <3>2. s \notin lineage[k.old]
      BY <1>1, <2>4, <3>1 DEF Above, Sideways
    <3> QED  BY <1>2, <3>2 DEF Above, Sideways, Targeting
  <2> QED  BY <2>2, <2>3, <2>4
<1> QED  BY <1>1, <1>2, <1>3, <1>4, DisposalKeeps

(* What a session does to its cases: at work, ...                          *)
LEMMA OperationReserves ==
  ASSUME BInv, RInv, NEW s \in Sessions, Operate(s)
  PROVE  RInv'
<1>1. PICK c \in Cases : Open(c, s) \/ Pause(c, s, FALSE) \/ Close(c, s) \/ Resume(c, s)
  BY DEF Operate
<1>2. /\ UNCHANGED <<core, rotation, intents>> /\ Live(s) /\ s \in published
      /\ Targeting(s) = {}
  BY DEF Operate, Live, BInv, ExecutesRecovered
<1>3. Disposes(s, c)
  BY <1>1, OperationDisposes DEF BInv
<1>4. ASSUME NEW k \in intents, Committed(k)
      PROVE  s # k.old /\ s # k.new /\ s \notin Above(k)
  BY <1>2, <1>4, CommittedFacts DEF Targeting, Above, Sideways
<1> QED  BY <1>2, <1>3, <1>4, DisposalKeeps

(* ... at a lifecycle boundary, ...                                        *)
LEMMA PauseReserves ==
  ASSUME BInv, RInv, NEW s \in Sessions, LifecyclePause(s)
  PROVE  RInv'
<1>1. PICK c \in Cases, marked \in BOOLEAN : Pause(c, s, marked)
  BY DEF LifecyclePause
<1>2. /\ UNCHANGED <<core, rotation, intents>>
      /\ c \in ActiveOn(s) /\ cases[c].session = s
  BY <1>1 DEF LifecyclePause, Pause, ActiveOn
<1>3. Disposes(s, c) /\ cases'[c].status = "paused"
  BY <1>1, DispositionDisposes DEF BInv, Pause
<1>4. ASSUME NEW k \in intents, Committed(k)
      PROVE  /\ c \notin ActiveOn(s)'
             /\ s = k.new => k.case \notin ActiveOn(k.old)'
             /\ c = k.case => s \notin Above(k)
  <2>1. k.case \in Cases /\ ReservedFor(k) /\ k.old # k.new
    BY <1>4, CommittedFacts
  <2>2. ASSUME s = k.new PROVE k.case \notin ActiveOn(k.old)'
    BY <1>2, <1>3, <2>1, <2>2 DEF ReservedFor, Disposes, ActiveOn
  <2> QED  BY <1>2, <1>3, <2>1, <2>2 DEF ReservedFor, ActiveOn
<1> QED  BY <1>2, <1>3, <1>4, DisposalKeeps

(* ... when it shows that it is alive, ...                                 *)
LEMMA LifeReserves ==
  ASSUME BInv, RInv, NEW s \in Sessions, ProofOfLife(s)
  PROVE  RInv'
<1>1. PICK c \in Cases : AutoResume(c, s)
  BY DEF ProofOfLife
<1>2. /\ UNCHANGED <<core, rotation, intents>> /\ Live(s)
      /\ c \in Marked(s) /\ cases[c].session = s
  BY <1>1 DEF ProofOfLife, AutoResume, Marked, MarkerValid
<1>3. Disposes(s, c)
  BY <1>1, OperationDisposes DEF BInv
<1>4. ASSUME NEW k \in intents, Committed(k)
      PROVE  /\ s # k.old
             /\ s = k.new => k.case \notin ActiveOn(k.old)'
             /\ c = k.case => s \notin Above(k)
  <2>1. k.case \in Cases /\ ReservedFor(k) /\ k.old # k.new /\ s # k.old
    BY <1>2, <1>4, CommittedFacts
  <2>2. ASSUME s = k.new PROVE k.case \notin ActiveOn(k.old)'
    BY <1>2, <1>3, <2>1, <2>2 DEF ReservedFor, Disposes, ActiveOn
  <2> QED  BY <1>2, <2>1, <2>2 DEF ReservedFor
<1> QED  BY <1>2, <1>3, <1>4, DisposalKeeps DEF Live

(* ... or when it takes over what its lineage left it: where its parent    *)
(* still holds the prepared case, that is the nearest one.                 *)
LEMMA FollowReserves ==
  ASSUME BInv, RInv, NEW s \in Sessions, Follow(s)
  PROVE  RInv'
<1>1. /\ UNCHANGED <<core, rotation, intents>> /\ s \in published
      /\ lineage[s] \subseteq Sessions
  BY DEF Follow, BInv, BoundaryTypeOK
<1>2. PICK a \in Nearest(s), c \in Cases :
        \/ c \in ActiveOn(a) /\ Migrate(c, s)
        \/ ActiveOn(a) = {} /\ Adopt(c, a, s)
  BY DEF Follow
<1>3. /\ a \in lineage[s] /\ a \in Sessions /\ cases[c].session = a
      /\ ActiveOn(a) # {} => c \in ActiveOn(a)
  BY <1>1, <1>2 DEF Nearest, ActiveOn, Adopt, MarkerValid
<1>4. Disposes(s, c)
  BY <1>2, <1>3, OperationDisposes DEF BInv
<1>5. ASSUME NEW k \in intents, Committed(k)
      PROVE  /\ ~(s = k.old /\ c = k.case)
             /\ s = k.new => k.case \notin ActiveOn(k.old)'
             /\ c = k.case => s \notin Above(k)
  <2>1. /\ k.case \in Cases /\ k.old \in Sessions /\ k.new \in Sessions /\ ReservedFor(k)
        /\ k.old # k.new /\ k.old \in published
    BY <1>5, CommittedFacts
  <2>2. c = k.case => a \notin lineage[k.old]
    BY <1>3, <2>1 DEF ReservedFor, Above
  <2>3. ASSUME s = k.new, k.case \in ActiveOn(k.old)' PROVE FALSE
    <3>1. k.case # c /\ k.case \in ActiveOn(k.old)
      BY <1>4, <2>1, <2>3 DEF Disposes, ActiveOn
    <3>2. lineage[s] = lineage[k.old] \cup {k.old}
      BY <1>1, <2>3 DEF RInv, IntentsFollow
    <3>3. CASE a = k.old
      BY <1>3, <2>1, <3>1, <3>3 DEF BInv, Inv, OneActivePerSession
    <3>4. CASE a \in lineage[k.old]
      <4>1. Offers(k.old)
        BY <3>1 DEF Offers
      <4> QED  BY <1>2, <3>2, <3>4, <4>1 DEF Nearest
    <3> QED  BY <1>3, <3>2, <3>3, <3>4
  <2>4. ASSUME c = k.case PROVE s \notin Above(k)
    <3>1. s \notin lineage[k.old]
      BY <1>3, <2>1, <2>2, <2>4 DEF RInv, LineageKept
    <3>2. ASSUME NEW j \in Sideways(k), s = j.new PROVE FALSE
      <4>1. lineage[s] = lineage[j.old] \cup {j.old} /\ j.old \in lineage[k.old]
        BY <1>1, <3>2 DEF Sideways, RInv, IntentsFollow
      <4>2. lineage[j.old] \subseteq lineage[k.old]
        BY <2>1, <4>1 DEF RInv, LineageKept
      <4> QED  BY <1>3, <2>2, <2>4, <4>1, <4>2
    <3> QED  BY <3>1, <3>2 DEF Above
  <2> QED  BY <1>3, <2>2, <2>3, <2>4
<1> QED  BY <1>1, <1>4, <1>5, DisposalKeeps

-----------------------------------------------------------------------------
(* The steps that leave the ledger alone.                                  *)

(* The ledger alone says who is at work, who can be resumed, and whom      *)
(* nothing has touched.                                                    *)
LEMMA SameCases ==
  ASSUME UNCHANGED <<cases, hw>>
  PROVE  \A t : ActiveOn(t)' = ActiveOn(t) /\ Marked(t)' = Marked(t) /\ Untouched(t)' = Untouched(t)
BY DEF ActiveOn, Marked, MarkerValid, Untouched

(* ... so an intent's sessions stay its own if its source continues what   *)
(* it did and nothing more is prepared beside it.                          *)
LEMMA ReservationStays ==
  ASSUME UNCHANGED <<cases, hw>>, NEW i, ReservedFor(i),
         lineage'[i.old] = lineage[i.old], Sideways(i)' \subseteq Sideways(i)
  PROVE  ReservedFor(i)'
BY SameCases DEF ReservedFor, Above

(* Intents go, and no rotation and no lineage moves.                       *)
LEMMA RemovalReserves ==
  ASSUME BInv, RInv, UNCHANGED <<cases, hw, core, rotation>>, intents' \subseteq intents
  PROVE  RInv'
<1>1. /\ published' = published /\ lineage' = lineage /\ minted' = minted
      /\ rotation' = rotation
      /\ \A t : Untouched(t)' = Untouched(t)
      /\ \A t : Targeting(t)' \subseteq Targeting(t) /\ From(t)' \subseteq From(t)
      /\ \A t : ChildOf(t)' = ChildOf(t) /\ Unclaimed(t)' = Unclaimed(t)
      /\ \A i : Sideways(i)' \subseteq Sideways(i)
  BY SameCases DEF core, Targeting, From, ChildOf, Unclaimed, Sideways
<1>2. LineageKept' /\ IntentsUnique' /\ IntentsFollow' /\ SourcesRecovered'
  BY <1>1 DEF RInv, LineageKept, IntentsUnique, IntentsFollow, SourcesRecovered
<1>3. FreshKept'
  BY <1>1 DEF RInv, FreshKept
<1>4. Reserved'
  BY <1>1, ReservationStays DEF RInv, Reserved, Committed
<1> QED  BY <1>2, <1>3, <1>4 DEF RInv

(* A rotation moves on before it is prepared, or is over.                  *)
LEMMA MoveReserves ==
  ASSUME BInv, RInv, NEW s \in Sessions, NEW r \in Rotation, Rotates(s, r),
         UNCHANGED <<cases, hw, core>>, intents' \subseteq intents,
         r.child \in {ChildOf(s), NoSession},
         r.step \in {"idle", "look", "prove", "abort", "prepare"},
         r.step # "idle" => /\ s \in published /\ Targeting(s) = {}
                            /\ r.child # NoSession => Targeting(r.child) = {}
  PROVE  RInv'
<1>1. /\ published' = published /\ lineage' = lineage /\ minted' = minted
      /\ \A t : Untouched(t)' = Untouched(t)
      /\ \A t : Targeting(t)' \subseteq Targeting(t) /\ From(t)' \subseteq From(t)
      /\ \A i : Sideways(i)' \subseteq Sideways(i)
  BY SameCases DEF core, Targeting, From, Sideways
<1>2. /\ rotation'[s] = r /\ ChildOf(s)' = r.child
      /\ \A t \in Sessions \ {s} : rotation'[t] = rotation[t] /\ ChildOf(t)' = ChildOf(t)
  BY Rotated
<1>3. IntentsUnique' /\ IntentsFollow'
  BY <1>1 DEF RInv, IntentsUnique, IntentsFollow
<1>4. LineageKept'
  BY <1>1, <1>2 DEF RInv, LineageKept
<1>5. SourcesRecovered'
  BY <1>1, <1>2 DEF RInv, SourcesRecovered
<1>6. FreshKept'
  <2>1. \A t \in Sessions : Unclaimed(t) => Unclaimed(t)'
    BY <1>2, Facts DEF Unclaimed
  <2>2. ASSUME NEW t \in Sessions, NEW child, child = ChildOf(t)',
               rotation'[t].step \in Unprepared, child # NoSession
        PROVE  Targeting(child)' = {}
    <3>1. Targeting(child) = {}
      BY <1>2, <2>2 DEF RInv, FreshKept, Unprepared
    <3> QED  BY <1>1, <3>1
  <2>3. \A t \in Sessions :
          rotation'[t].step \in Unprepared /\ ChildOf(t)' # NoSession =>
            {i \in intents' : i.new = ChildOf(t)'} = {}
    BY <2>2 DEF Targeting
  <2>4. \A t \in Sessions \ published :
          t \notin minted \/ ~Unclaimed(t)' => Untouched(t) /\ From(t) = {}
    BY <2>1 DEF RInv, FreshKept
  <2> QED  BY <1>1, <2>3, <2>4 DEF FreshKept, Targeting
<1>7. \A i \in intents' : Committed(i)' => Committed(i)
  BY <1>1, <1>2, Facts DEF Committed
<1>8. Reserved'
  BY <1>1, <1>7, ReservationStays DEF RInv, Reserved
<1> QED  BY <1>3, <1>4, <1>5, <1>6, <1>8 DEF RInv

-----------------------------------------------------------------------------
(* The steps that draw, claim, publish and take back the id of a child.    *)

(* prepare_compression is called: the id is new to everybody.              *)
LEMMA BeginReserves ==
  ASSUME BInv, RInv, NEW old \in Sessions, NEW new \in Sessions, BeginRotation(old, new)
  PROVE  RInv'
<1> DEFINE r == [Idle EXCEPT !.step = "recover", !.child = new]
<1>1. r \in Rotation /\ r.step = "recover" /\ r.child = new
  BY DEF Idle, Rotation, RotationSteps
<1>2. /\ Rotates(old, r) /\ new \notin minted /\ minted' = minted \cup {new}
      /\ UNCHANGED <<cases, hw>>
      /\ intents' = intents /\ published' = published /\ lineage' = lineage
      /\ old \in published /\ rotation[old].step = "idle"
  BY DEF BeginRotation
<1> HIDE DEF r
<1>3. /\ rotation'[old] = r /\ ChildOf(old)' = new
      /\ \A t \in Sessions \ {old} : rotation'[t] = rotation[t] /\ ChildOf(t)' = ChildOf(t)
  BY <1>1, <1>2, Rotated
<1>4. /\ \A t : Untouched(t)' = Untouched(t)
      /\ \A t : Targeting(t)' = Targeting(t) /\ From(t)' = From(t)
      /\ \A i : Sideways(i)' = Sideways(i)
  BY <1>2, SameCases DEF Targeting, From, Sideways
<1>5. IntentsUnique' /\ IntentsFollow'
  BY <1>2 DEF RInv, IntentsUnique, IntentsFollow
<1>6. LineageKept' /\ SourcesRecovered'
  BY <1>1, <1>2, <1>3, <1>4 DEF RInv, LineageKept, SourcesRecovered
<1>7. FreshKept'
  <2>1. ASSUME NEW t \in Sessions \ published, t \notin minted' \/ ~Unclaimed(t)'
        PROVE  Untouched(t) /\ From(t) = {}
    <3>1. t \notin minted \/ ~Unclaimed(t)
      BY <1>2, <1>3, <2>1 DEF Unclaimed
    <3> QED  BY <2>1, <3>1 DEF RInv, FreshKept
  <2>2. Targeting(new) = {}
    BY <1>2 DEF BInv, IntentsKept, Targeting
  <2>3. \A t \in Sessions :
          rotation'[t].step \in Unprepared /\ ChildOf(t)' # NoSession =>
            {i \in intents : i.new = ChildOf(t)'} = {}
    BY <1>3, <2>2 DEF Targeting, RInv, FreshKept
  <2> QED  BY <1>2, <1>4, <2>1, <2>3 DEF FreshKept, Targeting
<1>8. \A i \in intents : Committed(i)' => Committed(i)
  BY <1>1, <1>2, <1>3, Facts DEF Committed
<1>9. Reserved'
  BY <1>2, <1>4, <1>8, ReservationStays DEF RInv, Reserved
<1> QED  BY <1>5, <1>6, <1>7, <1>9 DEF RInv

(* A new child continues its parent and what that continues.               *)
LEMMA LineageGrows ==
  ASSUME BInv, RInv, NEW old \in published, NEW child \in Sessions, child \notin published,
         From(child) = {}, Continues(child, old),
         published' = published \cup {child},
         \A s \in Sessions : rotation'[s].step # "idle" => rotation[s].step # "idle"
  PROVE  /\ LineageKept'
         /\ lineage'[child] = lineage[old] \cup {old}
         /\ \A i \in intents : lineage'[i.old] = lineage[i.old]
         /\ \A t \in Sessions \ {child} : lineage'[t] = lineage[t]
<1>1. /\ lineage \in [Sessions -> SUBSET Sessions] /\ published \subseteq Sessions
      /\ \A i \in intents : i.old \in Sessions /\ i.old # child
  BY Facts DEF BInv, BoundaryTypeOK, From
<1>2. /\ lineage'[child] = lineage[old] \cup {old}
      /\ \A t \in Sessions \ {child} : lineage'[t] = lineage[t]
  BY <1>1 DEF Continues
<1>3. \A t \in published : t # child /\ lineage[t] \subseteq published \ {t}
                           /\ \A a \in lineage[t] : lineage[a] \subseteq lineage[t]
  BY DEF RInv, LineageKept
<1>4. \A t \in published' : lineage'[t] \subseteq published' \ {t}
  BY <1>1, <1>2, <1>3
<1>5. ASSUME NEW t \in published', NEW a \in lineage'[t] PROVE lineage'[a] \subseteq lineage'[t]
  <2>1. a \in published /\ lineage'[a] = lineage[a]
    BY <1>1, <1>2, <1>3, <1>5
  <2> QED  BY <1>1, <1>2, <1>3, <1>5, <2>1
<1>6. LineageKept'
  BY <1>4, <1>5 DEF RInv, LineageKept
<1> QED  BY <1>1, <1>2, <1>6

(* The child that is published has the intent that was prepared for it.    *)
LEMMA PublishReserves ==
  ASSUME BInv, RInv, NEW old \in Sessions, Publish(old)
  PROVE  RInv'
<1> DEFINE r == [rotation[old] EXCEPT !.step = "published"]
<1>1. rotation[old] \in Rotation /\ rotation[old].step = "prepared"
  BY Facts DEF Publish
<1>2. PICK child \in Sessions :
        child = ChildOf(old) /\ child # NoSession /\ child # old /\ child \notin published
  BY <1>1, Facts DEF BInv, ChildrenKept
<1>3. r \in Rotation /\ r.step = "published" /\ r.child = child
  BY <1>1, <1>2 DEF Rotation, RotationSteps, ChildOf
<1>4. /\ Rotates(old, r) /\ published' = published \cup {child} /\ Continues(child, old)
      /\ UNCHANGED <<cases, hw>> /\ intents' = intents /\ minted' = minted
  BY <1>2 DEF Publish, Goto, ChildOf
<1> HIDE DEF r
<1>5. /\ rotation'[old] = r
      /\ \A t \in Sessions \ {old} : rotation'[t] = rotation[t]
      /\ \A t \in Sessions : ChildOf(t)' = ChildOf(t)
  BY <1>2, <1>3, <1>4, Rotated
<1>6. /\ \A t : Untouched(t)' = Untouched(t)
      /\ \A t : Targeting(t)' = Targeting(t) /\ From(t)' = From(t)
  BY <1>4, SameCases DEF Targeting, From
<1>7. old \in published /\ From(child) = {}
  BY <1>1, <1>2 DEF RInv, LineageKept, FreshKept, Unclaimed
<1>8. /\ LineageKept'
      /\ lineage'[child] = lineage[old] \cup {old}
      /\ \A i \in intents : lineage'[i.old] = lineage[i.old]
      /\ \A t \in Sessions \ {child} : lineage'[t] = lineage[t]
  <2>1. \A s \in Sessions : rotation'[s].step # "idle" => rotation[s].step # "idle"
    BY <1>1, <1>5
  <2> QED  BY <1>2, <1>4, <1>7, <2>1, LineageGrows
<1>9. \A i \in intents : i.new = child => i.old = old
  BY <1>2 DEF BInv, IntentsKept
<1>10. IntentsUnique' /\ IntentsFollow'
  BY <1>4, <1>8, <1>9, Facts DEF RInv, IntentsUnique, IntentsFollow
<1>11. SourcesRecovered'
  BY <1>1, <1>5, <1>6 DEF RInv, SourcesRecovered
<1>12. FreshKept'
  <2>1. \A t \in Sessions : Unclaimed(t)' = Unclaimed(t)
    BY <1>5 DEF Unclaimed
  <2>2. \A t \in Sessions :
          rotation'[t].step \in Unprepared /\ ChildOf(t)' # NoSession =>
            {i \in intents : i.new = ChildOf(t)'} = {}
    BY <1>3, <1>5 DEF Targeting, RInv, FreshKept, Unprepared
  <2>3. \A t \in Sessions \ published' :
          t \notin minted \/ ~Unclaimed(t)' => Untouched(t) /\ From(t) = {}
    BY <1>4, <2>1 DEF RInv, FreshKept
  <2> QED  BY <1>4, <1>6, <2>2, <2>3 DEF FreshKept, Targeting
<1>13. \A i \in intents : Committed(i)' => Committed(i)
  BY <1>1, <1>2, <1>4, <1>5, <1>9, Facts DEF Committed
<1>14. \A i \in intents : Sideways(i)' = Sideways(i)
  BY <1>4, <1>8 DEF Sideways
<1>15. Reserved'
  BY <1>4, <1>8, <1>13, <1>14, ReservationStays DEF RInv, Reserved
<1> QED  BY <1>8, <1>10, <1>11, <1>12, <1>15 DEF RInv

(* A child that nothing was prepared for is in no intent.                  *)
LEMMA UnpreparedReserves ==
  ASSUME BInv, RInv, NEW old \in Sessions, NEW new \in Sessions, RotateUnprepared(old, new)
  PROVE  RInv'
<1>1. /\ new \notin minted /\ minted' = minted \cup {new} /\ old \in published
      /\ published' = published \cup {new} /\ Continues(new, old)
      /\ UNCHANGED <<cases, hw>> /\ intents' = intents /\ rotation' = rotation
  BY DEF RotateUnprepared
<1>2. /\ new \notin published /\ From(new) = {}
      /\ \A i \in intents : i.new \in minted /\ i.new # new /\ i.new \in Sessions
  BY <1>1, Facts DEF RInv, FreshKept, BInv, IntentsKept
<1>3. /\ LineageKept'
      /\ \A i \in intents : lineage'[i.old] = lineage[i.old]
      /\ \A t \in Sessions \ {new} : lineage'[t] = lineage[t]
  BY <1>1, <1>2, LineageGrows
<1>4. /\ \A t : Untouched(t)' = Untouched(t)
      /\ \A t : Targeting(t)' = Targeting(t) /\ From(t)' = From(t)
      /\ \A t : ChildOf(t)' = ChildOf(t) /\ Unclaimed(t)' = Unclaimed(t)
      /\ \A i \in intents : Sideways(i)' = Sideways(i)
  BY <1>1, <1>3, SameCases DEF Targeting, From, ChildOf, Unclaimed, Sideways
<1>5. IntentsUnique' /\ IntentsFollow'
  BY <1>1, <1>2, <1>3 DEF RInv, IntentsUnique, IntentsFollow
<1>6. SourcesRecovered'
  BY <1>1, <1>4 DEF RInv, SourcesRecovered
<1>7. FreshKept'
  <2>1. \A t \in Sessions :
          rotation'[t].step \in Unprepared /\ ChildOf(t)' # NoSession =>
            {i \in intents' : i.new = ChildOf(t)'} = {}
    BY <1>1, <1>4 DEF Targeting, RInv, FreshKept
  <2>2. \A t \in Sessions \ published' :
          t \notin minted' \/ ~Unclaimed(t) => Untouched(t) /\ From(t) = {}
    BY <1>1 DEF RInv, FreshKept
  <2> QED  BY <1>4, <2>1, <2>2 DEF FreshKept, Targeting
<1>8. \A i \in intents : Committed(i)' => Committed(i)
  BY <1>1, <1>2, <1>4 DEF Committed
<1>9. Reserved'
  BY <1>1, <1>3, <1>4, <1>8, ReservationStays DEF RInv, Reserved
<1> QED  BY <1>3, <1>5, <1>6, <1>7, <1>9 DEF RInv

(* The child that is taken back is claimed by nobody any more.             *)
LEMMA RollbackReserves ==
  ASSUME BInv, RInv, NEW old \in Sessions, Rollback(old)
  PROVE  RInv'
<1>1. rotation[old] \in Rotation /\ rotation[old].step \in {"prepared", "published"}
  BY Facts DEF Rollback
<1>2. PICK child \in Sessions : child = ChildOf(old) /\ child \in minted /\ child # old
  BY <1>1, Facts DEF BInv, ChildrenKept
<1> DEFINE r == [rotation[old] EXCEPT !.step = "abort", !.child = NoSession, !.stale = child]
<1>3. r \in Rotation /\ r.step = "abort" /\ r.child = NoSession
  BY <1>1, <1>2 DEF Rotation, RotationSteps
<1>4. /\ Rotates(old, r) /\ published' = published \ {child}
      /\ lineage' = [lineage EXCEPT ![child] = {}]
      /\ UNCHANGED <<cases, hw>> /\ intents' = intents /\ minted' = minted
      /\ rotation[child].step = "idle" /\ \A t \in published : child \notin lineage[t]
  BY <1>2 DEF Rollback, ChildOf, Continued
<1> HIDE DEF r
<1>5. /\ rotation'[old] = r /\ ChildOf(old)' = NoSession
      /\ \A t \in Sessions \ {old} : rotation'[t] = rotation[t] /\ ChildOf(t)' = ChildOf(t)
  BY <1>3, <1>4, Rotated
<1>6. /\ \A t : Untouched(t)' = Untouched(t)
      /\ \A t : Targeting(t)' = Targeting(t) /\ From(t)' = From(t)
  BY <1>4, SameCases DEF Targeting, From
<1>7. /\ published' \subseteq published /\ published \subseteq Sessions
      /\ \A t \in Sessions \ {child} : lineage'[t] = lineage[t]
  BY <1>4, Facts DEF BInv, BoundaryTypeOK
<1>8. \A i \in intents : Committed(i)' => Committed(i) /\ i.old # child
  <2>1. ASSUME NEW i \in intents, Committed(i)' PROVE Committed(i)
    BY <1>3, <1>5, <1>7, <2>1, Facts DEF Committed
  <2>2. ASSUME NEW i \in intents, Committed(i)', i.old = child PROVE FALSE
    <3>1. i.new \in published
      BY <1>2, <1>4, <1>5, <2>2 DEF Committed
    <3>2. child \in lineage[i.new]
      BY <2>2, <3>1 DEF RInv, IntentsFollow
    <3> QED  BY <1>4, <3>1, <3>2
  <2> QED  BY <2>1, <2>2
<1>9. IntentsUnique' /\ IntentsFollow'
  <2>1. ASSUME NEW i \in intents, i.new \in published'
        PROVE  lineage'[i.new] = lineage'[i.old] \cup {i.old}
    <3>1. i.old # child /\ i.old \in Sessions /\ i.new \in Sessions /\ i.new # child
      BY <1>4, <1>8, <2>1, Facts DEF Committed
    <3>2. lineage[i.new] = lineage[i.old] \cup {i.old}
      BY <1>4, <2>1 DEF RInv, IntentsFollow
    <3> QED  BY <1>7, <3>1, <3>2
  <2> QED  BY <1>4, <2>1 DEF RInv, IntentsUnique, IntentsFollow
<1>10. LineageKept'
  <2>1. ASSUME NEW t \in published'
        PROVE  /\ t # child /\ lineage'[t] = lineage[t]
               /\ lineage[t] \subseteq published' \ {t}
               /\ \A a \in lineage[t] : lineage'[a] \subseteq lineage[t]
    BY <1>4, <1>7, <2>1 DEF RInv, LineageKept
  <2>2. \A s \in Sessions : rotation'[s].step # "idle" => s \in published'
    BY <1>1, <1>2, <1>4, <1>5 DEF RInv, LineageKept
  <2> QED  BY <2>1, <2>2 DEF LineageKept
<1>11. SourcesRecovered'
  BY <1>1, <1>5, <1>6 DEF RInv, SourcesRecovered
<1>12. FreshKept'
  <2>1. /\ \A t \in Sessions : Unclaimed(t) => Unclaimed(t)'
        /\ Unclaimed(child)'
    <3>1. \A t \in Sessions \ {old} : ChildOf(t) # child
      BY <1>2, Facts DEF BInv, ChildrenKept
    <3> QED  BY <1>2, <1>5, <3>1, Facts DEF Unclaimed
  <2>2. \A t \in Sessions :
          rotation'[t].step \in Unprepared /\ ChildOf(t)' # NoSession =>
            {i \in intents : i.new = ChildOf(t)'} = {}
    BY <1>5 DEF Targeting, RInv, FreshKept
  <2>3. \A t \in Sessions \ published' :
          t \notin minted \/ ~Unclaimed(t)' => Untouched(t) /\ From(t) = {}
    BY <1>2, <1>4, <2>1 DEF RInv, FreshKept
  <2> QED  BY <1>4, <1>6, <2>2, <2>3 DEF FreshKept, Targeting
<1>13. ASSUME NEW i \in intents, Committed(i)' PROVE ReservedFor(i)'
  <2>1. Committed(i) /\ i.old # child /\ i.old \in Sessions
    BY <1>8, <1>13, Facts
  <2>2. lineage'[i.old] = lineage[i.old]
    BY <1>7, <2>1
  <2> QED  BY <1>4, <2>1, <2>2, ReservationStays DEF RInv, Reserved, Sideways
<1>14. Reserved'
  BY <1>4, <1>13 DEF Reserved
<1> QED  BY <1>9, <1>10, <1>11, <1>12, <1>14 DEF RInv

(* Where a preparation stands: its child is as new as when its id was      *)
(* drawn, and its source has neither an intent nor another child.          *)
LEMMA PreparationFacts ==
  ASSUME BInv, RInv, NEW s \in Sessions, rotation[s].step = "prepare"
  PROVE  /\ ChildOf(s) \in Sessions /\ ChildOf(s) # NoSession
         /\ ChildOf(s) \notin published /\ ChildOf(s) # s /\ s \in published
         /\ Targeting(ChildOf(s)) = {} /\ From(ChildOf(s)) = {}
         /\ Targeting(s) = {} /\ From(s) = {}
         /\ ActiveOn(ChildOf(s)) = {} /\ Marked(ChildOf(s)) = {}
<1>1. /\ ChildOf(s) \in Sessions /\ ChildOf(s) # NoSession
      /\ ChildOf(s) \notin published /\ ChildOf(s) # s
  BY Facts DEF BInv, ChildrenKept
<1>2. Targeting(ChildOf(s)) = {}
  BY <1>1 DEF RInv, FreshKept, Unprepared
<1>3. From(s) = {}
  BY <1>2 DEF BInv, SourcesKept, Aimed, From, Targeting, ChildOf
<1>4. s \in published /\ Targeting(s) = {}
  BY DEF RInv, LineageKept, SourcesRecovered
<1>5. Untouched(ChildOf(s)) /\ From(ChildOf(s)) = {}
  BY <1>1 DEF RInv, FreshKept, Unclaimed
<1>6. ActiveOn(ChildOf(s)) = {} /\ Marked(ChildOf(s)) = {}
  BY <1>5 DEF Untouched, ActiveOn, Marked, MarkerValid
<1> QED  BY <1>1, <1>2, <1>3, <1>4, <1>5, <1>6

(* store.prepare_compression: its intent is the only one of both sessions. *)
LEMMA PrepareReserves ==
  ASSUME BInv, RInv, NEW s \in Sessions, Prepare(s)
  PROVE  RInv'
<1>1. /\ rotation[s] \in Rotation /\ rotation[s].step = "prepare"
      /\ UNCHANGED <<cases, hw, core>>
  BY Facts DEF Prepare
<1>2. PICK child \in Sessions : child = ChildOf(s)
  BY <1>1, PreparationFacts
<1>3. /\ child \notin published /\ child # s /\ child # NoSession /\ s \in published
      /\ Targeting(child) = {} /\ From(child) = {} /\ From(s) = {} /\ Targeting(s) = {}
      /\ ActiveOn(child) = {} /\ Marked(child) = {}
  BY <1>1, <1>2, PreparationFacts
<1>4. PICK r \in Rotation :
        /\ Rotates(s, r) /\ r.step = "prepared" /\ r.child = child
        /\ \/ intents' = intents
           \/ \E c \in ActiveOn(s) :
                intents' = intents \cup {[case |-> c, old |-> s, new |-> child]}
  <2>1. CASE ActiveOn(s) = {} /\ Goto(s, "prepared") /\ UNCHANGED intents
    <3> DEFINE r == [rotation[s] EXCEPT !.step = "prepared"]
    <3>1. r \in Rotation /\ r.step = "prepared" /\ r.child = child
      BY <1>1, <1>2 DEF Rotation, RotationSteps, ChildOf
    <3> QED  BY <2>1, <3>1 DEF Goto
  <2>2. ASSUME NEW c \in ActiveOn(s),
               intents' = (intents \ From(s)) \cup {[case |-> c, old |-> s, new |-> child]},
               Rotates(s, [rotation[s] EXCEPT !.step = "prepared", !.case = {c}])
        PROVE  \E r \in Rotation :
                 /\ Rotates(s, r) /\ r.step = "prepared" /\ r.child = child
                 /\ intents' = intents \cup {[case |-> c, old |-> s, new |-> child]}
    <3> DEFINE r == [rotation[s] EXCEPT !.step = "prepared", !.case = {c}]
    <3>1. c \in Cases
      BY DEF ActiveOn
    <3>2. r \in Rotation /\ r.step = "prepared" /\ r.child = child
      BY <1>1, <1>2, <3>1 DEF Rotation, RotationSteps, ChildOf
    <3>3. intents' = intents \cup {[case |-> c, old |-> s, new |-> child]}
      BY <1>3, <2>2
    <3> QED  BY <2>2, <3>2, <3>3
  <2> QED  BY <1>2, <2>1, <2>2 DEF Prepare, ChildOf
<1>5. /\ rotation'[s] = r
      /\ \A t \in Sessions \ {s} : rotation'[t] = rotation[t]
      /\ \A t \in Sessions : ChildOf(t)' = ChildOf(t)
  BY <1>2, <1>4, Rotated
<1>6. /\ published' = published /\ lineage' = lineage /\ minted' = minted
      /\ \A t : Untouched(t)' = Untouched(t)
  BY <1>1, SameCases DEF core
<1>7. /\ intents \subseteq intents'
      /\ \A j \in intents' \ intents :
           j.old = s /\ j.new = child /\ j.case \in Cases /\ cases[j.case].session = s
      /\ \A i, j \in intents' \ intents : i = j
  <2>1. ASSUME NEW c \in ActiveOn(s), NEW j, j = [case |-> c, old |-> s, new |-> child],
               intents' = intents \cup {j}
        PROVE  /\ intents \subseteq intents'
               /\ \A i \in intents' \ intents :
                    i.old = s /\ i.new = child /\ i.case \in Cases /\ cases[i.case].session = s
               /\ \A i, k \in intents' \ intents : i = k
    <3>1. j.case = c /\ j.old = s /\ j.new = child /\ c \in Cases /\ cases[c].session = s
      BY <2>1 DEF ActiveOn
    <3> QED  BY <2>1, <3>1
  <2> QED  BY <1>4, <2>1
<1>8. \A i \in intents : i.old # s /\ i.new # child /\ i.new # s /\ i.old # child
  BY <1>3 DEF From, Targeting
<1>9. LineageKept'
  BY <1>1, <1>4, <1>5, <1>6 DEF RInv, LineageKept
<1>10. IntentsUnique'
  BY <1>7, <1>8 DEF RInv, IntentsUnique
<1>11. IntentsFollow'
  BY <1>3, <1>6, <1>7, <1>8 DEF RInv, IntentsFollow
<1>12. SourcesRecovered'
  <2> SUFFICES ASSUME NEW t \in Sessions, rotation'[t].step \notin {"idle", "recover"}
               PROVE  \A i \in intents' : i.new # t
    BY DEF SourcesRecovered, Targeting
  <2>1. Targeting(t) = {}
    BY <1>3, <1>5 DEF RInv, SourcesRecovered
  <2>2. t # child
    BY <1>3, <1>5 DEF RInv, LineageKept
  <2> QED  BY <1>7, <2>1, <2>2 DEF Targeting
<1>13. FreshKept'
  <2>1. ASSUME NEW t \in Sessions, rotation'[t].step \in Unprepared, ChildOf(t) # NoSession
        PROVE  \A i \in intents' : i.new # ChildOf(t)
    <3>1. t # s
      BY <1>4, <1>5, <2>1 DEF Unprepared
    <3>2. Targeting(ChildOf(t)) = {}
      BY <1>5, <2>1, <3>1 DEF RInv, FreshKept
    <3>3. ChildOf(t) # child
      BY <1>2, <2>1, <3>1 DEF BInv, ChildrenKept
    <3> QED  BY <1>7, <3>2, <3>3 DEF Targeting
  <2>2. ASSUME NEW t \in Sessions \ published, t \notin minted \/ ~Unclaimed(t)'
        PROVE  Untouched(t) /\ {i \in intents' : i.old = t} = {}
    <3>1. Untouched(t) /\ From(t) = {} /\ t # s
      BY <1>3, <1>5, <2>2 DEF RInv, FreshKept, Unclaimed
    <3> QED  BY <1>7, <3>1 DEF From
  <2>3. \A t \in Sessions :
          rotation'[t].step \in Unprepared /\ ChildOf(t)' # NoSession =>
            {i \in intents' : i.new = ChildOf(t)'} = {}
    BY <1>5, <2>1
  <2> QED  BY <1>6, <2>2, <2>3 DEF FreshKept, Targeting, From
<1>14. \A i \in intents : Committed(i)' => Committed(i)
  BY <1>5, <1>6, <1>8, Facts DEF Committed
<1>15. ASSUME NEW i \in intents, Committed(i) PROVE ReservedFor(i)'
  <2>1. i.case \in Cases /\ ReservedFor(i)
    BY <1>15, CommittedFacts
  <2>2. Sideways(i)' \subseteq Sideways(i)
    <3>1. ASSUME NEW j \in intents' \ intents, j.case = i.case PROVE j.old \notin lineage[i.old]
      BY <1>7, <2>1, <3>1 DEF ReservedFor, Above
    <3> QED  BY <1>6, <3>1 DEF Sideways
  <2> QED  BY <1>1, <1>6, <2>1, <2>2, ReservationStays
<1>16. ASSUME NEW j \in intents' \ intents PROVE ReservedFor(j)'
  <2>1. j.old = s /\ j.new = child /\ cases[j.case].session = s
    BY <1>7
  <2>2. s \notin lineage[s]
    BY <1>3 DEF RInv, LineageKept
  <2>3. \A k \in intents' : k.new # s
    BY <1>3, <1>7, <1>8
  <2>4. cases[j.case].session \notin Above(j)'
    BY <1>6, <2>1, <2>2, <2>3 DEF Above, Sideways
  <2>5. ActiveOn(j.new)' = {} /\ Marked(j.new)' = {}
    BY <1>1, <1>3, <2>1, SameCases
  <2> QED  BY <1>1, <2>4, <2>5 DEF ReservedFor
<1>17. Reserved'
  BY <1>14, <1>15, <1>16 DEF Reserved
<1> QED  BY <1>9, <1>10, <1>11, <1>12, <1>13, <1>17 DEF RInv

-----------------------------------------------------------------------------
(* The lock sections and callbacks of prepare_compression before that.     *)
LEMMA RotationReserves ==
  ASSUME BInv, RInv, NEW s \in Sessions,
         RecoverSource(s) \/ Look(s) \/ ProveAbsence(s) \/ Leave(s)
  PROVE  RInv'
<1>1. /\ rotation[s] \in Rotation /\ UNCHANGED <<cases, hw, core>> /\ intents' = intents
      /\ ChildOf(s) = rotation[s].child
  BY Facts DEF RecoverSource, Look, ProveAbsence, Leave, ChildOf
<1>2. /\ rotation[s].step # "idle" => s \in published
      /\ rotation[s].step \notin {"idle", "recover"} => Targeting(s) = {}
      /\ rotation[s].step \in {"recover", "look", "prove"} /\ ChildOf(s) # NoSession =>
           Targeting(ChildOf(s)) = {}
  BY DEF RInv, LineageKept, SourcesRecovered, FreshKept, Unprepared
<1>3. CASE Leave(s)
  <2>1. Idle \in Rotation /\ Idle.step = "idle" /\ Idle.child = NoSession
    BY DEF Idle, Rotation, RotationSteps
  <2> QED  BY <1>1, <1>3, <2>1, MoveReserves DEF Leave
<1>4. CASE RecoverSource(s) \/ Look(s) \/ ProveAbsence(s)
  <2>1. /\ rotation[s].step \in {"recover", "look", "prove"}
        /\ Targeting(s) = {}
    BY <1>2, <1>4 DEF RecoverSource, Look, ProveAbsence
  <2>2. PICK r \in Rotation :
          /\ Rotates(s, r) /\ r.child = ChildOf(s)
          /\ r.step \in {"look", "prove", "abort", "prepare"}
    <3>1. ASSUME NEW step \in {"look", "prove", "abort", "prepare"},
                 NEW stale \in Sessions \cup {NoSession}
          PROVE  LET r == [rotation[s] EXCEPT !.step = step, !.stale = stale]
                 IN  /\ r \in Rotation /\ r.child = ChildOf(s) /\ r.step = step
      BY <1>1 DEF Rotation, RotationSteps
    <3>2. ASSUME NEW step \in {"look", "prove", "abort", "prepare"}
          PROVE  LET r == [rotation[s] EXCEPT !.step = step]
                 IN  /\ r \in Rotation /\ r.child = ChildOf(s) /\ r.step = step
      BY <1>1 DEF Rotation, RotationSteps
    <3>3. CASE \E step \in {"look", "abort", "prepare"} : Goto(s, step)
      BY <3>2, <3>3 DEF Goto
    <3>4. CASE \E i \in intents :
                 Rotates(s, [rotation[s] EXCEPT !.step = "prove", !.stale = i.new])
      BY <3>1, <3>4, Facts
    <3> QED  BY <1>4, <3>3, <3>4 DEF RecoverSource, Look, ProveAbsence, From
  <2>3. /\ r.child \in {ChildOf(s), NoSession}
        /\ r.step \in {"idle", "look", "prove", "abort", "prepare"}
        /\ s \in published /\ Targeting(s) = {}
        /\ r.child # NoSession => Targeting(r.child) = {}
        /\ intents' \subseteq intents
    BY <1>1, <1>2, <2>1, <2>2
  <2> QED  BY <1>1, <2>2, <2>3, MoveReserves
<1> QED  BY <1>3, <1>4

(* abort_prepared_compression, before or after the case is back.           *)
LEMMA AbortReserves ==
  ASSUME BInv, RInv, NEW s \in Sessions, Abort(s)
  PROVE  RInv'
<1>1. /\ rotation[s] \in Rotation /\ rotation[s].step = "abort"
      /\ UNCHANGED core
  BY Facts DEF Abort
<1>2. CASE \E i \in AbortedIntent(s) : ActiveOn(s) = {} /\ AlreadyThere(i)
  <2>1. PICK i \in AbortedIntent(s) : Migrate(i.case, s) /\ UNCHANGED <<intents, rotation>>
    BY <1>2 DEF Abort
  <2>2. \A j \in AbortedIntent(s) : j = i
    BY <2>1 DEF AbortedIntent, From, RInv, IntentsUnique
  <2>3. AlreadyThere(i)
    BY <1>2, <2>2
  <2> QED  BY <1>1, <2>1, <2>3, ReturnReserves
<1>3. CASE ~ \E i \in AbortedIntent(s) : ActiveOn(s) = {} /\ AlreadyThere(i)
  <2> DEFINE step == IF ChildOf(s) = NoSession THEN "idle" ELSE "prepare"
             r == [rotation[s] EXCEPT !.step = step]
  <2>1. /\ Rotates(s, r) /\ UNCHANGED <<cases, hw>> /\ intents' \subseteq intents
    BY <1>1, <1>3 DEF Abort, Goto, ChildOf
  <2>2. /\ r \in Rotation /\ r.child = ChildOf(s) /\ r.step = step
        /\ step \in {"idle", "prepare"}
    BY <1>1 DEF Rotation, RotationSteps, ChildOf
  <2> HIDE DEF step, r
  <2>3. /\ s \in published /\ Targeting(s) = {}
        /\ ChildOf(s) # NoSession => Targeting(ChildOf(s)) = {}
    BY <1>1 DEF RInv, LineageKept, SourcesRecovered, FreshKept, Unprepared
  <2>4. /\ r.child \in {ChildOf(s), NoSession}
        /\ r.step \in {"idle", "look", "prove", "abort", "prepare"}
        /\ r.child # NoSession => Targeting(r.child) = {}
    BY <2>2, <2>3
  <2> QED  BY <1>1, <2>1, <2>2, <2>3, <2>4, MoveReserves
<1> QED  BY <1>2, <1>3

(* recover_prepared_compression.                                           *)
LEMMA RecoverReserves ==
  ASSUME BInv, RInv, NEW s \in Sessions, Recover(s)
  PROVE  RInv'
<1>1. PICK i \in intents : Targeting(s) = {i} /\ (CompleteMigration(i) \/ Settle(i))
  BY DEF Recover
<1>2. UNCHANGED <<core, rotation>> /\ s \in published
  BY DEF Recover
<1>3. CASE CompleteMigration(i)
  BY <1>1, <1>2, <1>3, CompletionReserves
<1>4. CASE Settle(i)
  <2>1. UNCHANGED <<cases, hw>> /\ intents' \subseteq intents
    BY <1>4 DEF Settle
  <2> QED  BY <1>2, <2>1, RemovalReserves
<1> QED  BY <1>1, <1>3, <1>4

-----------------------------------------------------------------------------
(* The first session has no case, no lineage and no intent.                *)
LEMMA ReservedAtFirst == BoundaryInit => RInv
<1> SUFFICES ASSUME BoundaryInit PROVE RInv
  OBVIOUS
<1>1. /\ intents = {} /\ published = {Root} /\ lineage = [s \in Sessions |-> {}]
      /\ \A s \in Sessions : rotation[s].step = "idle" /\ ChildOf(s) = NoSession
      /\ \A c \in Cases : cases[c].session = NoSession
  BY DEF BoundaryInit, Init, NoCase, Idle, ChildOf
<1>2. \A s \in Sessions : Untouched(s) /\ From(s) = {}
  BY <1>1, NoSessionAssumption DEF Untouched, From
<1>3. LineageKept
  BY <1>1, RootAssumption DEF LineageKept
<1>4. IntentsUnique /\ IntentsFollow /\ SourcesRecovered /\ Reserved
  BY <1>1 DEF IntentsUnique, IntentsFollow, SourcesRecovered, Targeting, Reserved
<1>5. FreshKept
  BY <1>1, <1>2 DEF FreshKept, Unprepared
<1> QED  BY <1>3, <1>4, <1>5 DEF RInv

(* Every step keeps the sessions of a prepared case for it.                *)
LEMMA NextReserves == BInv /\ RInv /\ [BoundaryNext]_bvars => RInv'
<1> SUFFICES ASSUME BInv, RInv, [BoundaryNext]_bvars PROVE RInv'
  OBVIOUS
<1>1. CASE ClearIntent \/ Crash
  BY <1>1, RemovalReserves DEF ClearIntent, Crash
<1>2. ASSUME NEW s \in Sessions, Recover(s) PROVE RInv'
  BY <1>2, RecoverReserves
<1>3. ASSUME NEW s \in Sessions, NEW new \in Sessions,
             BeginRotation(s, new) \/ RotateUnprepared(s, new)
      PROVE  RInv'
  BY <1>3, BeginReserves, UnpreparedReserves
<1>4. ASSUME NEW s \in Sessions,
             RecoverSource(s) \/ Look(s) \/ ProveAbsence(s) \/ Leave(s)
      PROVE  RInv'
  BY <1>4, RotationReserves
<1>5. ASSUME NEW s \in Sessions, Abort(s) PROVE RInv'
  BY <1>5, AbortReserves
<1>6. ASSUME NEW s \in Sessions, Prepare(s) PROVE RInv'
  BY <1>6, PrepareReserves
<1>7. ASSUME NEW s \in Sessions, Publish(s) \/ Rollback(s) PROVE RInv'
  BY <1>7, PublishReserves, RollbackReserves
<1>8. ASSUME NEW s \in Sessions, BeginOperation(s) PROVE RInv'
  BY <1>8, RemovalReserves DEF BeginOperation
<1>9. ASSUME NEW s \in Sessions,
             Operate(s) \/ LifecyclePause(s) \/ ProofOfLife(s) \/ Follow(s)
      PROVE  RInv'
  BY <1>9, OperationReserves, PauseReserves, LifeReserves, FollowReserves
<1>10. CASE UNCHANGED bvars
  <2>1. UNCHANGED <<cases, hw, core, rotation>> /\ intents' \subseteq intents
    BY <1>10 DEF bvars, core
  <2> QED  BY <2>1, RemovalReserves
<1> QED
  BY <1>1, <1>2, <1>3, <1>4, <1>5, <1>6, <1>7, <1>8, <1>9, <1>10 DEF BoundaryNext

(* From its preparation to its settlement an intent keeps its child free   *)
(* while its source holds the case, and a case that has left the source is *)
(* nowhere from where the source could get it back: neither on an ancestor *)
(* nor on a child prepared from one (prepare_compression,                  *)
(* migrate_lineage_case).                                                  *)
THEOREM ReservationInvariant == BoundarySpec => []RInv
BY Invariant, ReservedAtFirst, NextReserves, PTL DEF BoundarySpec

(* A published child meets one intent, which it can complete as long as    *)
(* the parent holds the case (recover_prepared_compression).               *)
THEOREM RefusalComesAfterwards == BoundarySpec => []RefusedOnlyIfCaseLeft
<1>1. BInv /\ RInv => RefusedOnlyIfCaseLeft
  <2> SUFFICES ASSUME BInv, RInv, NEW s \in published, NEW i \in Targeting(s)
               PROVE  /\ Targeting(s) = {i}
                      /\ i.case \in ActiveOn(i.old) => Completable(i)
    BY DEF RefusedOnlyIfCaseLeft
  <2>1. i \in intents /\ i.new = s /\ Committed(i)
    BY DEF Targeting, Committed
  <2>2. Targeting(s) = {i}
    BY <2>1 DEF Targeting, RInv, IntentsUnique
  <2> QED  BY <2>1, <2>2, CommittedFacts DEF ReservedFor, Completable
<1> QED  BY <1>1, Invariant, ReservationInvariant, PTL
=============================================================================
