---------------------------- MODULE ModelRepair ----------------------------
(***************************************************************************)
(* The model of one case, the probe bound to one of its claims, and the    *)
(* repair a material mismatch demands (_compare_probe, _revise and the     *)
(* staleness helpers of harness.py).                                       *)
(*                                                                         *)
(* A mismatch makes the affected items stale, and with them every plan     *)
(* step that depends on one, directly or through other steps.  Until a     *)
(* revision addresses the mismatch no probe is committed and the case does *)
(* not close.  Evidence links and authority are Calibration's, capture and *)
(* comparison in detail are ProbeCycle's.                                  *)
(***************************************************************************)
EXTENDS Integers, FiniteSets, Sequences

CONSTANTS Claims,     \* ids of claims
          Steps,      \* ids of plan steps
          Texts,      \* what a claim or a plan step may say
          Lists,      \* dependency lists a plan step may have, sorted
          None        \* no such field, item, claim or probe

Ids == Claims \cup Steps
Statuses == {"grounded", "hypothesis", "unresolved"}

(* A claim has a text and a status, and may carry an "action" field that   *)
(* nothing asks of it; a plan step has an action and its dependencies.     *)
ClaimItems == [text : Texts, status : Statuses, action : {None, "extra"}, needs : {<<>>}]
StepItems == [text : {None}, status : {None}, action : Texts, needs : Lists]

Needs(item) == {item.needs[i] : i \in DOMAIN item.needs}
Present(m) == {i \in Ids : m[i] # None}

(* A model the server accepts: a step depends on items that are there.     *)
Models ==
  {m \in [Ids -> ClaimItems \cup StepItems \cup {None}] :
     /\ \A c \in Claims : m[c] \in ClaimItems \cup {None}
     /\ \A s \in Steps : m[s] \in StepItems \cup {None}
     /\ \A s \in Steps \cap Present(m) : Needs(m[s]) \subseteq Present(m)}

(* A plan is finite, and an absent text is no text.                        *)
ASSUME RepairAssumption == IsFiniteSet(Steps) /\ None \notin Texts

VARIABLES model,     \* the items of the case's model
          pending,   \* the claim of the pending probe and its snapshot
          stale,     \* whether a material mismatch awaits repair
          staleIds,  \* the items it made stale
          affected   \* history: the items the mismatch was found to affect

vars == <<model, pending, stale, staleIds, affected>>

NoProbe == [claim |-> None, snapshot |-> None, open |-> FALSE]

----------------------------------------------------------------------------
(* Staleness                                                               *)

(* Faulty: looks at direct dependencies only.                              *)
ExpandOnce(m, items) ==
  items \cup {s \in Steps \cap Present(m) : Needs(m[s]) \cap items # {}}

(* The plan is swept until a sweep adds nothing, at most once per step.    *)
Expand(m, items) ==
  LET sweep[n \in 0..Cardinality(Steps)] ==
        IF n = 0 THEN items ELSE ExpandOnce(m, sweep[n - 1])
  IN sweep[Cardinality(Steps)]

(* What is compared of two versions of an item: action and dependencies if *)
(* it has an action, its text otherwise.                                   *)
Signature(item) ==
  IF item.action # None THEN <<item.action, item.needs>> ELSE <<item.text>>

Downgrades ==
  {<<"grounded", "hypothesis">>, <<"grounded", "unresolved">>, <<"hypothesis", "unresolved">>}

Substantive(old, new) ==
  \/ Signature(old) # Signature(new)
  \/ /\ old.action = None /\ new.action = None
     /\ <<old.status, new.status>> \in Downgrades

----------------------------------------------------------------------------
(* The operations                                                          *)

Init ==
  /\ model \in {m \in Models : \A c \in Claims \cap Present(m) : m[c].action = None}
  /\ pending = NoProbe
  /\ stale = FALSE
  /\ staleIds = {}
  /\ affected = {}

(* Faulty: does not ask whether the case is stale.                         *)
CommitWhileStale(claim) ==
  /\ ~pending.open
  /\ claim \in (Claims \cap Present(model)) \cup {None}
  /\ pending' = [claim |-> claim, open |-> TRUE,
                 snapshot |-> IF claim = None THEN None ELSE model[claim]]
  /\ UNCHANGED <<model, stale, staleIds, affected>>

(* A probe is committed, bound to a claim or to none: the claim is copied. *)
(* The replay of a stale case is unusable.                                 *)
Commit(claim) ==
  /\ ~pending.open
  /\ ~stale
  /\ claim \in (Claims \cap Present(model)) \cup {None}
  /\ pending' = [claim |-> claim, open |-> TRUE,
                 snapshot |-> IF claim = None THEN None ELSE model[claim]]
  /\ UNCHANGED <<model, stale, staleIds, affected>>

(* Faulty: evidence about one claim may be used against any other.         *)
RelatedToAny(items) == TRUE

(* A bound comparison affects its claim, and beyond it only steps that     *)
(* depend on it.                                                           *)
Related(items) ==
  pending.claim # None =>
    pending.claim \in items /\ items \subseteq Expand(model, {pending.claim})

CompareMatch(items) ==
  /\ pending.open
  /\ items \subseteq Present(model) /\ Related(items)
  /\ pending' = NoProbe
  /\ UNCHANGED <<model, stale, staleIds, affected>>

CompareMismatch(items) ==
  /\ pending.open
  /\ items # {} /\ items \subseteq Present(model) /\ Related(items)
  /\ pending' = NoProbe
  /\ stale' = TRUE
  /\ staleIds' = Expand(model, items)
  /\ affected' = items
  /\ UNCHANGED model

Discard ==
  /\ pending.open
  /\ pending' = NoProbe
  /\ UNCHANGED <<model, stale, staleIds, affected>>

(* Faulty: revises while a probe is out.                                   *)
ReviseAnyTime(m) ==
  /\ ~stale
  /\ m # model
  /\ model' = m
  /\ stale' = FALSE /\ staleIds' = {} /\ affected' = {}
  /\ UNCHANGED pending

(* A revision replaces the model; that of a stale case addresses the       *)
(* mismatch and gives every stale item that stays a substantive change.    *)
Revise(m) ==
  /\ ~pending.open
  /\ m # model
  /\ stale => \A i \in staleIds \cap Present(model) \cap Present(m) :
                 Substantive(model[i], m[i])
  /\ model' = m
  /\ stale' = FALSE /\ staleIds' = {} /\ affected' = {}
  /\ UNCHANGED pending

Next ==
  \/ \E claim \in Claims \cup {None} : Commit(claim)
  \/ \E items \in SUBSET Ids : CompareMatch(items)
  \/ \E items \in SUBSET Ids : CompareMismatch(items)
  \/ Discard
  \/ \E m \in Models : Revise(m)

Spec == Init /\ [][Next]_vars

----------------------------------------------------------------------------
(* Properties                                                              *)

(* The types; only a stale case has stale items, and no probe is out then. *)
TypeOK ==
  /\ model \in Models
  /\ pending.claim \in Claims \cup {None} /\ pending.open \in BOOLEAN
  /\ staleIds \subseteq Ids /\ affected \subseteq Ids
  /\ stale \in BOOLEAN /\ (stale => ~pending.open)
  /\ stale = (affected # {})

(* The claim a pending probe is bound to still says what it said when the  *)
(* probe was committed: its comparison is about the claim of the model.    *)
SnapshotHolds ==
  pending.claim # None => model[pending.claim] = pending.snapshot

(* One item rests on another: directly, or along a chain of plan steps.    *)
(* (The least set that holds the first and all that depends on it.)        *)
RestingOn(m, items) ==
  {i \in Ids : \A closed \in SUBSET Ids :
     (items \subseteq closed /\ \A s \in Steps \cap Present(m) :
        Needs(m[s]) \cap closed # {} => s \in closed) => i \in closed}

(* Whatever rested on what a mismatch contradicted is reconsidered by the  *)
(* revision that clears it, however long the chain of plan steps: it is    *)
(* dropped, restated, or a claim held with less certainty.                 *)
Reconsidered(i) ==
  \/ model'[i] = None
  \/ [model[i] EXCEPT !.status = None] # [model'[i] EXCEPT !.status = None]
  \/ i \in Claims /\ <<model[i].status, model'[i].status>> \in Downgrades

DependentsAreReconsidered ==
  [][stale /\ ~stale' => \A i \in RestingOn(model, affected) : Reconsidered(i)]_vars

(* A mismatch of a bound probe makes stale nothing but its claim and what  *)
(* rests on it.                                                            *)
BlameStaysLocal ==
  [][stale' /\ ~stale /\ pending.claim # None =>
       /\ pending.claim \in staleIds'
       /\ staleIds' \subseteq RestingOn(model, {pending.claim})]_vars

(* What _stale_item_change_is_substantive says of itself: metadata does    *)
(* not repair a stale item.  The dependencies of a step are a set, the     *)
(* text of a claim is what it asserts.                                     *)
MetadataDoesNotRepair ==
  [][stale /\ ~stale' => \A i \in staleIds \cap Present(model) \cap Present(model') :
       \/ model[i].text # model'[i].text \/ model[i].status # model'[i].status
       \/ /\ i \in Steps
          /\ \/ model[i].action # model'[i].action
             \/ Needs(model[i]) # Needs(model'[i])]_vars

(* What TECHNICAL.md says of a repair: metadata alone does not clear a     *)
(* stale claim, and its id is metadata: the contradicted claim does not    *)
(* return under another id with the certainty it had.                      *)
RelabellingDoesNotRepair ==
  [][stale /\ ~stale' =>
       ~ \E i \in staleIds \cap Claims \cap Present(model), j \in Claims :
           model[j] = None /\ model'[i] = None /\ model'[j] = model[i]]_vars
============================================================================
