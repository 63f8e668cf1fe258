---------------------------- MODULE Calibration ----------------------------
(***************************************************************************)
(* What the claims of one case rest on: the events of its Timeline that a  *)
(* claim may cite, the claims that cite them, and the label that closing   *)
(* the case derives from both (_closure_calibration in harness.py).        *)
(*                                                                         *)
(* The Timeline here holds only the events that carry evidence authority   *)
(* (_event_authority_map); a claim that cites any other event is refused.  *)
(* How a probe comes to be executed and captured is ProbeCycle's; a        *)
(* material mismatch and its repair are ModelRepair's.                     *)
(***************************************************************************)
EXTENDS Integers, Sequences, FiniteSets

CONSTANTS Asserted,   \* claims of state_grounding and mechanisms
          Rivals,     \* claims of alternatives
          MaxEvents,  \* bound: events of the Timeline
          Histories   \* Timelines a case may have when the model begins

Claims == Asserted \cup Rivals

(* Authority domains: those of the user, external_source, and the domains  *)
(* the host observes itself (system_state, empirical_test).                *)
Domains == {"user", "source", "host"}
Group(domain) == IF domain = "user" THEN "user" ELSE "external"

(* Access scopes: snippet and abstract; partial, full and data; none given. *)
Scopes == {"limited", "inspected", "none"}
Statuses == {"ok", "failed", "unknown"}
Labels == {"hypothesis", "provisional", "mixed", "supported"}

Observations == {"probe_observed", "probe_exposed"}

(* probe: the event of the probe's observation, which identifies the probe *)
(* (0: no probe).  status: of the execution when the event is an           *)
(* observation, of the display when it is an exposure.  seen: the          *)
(* supersedes_event_id of an exposure, the observation_event_id of a       *)
(* comparison (0: missing).                                                *)
EventRec ==
  [kind : {"initial_observation", "evidence_recorded", "probe_compared"} \cup Observations,
   probe : 0..MaxEvents, domain : Domains, search : BOOLEAN,
   status : Statuses, seen : 0..MaxEvents, scope : Scopes]

(* status: grounded, or one of hypothesis and unresolved, which calibration *)
(* treats alike.  group: the authority it claims, which the events it      *)
(* cites must share; a claim without events binds to none ("external").    *)
ClaimRec ==
  [status : {"grounded", "hypothesis"},
   refs : SUBSET (1..MaxEvents), group : {"user", "external"}]

(* seen: the observation_event_id of the pending probe, 0 before capture.  *)
ProbeRec == [domain : Domains, search : BOOLEAN, seen : 0..MaxEvents]
NoProbe == [domain |-> "host", search |-> FALSE, seen |-> -1]

VARIABLES timeline,  \* the events that carry evidence authority
          pending,   \* the committed or observed probe of the case
          model,     \* its claims
          closure,   \* what closing the case recorded
          inherited  \* auxiliary: how many events the Timeline began with

vars == <<timeline, pending, model, closure, inherited>>

NoClosure == [outcome |-> "none", label |-> "hypothesis"]

Events == DOMAIN timeline

Evidence(kind, domain, scope) ==
  [kind |-> kind, probe |-> 0, domain |-> domain, search |-> FALSE,
   status |-> "ok", seen |-> 0, scope |-> scope]

(* A descriptor: external sources say how much was read, others do not.    *)
Descriptors ==
  {[domain |-> "source", scope |-> "limited"],
   [domain |-> "source", scope |-> "inspected"],
   [domain |-> "host", scope |-> "none"],
   [domain |-> "user", scope |-> "none"]}

NoDescriptor == [domain |-> "user", scope |-> "limited"]

(* A Timeline of any version: an event of a probe names the capture of its *)
(* result; what was captured and shown of it keeps the probe's authority,  *)
(* a comparison may have been attributed by a descriptor of any.  A link   *)
(* goes back, or names nothing; it may lead to another probe.  If not, an  *)
(* exposure names the representation it replaced, which was the newest.    *)
Ordered(t) ==
  \A e \in DOMAIN t :
    LET root == t[e].probe
        shown(d) == t[d].kind \in Observations /\ t[d].probe = root
    IN IF t[e].kind \in {"initial_observation", "evidence_recorded"}
         THEN root = 0
         ELSE /\ root \in 1..e
              /\ t[root].kind = "probe_observed" /\ t[root].probe = root
              /\ t[e].kind = "probe_observed" => root = e
              /\ t[e].kind \in Observations =>
                   /\ Group(t[e].domain) = Group(t[root].domain)
                   /\ t[e].search = t[root].search
              /\ t[e].seen \in 0..(e - 1)
              /\ t[e].kind = "probe_exposed" /\ t[e].seen # 0 /\ shown(t[e].seen) =>
                   \A d \in 1..(e - 1) : shown(d) => d <= t[e].seen

ASSUME CalibrationAssumption ==
  /\ MaxEvents \in Nat
  /\ \A t \in Histories : t \in Seq(EventRec) /\ Len(t) <= MaxEvents /\ Ordered(t)

----------------------------------------------------------------------------
(* Calibration                                                             *)

(* Faulty: classifies an exposure by what it shows alone.                  *)
ResolvedAlone == [e \in Events |-> timeline[e].status]

(* The status of an observation: the execution's, followed back through    *)
(* the representations that replaced one another.  A failed execution      *)
(* stays failed under every display; a display error after a success, or a *)
(* link that is missing or leads to another probe, leaves it unknown.      *)
Resolved ==
  LET status[e \in Events] ==
        LET event == timeline[e] IN
        IF event.kind = "probe_observed" THEN event.status
        ELSE IF event.seen \notin 1..(e - 1) THEN "unknown"
        ELSE IF timeline[event.seen].kind \notin Observations
                  \/ timeline[event.seen].probe # event.probe THEN "unknown"
        ELSE IF status[event.seen] # "ok" THEN status[event.seen]
        ELSE IF event.status = "ok" THEN "ok" ELSE "unknown"
  IN status

(* The observation an event stands for: a comparison's is the one compared. *)
ObservationOf(e) == IF timeline[e].kind = "probe_compared" THEN timeline[e].seen ELSE e

(* Recorded evidence counts; so does an observation of the event's own     *)
(* probe (expected_probe_id), when its status is known to be good.         *)
Counts(e) ==
  LET o == ObservationOf(e) IN
  \/ timeline[e].kind \in {"initial_observation", "evidence_recorded"}
  \/ /\ o \in Events /\ timeline[o].kind \in Observations
     /\ timeline[o].probe = timeline[e].probe
     /\ Resolved[o] = "ok"

(* Faulty: lets the descriptor's scope decide, not the tool used.          *)
LeadByScope(e) == timeline[e].scope = "limited"

Lead(e) == timeline[ObservationOf(e)].search \/ timeline[e].scope = "limited"

Grounded(c) == model[c].status = "grounded" /\ model[c].refs # {}

ClaimLabel(c) ==
  LET counted == {e \in model[c].refs : Counts(e)} IN
  IF ~Grounded(c) \/ counted = {} THEN "hypothesis"
  ELSE IF \A e \in counted : Lead(e) THEN "provisional"
  ELSE "supported"

(* Faulty: ungrounded beliefs do not cap the label.                        *)
CaseLabelUncapped ==
  LET grounded == {ClaimLabel(c) : c \in {d \in Claims : Grounded(d)}}
  IN IF grounded \subseteq {"hypothesis"} THEN "hypothesis"
     ELSE IF Cardinality(grounded) = 1 THEN CHOOSE l \in grounded : TRUE
     ELSE "mixed"

(* The case's label: that of its grounded claims when they agree and no    *)
(* asserted belief is left ungrounded; alternatives do not cap it.         *)
CaseLabel ==
  LET grounded == {ClaimLabel(c) : c \in {d \in Claims : Grounded(d)}}
      open == \E c \in Asserted : ~Grounded(c)
  IN IF grounded \subseteq {"hypothesis"} THEN "hypothesis"
     ELSE IF Cardinality(grounded) = 1 /\ ~open THEN CHOOSE l \in grounded : TRUE
     ELSE "mixed"

----------------------------------------------------------------------------
(* The operations of the case                                              *)

Record(event) == timeline' = Append(timeline, event)

Active == closure = NoClosure /\ Len(timeline) < MaxEvents

(* Evidence supplied with the new case is in its Timeline before anything  *)
(* else; so may be what an earlier version of the plugin recorded.         *)
Init ==
  /\ timeline \in Histories
  /\ pending = NoProbe
  /\ model = [c \in Claims |-> [status |-> "hypothesis", refs |-> {}, group |-> "external"]]
  /\ closure = NoClosure
  /\ inherited = Len(timeline)

(* A search tool is used on external sources (its name says "search").     *)
CommitProbe(domain, search) ==
  /\ closure = NoClosure
  /\ search => domain = "source"
  /\ pending = NoProbe
  /\ pending' = [domain |-> domain, search |-> search, seen |-> 0]
  /\ UNCHANGED <<timeline, model, closure, inherited>>

(* Faulty: names the event after the one that was written.                 *)
CaptureOffByOne(status) ==
  /\ Active
  /\ pending.seen = 0
  /\ Record([kind |-> "probe_observed", probe |-> Len(timeline) + 1,
             domain |-> pending.domain, search |-> pending.search,
             status |-> status, seen |-> 0, scope |-> "none"])
  /\ pending' = [pending EXCEPT !.seen = Len(timeline) + 2]
  /\ UNCHANGED <<model, closure, inherited>>

(* The execution is captured: its status is what the middleware or the     *)
(* native callback classified, interrupted (failed) when it was recovered, *)
(* unknown when a late native return carries no provenance.                *)
Capture(status) ==
  /\ Active
  /\ pending.seen = 0
  /\ Record([kind |-> "probe_observed", probe |-> Len(timeline) + 1,
             domain |-> pending.domain, search |-> pending.search,
             status |-> status, seen |-> 0, scope |-> "none"])
  /\ pending' = [pending EXCEPT !.seen = Len(timeline) + 1]
  /\ UNCHANGED <<model, closure, inherited>>

(* A different representation of the captured result reaches the model.    *)
Expose(status) ==
  /\ Active
  /\ pending.seen > 0
  /\ Record([kind |-> "probe_exposed", probe |-> timeline[pending.seen].probe,
             domain |-> pending.domain, search |-> pending.search,
             status |-> status, seen |-> pending.seen, scope |-> "none"])
  /\ pending' = [pending EXCEPT !.seen = Len(timeline) + 1]
  /\ UNCHANGED <<model, closure, inherited>>

(* Faulty: accepts a descriptor whatever the probe's authority.            *)
CompatibleWithAny(descriptor) == TRUE

(* The observation is compared, with or without an evidence descriptor.    *)
(* The descriptor of an external-source probe is of an external source,    *)
(* and none may be left out when its result is shown as a success.         *)
Compatible(descriptor) ==
  /\ Group(descriptor.domain) = Group(pending.domain)
  /\ pending.domain = "source" => descriptor.domain = "source"

Compare(descriptor) ==
  /\ Active
  /\ pending.seen > 0
  /\ \/ descriptor \in Descriptors /\ Compatible(descriptor)
     \/ /\ descriptor = NoDescriptor
        /\ ~(pending.domain = "source" /\ timeline[pending.seen].status = "ok")
  /\ Record([kind |-> "probe_compared", probe |-> timeline[pending.seen].probe,
             domain |-> IF descriptor = NoDescriptor THEN pending.domain
                        ELSE descriptor.domain,
             search |-> FALSE, status |-> "unknown", seen |-> pending.seen,
             scope |-> IF descriptor = NoDescriptor THEN "none" ELSE descriptor.scope])
  /\ pending' = NoProbe
  /\ UNCHANGED <<model, closure, inherited>>

(* A probe may be discarded at any time; its observation stays citable.    *)
Discard ==
  /\ closure = NoClosure
  /\ pending # NoProbe
  /\ pending' = NoProbe
  /\ UNCHANGED <<timeline, model, closure, inherited>>

(* One descriptor of record_evidence.  Several are one event each, in      *)
(* turn: a call that fails half-way has recorded the first ones.           *)
RecordEvidence(scope) ==
  /\ Active
  /\ pending = NoProbe
  /\ Record(Evidence("evidence_recorded", "source", scope))
  /\ UNCHANGED <<pending, model, closure, inherited>>

(* A claim is rewritten: it cites known events, of the authority it claims *)
(* for itself, and is grounded only if it cites one.                       *)
Citable(claim) ==
  /\ claim.refs \subseteq Events
  /\ claim.refs = {} => claim.group = "external"
  /\ claim.status = "grounded" => claim.refs # {}
  /\ \A e \in claim.refs : Group(timeline[e].domain) = claim.group

Revise(c, claim) ==
  /\ closure = NoClosure
  /\ pending = NoProbe
  /\ Citable(claim)
  /\ claim # model[c]
  /\ model' = [model EXCEPT ![c] = claim]
  /\ UNCHANGED <<timeline, pending, closure, inherited>>

Close(outcome) ==
  /\ closure = NoClosure
  /\ pending = NoProbe
  /\ outcome = "resolved" => CaseLabel # "hypothesis"
  /\ closure' = [outcome |-> outcome, label |-> CaseLabel]
  /\ UNCHANGED <<timeline, pending, model, inherited>>

Next ==
  \/ \E domain \in Domains, search \in BOOLEAN : CommitProbe(domain, search)
  \/ \E status \in Statuses : Capture(status)
  \/ \E status \in Statuses \ {"unknown"} : Expose(status)
  \/ \E descriptor \in Descriptors \cup {NoDescriptor} : Compare(descriptor)
  \/ Discard
  \/ \E scope \in {"limited", "inspected"} : RecordEvidence(scope)
  \/ \E c \in Claims, claim \in ClaimRec : Revise(c, claim)
  \/ \E outcome \in {"resolved", "unresolved"} : Close(outcome)

Spec == Init /\ [][Next]_vars

----------------------------------------------------------------------------
(* Properties                                                              *)

(* The types; and the probe names an event that is there, once captured.   *)
TypeOK ==
  /\ timeline \in Seq(EventRec) /\ Len(timeline) <= MaxEvents
  /\ pending \in ProbeRec \cup {NoProbe}
  /\ model \in [Claims -> ClaimRec]
  /\ closure \in [outcome : {"none", "resolved", "unresolved"}, label : Labels]
  /\ pending.seen \in Events \cup {0, -1}
  /\ inherited \in 0..Len(timeline)

(* What was shown of an observation up to and including event o: its       *)
(* execution and every representation of the same probe before o.          *)
ShownUpTo(o) ==
  {d \in 1..o : timeline[d].kind \in Observations /\ timeline[d].probe = timeline[o].probe}

(* A claim is never better than a hypothesis on failures alone: it cites   *)
(* recorded evidence, or an observation whose execution is on record as a  *)
(* success and which was never shown as an error, however often the result *)
(* was wrapped and whether the claim cites it or its comparison; and never *)
(* one that an event of a failed probe borrowed from another probe.        *)
FailureNeverSupports ==
  \A c \in Claims : ClaimLabel(c) # "hypothesis" =>
    \E e \in model[c].refs :
      \/ timeline[e].kind \in {"initial_observation", "evidence_recorded"}
      \/ /\ timeline[ObservationOf(e)].probe = timeline[e].probe
         /\ \E d \in ShownUpTo(ObservationOf(e)) : timeline[d].kind = "probe_observed"
         /\ \A d \in ShownUpTo(ObservationOf(e)) : timeline[d].status = "ok"

(* The event whose authority a cited event carries: the capture of its     *)
(* probe, or itself when it has none; a comparison the case was opened     *)
(* with was attributed by its own descriptor.                              *)
Speaks(e) ==
  IF timeline[e].probe = 0 \/ (timeline[e].kind = "probe_compared" /\ e <= inherited)
    THEN e ELSE timeline[e].probe

(* What the user said never grounds an external claim, nor a source what   *)
(* the user wants: whatever descriptor is offered with a comparison now,   *)
(* the comparison counts for the group its probe was committed with; one   *)
(* made before the model begins counts for that of its descriptor.         *)
TestimonyStaysTestimony ==
  \A c \in Claims : \A e \in model[c].refs :
    model[c].group = Group(timeline[Speaks(e)].domain)

(* A search result is a lead: nothing that rests on search results alone   *)
(* is supported, even when the comparison says the full text was read.     *)
SearchIsALead ==
  \A c \in Claims : ClaimLabel(c) = "supported" =>
    \E e \in model[c].refs :
      timeline[e].probe = 0 \/ ~timeline[timeline[e].probe].search

(* The label a closed case carries holds for every belief it asserts: a    *)
(* case closed as supported leaves none of them a hypothesis, a case       *)
(* closed as resolved rests on an event that counts.                       *)
ClosureIsEarned ==
  closure # NoClosure =>
    /\ closure.label = "supported" => \A c \in Asserted : ClaimLabel(c) = "supported"
    /\ closure.outcome = "resolved" =>
         \E c \in Claims : ClaimLabel(c) \in {"provisional", "supported"}

(* What TECHNICAL.md says of a provisional label: a claim that relies only *)
(* on an abstract or a snippet is provisional.  The comparison records how *)
(* much of the source was read; the observation it compared does not, and  *)
(* may be cited in its place.                                              *)
AbstractIsProvisional ==
  \A c \in Claims :
    (model[c].refs # {} /\ \A e \in model[c].refs :
       \E d \in Events : /\ timeline[d].kind = "probe_compared"
                         /\ timeline[d].scope = "limited"
                         /\ e \in {d, timeline[d].seen})
      => ClaimLabel(c) # "supported"

============================================================================
