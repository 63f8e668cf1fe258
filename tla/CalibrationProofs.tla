-------------------------- MODULE CalibrationProofs --------------------------
(***************************************************************************)
(* What a closed case may claim, for every number of events, claims and    *)
(* probes and every Timeline an earlier version may have left.             *)
(*                                                                         *)
(* Two things carry the proofs.  The status of an observation is found by  *)
(* following it back through what it replaced: it is good only if nothing  *)
(* shown of the probe up to then was bad (GoodWasAlwaysGood).  And a claim *)
(* cites events of its own group, which is the group of their probe: what  *)
(* is captured and shown keeps the probe's authority (Ordered), and so     *)
(* does every comparison but those the case was opened with                *)
(* (ComparedAsCommitted), whose descriptors may have been of any.          *)
(***************************************************************************)
EXTENDS Calibration, FiniteSetTheorems, SequenceTheorems, WellFoundedInduction, TLAPS

-----------------------------------------------------------------------------
(* The recursion over the Timeline.                                        *)

(* The status of event e, given the statuses of the events before it.      *)
StatusFrom(status, e) ==
  LET event == timeline[e] IN
  IF event.kind = "probe_observed" THEN event.status
  ELSE IF event.seen \notin 1..(e - 1) THEN "unknown"
  ELSE IF timeline[event.seen].kind \notin Observations
            \/ timeline[event.seen].probe # event.probe THEN "unknown"
  ELSE IF status[event.seen] # "ok" THEN status[event.seen]
  ELSE IF event.status = "ok" THEN "ok" ELSE "unknown"

(* A set of naturals that is not empty has a least member.                 *)
LEMMA LeastMember ==
  ASSUME NEW S \in SUBSET Nat, S # {}
  PROVE  \E m \in S : \A k \in S : m <= k
<1> DEFINE R == OpToRel(<, Nat)
<1>1. IsWellFoundedOn(R, Nat)
  BY NatLessThanWellFounded
<1> HIDE DEF R
<1>2. PICK m \in S : \A y \in S : ~(<<y, m>> \in R)
  BY <1>1, WFMin
<1>3. \A y \in S : ~(y < m)
  BY <1>2 DEF R, OpToRel
<1> QED  BY <1>3

(* Statuses are found from the first event to the last.                    *)
LEMMA StatusesExist ==
  ASSUME timeline \in Seq(EventRec), NEW n \in 0..Len(timeline)
  PROVE  \E f : f = [e \in 1..n |-> StatusFrom(f, e)]
<1> DEFINE Found(k) == \E f : f = [e \in 1..k |-> StatusFrom(f, e)]
           Bad == {k \in 0..Len(timeline) : ~Found(k)}
<1> SUFFICES ASSUME Bad # {} PROVE FALSE
  OBVIOUS
<1>1. Len(timeline) \in Nat /\ Bad \in SUBSET Nat
  BY LenProperties
<1>2. PICK b \in Bad : \A k \in Bad : b <= k
  <2> HIDE DEF Bad
  <2> QED  BY <1>1, LeastMember
<1>3. b \in 0..Len(timeline) /\ ~Found(b) /\ b \in Nat
  BY <1>1
<1>4. b # 0
  <2> DEFINE empty == [e \in 1..0 |-> "ok"]
  <2>1. empty = [e \in 1..0 |-> StatusFrom(empty, e)]
    OBVIOUS
  <2>2. Found(0)
    <3> HIDE DEF empty
    <3> QED  BY <2>1
  <2> QED  BY <1>3, <2>2
<1>5. b - 1 \in 0..Len(timeline) /\ Found(b - 1)
  BY <1>1, <1>2, <1>3, <1>4
<1>6. PICK f : f = [e \in 1..(b - 1) |-> StatusFrom(f, e)]
  BY <1>5
<1> DEFINE g == [e \in 1..b |-> IF e = b THEN StatusFrom(f, b) ELSE f[e]]
<1>7. \A e \in 1..(b - 1) : g[e] = f[e]
  BY <1>3
<1>8. ASSUME NEW e \in 1..b PROVE StatusFrom(g, e) = StatusFrom(f, e)
  <2>1. \A s \in 1..(e - 1) : g[s] = f[s]
    BY <1>3, <1>7
  <2> HIDE DEF g
  <2> QED  BY <2>1 DEF StatusFrom
<1>9. ASSUME NEW e \in 1..b PROVE g[e] = StatusFrom(g, e)
  <2>1. CASE e = b
    BY <1>8, <2>1
  <2>2. CASE e # b
    <3>1. e \in 1..(b - 1)
      BY <1>3, <2>2
    <3>2. f[e] = StatusFrom(f, e)
      BY <1>6, <3>1
    <3> QED  BY <1>7, <1>8, <3>1, <3>2
  <2> QED  BY <2>1, <2>2
<1>10. g = [e \in 1..b |-> StatusFrom(g, e)]
  <2>1. g = [e \in 1..b |-> g[e]]
    OBVIOUS
  <2> HIDE DEF g
  <2> QED  BY <1>9, <2>1
<1> QED
  <2> HIDE DEF g
  <2> QED  BY <1>3, <1>10

(* So Resolved is what its definition says.                                *)
LEMMA ResolvedIs ==
  ASSUME timeline \in Seq(EventRec), NEW e \in Events
  PROVE  Resolved[e] = StatusFrom(Resolved, e)
<1>1. Events = 1..Len(timeline) /\ Len(timeline) \in 0..Len(timeline)
  BY LenProperties DEF Events
<1>2. \E f : f = [d \in Events |-> StatusFrom(f, d)]
  BY <1>1, StatusesExist
<1>3. Resolved = CHOOSE f : f = [d \in Events |-> StatusFrom(f, d)]
  BY DEF Resolved, StatusFrom
<1>4. Resolved = [d \in Events |-> StatusFrom(Resolved, d)]
  BY <1>2, <1>3
<1> QED  BY <1>4
-----------------------------------------------------------------------------
(* What a good status says.                                                *)

IsShown(d, root) == timeline[d].kind \in Observations /\ timeline[d].probe = root

(* Observation o was executed with success and never shown as an error.    *)
AlwaysGood(o) ==
  /\ \E d \in ShownUpTo(o) : timeline[d].kind = "probe_observed"
  /\ \A d \in ShownUpTo(o) : timeline[d].status = "ok"

LEMMA EventFacts ==
  ASSUME timeline \in Seq(EventRec), Ordered(timeline), NEW e \in Events
  PROVE  /\ Events = 1..Len(timeline) /\ Len(timeline) \in Nat /\ e \in Nat
         /\ timeline[e] \in EventRec
         /\ timeline[e].kind \in {"initial_observation", "evidence_recorded"} =>
              timeline[e].probe = 0
         /\ timeline[e].kind \notin {"initial_observation", "evidence_recorded"} =>
              LET root == timeline[e].probe IN
                /\ root \in 1..e /\ root # 0
                /\ timeline[root].kind = "probe_observed" /\ timeline[root].probe = root
                /\ timeline[e].kind = "probe_observed" => root = e
                /\ timeline[e].kind \in Observations =>
                     /\ Group(timeline[e].domain) = Group(timeline[root].domain)
                     /\ timeline[e].search = timeline[root].search
                /\ timeline[e].seen \in 0..(e - 1)
                /\ timeline[e].kind = "probe_exposed" /\ timeline[e].seen # 0
                     /\ IsShown(timeline[e].seen, root) =>
                     \A d \in 1..(e - 1) : IsShown(d, root) => d <= timeline[e].seen
<1>1. Events = 1..Len(timeline) /\ Len(timeline) \in Nat
  BY LenProperties DEF Events
<1>2. timeline[e] \in EventRec
  BY DEF Events
<1> QED  BY <1>1, <1>2 DEF Ordered, IsShown, Events

(* A status is good only if everything shown of the probe was: the newest  *)
(* representation speaks for all that it replaced.                         *)
LEMMA GoodWasAlwaysGood ==
  ASSUME timeline \in Seq(EventRec), Ordered(timeline),
         NEW o \in Events, timeline[o].kind \in Observations, Resolved[o] = "ok"
  PROVE  AlwaysGood(o)
<1> DEFINE Bad == {e \in Events : /\ timeline[e].kind \in Observations
                                  /\ Resolved[e] = "ok" /\ ~AlwaysGood(e)}
<1> SUFFICES ASSUME Bad # {} PROVE FALSE
  OBVIOUS
<1>1. Bad \in SUBSET Nat
  BY EventFacts
<1>2. PICK b \in Bad : \A k \in Bad : b <= k
  <2> HIDE DEF Bad
  <2> QED  BY <1>1, LeastMember
<1>3. /\ b \in Events /\ b \in Nat /\ timeline[b].kind \in Observations
      /\ StatusFrom(Resolved, b) = "ok" /\ ~AlwaysGood(b)
  BY <1>1, <1>2, ResolvedIs
<1>4. Events = 1..Len(timeline) /\ Len(timeline) \in Nat
  BY EventFacts
<1>5. CASE timeline[b].kind = "probe_observed"
  <2>1. timeline[b].status = "ok" /\ timeline[b].probe = b
    BY <1>3, <1>5, EventFacts DEF StatusFrom
  <2>2. ASSUME NEW d \in ShownUpTo(b) PROVE d = b
    <3>1. d \in Events /\ d \in 1..b /\ timeline[d].kind \in Observations /\ timeline[d].probe = b
      BY <1>3, <1>4, <2>1, <2>2 DEF ShownUpTo
    <3>2. b \in 1..d
      BY <3>1, EventFacts DEF Observations
    <3> QED  BY <1>3, <3>1, <3>2
  <2>3. b \in ShownUpTo(b)
    BY <1>3, <1>4, <2>1 DEF ShownUpTo
  <2> QED  BY <1>3, <1>5, <2>1, <2>2, <2>3 DEF AlwaysGood
<1>6. CASE timeline[b].kind = "probe_exposed"
  <2>1. PICK s, root : s = timeline[b].seen /\ root = timeline[b].probe
    OBVIOUS
  <2>2. /\ s \in 1..(b - 1) /\ IsShown(s, root)
        /\ Resolved[s] = "ok" /\ timeline[b].status = "ok"
    BY <1>3, <1>6, <2>1 DEF StatusFrom, IsShown
  <2>3. s \in Events /\ s \in Nat /\ s < b
    BY <1>3, <1>4, <2>2
  <2>4. AlwaysGood(s)
    BY <1>2, <2>2, <2>3, <1>3 DEF IsShown
  <2>5. \A d \in 1..(b - 1) : IsShown(d, root) => d <= s
    BY <1>3, <1>6, <2>1, <2>2, EventFacts
  <2>6. ASSUME NEW d \in ShownUpTo(b) PROVE d = b \/ d \in ShownUpTo(s)
    <3>1. d \in 1..b /\ IsShown(d, root)
      BY <2>1, <2>6 DEF ShownUpTo, IsShown
    <3>2. CASE d # b
      <4>1. d \in 1..(b - 1)
        BY <1>3, <3>1, <3>2
      <4>2. d \in 1..s
        BY <2>3, <2>5, <3>1, <4>1
      <4> QED  BY <2>2, <3>1, <4>2 DEF ShownUpTo, IsShown
    <3> QED  BY <3>2
  <2>7. ShownUpTo(s) \subseteq ShownUpTo(b)
    BY <2>1, <2>2, <2>3, <1>3 DEF ShownUpTo, IsShown
  <2> QED  BY <1>3, <2>2, <2>4, <2>6, <2>7 DEF AlwaysGood
<1> QED  BY <1>3, <1>5, <1>6 DEF Observations

-----------------------------------------------------------------------------
(* The invariant.                                                          *)

(* The pending probe names the newest representation of its own result.    *)
ProbeIsNewest ==
  pending.seen > 0 =>
    LET root == timeline[pending.seen].probe IN
      /\ timeline[pending.seen].kind \in Observations
      /\ Group(timeline[root].domain) = Group(pending.domain)
      /\ timeline[root].search = pending.search
      /\ \A d \in Events : IsShown(d, root) => d <= pending.seen

(* A comparison made since the case was opened has its probe's authority.  *)
ComparedAsCommitted ==
  \A e \in Events : timeline[e].kind = "probe_compared" /\ e > inherited =>
    Group(timeline[e].domain) = Group(timeline[timeline[e].probe].domain)

(* Claims cite events of the authority they claim.                         *)
CitesItsGroup ==
  \A c \in Claims : \A e \in model[c].refs :
    e \in Events /\ model[c].group = Group(timeline[e].domain)

IInv ==
  /\ TypeOK /\ Ordered(timeline) /\ ProbeIsNewest /\ ComparedAsCommitted
  /\ CitesItsGroup /\ ClosureIsEarned

-----------------------------------------------------------------------------
(* What a label says of the events behind it.                              *)

(* A better label than hypothesis has an event that counts behind it.      *)
LEMMA LabelCounts ==
  ASSUME NEW c \in Claims, ClaimLabel(c) # "hypothesis"
  PROVE  \E e \in model[c].refs : Counts(e)
BY DEF ClaimLabel

LEMMA SupportCounts ==
  ASSUME NEW c \in Claims, ClaimLabel(c) = "supported"
  PROVE  \E e \in model[c].refs : Counts(e) /\ ~Lead(e)
BY DEF ClaimLabel

LEMMA LabelsOfClaims == \A c \in Claims : ClaimLabel(c) \in Labels \ {"mixed"}
BY DEF ClaimLabel, Labels

(* The observation an event stands for is of the same probe.               *)
LEMMA StandsFor ==
  ASSUME NEW e, Counts(e),
         timeline[e].kind \notin {"initial_observation", "evidence_recorded"}
  PROVE  LET o == ObservationOf(e) IN
           /\ o \in Events /\ timeline[o].kind \in Observations
           /\ timeline[o].probe = timeline[e].probe /\ Resolved[o] = "ok"
BY DEF Counts

LEMMA FailuresDoNotSupport == IInv => FailureNeverSupports
<1> SUFFICES ASSUME IInv, NEW c \in Claims, ClaimLabel(c) # "hypothesis"
             PROVE  \E e \in model[c].refs :
                      \/ timeline[e].kind \in {"initial_observation", "evidence_recorded"}
                      \/ /\ timeline[ObservationOf(e)].probe = timeline[e].probe
                         /\ AlwaysGood(ObservationOf(e))
  BY DEF FailureNeverSupports, AlwaysGood
<1>1. PICK e \in model[c].refs : Counts(e)
  BY LabelCounts
<1>2. e \in Events /\ timeline \in Seq(EventRec) /\ Ordered(timeline)
  BY <1>1 DEF IInv, TypeOK, CitesItsGroup
<1>3. CASE timeline[e].kind \notin {"initial_observation", "evidence_recorded"}
  <2>1. PICK o : o = ObservationOf(e)
    OBVIOUS
  <2>2. /\ o \in Events /\ timeline[o].kind \in Observations
        /\ timeline[o].probe = timeline[e].probe /\ Resolved[o] = "ok"
    BY <1>1, <1>3, <2>1, StandsFor
  <2>3. AlwaysGood(o)
    BY <1>2, <2>2, GoodWasAlwaysGood
  <2> QED  BY <2>1, <2>2, <2>3
<1> QED  BY <1>3

LEMMA TestimonyIsTestimony == IInv => TestimonyStaysTestimony
<1> SUFFICES ASSUME IInv, NEW c \in Claims, NEW e \in model[c].refs
             PROVE  model[c].group = Group(timeline[Speaks(e)].domain)
  BY DEF TestimonyStaysTestimony
<1>1. e \in Events /\ model[c].group = Group(timeline[e].domain)
  BY DEF IInv, CitesItsGroup
<1>2. timeline \in Seq(EventRec) /\ Ordered(timeline) /\ ComparedAsCommitted
      /\ inherited \in Int
  BY DEF IInv, TypeOK
<1>3. CASE timeline[e].probe # 0 /\ timeline[e].kind \in Observations
  <2>1. Group(timeline[e].domain) = Group(timeline[timeline[e].probe].domain)
    BY <1>1, <1>2, <1>3, EventFacts DEF Observations
  <2> QED  BY <1>1, <1>3, <2>1 DEF Speaks, Observations
<1>4. CASE timeline[e].kind = "probe_compared" /\ e > inherited
  <2>1. Group(timeline[e].domain) = Group(timeline[timeline[e].probe].domain)
    BY <1>1, <1>2, <1>4 DEF ComparedAsCommitted
  <2> QED  BY <1>1, <2>1 DEF Speaks
<1>5. \/ timeline[e].kind \in {"initial_observation", "evidence_recorded"}
      \/ timeline[e].kind = "probe_compared" \/ timeline[e].kind \in Observations
  BY <1>1, <1>2, EventFacts DEF EventRec
<1>6. CASE timeline[e].kind \in {"initial_observation", "evidence_recorded"}
  <2>1. timeline[e].probe = 0
    BY <1>1, <1>2, <1>6, EventFacts
  <2> QED  BY <1>1, <2>1 DEF Speaks
<1>7. CASE timeline[e].probe = 0 \/ (timeline[e].kind = "probe_compared" /\ e <= inherited)
  BY <1>1, <1>7 DEF Speaks
<1>8. e > inherited \/ e <= inherited
  <2>1. e \in Nat
    BY <1>1, <1>2, EventFacts
  <2> QED  BY <1>2, <2>1
<1> QED  BY <1>3, <1>4, <1>5, <1>6, <1>7, <1>8

LEMMA SearchesAreLeads == IInv => SearchIsALead
<1> SUFFICES ASSUME IInv, NEW c \in Claims, ClaimLabel(c) = "supported"
             PROVE  \E e \in model[c].refs :
                      timeline[e].probe = 0 \/ ~timeline[timeline[e].probe].search
  BY DEF SearchIsALead
<1>1. PICK e \in model[c].refs : Counts(e) /\ ~Lead(e)
  BY SupportCounts
<1>2. e \in Events /\ timeline \in Seq(EventRec) /\ Ordered(timeline)
  BY <1>1 DEF IInv, TypeOK, CitesItsGroup
<1>3. CASE timeline[e].kind \in {"initial_observation", "evidence_recorded"}
  BY <1>2, <1>3, EventFacts
<1>4. CASE timeline[e].kind \notin {"initial_observation", "evidence_recorded"}
  <2>1. PICK o : o = ObservationOf(e)
    OBVIOUS
  <2>2. /\ o \in Events /\ timeline[o].kind \in Observations
        /\ timeline[o].probe = timeline[e].probe
    BY <1>1, <1>4, <2>1, StandsFor
  <2>3. ~timeline[o].search
    BY <1>1, <2>1 DEF Lead
  <2>4. timeline[o].search = timeline[timeline[o].probe].search
    BY <1>2, <2>2, EventFacts DEF Observations
  <2> QED  BY <2>2, <2>3, <2>4
<1> QED  BY <1>3, <1>4

(* The label of a case is one it may carry, and no better than its claims. *)
LEMMA CaseLabelFacts ==
  /\ CaseLabel \in Labels
  /\ CaseLabel = "supported" => \A c \in Asserted : ClaimLabel(c) = "supported"
  /\ CaseLabel # "hypothesis" =>
       \E c \in Claims : ClaimLabel(c) \in {"provisional", "supported"}
<1> DEFINE G == {ClaimLabel(c) : c \in {d \in Claims : Grounded(d)}}
           open == \E c \in Asserted : ~Grounded(c)
<1>1. CaseLabel = IF G \subseteq {"hypothesis"} THEN "hypothesis"
                  ELSE IF Cardinality(G) = 1 /\ ~open THEN CHOOSE l \in G : TRUE
                  ELSE "mixed"
  BY DEF CaseLabel
<1>2. G \subseteq {"hypothesis", "provisional", "supported"}
  BY LabelsOfClaims DEF Labels
<1>3. \A c \in Asserted : c \in Claims
  BY DEF Claims
<1>4. \A c \in Claims : Grounded(c) => ClaimLabel(c) \in G
  OBVIOUS
<1>5. \A l \in G : \E c \in Claims : ClaimLabel(c) = l
  OBVIOUS
<1>6. IsFiniteSet({"hypothesis", "provisional", "supported"})
  <2>1. {"hypothesis", "provisional", "supported"}
          = (({} \cup {"hypothesis"}) \cup {"provisional"}) \cup {"supported"}
    OBVIOUS
  <2>2. IsFiniteSet({} \cup {"hypothesis"})
    BY FS_EmptySet, FS_AddElement
  <2>3. IsFiniteSet(({} \cup {"hypothesis"}) \cup {"provisional"})
    BY <2>2, FS_AddElement
  <2> QED  BY <2>1, <2>3, FS_AddElement
<1> HIDE DEF G, open
<1>7. IsFiniteSet(G)
  BY <1>2, <1>6, FS_Subset
<1>8. CASE G \subseteq {"hypothesis"}
  BY <1>1, <1>8 DEF Labels
<1>9. CASE ~(G \subseteq {"hypothesis"}) /\ Cardinality(G) = 1 /\ ~open
  <2>1. PICK x : G = {x}
    BY <1>7, <1>9, FS_Singleton
  <2>2. CaseLabel = x /\ x \in {"provisional", "supported"}
    BY <1>1, <1>2, <1>9, <2>1
  <2>3. \A c \in Asserted : ClaimLabel(c) = x
    BY <1>3, <1>4, <1>9, <2>1 DEF open
  <2> QED  BY <1>5, <2>1, <2>2, <2>3 DEF Labels
<1>10. CASE ~(G \subseteq {"hypothesis"}) /\ ~(Cardinality(G) = 1 /\ ~open)
  <2>1. CaseLabel = "mixed"
    BY <1>1, <1>10
  <2>2. PICK l \in G : l \in {"provisional", "supported"}
    BY <1>2, <1>10
  <2> QED  BY <1>5, <2>1, <2>2 DEF Labels
<1> QED  BY <1>8, <1>9, <1>10
-----------------------------------------------------------------------------
(* What another event leaves as it was.                                    *)
LEMMA Appended ==
  ASSUME timeline \in Seq(EventRec), NEW event \in EventRec, Record(event)
  PROVE  LET n == Len(timeline) + 1 IN
           /\ timeline' \in Seq(EventRec) /\ Len(timeline') = n
           /\ Events = 1..Len(timeline) /\ Events' = 1..n /\ Len(timeline) \in Nat
           /\ timeline'[n] = event
           /\ \A e \in Events : timeline'[e] = timeline[e]
BY AppendProperties, LenProperties DEF Record, Events

(* The new event keeps the order if it names its probe and what it shows.  *)
LEMMA OrderGrows ==
  ASSUME timeline \in Seq(EventRec), Ordered(timeline), NEW event \in EventRec, Record(event),
         NEW n, n = Len(timeline) + 1,
         event.kind \in {"initial_observation", "evidence_recorded"} => event.probe = 0,
         event.kind = "probe_observed" => event.probe = n /\ event.seen = 0,
         event.kind \in {"probe_exposed", "probe_compared"} =>
           /\ event.seen \in Events /\ IsShown(event.seen, event.probe)
           /\ event.kind = "probe_exposed" =>
                /\ Group(event.domain) = Group(timeline[event.probe].domain)
                /\ event.search = timeline[event.probe].search
                /\ \A d \in Events : IsShown(d, event.probe) => d <= event.seen
  PROVE  Ordered(timeline')
<1>1. /\ Events = 1..Len(timeline) /\ DOMAIN timeline' = 1..n /\ Len(timeline) \in Nat
      /\ n \in Nat /\ timeline'[n] = event
      /\ \A e \in Events : timeline'[e] = timeline[e]
  BY Appended DEF Events
<1> SUFFICES ASSUME NEW e \in 1..n
             PROVE  LET t == timeline'
                        root == t[e].probe
                        shown(d) == t[d].kind \in Observations /\ t[d].probe = root
                    IN IF t[e].kind \in {"initial_observation", "evidence_recorded"}
                         THEN root = 0
                         ELSE /\ root \in 1..e
                              /\ t[root].kind = "probe_observed" /\ t[root].probe = root
                              /\ t[e].kind = "probe_observed" => root = e
                              /\ t[e].kind \in Observations =>
                                   /\ Group(t[e].domain) = Group(t[root].domain)
                                   /\ t[e].search = t[root].search
                              /\ t[e].seen \in 0..(e - 1)
                              /\ t[e].kind = "probe_exposed" /\ t[e].seen # 0
                                   /\ shown(t[e].seen) =>
                                   \A d \in 1..(e - 1) : shown(d) => d <= t[e].seen
  BY <1>1 DEF Ordered
<1>2. CASE e \in Events
  <2>1. PICK ev : ev = timeline[e]
    OBVIOUS
  <2>2. timeline'[e] = ev
    BY <1>1, <1>2, <2>1
  <2>3. \A d \in 1..e : timeline'[d] = timeline[d]
    BY <1>1, <1>2
  <2>4. \A d \in 1..(e - 1) : d \in 1..e
    BY <1>1, <1>2
  <2>5. CASE ev.kind \in {"initial_observation", "evidence_recorded"}
    BY <1>2, <2>1, <2>2, <2>5, EventFacts
  <2>6. CASE ev.kind \notin {"initial_observation", "evidence_recorded"}
    <3>1. PICK root : root = ev.probe
      OBVIOUS
    <3>2. /\ root \in 1..e
          /\ timeline[root].kind = "probe_observed" /\ timeline[root].probe = root
          /\ ev.kind = "probe_observed" => root = e
          /\ ev.kind \in Observations =>
               /\ Group(ev.domain) = Group(timeline[root].domain)
               /\ ev.search = timeline[root].search
          /\ ev.seen \in 0..(e - 1)
          /\ ev.kind = "probe_exposed" /\ ev.seen # 0 /\ IsShown(ev.seen, root) =>
               \A d \in 1..(e - 1) : IsShown(d, root) => d <= ev.seen
      BY <1>2, <2>1, <2>6, <3>1, EventFacts
    <3> QED  BY <2>2, <2>3, <2>4, <2>6, <3>1, <3>2 DEF IsShown
  <2> QED  BY <2>5, <2>6
<1>3. CASE e = n
  <2>1. timeline'[e] = event /\ \A d \in 1..(e - 1) : d \in Events /\ timeline'[d] = timeline[d]
    BY <1>1, <1>3
  <2>2. CASE event.kind \in {"initial_observation", "evidence_recorded"}
    BY <2>1, <2>2
  <2>3. CASE event.kind = "probe_observed"
    BY <1>1, <1>3, <2>1, <2>3 DEF Observations
  <2>4. CASE event.kind \in {"probe_exposed", "probe_compared"}
    <3>1. PICK s, root : s = event.seen /\ root = event.probe
      OBVIOUS
    <3>2. s \in Events /\ timeline[s].kind \in Observations /\ timeline[s].probe = root
      BY <2>4, <3>1 DEF IsShown
    <3>3. /\ root \in 1..s /\ timeline[root].kind = "probe_observed"
          /\ timeline[root].probe = root
      BY <3>2, EventFacts DEF Observations
    <3>4. s \in 1..(e - 1) /\ root \in 1..(e - 1) /\ root \in 1..e
      BY <1>1, <1>3, <3>2, <3>3
    <3>5. /\ timeline'[s] = timeline[s] /\ timeline'[root] = timeline[root]
      BY <2>1, <3>4
    <3>7. CASE event.kind = "probe_exposed"
      <4>1. event.search = timeline'[root].search
            /\ Group(event.domain) = Group(timeline'[root].domain)
        BY <3>1, <3>5, <3>7
      <4>2. \A d \in 1..(e - 1) :
              timeline'[d].kind \in Observations /\ timeline'[d].probe = root => d <= s
        BY <2>1, <3>1, <3>7 DEF IsShown
      <4> QED  BY <2>1, <3>1, <3>2, <3>3, <3>4, <3>5, <3>7, <4>1, <4>2
    <3>8. CASE event.kind = "probe_compared"
      BY <2>1, <3>1, <3>2, <3>3, <3>4, <3>5, <3>8 DEF Observations
    <3> QED  BY <2>4, <3>7, <3>8
  <2>5. event.kind \in {"initial_observation", "evidence_recorded", "probe_compared",
                        "probe_observed", "probe_exposed"}
    BY DEF EventRec, Observations
  <2> QED  BY <2>2, <2>3, <2>4, <2>5
<1> QED  BY <1>1, <1>2, <1>3

-----------------------------------------------------------------------------
(* The steps.                                                              *)

(* An open case that records an event: what is left to show is that the    *)
(* event is in order and what the probe names after it.                    *)
LEMMA RecordKeeps ==
  ASSUME IInv, Active, NEW event \in EventRec, Record(event),
         UNCHANGED <<model, closure, inherited>>,
         event.kind = "probe_compared" =>
           /\ event.probe \in Events
           /\ Group(event.domain) = Group(timeline[event.probe].domain),
         Ordered(timeline'), pending' \in ProbeRec \cup {NoProbe},
         pending'.seen \in Events' \cup {0, -1}, ProbeIsNewest'
  PROVE  IInv'
<1>1. timeline \in Seq(EventRec) /\ Len(timeline) < MaxEvents /\ MaxEvents \in Nat
  BY CalibrationAssumption DEF IInv, TypeOK, Active
<1>2. TypeOK'
  BY <1>1, Appended DEF IInv, TypeOK
<1>3. CitesItsGroup'
  <2>1. Events \subseteq Events' /\ \A e \in Events : timeline'[e] = timeline[e]
    BY <1>1, Appended
  <2> QED  BY <2>1 DEF IInv, CitesItsGroup
<1>4. ClosureIsEarned'
  BY DEF Active, ClosureIsEarned
<1>5. ComparedAsCommitted'
  <2> SUFFICES ASSUME NEW e \in Events', timeline'[e].kind = "probe_compared", e > inherited
               PROVE  Group(timeline'[e].domain) = Group(timeline'[timeline'[e].probe].domain)
    BY DEF ComparedAsCommitted
  <2>1. /\ Events = 1..Len(timeline) /\ Events' = 1..(Len(timeline) + 1)
        /\ Len(timeline) \in Nat /\ timeline'[Len(timeline) + 1] = event
        /\ \A d \in Events : timeline'[d] = timeline[d]
    BY <1>1, Appended
  <2>2. CASE e \in Events
    <3>1. timeline[e].probe \in Events
      BY <1>1, <2>1, <2>2, EventFacts DEF IInv
    <3> QED  BY <2>1, <2>2, <3>1 DEF IInv, ComparedAsCommitted
  <2>3. CASE e \notin Events
    <3>1. timeline'[e] = event
      BY <2>1, <2>3
    <3> QED  BY <2>1, <3>1
  <2> QED  BY <2>2, <2>3
<1> QED  BY <1>2, <1>3, <1>4, <1>5 DEF IInv

(* An open case that records nothing and cites as before.                  *)
LEMMA QuietKeeps ==
  ASSUME IInv, closure = NoClosure, UNCHANGED <<timeline, model, closure, inherited>>,
         pending' \in ProbeRec \cup {NoProbe}, pending'.seen \in {0, -1}
  PROVE  IInv'
<1>1. TypeOK'
  BY DEF IInv, TypeOK, Events
<1>2. ProbeIsNewest' /\ ComparedAsCommitted' /\ CitesItsGroup' /\ ClosureIsEarned'
  BY DEF IInv, ProbeIsNewest, ComparedAsCommitted, CitesItsGroup, ClosureIsEarned, Events
<1> QED  BY <1>1, <1>2 DEF IInv

LEMMA OpenFacts ==
  ASSUME IInv, Active
  PROVE  /\ timeline \in Seq(EventRec) /\ Ordered(timeline) /\ Len(timeline) \in Nat
         /\ Len(timeline) < MaxEvents /\ MaxEvents \in Nat /\ Events = 1..Len(timeline)
         /\ Len(timeline) + 1 \in 0..MaxEvents
         /\ pending.seen \in Int
         /\ pending \in ProbeRec \cup {NoProbe}
         /\ pending.seen >= 0 => pending \in ProbeRec
BY CalibrationAssumption, LenProperties DEF IInv, TypeOK, Active, ProbeRec, NoProbe, Events

(* What the pending probe names.                                           *)
LEMMA SeenFacts ==
  ASSUME IInv, Active, pending.seen > 0,
         NEW s, s = pending.seen, NEW root, root = timeline[s].probe
  PROVE  /\ s \in Events /\ s \in 0..MaxEvents /\ root \in Events /\ root \in 0..MaxEvents
         /\ pending \in ProbeRec
         /\ IsShown(s, root)
         /\ Group(timeline[root].domain) = Group(pending.domain)
         /\ timeline[root].search = pending.search
         /\ \A d \in Events : IsShown(d, root) => d <= s
<1>1. /\ s \in Events /\ timeline[s].kind \in Observations
      /\ Group(timeline[root].domain) = Group(pending.domain)
      /\ timeline[root].search = pending.search
      /\ \A d \in Events : IsShown(d, root) => d <= s
  BY DEF IInv, TypeOK, ProbeIsNewest
<1>2. root \in 1..s
  BY <1>1, OpenFacts, EventFacts DEF Observations
<1> QED  BY <1>1, <1>2, OpenFacts DEF IsShown

LEMMA CaptureKeeps ==
  ASSUME IInv, NEW status \in Statuses, Capture(status)
  PROVE  IInv'
<1> DEFINE n == Len(timeline) + 1
           event == [kind |-> "probe_observed", probe |-> n,
                     domain |-> pending.domain, search |-> pending.search,
                     status |-> status, seen |-> 0, scope |-> "none"]
<1>1. /\ Active /\ Record(event) /\ pending.seen = 0 /\ pending' = [pending EXCEPT !.seen = n]
      /\ UNCHANGED <<model, closure, inherited>>
  BY DEF Capture
<1>2. pending \in ProbeRec /\ n \in 0..MaxEvents /\ 0 \in 0..MaxEvents
  BY <1>1, OpenFacts, CalibrationAssumption
<1>3. /\ event \in EventRec /\ event.kind = "probe_observed" /\ event.probe = n /\ event.seen = 0
      /\ event.domain = pending.domain /\ event.search = pending.search
  BY <1>2 DEF EventRec, ProbeRec, Observations, Scopes
<1>4. pending' \in ProbeRec /\ pending'.seen = n /\ pending'.domain = pending.domain
      /\ pending'.search = pending.search
  BY <1>1, <1>2 DEF ProbeRec
<1> HIDE DEF event
<1>5. Ordered(timeline')
  BY <1>1, <1>3, OpenFacts, OrderGrows
<1>6. /\ Events' = 1..n /\ timeline'[n] = event /\ n \in Nat /\ n \in Events'
  BY <1>1, <1>3, OpenFacts, Appended
<1>7. ProbeIsNewest'
  <2>1. timeline'[n].probe = n /\ timeline'[n].kind \in Observations
    BY <1>3, <1>6 DEF Observations
  <2> HIDE DEF n
  <2> QED  BY <1>3, <1>4, <1>6, <2>1 DEF ProbeIsNewest
<1> QED  BY <1>1, <1>3, <1>4, <1>5, <1>6, <1>7, RecordKeeps

LEMMA ExposeKeeps ==
  ASSUME IInv, NEW status \in Statuses, Expose(status)
  PROVE  IInv'
<1>1. PICK n, s, root : n = Len(timeline) + 1 /\ s = pending.seen /\ root = timeline[s].probe
  OBVIOUS
<1> DEFINE event == [kind |-> "probe_exposed", probe |-> root,
                     domain |-> pending.domain, search |-> pending.search,
                     status |-> status, seen |-> s, scope |-> "none"]
<1>2. /\ Active /\ Record(event) /\ pending.seen > 0 /\ pending' = [pending EXCEPT !.seen = n]
      /\ UNCHANGED <<model, closure, inherited>>
  BY <1>1 DEF Expose
<1>3. /\ s \in Events /\ s \in 0..MaxEvents /\ root \in Events /\ root \in 0..MaxEvents
      /\ pending \in ProbeRec /\ IsShown(s, root)
      /\ Group(timeline[root].domain) = Group(pending.domain)
      /\ timeline[root].search = pending.search
      /\ \A d \in Events : IsShown(d, root) => d <= s
  BY <1>1, <1>2, SeenFacts
<1>4. /\ event \in EventRec /\ event.kind = "probe_exposed" /\ event.probe = root
      /\ event.seen = s /\ event.domain = pending.domain /\ event.search = pending.search
  BY <1>3 DEF EventRec, ProbeRec, Observations, Scopes
<1>5. /\ pending' \in ProbeRec /\ pending'.seen = n /\ pending'.domain = pending.domain
      /\ pending'.search = pending.search
  <2>1. n \in 0..MaxEvents
    BY <1>1, <1>2, OpenFacts
  <2> QED  BY <1>2, <1>3, <2>1 DEF ProbeRec
<1> HIDE DEF event
<1>6. Ordered(timeline')
  BY <1>1, <1>2, <1>3, <1>4, OpenFacts, OrderGrows
<1>7. /\ Events' = 1..n /\ timeline'[n] = event /\ n \in Nat /\ n \in Events'
      /\ timeline'[root] = timeline[root]
  BY <1>1, <1>2, <1>3, <1>4, OpenFacts, Appended
<1>8. ProbeIsNewest'
  BY <1>3, <1>4, <1>5, <1>7 DEF ProbeIsNewest, Observations
<1> QED  BY <1>2, <1>4, <1>5, <1>6, <1>7, <1>8, RecordKeeps

LEMMA NothingPending ==
  NoProbe \in ProbeRec \cup {NoProbe} /\ NoProbe.seen = -1
BY DEF NoProbe

LEMMA CompareKeeps ==
  ASSUME IInv, NEW descriptor \in Descriptors \cup {NoDescriptor}, Compare(descriptor)
  PROVE  IInv'
<1>1. PICK n, s, root, dom, scope :
        /\ n = Len(timeline) + 1 /\ s = pending.seen /\ root = timeline[s].probe
        /\ dom = IF descriptor = NoDescriptor THEN pending.domain ELSE descriptor.domain
        /\ scope = IF descriptor = NoDescriptor THEN "none" ELSE descriptor.scope
  OBVIOUS
<1> DEFINE event == [kind |-> "probe_compared", probe |-> root, domain |-> dom,
                     search |-> FALSE, status |-> "unknown", seen |-> s, scope |-> scope]
<1>2. /\ Active /\ Record(event) /\ pending.seen > 0 /\ pending' = NoProbe
      /\ UNCHANGED <<model, closure, inherited>>
      /\ descriptor # NoDescriptor => Group(descriptor.domain) = Group(pending.domain)
  BY <1>1 DEF Compare, Compatible
<1>3. /\ s \in Events /\ s \in 0..MaxEvents /\ root \in Events /\ root \in 0..MaxEvents
      /\ pending \in ProbeRec /\ IsShown(s, root)
      /\ Group(timeline[root].domain) = Group(pending.domain)
  BY <1>1, <1>2, SeenFacts
<1>4. dom \in Domains /\ scope \in Scopes /\ Group(dom) = Group(pending.domain)
  BY <1>1, <1>2, <1>3 DEF Descriptors, NoDescriptor, ProbeRec, Domains, Scopes
<1>5. /\ event \in EventRec /\ event.kind = "probe_compared" /\ event.probe = root
      /\ event.seen = s /\ event.domain = dom
  BY <1>3, <1>4 DEF EventRec, Statuses
<1> HIDE DEF event
<1>6. Ordered(timeline')
  BY <1>1, <1>2, <1>3, <1>4, <1>5, OpenFacts, OrderGrows
<1>7. ProbeIsNewest'
  BY <1>2, NothingPending DEF ProbeIsNewest
<1>8. event.probe \in Events /\ Group(event.domain) = Group(timeline[event.probe].domain)
  BY <1>3, <1>4, <1>5
<1> QED  BY <1>2, <1>5, <1>6, <1>7, <1>8, NothingPending, RecordKeeps

LEMMA RecordEvidenceKeeps ==
  ASSUME IInv, NEW scope \in {"limited", "inspected"}, RecordEvidence(scope)
  PROVE  IInv'
<1> DEFINE event == Evidence("evidence_recorded", "source", scope)
<1>1. /\ Active /\ Record(event) /\ pending = NoProbe /\ UNCHANGED <<pending, model, closure, inherited>>
  BY DEF RecordEvidence
<1>2. event \in EventRec /\ event.kind = "evidence_recorded" /\ event.probe = 0
  BY CalibrationAssumption DEF Evidence, EventRec, Domains, Statuses, Scopes
<1> HIDE DEF event
<1>3. Ordered(timeline')
  BY <1>1, <1>2, OpenFacts, OrderGrows
<1>4. ProbeIsNewest'
  BY <1>1, NothingPending DEF ProbeIsNewest
<1> QED  BY <1>1, <1>2, <1>3, <1>4, NothingPending, RecordKeeps

LEMMA ReviseKeeps ==
  ASSUME IInv, NEW c \in Claims, NEW claim \in ClaimRec, Revise(c, claim)
  PROVE  IInv'
<1>1. /\ closure = NoClosure /\ pending = NoProbe /\ Citable(claim)
      /\ model' = [model EXCEPT ![c] = claim] /\ UNCHANGED <<timeline, pending, closure, inherited>>
      /\ model \in [Claims -> ClaimRec]
  BY DEF Revise, IInv, TypeOK
<1>2. TypeOK'
  BY <1>1 DEF IInv, TypeOK, Events
<1>3. ProbeIsNewest' /\ ComparedAsCommitted' /\ ClosureIsEarned'
  BY <1>1, NothingPending
  DEF IInv, ProbeIsNewest, ComparedAsCommitted, ClosureIsEarned, Events
<1>4. CitesItsGroup'
  <2>1. \A d \in Claims : model'[d] = IF d = c THEN claim ELSE model[d]
    BY <1>1
  <2> QED  BY <1>1, <2>1 DEF IInv, CitesItsGroup, Citable, Events
<1>5. Ordered(timeline')
  BY <1>1 DEF IInv
<1> QED  BY <1>2, <1>3, <1>4, <1>5 DEF IInv

LEMMA LabelsStay ==
  ASSUME UNCHANGED <<timeline, model>>, NEW c
  PROVE  ClaimLabel(c)' = ClaimLabel(c)
BY DEF ClaimLabel, Counts, Lead, Grounded, ObservationOf, Resolved, Events

LEMMA CloseKeeps ==
  ASSUME IInv, NEW outcome \in {"resolved", "unresolved"}, Close(outcome)
  PROVE  IInv'
<1>1. /\ outcome = "resolved" => CaseLabel # "hypothesis"
      /\ closure' = [outcome |-> outcome, label |-> CaseLabel]
      /\ UNCHANGED <<timeline, pending, model, inherited>>
  BY DEF Close
<1>2. TypeOK'
  BY <1>1, CaseLabelFacts DEF IInv, TypeOK, Events
<1>3. Ordered(timeline)' /\ ProbeIsNewest' /\ ComparedAsCommitted' /\ CitesItsGroup'
  BY <1>1 DEF IInv, ProbeIsNewest, ComparedAsCommitted, CitesItsGroup, Events, IsShown
<1>4. ClosureIsEarned'
  <2>1. closure'.label = CaseLabel /\ closure'.outcome = outcome
    BY <1>1
  <2> QED  BY <1>1, <2>1, CaseLabelFacts, LabelsStay DEF ClosureIsEarned
<1> QED  BY <1>2, <1>3, <1>4 DEF IInv

LEMMA StutterKeeps ==
  ASSUME IInv, UNCHANGED vars
  PROVE  IInv'
<1>1. UNCHANGED <<timeline, pending, model, closure, inherited>>
  BY DEF vars
<1>2. TypeOK' /\ Ordered(timeline)' /\ ProbeIsNewest' /\ ComparedAsCommitted' /\ CitesItsGroup'
  BY <1>1 DEF IInv, TypeOK, ProbeIsNewest, ComparedAsCommitted, CitesItsGroup, Events, IsShown
<1>3. ClosureIsEarned'
  BY <1>1, LabelsStay DEF IInv, ClosureIsEarned
<1> QED  BY <1>2, <1>3 DEF IInv

LEMMA InitHolds == Init => IInv
<1> SUFFICES ASSUME Init PROVE IInv
  OBVIOUS
<1>1. timeline \in Seq(EventRec) /\ Len(timeline) <= MaxEvents /\ Ordered(timeline)
  BY CalibrationAssumption DEF Init
<1>2. pending = NoProbe /\ closure = NoClosure /\ inherited = Len(timeline)
      /\ Events = 1..Len(timeline) /\ Len(timeline) \in Nat
  BY <1>1, LenProperties DEF Init, Events
<1>3. TypeOK
  BY <1>1, <1>2, NothingPending DEF Init, TypeOK, ClaimRec, NoClosure, Labels
<1>4. ProbeIsNewest /\ ComparedAsCommitted /\ CitesItsGroup /\ ClosureIsEarned
  BY <1>2, NothingPending
  DEF Init, ProbeIsNewest, ComparedAsCommitted, CitesItsGroup, ClosureIsEarned
<1> QED  BY <1>1, <1>3, <1>4 DEF IInv

LEMMA NextKeeps == IInv /\ [Next]_vars => IInv'
<1> SUFFICES ASSUME IInv, [Next]_vars PROVE IInv'
  OBVIOUS
<1>1. ASSUME NEW domain \in Domains, NEW search \in BOOLEAN, CommitProbe(domain, search)
      PROVE  IInv'
  <2>1. /\ closure = NoClosure /\ UNCHANGED <<timeline, model, closure, inherited>>
        /\ pending' = [domain |-> domain, search |-> search, seen |-> 0]
    BY <1>1 DEF CommitProbe
  <2>2. pending' \in ProbeRec /\ pending'.seen = 0
    BY <2>1, CalibrationAssumption DEF ProbeRec
  <2> QED  BY <2>1, <2>2, QuietKeeps
<1>2. ASSUME NEW status \in Statuses, Capture(status) \/ Expose(status) PROVE IInv'
  BY <1>2, CaptureKeeps, ExposeKeeps
<1>3. ASSUME NEW descriptor \in Descriptors \cup {NoDescriptor}, Compare(descriptor)
      PROVE  IInv'
  BY <1>3, CompareKeeps
<1>4. CASE Discard
  BY <1>4, NothingPending, QuietKeeps DEF Discard
<1>5. ASSUME NEW scope \in {"limited", "inspected"}, RecordEvidence(scope) PROVE IInv'
  BY <1>5, RecordEvidenceKeeps
<1>6. ASSUME NEW c \in Claims, NEW claim \in ClaimRec, Revise(c, claim) PROVE IInv'
  BY <1>6, ReviseKeeps
<1>7. ASSUME NEW outcome \in {"resolved", "unresolved"}, Close(outcome) PROVE IInv'
  BY <1>7, CloseKeeps
<1>8. CASE UNCHANGED vars
  BY <1>8, StutterKeeps
<1> QED  BY <1>1, <1>2, <1>3, <1>4, <1>5, <1>6, <1>7, <1>8 DEF Next

-----------------------------------------------------------------------------
(* In every reachable state events name their probes and claims cite what  *)
(* they may cite.                                                          *)
THEOREM CalibrationInvariant == Spec => []IInv
BY InitHolds, NextKeeps, PTL DEF Spec

(* Timeline, probe, claims and closure keep their form, and the probe      *)
(* names an event that is there.                                           *)
THEOREM CalibrationTypeOK == Spec => []TypeOK
<1>1. IInv => TypeOK
  BY DEF IInv
<1> QED  BY <1>1, CalibrationInvariant, PTL

(* No claim is better than a hypothesis on failed executions or on results *)
(* that were shown as errors, however often they were represented anew     *)
(* (_resolve_observation_result_status and _closure_calibration).          *)
THEOREM FailuresNeverSupport == Spec => []FailureNeverSupports
BY CalibrationInvariant, FailuresDoNotSupport, PTL

(* What the user said counts for the user's claims and nothing else does:  *)
(* a descriptor offered with a comparison cannot change the group of the   *)
(* probe (_compare_probe), whatever Timeline the case was opened with.     *)
(* What was compared before counts by its descriptor (F6 of                *)
(* _event_authority_map), which the theorem says and does not assume away. *)
THEOREM TestimonyCountsAsTestimony == Spec => []TestimonyStaysTestimony
BY CalibrationInvariant, TestimonyIsTestimony, PTL

(* A claim that rests on search results alone is never supported.          *)
THEOREM SearchesNeverSupport == Spec => []SearchIsALead
BY CalibrationInvariant, SearchesAreLeads, PTL

(* The label of a closed case is earned by its claims (_close).            *)
THEOREM ClosuresAreEarned == Spec => []ClosureIsEarned
<1>1. IInv => ClosureIsEarned
  BY DEF IInv
<1> QED  BY <1>1, CalibrationInvariant, PTL
=============================================================================
