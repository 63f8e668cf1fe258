-------------------------- MODULE ProbeCycleProofs ---------------------------
(***************************************************************************)
(* The probe cycle, for every set of dispatches and agents and however     *)
(* many events: one execution and one captured result for each probe, a    *)
(* history that owes what the case says it owes, no start while anything   *)
(* is owed, no probe written off while it may run.                         *)
(*                                                                         *)
(* The invariant has two halves.  HistoryInv is about the case and its     *)
(* Timeline alone: it is kept by every transition written from a copy that *)
(* is the case, one lemma for each kind of event.  The other half is about *)
(* the actors: a copy whose revision is current is the case (Exact), the   *)
(* lease is held by the frame that runs the action, and a dispatch that    *)
(* has begun does not begin again, so a lease found free once means that   *)
(* the executor is over for good, although the tool lets go of it before   *)
(* it writes.                                                              *)
(***************************************************************************)
EXTENDS ProbeCycle, SequenceTheorems, FiniteSetTheorems, TLAPS

(* The number of probes committed so far.                                  *)
Count == Cardinality(EventsOf("committed"))

(* What was written when a probe was observed, or its observation exposed. *)
Results == EventsOf("observed") \cup EventsOf("exposed")

(* Dispatch d started probe id.                                            *)
StartedBy(id, d) ==
  \E i \in EventsOf("started") : timeline[i].probe = id /\ timeline[i].by = d

(* One revision, one event; and an event cites only earlier ones.          *)
TimelineIsComplete ==
  /\ case.revision = Len(timeline)
  /\ \A i \in DOMAIN timeline : timeline[i].ref \in 0..Len(timeline)

(* The next probe gets a number that no event has seen.                    *)
IdsAreCounted ==
  /\ case.probe.id <= Count
  /\ \A i \in DOMAIN timeline : timeline[i].probe <= Count

(* What the history knows of the pending probe is what its status says.    *)
ProbeIsItsHistory ==
  LET p == case.probe IN
    /\ p.status = "none" => p = NoProbe
    /\ p # NoProbe => case.mismatch = 0
    /\ p.status = "observed" => p.seen \in DOMAIN timeline /\ timeline[p.seen].probe = p.id
    /\ p.status # "observed" => p.seen = 0
    /\ p.status = "committed" =>
         \A i \in EventsOf("started") \cup Results : timeline[i].probe # p.id
    /\ p.status = "executing" =>
         /\ p.by \in Dispatches /\ StartedBy(p.id, p.by)
         /\ \A i \in Results : timeline[i].probe # p.id

HistoryInv ==
  /\ case \in Case /\ timeline \in Seq(Event)
  /\ TimelineIsComplete /\ IdsAreCounted /\ ProbeIsItsHistory
  /\ OneExecutionOneCapture /\ AccountingFollowsCase

(* A copy whose revision is the current one is the case.                   *)
Exact(copy) == copy.revision <= case.revision /\ (Current(copy) => copy = case)

(* The positions of a dispatch that has started its action.                *)
Begun == {"running", "returned", "recording", "done"}

(* A frame past its claim holds the lease; one that runs has its own probe *)
(* in its copy, which says that it executes it.                            *)
FrameHolds(d) ==
  /\ Exact(call[d].copy)
  /\ call[d].pc \in {"claimed", "armed", "running", "returned", "recording"} => lease = d
  /\ call[d].pc = "armed" => call[d].copy.probe.status = "committed"
  /\ call[d].pc \in {"running", "returned", "recording"} =>
       /\ call[d].copy.probe.status = "executing"
       /\ call[d].copy.probe.by = d
       /\ StartedBy(call[d].copy.probe.id, d)

(* A callback writes only what its own dispatch executed, or what has been *)
(* observed.                                                               *)
HookHolds(d) ==
  /\ Exact(hook[d].copy)
  /\ hook[d].pc \in {"capture", "armed"} =>
       hook[d].copy.probe.status = "executing" /\ hook[d].copy.probe.by = d
  /\ hook[d].pc = "expose" => hook[d].copy.probe.status = "observed"

(* The dispatch that executes a probe has begun and will not begin again.  *)
ExecutorBegun(copy) ==
  copy.probe.status = "executing" =>
    copy.probe.by \in Dispatches /\ call[copy.probe.by].pc \in Begun

(* An operation has what Begin allowed, a settled executor once it has     *)
(* asked for the lease, and a fresh number once it has replayed.           *)
ToolHolds(a) ==
  op[a].pc # "idle" =>
    /\ Exact(op[a].copy)
    /\ Allowed(op[a].what, op[a].copy)
    /\ ExecutorBegun(op[a].copy)
    /\ op[a].pc = "probing" => lease = a /\ NeedsLease(a)
    /\ op[a].pc \in {"probing", "checked"} /\ NeedsLease(a) =>
         call[op[a].copy.probe.by].pc = "done"
    /\ op[a].pc = "checked" /\ op[a].what = "commit" /\ Current(op[a].copy) =>
         op[a].id = Count + 1 /\ case.mismatch = 0

(* The inductive invariant.                                                *)
IInv ==
  /\ TypeOK /\ HistoryInv
  /\ \A d \in Dispatches : FrameHolds(d) /\ HookHolds(d)
  /\ \A a \in Agents : ToolHolds(a)
  /\ ExecutorBegun(case)

-----------------------------------------------------------------------------
(* What one event adds to the history.                                     *)

(* The case and the Timeline as one transition leaves them.                *)
Grows(new, e) ==
  /\ NextEvent <= MaxEvents
  /\ case' = [new EXCEPT !.revision = case.revision + 1]
  /\ timeline' = Append(timeline, e)

LEMMA AppendedEvents ==
  ASSUME timeline \in Seq(Event), NEW e \in Event, timeline' = Append(timeline, e)
  PROVE  /\ timeline' \in Seq(Event)
         /\ Len(timeline') = Len(timeline) + 1
         /\ DOMAIN timeline = 1..Len(timeline)
         /\ DOMAIN timeline' = 1..(Len(timeline) + 1)
         /\ NextEvent \in DOMAIN timeline'
         /\ NextEvent \notin DOMAIN timeline
         /\ DOMAIN timeline' = DOMAIN timeline \cup {NextEvent}
         /\ timeline'[NextEvent] = e
         /\ \A i \in DOMAIN timeline : timeline'[i] = timeline[i]
BY AppendProperties, LenProperties DEF NextEvent

(* The sets accounting reads, after one more event.                        *)
LEMMA GrownKinds ==
  ASSUME timeline \in Seq(Event), NEW e \in Event, timeline' = Append(timeline, e)
  PROVE  \A k : EventsOf(k)' =
           EventsOf(k) \cup (IF e.kind = k THEN {NextEvent} ELSE {})
<1>1. TAKE k
<1>2. EventsOf(k)' = {i \in DOMAIN timeline' : timeline'[i].kind = k}
  BY DEF EventsOf
<1> QED BY <1>2, AppendedEvents DEF EventsOf

LEMMA GrownCitations ==
  ASSUME timeline \in Seq(Event), NEW e \in Event, timeline' = Append(timeline, e)
  PROVE  \A k : Cited(k)' =
           Cited(k) \cup (IF e.kind = k THEN {e.ref} \ {0} ELSE {})
<1>1. TAKE k
<1>2. Cited(k)' = {timeline'[i].ref : i \in EventsOf(k)'} \ {0}
  BY DEF Cited
<1>3. EventsOf(k) \subseteq DOMAIN timeline
  BY DEF EventsOf
<1>4. EventsOf(k)' = EventsOf(k) \cup (IF e.kind = k THEN {NextEvent} ELSE {})
  BY GrownKinds
<1>5. {timeline'[i].ref : i \in EventsOf(k)} = {timeline[i].ref : i \in EventsOf(k)}
  BY <1>3, AppendedEvents
<1>6. timeline'[NextEvent].ref = e.ref
  BY AppendedEvents
<1> HIDE DEF NextEvent
<1>7. {timeline'[i].ref : i \in EventsOf(k)'}
        = {timeline'[i].ref : i \in EventsOf(k)} \cup (IF e.kind = k THEN {e.ref} ELSE {})
  BY <1>4, <1>6
<1> QED BY <1>2, <1>5, <1>7 DEF Cited

LEMMA GrownResults ==
  ASSUME timeline \in Seq(Event), NEW e \in Event, timeline' = Append(timeline, e)
  PROVE  Results' = Results \cup (IF e.kind \in {"observed", "exposed"} THEN {NextEvent} ELSE {})
<1>1. /\ EventsOf("observed")' =
           EventsOf("observed") \cup (IF e.kind = "observed" THEN {NextEvent} ELSE {})
      /\ EventsOf("exposed")' =
           EventsOf("exposed") \cup (IF e.kind = "exposed" THEN {NextEvent} ELSE {})
  BY GrownKinds
<1>2. Results' = EventsOf("observed")' \cup EventsOf("exposed")'
  BY DEF Results
<1>3. Results = EventsOf("observed") \cup EventsOf("exposed")
  BY DEF Results
<1>4. CASE e.kind = "observed"
  BY <1>1, <1>2, <1>3, <1>4
<1>5. CASE e.kind = "exposed"
  BY <1>1, <1>2, <1>3, <1>5
<1>6. CASE e.kind \notin {"observed", "exposed"}
  BY <1>1, <1>2, <1>3, <1>6
<1> QED BY <1>4, <1>5, <1>6

(* A new result takes the place of the earlier ones of its probe.          *)
LEMMA GrownObservations ==
  ASSUME timeline \in Seq(Event), NEW e \in Event, timeline' = Append(timeline, e)
  PROVE  Observations' =
           IF e.kind \in {"observed", "exposed"}
             THEN {i \in Observations : timeline[i].probe # e.probe} \cup {NextEvent}
             ELSE Observations
<1>1. Observations' =
        {i \in Results' : \A j \in Results' : timeline'[j].probe = timeline'[i].probe => j <= i}
  BY DEF Observations, Results
<1>2. Observations =
        {i \in Results : \A j \in Results : timeline[j].probe = timeline[i].probe => j <= i}
  BY DEF Observations, Results
<1>3. Results \subseteq DOMAIN timeline
  BY DEF Results, EventsOf
<1>4. Results' = Results \cup (IF e.kind \in {"observed", "exposed"} THEN {NextEvent} ELSE {})
  BY GrownResults
<1>5. /\ timeline'[NextEvent] = e
      /\ \A i \in DOMAIN timeline : timeline'[i] = timeline[i]
  BY AppendedEvents
<1>6. \A i \in DOMAIN timeline : i \in Nat /\ i < NextEvent
  BY AppendedEvents, LenProperties DEF NextEvent
<1>7. NextEvent \in Nat
  BY LenProperties DEF NextEvent
<1>8. CASE e.kind \notin {"observed", "exposed"}
  <2>1. Results' = Results
    BY <1>4, <1>8
  <2> QED BY <2>1, <1>1, <1>2, <1>3, <1>5, <1>8
<1>9. CASE e.kind \in {"observed", "exposed"}
  <2>1. Results' = Results \cup {NextEvent}
    BY <1>4, <1>9
  <2>2. ASSUME NEW i \in Results
        PROVE  i \in Observations' <=> i \in Observations /\ timeline[i].probe # e.probe
    <3>1. /\ timeline'[i] = timeline[i]
          /\ \A j \in Results : timeline'[j] = timeline[j]
      BY <1>3, <1>5
    <3>2. i \in Observations' <=>
            /\ \A j \in Results : timeline[j].probe = timeline[i].probe => j <= i
            /\ e.probe = timeline[i].probe => NextEvent <= i
      BY <3>1, <2>1, <1>1, <1>5
    <3>3. ~(NextEvent <= i)
      BY <1>3, <1>6, <1>7
    <3> QED BY <3>2, <3>3, <1>2
  <2>3. NextEvent \in Observations'
    BY <2>1, <1>1, <1>3, <1>6, <1>7
  <2> QED BY <2>1, <2>2, <2>3, <1>1, <1>2, <1>9
<1> QED BY <1>8, <1>9

LEMMA CountIsNat ==
  ASSUME timeline \in Seq(Event)
  PROVE  Count \in Nat /\ IsFiniteSet(EventsOf("committed"))
<1>1. IsFiniteSet(1..Len(timeline))
  BY LenProperties, FS_Interval
<1>2. EventsOf("committed") \subseteq 1..Len(timeline)
  BY LenProperties DEF EventsOf
<1> QED BY <1>1, <1>2, FS_Subset, FS_CardinalityType DEF Count

LEMMA GrownCount ==
  ASSUME timeline \in Seq(Event), NEW e \in Event, timeline' = Append(timeline, e)
  PROVE  Count' = IF e.kind = "committed" THEN Count + 1 ELSE Count
<1>1. EventsOf("committed")' =
        EventsOf("committed") \cup (IF e.kind = "committed" THEN {NextEvent} ELSE {})
  BY GrownKinds
<1>2. NextEvent \notin EventsOf("committed")
  BY AppendedEvents DEF EventsOf
<1>3. IsFiniteSet(EventsOf("committed"))
  BY CountIsNat
<1>4. Count' = Cardinality(EventsOf("committed")')
  BY DEF Count
<1>5. CASE e.kind = "committed"
  <2>1. Cardinality(EventsOf("committed") \cup {NextEvent}) = Cardinality(EventsOf("committed")) + 1
    BY <1>2, <1>3, FS_AddElement
  <2> QED BY <2>1, <1>1, <1>4, <1>5 DEF Count
<1>6. CASE e.kind # "committed"
  <2>1. EventsOf("committed")' = EventsOf("committed")
    BY <1>1, <1>6
  <2> QED BY <2>1, <1>4, <1>6 DEF Count
<1> QED BY <1>5, <1>6

(* What started stays started.                                             *)
LEMMA StartsStay ==
  ASSUME timeline \in Seq(Event), NEW e \in Event, timeline' = Append(timeline, e),
         NEW id, NEW d, StartedBy(id, d)
  PROVE  StartedBy(id, d)'
<1>1. PICK i \in EventsOf("started") : timeline[i].probe = id /\ timeline[i].by = d
  BY DEF StartedBy
<1>2. i \in EventsOf("started")'
  BY <1>1, GrownKinds
<1>3. timeline'[i] = timeline[i]
  BY <1>1, AppendedEvents DEF EventsOf
<1> QED BY <1>1, <1>2, <1>3 DEF StartedBy

(* Every transition is one event more, and one revision.                   *)
LEMMA GrownShape ==
  ASSUME MaxEvents \in Nat, case \in Case, timeline \in Seq(Event), TimelineIsComplete,
         NEW new \in Case, NEW e \in Event, Grows(new, e), e.ref \in 0..Len(timeline)
  PROVE  /\ case' \in Case /\ timeline' \in Seq(Event)
         /\ TimelineIsComplete'
         /\ case'.status = new.status
         /\ case'.probe = new.probe
         /\ case'.mismatch = new.mismatch
         /\ case'.revision = case.revision + 1
<1>1. timeline' = Append(timeline, e)
  BY DEF Grows
<1>2. case' = [new EXCEPT !.revision = case.revision + 1] /\ Len(timeline) + 1 <= MaxEvents
  BY DEF Grows, NextEvent
<1>3. case.revision = Len(timeline) /\ Len(timeline) \in Nat
  BY LenProperties DEF TimelineIsComplete
<1>4. /\ case'.status = new.status
      /\ case'.probe = new.probe
      /\ case'.mismatch = new.mismatch
      /\ case'.revision = case.revision + 1
  BY <1>2 DEF Case
<1>5. case.revision + 1 \in 0..MaxEvents
  BY <1>2, <1>3
<1>6. case' \in Case
  BY <1>2, <1>5 DEF Case
<1>7. timeline' \in Seq(Event)
  BY <1>1, AppendedEvents
<1>8. case'.revision = Len(timeline')
  BY <1>1, <1>3, <1>4, AppendedEvents
<1>9. \A i \in DOMAIN timeline' : timeline'[i].ref \in 0..Len(timeline')
  <2>1. TAKE i \in DOMAIN timeline'
  <2>2. CASE i \in DOMAIN timeline
    BY <2>2, <1>1, <1>3, AppendedEvents DEF TimelineIsComplete
  <2>3. CASE i = NextEvent
    BY <2>3, <1>1, <1>3, AppendedEvents
  <2> QED BY <2>1, <2>2, <2>3, <1>1, AppendedEvents
<1> QED BY <1>4, <1>6, <1>7, <1>8, <1>9 DEF TimelineIsComplete

(* Only a commit takes a number, and it takes the next one.                *)
LEMMA GrownIds ==
  ASSUME timeline \in Seq(Event), case \in Case, IdsAreCounted,
         NEW e \in Event, timeline' = Append(timeline, e),
         case' \in Case,
         \/ /\ e.kind # "committed"
            /\ e.probe \in {0, case.probe.id}
            /\ case'.probe.id \in {0, case.probe.id}
         \/ e.kind = "committed" /\ e.probe = Count + 1 /\ case'.probe.id = Count + 1
  PROVE  IdsAreCounted'
<1>1. Count' = IF e.kind = "committed" THEN Count + 1 ELSE Count
  BY GrownCount
<1>2. Count \in Nat
  BY CountIsNat
<1>3. case.probe.id \in Nat /\ case.probe.id <= Count
  BY DEF IdsAreCounted, Case, Probe
<1>4. Count <= Count' /\ Count' \in Nat
  BY <1>1, <1>2
<1>5. e.probe <= Count' /\ case'.probe.id <= Count'
  BY <1>1, <1>2, <1>3
<1>6. \A i \in DOMAIN timeline : timeline[i].probe \in Nat /\ timeline[i].probe <= Count
  <2>1. \A i \in DOMAIN timeline : timeline[i] \in Event
    BY ElementOfSeq, LenProperties
  <2>2. \A i \in DOMAIN timeline : timeline[i].probe \in Nat
    BY <2>1 DEF Event
  <2> QED BY <2>2 DEF IdsAreCounted
<1>7. \A i \in DOMAIN timeline' : timeline'[i].probe <= Count'
  <2>1. TAKE i \in DOMAIN timeline'
  <2>2. CASE i \in DOMAIN timeline
    <3>1. timeline'[i] = timeline[i]
      BY <2>2, AppendedEvents
    <3>2. timeline[i].probe \in Nat /\ timeline[i].probe <= Count
      BY <2>2, <1>6
    <3> QED BY <3>1, <3>2, <1>2, <1>4
  <2>3. CASE i = NextEvent
    BY <2>3, <1>5, AppendedEvents
  <2> QED BY <2>1, <2>2, <2>3, AppendedEvents
<1> QED BY <1>5, <1>7 DEF IdsAreCounted

(* Who did what, for each probe, is settled by starts and observations.    *)
Acts == EventsOf("started") \cup EventsOf("observed")

LEMMA GrownActs ==
  ASSUME timeline \in Seq(Event), NEW e \in Event, timeline' = Append(timeline, e)
  PROVE  /\ Acts' = Acts \cup (IF e.kind \in {"started", "observed"} THEN {NextEvent} ELSE {})
         /\ Acts \subseteq DOMAIN timeline
         /\ NextEvent \notin Acts
<1>1. /\ EventsOf("started")' =
           EventsOf("started") \cup (IF e.kind = "started" THEN {NextEvent} ELSE {})
      /\ EventsOf("observed")' =
           EventsOf("observed") \cup (IF e.kind = "observed" THEN {NextEvent} ELSE {})
  BY GrownKinds
<1>2. Acts' = EventsOf("started")' \cup EventsOf("observed")'
  BY DEF Acts
<1>3. Acts \subseteq DOMAIN timeline
  BY DEF Acts, EventsOf
<1>4. NextEvent \notin Acts
  BY <1>3, AppendedEvents
<1>5. CASE e.kind = "started"
  BY <1>1, <1>2, <1>3, <1>4, <1>5 DEF Acts
<1>6. CASE e.kind = "observed"
  BY <1>1, <1>2, <1>3, <1>4, <1>6 DEF Acts
<1>7. CASE e.kind \notin {"started", "observed"}
  BY <1>1, <1>2, <1>3, <1>4, <1>7 DEF Acts
<1> QED BY <1>5, <1>6, <1>7

(* A new act agrees with the earlier acts of its probe.                    *)
LEMMA GrownOneExecution ==
  ASSUME timeline \in Seq(Event), OneExecutionOneCapture,
         NEW e \in Event, timeline' = Append(timeline, e),
         e.kind \in {"started", "observed"} =>
           \A i \in Acts : timeline[i].probe = e.probe =>
             /\ timeline[i].kind # e.kind
             /\ timeline[i].by = e.by \/ NoOne \in {timeline[i].by, e.by}
  PROVE  OneExecutionOneCapture'
<1>1. \A i, j \in Acts : timeline[i].probe = timeline[j].probe =>
        /\ timeline[i].kind = timeline[j].kind => i = j
        /\ timeline[i].by = timeline[j].by \/ NoOne \in {timeline[i].by, timeline[j].by}
  BY DEF OneExecutionOneCapture, Acts
<1>2. SUFFICES \A i, j \in Acts' : timeline'[i].probe = timeline'[j].probe =>
        /\ timeline'[i].kind = timeline'[j].kind => i = j
        /\ timeline'[i].by = timeline'[j].by \/ NoOne \in {timeline'[i].by, timeline'[j].by}
  BY DEF OneExecutionOneCapture, Acts
<1>3. \A i \in Acts : timeline'[i] = timeline[i]
  BY GrownActs, AppendedEvents
<1>4. CASE e.kind \notin {"started", "observed"}
  <2>1. Acts' = Acts
    BY <1>4, GrownActs
  <2>2. TAKE i, j \in Acts'
  <2>3. i \in Acts /\ j \in Acts
    BY <2>1, <2>2
  <2>4. timeline'[i] = timeline[i] /\ timeline'[j] = timeline[j]
    BY <2>3, <1>3
  <2> QED BY <2>3, <2>4, <1>1
<1>5. CASE e.kind \in {"started", "observed"}
  <2>1. Acts' = Acts \cup {NextEvent}
    BY <1>5, GrownActs
  <2>2. timeline'[NextEvent] = e
    BY AppendedEvents
  <2>3. \A i \in Acts : timeline[i].probe = e.probe =>
             /\ timeline[i].kind # e.kind
             /\ timeline[i].by = e.by \/ NoOne \in {timeline[i].by, e.by}
    BY <1>5
  <2>4. TAKE i, j \in Acts'
  <2>5. CASE i \in Acts /\ j \in Acts
    BY <2>5, <1>1, <1>3
  <2>6. CASE i \in Acts /\ j = NextEvent
    BY <2>6, <2>2, <2>3, <1>3
  <2>7. CASE i = NextEvent /\ j \in Acts
    BY <2>7, <2>2, <2>3, <1>3
  <2>8. CASE i = NextEvent /\ j = NextEvent
    BY <2>8
  <2> QED BY <2>1, <2>5, <2>6, <2>7, <2>8
<1> QED BY <1>4, <1>5

(* The mismatches that nobody has addressed.                               *)
Materials == {i \in EventsOf("compared") : timeline[i].material}

LEMMA GrownMaterials ==
  ASSUME timeline \in Seq(Event), NEW e \in Event, timeline' = Append(timeline, e)
  PROVE  Materials' =
           Materials \cup (IF e.kind = "compared" /\ e.material THEN {NextEvent} ELSE {})
<1>1. EventsOf("compared")' =
        EventsOf("compared") \cup (IF e.kind = "compared" THEN {NextEvent} ELSE {})
  BY GrownKinds
<1>2. Materials' = {i \in EventsOf("compared")' : timeline'[i].material}
  BY DEF Materials
<1>3. \A i \in EventsOf("compared") : timeline'[i] = timeline[i]
  BY AppendedEvents DEF EventsOf
<1>4. timeline'[NextEvent] = e
  BY AppendedEvents
<1>5. CASE e.kind = "compared"
  BY <1>1, <1>2, <1>3, <1>4, <1>5 DEF Materials
<1>6. CASE e.kind # "compared"
  BY <1>1, <1>2, <1>3, <1>6 DEF Materials
<1> QED BY <1>5, <1>6

(* Nothing cites an event that has not been written.                       *)
LEMMA NobodyCitesNext ==
  ASSUME timeline \in Seq(Event), TimelineIsComplete, NEW k
  PROVE  /\ NextEvent \notin Cited(k)
         /\ NextEvent \notin Observations
         /\ NextEvent \notin Materials
         /\ 0 \notin Cited(k) /\ 0 \notin Observations /\ 0 \notin Materials
         /\ NextEvent \in Nat \ {0}
<1>1. Len(timeline) \in Nat /\ DOMAIN timeline = 1..Len(timeline)
  BY LenProperties
<1>2. \A i \in DOMAIN timeline : timeline[i].ref <= Len(timeline) /\ timeline[i].ref \in Nat
  BY <1>1 DEF TimelineIsComplete
<1>3. NextEvent \notin Cited(k) /\ 0 \notin Cited(k)
  BY <1>1, <1>2 DEF Cited, EventsOf, NextEvent
<1>4. Observations \subseteq DOMAIN timeline /\ Materials \subseteq DOMAIN timeline
  BY DEF Observations, Materials, EventsOf
<1> QED BY <1>1, <1>3, <1>4 DEF NextEvent

(* Accounting after one more event, for each kind of event.                *)
LEMMA AccountingIsSets ==
  AccountingFollowsCase <=>
    /\ Observations \ (Cited("compared") \cup Cited("discarded")) = {case.probe.seen} \ {0}
    /\ Cited("compared") \ Observations = {}
    /\ Materials \ Cited("revised") = {case.mismatch} \ {0}
BY DEF AccountingFollowsCase, Uncompared, InvalidComparisons, Unaddressed, Materials

LEMMA AccountingIsSetsNext ==
  AccountingFollowsCase' <=>
    /\ Observations' \ (Cited("compared")' \cup Cited("discarded")') = {case'.probe.seen} \ {0}
    /\ Cited("compared")' \ Observations' = {}
    /\ Materials' \ Cited("revised")' = {case'.mismatch} \ {0}
BY DEF AccountingFollowsCase, Uncompared, InvalidComparisons, Unaddressed, Materials

LEMMA GrownDebts ==
  ASSUME timeline \in Seq(Event), NEW e \in Event, timeline' = Append(timeline, e)
  PROVE  /\ Cited("compared")' =
              Cited("compared") \cup (IF e.kind = "compared" THEN {e.ref} \ {0} ELSE {})
         /\ Cited("discarded")' =
              Cited("discarded") \cup (IF e.kind = "discarded" THEN {e.ref} \ {0} ELSE {})
         /\ Cited("revised")' =
              Cited("revised") \cup (IF e.kind = "revised" THEN {e.ref} \ {0} ELSE {})
<1>1. Cited("compared")' =
        Cited("compared") \cup (IF e.kind = "compared" THEN {e.ref} \ {0} ELSE {})
  BY GrownCitations
<1>2. Cited("discarded")' =
        Cited("discarded") \cup (IF e.kind = "discarded" THEN {e.ref} \ {0} ELSE {})
  BY GrownCitations
<1>3. Cited("revised")' =
        Cited("revised") \cup (IF e.kind = "revised" THEN {e.ref} \ {0} ELSE {})
  BY GrownCitations
<1> QED BY <1>1, <1>2, <1>3

LEMMA AccountingOfOther ==
  ASSUME timeline \in Seq(Event), AccountingFollowsCase,
         NEW e \in Event, timeline' = Append(timeline, e),
         e.kind \notin {"observed", "exposed", "compared", "discarded", "revised"},
         case'.probe.seen = case.probe.seen, case'.mismatch = case.mismatch
  PROVE  AccountingFollowsCase'
<1>1. /\ Cited("compared")' = Cited("compared")
      /\ Cited("discarded")' = Cited("discarded")
      /\ Cited("revised")' = Cited("revised")
  BY GrownDebts
<1>2. Observations' = Observations /\ Materials' = Materials
  BY GrownObservations, GrownMaterials
<1> QED BY <1>1, <1>2, AccountingIsSets, AccountingIsSetsNext

LEMMA AccountingOfObserved ==
  ASSUME timeline \in Seq(Event), TimelineIsComplete, AccountingFollowsCase,
         NEW e \in Event, timeline' = Append(timeline, e),
         e.kind = "observed", case.probe.seen = 0,
         \A i \in Results : timeline[i].probe # e.probe,
         case'.probe.seen = NextEvent, case'.mismatch = case.mismatch
  PROVE  AccountingFollowsCase'
<1>1. /\ Cited("compared")' = Cited("compared")
      /\ Cited("discarded")' = Cited("discarded")
      /\ Cited("revised")' = Cited("revised")
  BY GrownDebts
<1>2. Materials' = Materials
  BY GrownMaterials
<1>3. Observations' = Observations \cup {NextEvent}
  <2>1. Observations \subseteq Results
    BY DEF Observations, Results
  <2>2. {i \in Observations : timeline[i].probe # e.probe} = Observations
    BY <2>1
  <2> QED BY <2>2, GrownObservations
<1>4. /\ NextEvent \notin Cited("compared")
      /\ NextEvent \notin Cited("discarded")
      /\ NextEvent # 0
  BY NobodyCitesNext
<1>5. /\ Observations \ (Cited("compared") \cup Cited("discarded")) = {}
      /\ Cited("compared") \ Observations = {}
      /\ Materials \ Cited("revised") = {case.mismatch} \ {0}
  BY AccountingIsSets
<1>6. Observations' \ (Cited("compared")' \cup Cited("discarded")') = {case'.probe.seen} \ {0}
  BY <1>1, <1>3, <1>4, <1>5
<1>7. Cited("compared")' \ Observations' = {}
  BY <1>1, <1>3, <1>5
<1>8. Materials' \ Cited("revised")' = {case'.mismatch} \ {0}
  BY <1>1, <1>2, <1>5
<1> QED BY <1>6, <1>7, <1>8, AccountingIsSetsNext

LEMMA AccountingOfExposed ==
  ASSUME timeline \in Seq(Event), TimelineIsComplete, AccountingFollowsCase,
         NEW e \in Event, timeline' = Append(timeline, e),
         e.kind = "exposed", case.probe.seen # 0,
         timeline[case.probe.seen].probe = e.probe,
         case'.probe.seen = NextEvent, case'.mismatch = case.mismatch
  PROVE  AccountingFollowsCase'
<1>1. /\ Cited("compared")' = Cited("compared")
      /\ Cited("discarded")' = Cited("discarded")
      /\ Cited("revised")' = Cited("revised")
  BY GrownDebts
<1>2. Materials' = Materials
  BY GrownMaterials
<1>3. /\ Observations \ (Cited("compared") \cup Cited("discarded")) = {case.probe.seen} \ {0}
      /\ Cited("compared") \ Observations = {}
      /\ Materials \ Cited("revised") = {case.mismatch} \ {0}
  BY AccountingIsSets
<1>4. case.probe.seen \in Observations
  BY <1>3
<1>5. Observations' = (Observations \ {case.probe.seen}) \cup {NextEvent}
  <2>1. \A i, j \in Observations : timeline[i].probe = timeline[j].probe => i = j
    <3>1. Observations \subseteq Nat
      BY LenProperties DEF Observations, EventsOf
    <3>2. \A i, j \in Observations : timeline[i].probe = timeline[j].probe => i <= j
      BY DEF Observations
    <3>3. TAKE i, j \in Observations
    <3>4. timeline[i].probe = timeline[j].probe => i <= j /\ j <= i
      BY <3>2
    <3> QED BY <3>1, <3>4
  <2>2. {i \in Observations : timeline[i].probe # e.probe} = Observations \ {case.probe.seen}
    BY <2>1, <1>4
  <2> QED BY <2>2, GrownObservations
<1>6. /\ NextEvent \notin Cited("compared")
      /\ NextEvent \notin Cited("discarded")
      /\ NextEvent # 0
  BY NobodyCitesNext
<1>7. Observations' \ (Cited("compared")' \cup Cited("discarded")') = {case'.probe.seen} \ {0}
  BY <1>1, <1>3, <1>5, <1>6
<1>8. Cited("compared")' \ Observations' = {}
  BY <1>1, <1>3, <1>4, <1>5
<1>9. Materials' \ Cited("revised")' = {case'.mismatch} \ {0}
  BY <1>1, <1>2, <1>3
<1> QED BY <1>7, <1>8, <1>9, AccountingIsSetsNext

LEMMA AccountingOfCompared ==
  ASSUME timeline \in Seq(Event), TimelineIsComplete, AccountingFollowsCase,
         NEW e \in Event, timeline' = Append(timeline, e),
         e.kind = "compared", e.ref = case.probe.seen, case.mismatch = 0,
         case'.probe.seen = 0,
         case'.mismatch = IF e.material THEN NextEvent ELSE 0
  PROVE  AccountingFollowsCase'
<1>1. /\ Cited("compared")' = Cited("compared") \cup ({case.probe.seen} \ {0})
      /\ Cited("discarded")' = Cited("discarded")
      /\ Cited("revised")' = Cited("revised")
  BY GrownDebts
<1>2. Materials' = Materials \cup (IF e.material THEN {NextEvent} ELSE {})
  BY GrownMaterials
<1>3. Observations' = Observations
  BY GrownObservations
<1>4. /\ Observations \ (Cited("compared") \cup Cited("discarded")) = {case.probe.seen} \ {0}
      /\ Cited("compared") \ Observations = {}
      /\ Materials \ Cited("revised") = {}
  BY AccountingIsSets
<1>5. NextEvent \notin Cited("revised") /\ NextEvent # 0
  BY NobodyCitesNext
<1>6. Observations' \ (Cited("compared")' \cup Cited("discarded")') = {case'.probe.seen} \ {0}
  BY <1>1, <1>3, <1>4
<1>7. Cited("compared")' \ Observations' = {}
  BY <1>1, <1>3, <1>4
<1>8. Materials' \ Cited("revised")' = {case'.mismatch} \ {0}
  <2>1. CASE e.material
    BY <2>1, <1>1, <1>2, <1>4, <1>5
  <2>2. CASE ~e.material
    BY <2>2, <1>1, <1>2, <1>4
  <2> QED BY <2>1, <2>2
<1> QED BY <1>6, <1>7, <1>8, AccountingIsSetsNext

LEMMA AccountingOfDiscarded ==
  ASSUME timeline \in Seq(Event), TimelineIsComplete, AccountingFollowsCase,
         NEW e \in Event, timeline' = Append(timeline, e),
         e.kind = "discarded", e.ref = case.probe.seen,
         case'.probe.seen = 0, case'.mismatch = case.mismatch
  PROVE  AccountingFollowsCase'
<1>1. /\ Cited("compared")' = Cited("compared")
      /\ Cited("discarded")' = Cited("discarded") \cup ({case.probe.seen} \ {0})
      /\ Cited("revised")' = Cited("revised")
  BY GrownDebts
<1>2. Materials' = Materials /\ Observations' = Observations
  BY GrownMaterials, GrownObservations
<1>3. /\ Observations \ (Cited("compared") \cup Cited("discarded")) = {case.probe.seen} \ {0}
      /\ Cited("compared") \ Observations = {}
      /\ Materials \ Cited("revised") = {case.mismatch} \ {0}
  BY AccountingIsSets
<1>4. Observations' \ (Cited("compared")' \cup Cited("discarded")') = {case'.probe.seen} \ {0}
  BY <1>1, <1>2, <1>3
<1>5. Cited("compared")' \ Observations' = {}
  BY <1>1, <1>2, <1>3
<1>6. Materials' \ Cited("revised")' = {case'.mismatch} \ {0}
  BY <1>1, <1>2, <1>3
<1> QED BY <1>4, <1>5, <1>6, AccountingIsSetsNext

LEMMA AccountingOfRevised ==
  ASSUME timeline \in Seq(Event), TimelineIsComplete, AccountingFollowsCase,
         NEW e \in Event, timeline' = Append(timeline, e),
         e.kind = "revised", e.ref = case.mismatch,
         case'.probe.seen = case.probe.seen, case'.mismatch = 0
  PROVE  AccountingFollowsCase'
<1>1. /\ Cited("compared")' = Cited("compared")
      /\ Cited("discarded")' = Cited("discarded")
      /\ Cited("revised")' = Cited("revised") \cup ({case.mismatch} \ {0})
  BY GrownDebts
<1>2. Materials' = Materials /\ Observations' = Observations
  BY GrownMaterials, GrownObservations
<1>3. /\ Observations \ (Cited("compared") \cup Cited("discarded")) = {case.probe.seen} \ {0}
      /\ Cited("compared") \ Observations = {}
      /\ Materials \ Cited("revised") = {case.mismatch} \ {0}
  BY AccountingIsSets
<1>4. Observations' \ (Cited("compared")' \cup Cited("discarded")') = {case'.probe.seen} \ {0}
  BY <1>1, <1>2, <1>3
<1>5. Cited("compared")' \ Observations' = {}
  BY <1>1, <1>2, <1>3
<1>6. Materials' \ Cited("revised")' = {case'.mismatch} \ {0}
  BY <1>1, <1>2, <1>3
<1> QED BY <1>4, <1>5, <1>6, AccountingIsSetsNext

(* What every kind of transition needs of the history before it.           *)
LEMMA HistoryFacts ==
  ASSUME HistoryInv
  PROVE  /\ case \in Case
         /\ timeline \in Seq(Event)
         /\ TimelineIsComplete
         /\ IdsAreCounted
         /\ ProbeIsItsHistory
         /\ OneExecutionOneCapture
         /\ AccountingFollowsCase
BY DEF HistoryInv

(* A transition that leaves the probe's acts alone keeps what is known of  *)
(* the probe; it may drop the probe, and say of a stale case what it says. *)
LEMMA ProbeKept ==
  ASSUME timeline \in Seq(Event), TimelineIsComplete, case \in Case, ProbeIsItsHistory,
         NEW e \in Event, timeline' = Append(timeline, e),
         e.kind \notin {"started", "observed", "exposed"},
         case'.probe = case.probe,
         case.probe # NoProbe => case'.mismatch = 0
  PROVE  ProbeIsItsHistory'
<1>0. PICK p : p = case.probe
  OBVIOUS
<1>1. p \in Probe
  BY <1>0 DEF Case
<1>2. \A i \in DOMAIN timeline : timeline'[i] = timeline[i] /\ i \in DOMAIN timeline'
  BY AppendedEvents
<1>3. Results' = Results /\ Results \subseteq DOMAIN timeline
  <2>1. Results' = Results
    BY GrownResults
  <2>2. Results \subseteq DOMAIN timeline
    BY DEF Results, EventsOf
  <2> QED BY <2>1, <2>2
<1>4. EventsOf("started")' = EventsOf("started") /\ EventsOf("started") \subseteq DOMAIN timeline
  <2>1. EventsOf("started")' =
          EventsOf("started") \cup (IF e.kind = "started" THEN {NextEvent} ELSE {})
    BY GrownKinds
  <2>2. EventsOf("started") \subseteq DOMAIN timeline
    BY DEF EventsOf
  <2> QED BY <2>1, <2>2
<1>5. case'.probe = p
  BY <1>0
<1>6. p.status = "none" => p = NoProbe
  BY <1>0 DEF ProbeIsItsHistory
<1>7. p # NoProbe => case'.mismatch = 0
  BY <1>0
<1>8. p.status = "observed" => p.seen \in DOMAIN timeline' /\ timeline'[p.seen].probe = p.id
  BY <1>0, <1>2 DEF ProbeIsItsHistory
<1>9. p.status # "observed" => p.seen = 0
  BY <1>0 DEF ProbeIsItsHistory
<1>10. p.status = "committed" =>
         \A i \in EventsOf("started")' \cup Results' : timeline'[i].probe # p.id
  BY <1>0, <1>2, <1>3, <1>4 DEF ProbeIsItsHistory
<1>11. p.status = "executing" =>
         /\ p.by \in Dispatches
         /\ \A i \in Results' : timeline'[i].probe # p.id
  BY <1>0, <1>2, <1>3 DEF ProbeIsItsHistory
<1>12. p.status = "executing" => StartedBy(p.id, p.by)'
  <2>1. p.status = "executing" =>
          \E i \in EventsOf("started") : timeline[i].probe = p.id /\ timeline[i].by = p.by
    BY <1>0 DEF ProbeIsItsHistory, StartedBy
  <2>2. p.status = "executing" =>
          \E i \in EventsOf("started")' : timeline'[i].probe = p.id /\ timeline'[i].by = p.by
    BY <2>1, <1>2, <1>4
  <2>3. StartedBy(p.id, p.by)' =
          (\E i \in EventsOf("started")' : timeline'[i].probe = p.id /\ timeline'[i].by = p.by)
    BY <1>5 DEF StartedBy
  <2> QED BY <2>2, <2>3
<1> QED BY <1>5, <1>6, <1>7, <1>8, <1>9, <1>10, <1>11, <1>12 DEF ProbeIsItsHistory

LEMMA ProbeDropped ==
  ASSUME timeline \in Seq(Event), case'.probe = NoProbe
  PROVE  ProbeIsItsHistory'
BY DEF ProbeIsItsHistory, NoProbe

(* Notes, pauses and resumes.                                              *)
LEMMA HistoryOfQuiet ==
  ASSUME MaxEvents \in Nat, HistoryInv, NEW new \in Case, NEW e \in Event, Grows(new, e),
         e.kind \in {"note", "case_paused", "case_resumed"}, e.probe = 0, e.ref = 0,
         new.probe = case.probe, new.mismatch = case.mismatch
  PROVE  HistoryInv'
<1>1. timeline' = Append(timeline, e)
  BY DEF Grows
<1>2. e.ref \in 0..Len(timeline)
  BY HistoryFacts, LenProperties
<1>3. /\ case' \in Case /\ timeline' \in Seq(Event) /\ TimelineIsComplete'
      /\ case'.probe = case.probe /\ case'.mismatch = case.mismatch
  BY <1>2, HistoryFacts, GrownShape
<1>4. IdsAreCounted'
  BY <1>1, <1>3, HistoryFacts, GrownIds
<1>5. OneExecutionOneCapture'
  BY <1>1, HistoryFacts, GrownOneExecution
<1>6. AccountingFollowsCase'
  BY <1>1, <1>3, HistoryFacts, AccountingOfOther
<1>7. ProbeIsItsHistory'
  <2>1. case.probe # NoProbe => case.mismatch = 0
    BY HistoryFacts DEF ProbeIsItsHistory
  <2> QED BY <2>1, <1>1, <1>3, HistoryFacts, ProbeKept
<1> QED BY <1>3, <1>4, <1>5, <1>6, <1>7 DEF HistoryInv

(* A commit takes the next number.                                         *)
LEMMA HistoryOfCommit ==
  ASSUME MaxEvents \in Nat, HistoryInv, NEW new \in Case, NEW e \in Event, Grows(new, e),
         e.kind = "committed", e.probe = Count + 1, e.ref = 0,
         case.probe = NoProbe, case.mismatch = 0,
         new.probe = [NoProbe EXCEPT !.id = Count + 1, !.status = "committed"],
         new.mismatch = case.mismatch
  PROVE  HistoryInv'
<1>1. timeline' = Append(timeline, e)
  BY DEF Grows
<1>2. e.ref \in 0..Len(timeline)
  BY HistoryFacts, LenProperties
<1>3. /\ case' \in Case /\ timeline' \in Seq(Event) /\ TimelineIsComplete'
      /\ case'.probe = new.probe /\ case'.mismatch = 0
  BY <1>2, HistoryFacts, GrownShape
<1>4. /\ case'.probe.id = Count + 1 /\ case'.probe.status = "committed"
      /\ case'.probe.seen = 0 /\ case.probe.seen = 0
  BY <1>3 DEF NoProbe
<1>5. IdsAreCounted'
  BY <1>1, <1>3, <1>4, HistoryFacts, GrownIds
<1>6. OneExecutionOneCapture'
  BY <1>1, HistoryFacts, GrownOneExecution
<1>7. AccountingFollowsCase'
  BY <1>1, <1>3, <1>4, HistoryFacts, AccountingOfOther
<1>8. \A i \in EventsOf("started")' \cup Results' : timeline'[i].probe # Count + 1
  <2>1. EventsOf("started")' =
          EventsOf("started") \cup (IF e.kind = "started" THEN {NextEvent} ELSE {})
    BY <1>1, HistoryFacts, GrownKinds
  <2>2. Results' = Results
    BY <1>1, HistoryFacts, GrownResults
  <2>3. EventsOf("started") \cup Results \subseteq DOMAIN timeline
    BY DEF EventsOf, Results
  <2>4. \A i \in DOMAIN timeline : timeline'[i] = timeline[i]
    BY <1>1, HistoryFacts, AppendedEvents
  <2>5. \A i \in DOMAIN timeline : timeline[i] \in Event
    BY HistoryFacts, ElementOfSeq, LenProperties
  <2>6. \A i \in DOMAIN timeline : timeline[i].probe <= Count /\ timeline[i].probe \in Nat
    BY <2>5, HistoryFacts DEF IdsAreCounted, Event
  <2>7. Count \in Nat
    BY HistoryFacts, CountIsNat
  <2>8. \A i \in DOMAIN timeline : timeline[i].probe # Count + 1
    BY <2>6, <2>7
  <2> QED BY <2>1, <2>2, <2>3, <2>4, <2>8
<1>9. ProbeIsItsHistory'
  BY <1>3, <1>4, <1>8 DEF ProbeIsItsHistory
<1> QED BY <1>3, <1>5, <1>6, <1>7, <1>9 DEF HistoryInv

(* A start: the first act of a committed probe.                            *)
LEMMA HistoryOfStart ==
  ASSUME MaxEvents \in Nat, HistoryInv, NEW new \in Case, NEW e \in Event, Grows(new, e),
         NEW d \in Dispatches,
         e.kind = "started", e.probe = case.probe.id, e.by = d, e.ref = 0,
         case.probe.status = "committed",
         new.probe = [case.probe EXCEPT !.status = "executing", !.by = d],
         new.mismatch = case.mismatch
  PROVE  HistoryInv'
<1>1. timeline' = Append(timeline, e)
  BY DEF Grows
<1>2. e.ref \in 0..Len(timeline)
  BY HistoryFacts, LenProperties
<1>3. /\ case' \in Case /\ timeline' \in Seq(Event) /\ TimelineIsComplete'
      /\ case'.probe = new.probe /\ case'.mismatch = case.mismatch
  BY <1>2, HistoryFacts, GrownShape
<1>4. case.probe \in Probe
  BY HistoryFacts DEF Case
<1>5. /\ case'.probe.id = case.probe.id /\ case'.probe.status = "executing"
      /\ case'.probe.by = d /\ case'.probe.seen = case.probe.seen
  BY <1>3, <1>4 DEF Probe
<1>6. /\ case.probe.seen = 0 /\ case.mismatch = 0
      /\ \A i \in EventsOf("started") \cup Results : timeline[i].probe # case.probe.id
  BY HistoryFacts DEF ProbeIsItsHistory, NoProbe
<1>7. IdsAreCounted'
  BY <1>1, <1>3, <1>5, HistoryFacts, GrownIds
<1>8. OneExecutionOneCapture'
  <2>1. Acts \subseteq EventsOf("started") \cup Results
    BY DEF Acts, Results
  <2> QED BY <2>1, <1>1, <1>6, HistoryFacts, GrownOneExecution
<1>9. AccountingFollowsCase'
  BY <1>1, <1>3, <1>5, HistoryFacts, AccountingOfOther
<1>10. ProbeIsItsHistory'
  <2>1. Results' = Results /\ Results \subseteq DOMAIN timeline
    <3>1. Results' = Results
      BY <1>1, HistoryFacts, GrownResults
    <3>2. Results \subseteq DOMAIN timeline
      BY DEF Results, EventsOf
    <3> QED BY <3>1, <3>2
  <2>2. \A i \in DOMAIN timeline : timeline'[i] = timeline[i]
    BY <1>1, HistoryFacts, AppendedEvents
  <2>3. \A i \in Results' : timeline'[i].probe # case.probe.id
    BY <2>1, <2>2, <1>6
  <2>4. NextEvent \in EventsOf("started")' /\ timeline'[NextEvent] = e
    <3>1. EventsOf("started")' = EventsOf("started") \cup {NextEvent}
      BY <1>1, HistoryFacts, GrownKinds
    <3>2. timeline'[NextEvent] = e
      BY <1>1, HistoryFacts, AppendedEvents
    <3> QED BY <3>1, <3>2
  <2>5. StartedBy(case.probe.id, case.probe.by)'
    BY <2>4, <1>5 DEF StartedBy
  <2>6. case'.probe.by \in Dispatches
    BY <1>5
  <2> QED BY <2>3, <2>5, <2>6, <1>3, <1>5, <1>6 DEF ProbeIsItsHistory
<1> QED BY <1>3, <1>7, <1>8, <1>9, <1>10 DEF HistoryInv

(* Whoever is said to have started the executing probe is its executor.    *)
LEMMA OneStarter ==
  ASSUME HistoryInv, case.probe.status = "executing",
         NEW d \in Dispatches, StartedBy(case.probe.id, d), NoOne \notin Dispatches
  PROVE  case.probe.by = d
<1>1. PICK i \in EventsOf("started") : timeline[i].probe = case.probe.id /\ timeline[i].by = d
  BY DEF StartedBy
<1>2. PICK j \in EventsOf("started") :
        timeline[j].probe = case.probe.id /\ timeline[j].by = case.probe.by
  BY HistoryFacts DEF ProbeIsItsHistory, StartedBy
<1>3. timeline[i].kind = timeline[j].kind
  BY <1>1, <1>2 DEF EventsOf
<1>4. i = j
  BY <1>1, <1>2, <1>3, HistoryFacts DEF OneExecutionOneCapture
<1> QED BY <1>1, <1>2, <1>4

(* A capture: the executor's result, or the placeholder of a recovery.     *)
LEMMA HistoryOfCapture ==
  ASSUME MaxEvents \in Nat, NoOne \notin Dispatches,
         HistoryInv, NEW new \in Case, NEW e \in Event, Grows(new, e), NEW native \in BOOLEAN,
         e.kind = "observed", e.probe = case.probe.id, e.ref = 0,
         e.by \in {case.probe.by, NoOne},
         case.probe.status = "executing",
         new.probe = [case.probe EXCEPT !.status = "observed", !.native = native,
                                        !.seen = NextEvent],
         new.mismatch = case.mismatch
  PROVE  HistoryInv'
<1>1. timeline' = Append(timeline, e)
  BY DEF Grows
<1>2. e.ref \in 0..Len(timeline)
  BY HistoryFacts, LenProperties
<1>3. /\ case' \in Case /\ timeline' \in Seq(Event) /\ TimelineIsComplete'
      /\ case'.probe = new.probe /\ case'.mismatch = case.mismatch
  BY <1>2, HistoryFacts, GrownShape
<1>4. case.probe \in Probe
  BY HistoryFacts DEF Case
<1>5. /\ case'.probe.id = case.probe.id /\ case'.probe.status = "observed"
      /\ case'.probe.seen = NextEvent
  BY <1>3, <1>4 DEF Probe
<1>6. /\ case.probe.seen = 0 /\ case.mismatch = 0
      /\ case.probe.by \in Dispatches
      /\ StartedBy(case.probe.id, case.probe.by)
      /\ \A i \in Results : timeline[i].probe # case.probe.id
  BY HistoryFacts DEF ProbeIsItsHistory, NoProbe
<1>7. IdsAreCounted'
  BY <1>1, <1>3, <1>5, HistoryFacts, GrownIds
<1>8. OneExecutionOneCapture'
  <2>1. \A i \in Acts : timeline[i].probe = case.probe.id =>
          timeline[i].kind = "started" /\ timeline[i].by = case.probe.by
    <3>1. TAKE i \in Acts
    <3>2. HAVE timeline[i].probe = case.probe.id
    <3>3. i \in EventsOf("started")
      BY <3>2, <1>6 DEF Acts, Results
    <3>4. PICK j \in EventsOf("started") :
            timeline[j].probe = case.probe.id /\ timeline[j].by = case.probe.by
      BY <1>6 DEF StartedBy
    <3>5. timeline[i].kind = "started" /\ timeline[j].kind = "started"
      BY <3>3, <3>4 DEF EventsOf
    <3>6. i = j
      BY <3>2, <3>3, <3>4, <3>5, HistoryFacts DEF OneExecutionOneCapture
    <3> QED BY <3>4, <3>5, <3>6
  <2> QED BY <2>1, <1>1, HistoryFacts, GrownOneExecution
<1>9. AccountingFollowsCase'
  BY <1>1, <1>3, <1>5, <1>6, HistoryFacts, AccountingOfObserved
<1>10. ProbeIsItsHistory'
  <2>1. /\ NextEvent \in DOMAIN timeline'
        /\ timeline'[NextEvent].probe = case.probe.id
    BY <1>1, HistoryFacts, AppendedEvents
  <2> QED BY <2>1, <1>3, <1>5, <1>6 DEF ProbeIsItsHistory
<1> QED BY <1>3, <1>7, <1>8, <1>9, <1>10 DEF HistoryInv

(* An exposure supersedes the observation the case names.                  *)
LEMMA HistoryOfExpose ==
  ASSUME MaxEvents \in Nat,
         HistoryInv, NEW new \in Case, NEW e \in Event, Grows(new, e),
         e.kind = "exposed", e.probe = case.probe.id, e.ref = case.probe.seen,
         case.probe.status = "observed",
         new.probe = [case.probe EXCEPT !.seen = NextEvent],
         new.mismatch = case.mismatch
  PROVE  HistoryInv'
<1>1. timeline' = Append(timeline, e)
  BY DEF Grows
<1>2. /\ case.probe.seen \in DOMAIN timeline
      /\ timeline[case.probe.seen].probe = case.probe.id
      /\ case.mismatch = 0
  BY HistoryFacts DEF ProbeIsItsHistory, NoProbe
<1>3. e.ref \in 0..Len(timeline) /\ case.probe.seen # 0
  BY <1>2, HistoryFacts, LenProperties
<1>4. /\ case' \in Case /\ timeline' \in Seq(Event) /\ TimelineIsComplete'
      /\ case'.probe = new.probe /\ case'.mismatch = case.mismatch
  BY <1>3, HistoryFacts, GrownShape
<1>5. case.probe \in Probe
  BY HistoryFacts DEF Case
<1>6. /\ case'.probe.id = case.probe.id /\ case'.probe.status = "observed"
      /\ case'.probe.seen = NextEvent
  BY <1>4, <1>5 DEF Probe
<1>7. IdsAreCounted'
  BY <1>1, <1>4, <1>6, HistoryFacts, GrownIds
<1>8. OneExecutionOneCapture'
  BY <1>1, HistoryFacts, GrownOneExecution
<1>9. AccountingFollowsCase'
  BY <1>1, <1>2, <1>3, <1>4, <1>6, HistoryFacts, AccountingOfExposed
<1>10. ProbeIsItsHistory'
  <2>1. /\ NextEvent \in DOMAIN timeline'
        /\ timeline'[NextEvent].probe = case.probe.id
    BY <1>1, HistoryFacts, AppendedEvents
  <2> QED BY <2>1, <1>2, <1>4, <1>6 DEF ProbeIsItsHistory
<1> QED BY <1>4, <1>7, <1>8, <1>9, <1>10 DEF HistoryInv

(* What a case's observation cites is in the history.                      *)
LEMMA SeenIsPast ==
  ASSUME HistoryInv
  PROVE  case.probe.seen \in 0..Len(timeline)
<1>1. case.probe.status = "observed" => case.probe.seen \in DOMAIN timeline
  BY HistoryFacts DEF ProbeIsItsHistory
<1>2. case.probe.status # "observed" => case.probe.seen = 0
  BY HistoryFacts DEF ProbeIsItsHistory
<1> QED BY <1>1, <1>2, HistoryFacts, LenProperties

(* A comparison settles the observation, and may owe a repair.             *)
LEMMA HistoryOfCompare ==
  ASSUME MaxEvents \in Nat,
         HistoryInv, NEW new \in Case, NEW e \in Event, Grows(new, e),
         e.kind = "compared", e.probe = case.probe.id, e.ref = case.probe.seen,
         case.probe.status = "observed",
         new.probe = NoProbe,
         new.mismatch = IF e.material THEN NextEvent ELSE case.mismatch
  PROVE  HistoryInv'
<1>1. timeline' = Append(timeline, e)
  BY DEF Grows
<1>2. case.mismatch = 0
  BY HistoryFacts DEF ProbeIsItsHistory, NoProbe
<1>3. /\ case' \in Case /\ timeline' \in Seq(Event) /\ TimelineIsComplete'
      /\ case'.probe = NoProbe /\ case'.mismatch = IF e.material THEN NextEvent ELSE 0
  BY <1>2, SeenIsPast, HistoryFacts, GrownShape
<1>4. case'.probe.id = 0 /\ case'.probe.seen = 0
  BY <1>3 DEF NoProbe
<1>5. IdsAreCounted'
  BY <1>1, <1>3, <1>4, HistoryFacts, GrownIds
<1>6. OneExecutionOneCapture'
  BY <1>1, HistoryFacts, GrownOneExecution
<1>7. AccountingFollowsCase'
  BY <1>1, <1>2, <1>3, <1>4, HistoryFacts, AccountingOfCompared
<1>8. ProbeIsItsHistory'
  BY <1>3, HistoryFacts, ProbeDropped
<1> QED BY <1>3, <1>5, <1>6, <1>7, <1>8 DEF HistoryInv

(* A discard settles whatever the probe has observed.                      *)
LEMMA HistoryOfDiscard ==
  ASSUME MaxEvents \in Nat,
         HistoryInv, NEW new \in Case, NEW e \in Event, Grows(new, e),
         e.kind = "discarded", e.probe = case.probe.id, e.ref = case.probe.seen,
         new.probe = NoProbe, new.mismatch = case.mismatch
  PROVE  HistoryInv'
<1>1. timeline' = Append(timeline, e)
  BY DEF Grows
<1>3. /\ case' \in Case /\ timeline' \in Seq(Event) /\ TimelineIsComplete'
      /\ case'.probe = NoProbe /\ case'.mismatch = case.mismatch
  BY SeenIsPast, HistoryFacts, GrownShape
<1>4. case'.probe.id = 0 /\ case'.probe.seen = 0
  BY <1>3 DEF NoProbe
<1>5. IdsAreCounted'
  BY <1>1, <1>3, <1>4, HistoryFacts, GrownIds
<1>6. OneExecutionOneCapture'
  BY <1>1, HistoryFacts, GrownOneExecution
<1>7. AccountingFollowsCase'
  BY <1>1, <1>3, <1>4, HistoryFacts, AccountingOfDiscarded
<1>8. ProbeIsItsHistory'
  BY <1>3, HistoryFacts, ProbeDropped
<1> QED BY <1>3, <1>5, <1>6, <1>7, <1>8 DEF HistoryInv

(* A revision addresses the mismatch the case names, if it names one.      *)
LEMMA HistoryOfRevise ==
  ASSUME MaxEvents \in Nat,
         HistoryInv, NEW new \in Case, NEW e \in Event, Grows(new, e),
         e.kind = "revised", e.probe = 0, e.ref = case.mismatch,
         case.probe = NoProbe, new.probe = NoProbe, new.mismatch = 0
  PROVE  HistoryInv'
<1>1. timeline' = Append(timeline, e)
  BY DEF Grows
<1>2. case.mismatch \in 0..Len(timeline)
  <2>1. Materials \ Cited("revised") = {case.mismatch} \ {0}
    BY HistoryFacts, AccountingIsSets
  <2>2. Materials \subseteq 1..Len(timeline)
    BY HistoryFacts, LenProperties DEF Materials, EventsOf
  <2>3. case.mismatch # 0 => case.mismatch \in 1..Len(timeline)
    BY <2>1, <2>2
  <2> QED BY <2>3, HistoryFacts, LenProperties
<1>3. /\ case' \in Case /\ timeline' \in Seq(Event) /\ TimelineIsComplete'
      /\ case'.probe = NoProbe /\ case'.mismatch = 0
  BY <1>2, HistoryFacts, GrownShape
<1>4. case'.probe.id = 0 /\ case'.probe.seen = case.probe.seen
  BY <1>3 DEF NoProbe
<1>5. IdsAreCounted'
  BY <1>1, <1>3, <1>4, HistoryFacts, GrownIds
<1>6. OneExecutionOneCapture'
  BY <1>1, HistoryFacts, GrownOneExecution
<1>7. AccountingFollowsCase'
  BY <1>1, <1>3, <1>4, HistoryFacts, AccountingOfRevised
<1>8. ProbeIsItsHistory'
  BY <1>3, HistoryFacts, ProbeDropped
<1> QED BY <1>3, <1>5, <1>6, <1>7, <1>8 DEF HistoryInv

-----------------------------------------------------------------------------
(* Who writes: only a copy that is the case gets its transition.           *)

(* What a transition means to everyone who is not its writer.              *)
Grown ==
  /\ case' \in Case /\ timeline' \in Seq(Event)
  /\ case'.revision = case.revision + 1
  /\ \A id, d : StartedBy(id, d) => StartedBy(id, d)'

LEMMA TransitionGrows ==
  ASSUME HistoryInv, NEW copy, Exact(copy), NEW new \in Case, NEW e \in Event,
         Transition(copy, new, e), e.ref \in 0..Len(timeline)
  PROVE  copy = case /\ Grows(new, e) /\ Grown
<1>1. copy = case
  BY DEF Transition, Exact
<1>2. Grows(new, e)
  BY DEF Transition, Grows
<1>3. timeline' = Append(timeline, e)
  BY DEF Transition
<1>4. MaxEvents \in Nat
  BY MaxEventsAssumption
<1>5. case' \in Case /\ timeline' \in Seq(Event) /\ case'.revision = case.revision + 1
  BY <1>2, <1>4, HistoryFacts, GrownShape
<1>6. \A id, d : StartedBy(id, d) => StartedBy(id, d)'
  BY <1>3, HistoryFacts, StartsStay
<1> QED BY <1>1, <1>2, <1>5, <1>6 DEF Grown

LEMMA NoProbeIsProbe == NoProbe \in Probe /\ NoProbe.id = 0 /\ NoProbe.seen = 0
<1>1. MaxEvents \in Nat
  BY MaxEventsAssumption
<1> QED BY <1>1 DEF NoProbe, Probe

LEMMA PastIsBounded ==
  ASSUME HistoryInv
  PROVE  0..Len(timeline) \subseteq 0..MaxEvents /\ 0 \in 0..Len(timeline)
<1>1. MaxEvents \in Nat /\ case.revision \in 0..MaxEvents /\ case.revision = Len(timeline)
  BY MaxEventsAssumption, HistoryFacts DEF TimelineIsComplete, Case
<1> QED BY <1>1

LEMMA WriteStart ==
  ASSUME IInv, NEW d \in Dispatches, Start(d), Current(call[d].copy)
  PROVE  HistoryInv' /\ Grown
<1>1. PICK copy : copy = call[d].copy
  OBVIOUS
<1>2. HistoryInv /\ Exact(copy) /\ call[d].pc = "armed" /\ copy \in Case
      /\ copy.probe.status = "committed"
  BY <1>1 DEF IInv, FrameHolds, Start, TypeOK
<1>3. PICK probe : probe = [copy.probe EXCEPT !.status = "executing", !.by = d]
  OBVIOUS
<1>4. copy.probe \in Probe
  BY <1>2 DEF Case
<1>5. probe \in Probe /\ probe.id = copy.probe.id
  BY <1>3, <1>4 DEF Probe
<1>6. PICK new : new = [copy EXCEPT !.probe = probe]
  OBVIOUS
<1>7. new \in Case /\ new.probe = probe /\ new.mismatch = copy.mismatch
  BY <1>2, <1>5, <1>6 DEF Case
<1>8. PICK e : e = Says("started", probe, d, 0)
  OBVIOUS
<1>9. e \in Event /\ e.kind = "started" /\ e.probe = copy.probe.id /\ e.by = d /\ e.ref = 0
  <2>1. "started" \in Kinds /\ 0 \in 0..MaxEvents
    BY MaxEventsAssumption DEF Kinds
  <2> QED BY <2>1, <1>5, <1>8 DEF Says, Event, Probe
<1>10. Transition(copy, new, e)
  BY <1>1, <1>3, <1>6, <1>8 DEF Start
<1>11. e.ref \in 0..Len(timeline)
  BY <1>2, <1>9, PastIsBounded
<1>12. copy = case /\ Grows(new, e) /\ Grown
  BY <1>2, <1>7, <1>9, <1>10, <1>11, TransitionGrows
<1>13. new.probe = [case.probe EXCEPT !.status = "executing", !.by = d]
  BY <1>3, <1>7, <1>12
<1> QED BY <1>2, <1>7, <1>9, <1>12, <1>13, MaxEventsAssumption, HistoryOfStart

LEMMA WriteCapture ==
  ASSUME HistoryInv, NEW copy \in Case, Exact(copy), copy.probe.status = "executing",
         NEW by \in {copy.probe.by, NoOne}, NEW native \in BOOLEAN, Capture(copy, by, native)
  PROVE  HistoryInv' /\ Grown
<1>1. PICK probe : probe = [copy.probe EXCEPT !.status = "observed", !.native = native,
                                              !.seen = NextEvent]
  OBVIOUS
<1>2. PICK new : new = [copy EXCEPT !.probe = probe]
  OBVIOUS
<1>3. PICK e : e = Says("observed", probe, by, 0)
  OBVIOUS
<1>4. Transition(copy, new, e)
  BY <1>1, <1>2, <1>3 DEF Capture
<1>5. NextEvent \in 0..MaxEvents
  <2>1. NextEvent <= MaxEvents
    BY <1>4 DEF Transition
  <2> QED BY <2>1, HistoryFacts, LenProperties, MaxEventsAssumption DEF NextEvent
<1>6. copy.probe \in Probe
  BY DEF Case
<1>7. probe \in Probe /\ probe.id = copy.probe.id
  BY <1>1, <1>5, <1>6 DEF Probe
<1>8. new \in Case /\ new.probe = probe /\ new.mismatch = copy.mismatch
  BY <1>2, <1>7 DEF Case
<1>9. by \in Dispatches \cup {NoOne}
  BY <1>6 DEF Probe
<1>10. e \in Event /\ e.kind = "observed" /\ e.probe = copy.probe.id /\ e.by = by /\ e.ref = 0
  <2>1. "observed" \in Kinds /\ 0 \in 0..MaxEvents
    BY MaxEventsAssumption DEF Kinds
  <2> QED BY <2>1, <1>3, <1>7, <1>9 DEF Says, Event, Probe
<1>11. e.ref \in 0..Len(timeline)
  BY <1>10, PastIsBounded
<1>12. copy = case /\ Grows(new, e) /\ Grown
  BY <1>4, <1>8, <1>10, <1>11, TransitionGrows
<1>13. new.probe = [case.probe EXCEPT !.status = "observed", !.native = native,
                                      !.seen = NextEvent]
  BY <1>1, <1>8, <1>12
<1>14. NoOne \notin Dispatches
  BY ActorsAssumption
<1> QED BY <1>8, <1>10, <1>12, <1>13, <1>14, MaxEventsAssumption, HistoryOfCapture

LEMMA WriteExpose ==
  ASSUME IInv, NEW d \in Dispatches, Expose(d)
  PROVE  HistoryInv' /\ Grown
<1>1. PICK copy : copy = hook[d].copy
  OBVIOUS
<1>2. HistoryInv /\ Exact(copy) /\ copy \in Case /\ copy.probe.status = "observed"
  BY <1>1 DEF IInv, HookHolds, Expose, TypeOK
<1>3. PICK probe : probe = [copy.probe EXCEPT !.seen = NextEvent]
  OBVIOUS
<1>4. PICK new : new = [copy EXCEPT !.probe = probe]
  OBVIOUS
<1>5. PICK e : e = Says("exposed", probe, d, copy.probe.seen)
  OBVIOUS
<1>6. Transition(copy, new, e)
  BY <1>1, <1>3, <1>4, <1>5 DEF Expose
<1>7. NextEvent \in 0..MaxEvents
  <2>1. NextEvent <= MaxEvents
    BY <1>6 DEF Transition
  <2> QED BY <2>1, <1>2, HistoryFacts, LenProperties, MaxEventsAssumption DEF NextEvent
<1>8. copy.probe \in Probe
  BY <1>2 DEF Case
<1>9. probe \in Probe /\ probe.id = copy.probe.id /\ copy.probe.seen \in 0..MaxEvents
  BY <1>3, <1>7, <1>8 DEF Probe
<1>10. new \in Case /\ new.probe = probe /\ new.mismatch = copy.mismatch
  BY <1>2, <1>4, <1>9 DEF Case
<1>11. e \in Event /\ e.kind = "exposed" /\ e.probe = copy.probe.id /\ e.ref = copy.probe.seen
  <2>1. "exposed" \in Kinds
    BY DEF Kinds
  <2> QED BY <2>1, <1>5, <1>9 DEF Says, Event, Probe
<1>12. copy = case
  BY <1>2, <1>6 DEF Transition, Exact
<1>13. e.ref \in 0..Len(timeline)
  BY <1>2, <1>11, <1>12, SeenIsPast
<1>14. Grows(new, e) /\ Grown
  BY <1>2, <1>6, <1>10, <1>11, <1>13, TransitionGrows
<1>15. new.probe = [case.probe EXCEPT !.seen = NextEvent]
  BY <1>3, <1>10, <1>12
<1> QED BY <1>2, <1>10, <1>11, <1>12, <1>14, <1>15, MaxEventsAssumption, HistoryOfExpose

(* An operation that writes holds what Begin read, and what it allowed.    *)
LEMMA WriterHolds ==
  ASSUME IInv, NEW a \in Agents, NEW what \in Operations, Proceed(a, what)
  PROVE  /\ HistoryInv
         /\ op[a].pc # "idle" /\ op[a].what = what
         /\ op[a].copy \in Case /\ op[a].copy.probe \in Probe
         /\ Exact(op[a].copy)
         /\ Allowed(what, op[a].copy)
         /\ NeedsReplay(a) \/ NeedsLease(a) => op[a].pc = "checked"
<1>1. HistoryInv /\ op[a].copy \in Case
  BY DEF IInv, TypeOK
<1>2. op[a].copy.probe \in Probe
  BY <1>1 DEF Case
<1>3. op[a].pc # "idle" /\ op[a].what = what /\ (NeedsReplay(a) \/ NeedsLease(a) => op[a].pc = "checked")
  BY DEF Proceed
<1>4. Exact(op[a].copy) /\ Allowed(what, op[a].copy)
  BY <1>3 DEF IInv, ToolHolds
<1> QED BY <1>1, <1>2, <1>3, <1>4

LEMMA WriteCommit ==
  ASSUME IInv, NEW a \in Agents, CommitProbe(a)
  PROVE  HistoryInv' /\ Grown
<1>1. PICK copy : copy = op[a].copy
  OBVIOUS
<1>2. Proceed(a, "commit") /\ "commit" \in Operations
  BY DEF CommitProbe, Operations
<1>3. /\ HistoryInv /\ op[a].pc = "checked" /\ op[a].what = "commit"
      /\ copy \in Case /\ Exact(copy) /\ Allowed("commit", copy)
  BY <1>1, <1>2, WriterHolds DEF NeedsReplay
<1>4. copy.probe = NoProbe
  BY <1>3 DEF Allowed
<1>5. PICK probe : probe = [NoProbe EXCEPT !.id = op[a].id, !.status = "committed"]
  OBVIOUS
<1>6. PICK new : new = [copy EXCEPT !.probe = probe]
  OBVIOUS
<1>7. PICK e : e = Says("committed", probe, NoOne, 0)
  OBVIOUS
<1>8. Transition(copy, new, e)
  BY <1>1, <1>5, <1>6, <1>7 DEF CommitProbe
<1>9. Current(copy) /\ copy = case
  BY <1>3, <1>8 DEF Transition, Exact
<1>10. op[a].id = Count + 1 /\ case.mismatch = 0
  BY <1>1, <1>3, <1>9 DEF IInv, ToolHolds
<1>11. op[a].id \in Nat /\ Count \in Nat
  BY <1>3, <1>10, HistoryFacts, CountIsNat
<1>12. probe \in Probe /\ probe.id = Count + 1
  BY <1>5, <1>10, <1>11, NoProbeIsProbe DEF Probe
<1>13. new \in Case /\ new.probe = probe /\ new.mismatch = copy.mismatch
  BY <1>3, <1>6, <1>12 DEF Case
<1>14. e \in Event /\ e.kind = "committed" /\ e.probe = Count + 1 /\ e.ref = 0
  <2>1. "committed" \in Kinds /\ 0 \in 0..MaxEvents
    BY MaxEventsAssumption DEF Kinds
  <2> QED BY <2>1, <1>7, <1>12 DEF Says, Event, Probe
<1>15. e.ref \in 0..Len(timeline)
  BY <1>3, <1>14, PastIsBounded
<1>16. Grows(new, e) /\ Grown
  BY <1>3, <1>8, <1>13, <1>14, <1>15, TransitionGrows
<1>17. new.probe = [NoProbe EXCEPT !.id = Count + 1, !.status = "committed"]
  BY <1>5, <1>10, <1>13
<1> QED BY <1>3, <1>4, <1>9, <1>10, <1>13, <1>14, <1>16, <1>17, MaxEventsAssumption, HistoryOfCommit

LEMMA WriteCompare ==
  ASSUME IInv, NEW a \in Agents, NEW mismatch \in BOOLEAN, CompareProbe(a, mismatch)
  PROVE  HistoryInv' /\ Grown
<1>1. PICK copy : copy = op[a].copy
  OBVIOUS
<1>2. Proceed(a, "compare") /\ "compare" \in Operations
  BY DEF CompareProbe, Operations
<1>3. /\ HistoryInv /\ copy \in Case /\ copy.probe \in Probe
      /\ Exact(copy) /\ Allowed("compare", copy)
  BY <1>1, <1>2, WriterHolds
<1>4. copy.probe.status = "observed"
  BY <1>3 DEF Allowed
<1>5. PICK new : new = [copy EXCEPT !.probe = NoProbe,
                                    !.mismatch = IF mismatch THEN NextEvent ELSE @]
  OBVIOUS
<1>6. PICK e : e = [Says("compared", copy.probe, NoOne, copy.probe.seen)
                      EXCEPT !.material = mismatch]
  OBVIOUS
<1>7. Transition(copy, new, e)
  BY <1>1, <1>5, <1>6 DEF CompareProbe
<1>8. copy = case
  BY <1>3, <1>7 DEF Transition, Exact
<1>9. NextEvent \in 0..MaxEvents
  <2>1. NextEvent <= MaxEvents
    BY <1>7 DEF Transition
  <2> QED BY <2>1, <1>3, HistoryFacts, LenProperties, MaxEventsAssumption DEF NextEvent
<1>10. /\ new \in Case /\ new.probe = NoProbe
       /\ new.mismatch = IF mismatch THEN NextEvent ELSE copy.mismatch
  BY <1>3, <1>5, <1>9, NoProbeIsProbe DEF Case
<1>11. /\ e \in Event /\ e.kind = "compared" /\ e.probe = copy.probe.id
       /\ e.ref = copy.probe.seen /\ e.material = mismatch
  <2>1. "compared" \in Kinds
    BY DEF Kinds
  <2> QED BY <2>1, <1>3, <1>6 DEF Says, Event, Probe
<1>12. e.ref \in 0..Len(timeline)
  BY <1>3, <1>8, <1>11, SeenIsPast
<1>13. Grows(new, e) /\ Grown
  BY <1>3, <1>7, <1>10, <1>11, <1>12, TransitionGrows
<1> QED BY <1>3, <1>4, <1>8, <1>10, <1>11, <1>13, MaxEventsAssumption, HistoryOfCompare

LEMMA WriteDiscard ==
  ASSUME IInv, NEW a \in Agents, DiscardProbe(a)
  PROVE  HistoryInv' /\ Grown
<1>1. PICK copy : copy = op[a].copy
  OBVIOUS
<1>2. Proceed(a, "discard") /\ "discard" \in Operations
  BY DEF DiscardProbe, Operations
<1>3. HistoryInv /\ copy \in Case /\ copy.probe \in Probe /\ Exact(copy)
  BY <1>1, <1>2, WriterHolds
<1>4. PICK new : new = [copy EXCEPT !.probe = NoProbe]
  OBVIOUS
<1>5. PICK e : e = Says("discarded", copy.probe, NoOne, copy.probe.seen)
  OBVIOUS
<1>6. Transition(copy, new, e)
  BY <1>1, <1>4, <1>5 DEF DiscardProbe
<1>7. copy = case
  BY <1>3, <1>6 DEF Transition, Exact
<1>8. new \in Case /\ new.probe = NoProbe /\ new.mismatch = copy.mismatch
  BY <1>3, <1>4, NoProbeIsProbe DEF Case
<1>9. e \in Event /\ e.kind = "discarded" /\ e.probe = copy.probe.id /\ e.ref = copy.probe.seen
  <2>1. "discarded" \in Kinds
    BY DEF Kinds
  <2> QED BY <2>1, <1>3, <1>5 DEF Says, Event, Probe
<1>10. e.ref \in 0..Len(timeline)
  BY <1>3, <1>7, <1>9, SeenIsPast
<1>11. Grows(new, e) /\ Grown
  BY <1>3, <1>6, <1>8, <1>9, <1>10, TransitionGrows
<1> QED BY <1>3, <1>7, <1>8, <1>9, <1>11, MaxEventsAssumption, HistoryOfDiscard

LEMMA WriteRevise ==
  ASSUME IInv, NEW a \in Agents, Revise(a)
  PROVE  HistoryInv' /\ Grown
<1>1. PICK copy : copy = op[a].copy
  OBVIOUS
<1>2. Proceed(a, "revise") /\ "revise" \in Operations
  BY DEF Revise, Operations
<1>3. HistoryInv /\ copy \in Case /\ Exact(copy) /\ Allowed("revise", copy)
  BY <1>1, <1>2, WriterHolds
<1>4. copy.probe = NoProbe
  BY <1>3 DEF Allowed
<1>5. PICK new : new = [copy EXCEPT !.mismatch = 0]
  OBVIOUS
<1>6. PICK e : e = Says("revised", NoProbe, NoOne, copy.mismatch)
  OBVIOUS
<1>7. Transition(copy, new, e)
  BY <1>1, <1>5, <1>6 DEF Revise
<1>8. copy = case
  BY <1>3, <1>7 DEF Transition, Exact
<1>9. new \in Case /\ new.probe = NoProbe /\ new.mismatch = 0
  BY <1>3, <1>4, <1>5, MaxEventsAssumption DEF Case
<1>10. e \in Event /\ e.kind = "revised" /\ e.probe = 0 /\ e.ref = copy.mismatch
  <2>1. "revised" \in Kinds
    BY DEF Kinds
  <2>2. copy.mismatch \in 0..MaxEvents
    BY <1>3 DEF Case
  <2> QED BY <2>1, <2>2, <1>6, NoProbeIsProbe DEF Says, Event
<1>11. e.ref \in 0..Len(timeline)
  <2>1. Materials \ Cited("revised") = {case.mismatch} \ {0}
    BY <1>3, HistoryFacts, AccountingIsSets
  <2>2. Materials \subseteq 0..Len(timeline)
    BY <1>3, HistoryFacts, LenProperties DEF Materials, EventsOf
  <2>3. 0 \in 0..Len(timeline)
    BY <1>3, PastIsBounded
  <2> QED BY <2>1, <2>2, <2>3, <1>8, <1>10
<1>12. Grows(new, e) /\ Grown
  BY <1>3, <1>7, <1>9, <1>10, <1>11, TransitionGrows
<1> QED BY <1>3, <1>4, <1>8, <1>9, <1>10, <1>12, MaxEventsAssumption, HistoryOfRevise

(* Pauses, resumes and notes change nothing the probe depends on.          *)
LEMMA WriteQuiet ==
  ASSUME HistoryInv, NEW copy \in Case, Exact(copy), NEW kind,
         kind \in {"note", "case_paused", "case_resumed"},
         NEW new \in Case, new.probe = copy.probe, new.mismatch = copy.mismatch,
         Transition(copy, new, Says(kind, NoProbe, NoOne, 0))
  PROVE  HistoryInv' /\ Grown
<1>1. PICK e : e = Says(kind, NoProbe, NoOne, 0)
  OBVIOUS
<1>2. e \in Event /\ e.kind = kind /\ e.probe = 0 /\ e.ref = 0
  <2>1. kind \in Kinds /\ 0 \in 0..MaxEvents
    BY MaxEventsAssumption DEF Kinds
  <2> QED BY <2>1, <1>1, NoProbeIsProbe DEF Says, Event
<1>3. e.ref \in 0..Len(timeline)
  BY <1>2, PastIsBounded
<1>4. copy = case /\ Grows(new, e) /\ Grown
  BY <1>1, <1>2, <1>3, TransitionGrows
<1> QED BY <1>2, <1>4, MaxEventsAssumption, HistoryOfQuiet

LEMMA WritePause ==
  ASSUME IInv, NEW a \in Agents, PauseSettled(a)
  PROVE  HistoryInv' /\ Grown
<1>1. PICK copy : copy = op[a].copy
  OBVIOUS
<1>2. Proceed(a, "pause") /\ "pause" \in Operations
  BY DEF PauseSettled, Operations
<1>3. HistoryInv /\ copy \in Case /\ Exact(copy)
  BY <1>1, <1>2, WriterHolds
<1>4. PICK new : new = [copy EXCEPT !.status = "paused"]
  OBVIOUS
<1>5. new \in Case /\ new.probe = copy.probe /\ new.mismatch = copy.mismatch
  BY <1>3, <1>4 DEF Case
<1>6. Transition(copy, new, Says("case_paused", NoProbe, NoOne, 0))
  BY <1>1, <1>4 DEF PauseSettled
<1> QED BY <1>3, <1>5, <1>6, WriteQuiet

LEMMA WriteLifecycle ==
  ASSUME HistoryInv, LifecyclePause \/ Resume \/ Note
  PROVE  HistoryInv' /\ Grown
<1>1. case \in Case
  BY HistoryFacts
<1>2. Exact(case)
  <2>1. case.revision \in Nat
    BY <1>1, MaxEventsAssumption DEF Case
  <2> QED BY <2>1 DEF Exact
<1>3. CASE LifecyclePause
  <2>1. PICK new : new = [case EXCEPT !.status = "paused"]
    OBVIOUS
  <2>2. new \in Case /\ new.probe = case.probe /\ new.mismatch = case.mismatch
    BY <1>1, <2>1 DEF Case
  <2>3. Transition(case, new, Says("case_paused", NoProbe, NoOne, 0))
    BY <1>3, <2>1 DEF LifecyclePause
  <2> QED BY <1>1, <1>2, <2>2, <2>3, WriteQuiet
<1>4. CASE Resume
  <2>1. PICK new : new = [case EXCEPT !.status = "active"]
    OBVIOUS
  <2>2. new \in Case /\ new.probe = case.probe /\ new.mismatch = case.mismatch
    BY <1>1, <2>1 DEF Case
  <2>3. Transition(case, new, Says("case_resumed", NoProbe, NoOne, 0))
    BY <1>4, <2>1 DEF Resume
  <2> QED BY <1>1, <1>2, <2>2, <2>3, WriteQuiet
<1>5. CASE Note
  <2>1. Transition(case, case, Says("note", NoProbe, NoOne, 0))
    BY <1>5 DEF Note
  <2> QED BY <1>1, <1>2, <2>1, WriteQuiet
<1> QED BY <1>3, <1>4, <1>5

LEMMA WriteRecover ==
  ASSUME IInv, NEW a \in Agents, RecoverProbe(a)
  PROVE  HistoryInv' /\ Grown
<1>1. Proceed(a, "recover") /\ "recover" \in Operations
  BY DEF RecoverProbe, Operations
<1>2. /\ HistoryInv /\ op[a].copy \in Case /\ Exact(op[a].copy)
      /\ Allowed("recover", op[a].copy)
  BY <1>1, WriterHolds
<1>3. op[a].copy.probe.status = "executing"
  BY <1>2 DEF Allowed
<1>4. Capture(op[a].copy, NoOne, FALSE)
  BY DEF RecoverProbe
<1> QED BY <1>2, <1>3, <1>4, WriteCapture

LEMMA WriteByFrame ==
  ASSUME IInv, NEW d \in Dispatches, CaptureReturned(d) \/ PersistUnknown(d)
  PROVE  HistoryInv' /\ Grown
<1>1. PICK native \in BOOLEAN : Capture(call[d].copy, d, native)
  BY DEF CaptureReturned, PersistUnknown
<1>2. call[d].pc \in {"returned", "recording"}
  BY DEF CaptureReturned, PersistUnknown
<1>3. HistoryInv /\ call[d].copy \in Case /\ Exact(call[d].copy)
  BY DEF IInv, TypeOK, FrameHolds
<1>4. call[d].copy.probe.status = "executing" /\ call[d].copy.probe.by = d
  BY <1>2 DEF IInv, FrameHolds
<1> QED BY <1>1, <1>3, <1>4, WriteCapture

LEMMA WriteByHook ==
  ASSUME IInv, NEW d \in Dispatches, HookCapture(d)
  PROVE  HistoryInv' /\ Grown
<1>1. Capture(hook[d].copy, d, TRUE) /\ hook[d].pc = "armed"
  BY DEF HookCapture
<1>2. HistoryInv /\ hook[d].copy \in Case /\ Exact(hook[d].copy)
  BY DEF IInv, TypeOK, HookHolds
<1>3. hook[d].copy.probe.status = "executing" /\ hook[d].copy.probe.by = d
  BY <1>1 DEF IInv, HookHolds
<1> QED BY <1>1, <1>2, <1>3, WriteCapture

-----------------------------------------------------------------------------
(* Everyone else: what a step leaves of the other actors' positions.       *)

(* The case and the history stay, or one transition was written.           *)
Later == UNCHANGED <<case, timeline>> \/ Grown

(* A dispatch that has begun an action does not begin again.               *)
CallsGoOn ==
  \A d \in Dispatches :
    /\ call[d].pc \in Begun => call'[d].pc \in Begun
    /\ call[d].pc = "done" => call'[d].pc = "done"

FrameType == [pc : Frames, native : BOOLEAN, captured : BOOLEAN, copy : Case]
HookType == [pc : {"idle", "capture", "armed", "expose"}, copy : Case]
OpType == [pc : {"idle", "read", "probing", "checked"},
           what : Operations, copy : Case, id : Nat]

LEMMA TypeFacts ==
  ASSUME TypeOK
  PROVE  /\ case \in Case /\ timeline \in Seq(Event)
         /\ lease \in Dispatches \cup Agents \cup {NoOne}
         /\ call \in [Dispatches -> FrameType]
         /\ hook \in [Dispatches -> HookType]
         /\ op \in [Agents -> OpType]
BY DEF TypeOK, FrameType, HookType, OpType

(* A copy taken before stays a true copy, or is out of date for ever.      *)
LEMMA ExactLater ==
  ASSUME case \in Case, NEW c \in Case, Exact(c), Later
  PROVE  /\ c.revision <= case'.revision
         /\ c.revision = case'.revision => case' = c /\ UNCHANGED <<case, timeline>>
<1>1. case.revision \in Nat /\ c.revision \in Nat
  BY MaxEventsAssumption DEF Case
<1>2. CASE UNCHANGED <<case, timeline>>
  BY <1>1, <1>2 DEF Exact, Current
<1>3. CASE Grown
  <2>1. case'.revision = case.revision + 1 /\ c.revision <= case.revision
    BY <1>3 DEF Grown, Exact
  <2> QED BY <2>1, <1>1
<1> QED BY <1>2, <1>3 DEF Later

LEMMA StartedLater ==
  ASSUME Later, NEW id, NEW d, StartedBy(id, d)
  PROVE  StartedBy(id, d)'
<1>1. CASE UNCHANGED <<case, timeline>>
  BY <1>1 DEF StartedBy, EventsOf
<1>2. CASE Grown
  BY <1>2 DEF Grown
<1> QED BY <1>1, <1>2 DEF Later

LEMMA OtherFrame ==
  ASSUME IInv, Later, NEW x \in Dispatches,
         call'[x].pc = call[x].pc, call'[x].copy = call[x].copy, lease = x => lease' = x
  PROVE  FrameHolds(x)'
<1>1. PICK f : f = call[x]
  OBVIOUS
<1>2. case \in Case /\ f.copy \in Case /\ FrameHolds(x)
  BY <1>1 DEF IInv, TypeOK
<1>3. Exact(f.copy)
  BY <1>1, <1>2 DEF FrameHolds
<1>4. /\ f.copy.revision <= case'.revision
      /\ f.copy.revision = case'.revision => case' = f.copy
  BY <1>2, <1>3, ExactLater
<1>5. f.pc \in {"running", "returned", "recording"} => StartedBy(f.copy.probe.id, x)
  BY <1>1, <1>2 DEF FrameHolds
<1>6. f.pc \in {"running", "returned", "recording"} =>
        \E i \in EventsOf("started")' : timeline'[i].probe = f.copy.probe.id /\ timeline'[i].by = x
  <2>1. HAVE f.pc \in {"running", "returned", "recording"}
  <2>2. PICK id : id = f.copy.probe.id
    OBVIOUS
  <2>3. StartedBy(id, x)'
    BY <2>1, <2>2, <1>5, StartedLater
  <2> QED BY <2>2, <2>3 DEF StartedBy
<1>7. call'[x].pc = f.pc /\ call'[x].copy = f.copy
  BY <1>1
<1>8. Exact(call[x].copy)'
  BY <1>4, <1>7 DEF Exact, Current
<1>9. f.pc \in {"claimed", "armed", "running", "returned", "recording"} => lease' = x
  BY <1>1, <1>2 DEF FrameHolds
<1>10. f.pc = "armed" => f.copy.probe.status = "committed"
  BY <1>1, <1>2 DEF FrameHolds
<1>11. f.pc \in {"running", "returned", "recording"} =>
         f.copy.probe.status = "executing" /\ f.copy.probe.by = x
  BY <1>1, <1>2 DEF FrameHolds
<1>12. (call[x].pc \in {"running", "returned", "recording"} => StartedBy(call[x].copy.probe.id, x))'
  BY <1>6, <1>7 DEF StartedBy
<1> QED BY <1>7, <1>8, <1>9, <1>10, <1>11, <1>12 DEF FrameHolds

LEMMA OtherHook ==
  ASSUME IInv, Later, NEW x \in Dispatches, hook'[x].copy = hook[x].copy,
         hook'[x].pc \in {hook[x].pc, "idle"}
  PROVE  HookHolds(x)'
<1>1. PICK c : c = hook[x].copy
  OBVIOUS
<1>2. case \in Case /\ c \in Case /\ HookHolds(x)
  BY <1>1 DEF IInv, TypeOK
<1>3. Exact(c)
  BY <1>1, <1>2 DEF HookHolds
<1>4. c.revision <= case'.revision /\ (c.revision = case'.revision => case' = c)
  BY <1>2, <1>3, ExactLater
<1>5. Exact(hook[x].copy)'
  BY <1>1, <1>4 DEF Exact, Current
<1> QED BY <1>2, <1>5 DEF HookHolds

LEMMA OtherTool ==
  ASSUME IInv, Later, CallsGoOn, NEW x \in Agents, op'[x] = op[x], lease = x => lease' = x
  PROVE  ToolHolds(x)'
<1>1. PICK o : o = op[x]
  OBVIOUS
<1>2. case \in Case /\ o.copy \in Case /\ ToolHolds(x) /\ op'[x] = o
  BY <1>1 DEF IInv, TypeOK
<1>3. SUFFICES ASSUME o.pc # "idle" PROVE ToolHolds(x)'
  BY <1>2 DEF ToolHolds
<1>4. Exact(o.copy)
  BY <1>1, <1>2, <1>3 DEF ToolHolds
<1>5. /\ o.copy.revision <= case'.revision
      /\ o.copy.revision = case'.revision => case' = o.copy /\ UNCHANGED <<case, timeline>>
  BY <1>2, <1>4, ExactLater
<1>6. (Exact(op[x].copy))'
  BY <1>2, <1>5 DEF Exact, Current
<1>7. (Allowed(op[x].what, op[x].copy))'
  <2>1. Allowed(o.what, o.copy)
    BY <1>1, <1>2, <1>3 DEF ToolHolds
  <2> QED BY <2>1, <1>2 DEF Allowed
<1>8. (ExecutorBegun(op[x].copy))'
  <2>1. ExecutorBegun(o.copy)
    BY <1>1, <1>2, <1>3 DEF ToolHolds
  <2> QED BY <2>1, <1>2 DEF ExecutorBegun, CallsGoOn
<1>9. o.pc = "probing" => lease' = x /\ NeedsLease(x)'
  BY <1>1, <1>2, <1>3 DEF ToolHolds, NeedsLease
<1>10. o.pc \in {"probing", "checked"} /\ NeedsLease(x)' => call'[o.copy.probe.by].pc = "done"
  <2>1. HAVE o.pc \in {"probing", "checked"} /\ NeedsLease(x)'
  <2>2. NeedsLease(x) /\ o.copy.probe.status = "executing"
    BY <2>1, <1>1, <1>2 DEF NeedsLease
  <2>3. call[o.copy.probe.by].pc = "done" /\ ExecutorBegun(o.copy)
    BY <2>1, <2>2, <1>1, <1>2, <1>3 DEF ToolHolds
  <2>4. o.copy.probe.by \in Dispatches
    BY <2>2, <2>3 DEF ExecutorBegun
  <2> QED BY <2>3, <2>4 DEF CallsGoOn
<1>11. o.pc = "checked" /\ o.what = "commit" /\ o.copy.revision = case'.revision =>
         o.id = Count' + 1 /\ case'.mismatch = 0
  <2>1. HAVE o.pc = "checked" /\ o.what = "commit" /\ o.copy.revision = case'.revision
  <2>2. UNCHANGED <<case, timeline>>
    BY <2>1, <1>5
  <2>3. Current(o.copy)
    BY <2>1, <2>2 DEF Current
  <2>4. o.id = Count + 1 /\ case.mismatch = 0
    BY <2>1, <2>3, <1>1, <1>2, <1>3 DEF ToolHolds
  <2>5. Count' = Count
    BY <2>2 DEF Count, EventsOf
  <2> QED BY <2>2, <2>4, <2>5
<1> QED BY <1>2, <1>6, <1>7, <1>8, <1>9, <1>10, <1>11 DEF ToolHolds, Current

LEMMA HistorySame ==
  ASSUME HistoryInv, UNCHANGED <<case, timeline>>
  PROVE  HistoryInv' /\ Later
BY DEF HistoryInv, Later, TimelineIsComplete, IdsAreCounted, Count, ProbeIsItsHistory, Results,
       StartedBy, OneExecutionOneCapture, AccountingFollowsCase, Uncompared, InvalidComparisons,
       Unaddressed, Observations, Cited, EventsOf

(* What the case says of its executor stays true of it.                    *)
SameExecutor == case'.probe = case.probe \/ case'.probe.status # "executing"

LEMMA ExecutorLater ==
  ASSUME ExecutorBegun(case), CallsGoOn, SameExecutor
  PROVE  ExecutorBegun(case)'
BY DEF ExecutorBegun, CallsGoOn, SameExecutor

(* A step of one frame: the others keep theirs.                            *)
LEMMA StepOfFrame ==
  ASSUME IInv, HistoryInv', Later,
         NEW d \in Dispatches, NEW f \in FrameType, call' = [call EXCEPT ![d] = f],
         call[d].pc \in Begun => f.pc \in Begun,
         call[d].pc = "done" => f.pc = "done",
         op' = op,
         hook' = hook \/ hook' = [hook EXCEPT ![d].pc = "idle"],
         lease' \in {lease, d, NoOne}, lease \notin {NoOne, d} => lease' = lease,
         FrameHolds(d)',
         \/ SameExecutor
         \/ case'.probe.by = d /\ f.pc \in Begun
  PROVE  IInv'
<1>1. /\ lease \in Dispatches \cup Agents \cup {NoOne}
      /\ call \in [Dispatches -> FrameType]
      /\ hook \in [Dispatches -> HookType]
      /\ op \in [Agents -> OpType]
  BY TypeFacts DEF IInv
<1>2. call' \in [Dispatches -> FrameType] /\ call'[d] = f
  BY <1>1
<1>3. \A x \in Dispatches : x # d => call'[x] = call[x]
  BY <1>1
<1>4. hook' \in [Dispatches -> HookType]
  BY <1>1 DEF HookType
<1>5. \A x \in Dispatches : hook'[x].copy = hook[x].copy /\ hook'[x].pc \in {hook[x].pc, "idle"}
  BY <1>1 DEF HookType
<1>6. TypeOK'
  <2>1. case' \in Case /\ timeline' \in Seq(Event)
    BY DEF HistoryInv
  <2>2. lease' \in Dispatches \cup Agents \cup {NoOne}
    BY <1>1
  <2>3. op' \in [Agents -> OpType]
    BY <1>1
  <2> QED BY <2>1, <2>2, <2>3, <1>2, <1>4 DEF TypeOK, FrameType, HookType, OpType
<1>7. CallsGoOn
  BY <1>2, <1>3 DEF CallsGoOn
<1>8. \A x \in Dispatches : FrameHolds(x)'
  <2>1. TAKE x \in Dispatches
  <2>2. CASE x = d
    BY <2>2
  <2>3. CASE x # d
    <3>1. x # NoOne
      BY ActorsAssumption
    <3>2. lease = x => lease' = x
      BY <3>1, <2>3
    <3> QED BY <3>2, <2>3, <1>3, OtherFrame
  <2> QED BY <2>2, <2>3
<1>9. \A x \in Dispatches : HookHolds(x)'
  BY <1>5, OtherHook
<1>10. \A a \in Agents : ToolHolds(a)'
  <2>1. TAKE a \in Agents
  <2>2. lease = a => lease' = a
    BY ActorsAssumption
  <2> QED BY <2>2, <1>7, OtherTool
<1>11. ExecutorBegun(case)'
  <2>1. CASE SameExecutor
    BY <2>1, <1>7, ExecutorLater DEF IInv
  <2>2. CASE case'.probe.by = d /\ f.pc \in Begun
    BY <2>2, <1>2 DEF ExecutorBegun
  <2> QED BY <2>1, <2>2
<1> QED BY <1>6, <1>8, <1>9, <1>10, <1>11 DEF IInv

(* A step of one callback.                                                 *)
LEMMA StepOfHook ==
  ASSUME IInv, HistoryInv', Later,
         NEW d \in Dispatches, NEW h \in HookType, hook' = [hook EXCEPT ![d] = h],
         call' = call \/ call' = [call EXCEPT ![d].captured = TRUE],
         op' = op, lease' = lease,
         HookHolds(d)',
         SameExecutor
  PROVE  IInv'
<1>1. /\ lease \in Dispatches \cup Agents \cup {NoOne}
      /\ call \in [Dispatches -> FrameType]
      /\ hook \in [Dispatches -> HookType]
      /\ op \in [Agents -> OpType]
  BY TypeFacts DEF IInv
<1>2. call' \in [Dispatches -> FrameType]
  BY <1>1 DEF FrameType
<1>3. \A x \in Dispatches : call'[x].pc = call[x].pc /\ call'[x].copy = call[x].copy
  BY <1>1 DEF FrameType
<1>4. hook' \in [Dispatches -> HookType] /\ \A x \in Dispatches : x # d => hook'[x] = hook[x]
  BY <1>1
<1>5. TypeOK'
  <2>1. case' \in Case /\ timeline' \in Seq(Event)
    BY DEF HistoryInv
  <2>2. op' \in [Agents -> OpType]
    BY <1>1
  <2> QED BY <2>1, <2>2, <1>1, <1>2, <1>4 DEF TypeOK, FrameType, HookType, OpType
<1>6. CallsGoOn
  BY <1>3 DEF CallsGoOn
<1>7. \A x \in Dispatches : FrameHolds(x)'
  BY <1>3, OtherFrame
<1>8. \A x \in Dispatches : HookHolds(x)'
  <2>1. TAKE x \in Dispatches
  <2>2. CASE x # d
    BY <2>2, <1>4, OtherHook
  <2> QED BY <2>2
<1>9. \A a \in Agents : ToolHolds(a)'
  BY <1>6, OtherTool
<1>10. ExecutorBegun(case)'
  BY <1>6, ExecutorLater DEF IInv
<1> QED BY <1>5, <1>7, <1>8, <1>9, <1>10 DEF IInv

(* A step of one tool operation.                                           *)
LEMMA StepOfTool ==
  ASSUME IInv, HistoryInv', Later,
         NEW a \in Agents, NEW o \in OpType, op' = [op EXCEPT ![a] = o],
         call' = call, hook' = hook,
         lease' \in {lease, a, NoOne}, lease \notin {NoOne, a} => lease' = lease,
         ToolHolds(a)',
         SameExecutor
  PROVE  IInv'
<1>1. /\ lease \in Dispatches \cup Agents \cup {NoOne}
      /\ call \in [Dispatches -> FrameType]
      /\ hook \in [Dispatches -> HookType]
      /\ op \in [Agents -> OpType]
  BY TypeFacts DEF IInv
<1>2. op' \in [Agents -> OpType] /\ \A x \in Agents : x # a => op'[x] = op[x]
  BY <1>1
<1>3. TypeOK'
  <2>1. case' \in Case /\ timeline' \in Seq(Event)
    BY DEF HistoryInv
  <2>2. lease' \in Dispatches \cup Agents \cup {NoOne}
    BY <1>1
  <2>3. call' \in [Dispatches -> FrameType] /\ hook' \in [Dispatches -> HookType]
    BY <1>1
  <2> QED BY <2>1, <2>2, <2>3, <1>2 DEF TypeOK, FrameType, HookType, OpType
<1>4. CallsGoOn
  BY DEF CallsGoOn
<1>5. \A x \in Dispatches : FrameHolds(x)'
  <2>1. TAKE x \in Dispatches
  <2>2. lease = x => lease' = x
    BY ActorsAssumption
  <2> QED BY <2>2, OtherFrame
<1>6. \A x \in Dispatches : HookHolds(x)'
  BY OtherHook
<1>7. \A x \in Agents : ToolHolds(x)'
  <2>1. TAKE x \in Agents
  <2>2. CASE x # a
    <3>1. x # NoOne
      BY ActorsAssumption
    <3>2. lease = x => lease' = x
      BY <3>1, <2>2
    <3> QED BY <3>2, <2>2, <1>2, <1>4, OtherTool
  <2> QED BY <2>2
<1>8. ExecutorBegun(case)'
  BY <1>4, ExecutorLater DEF IInv
<1> QED BY <1>3, <1>5, <1>6, <1>7, <1>8 DEF IInv

(* A step of the store alone, and a step of nobody.                        *)
LEMMA StepOfStore ==
  ASSUME IInv, HistoryInv', Later, UNCHANGED <<lease, call, hook, op>>, SameExecutor
  PROVE  IInv'
<1>1. TypeOK'
  <2>1. case' \in Case /\ timeline' \in Seq(Event)
    BY DEF HistoryInv
  <2> QED BY <2>1 DEF IInv, TypeOK
<1>2. CallsGoOn
  BY DEF CallsGoOn
<1>3. \A x \in Dispatches : FrameHolds(x)'
  BY OtherFrame
<1>4. \A x \in Dispatches : HookHolds(x)'
  BY OtherHook
<1>5. \A x \in Agents : ToolHolds(x)'
  BY <1>2, OtherTool
<1>6. ExecutorBegun(case)'
  BY <1>2, ExecutorLater DEF IInv
<1> QED BY <1>1, <1>3, <1>4, <1>5, <1>6 DEF IInv

-----------------------------------------------------------------------------
(* Every step keeps the invariant.                                         *)

LEMMA FrameTypes ==
  ASSUME IInv, NEW d \in Dispatches
  PROVE  /\ call \in [Dispatches -> FrameType] /\ call[d] \in FrameType
         /\ call[d].copy \in Case /\ call[d].pc \in Frames
         /\ hook \in [Dispatches -> HookType] /\ hook[d] \in HookType /\ hook[d].copy \in Case
         /\ case \in Case /\ case.probe \in Probe
         /\ HistoryInv /\ FrameHolds(d) /\ HookHolds(d) /\ ExecutorBegun(case)
<1>1. call \in [Dispatches -> FrameType] /\ hook \in [Dispatches -> HookType] /\ case \in Case
  BY TypeFacts DEF IInv
<1>2. call[d] \in FrameType /\ hook[d] \in HookType
  BY <1>1
<1>3. call[d].copy \in Case /\ call[d].pc \in Frames /\ hook[d].copy \in Case
  BY <1>2 DEF FrameType, HookType
<1>4. case.probe \in Probe
  BY <1>1 DEF Case
<1> QED BY <1>1, <1>2, <1>3, <1>4 DEF IInv

LEMMA CaseIsExact ==
  ASSUME case \in Case
  PROVE  Exact(case)
<1>1. case.revision \in Nat
  BY MaxEventsAssumption DEF Case
<1> QED BY <1>1 DEF Exact

(* A frame's step that writes nothing.                                     *)
LEMMA QuietFrame ==
  ASSUME IInv, UNCHANGED <<case, timeline>>,
         NEW d \in Dispatches, NEW f \in FrameType, call' = [call EXCEPT ![d] = f],
         call[d].pc \in Begun => f.pc \in Begun,
         call[d].pc = "done" => f.pc = "done",
         op' = op,
         hook' = hook \/ hook' = [hook EXCEPT ![d].pc = "idle"],
         lease' \in {lease, d, NoOne}, lease \notin {NoOne, d} => lease' = lease,
         Exact(f.copy),
         f.pc \in {"claimed", "armed", "running", "returned", "recording"} => lease' = d,
         f.pc = "armed" => f.copy.probe.status = "committed",
         f.pc \in {"running", "returned", "recording"} =>
           /\ f.copy.probe.status = "executing" /\ f.copy.probe.by = d
           /\ StartedBy(f.copy.probe.id, d)
  PROVE  IInv'
<1>1. HistoryInv' /\ Later
  BY HistorySame DEF IInv
<1>2. call'[d] = f
  BY FrameTypes
<1>3. FrameHolds(d)'
  <2>1. Exact(call[d].copy)'
    BY <1>2 DEF Exact, Current
  <2>2. (call[d].pc \in {"running", "returned", "recording"} => StartedBy(call[d].copy.probe.id, d))'
    BY <1>2 DEF StartedBy, EventsOf
  <2> QED BY <2>1, <2>2, <1>2 DEF FrameHolds
<1>4. SameExecutor
  BY DEF SameExecutor
<1> QED BY <1>1, <1>3, <1>4, StepOfFrame

LEMMA StepArrive ==
  ASSUME IInv, NEW d \in Dispatches, NEW native \in BOOLEAN, Arrive(d, native)
  PROVE  IInv'
<1>1. PICK f : f = [pc |-> "seen", native |-> native, captured |-> FALSE, copy |-> case]
  OBVIOUS
<1>2. f \in FrameType /\ f.pc = "seen" /\ f.copy = case
  BY <1>1, FrameTypes DEF FrameType, Frames
<1>3. call' = [call EXCEPT ![d] = f] /\ call[d].pc = "idle"
      /\ UNCHANGED <<case, timeline, lease, hook, op>>
  BY <1>1 DEF Arrive
<1>4. Exact(f.copy)
  BY <1>2, FrameTypes, CaseIsExact
<1> QED BY <1>2, <1>3, <1>4, QuietFrame DEF Begun

LEMMA FrameAtIs ==
  ASSUME IInv, NEW d \in Dispatches, NEW pc \in Frames, Frame(d, pc)
  PROVE  \E f \in FrameType :
           call' = [call EXCEPT ![d] = f] /\ f.pc = pc /\ f.copy = call[d].copy
<1>1. call[d] \in FrameType
  BY FrameTypes
<1>2. PICK f : f = [call[d] EXCEPT !.pc = pc]
  OBVIOUS
<1>3. f \in FrameType /\ f.pc = pc /\ f.copy = call[d].copy
  BY <1>1, <1>2 DEF FrameType
<1>4. call' = [call EXCEPT ![d] = f]
  BY <1>2 DEF Frame
<1> QED BY <1>3, <1>4

LEMMA StepClaim ==
  ASSUME IInv, NEW d \in Dispatches, Claim(d)
  PROVE  IInv'
<1>1. call[d].pc = "seen" /\ UNCHANGED <<case, timeline, hook, op>>
  BY DEF Claim
<1>2. Exact(call[d].copy) /\ d # NoOne
  BY FrameTypes, ActorsAssumption DEF FrameHolds
<1>3. CASE lease = NoOne /\ lease' = d /\ Frame(d, "claimed")
  <2>1. "claimed" \in Frames
    BY DEF Frames
  <2>2. PICK f \in FrameType :
          call' = [call EXCEPT ![d] = f] /\ f.pc = "claimed" /\ f.copy = call[d].copy
    BY <2>1, <1>3, FrameAtIs
  <2> QED BY <2>2, <1>1, <1>2, <1>3, QuietFrame DEF Begun
<1>4. CASE lease # NoOne /\ Frame(d, "done") /\ UNCHANGED lease
  <2>1. "done" \in Frames
    BY DEF Frames
  <2>2. PICK f \in FrameType :
          call' = [call EXCEPT ![d] = f] /\ f.pc = "done" /\ f.copy = call[d].copy
    BY <2>1, <1>4, FrameAtIs
  <2> QED BY <2>2, <1>1, <1>2, <1>4, QuietFrame DEF Begun
<1> QED BY <1>3, <1>4 DEF Claim

(* A frame that ends frees its own lease, never another's.                 *)
LEMMA FrameEnds ==
  ASSUME IInv, NEW d \in Dispatches, Frame(d, "done"),
         UNCHANGED <<case, timeline, op>>,
         hook' = hook \/ hook' = [hook EXCEPT ![d].pc = "idle"],
         lease' \in {lease, NoOne}, lease # d => lease' = lease
  PROVE  IInv'
<1>1. "done" \in Frames
  BY DEF Frames
<1>2. PICK f \in FrameType :
        call' = [call EXCEPT ![d] = f] /\ f.pc = "done" /\ f.copy = call[d].copy
  BY <1>1, FrameAtIs
<1>3. Exact(call[d].copy)
  BY FrameTypes DEF FrameHolds
<1> QED BY <1>2, <1>3, QuietFrame DEF Begun

LEMMA StepReread ==
  ASSUME IInv, NEW d \in Dispatches, Reread(d)
  PROVE  IInv'
<1>1. call[d].pc = "claimed" /\ UNCHANGED <<case, timeline, hook, op>>
  BY DEF Reread
<1>2. lease = d
  BY <1>1, FrameTypes DEF FrameHolds
<1>3. CASE /\ case.probe.status = "committed"
           /\ call' = [call EXCEPT ![d].pc = "armed", ![d].copy = case]
           /\ UNCHANGED lease
  <2>1. PICK f : f = [call[d] EXCEPT !.pc = "armed", !.copy = case]
    OBVIOUS
  <2>2. f \in FrameType /\ f.pc = "armed" /\ f.copy = case
    BY <2>1, FrameTypes DEF FrameType, Frames
  <2>3. call' = [call EXCEPT ![d] = f]
    BY <2>1, <1>3, FrameTypes
  <2>4. Exact(f.copy)
    BY <2>2, FrameTypes, CaseIsExact
  <2> QED BY <2>2, <2>3, <2>4, <1>1, <1>2, <1>3, QuietFrame DEF Begun
<1>4. CASE Frame(d, "done") /\ lease' = NoOne
  BY <1>1, <1>2, <1>4, FrameEnds
<1> QED BY <1>3, <1>4 DEF Reread

LEMMA StepReturn ==
  ASSUME IInv, NEW d \in Dispatches, Return(d)
  PROVE  IInv'
<1>1. call[d].pc = "running" /\ Frame(d, "returned") /\ UNCHANGED <<case, timeline, lease, hook, op>>
  BY DEF Return
<1>2. /\ lease = d /\ Exact(call[d].copy)
      /\ call[d].copy.probe.status = "executing" /\ call[d].copy.probe.by = d
      /\ StartedBy(call[d].copy.probe.id, d)
  BY <1>1, FrameTypes DEF FrameHolds
<1>3. "returned" \in Frames
  BY DEF Frames
<1>4. PICK f \in FrameType :
        call' = [call EXCEPT ![d] = f] /\ f.pc = "returned" /\ f.copy = call[d].copy
  BY <1>1, <1>3, FrameAtIs
<1> QED BY <1>1, <1>2, <1>4, QuietFrame DEF Begun

LEMMA StepFinish ==
  ASSUME IInv, NEW d \in Dispatches, Finish(d)
  PROVE  IInv'
<1>1. call[d].pc \in {"returned", "recording"}
  BY DEF Finish
<1>2. lease = d
  BY <1>1, FrameTypes DEF FrameHolds
<1> QED BY <1>2, FrameEnds DEF Finish

LEMMA StepCrash ==
  ASSUME IInv, NEW d \in Dispatches, Crash(d)
  PROVE  IInv'
BY FrameEnds DEF Crash

(* The frame's last attempt reads the case of the action it ran.           *)
LEMMA MayCaptureIsOwn ==
  ASSUME IInv, NEW d \in Dispatches, MayCapture(d)
  PROVE  /\ call[d].pc \in {"running", "returned", "recording"}
         /\ case.probe.status = "executing" /\ case.probe.by = d
         /\ StartedBy(case.probe.id, d)
<1>1. call[d].pc \in {"running", "returned", "recording"}
  BY DEF MayCapture, Live
<1>2. StartedBy(call[d].copy.probe.id, d)
  BY <1>1, FrameTypes DEF FrameHolds
<1>3. case.probe.status = "executing" /\ case.probe.id = call[d].copy.probe.id
  BY DEF MayCapture
<1>4. case.probe.by = d
  BY <1>2, <1>3, FrameTypes, ActorsAssumption, OneStarter
<1> QED BY <1>1, <1>2, <1>3, <1>4

LEMMA StepRecordUnknown ==
  ASSUME IInv, NEW d \in Dispatches, RecordUnknown(d)
  PROVE  IInv'
<1>1. /\ call[d].pc = "returned" /\ MayCapture(d)
      /\ call' = [call EXCEPT ![d].pc = "recording", ![d].copy = case]
      /\ UNCHANGED <<case, timeline, lease, hook, op>>
  BY DEF RecordUnknown
<1>2. lease = d
  BY <1>1, FrameTypes DEF FrameHolds
<1>3. PICK f : f = [call[d] EXCEPT !.pc = "recording", !.copy = case]
  OBVIOUS
<1>4. f \in FrameType /\ f.pc = "recording" /\ f.copy = case
  BY <1>3, FrameTypes DEF FrameType, Frames
<1>5. call' = [call EXCEPT ![d] = f]
  BY <1>1, <1>3, FrameTypes
<1>6. Exact(f.copy)
  BY <1>4, FrameTypes, CaseIsExact
<1>7. /\ case.probe.status = "executing" /\ case.probe.by = d
      /\ StartedBy(case.probe.id, d)
  BY <1>1, MayCaptureIsOwn
<1> QED BY <1>1, <1>2, <1>4, <1>5, <1>6, <1>7, QuietFrame DEF Begun

(* A copy whose revision a transition has left behind is out of date.      *)
LEMMA CopyLater ==
  ASSUME case \in Case, NEW c \in Case, Exact(c), Later
  PROVE  Exact(c)'
<1>1. c.revision <= case'.revision /\ (c.revision = case'.revision => case' = c)
  BY ExactLater
<1> QED BY <1>1 DEF Exact, Current

LEMMA StepStart ==
  ASSUME IInv, NEW d \in Dispatches, Start(d)
  PROVE  IInv'
<1>1. call[d].pc = "armed" /\ UNCHANGED <<hook, op>>
  BY DEF Start
<1>2. lease = d /\ call[d].copy.probe.status = "committed" /\ Exact(call[d].copy)
  BY <1>1, FrameTypes DEF FrameHolds
<1>3. CASE ~Current(call[d].copy)
  <2>1. Frame(d, "done") /\ lease' = NoOne /\ UNCHANGED <<case, timeline>>
    BY <1>3 DEF Start, Transition
  <2> QED BY <2>1, <1>1, <1>2, FrameEnds
<1>4. CASE Current(call[d].copy)
  <2>1. HistoryInv' /\ Grown
    BY <1>4, WriteStart
  <2>2. Later
    BY <2>1 DEF Later
  <2>3. PICK copy : copy = call[d].copy
    OBVIOUS
  <2>4. PICK probe : probe = [copy.probe EXCEPT !.status = "executing", !.by = d]
    OBVIOUS
  <2>5. /\ Transition(copy, [copy EXCEPT !.probe = probe], Says("started", probe, d, 0))
        /\ call' = [call EXCEPT ![d].pc = "running", ![d].copy = case']
        /\ UNCHANGED lease
    BY <1>4, <2>3, <2>4 DEF Start
  <2>6. copy \in Case /\ copy.probe \in Probe
    BY <2>3, FrameTypes DEF Case
  <2>7. case' = [[copy EXCEPT !.probe = probe] EXCEPT !.revision = case.revision + 1]
    BY <2>5 DEF Transition
  <2>8. case'.probe = probe
    BY <2>6, <2>7 DEF Case
  <2>9. probe.status = "executing" /\ probe.by = d /\ probe.id = copy.probe.id
    BY <2>4, <2>6 DEF Probe
  <2>10. PICK f : f = [call[d] EXCEPT !.pc = "running", !.copy = case']
    OBVIOUS
  <2>11. case' \in Case
    BY <2>1 DEF Grown
  <2>12. f \in FrameType /\ f.pc = "running" /\ f.copy = case'
    BY <2>10, <2>11, FrameTypes DEF FrameType, Frames
  <2>13. call' = [call EXCEPT ![d] = f]
    BY <2>5, <2>10, FrameTypes
  <2>14. call'[d] = f
    BY <2>13, FrameTypes
  <2>15. StartedBy(case.probe.id, case.probe.by)'
    <3>1. HistoryInv' /\ case'.probe.status = "executing"
      BY <2>1, <2>8, <2>9
    <3> QED BY <3>1 DEF HistoryInv, ProbeIsItsHistory
  <2>16. FrameHolds(d)'
    <3>1. Exact(call[d].copy)'
      <4>1. case'.revision \in Nat
        BY <2>11, MaxEventsAssumption DEF Case
      <4> QED BY <4>1, <2>12, <2>14 DEF Exact, Current
    <3>2. lease' = d
      BY <1>2, <2>5
    <3>3. StartedBy(call[d].copy.probe.id, d)'
      BY <2>8, <2>9, <2>12, <2>14, <2>15 DEF StartedBy
    <3>4. call'[d].pc = "running" /\ call'[d].copy.probe.status = "executing"
          /\ call'[d].copy.probe.by = d
      BY <2>8, <2>9, <2>12, <2>14
    <3> QED BY <3>1, <3>2, <3>3, <3>4 DEF FrameHolds
  <2>17. case'.probe.by = d
    BY <2>8, <2>9
  <2> QED BY <1>1, <1>2, <2>1, <2>2, <2>5, <2>12, <2>13, <2>16, <2>17, StepOfFrame DEF Begun
<1> QED BY <1>3, <1>4

LEMMA CaptureObserves ==
  ASSUME NEW copy \in Case, NEW by, NEW native, Capture(copy, by, native)
  PROVE  case'.probe.status = "observed" /\ SameExecutor
<1>1. PICK probe : probe = [copy.probe EXCEPT !.status = "observed", !.native = native,
                                              !.seen = NextEvent]
  OBVIOUS
<1>2. case' = [[copy EXCEPT !.probe = probe] EXCEPT !.revision = case.revision + 1]
  BY <1>1 DEF Capture, Transition
<1>3. copy.probe \in Probe
  BY DEF Case
<1>4. probe.status = "observed"
  BY <1>1, <1>3 DEF Probe
<1>5. case'.probe = probe
  BY <1>2 DEF Case
<1> QED BY <1>4, <1>5 DEF SameExecutor

LEMMA StepCapture ==
  ASSUME IInv, NEW d \in Dispatches, CaptureReturned(d) \/ PersistUnknown(d)
  PROVE  IInv'
<1>1. HistoryInv' /\ Later
  BY WriteByFrame DEF Later
<1>2. call[d].pc \in {"returned", "recording"} /\ lease' = NoOne /\ UNCHANGED <<hook, op>>
  BY DEF CaptureReturned, PersistUnknown
<1>3. lease = d /\ Exact(call[d].copy)
  BY <1>2, FrameTypes DEF FrameHolds
<1>4. SameExecutor
  BY FrameTypes, CaptureObserves DEF CaptureReturned, PersistUnknown
<1>5. \E f \in FrameType :
        call' = [call EXCEPT ![d] = f] /\ f.pc = "done" /\ f.copy = call[d].copy
  <2>1. CASE CaptureReturned(d)
    <3>1. Frame(d, "done") /\ "done" \in Frames
      BY <2>1 DEF CaptureReturned, Frames
    <3> QED BY <3>1, FrameAtIs
  <2>2. CASE PersistUnknown(d)
    <3>1. PICK f : f = [call[d] EXCEPT !.pc = "done", !.captured = TRUE]
      OBVIOUS
    <3>2. f \in FrameType /\ f.pc = "done" /\ f.copy = call[d].copy
      BY <3>1, FrameTypes DEF FrameType, Frames
    <3>3. call' = [call EXCEPT ![d].pc = "done", ![d].captured = TRUE]
      BY <2>2 DEF PersistUnknown
    <3>4. call' = [call EXCEPT ![d] = f]
      BY <3>1, <3>3, FrameTypes
    <3> QED BY <3>2, <3>4
  <2> QED BY <2>1, <2>2
<1>6. PICK f \in FrameType :
        call' = [call EXCEPT ![d] = f] /\ f.pc = "done" /\ f.copy = call[d].copy
  BY <1>5
<1>7. FrameHolds(d)'
  <2>1. call'[d].copy = call[d].copy /\ call'[d].pc = "done"
    BY <1>6, FrameTypes
  <2>2. PICK c : c = call[d].copy
    OBVIOUS
  <2>3. Exact(c)'
    BY <2>2, <1>1, <1>3, FrameTypes, CopyLater
  <2>4. Exact(call[d].copy)'
    BY <2>1, <2>2, <2>3 DEF Exact, Current
  <2> QED BY <2>1, <2>4 DEF FrameHolds
<1> QED BY <1>1, <1>2, <1>3, <1>4, <1>6, <1>7, StepOfFrame DEF Begun

(* The callbacks.                                                          *)
LEMMA HookAtIs ==
  ASSUME IInv, NEW d \in Dispatches,
         NEW pc \in {"idle", "capture", "armed", "expose"}, NEW c \in Case, HookAt(d, pc, c)
  PROVE  \E h \in HookType : hook' = [hook EXCEPT ![d] = h] /\ h.pc = pc /\ h.copy = c
<1>1. PICK h : h = [pc |-> pc, copy |-> c]
  OBVIOUS
<1>2. h \in HookType /\ h.pc = pc /\ h.copy = c
  BY <1>1 DEF HookType
<1>3. hook' = [hook EXCEPT ![d] = h]
  BY <1>1 DEF HookAt
<1> QED BY <1>2, <1>3

LEMMA StepHookAt ==
  ASSUME IInv, HistoryInv', Later, SameExecutor, NEW d \in Dispatches,
         NEW pc \in {"idle", "capture", "armed", "expose"}, NEW c \in Case, HookAt(d, pc, c),
         call' = call \/ call' = [call EXCEPT ![d].captured = TRUE],
         op' = op, lease' = lease,
         Exact(c),
         pc \in {"capture", "armed"} => c.probe.status = "executing" /\ c.probe.by = d,
         pc = "expose" => c.probe.status = "observed"
  PROVE  IInv'
<1>1. PICK h \in HookType : hook' = [hook EXCEPT ![d] = h] /\ h.pc = pc /\ h.copy = c
  BY HookAtIs
<1>2. hook'[d].pc = pc /\ hook'[d].copy = c
  BY <1>1, FrameTypes
<1>3. HookHolds(d)'
  <2>1. Exact(c)'
    BY FrameTypes, CopyLater
  <2>2. Exact(hook[d].copy)'
    BY <2>1, <1>2 DEF Exact, Current
  <2> QED BY <2>2, <1>2 DEF HookHolds
<1> QED BY <1>1, <1>3, StepOfHook

LEMMA StepCallback ==
  ASSUME IInv, NEW d \in Dispatches, Callback(d)
  PROVE  IInv'
<1>0. /\ Exact(case) /\ Exact(hook[d].copy) /\ case \in Case /\ hook[d].copy \in Case
      /\ hook[d].pc \in {"capture", "armed"} =>
           hook[d].copy.probe.status = "executing" /\ hook[d].copy.probe.by = d
  BY FrameTypes, CaseIsExact DEF HookHolds
<1>7. ASSUME UNCHANGED <<case, timeline>> PROVE HistoryInv' /\ Later /\ SameExecutor
  <2>1. HistoryInv' /\ Later
    BY <1>7, HistorySame DEF IInv
  <2> QED BY <2>1, <1>7 DEF SameExecutor
<1>1. CASE HookRead(d)
  <2>1. /\ HookAt(d, "capture", case) /\ MayCapture(d)
        /\ UNCHANGED <<case, timeline, lease, call, op>>
    BY <1>1 DEF HookRead
  <2>2. case.probe.status = "executing" /\ case.probe.by = d
    BY <2>1, MayCaptureIsOwn
  <2>3. HistoryInv' /\ Later /\ SameExecutor
    BY <2>1, <1>7
  <2> QED BY <2>1, <2>2, <2>3, <1>0, StepHookAt
<1>2. CASE HookGuard(d)
  <2>1. PICK pc \in {"armed", "idle"} : HookAt(d, pc, hook[d].copy)
    BY <1>2 DEF HookGuard
  <2>2. hook[d].pc = "capture" /\ UNCHANGED <<case, timeline, lease, call, op>>
    BY <1>2 DEF HookGuard
  <2>3. HistoryInv' /\ Later /\ SameExecutor
    BY <2>2, <1>7
  <2> QED BY <2>1, <2>2, <2>3, <1>0, StepHookAt
<1>3. CASE HookCapture(d)
  <2>1. /\ HookAt(d, "idle", hook[d].copy) /\ call' = [call EXCEPT ![d].captured = TRUE]
        /\ UNCHANGED <<lease, op>> /\ Capture(hook[d].copy, d, TRUE)
    BY <1>3 DEF HookCapture
  <2>2. HistoryInv' /\ Later
    BY <1>3, WriteByHook DEF Later
  <2>3. SameExecutor
    BY <2>1, <1>0, CaptureObserves
  <2> QED BY <2>1, <2>2, <2>3, <1>0, StepHookAt
<1>4. CASE ExposeRead(d)
  <2>1. /\ HookAt(d, "expose", case) /\ case.probe.status = "observed"
        /\ UNCHANGED <<case, timeline, lease, call, op>>
    BY <1>4 DEF ExposeRead
  <2>2. HistoryInv' /\ Later /\ SameExecutor
    BY <2>1, <1>7
  <2> QED BY <2>1, <2>2, <1>0, StepHookAt
<1>5. CASE Expose(d)
  <2>1. PICK copy : copy = hook[d].copy
    OBVIOUS
  <2>2. PICK probe : probe = [copy.probe EXCEPT !.seen = NextEvent]
    OBVIOUS
  <2>3. /\ HookAt(d, "idle", copy) /\ hook[d].pc = "expose" /\ UNCHANGED <<lease, call, op>>
        /\ Transition(copy, [copy EXCEPT !.probe = probe],
                      Says("exposed", probe, d, copy.probe.seen))
    BY <1>5, <2>1, <2>2 DEF Expose
  <2>4. HistoryInv' /\ Later
    BY <1>5, WriteExpose DEF Later
  <2>5. copy \in Case /\ copy.probe \in Probe /\ copy.probe.status = "observed" /\ Exact(copy)
    BY <2>1, <2>3, FrameTypes DEF HookHolds, Case
  <2>6. case' = [[copy EXCEPT !.probe = probe] EXCEPT !.revision = case.revision + 1]
    BY <2>3 DEF Transition
  <2>7. probe.status = "observed"
    BY <2>2, <2>5 DEF Probe
  <2>8. case'.probe = probe
    BY <2>5, <2>6 DEF Case
  <2>9. SameExecutor
    BY <2>7, <2>8 DEF SameExecutor
  <2> QED BY <2>3, <2>4, <2>5, <2>9, StepHookAt
<1>6. CASE HookGiveUp(d)
  <2>1. HookAt(d, "idle", hook[d].copy) /\ UNCHANGED <<case, timeline, lease, call, op>>
    BY <1>6 DEF HookGiveUp
  <2>2. HistoryInv' /\ Later /\ SameExecutor
    BY <2>1, <1>7
  <2> QED BY <2>1, <2>2, <1>0, StepHookAt
<1> QED BY <1>1, <1>2, <1>3, <1>4, <1>5, <1>6 DEF Callback

(* The tools.                                                              *)
LEMMA ToolTypes ==
  ASSUME IInv, NEW a \in Agents
  PROVE  /\ op \in [Agents -> OpType] /\ op[a] \in OpType
         /\ op[a].copy \in Case /\ op[a].what \in Operations /\ op[a].id \in Nat
         /\ case \in Case /\ HistoryInv /\ ToolHolds(a) /\ ExecutorBegun(case)
<1>1. op \in [Agents -> OpType] /\ case \in Case
  BY TypeFacts DEF IInv
<1>2. op[a] \in OpType
  BY <1>1
<1>3. op[a].copy \in Case /\ op[a].what \in Operations /\ op[a].id \in Nat
  BY <1>2 DEF OpType
<1> QED BY <1>1, <1>2, <1>3 DEF IInv

LEMMA IdleIsOp == Idle \in OpType /\ Idle.pc = "idle"
<1>1. NoProbe \in Probe /\ 0 \in 0..MaxEvents
  BY NoProbeIsProbe, MaxEventsAssumption
<1> QED BY <1>1 DEF Idle, OpType, Case, Operations

(* An operation that is over, having written or not.                       *)
LEMMA StepRefuse ==
  ASSUME IInv, HistoryInv', Later, SameExecutor, NEW a \in Agents, Refuse(a),
         UNCHANGED <<lease, call, hook>>
  PROVE  IInv'
<1>1. op' = [op EXCEPT ![a] = Idle]
  BY DEF Refuse
<1>2. op'[a].pc = "idle"
  BY <1>1, ToolTypes, IdleIsOp
<1>3. ToolHolds(a)'
  BY <1>2 DEF ToolHolds
<1> QED BY <1>1, <1>3, IdleIsOp, StepOfTool

(* An operation that settles an executing probe: NeedsLease of it.         *)
Settles(o) == o.what \in {"recover", "discard"} /\ o.copy.probe.status = "executing"

(* A step of an operation that writes nothing and goes on.                 *)
LEMMA StepGoesOn ==
  ASSUME IInv, UNCHANGED <<case, timeline, call, hook>>, NEW a \in Agents,
         NEW o \in OpType, op' = [op EXCEPT ![a] = o],
         lease' \in {lease, a, NoOne}, lease \notin {NoOne, a} => lease' = lease,
         Exact(o.copy), Allowed(o.what, o.copy), ExecutorBegun(o.copy),
         o.pc = "probing" => lease' = a /\ Settles(o),
         o.pc \in {"probing", "checked"} /\ Settles(o) => call[o.copy.probe.by].pc = "done",
         o.pc = "checked" /\ o.what = "commit" /\ Current(o.copy) =>
           o.id = Count + 1 /\ case.mismatch = 0
  PROVE  IInv'
<1>1. HistoryInv' /\ Later
  BY HistorySame DEF IInv
<1>2. SameExecutor
  BY DEF SameExecutor
<1>3. op'[a] = o
  BY ToolTypes
<1>4. ToolHolds(a)'
  <2>1. (Exact(op[a].copy))'
    BY <1>3 DEF Exact, Current
  <2>2. (Allowed(op[a].what, op[a].copy))'
    BY <1>3 DEF Allowed
  <2>3. (ExecutorBegun(op[a].copy))'
    BY <1>3 DEF ExecutorBegun
  <2>4. Count' = Count
    BY DEF Count, EventsOf
  <2>5. NeedsLease(a)' <=> Settles(o)
    BY <1>3 DEF NeedsLease, Settles
  <2>6. (op[a].pc = "probing" => lease = a /\ NeedsLease(a))'
    BY <1>3, <2>5
  <2>7. (op[a].pc \in {"probing", "checked"} /\ NeedsLease(a) =>
           call[op[a].copy.probe.by].pc = "done")'
    BY <1>3, <2>5
  <2>8. (op[a].pc = "checked" /\ op[a].what = "commit" /\ Current(op[a].copy) =>
           op[a].id = Count + 1 /\ case.mismatch = 0)'
    BY <1>3, <2>4 DEF Current
  <2> QED BY <2>1, <2>2, <2>3, <2>6, <2>7, <2>8 DEF ToolHolds
<1> QED BY <1>1, <1>2, <1>4, StepOfTool

LEMMA StepBegin ==
  ASSUME IInv, NEW a \in Agents, NEW what \in Operations, Begin(a, what)
  PROVE  IInv'
<1>1. PICK o : o = [pc |-> "read", what |-> what, copy |-> case, id |-> 0]
  OBVIOUS
<1>2. o \in OpType /\ o.pc = "read" /\ o.what = what /\ o.copy = case
  BY <1>1, ToolTypes DEF OpType
<1>3. /\ op' = [op EXCEPT ![a] = o] /\ Allowed(what, case)
      /\ UNCHANGED <<case, timeline, lease, call, hook>>
  BY <1>1 DEF Begin
<1>4. Exact(case) /\ ExecutorBegun(case)
  BY ToolTypes, CaseIsExact
<1>5. o.pc # "probing" /\ o.pc # "checked" /\ lease' = lease
  BY <1>2, <1>3
<1> QED BY <1>2, <1>3, <1>4, <1>5, StepGoesOn

LEMMA StepReplay ==
  ASSUME IInv, NEW a \in Agents, Replay(a)
  PROVE  IInv'
<1>1. /\ op[a].pc = "read" /\ NeedsReplay(a)
      /\ UNCHANGED <<case, timeline, lease, call, hook>>
  BY DEF Replay
<1>2. CASE Usable /\ op' = [op EXCEPT ![a].pc = "checked", ![a].id = Count + 1]
  <2>1. PICK o : o = [op[a] EXCEPT !.pc = "checked", !.id = Count + 1]
    OBVIOUS
  <2>2. Count + 1 \in Nat
    BY ToolTypes, HistoryFacts, CountIsNat
  <2>3. /\ o \in OpType /\ o.pc = "checked" /\ o.what = op[a].what /\ o.copy = op[a].copy
        /\ o.id = Count + 1
    BY <2>1, <2>2, ToolTypes DEF OpType
  <2>4. op' = [op EXCEPT ![a] = o]
    BY <1>2, <2>1, ToolTypes
  <2>5. Exact(o.copy) /\ Allowed(o.what, o.copy) /\ ExecutorBegun(o.copy)
    BY <1>1, <2>3, ToolTypes DEF ToolHolds
  <2>6. ~Settles(o) /\ case.mismatch = 0 /\ lease' = lease
    BY <1>1, <1>2, <2>3 DEF NeedsReplay, Usable, Settles
  <2> QED BY <1>1, <2>3, <2>4, <2>5, <2>6, StepGoesOn
<1>3. CASE Refuse(a)
  <2>1. HistoryInv' /\ Later /\ SameExecutor
    BY <1>1, HistorySame DEF IInv, SameExecutor
  <2> QED BY <1>1, <1>3, <2>1, StepRefuse
<1> QED BY <1>2, <1>3 DEF Replay, Count

LEMMA OpAtIs ==
  ASSUME IInv, NEW a \in Agents, NEW pc \in {"idle", "read", "probing", "checked"}, Op(a, pc)
  PROVE  \E o \in OpType :
           /\ op' = [op EXCEPT ![a] = o] /\ o.pc = pc
           /\ o.what = op[a].what /\ o.copy = op[a].copy
<1>1. PICK o : o = [op[a] EXCEPT !.pc = pc]
  OBVIOUS
<1>2. o \in OpType /\ o.pc = pc /\ o.what = op[a].what /\ o.copy = op[a].copy
  BY <1>1, ToolTypes DEF OpType
<1>3. op' = [op EXCEPT ![a] = o]
  BY <1>1 DEF Op
<1> QED BY <1>2, <1>3

(* The lease is free only when whoever executes the probe is over.         *)
LEMMA StepAskLease ==
  ASSUME IInv, NEW a \in Agents, AskLease(a)
  PROVE  IInv'
<1>1. op[a].pc = "read" /\ NeedsLease(a) /\ UNCHANGED <<case, timeline, call, hook>>
  BY DEF AskLease
<1>2. CASE lease = NoOne /\ lease' = a /\ Op(a, "probing")
  <2>1. PICK o \in OpType :
          /\ op' = [op EXCEPT ![a] = o] /\ o.pc = "probing"
          /\ o.what = op[a].what /\ o.copy = op[a].copy
    BY <1>2, OpAtIs
  <2>2. Exact(o.copy) /\ Allowed(o.what, o.copy) /\ ExecutorBegun(o.copy)
    BY <1>1, <2>1, ToolTypes DEF ToolHolds
  <2>3. Settles(o) /\ o.copy.probe.status = "executing"
    BY <1>1, <2>1 DEF NeedsLease, Settles
  <2>4. PICK d : d = o.copy.probe.by
    OBVIOUS
  <2>5. d \in Dispatches /\ call[d].pc \in Begun
    BY <2>2, <2>3, <2>4 DEF ExecutorBegun
  <2>6. d # NoOne
    BY <2>5, ActorsAssumption
  <2>7. call[d].pc = "done"
    BY <1>2, <2>5, <2>6, FrameTypes DEF FrameHolds, Begun
  <2> QED BY <1>1, <1>2, <2>1, <2>2, <2>3, <2>4, <2>7, StepGoesOn
<1>3. CASE Refuse(a) /\ UNCHANGED lease
  <2>1. HistoryInv' /\ Later /\ SameExecutor
    BY <1>1, HistorySame DEF IInv, SameExecutor
  <2> QED BY <1>1, <1>3, <2>1, StepRefuse
<1> QED BY <1>2, <1>3 DEF AskLease

LEMMA StepLeaveLease ==
  ASSUME IInv, NEW a \in Agents, LeaveLease(a)
  PROVE  IInv'
<1>1. /\ op[a].pc = "probing" /\ lease' = NoOne /\ Op(a, "checked")
      /\ UNCHANGED <<case, timeline, call, hook>>
  BY DEF LeaveLease
<1>2. PICK o \in OpType :
        /\ op' = [op EXCEPT ![a] = o] /\ o.pc = "checked"
        /\ o.what = op[a].what /\ o.copy = op[a].copy
  BY <1>1, OpAtIs
<1>3. /\ Exact(o.copy) /\ Allowed(o.what, o.copy) /\ ExecutorBegun(o.copy)
      /\ lease = a /\ NeedsLease(a) /\ call[op[a].copy.probe.by].pc = "done"
  BY <1>1, <1>2, ToolTypes DEF ToolHolds
<1>4. Settles(o) /\ o.what # "commit" /\ call[o.copy.probe.by].pc = "done"
  BY <1>2, <1>3 DEF NeedsLease, Settles
<1> QED BY <1>1, <1>2, <1>3, <1>4, StepGoesOn

(* The one that writes is over, and the case has the executor it had.      *)
LEMMA StepWrites ==
  ASSUME IInv, NEW a \in Agents,
         \/ CommitProbe(a) \/ RecoverProbe(a) \/ DiscardProbe(a) \/ Revise(a) \/ PauseSettled(a)
         \/ \E mismatch \in BOOLEAN : CompareProbe(a, mismatch)
  PROVE  IInv'
<1>1. HistoryInv' /\ Later
  BY WriteCommit, WriteRecover, WriteDiscard, WriteRevise, WritePause, WriteCompare DEF Later
<1>2. Refuse(a) /\ UNCHANGED <<lease, call, hook>>
  BY DEF CommitProbe, RecoverProbe, DiscardProbe, Revise, PauseSettled, CompareProbe, Proceed
<1>3. PICK copy : copy = op[a].copy
  OBVIOUS
<1>4. \/ copy \in Case /\ copy.probe \in Probe /\ Exact(copy)
      \/ op[a].pc = "idle"
  BY <1>3, ToolTypes DEF ToolHolds, Case
<1>5. copy \in Case /\ Exact(copy)
  <2>1. op[a].pc # "idle"
    BY DEF CommitProbe, RecoverProbe, DiscardProbe, Revise, PauseSettled, CompareProbe, Proceed
  <2> QED BY <2>1, <1>4
<1>6. SameExecutor
  <2>1. CASE CommitProbe(a)
    <3>1. PICK probe : probe = [NoProbe EXCEPT !.id = op[a].id, !.status = "committed"]
      OBVIOUS
    <3>2. case' = [[copy EXCEPT !.probe = probe] EXCEPT !.revision = case.revision + 1]
      BY <2>1, <3>1, <1>3 DEF CommitProbe, Transition
    <3>3. probe.status = "committed"
      BY <3>1 DEF NoProbe
    <3>4. case'.probe = probe
      BY <3>2, <1>5 DEF Case
    <3> QED BY <3>3, <3>4 DEF SameExecutor
  <2>2. CASE RecoverProbe(a)
    <3>1. Capture(copy, NoOne, FALSE)
      BY <2>2, <1>3 DEF RecoverProbe
    <3> QED BY <3>1, <1>5, CaptureObserves
  <2>3. CASE DiscardProbe(a)
    <3>1. case' = [[copy EXCEPT !.probe = NoProbe] EXCEPT !.revision = case.revision + 1]
      BY <2>3, <1>3 DEF DiscardProbe, Transition
    <3>2. case'.probe = NoProbe
      BY <3>1, <1>5 DEF Case
    <3> QED BY <3>2 DEF SameExecutor, NoProbe
  <2>4. CASE Revise(a)
    <3>1. case' = [[copy EXCEPT !.mismatch = 0] EXCEPT !.revision = case.revision + 1]
          /\ Current(copy)
      BY <2>4, <1>3 DEF Revise, Transition
    <3>2. case'.probe = copy.probe /\ copy = case
      BY <3>1, <1>5 DEF Case, Exact
    <3> QED BY <3>2 DEF SameExecutor
  <2>5. CASE PauseSettled(a)
    <3>1. case' = [[copy EXCEPT !.status = "paused"] EXCEPT !.revision = case.revision + 1]
          /\ Current(copy)
      BY <2>5, <1>3 DEF PauseSettled, Transition
    <3>2. case'.probe = copy.probe /\ copy = case
      BY <3>1, <1>5 DEF Case, Exact
    <3> QED BY <3>2 DEF SameExecutor
  <2>6. CASE \E mismatch \in BOOLEAN : CompareProbe(a, mismatch)
    <3>1. PICK mismatch \in BOOLEAN : CompareProbe(a, mismatch)
      BY <2>6
    <3>2. PICK new : new = [copy EXCEPT !.probe = NoProbe,
                                        !.mismatch = IF mismatch THEN NextEvent ELSE @]
      OBVIOUS
    <3>3. case' = [new EXCEPT !.revision = case.revision + 1]
      BY <3>1, <3>2, <1>3 DEF CompareProbe, Transition
    <3>4. case'.probe = NoProbe
      BY <3>2, <3>3, <1>5 DEF Case
    <3> QED BY <3>4 DEF SameExecutor, NoProbe
  <2> QED BY <2>1, <2>2, <2>3, <2>4, <2>5, <2>6
<1> QED BY <1>1, <1>2, <1>6, StepRefuse

LEMMA StepTool ==
  ASSUME IInv, NEW a \in Agents, Tool(a)
  PROVE  IInv'
<1>1. CASE \E what \in Operations : Begin(a, what)
  BY <1>1, StepBegin
<1>2. CASE Replay(a)
  BY <1>2, StepReplay
<1>3. CASE AskLease(a)
  BY <1>3, StepAskLease
<1>4. CASE LeaveLease(a)
  BY <1>4, StepLeaveLease
<1>5. CASE \/ CommitProbe(a) \/ RecoverProbe(a) \/ DiscardProbe(a) \/ Revise(a) \/ PauseSettled(a)
           \/ \E mismatch \in BOOLEAN : CompareProbe(a, mismatch)
  BY <1>5, StepWrites
<1>6. CASE LoseRace(a)
  <2>1. Refuse(a) /\ UNCHANGED <<case, timeline, lease, call, hook>>
    BY <1>6 DEF LoseRace
  <2>2. HistoryInv' /\ Later /\ SameExecutor
    BY <2>1, HistorySame DEF IInv, SameExecutor
  <2> QED BY <2>1, <2>2, StepRefuse
<1> QED BY <1>1, <1>2, <1>3, <1>4, <1>5, <1>6 DEF Tool

LEMMA StepLifecycle ==
  ASSUME IInv, LifecyclePause \/ Resume \/ Note
  PROVE  IInv'
<1>1. HistoryInv' /\ Later
  BY WriteLifecycle DEF IInv, Later
<1>2. UNCHANGED <<lease, call, hook, op>>
  BY DEF LifecyclePause, Resume, Note
<1>3. PICK new : /\ case' = [new EXCEPT !.revision = case.revision + 1]
                 /\ new \in {[case EXCEPT !.status = "paused"], [case EXCEPT !.status = "active"], case}
  BY DEF LifecyclePause, Resume, Note, Transition
<1>4. case'.probe = case.probe
  <2>1. case \in Case
    BY DEF IInv, TypeOK
  <2> QED BY <2>1, <1>3 DEF Case
<1> QED BY <1>1, <1>2, <1>4, StepOfStore DEF SameExecutor

LEMMA StepMiddleware ==
  ASSUME IInv, NEW d \in Dispatches, Middleware(d) \/ Crash(d)
  PROVE  IInv'
BY StepArrive, StepClaim, StepReread, StepStart, StepReturn, StepCapture, StepRecordUnknown,
   StepFinish, StepCrash DEF Middleware

LEMMA NextKeeps == IInv /\ [Next]_vars => IInv'
<1>1. SUFFICES ASSUME IInv, [Next]_vars PROVE IInv'
  OBVIOUS
<1>2. CASE \E d \in Dispatches : Middleware(d) \/ Callback(d) \/ Crash(d)
  BY <1>1, <1>2, StepMiddleware, StepCallback
<1>3. CASE \E a \in Agents : Tool(a)
  BY <1>1, <1>3, StepTool
<1>4. CASE LifecyclePause \/ Resume \/ Note
  BY <1>1, <1>4, StepLifecycle
<1>5. CASE UNCHANGED vars
  <2>1. UNCHANGED <<case, timeline, lease, call, hook, op>>
    BY <1>5 DEF vars
  <2>2. HistoryInv' /\ Later /\ SameExecutor
    BY <1>1, <2>1, HistorySame DEF IInv, SameExecutor
  <2> QED BY <1>1, <2>1, <2>2, StepOfStore
<1> QED BY <1>1, <1>2, <1>3, <1>4, <1>5 DEF Next

LEMMA InitHolds == Init => IInv
<1>1. SUFFICES ASSUME Init PROVE IInv
  OBVIOUS
<1>2. PICK c : c = case
  OBVIOUS
<1>3. /\ c = [status |-> "active", revision |-> 0, probe |-> NoProbe, mismatch |-> 0]
      /\ c.probe = NoProbe /\ c.mismatch = 0 /\ c.revision = 0
      /\ timeline = <<>> /\ lease = NoOne
  BY <1>1, <1>2 DEF Init
<1>4. c \in Case
  BY <1>3, NoProbeIsProbe, MaxEventsAssumption DEF Case
<1>5. /\ \A d \in Dispatches : call[d].pc = "idle" /\ call[d].copy = c
      /\ \A d \in Dispatches : hook[d].pc = "idle" /\ hook[d].copy = c
      /\ \A a \in Agents : op[a].pc = "idle"
  BY <1>1, <1>2, IdleIsOp DEF Init
<1>6. TypeOK
  <2>1. [pc |-> "idle", native |-> FALSE, captured |-> FALSE, copy |-> c] \in FrameType
    BY <1>4 DEF FrameType, Frames
  <2>2. call \in [Dispatches -> FrameType]
    BY <2>1, <1>1, <1>2 DEF Init
  <2>3. [pc |-> "idle", copy |-> c] \in HookType
    BY <1>4 DEF HookType
  <2>4. hook \in [Dispatches -> HookType]
    BY <2>3, <1>1, <1>2 DEF Init
  <2>5. op \in [Agents -> OpType]
    BY <1>1, IdleIsOp DEF Init
  <2>6. timeline \in Seq(Event)
    BY <1>3
  <2> QED BY <2>2, <2>4, <2>5, <2>6, <1>2, <1>3, <1>4 DEF TypeOK, FrameType, HookType, OpType
<1>7. HistoryInv
  <2>1. DOMAIN timeline = {} /\ Len(timeline) = 0
    BY <1>3
  <2>2. \A k : EventsOf(k) = {}
    BY <2>1 DEF EventsOf
  <2>3. \A k : Cited(k) = {}
    BY <2>2 DEF Cited
  <2>4. Observations = {} /\ Results = {}
    BY <2>2 DEF Observations, Results
  <2>5. Count = 0
    BY <2>2, FS_EmptySet DEF Count
  <2>6. TimelineIsComplete
    BY <2>1, <1>2, <1>3 DEF TimelineIsComplete
  <2>7. IdsAreCounted
    BY <2>1, <2>5, <1>2, <1>3, NoProbeIsProbe DEF IdsAreCounted
  <2>8. ProbeIsItsHistory
    BY <2>2, <2>4, <1>2, <1>3 DEF ProbeIsItsHistory, NoProbe
  <2>9. OneExecutionOneCapture
    BY <2>2 DEF OneExecutionOneCapture
  <2>10. AccountingFollowsCase
    <3>1. Materials = {}
      BY <2>2 DEF Materials
    <3> QED BY <2>3, <2>4, <3>1, <1>2, <1>3, NoProbeIsProbe, AccountingIsSets
  <2> QED BY <2>6, <2>7, <2>8, <2>9, <2>10, <1>6 DEF HistoryInv, TypeOK
<1>8. \A d \in Dispatches : FrameHolds(d) /\ HookHolds(d)
  <2>1. Exact(c)
    BY <1>2, <1>4, CaseIsExact
  <2> QED BY <2>1, <1>5 DEF FrameHolds, HookHolds
<1>9. \A a \in Agents : ToolHolds(a)
  BY <1>5 DEF ToolHolds
<1>10. ExecutorBegun(case)
  BY <1>2, <1>3 DEF ExecutorBegun, NoProbe
<1> QED BY <1>6, <1>7, <1>8, <1>9, <1>10 DEF IInv

(* The inductive invariant holds in every behaviour.                       *)
THEOREM ProbeInvariant == Spec => []IInv
BY InitHolds, NextKeeps, PTL DEF Spec

(* Every variable has its type: copies are cases the store could hold, and *)
(* no transition runs over the Timeline's bound.                           *)
THEOREM ProbeTypeOK == Spec => []TypeOK
<1>1. IInv => TypeOK
  BY DEF IInv
<1> QED BY <1>1, ProbeInvariant, PTL

(* A probe is started by one dispatch and captured once, and a result that *)
(* is not a recovery's placeholder is its starter's own.                   *)
THEOREM ProbeOneExecution == Spec => []OneExecutionOneCapture
<1>1. IInv => OneExecutionOneCapture
  BY DEF IInv, HistoryInv
<1> QED BY <1>1, ProbeInvariant, PTL

(* What replay finds owed in the complete history is what the case says is *)
(* owed: its pending observation and its mismatch, and nothing else.       *)
THEOREM ProbeAccounting == Spec => []AccountingFollowsCase
<1>1. IInv => AccountingFollowsCase
  BY DEF IInv, HistoryInv
<1> QED BY <1>1, ProbeInvariant, PTL

-----------------------------------------------------------------------------
(* What a step may write.                                                  *)

LEMMA NewEvent ==
  ASSUME timeline \in Seq(Event), NEW copy, NEW new, NEW e, Transition(copy, new, e),
         NEW i \in DOMAIN timeline' \ DOMAIN timeline
  PROVE  timeline'[i] = e
<1>1. timeline' = Append(timeline, e)
  BY DEF Transition
<1>2. PICK s : s = timeline
  OBVIOUS
<1>3. s \in Seq(Event \cup {e})
  BY <1>2
<1> QED BY <1>1, <1>2, <1>3, AppendProperties, LenProperties

(* A start, a result of the executor's own, the end of an operation that   *)
(* settles a probe, or an event of another kind.                           *)
LEMMA WhatIsWritten ==
  ASSUME IInv, [Next]_vars, NEW i \in DOMAIN timeline' \ DOMAIN timeline
  PROVE  \/ \E d \in Dispatches :
              Start(d) /\ Current(call[d].copy) /\ timeline'[i].kind = "started"
         \/ timeline'[i].kind = "observed" /\ timeline'[i].by \in Dispatches
         \/ /\ \E a \in Agents : RecoverProbe(a) \/ DiscardProbe(a)
            /\ timeline'[i].kind \in {"observed", "discarded"}
         \/ timeline'[i].kind \notin {"started", "observed", "discarded"}
<1>1. timeline \in Seq(Event)
  BY DEF IInv, TypeOK
<1>2. timeline' # timeline
  OBVIOUS
<1>3. CASE \E d \in Dispatches : Start(d)
  <2>1. PICK d \in Dispatches : Start(d)
    BY <1>3
  <2>2. PICK copy, new, probe :
          copy = call[d].copy /\ Transition(copy, new, Says("started", probe, d, 0))
    BY <2>1, <1>2 DEF Start
  <2>3. timeline'[i].kind = "started"
    BY <2>2, <1>1, NewEvent DEF Says
  <2>4. Current(call[d].copy)
    BY <2>2 DEF Transition
  <2> QED BY <2>1, <2>3, <2>4
<1>4. CASE \E d \in Dispatches : CaptureReturned(d) \/ PersistUnknown(d) \/ HookCapture(d)
  <2>1. PICK d \in Dispatches : CaptureReturned(d) \/ PersistUnknown(d) \/ HookCapture(d)
    BY <1>4
  <2>2. PICK copy, native : Capture(copy, d, native)
    BY <2>1 DEF CaptureReturned, PersistUnknown, HookCapture
  <2>3. PICK new, probe : Transition(copy, new, Says("observed", probe, d, 0))
    BY <2>2 DEF Capture
  <2>4. timeline'[i].kind = "observed" /\ timeline'[i].by = d
    BY <2>3, <1>1, NewEvent DEF Says
  <2> QED BY <2>4
<1>5. CASE \E a \in Agents : RecoverProbe(a)
  <2>1. PICK a \in Agents : RecoverProbe(a)
    BY <1>5
  <2>2. PICK copy, new, probe : Transition(copy, new, Says("observed", probe, NoOne, 0))
    BY <2>1 DEF RecoverProbe, Capture
  <2>3. timeline'[i].kind = "observed"
    BY <2>2, <1>1, NewEvent DEF Says
  <2> QED BY <2>1, <2>3
<1>6. CASE \E a \in Agents : DiscardProbe(a)
  <2>1. PICK a \in Agents : DiscardProbe(a)
    BY <1>6
  <2>2. PICK copy, new, ref : Transition(copy, new, Says("discarded", copy.probe, NoOne, ref))
    BY <2>1 DEF DiscardProbe
  <2>3. timeline'[i].kind = "discarded"
    BY <2>2, <1>1, NewEvent DEF Says
  <2> QED BY <2>1, <2>3
<1>7. ASSUME NEW kind \in {"exposed", "committed", "revised", "case_paused", "case_resumed", "note"},
             \E copy, new, probe, by, ref : Transition(copy, new, Says(kind, probe, by, ref))
      PROVE  timeline'[i].kind \notin {"started", "observed", "discarded"}
  <2>1. PICK copy, new, probe, by, ref : Transition(copy, new, Says(kind, probe, by, ref))
    BY <1>7
  <2> QED BY <2>1, <1>1, NewEvent DEF Says
<1>8. CASE \E d \in Dispatches : Expose(d)
  BY <1>7, <1>8 DEF Expose
<1>9. CASE \E a \in Agents : CommitProbe(a)
  BY <1>7, <1>9 DEF CommitProbe
<1>10. CASE \E a \in Agents : Revise(a)
  BY <1>7, <1>10 DEF Revise
<1>11. CASE \E a \in Agents : PauseSettled(a)
  BY <1>7, <1>11 DEF PauseSettled
<1>12. CASE LifecyclePause
  BY <1>7, <1>12 DEF LifecyclePause
<1>13. CASE Resume
  BY <1>7, <1>13 DEF Resume
<1>14. CASE Note
  BY <1>7, <1>14 DEF Note
<1>15. CASE \E a \in Agents, mismatch \in BOOLEAN : CompareProbe(a, mismatch)
  <2>1. PICK a \in Agents, mismatch \in BOOLEAN : CompareProbe(a, mismatch)
    BY <1>15
  <2>2. PICK copy, new, ref :
          Transition(copy, new, [Says("compared", copy.probe, NoOne, ref)
                                   EXCEPT !.material = mismatch])
    BY <2>1 DEF CompareProbe
  <2>3. timeline'[i].kind = "compared"
    BY <2>2, <1>1, NewEvent DEF Says
  <2> QED BY <2>3
<1>16. \/ \E d \in Dispatches :
           \/ Start(d) \/ CaptureReturned(d) \/ PersistUnknown(d) \/ HookCapture(d) \/ Expose(d)
       \/ \E a \in Agents :
           \/ CommitProbe(a) \/ RecoverProbe(a) \/ DiscardProbe(a) \/ Revise(a) \/ PauseSettled(a)
           \/ \E mismatch \in BOOLEAN : CompareProbe(a, mismatch)
       \/ LifecyclePause \/ Resume \/ Note
  <2>1. CASE \E d \in Dispatches : Middleware(d)
    BY <2>1, <1>2 DEF Middleware, Arrive, Claim, Reread, Return, RecordUnknown, Finish
  <2>2. CASE \E d \in Dispatches : Callback(d)
    BY <2>2, <1>2 DEF Callback, HookRead, HookGuard, ExposeRead, HookGiveUp
  <2>3. CASE \E d \in Dispatches : Crash(d)
    BY <2>3, <1>2 DEF Crash
  <2>4. CASE \E a \in Agents : Tool(a)
    BY <2>4, <1>2 DEF Tool, Begin, Replay, AskLease, LeaveLease, LoseRace
  <2>5. CASE UNCHANGED vars
    BY <2>5, <1>2 DEF vars
  <2> QED BY <2>1, <2>2, <2>3, <2>4, <2>5 DEF Next
<1> QED BY <1>3, <1>4, <1>5, <1>6, <1>8, <1>9, <1>10, <1>11, <1>12, <1>13, <1>14, <1>15, <1>16

(* No action starts while an observation or a mismatch is unaccounted for, *)
(* although the middleware replays before it has the lease: the copy that  *)
(* starts is the case, and a case with a committed probe owes nothing.     *)
THEOREM ProbeStartsAccounted == Spec => StartsOnlyWhenAccounted
<1>1. ASSUME IInv, [Next]_vars, NEW i \in DOMAIN timeline' \ DOMAIN timeline,
             timeline'[i].kind = "started"
      PROVE  AccountingClean
  <2>1. PICK d \in Dispatches : Start(d) /\ Current(call[d].copy)
    BY <1>1, WhatIsWritten
  <2>2. call[d].pc = "armed" /\ FrameHolds(d) /\ HistoryInv
    BY <1>1, <2>1 DEF Start, IInv
  <2>3. call[d].copy = case /\ case.probe.status = "committed"
    BY <2>1, <2>2 DEF FrameHolds, Exact
  <2>4. case.probe.seen = 0 /\ case.mismatch = 0
    BY <2>2, <2>3, HistoryFacts DEF ProbeIsItsHistory, NoProbe
  <2> QED BY <2>2, <2>4, HistoryFacts DEF AccountingFollowsCase, AccountingClean
<1>2. IInv /\ [Next]_vars =>
        [\A i \in DOMAIN timeline' \ DOMAIN timeline :
           timeline'[i].kind = "started" => AccountingClean]_vars
  BY <1>1
<1> QED BY <1>2, ProbeInvariant, PTL DEF Spec, StartsOnlyWhenAccounted

(* A probe is recovered or discarded only when its executor is over: the   *)
(* operation holds the case and found its lease free, when the executor    *)
(* was over, and it does not begin again.                                  *)
THEOREM ProbeWrittenOff == Spec => WrittenOffOnlyWhenOver
<1>1. ASSUME IInv, [Next]_vars, NEW d \in Dispatches,
             case.probe.status = "executing", case.probe.by = d,
             NEW i \in DOMAIN timeline' \ DOMAIN timeline,
             \/ timeline'[i].kind = "discarded"
             \/ timeline'[i].kind = "observed" /\ timeline'[i].by = NoOne
      PROVE  call[d].pc = "done"
  <2>1. PICK a \in Agents : RecoverProbe(a) \/ DiscardProbe(a)
    BY <1>1, WhatIsWritten, ActorsAssumption
  <2>2. PICK what \in {"recover", "discard"} : Proceed(a, what)
    BY <2>1 DEF RecoverProbe, DiscardProbe
  <2>3. Current(op[a].copy)
    BY <2>1 DEF RecoverProbe, DiscardProbe, Capture, Transition
  <2>4. op[a].pc # "idle" /\ op[a].what = what /\ ToolHolds(a)
    BY <1>1, <2>2 DEF Proceed, IInv
  <2>5. op[a].copy = case
    BY <2>3, <2>4 DEF ToolHolds, Exact
  <2>6. NeedsLease(a)
    BY <1>1, <2>4, <2>5 DEF NeedsLease
  <2>7. op[a].pc = "checked"
    BY <2>2, <2>6 DEF Proceed
  <2> QED BY <1>1, <2>4, <2>5, <2>6, <2>7 DEF ToolHolds
<1>2. IInv /\ [Next]_vars =>
        [\A d \in Dispatches :
           /\ case.probe.status = "executing"
           /\ case.probe.by = d
           /\ \E i \in DOMAIN timeline' \ DOMAIN timeline :
                \/ timeline'[i].kind = "discarded"
                \/ timeline'[i].kind = "observed" /\ timeline'[i].by = NoOne
           => call[d].pc = "done"]_vars
  BY <1>1
<1> QED BY <1>2, ProbeInvariant, PTL DEF Spec, WrittenOffOnlyWhenOver
=============================================================================
