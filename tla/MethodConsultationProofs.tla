---------------------- MODULE MethodConsultationProofs ----------------------
(***************************************************************************)
(* What holds of a case's consultations for every number of callers and    *)
(* every limit.                                                            *)
(*                                                                         *)
(* Everything an operation read before it writes is out of date as soon as *)
(* the Timeline grows; what saves each write is that it is refused then.   *)
(* The strengthening, Holds, says of every caller in the middle of an      *)
(* operation what its next write relies on, as long as its copy is current.*)
(***************************************************************************)
EXTENDS MethodConsultation, WorkerSlots, TLAPS, SequenceTheorems, WellFoundedInduction,
        FiniteSetTheorems

OfferStarted(n) == n \in 1..Tip /\ timeline[n].kind = "method_offer_started"

Relies(me) ==
  /\ me.at <= Tip
  /\ me.pc = "deciding" /\ me.at = Tip => ConsultationAtTip(me.point)
  /\ me.pc = "calling" => OfferStarted(me.offer)
  /\ me.pc = "offered" => OfferStarted(me.offer) /\ me.at = me.offer
  /\ me.pc = "choosing" /\ me.at = Tip => me.offer \notin Answered(timeline)

Holds(p) == Relies(caller[p])

History == EveryDecisionConsulted /\ AdviceIsCurrent /\ AnsweredOnce /\ WaiversAreEarned

IInv == TypeOK /\ Tip <= MaxEvents /\ (\A p \in Callers : Holds(p)) /\ History

-----------------------------------------------------------------------------
(* A bounded set of naturals that is not empty has a greatest member.      *)
LEMMA GreatestMember ==
  ASSUME NEW n \in Nat, NEW S \in SUBSET (0..n), S # {}
  PROVE  \E m \in S : \A k \in S : k <= m
<1> DEFINE Bounds == {k \in Nat : \A m \in S : m <= k}
           R == OpToRel(<, Nat)
<1>1. n \in Bounds
  OBVIOUS
<1>2. PICK k \in Bounds : \A y \in Bounds : ~(<<y, k>> \in R)
  <2>1. Bounds \subseteq Nat /\ Bounds # {}
    BY <1>1
  <2> HIDE DEF Bounds, R
  <2>2. IsWellFoundedOn(R, Nat)
    BY NatLessThanWellFounded DEF R
  <2> QED  BY <2>1, <2>2, WFMin
<1>3. \A y \in Bounds : ~(y < k)
  BY <1>2 DEF OpToRel
<1>4. k \in Nat /\ \A m \in S : m \in Nat /\ m <= k
  OBVIOUS
<1>5. k \in S
  <2> SUFFICES ASSUME k \notin S PROVE FALSE
    OBVIOUS
  <2>1. \A m \in S : m \in Nat /\ m < k
    BY <1>4
  <2>2. k - 1 \in Nat
    <3>1. PICK m \in S : TRUE
      OBVIOUS
    <3> QED  BY <2>1, <3>1, <1>4
  <2>3. \A m \in S : m <= k - 1
    BY <2>1, <1>4
  <2>4. k - 1 \in Bounds
    BY <2>2, <2>3, Zenon
  <2> QED  BY <1>3, <1>4, <2>4
<1> QED  BY <1>4, <1>5

(* The current offer, when it is at the tip, is one nobody has answered.   *)
LEMMA OfferAtTipIsOpen ==
  ASSUME TypeOK, ValidCurrentOffer
  PROVE  Tip > 0 /\ timeline[Tip].kind = "method_offered"
         /\ timeline[Tip].offer \notin Answered(timeline)
<1> DEFINE open == {i \in Of("method_offered", timeline) :
                      timeline[i].offer \notin Answered(timeline)}
<1>1. Tip \in Nat /\ DOMAIN timeline = 1..Tip
  BY DEF TypeOK, Tip
<1>2. open # {}
  BY DEF ValidCurrentOffer, CurrentOffer
<1>3. open \in SUBSET (0..Tip)
  BY <1>1 DEF Of
<1>4. \E m \in open : \A k \in open : k <= m
  <2> HIDE DEF open
  <2> QED  BY <1>1, <1>2, <1>3, GreatestMember
<1>5. CurrentOffer(timeline) = CHOOSE i \in open : \A j \in open : j <= i
  BY <1>2 DEF CurrentOffer
<1>6. CurrentOffer(timeline) \in open
  <2> HIDE DEF open
  <2> QED  BY <1>4, <1>5
<1>7. Tip \in open
  BY <1>6 DEF ValidCurrentOffer
<1> QED  BY <1>1, <1>7 DEF Of

-----------------------------------------------------------------------------
(* An event is appended: everybody else keeps what its next write relies   *)
(* on, and the copies that were current are not any more.                  *)
LEMMA OthersHold ==
  ASSUME TypeOK, NEW e \in Event, timeline' = Append(timeline, e),
         NEW q \in Callers, Holds(q), caller'[q] = caller[q]
  PROVE  Holds(q)'
<1>1. /\ Tip' = Tip + 1 /\ Tip \in Nat
      /\ \A i \in 1..Tip : timeline'[i] = timeline[i]
  BY DEF TypeOK, Tip
<1>2. caller[q] \in Caller
  BY DEF TypeOK
<1>3. caller[q].at < Tip'
  BY <1>1, <1>2 DEF Holds, Relies, Caller
<1>4. \A i \in 1..Tip : i \in 1..Tip' /\ timeline'[i] = timeline[i]
  BY <1>1 DEF Tip
<1>5. caller'[q].at # Tip' /\ caller'[q].at <= Tip'
  BY <1>1, <1>2, <1>3, LimitsAssumption DEF Caller
<1> QED  BY <1>4, <1>5 DEF Holds, Relies, OfferStarted

(* ... and the history stays in order if the new event is in order.        *)
LEMMA HistoryGrows ==
  ASSUME TypeOK, History, NEW e \in Event, timeline' = Append(timeline, e),
         e.kind \in {"probe_committed", "case_closed"} => ConsultationAtTip(e.point),
         e.kind = "method_offered" => e.offer = Tip /\ OfferStarted(Tip),
         e.kind = "method_chosen" => e.offer \notin Answered(timeline),
         e.kind = "method_consultation_excused" =>
           \/ Cardinality(Failures(timeline)) >= MaxCalls
           \/ Cardinality(Streak(timeline)) >= MaxConsecutive
  PROVE  History'
<1> DEFINE n == Tip + 1
<1>1. /\ Tip \in Nat /\ DOMAIN timeline = 1..Tip /\ DOMAIN timeline' = 1..n
      /\ timeline'[n] = e /\ \A i \in 1..Tip : timeline'[i] = timeline[i]
  BY DEF TypeOK, Tip
<1>2. \A k : Of(k, timeline') = Of(k, timeline) \cup (IF e.kind = k THEN {n} ELSE {})
  BY <1>1 DEF Of
<1>3. EveryDecisionConsulted'
  <2> SUFFICES ASSUME NEW i \in Decisions'
               PROVE  i > 1 /\ IsConsultation(timeline'[i - 1], timeline'[i].point)
    BY DEF EveryDecisionConsulted
  <2>1. CASE i \in Decisions
    <3>1. i > 1 /\ i \in 1..Tip /\ IsConsultation(timeline[i - 1], timeline[i].point)
      BY <2>1, <1>1 DEF History, EveryDecisionConsulted, Decisions, Of
    <3> QED  BY <3>1, <1>1
  <2>2. CASE i \notin Decisions
    <3>1. i = n /\ e.kind \in {"probe_committed", "case_closed"}
      BY <2>2, <1>2 DEF Decisions
    <3> QED  BY <3>1, <1>1 DEF ConsultationAtTip
  <2> QED  BY <2>1, <2>2
<1>4. AdviceIsCurrent'
  <2> SUFFICES ASSUME NEW i \in Of("method_offered", timeline')
               PROVE  i > 1 /\ i = timeline'[i].offer + 1
                      /\ timeline'[i - 1].kind = "method_offer_started"
    BY DEF AdviceIsCurrent
  <2>1. CASE i \in Of("method_offered", timeline)
    <3>1. i \in 1..Tip /\ i > 1 /\ i = timeline[i].offer + 1
          /\ timeline[i - 1].kind = "method_offer_started"
      BY <2>1, <1>1 DEF History, AdviceIsCurrent, Of
    <3> QED  BY <3>1, <1>1
  <2>2. CASE i = n /\ e.kind = "method_offered"
    BY <2>2, <1>1 DEF OfferStarted
  <2> QED  BY <2>1, <2>2, <1>2
<1>5. AnsweredOnce'
  BY <1>1, <1>2 DEF History, AnsweredOnce, Answered, Of
<1>6. WaiversAreEarned'
  <2>1. \A i \in 1..n : SubSeq(timeline', 1, i - 1) = SubSeq(timeline, 1, i - 1)
    BY <1>1, SubSeqProperties DEF TypeOK
  <2>2. SubSeq(timeline, 1, n - 1) = timeline
    BY <1>1, SubSeqProperties DEF TypeOK, Tip
  <2>3. \A i \in Of("method_consultation_excused", timeline') : i \in 1..n
    BY <1>1 DEF Of
  <2> QED  BY <1>1, <1>2, <2>1, <2>2, <2>3 DEF History, WaiversAreEarned
<1> QED  BY <1>3, <1>4, <1>5, <1>6 DEF History

-----------------------------------------------------------------------------
(* What every action may rely on.                                          *)
LEMMA Facts ==
  ASSUME IInv
  PROVE  /\ TypeOK /\ Tip \in Nat /\ Tip <= MaxEvents
         /\ \A p \in Callers : caller[p] \in Caller /\ Holds(p)
         /\ Tip < MaxEvents => Tip + 1 \in 0..MaxEvents
BY LimitsAssumption DEF IInv, TypeOK, Tip

LEMMA Becomes ==
  ASSUME IInv, NEW p \in Callers, NEW r \in Caller, Become(p, r)
  PROVE  /\ caller' \in [Callers -> Caller]
         /\ caller'[p] = r /\ \A q \in Callers \ {p} : caller'[q] = caller[q]
BY Facts DEF Become, TypeOK

(* What an append leaves behind.                                           *)
LEMMA Appended ==
  ASSUME IInv, NEW e \in Event, Append1(e)
  PROVE  /\ Tip' = Tip + 1 /\ Tip' \in Nat /\ Tip + 1 \in 0..MaxEvents
         /\ timeline'[Tip + 1] = e
BY Facts DEF Append1, Tip, TypeOK

(* One append by p: the event and what p is left with are enough to know.  *)
LEMMA AppendKeeps ==
  ASSUME IInv, NEW p \in Callers, NEW e \in Event, NEW r \in Caller, Append1(e),
         Become(p, r),
         status' \in {"active", "paused", "closed"}, pending' \in BOOLEAN,
         e.kind \in {"probe_committed", "case_closed"} => ConsultationAtTip(e.point),
         e.kind = "method_offered" => e.offer = Tip /\ OfferStarted(Tip),
         e.kind = "method_chosen" => e.offer \notin Answered(timeline),
         e.kind = "method_consultation_excused" =>
           \/ Cardinality(Failures(timeline)) >= MaxCalls
           \/ Cardinality(Streak(timeline)) >= MaxConsecutive,
         Holds(p)'
  PROVE  IInv'
<1>1. timeline' = Append(timeline, e)
  BY DEF Append1
<1>2. TypeOK'
  <2>1. cooled' \in BOOLEAN /\ expired' \in BOOLEAN
    BY Zenon DEF Append1
  <2>2. timeline' \in Seq(Event)
    BY <1>1 DEF IInv, TypeOK
  <2>3. caller' \in [Callers -> Caller]
    BY Becomes
  <2> QED  BY <2>1, <2>2, <2>3 DEF TypeOK
<1>3. \A q \in Callers : Holds(q)'
  <2> SUFFICES ASSUME NEW q \in Callers, q # p PROVE Holds(q)'
    OBVIOUS
  <2>1. caller'[q] = caller[q] /\ Holds(q) /\ TypeOK
    BY Becomes, Facts
  <2> QED  BY <1>1, <2>1, OthersHold
<1>4. History'
  BY <1>1, HistoryGrows DEF IInv
<1>5. Tip' <= MaxEvents
  BY Appended, LimitsAssumption
<1> QED  BY <1>2, <1>3, <1>4, <1>5 DEF IInv

(* A step of p that leaves the Timeline alone.                             *)
LEMMA QuietKeeps ==
  ASSUME IInv, NEW p \in Callers, NEW r \in Caller, Quiet, Become(p, r), Relies(r)
  PROVE  IInv'
<1>1. TypeOK'
  BY Becomes DEF IInv, TypeOK, Quiet
<1>2. History'
  BY DEF IInv, Quiet, History, EveryDecisionConsulted, Decisions, AdviceIsCurrent,
         AnsweredOnce, WaiversAreEarned
<1>3. ASSUME NEW q \in Callers PROVE Holds(q)'
  <2>1. \/ q = p /\ caller'[q] = r
        \/ caller'[q] = caller[q]
    BY Becomes
  <2>2. Relies(caller'[q]) /\ timeline' = timeline
    BY <2>1, Facts DEF Quiet, Holds
  <2> QED  BY <2>2 DEF Holds, Relies, OfferStarted, ConsultationAtTip, Tip
<1>4. Tip' <= MaxEvents
  BY Facts DEF Quiet, Tip
<1> QED  BY <1>1, <1>2, <1>3, <1>4 DEF IInv

-----------------------------------------------------------------------------
(* Events as the actions write them.                                       *)
LEMMA SaysIsAnEvent ==
  ASSUME NEW kind \in Kinds, NEW offer \in 0..MaxEvents, NEW point \in Points
  PROVE  /\ Says(kind, offer, point) \in Event
         /\ Says(kind, offer, point).kind = kind
         /\ Says(kind, offer, point).offer = offer
         /\ Says(kind, offer, point).point = point
BY DEF Says, Event, Reasons

LEMMA IdleHolds ==
  ASSUME IInv, NEW p \in Callers, Done(p), Tip' \in Nat
  PROVE  Idle \in Caller /\ Holds(p)'
<1>1. Idle \in Caller
  BY LimitsAssumption DEF Idle, Caller, Points, Reasons
<1>2. caller'[p] = Idle
  BY <1>1, Becomes DEF Done
<1> QED  BY <1>1, <1>2 DEF Holds, Relies, Idle

LEMMA StartOfferKeeps ==
  ASSUME IInv, NEW p \in Callers, StartOffer(p)
  PROVE  IInv'
<1> DEFINE e == Says("method_offer_started", Tip + 1, caller[p].point)
           r == [caller[p] EXCEPT !.pc = "calling", !.at = 0, !.offer = Tip + 1]
<1>1. /\ Append1(e) /\ Settled /\ Become(p, r)
      /\ Tip \in Nat /\ Tip + 1 \in 0..MaxEvents /\ caller[p] \in Caller
  BY Facts DEF StartOffer, Transition, Append1
<1>2. e \in Event /\ e.kind = "method_offer_started"
  BY <1>1, SaysIsAnEvent DEF Kinds, Caller
<1>3. r \in Caller /\ r.pc = "calling" /\ r.at = 0 /\ r.offer = Tip + 1
  <2>1. 0 \in 0..MaxEvents
    BY LimitsAssumption
  <2>2. caller[p] \in Caller /\ Tip \in Nat /\ Tip + 1 \in 0..MaxEvents
    BY <1>1
  <2> QED  BY <2>1, <2>2 DEF Caller
<1> HIDE DEF e, r
<1>4. Holds(p)'
  <2>1. caller'[p] = r
    BY <1>1, <1>3, Becomes
  <2>2. Tip' = Tip + 1 /\ Tip' \in Nat /\ timeline'[Tip + 1] = e
    BY <1>1, <1>2, Appended
  <2> QED  BY <1>1, <1>2, <1>3, <2>1, <2>2 DEF Holds, Relies, OfferStarted
<1> QED
  <2>1. status' \in {"active", "paused", "closed"} /\ pending' \in BOOLEAN
    BY <1>1 DEF Settled, IInv, TypeOK
  <2> QED  BY <1>1, <1>2, <1>3, <1>4, <2>1, AppendKeeps

(* The other writes leave their caller idle.                               *)
LEMMA RecordOfferKeeps ==
  ASSUME IInv, NEW p \in Callers, RecordOffer(p)
  PROVE  IInv'
<1> DEFINE e == [Says("method_offered", caller[p].offer, caller[p].point)
                   EXCEPT !.tokens = caller[p].tokens]
<1>1. Append1(e) /\ Settled /\ Done(p) /\ caller[p] \in Caller
  BY Facts DEF RecordOffer, Transition
<1>2. e \in Event /\ e.kind = "method_offered" /\ e.offer = caller[p].offer
  BY <1>1 DEF Says, Event, Kinds, Caller, Reasons
<1>3. caller[p].offer = Tip /\ OfferStarted(Tip)
  BY Facts DEF Holds, Relies, RecordOffer, Transition, Current
<1> HIDE DEF e
<1>4. Idle \in Caller /\ Holds(p)'
  BY <1>1, <1>2, Appended, IdleHolds
<1> QED
  <2>1. status' \in {"active", "paused", "closed"} /\ pending' \in BOOLEAN
    BY <1>1 DEF Settled, IInv, TypeOK
  <2> QED  BY <1>1, <1>2, <1>3, <1>4, <2>1, AppendKeeps DEF Done

LEMMA RecordFailureKeeps ==
  ASSUME IInv, NEW p \in Callers, RecordFailure(p)
  PROVE  IInv'
<1> DEFINE e == [Says("method_offer_failed", caller[p].offer, caller[p].point)
                   EXCEPT !.reason = caller[p].reason]
<1>1. Append1(e) /\ Settled /\ Done(p) /\ caller[p] \in Caller
  BY Facts DEF RecordFailure, Transition
<1>2. e \in Event /\ e.kind = "method_offer_failed"
  BY <1>1 DEF Says, Event, Kinds, Caller
<1> HIDE DEF e
<1>3. Idle \in Caller /\ Holds(p)'
  BY <1>1, <1>2, Appended, IdleHolds
<1> QED
  <2>1. status' \in {"active", "paused", "closed"} /\ pending' \in BOOLEAN
    BY <1>1 DEF Settled, IInv, TypeOK
  <2> QED  BY <1>1, <1>2, <1>3, <2>1, AppendKeeps DEF Done

LEMMA ChooseKeeps ==
  ASSUME IInv, NEW p \in Callers, Choose(p)
  PROVE  IInv'
<1> DEFINE e == Says("method_chosen", caller[p].offer, caller[p].point)
<1>1. Append1(e) /\ Settled /\ Done(p) /\ caller[p] \in Caller
  BY Facts DEF Choose, Transition
<1>2. e \in Event /\ e.kind = "method_chosen" /\ e.offer = caller[p].offer
  BY <1>1, SaysIsAnEvent DEF Kinds, Caller
<1>3. caller[p].offer \notin Answered(timeline)
  BY Facts DEF Holds, Relies, Choose, Transition, Current
<1> HIDE DEF e
<1>4. Idle \in Caller /\ Holds(p)'
  BY <1>1, <1>2, Appended, IdleHolds
<1> QED
  <2>1. status' \in {"active", "paused", "closed"} /\ pending' \in BOOLEAN
    BY <1>1 DEF Settled, IInv, TypeOK
  <2> QED  BY <1>1, <1>2, <1>3, <1>4, <2>1, AppendKeeps DEF Done

LEMMA ExcuseKeeps ==
  ASSUME IInv, NEW p \in Callers, Excuse(p)
  PROVE  IInv'
<1> DEFINE e == Says("method_consultation_excused", 0, caller[p].point)
           r == [caller[p] EXCEPT !.pc = "deciding", !.at = Tip + 1]
<1>1. /\ Append1(e) /\ Settled /\ Become(p, r)
      /\ Tip \in Nat /\ Tip + 1 \in 0..MaxEvents /\ caller[p] \in Caller
  BY Facts DEF Excuse, Transition, Append1
<1>2. e \in Event /\ e.kind = "method_consultation_excused" /\ e.point = caller[p].point
  BY <1>1, SaysIsAnEvent, LimitsAssumption DEF Kinds, Caller
<1>3. r \in Caller /\ r.pc = "deciding" /\ r.at = Tip + 1 /\ r.point = caller[p].point
  <2>1. caller[p] \in Caller /\ Tip \in Nat /\ Tip + 1 \in 0..MaxEvents
    BY <1>1
  <2> QED  BY <2>1 DEF Caller
<1>4. \/ Cardinality(Failures(timeline)) >= MaxCalls
      \/ Cardinality(Streak(timeline)) >= MaxConsecutive
  BY DEF Excuse, Waiver, InCooldown
<1> HIDE DEF e, r
<1>5. Holds(p)'
  <2>1. caller'[p] = r
    BY <1>1, <1>3, Becomes
  <2>2. Tip' = Tip + 1 /\ Tip' \in Nat /\ timeline'[Tip + 1] = e
    BY <1>1, <1>2, Appended
  <2> QED  BY <1>1, <1>2, <1>3, <2>1, <2>2
           DEF Holds, Relies, ConsultationAtTip, IsConsultation
<1> QED
  <2>1. status' \in {"active", "paused", "closed"} /\ pending' \in BOOLEAN
    BY <1>1 DEF Settled, IInv, TypeOK
  <2> QED  BY <1>1, <1>2, <1>3, <1>4, <1>5, <2>1, AppendKeeps

LEMMA DecideKeeps ==
  ASSUME IInv, NEW p \in Callers, Decide(p)
  PROVE  IInv'
<1>1. Done(p) /\ caller[p] \in Caller /\ Current(p) /\ ConsultationAtTip(caller[p].point)
  BY Facts DEF Decide, Holds, Relies, Transition, Current
<1>2. PICK kind \in {"probe_committed", "case_closed"}, point \in Points :
        /\ Append1(Says(kind, 0, point)) /\ point = caller[p].point
        /\ status' \in {"active", "paused", "closed"} /\ pending' \in BOOLEAN
  BY Facts DEF Decide, Transition, Points, TypeOK
<1> DEFINE e == Says(kind, 0, point)
<1>3. e \in Event /\ e.kind = kind /\ e.point = caller[p].point
  BY <1>2, SaysIsAnEvent, LimitsAssumption DEF Kinds
<1> HIDE DEF e
<1>4. Append1(e)
  BY <1>2 DEF e
<1>5. Idle \in Caller /\ Holds(p)'
  BY <1>1, <1>3, <1>4, Appended, IdleHolds
<1> QED  BY <1>1, <1>2, <1>3, <1>4, <1>5, AppendKeeps DEF Done

-----------------------------------------------------------------------------
(* The steps that only read.                                               *)
LEMMA IdleRelies ==
  ASSUME IInv
  PROVE  Idle \in Caller /\ Relies(Idle)
BY Facts, LimitsAssumption DEF Idle, Caller, Points, Reasons, Relies

LEMMA ReadKeeps ==
  ASSUME IInv, NEW p \in Callers, NEW pc \in {"offering", "gate"}, NEW point \in Points,
         Become(p, [Idle EXCEPT !.pc = pc, !.at = Tip, !.point = point]), Quiet
  PROVE  IInv'
<1> DEFINE r == [Idle EXCEPT !.pc = pc, !.at = Tip, !.point = point]
<1>1. r \in Caller /\ r.pc = pc /\ r.at = Tip
  <2>1. Idle \in Caller /\ Tip \in 0..MaxEvents
    BY IdleRelies, Facts, LimitsAssumption
  <2> QED  BY <2>1 DEF Caller
<1> HIDE DEF r
<1>2. Relies(r)
  BY <1>1, Facts DEF Relies
<1>3. Become(p, r)
  BY DEF r
<1> QED  BY <1>1, <1>2, <1>3, QuietKeeps

LEMMA FailKeeps ==
  ASSUME IInv, NEW p \in Callers, NEW reason \in Reasons, Fail(p, reason)
  PROVE  IInv'
<1> DEFINE r == [caller[p] EXCEPT !.pc = "failing", !.at = Tip, !.reason = reason]
<1>1. Become(p, r) /\ Quiet
  BY DEF Fail
<1>2. r \in Caller /\ r.pc = "failing" /\ r.at = Tip
  <2>1. caller[p] \in Caller /\ Tip \in 0..MaxEvents
    BY Facts, LimitsAssumption
  <2> QED  BY <2>1 DEF Caller
<1> HIDE DEF r
<1>3. Relies(r)
  BY <1>2, Facts DEF Relies
<1> QED  BY <1>1, <1>2, <1>3, QuietKeeps

LEMMA AcceptReplyKeeps ==
  ASSUME IInv, NEW p \in Callers, NEW tokens \in 0..1, AcceptReply(p, tokens)
  PROVE  IInv'
<1>1. CASE status = "active" /\ Tip = caller[p].offer
  <2> DEFINE r == [caller[p] EXCEPT !.pc = "offered", !.at = Tip, !.tokens = tokens]
  <2>1. Become(p, r) /\ Quiet /\ OfferStarted(Tip)
    BY <1>1, Facts DEF AcceptReply, Holds, Relies
  <2>2. r \in Caller /\ r.pc = "offered" /\ r.at = Tip /\ r.offer = Tip
    <3>1. caller[p] \in Caller /\ Tip \in 0..MaxEvents /\ caller[p].offer = Tip
      BY <1>1, Facts, LimitsAssumption
    <3> QED  BY <3>1 DEF Caller
  <2> HIDE DEF r
  <2>3. Relies(r)
    BY <2>1, <2>2, Facts DEF Relies
  <2> QED  BY <2>1, <2>2, <2>3, QuietKeeps
<1>2. CASE ~(status = "active" /\ Tip = caller[p].offer)
  BY <1>2, FailKeeps DEF AcceptReply, Reasons
<1> QED  BY <1>1, <1>2

LEMMA ReadToChooseKeeps ==
  ASSUME IInv, NEW p \in Callers, ReadToChoose(p)
  PROVE  IInv'
<1> DEFINE r == [Idle EXCEPT !.pc = "choosing", !.at = Tip,
                             !.offer = timeline[Tip].offer, !.point = timeline[Tip].point]
<1>1. Become(p, r) /\ Quiet
  BY DEF ReadToChoose
<1>2. Tip > 0 /\ timeline[Tip] \in Event /\ timeline[Tip].offer \notin Answered(timeline)
  BY Facts, OfferAtTipIsOpen DEF ReadToChoose, TypeOK, Tip
<1>3. /\ r \in Caller /\ r.pc = "choosing" /\ r.at = Tip
      /\ r.offer = timeline[Tip].offer
  <2>1. /\ Idle \in Caller /\ Tip \in 0..MaxEvents
        /\ timeline[Tip].offer \in 0..MaxEvents /\ timeline[Tip].point \in Points
    BY <1>2, IdleRelies, Facts, LimitsAssumption DEF Event
  <2> QED  BY <2>1 DEF Caller
<1> HIDE DEF r
<1>4. Relies(r)
  BY <1>2, <1>3, Facts DEF Relies
<1> QED  BY <1>1, <1>3, <1>4, QuietKeeps

LEMMA PassGateKeeps ==
  ASSUME IInv, NEW p \in Callers, PassGate(p)
  PROVE  IInv'
<1> DEFINE r == [caller[p] EXCEPT !.pc = "deciding"]
<1>1. Become(p, r) /\ Quiet /\ ConsultationAtTip(caller[p].point)
  BY DEF PassGate
<1>2. /\ r \in Caller /\ r.pc = "deciding" /\ r.at = caller[p].at
      /\ r.point = caller[p].point
  <2>1. caller[p] \in Caller
    BY Facts
  <2> QED  BY <2>1 DEF Caller
<1> HIDE DEF r
<1>3. Relies(r)
  BY <1>1, <1>2, Facts DEF Relies, Holds
<1> QED  BY <1>1, <1>2, <1>3, QuietKeeps

LEMMA GiveUpKeeps ==
  ASSUME IInv, NEW p \in Callers, Done(p), Quiet
  PROVE  IInv'
BY IdleRelies, QuietKeeps DEF Done

-----------------------------------------------------------------------------
(* The rest of the case, and the clock.                                    *)
LEMMA OtherKeeps ==
  ASSUME IInv, Other
  PROVE  IInv'
<1> DEFINE e == Says("other", 0, "probe")
<1>1. /\ Append1(e) /\ timeline' = Append(timeline, e) /\ caller' = caller
      /\ status' \in {"active", "paused", "closed"} /\ pending' \in BOOLEAN
  BY Facts DEF Other, Append1, TypeOK
<1>2. e \in Event /\ e.kind = "other"
  BY SaysIsAnEvent, LimitsAssumption DEF Kinds, Points
<1> HIDE DEF e
<1>3. TypeOK'
  <2>1. cooled' \in BOOLEAN /\ expired' \in BOOLEAN
    BY <1>1, Zenon DEF Append1
  <2>2. timeline' \in Seq(Event) /\ caller' \in [Callers -> Caller]
    BY <1>1, <1>2, Facts DEF TypeOK
  <2> QED  BY <1>1, <2>1, <2>2 DEF TypeOK
<1>4. \A q \in Callers : Holds(q)'
  BY <1>1, <1>2, Facts, OthersHold
<1>5. History'
  BY <1>1, <1>2, Facts, HistoryGrows DEF IInv
<1>6. Tip' <= MaxEvents
  BY <1>1, <1>2, Appended, LimitsAssumption
<1> QED  BY <1>3, <1>4, <1>5, <1>6 DEF IInv

LEMMA ClockKeeps ==
  ASSUME IInv, UNCHANGED <<status, pending, timeline, caller>>,
         cooled' \in BOOLEAN, expired' \in BOOLEAN
  PROVE  IInv'
<1>1. TypeOK'
  BY DEF IInv, TypeOK
<1>2. History'
  BY DEF IInv, History, EveryDecisionConsulted, Decisions, AdviceIsCurrent,
         AnsweredOnce, WaiversAreEarned
<1>3. \A q \in Callers : Holds(q)'
  BY Facts DEF Holds, Relies, OfferStarted, ConsultationAtTip, Tip
<1>4. Tip' <= MaxEvents
  BY Facts DEF Tip
<1> QED  BY <1>1, <1>2, <1>3, <1>4 DEF IInv

-----------------------------------------------------------------------------
(* The strengthening holds of the case before anything happened to it.     *)
THEOREM InitEstablishes == Init => IInv
<1> SUFFICES ASSUME Init PROVE IInv
  OBVIOUS
<1>1. timeline = <<>> /\ Tip = 0 /\ \A k : Of(k, timeline) = {}
  BY DEF Init, Tip, Of
<1>2. TypeOK
  <2>1. Idle \in Caller
    BY LimitsAssumption DEF Idle, Caller, Points, Reasons
  <2>2. timeline \in Seq(Event)
    BY <1>1
  <2>3. caller \in [Callers -> Caller]
    BY <2>1 DEF Init
  <2> QED  BY <2>2, <2>3 DEF Init, TypeOK
<1>3. \A p \in Callers : Holds(p)
  BY <1>1 DEF Init, Holds, Relies, Idle
<1>4. History
  BY <1>1 DEF History, EveryDecisionConsulted, Decisions, AdviceIsCurrent, AnsweredOnce,
              WaiversAreEarned
<1> QED  BY <1>1, <1>2, <1>3, <1>4, LimitsAssumption DEF IInv

(* Every step of a caller, of the rest of the case and of the clock keeps  *)
(* it.                                                                     *)
THEOREM NextKeeps == IInv /\ [Next]_vars => IInv'
<1> SUFFICES ASSUME IInv, [Next]_vars PROVE IInv'
  OBVIOUS
<1>1. ASSUME NEW p \in Callers, Step(p) PROVE IInv'
  <2>1. ASSUME NEW point \in Points, AskOffer(p, point) PROVE IInv'
    BY <2>1, ReadKeeps DEF AskOffer
  <2>2. ASSUME NEW point \in Points, ReadToDecide(p, point) PROVE IInv'
    BY <2>2, ReadKeeps DEF ReadToDecide
  <2>3. CASE StartOffer(p)
    BY <2>3, StartOfferKeeps
  <2>4. ASSUME NEW tokens \in 0..1, AcceptReply(p, tokens) PROVE IInv'
    BY <2>4, AcceptReplyKeeps
  <2>5. CASE CallFails(p)
    BY <2>5, FailKeeps DEF CallFails, Reasons
  <2>6. CASE RecordOffer(p)
    BY <2>6, RecordOfferKeeps
  <2>7. CASE LoseOffer(p)
    BY <2>7, FailKeeps DEF LoseOffer, Reasons
  <2>8. CASE RecordFailure(p)
    BY <2>8, RecordFailureKeeps
  <2>9. CASE ReadToChoose(p)
    BY <2>9, ReadToChooseKeeps
  <2>10. CASE Choose(p)
    BY <2>10, ChooseKeeps
  <2>11. CASE PassGate(p)
    BY <2>11, PassGateKeeps
  <2>12. CASE Excuse(p)
    BY <2>12, ExcuseKeeps
  <2>13. CASE Block(p) \/ LoseRace(p)
    BY <2>13, GiveUpKeeps DEF Block, LoseRace
  <2>14. CASE Decide(p)
    BY <2>14, DecideKeeps
  <2> QED  BY <1>1, <2>1, <2>2, <2>3, <2>4, <2>5, <2>6, <2>7, <2>8, <2>9, <2>10, <2>11,
              <2>12, <2>13, <2>14 DEF Step
<1>2. CASE Other
  BY <1>2, OtherKeeps
<1>3. CASE CooldownEnds \/ OfferExpires
  BY <1>3, ClockKeeps, Facts DEF CooldownEnds, OfferExpires, TypeOK
<1>4. CASE UNCHANGED vars
  BY <1>4, ClockKeeps, Facts DEF vars, TypeOK
<1> QED  BY <1>1, <1>2, <1>3, <1>4 DEF Next

(* The strengthening is an invariant.                                      *)
THEOREM Invariant == Spec => []IInv
BY InitEstablishes, NextKeeps, PTL DEF Spec

(* The state of a case and of its callers keeps its form.                  *)
THEOREM TypeCorrect == Spec => []TypeOK
<1>1. IInv => TypeOK
  BY DEF IInv
<1> QED  BY <1>1, Invariant, PTL

(* Every probe commit and closure directly follows a consultation for it   *)
(* (_ensure_consultation and the transition it guards).                    *)
THEOREM DecisionsAreConsulted == Spec => []EveryDecisionConsulted
<1>1. IInv => EveryDecisionConsulted
  BY DEF IInv, History
<1> QED  BY <1>1, Invariant, PTL

(* An offer is kept only if the case did not move while it was asked for   *)
(* (_commit_offer).                                                        *)
THEOREM OffersAreCurrent == Spec => []AdviceIsCurrent
<1>1. IInv => AdviceIsCurrent
  BY DEF IInv, History
<1> QED  BY <1>1, Invariant, PTL

(* No offer is chosen from twice (choose_method).                          *)
THEOREM OffersAreAnsweredOnce == Spec => []AnsweredOnce
<1>1. IInv => AnsweredOnce
  BY DEF IInv, History
<1> QED  BY <1>1, Invariant, PTL

(* The gate is waived for service failures only (_ensure_consultation).    *)
THEOREM GateIsWaivedForFailures == Spec => []WaiversAreEarned
<1>1. IInv => WaiversAreEarned
  BY DEF IInv, History
<1> QED  BY <1>1, Invariant, PTL
-----------------------------------------------------------------------------
(* The overrun of the budget.  A call counts when it ends, the limit is    *)
(* read before it starts: what bounds the overrun is that a start is       *)
(* refused unless the count it was allowed on is still the count, and that *)
(* a caller has one call at a time.                                        *)

(* The callers whose call has started and has not been recorded.           *)
Flying == {"calling", "offered", "failing"}
InFlight == {p \in Callers : caller[p].pc \in Flying}

(* The offers that count, and those that may yet count.                    *)
Spent == Attempts(timeline) \cup {caller[p].offer : p \in InFlight}

OverrunInv ==
  /\ \A p \in Callers :
       caller[p].pc = "offering" /\ Current(p) => Cardinality(Attempts(timeline)) < MaxCalls
  /\ Cardinality(Spent) < MaxCalls + Cardinality(Callers)

LEMMA SpentIsFinite ==
  ASSUME IInv
  PROVE  /\ IsFiniteSet(Spent) /\ Cardinality(Spent) \in Nat
         /\ IsFiniteSet(Attempts(timeline)) /\ Cardinality(Attempts(timeline)) \in Nat
         /\ Attempts(timeline) \subseteq Spent
         /\ Cardinality(Callers) \in Nat
<1>1. IsFiniteSet(0..MaxEvents)
  BY LimitsAssumption, FS_Interval
<1>2. \A i \in DOMAIN timeline : timeline[i] \in Event
  BY Facts DEF TypeOK
<1>3. Attempts(timeline) \subseteq 0..MaxEvents
  BY <1>2 DEF Attempts, Failures, Of, Event
<1>4. Spent \subseteq 0..MaxEvents
  BY <1>3, Facts DEF Spent, InFlight, Caller
<1>5. IsFiniteSet(Spent) /\ IsFiniteSet(Attempts(timeline))
  BY <1>1, <1>3, <1>4, FS_Subset
<1> QED  BY <1>5, CallersAssumption, FS_CardinalityType DEF Spent

(* What another event adds to the offers that count.                       *)
LEMMA AttemptsGrow ==
  ASSUME TypeOK, NEW e \in Event, timeline' = Append(timeline, e)
  PROVE  Attempts(timeline') \subseteq
           Attempts(timeline) \cup
             {o \in {e.offer} : e.kind = "method_offered" \/ Excusable(e)}
<1>1. /\ DOMAIN timeline = 1..Tip /\ DOMAIN timeline' = 1..(Tip + 1) /\ Tip \in Nat
      /\ timeline'[Tip + 1] = e /\ \A i \in 1..Tip : timeline'[i] = timeline[i]
  BY DEF TypeOK, Tip
<1>2. ASSUME NEW i \in DOMAIN timeline',
             timeline'[i].kind = "method_offered" \/ Excusable(timeline'[i])
      PROVE  timeline'[i].offer \in
               Attempts(timeline) \cup
                 {o \in {e.offer} : e.kind = "method_offered" \/ Excusable(e)}
  <2>1. CASE i = Tip + 1
    BY <1>1, <1>2, <2>1
  <2>2. CASE i \in DOMAIN timeline
    BY <1>1, <1>2, <2>2 DEF Attempts, Failures, Of
  <2> QED  BY <1>1, <2>1, <2>2
<1>3. ASSUME NEW o \in Attempts(timeline')
      PROVE  \E i \in DOMAIN timeline' :
               /\ o = timeline'[i].offer
               /\ timeline'[i].kind = "method_offered" \/ Excusable(timeline'[i])
  BY <1>3 DEF Attempts, Failures, Of
<1> QED  BY <1>2, <1>3

(* No offer begins to count or to fly: the bound stays.                    *)
LEMMA BoundStays ==
  ASSUME IInv, IInv', OverrunInv, Spent' \subseteq Spent
  PROVE  (Cardinality(Spent) < MaxCalls + Cardinality(Callers))'
<1>1. PICK now, then : now = Spent /\ then = Spent'
  OBVIOUS
<1>2. Cardinality(then) <= Cardinality(now) /\ Cardinality(now) \in Nat
  BY <1>1, SpentIsFinite, FS_Subset
<1>3. Cardinality(then) \in Nat
  BY <1>1, SpentIsFinite, FS_Subset, FS_CardinalityType
<1>4. Cardinality(now) < MaxCalls + Cardinality(Callers)
  BY <1>1 DEF OverrunInv
<1>5. Cardinality(then) < MaxCalls + Cardinality(Callers)
  BY <1>2, <1>3, <1>4, SpentIsFinite, LimitsAssumption
<1>6. Cardinality(Spent)' = Cardinality(then)
  BY <1>1
<1> QED  BY <1>5, <1>6

(* A caller reads, or gives up.                                            *)
LEMMA ReadingSpendsNothing ==
  ASSUME IInv, IInv', OverrunInv, NEW p \in Callers, NEW r \in Caller,
         Become(p, r), timeline' = timeline,
         r.pc = "offering" => Cardinality(Attempts(timeline)) < MaxCalls,
         r.pc \in Flying => caller[p].pc \in Flying /\ r.offer = caller[p].offer
  PROVE  OverrunInv'
<1>1. caller'[p] = r /\ \A q \in Callers \ {p} : caller'[q] = caller[q]
  BY Becomes
<1>2. ASSUME NEW q \in Callers, caller'[q].pc = "offering", Current(q)'
      PROVE  (Cardinality(Attempts(timeline)) < MaxCalls)'
  <2>1. \/ q = p /\ r.pc = "offering"
        \/ caller'[q] = caller[q]
    BY <1>1, <1>2
  <2> QED  BY <1>2, <2>1 DEF OverrunInv, Current, Tip
<1>3. Spent' \subseteq Spent
  <2>1. Attempts(timeline)' = Attempts(timeline)
    OBVIOUS
  <2>2. ASSUME NEW q \in Callers, caller'[q].pc \in Flying
        PROVE  caller[q].pc \in Flying /\ caller'[q].offer = caller[q].offer
    BY <1>1, <2>2
  <2> QED  BY <2>1, <2>2 DEF Spent, InFlight
<1> QED  BY <1>2, <1>3, BoundStays DEF OverrunInv

(* A caller, or anybody, appends what it was allowed to.                   *)
LEMMA RecordingSpendsNothing ==
  ASSUME IInv, IInv', OverrunInv, NEW e \in Event, timeline' = Append(timeline, e),
         \A q \in Callers :
           caller'[q] = caller[q] \/ caller'[q].pc \notin Flying \cup {"offering"},
         e.kind = "method_offered" \/ Excusable(e) => e.offer \in Spent
  PROVE  OverrunInv'
<1>1. Tip' = Tip + 1 /\ Tip \in Nat
  BY Facts DEF TypeOK, Tip
<1>2. ASSUME NEW q \in Callers, caller'[q].pc = "offering" PROVE ~Current(q)'
  <2>1. caller'[q] = caller[q] /\ caller[q].at \in 0..MaxEvents /\ caller[q].at <= Tip
    BY <1>2, Facts DEF Holds, Relies, Caller
  <2> QED  BY <1>1, <2>1 DEF Current
<1>3. Spent' \subseteq Spent
  <2>1. Attempts(timeline)' \subseteq Spent
    <3>1. TypeOK /\ Attempts(timeline) \subseteq Spent
      BY Facts, SpentIsFinite
    <3> QED  BY <3>1, AttemptsGrow
  <2>2. ASSUME NEW q \in Callers, caller'[q].pc \in Flying
        PROVE  caller[q].pc \in Flying /\ caller'[q].offer = caller[q].offer
    BY <2>2
  <2> QED  BY <2>1, <2>2 DEF Spent, InFlight
<1> QED  BY <1>2, <1>3, BoundStays DEF OverrunInv

(* A call starts: it was allowed below the limit, and no caller but those  *)
(* in flight can add to the count.                                         *)
LEMMA StartingSpendsOne ==
  ASSUME IInv, IInv', OverrunInv, NEW p \in Callers, StartOffer(p)
  PROVE  OverrunInv'
<1> DEFINE e == Says("method_offer_started", Tip + 1, caller[p].point)
           r == [caller[p] EXCEPT !.pc = "calling", !.at = 0, !.offer = Tip + 1]
<1>1. /\ timeline' = Append(timeline, e) /\ Become(p, r)
      /\ Tip \in Nat /\ Tip + 1 \in 0..MaxEvents /\ caller[p] \in Caller
      /\ Cardinality(Attempts(timeline)) < MaxCalls
  BY Facts DEF StartOffer, Transition, Append1, OverrunInv
<1>2. e \in Event /\ e.kind = "method_offer_started"
  BY <1>1, SaysIsAnEvent DEF Kinds, Caller
<1>3. r \in Caller /\ r.pc = "calling"
  <2>1. 0 \in 0..MaxEvents
    BY LimitsAssumption
  <2>2. caller[p] \in Caller /\ Tip \in Nat /\ Tip + 1 \in 0..MaxEvents
    BY <1>1
  <2> QED  BY <2>1, <2>2 DEF Caller
<1> HIDE DEF e, r
<1>4. caller'[p] = r /\ \A q \in Callers \ {p} : caller'[q] = caller[q]
  BY <1>1, <1>3, Becomes
<1>5. ASSUME NEW q \in Callers, caller'[q].pc = "offering" PROVE ~Current(q)'
  <2>1. Tip' = Tip + 1 /\ Tip \in Nat
    BY <1>1, <1>2, Facts DEF TypeOK, Tip
  <2>2. caller'[q] = caller[q] /\ caller[q].at \in 0..MaxEvents /\ caller[q].at <= Tip
    BY <1>3, <1>4, <1>5, Facts DEF Holds, Relies, Caller
  <2> QED  BY <2>1, <2>2 DEF Current
<1>6. PICK old, new : old = Attempts(timeline) /\ new = {caller'[q].offer : q \in InFlight'}
  OBVIOUS
<1>7. Spent' \subseteq old \cup new
  <2>1. Attempts(timeline)' \subseteq Attempts(timeline)
    BY <1>1, <1>2, Facts, AttemptsGrow DEF Excusable
  <2>2. Spent' = Attempts(timeline)' \cup {caller'[q].offer : q \in InFlight'}
    BY DEF Spent
  <2> QED  BY <1>6, <2>1, <2>2
<1>8. IsFiniteSet(new) /\ Cardinality(new) <= Cardinality(Callers)
  <2>1. PICK F : F = InFlight'
    OBVIOUS
  <2>2. F \subseteq Callers
    BY <2>1 DEF InFlight
  <2>3. IsFiniteSet(F) /\ Cardinality(F) <= Cardinality(Callers)
    BY <2>2, CallersAssumption, FS_Subset
  <2> DEFINE f == [q \in F |-> caller'[q].offer]
  <2>4. f \in Surjection(F, new)
    BY <1>6, <2>1 DEF Surjection
  <2>5. IsFiniteSet(new) /\ Cardinality(new) <= Cardinality(F)
    <3> HIDE DEF f
    <3> QED  BY <2>3, <2>4, FS_Surjection
  <2> QED  BY <2>3, <2>5, FS_CardinalityType, CallersAssumption
<1>9. /\ IsFiniteSet(old \cup new)
      /\ Cardinality(old \cup new) < MaxCalls + Cardinality(Callers)
  <2>1. IsFiniteSet(old) /\ Cardinality(old) < MaxCalls
    BY <1>1, <1>6, SpentIsFinite
  <2>2. Cardinality(old \cup new) = Cardinality(old) + Cardinality(new) - Cardinality(old \cap new)
        /\ IsFiniteSet(old \cup new)
    BY <1>8, <2>1, FS_Union
  <2>3. IsFiniteSet(old \cap new)
    BY <2>1, FS_Intersection
  <2>4. /\ Cardinality(old) \in Nat /\ Cardinality(new) \in Nat
        /\ Cardinality(old \cap new) \in Nat /\ Cardinality(Callers) \in Nat
    BY <1>8, <2>1, <2>3, CallersAssumption, FS_CardinalityType
  <2> QED  BY <1>8, <2>1, <2>2, <2>4, LimitsAssumption
<1>10. (Cardinality(Spent) < MaxCalls + Cardinality(Callers))'
  <2>1. PICK then : then = Spent'
    OBVIOUS
  <2>2. /\ Cardinality(then) <= Cardinality(old \cup new)
        /\ Cardinality(then) \in Nat /\ Cardinality(old \cup new) \in Nat
    BY <1>7, <1>9, <2>1, FS_Subset, FS_CardinalityType
  <2>3. Cardinality(then) < MaxCalls + Cardinality(Callers)
    BY <1>9, <2>2, SpentIsFinite, LimitsAssumption
  <2>4. Cardinality(Spent)' = Cardinality(then)
    BY <2>1
  <2> QED  BY <2>3, <2>4
<1> QED  BY <1>5, <1>10 DEF OverrunInv

(* What a caller in flight writes down was spent when it started.          *)
LEMMA WritingSpendsNothing ==
  ASSUME IInv, IInv', OverrunInv, NEW p \in Callers, NEW e \in Event, NEW r \in Caller,
         Append1(e), Become(p, r), r.pc \notin Flying \cup {"offering"},
         e.kind = "method_offered" \/ Excusable(e) =>
           caller[p].pc \in Flying /\ e.offer = caller[p].offer
  PROVE  OverrunInv'
<1>1. timeline' = Append(timeline, e)
  BY DEF Append1
<1>2. caller'[p] = r /\ \A q \in Callers \ {p} : caller'[q] = caller[q]
  BY Becomes
<1>3. e.kind = "method_offered" \/ Excusable(e) => e.offer \in Spent
  BY DEF Spent, InFlight
<1>4. \A q \in Callers :
        caller'[q] = caller[q] \/ caller'[q].pc \notin Flying \cup {"offering"}
  BY <1>2
<1> QED  BY <1>1, <1>3, <1>4, RecordingSpendsNothing

LEMMA IdleIsGrounded == IInv => Idle \in Caller /\ Idle.pc \notin Flying \cup {"offering"}
BY IdleRelies DEF Idle, Flying

LEMMA FailingSpendsNothing ==
  ASSUME IInv, IInv', OverrunInv, NEW p \in Callers, NEW reason \in Reasons, Fail(p, reason),
         caller[p].pc \in Flying
  PROVE  OverrunInv'
<1> DEFINE r == [caller[p] EXCEPT !.pc = "failing", !.at = Tip, !.reason = reason]
<1>1. Become(p, r) /\ timeline' = timeline
  BY DEF Fail, Quiet
<1>2. r \in Caller /\ r.pc = "failing" /\ r.offer = caller[p].offer
  <2>1. caller[p] \in Caller /\ Tip \in 0..MaxEvents
    BY Facts, LimitsAssumption
  <2> QED  BY <2>1 DEF Caller
<1> HIDE DEF r
<1> QED  BY <1>1, <1>2, ReadingSpendsNothing

LEMMA CallerSpends ==
  ASSUME IInv, IInv', OverrunInv, NEW p \in Callers, Step(p)
  PROVE  OverrunInv'
<1>0. caller[p] \in Caller /\ Tip \in 0..MaxEvents /\ Idle \in Caller
      /\ 0 \in 0..MaxEvents
  BY Facts, IdleRelies, LimitsAssumption
<1>1. ASSUME NEW point \in Points, AskOffer(p, point) \/ ReadToDecide(p, point)
      PROVE  OverrunInv'
  <2>1. PICK pc \in {"offering", "gate"} :
          /\ Become(p, [Idle EXCEPT !.pc = pc, !.at = Tip, !.point = point])
          /\ timeline' = timeline
          /\ pc = "offering" => Cardinality(Attempts(timeline)) < MaxCalls
    BY <1>1 DEF AskOffer, ReadToDecide, Quiet, WithinBudget
  <2> DEFINE r == [Idle EXCEPT !.pc = pc, !.at = Tip, !.point = point]
  <2>2. r \in Caller /\ r.pc = pc
    BY <1>0 DEF Caller
  <2>3. Become(p, r)
    BY <2>1
  <2>4. r.pc \notin Flying
    BY <2>2 DEF Flying
  <2> HIDE DEF r
  <2> QED  BY <2>1, <2>2, <2>3, <2>4, ReadingSpendsNothing
<1>2. CASE StartOffer(p)
  BY <1>2, StartingSpendsOne
<1>3. ASSUME NEW tokens \in 0..1, AcceptReply(p, tokens) PROVE OverrunInv'
  <2>1. CASE status = "active" /\ Tip = caller[p].offer
    <3> DEFINE r == [caller[p] EXCEPT !.pc = "offered", !.at = Tip, !.tokens = tokens]
    <3>1. Become(p, r) /\ timeline' = timeline /\ caller[p].pc \in Flying
      BY <1>3, <2>1 DEF AcceptReply, Quiet, Flying
    <3>2. r \in Caller /\ r.pc = "offered" /\ r.offer = caller[p].offer
      BY <1>0 DEF Caller
    <3> HIDE DEF r
    <3> QED  BY <3>1, <3>2, ReadingSpendsNothing
  <2>2. CASE ~(status = "active" /\ Tip = caller[p].offer)
    BY <1>3, <2>2, FailingSpendsNothing DEF AcceptReply, Reasons, Flying
  <2> QED  BY <2>1, <2>2
<1>4. CASE CallFails(p) \/ LoseOffer(p)
  BY <1>4, FailingSpendsNothing DEF CallFails, LoseOffer, Reasons, Flying
<1>5. CASE RecordOffer(p)
  <2> DEFINE e == [Says("method_offered", caller[p].offer, caller[p].point)
                     EXCEPT !.tokens = caller[p].tokens]
  <2>1. Append1(e) /\ Become(p, Idle) /\ caller[p].pc \in Flying
    BY <1>5 DEF RecordOffer, Transition, Done, Flying
  <2>2. e \in Event /\ e.offer = caller[p].offer
    BY <1>0 DEF Says, Event, Kinds, Caller, Reasons
  <2> HIDE DEF e
  <2> QED  BY <2>1, <2>2, IdleIsGrounded, WritingSpendsNothing
<1>6. CASE RecordFailure(p)
  <2> DEFINE e == [Says("method_offer_failed", caller[p].offer, caller[p].point)
                     EXCEPT !.reason = caller[p].reason]
  <2>1. Append1(e) /\ Become(p, Idle) /\ caller[p].pc \in Flying
    BY <1>6 DEF RecordFailure, Transition, Done, Flying
  <2>2. e \in Event /\ e.offer = caller[p].offer
    BY <1>0 DEF Says, Event, Kinds, Caller
  <2> HIDE DEF e
  <2> QED  BY <2>1, <2>2, IdleIsGrounded, WritingSpendsNothing
<1>7. CASE ReadToChoose(p)
  <2> DEFINE r == [Idle EXCEPT !.pc = "choosing", !.at = Tip,
                               !.offer = timeline[Tip].offer, !.point = timeline[Tip].point]
  <2>1. Become(p, r) /\ timeline' = timeline
    BY <1>7 DEF ReadToChoose, Quiet
  <2>2. timeline[Tip] \in Event
    BY <1>7, Facts, OfferAtTipIsOpen DEF ReadToChoose, TypeOK, Tip
  <2>3. r \in Caller /\ r.pc = "choosing"
    BY <1>0, <2>2 DEF Caller, Event
  <2>4. r.pc \notin Flying /\ r.pc # "offering"
    BY <2>3 DEF Flying
  <2> HIDE DEF r
  <2> QED  BY <2>1, <2>3, <2>4, ReadingSpendsNothing
<1>8. CASE Choose(p)
  <2> DEFINE e == Says("method_chosen", caller[p].offer, caller[p].point)
  <2>1. Append1(e) /\ Become(p, Idle)
    BY <1>8 DEF Choose, Transition, Done
  <2>2. e \in Event /\ e.kind = "method_chosen"
    BY <1>0, SaysIsAnEvent DEF Kinds, Caller
  <2> HIDE DEF e
  <2> QED  BY <2>1, <2>2, IdleIsGrounded, WritingSpendsNothing DEF Excusable
<1>9. CASE PassGate(p)
  <2> DEFINE r == [caller[p] EXCEPT !.pc = "deciding"]
  <2>1. Become(p, r) /\ timeline' = timeline
    BY <1>9 DEF PassGate, Quiet
  <2>2. r \in Caller /\ r.pc = "deciding"
    BY <1>0 DEF Caller
  <2>3. r.pc \notin Flying /\ r.pc # "offering"
    BY <2>2 DEF Flying
  <2> HIDE DEF r
  <2> QED  BY <2>1, <2>2, <2>3, ReadingSpendsNothing
<1>10. CASE Excuse(p)
  <2> DEFINE e == Says("method_consultation_excused", 0, caller[p].point)
             r == [caller[p] EXCEPT !.pc = "deciding", !.at = Tip + 1]
  <2>1. Append1(e) /\ Become(p, r) /\ Tip + 1 \in 0..MaxEvents
    BY <1>10, Facts DEF Excuse, Transition, Append1
  <2>2. e \in Event /\ e.kind = "method_consultation_excused"
    BY <1>0, SaysIsAnEvent DEF Kinds, Caller
  <2>3. r \in Caller /\ r.pc = "deciding"
    BY <1>0, <2>1 DEF Caller
  <2>4. r.pc \notin Flying \cup {"offering"}
    BY <2>3 DEF Flying
  <2> HIDE DEF e, r
  <2> QED  BY <2>1, <2>2, <2>3, <2>4, WritingSpendsNothing DEF Excusable
<1>11. CASE Decide(p)
  <2>1. PICK kind \in {"probe_committed", "case_closed"}, point \in Points :
          Append1(Says(kind, 0, point)) /\ Become(p, Idle)
    BY <1>11 DEF Decide, Transition, Done, Points
  <2> DEFINE e == Says(kind, 0, point)
  <2>2. e \in Event /\ e.kind = kind
    BY <1>0, SaysIsAnEvent DEF Kinds
  <2>3. Append1(e)
    BY <2>1
  <2> HIDE DEF e
  <2> QED  BY <2>1, <2>2, <2>3, IdleIsGrounded, WritingSpendsNothing DEF Excusable
<1>12. CASE Block(p) \/ LoseRace(p)
  <2>1. Become(p, Idle) /\ timeline' = timeline
    BY <1>12 DEF Block, LoseRace, Done, Quiet
  <2> QED  BY <2>1, IdleIsGrounded, ReadingSpendsNothing
<1> QED  BY <1>1, <1>2, <1>3, <1>4, <1>5, <1>6, <1>7, <1>8, <1>9, <1>10, <1>11, <1>12
         DEF Step

LEMMA ClockSpendsNothing ==
  ASSUME IInv, IInv', OverrunInv, UNCHANGED <<timeline, caller>>
  PROVE  OverrunInv'
BY DEF OverrunInv, Spent, InFlight, Current, Tip

LEMMA OtherSpendsNothing ==
  ASSUME IInv, IInv', OverrunInv, Other
  PROVE  OverrunInv'
<1> DEFINE e == Says("other", 0, "probe")
<1>1. timeline' = Append(timeline, e) /\ caller' = caller
  BY DEF Other, Append1
<1>2. e \in Event /\ e.kind = "other"
  BY SaysIsAnEvent, LimitsAssumption DEF Kinds, Points
<1> HIDE DEF e
<1> QED  BY <1>1, <1>2, RecordingSpendsNothing DEF Excusable

(* However many callers overlap, the attempts of a case exceed the limit   *)
(* by less than their number (methods: budget_used against                 *)
(* max_calls_per_case before method_offer_started, the attempt counted     *)
(* when the call ends).                                                    *)
THEOREM OverrunsAreBounded == Spec => []OverrunIsBounded
<1>1. Init => OverrunInv
  <2> SUFFICES ASSUME Init PROVE OverrunInv
    OBVIOUS
  <2>1. Spent = {} /\ Attempts(timeline) = {}
    BY DEF Init, Spent, InFlight, Flying, Idle, Attempts, Failures, Of
  <2> QED  BY <2>1, FS_EmptySet, CallersAssumption, FS_CardinalityType, LimitsAssumption
           DEF Init, OverrunInv, Idle
<1>2. IInv /\ IInv' /\ OverrunInv /\ [Next]_vars => OverrunInv'
  <2>1. ASSUME IInv, IInv', OverrunInv, CooldownEnds \/ OfferExpires \/ UNCHANGED vars
        PROVE  OverrunInv'
    BY <2>1, ClockSpendsNothing DEF CooldownEnds, OfferExpires, vars
  <2> QED  BY <2>1, CallerSpends, OtherSpendsNothing DEF Next
<1>3. IInv /\ OverrunInv => OverrunIsBounded
  <2> SUFFICES ASSUME IInv, OverrunInv PROVE OverrunIsBounded
    OBVIOUS
  <2>1. Cardinality(Attempts(timeline)) <= Cardinality(Spent)
    BY SpentIsFinite, FS_Subset
  <2> QED  BY <2>1, SpentIsFinite, LimitsAssumption DEF OverrunInv, OverrunIsBounded
<1> QED  BY <1>1, <1>2, <1>3, Invariant, PTL DEF Spec

-----------------------------------------------------------------------------
(* The transport under the offers (WorkerSlots): the slots of the client   *)
(* are conserved, however many there are and however many calls are made.  *)
(* The strengthening says that a call takes its slot before its thread     *)
(* exists, so no call has it twice, and that finitely many slots are out,  *)
(* so that they can be counted.                                            *)

SlotsOut == Claims \cup Holders

SlotBeforeThread == \A k \in Calls : client[k] \in {"idle", "acquired"} => worker[k] = "none"

SlotsCounted == IsFiniteSet(SlotsOut) /\ free + Cardinality(SlotsOut) = Slots

SlotsInv == SlotsTypeOK /\ SlotBeforeThread /\ SlotsCounted

-----------------------------------------------------------------------------
(* The slots a call may be counted with are a number.                      *)
LEMMA SlotFacts ==
  ASSUME SlotsInv
  PROVE  /\ free \in Nat /\ Slots \in Nat /\ Cardinality(SlotsOut) \in Nat
         /\ IsFiniteSet(SlotsOut) /\ free + Cardinality(SlotsOut) = Slots
         /\ SlotsOut = {k \in Calls : \/ client[k] = "acquired"
                                 \/ worker[k] \in {"ready", "reading", "fetched"}}
BY FS_CardinalityType, SlotsAssumption
   DEF SlotsInv, SlotsTypeOK, SlotsCounted, SlotsOut, Claims, Holders

(* A slot is taken by a call that had none.                                *)
LEMMA SlotTaken ==
  ASSUME SlotsInv, NEW k \in Calls, k \notin SlotsOut,
         SlotsOut' = SlotsOut \cup {k}, free > 0, free' = free - 1
  PROVE  SlotsCounted' /\ free' \in 0..Slots
<1>1. IsFiniteSet(SlotsOut \cup {k}) /\ Cardinality(SlotsOut \cup {k}) = Cardinality(SlotsOut) + 1
  BY SlotFacts, FS_AddElement
<1>2. SlotsCounted'
  <2>1. free' + (Cardinality(SlotsOut) + 1) = Slots
    BY SlotFacts
  <2> QED  BY <1>1, <2>1 DEF SlotsCounted
<1> QED  BY <1>2, SlotFacts DEF SlotsInv, SlotsTypeOK

(* A slot is given back by the call that had it.                           *)
LEMMA SlotGivenBack ==
  ASSUME SlotsInv, NEW k \in SlotsOut, SlotsOut' = SlotsOut \ {k}, free' = free + 1
  PROVE  SlotsCounted' /\ free' \in 0..Slots
<1>1. IsFiniteSet(SlotsOut \ {k}) /\ Cardinality(SlotsOut \ {k}) = Cardinality(SlotsOut) - 1
  BY SlotFacts, FS_RemoveElement
<1>2. Cardinality(SlotsOut \ {k}) \in Nat
  BY <1>1, FS_CardinalityType
<1>3. free' + Cardinality(SlotsOut \ {k}) = Slots
  BY <1>1, SlotFacts
<1>4. SlotsCounted'
  BY <1>1, <1>3 DEF SlotsCounted
<1> QED  BY <1>2, <1>3, <1>4, SlotFacts

(* Nobody's slot changes hands.                                            *)
LEMMA SlotsKept ==
  ASSUME SlotsInv, SlotsOut' = SlotsOut, free' = free
  PROVE  SlotsCounted' /\ free' \in 0..Slots
BY DEF SlotsInv, SlotsCounted, SlotsTypeOK

-----------------------------------------------------------------------------
(* With every slot free, nothing is out.                                   *)
THEOREM SlotsInitEstablishes ==
  ASSUME SlotsInit
  PROVE  SlotsInv
<1>1. SlotsTypeOK /\ SlotBeforeThread
  BY SlotsAssumption
     DEF SlotsInit, SlotsTypeOK, SlotBeforeThread, CallerSteps,
         WorkerSteps, Outcomes, Answers
<1>2. SlotsOut = {}
  BY DEF SlotsInit, SlotsOut, Claims, Holders
<1> QED  BY <1>1, <1>2, FS_EmptySet, SlotsAssumption DEF SlotsInit, SlotsInv, SlotsCounted

(* Every step of a caller or of its worker keeps the count.                *)
THEOREM SlotsNextKeeps == SlotsInv /\ [SlotsNext]_svars => SlotsInv'
<1> SUFFICES ASSUME SlotsInv, [SlotsNext]_svars PROVE SlotsInv'
  OBVIOUS
<1> USE DEF CallerSteps, WorkerSteps, Outcomes, Answers
<1>1. ASSUME NEW k \in Calls, Acquire(k) PROVE SlotsInv'
  <2>1. CASE free > 0
    <3>1. SlotsOut' = SlotsOut \cup {k} /\ k \notin SlotsOut
      BY <1>1, <2>1
         DEF Acquire, Moves, SlotsInv, SlotsTypeOK,
             SlotBeforeThread, SlotsOut, Claims, Holders
    <3>2. SlotsCounted' /\ free' \in 0..Slots
      BY <1>1, <2>1, <3>1, SlotTaken DEF Acquire
    <3> QED  BY <1>1, <2>1, <3>2
       DEF Acquire, Moves, SlotsInv, SlotsTypeOK,
           SlotBeforeThread
  <2>2. CASE ~(free > 0)
    <3>1. SlotsOut' = SlotsOut
      BY <1>1, <2>2
         DEF Acquire, Answer, Moves, SlotsInv,
             SlotsTypeOK, SlotsOut, Claims, Holders
    <3> QED  BY <1>1, <2>2, <3>1, SlotsKept
       DEF Acquire, Answer, Moves, SlotsInv,
           SlotsTypeOK, SlotBeforeThread
  <2> QED  BY <2>1, <2>2
<1>2. ASSUME NEW k \in Calls, Start(k) PROVE SlotsInv'
  <2>1. SlotsOut' = SlotsOut
    BY <1>2
       DEF Start, Moves, Runs, SlotsInv, SlotsTypeOK,
           SlotsOut, Claims, Holders
  <2> QED  BY <1>2, <2>1, SlotsKept
     DEF Start, Moves, Runs, SlotsInv, SlotsTypeOK,
         SlotBeforeThread
<1>3. ASSUME NEW k \in Calls, StartFails(k) PROVE SlotsInv'
  <2>1. k \in SlotsOut /\ SlotsOut' = SlotsOut \ {k}
    BY <1>3
       DEF StartFails, Answer, Moves, SlotsInv,
           SlotsTypeOK, SlotBeforeThread, SlotsOut, Claims,
           Holders
  <2>2. SlotsCounted' /\ free' \in 0..Slots
    BY <1>3, <2>1, SlotGivenBack DEF StartFails
  <2> QED  BY <1>3, <2>2
     DEF StartFails, Answer, Moves, SlotsInv,
         SlotsTypeOK, SlotBeforeThread
<1>4. ASSUME NEW k \in Calls, Joined(k) PROVE SlotsInv'
  <2>1. SlotsOut' = SlotsOut
    BY <1>4
       DEF Joined, Answer, Moves, SlotsInv,
           SlotsTypeOK, SlotsOut, Claims, Holders
  <2> QED  BY <1>4, <2>1, SlotsKept
     DEF Joined, Answer, Moves, SlotsInv, SlotsTypeOK,
         SlotBeforeThread
<1>5. ASSUME NEW k \in Calls, TimesOut(k) PROVE SlotsInv'
  <2>1. SlotsOut' = SlotsOut
    BY <1>5
       DEF TimesOut, Answer, Moves, SlotsInv,
           SlotsTypeOK, SlotsOut, Claims, Holders
  <2> QED  BY <1>5, <2>1, SlotsKept
     DEF TimesOut, Answer, Moves, SlotsInv,
         SlotsTypeOK, SlotBeforeThread
<1>6. ASSUME NEW k \in Calls, Connect(k) PROVE SlotsInv'
  <2>1. SlotsOut' = SlotsOut
    BY <1>6
       DEF Connect, Fetched, Runs, SlotsInv,
           SlotsTypeOK, SlotsOut, Claims, Holders
  <2> QED  BY <1>6, <2>1, SlotsKept
     DEF Connect, Fetched, Runs, SlotsInv, SlotsTypeOK,
         SlotBeforeThread
<1>7. ASSUME NEW k \in Calls, Read(k) PROVE SlotsInv'
  <2>1. SlotsOut' = SlotsOut
    BY <1>7
       DEF Read, Fetched, Runs, SlotsInv, SlotsTypeOK,
           SlotsOut, Claims, Holders
  <2> QED  BY <1>7, <2>1, SlotsKept
     DEF Read, Fetched, Runs, SlotsInv, SlotsTypeOK,
         SlotBeforeThread
<1>8. ASSUME NEW k \in Calls, Release(k) PROVE SlotsInv'
  <2>1. k \in SlotsOut /\ SlotsOut' = SlotsOut \ {k}
    BY <1>8
       DEF Release, Runs, SlotsInv, SlotsTypeOK,
           SlotBeforeThread, SlotsOut, Claims, Holders
  <2>2. SlotsCounted' /\ free' \in 0..Slots
    BY <1>8, <2>1, SlotGivenBack DEF Release
  <2> QED  BY <1>8, <2>2
     DEF Release, Runs, SlotsInv, SlotsTypeOK, SlotBeforeThread
<1>9. CASE UNCHANGED svars
  BY <1>9
     DEF svars, SlotsInv, SlotsTypeOK, SlotBeforeThread, SlotsCounted,
         SlotsOut, Claims, Holders
<1> QED  BY <1>1, <1>2, <1>3, <1>4, <1>5, <1>6, <1>7, <1>8, <1>9 DEF SlotsNext

(* The strengthening is an invariant.                                      *)
THEOREM SlotsInvariant == SlotsSpec => []SlotsInv
BY SlotsInitEstablishes, SlotsNextKeeps, PTL DEF SlotsSpec

(* The semaphore never passes its size and every call keeps its form.      *)
THEOREM SlotsTypeCorrect == SlotsSpec => []SlotsTypeOK
<1>1. SlotsInv => SlotsTypeOK
  BY DEF SlotsInv
<1> QED  BY <1>1, SlotsInvariant, PTL

(* No slot is lost and none is handed out twice (jev.call).                *)
THEOREM SlotsConservation == SlotsSpec => []SlotsAreConserved
<1>1. SlotsInv => SlotsAreConserved
  BY
     DEF SlotsInv, SlotBeforeThread, SlotsCounted, SlotsAreConserved,
         Cardinality, Cardinality, SlotsOut, Claims, Holders
<1> QED  BY <1>1, SlotsInvariant, PTL
=============================================================================
