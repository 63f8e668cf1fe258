------------------------- MODULE MethodConsultation -------------------------
(***************************************************************************)
(* The optional hosted method advice of one case (harness.methods, the     *)
(* gate _ensure_consultation, and the Timeline readers of methods.py), as  *)
(* it behaves when it is enabled.                                          *)
(*                                                                         *)
(* Several callers share the case.  An offer is asked for with no lock     *)
(* held: between the method_offer_started that opens a call and the event  *)
(* that ends it, anybody may append to the Timeline.  A decision (a probe  *)
(* commit or the closure) needs a consultation at the tip of the Timeline, *)
(* and appending it is a second transition after the gate was passed.      *)
(*                                                                         *)
(* Abstractions: the case is its status, whether a probe is pending, and   *)
(* its revision, which is the length of the Timeline.  An event's identity *)
(* is its position, an offer's the position of its method_offer_started.   *)
(* Of the vendor's reply only the outcome and the token count are kept.    *)
(* Reading a case and then its Timeline is one step: if an event came in   *)
(* between, the write that follows is refused.  Of the clock two facts are *)
(* kept: whether the newest service failure is older than cooldown_s, and  *)
(* whether the offer at the tip has outlived its expires_at.               *)
(***************************************************************************)
EXTENDS Naturals, Sequences, FiniteSets, SequencesExt

CONSTANTS
  Callers,         \* threads of control that use the case's tools
  MaxCalls,        \* max_calls_per_case
  MaxTokens,       \* max_input_tokens_per_case
  MaxConsecutive,  \* max_consecutive_failures
  MaxEvents        \* bound: events of the Timeline

ASSUME CallersAssumption == IsFiniteSet(Callers)

ASSUME LimitsAssumption ==
  /\ MaxCalls \in Nat \ {0}
  /\ MaxTokens \in Nat
  /\ MaxConsecutive \in Nat \ {0}
  /\ MaxEvents \in Nat

VARIABLES
  status,       \* the case's status
  pending,      \* a probe is pending
  timeline,     \* the events of the case
  cooled,       \* the newest service failure is older than cooldown_s
  expired,      \* the offer at the tip is past its expires_at
  caller        \* caller[p]: the operation p is in

vars == <<status, pending, timeline, cooled, expired, caller>>

-----------------------------------------------------------------------------
Points == {"probe", "close"}

(* EXCUSABLE_FAILURES; failures that are the caller's or a credential's    *)
(* fault or a local shortage (busy); and a reply the case had moved past.  *)
Reasons == {"service", "fault", "state"}

Kinds == {"method_offer_started", "method_offered", "method_chosen", "method_offer_failed",
          "method_consultation_excused", "probe_committed", "case_closed", "other"}

(* offer is 0, point "probe", reason "state" and tokens 0 on events they   *)
(* mean nothing to.                                                        *)
Event == [kind : Kinds, offer : 0..MaxEvents, point : Points, reason : Reasons, tokens : 0..1]

Says(kind, offer, point) ==
  [kind |-> kind, offer |-> offer, point |-> point, reason |-> "state", tokens |-> 0]

Idle == [pc |-> "idle", at |-> 0, offer |-> 0, point |-> "probe", reason |-> "state", tokens |-> 0]

(* at: the revision of the copy the caller holds.                          *)
Caller == [pc : {"idle", "offering", "calling", "offered", "failing", "choosing",
                 "gate", "deciding"},
           at : 0..MaxEvents, offer : 0..MaxEvents, point : Points, reason : Reasons,
           tokens : 0..1]

TypeOK ==
  /\ status \in {"active", "paused", "closed"}
  /\ pending \in BOOLEAN
  /\ timeline \in Seq(Event)
  /\ cooled \in BOOLEAN /\ expired \in BOOLEAN
  /\ caller \in [Callers -> Caller]

-----------------------------------------------------------------------------
(* Readers of the Timeline (methods.py).                                   *)

Tip == Len(timeline)

Of(kind, events) == {i \in DOMAIN events : events[i].kind = kind}

Answered(events) == {events[i].offer : i \in Of("method_chosen", events)}

(* The newest offer nobody has answered, 0 when there is none.             *)
CurrentOffer(events) ==
  LET open == {i \in Of("method_offered", events) : events[i].offer \notin Answered(events)}
  IN IF open = {} THEN 0 ELSE CHOOSE i \in open : \A j \in open : j <= i

ValidCurrentOffer ==
  /\ CurrentOffer(timeline) # 0
  /\ CurrentOffer(timeline) = Tip
  /\ ~expired

Excusable(event) == event.kind = "method_offer_failed" /\ event.reason = "service"

IsConsultation(event, point) ==
  /\ event.point = point
  /\ \/ event.kind \in {"method_chosen", "method_consultation_excused"}
     \/ Excusable(event)

ConsultationAtTip(point) == Tip > 0 /\ IsConsultation(timeline[Tip], point)

Failures(events) == {events[i].offer : i \in {j \in DOMAIN events : Excusable(events[j])}}

Attempts(events) ==
  {events[i].offer : i \in Of("method_offered", events)} \cup Failures(events)

TokensUsed(events) == FoldSeq(LAMBDA event, sum : event.tokens + sum, 0, events)

(* Trailing excusable failures, and the newest of them: the run ends at an *)
(* offer or at a failure that is not excusable.                            *)
Streak(events) ==
  {i \in DOMAIN events :
     /\ Excusable(events[i])
     /\ \A j \in i..Len(events) :
          /\ events[j].kind # "method_offered"
          /\ events[j].kind = "method_offer_failed" => Excusable(events[j])}

InCooldown ==
  /\ Cardinality(Streak(timeline)) >= MaxConsecutive
  /\ ~cooled

-----------------------------------------------------------------------------
(* A caller's steps.                                                       *)

(* Faulty: writes back whatever the revision.                              *)
AnyRevision(p) == TRUE

Current(p) == caller[p].at = Tip

Append1(event) ==
  /\ Tip < MaxEvents
  /\ timeline' = Append(timeline, event)
  /\ cooled' = (cooled /\ ~Excusable(event))
  /\ expired' = FALSE

Transition(p, event) == Current(p) /\ Append1(event)

Become(p, me) == caller' = [caller EXCEPT ![p] = me]

Done(p) == Become(p, Idle)

Settled == UNCHANGED <<status, pending>>

Quiet == UNCHANGED <<status, pending, timeline, cooled, expired>>

(* Faulty: one more call than the limit.                                   *)
WithinBudgetPlusOne ==
  /\ Cardinality(Attempts(timeline)) <= MaxCalls
  /\ TokensUsed(timeline) < MaxTokens

WithinBudget ==
  /\ Cardinality(Attempts(timeline)) < MaxCalls
  /\ TokensUsed(timeline) < MaxTokens

AskOffer(p, point) ==
  /\ caller[p].pc = "idle"
  /\ status = "active"
  /\ ~pending
  /\ WithinBudget
  /\ ~ValidCurrentOffer
  /\ ~InCooldown
  /\ Become(p, [Idle EXCEPT !.pc = "offering", !.at = Tip, !.point = point])
  /\ Quiet

(* A lost race here ends the operation before anything was sent.           *)
StartOffer(p) ==
  /\ caller[p].pc = "offering"
  /\ Transition(p, Says("method_offer_started", Tip + 1, caller[p].point))
  /\ Become(p, [caller[p] EXCEPT !.pc = "calling", !.at = 0, !.offer = Tip + 1])
  /\ Settled

(* _record_method_failure reads the case afresh, in whatever status, and   *)
(* then writes it.                                                         *)
Fail(p, reason) ==
  /\ Become(p, [caller[p] EXCEPT !.pc = "failing", !.at = Tip, !.reason = reason])
  /\ Quiet

CallFails(p) ==
  /\ caller[p].pc = "calling"
  /\ \E reason \in {"service", "fault"} : Fail(p, reason)

(* Faulty: keeps a reply about a case that has moved on.                   *)
AcceptLate(p, tokens) ==
  /\ caller[p].pc = "calling"
  /\ status = "active"
  /\ Become(p, [caller[p] EXCEPT !.pc = "offered", !.at = Tip, !.tokens = tokens])
  /\ Quiet

(* _commit_offer: the reply counts only if the Timeline has not moved      *)
(* since method_offer_started.                                             *)
AcceptReply(p, tokens) ==
  /\ caller[p].pc = "calling"
  /\ IF status = "active" /\ Tip = caller[p].offer
       THEN /\ Become(p, [caller[p] EXCEPT !.pc = "offered", !.at = Tip,
                                           !.tokens = tokens])
            /\ Quiet
       ELSE Fail(p, "state")

RecordOffer(p) ==
  /\ caller[p].pc = "offered"
  /\ Transition(p, [Says("method_offered", caller[p].offer, caller[p].point)
                      EXCEPT !.tokens = caller[p].tokens])
  /\ Done(p)
  /\ Settled

LoseOffer(p) ==
  /\ caller[p].pc = "offered"
  /\ ~Current(p)
  /\ Fail(p, "state")

RecordFailure(p) ==
  /\ caller[p].pc = "failing"
  /\ Transition(p, [Says("method_offer_failed", caller[p].offer, caller[p].point)
                      EXCEPT !.reason = caller[p].reason])
  /\ Done(p)
  /\ Settled

ReadToChoose(p) ==
  /\ caller[p].pc = "idle"
  /\ status = "active"
  /\ ValidCurrentOffer
  /\ Become(p, [Idle EXCEPT !.pc = "choosing", !.at = Tip,
                            !.offer = timeline[Tip].offer, !.point = timeline[Tip].point])
  /\ Quiet

Choose(p) ==
  /\ caller[p].pc = "choosing"
  /\ Transition(p, Says("method_chosen", caller[p].offer, caller[p].point))
  /\ Done(p)
  /\ Settled

(* A decision reads the case, settled, and comes to the gate later.        *)
ReadToDecide(p, point) ==
  /\ caller[p].pc = "idle"
  /\ status = "active"
  /\ ~pending
  /\ Become(p, [Idle EXCEPT !.pc = "gate", !.at = Tip, !.point = point])
  /\ Quiet

(* Faulty: lets a spent attempt budget excuse, whoever spent it.           *)
WaiverForSpending ==
  \/ Cardinality(Attempts(timeline)) >= MaxCalls
  \/ TokensUsed(timeline) < MaxTokens /\ InCooldown

(* The attempt limit is spent on service failures, or the service is       *)
(* cooling down; a spent token budget blocks.                              *)
Waiver ==
  \/ Cardinality(Failures(timeline)) >= MaxCalls
  \/ TokensUsed(timeline) < MaxTokens /\ InCooldown

PassGate(p) ==
  /\ caller[p].pc = "gate"
  /\ ConsultationAtTip(caller[p].point)
  /\ Become(p, [caller[p] EXCEPT !.pc = "deciding"])
  /\ Quiet

Excuse(p) ==
  /\ caller[p].pc = "gate"
  /\ ~ConsultationAtTip(caller[p].point)
  /\ ~ValidCurrentOffer
  /\ Waiver
  /\ Transition(p, Says("method_consultation_excused", 0, caller[p].point))
  /\ Become(p, [caller[p] EXCEPT !.pc = "deciding", !.at = Tip + 1])
  /\ Settled

Block(p) ==
  /\ caller[p].pc = "gate"
  /\ ~ConsultationAtTip(caller[p].point)
  /\ ValidCurrentOffer \/ ~Waiver
  /\ Done(p)
  /\ Quiet

Decide(p) ==
  /\ caller[p].pc = "deciding"
  /\ Done(p)
  /\ \/ /\ caller[p].point = "probe"
        /\ Transition(p, Says("probe_committed", 0, "probe"))
        /\ pending' = TRUE
        /\ UNCHANGED status
     \/ /\ caller[p].point = "close"
        /\ Transition(p, Says("case_closed", 0, "close"))
        /\ status' = "closed"
        /\ UNCHANGED pending

(* A write from a stale copy is refused; a failure record that is refused  *)
(* is only logged.                                                         *)
LoseRace(p) ==
  /\ caller[p].pc \in {"offering", "failing", "choosing", "gate", "deciding"}
  /\ ~Current(p)
  /\ Done(p)
  /\ Quiet

-----------------------------------------------------------------------------
(* Everything else that happens to the case: evidence, revisions, the rest *)
(* of the probe cycle, pauses and resumes.                                 *)
Other ==
  /\ status # "closed"
  /\ Append1(Says("other", 0, "probe"))
  /\ UNCHANGED caller
  /\ \/ status = "active" /\ pending' = FALSE /\ UNCHANGED status
     \/ status' \in {"active", "paused"} \ {status} /\ UNCHANGED pending

CooldownEnds ==
  /\ InCooldown
  /\ cooled' = TRUE
  /\ UNCHANGED <<status, pending, timeline, expired, caller>>

OfferExpires ==
  /\ ValidCurrentOffer
  /\ expired' = TRUE
  /\ UNCHANGED <<status, pending, timeline, cooled, caller>>

Init ==
  /\ status = "active"
  /\ pending = FALSE
  /\ timeline = <<>>
  /\ cooled = FALSE
  /\ expired = FALSE
  /\ caller = [p \in Callers |-> Idle]

Step(p) ==
  \/ \E point \in Points : AskOffer(p, point) \/ ReadToDecide(p, point)
  \/ StartOffer(p)
  \/ \E tokens \in 0..1 : AcceptReply(p, tokens)
  \/ CallFails(p) \/ RecordOffer(p) \/ LoseOffer(p) \/ RecordFailure(p)
  \/ ReadToChoose(p) \/ Choose(p)
  \/ PassGate(p) \/ Excuse(p) \/ Block(p) \/ Decide(p)
  \/ LoseRace(p)

Next == (\E p \in Callers : Step(p)) \/ Other \/ CooldownEnds \/ OfferExpires

Spec == Init /\ [][Next]_vars

-----------------------------------------------------------------------------
(* Correctness.                                                            *)

Decisions == Of("probe_committed", timeline) \cup Of("case_closed", timeline)

(* Every probe commit and closure directly follows its own consultation:   *)
(* the gate was passed for this decision point and no consultation covered *)
(* two decisions, whatever happened between the gate and the write.        *)
EveryDecisionConsulted ==
  \A i \in Decisions : i > 1 /\ IsConsultation(timeline[i - 1], timeline[i].point)

(* Advice describes the case it was asked about: nothing was appended      *)
(* while the call was in flight.                                           *)
AdviceIsCurrent ==
  \A i \in Of("method_offered", timeline) :
    /\ i > 1 /\ i = timeline[i].offer + 1
    /\ timeline[i - 1].kind = "method_offer_started"

(* Nobody answers an offer twice, although two callers may read it open.   *)
AnsweredOnce ==
  \A i, j \in Of("method_chosen", timeline) :
    timeline[i].offer = timeline[j].offer => i = j

(* A waiver is earned by service failures alone: offers that were received *)
(* and left unanswered never open the gate.                                *)
WaiversAreEarned ==
  \A i \in Of("method_consultation_excused", timeline) :
    LET before == SubSeq(timeline, 1, i - 1) IN
      \/ Cardinality(Failures(before)) >= MaxCalls
      \/ Cardinality(Streak(before)) >= MaxConsecutive

(* The limit is checked when a call starts, so it can be overrun, but only *)
(* by the calls that were in flight together.                              *)
OverrunIsBounded ==
  Cardinality(Attempts(timeline)) < MaxCalls + Cardinality(Callers)

(* What the technical reference says of the budget: a failed attempt is    *)
(* consumed for good, unless it failed on the caller's side.               *)
FailedAttemptsAreConsumed ==
  \A i \in Of("method_offer_failed", timeline) :
    timeline[i].reason # "fault" => timeline[i].offer \in Attempts(timeline)

(* What the harness says of a call it finished: it leaves a terminal event *)
(* rather than a dangling method_offer_started.                            *)
NoDanglingOffer ==
  \A i \in Of("method_offer_started", timeline) :
    \/ \E p \in Callers : caller[p].offer = i /\ caller[p].pc # "choosing"
    \/ \E j \in DOMAIN timeline :
         /\ timeline[j].offer = i
         /\ timeline[j].kind \in {"method_offered", "method_offer_failed"}
=============================================================================
