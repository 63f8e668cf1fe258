--------------------------- MODULE LessonTransfer ---------------------------
(***************************************************************************)
(* The lessons cases leave behind when they are closed, and how one is     *)
(* promoted: a candidate cites the case being closed, a user's correction  *)
(* the case and what the user said in it, a repeated pattern at least two  *)
(* other closed cases that recorded the same lesson for the same scope,    *)
(* patterns among them (_validate_transfer_evidence in harness.py).        *)
(*                                                                         *)
(* The label of a case when it is closed is Calibration's; here any label  *)
(* may come out.  A lesson and its scope are one value.                    *)
(***************************************************************************)
EXTENDS Integers, FiniteSets

CONSTANTS Cases,
          Lessons,
          NoLesson    \* what a case that transfers nothing records

ASSUME LessonsAssumption == NoLesson \notin Lessons

Labels == {"hypothesis", "provisional", "mixed", "supported"}
Decisions == {"none", "candidate", "explicit_user_correction", "repeated_pattern"}

(* The order of support: mixed counts as provisional.                      *)
Rank(label) ==
  IF label = "supported" THEN 2 ELSE IF label = "hypothesis" THEN 0 ELSE 1

VARIABLES status,    \* of each case: none yet, active or closed
          label,     \* the label it was closed with
          decision,  \* its transfer decision
          lesson,    \* the lesson and scope it recorded
          strength,  \* the calibration recorded with the lesson
          damaged,   \* cases whose replay has become unusable
          roots      \* history: the cases that recorded by themselves what a lesson repeats

vars == <<status, label, decision, lesson, strength, damaged, roots>>

Init ==
  /\ status = [c \in Cases |-> "none"]
  /\ label = [c \in Cases |-> "hypothesis"]
  /\ decision = [c \in Cases |-> "none"]
  /\ lesson = [c \in Cases |-> NoLesson]
  /\ strength = [c \in Cases |-> "hypothesis"]
  /\ damaged = {}
  /\ roots = [c \in Cases |-> {}]

Open(c) ==
  /\ status[c] = "none"
  /\ status' = [status EXCEPT ![c] = "active"]
  /\ UNCHANGED <<label, decision, lesson, strength, damaged, roots>>

(* Faulty: repetition makes a lesson as strong as its best source.         *)
CeilingOfBest(labels) ==
  IF \E l \in labels : Rank(l) = 2 THEN "supported"
  ELSE IF \E l \in labels : Rank(l) = 1 THEN "provisional"
  ELSE "hypothesis"

(* The strongest label no source falls short of.                           *)
Ceiling(labels) ==
  IF \A l \in labels : Rank(l) = 2 THEN "supported"
  ELSE IF \A l \in labels : Rank(l) >= 1 THEN "provisional"
  ELSE "hypothesis"

(* Faulty: any two citations will do, the case's own lesson among them.    *)
PromotesWithItself(c, what, sources) ==
  /\ \E s, t \in sources : s # t
  /\ \A s \in sources \ {c} : status[s] = "closed" /\ lesson[s] = what /\ s \notin damaged

(* Promotion: two or more other cases, closed, with the same lesson and a  *)
(* usable replay.                                                          *)
Promotes(c, what, sources) ==
  /\ \E s, t \in sources : s # t
  /\ c \notin sources
  /\ \A s \in sources : status[s] = "closed" /\ lesson[s] = what /\ s \notin damaged

(* A case is closed only when its own replay is usable.                    *)
Closing(c, l) ==
  /\ status[c] = "active" /\ c \notin damaged
  /\ status' = [status EXCEPT ![c] = "closed"]
  /\ label' = [label EXCEPT ![c] = l]
  /\ UNCHANGED damaged

CloseWithoutLesson(c, l) ==
  /\ Closing(c, l)
  /\ UNCHANGED <<decision, lesson, strength, roots>>

(* A candidate, or a correction by the user: the case's own label counts.  *)
CloseWithOwn(c, l, what, how) ==
  /\ Closing(c, l)
  /\ decision' = [decision EXCEPT ![c] = how]
  /\ lesson' = [lesson EXCEPT ![c] = what]
  /\ strength' = [strength EXCEPT ![c] = l]
  /\ roots' = [roots EXCEPT ![c] = {c}]

CloseWithPattern(c, l, what, sources) ==
  /\ Closing(c, l)
  /\ Promotes(c, what, sources)
  /\ decision' = [decision EXCEPT ![c] = "repeated_pattern"]
  /\ lesson' = [lesson EXCEPT ![c] = what]
  /\ strength' = [strength EXCEPT ![c] = Ceiling({strength[s] : s \in sources})]
  /\ roots' = [roots EXCEPT ![c] = UNION {roots[s] : s \in sources}]

(* Files of a case are damaged or edited: its replay is unusable.          *)
Damage(c) ==
  /\ status[c] # "none" /\ c \notin damaged
  /\ damaged' = damaged \cup {c}
  /\ UNCHANGED <<status, label, decision, lesson, strength, roots>>

Next ==
  \E c \in Cases :
    \/ Open(c)
    \/ \E l \in Labels :
         \/ CloseWithoutLesson(c, l)
         \/ \E what \in Lessons, how \in {"candidate", "explicit_user_correction"} :
              CloseWithOwn(c, l, what, how)
         \/ \E what \in Lessons, sources \in SUBSET Cases :
              CloseWithPattern(c, l, what, sources)
    \/ Damage(c)

Spec == Init /\ [][Next]_vars

----------------------------------------------------------------------------
(* Properties                                                              *)

(* The types; and exactly the cases that transfer a lesson have roots.     *)
TypeOK ==
  /\ status \in [Cases -> {"none", "active", "closed"}]
  /\ label \in [Cases -> Labels]
  /\ decision \in [Cases -> Decisions]
  /\ lesson \in [Cases -> Lessons \cup {NoLesson}]
  /\ strength \in [Cases -> Labels]
  /\ damaged \subseteq Cases
  /\ roots \in [Cases -> SUBSET Cases]
  /\ \A c \in Cases : lesson[c] # NoLesson => status[c] = "closed"

(* However often a lesson is repeated, and patterns built on patterns, it  *)
(* never becomes stronger than the weakest case it goes back to.           *)
NeverStronger ==
  \A c \in Cases : \A r \in roots[c] : Rank(strength[c]) <= Rank(label[r])

(* A repeated pattern goes back to at least two different cases that       *)
(* recorded its lesson on their own account, as a candidate or as what the *)
(* user corrected, and not as a repetition of others.                      *)
PatternIsRepeated ==
  \A c \in Cases : decision[c] = "repeated_pattern" =>
    \E r, s \in roots[c] :
      r # s /\ \A t \in {r, s} : decision[t] \in {"candidate", "explicit_user_correction"}

(* ... and to no case that learned something else.                         *)
SameLesson ==
  \A c \in Cases : \A r \in roots[c] : lesson[r] = lesson[c]
=============================================================================
