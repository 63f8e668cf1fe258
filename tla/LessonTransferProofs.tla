------------------------ MODULE LessonTransferProofs ------------------------
(***************************************************************************)
(* Proofs about LessonTransfer, for any set of cases and lessons.          *)
(*                                                                         *)
(* A lesson's strength is compared with the labels of cases it does not    *)
(* cite itself: its sources' sources.  What carries the argument from one  *)
(* promotion to the next is Rooted: where the lessons of a case go back to *)
(* is settled when it is closed, and a closed case never changes.          *)
(***************************************************************************)
EXTENDS LessonTransfer, TLAPS

Own == {"candidate", "explicit_user_correction"}

(* A case that is not closed has recorded nothing; a lesson of its own     *)
(* goes back to the case itself, a pattern to cases with lessons of their  *)
(* own.                                                                    *)
Rooted ==
  \A c \in Cases :
    /\ status[c] # "closed" => decision[c] = "none" /\ lesson[c] = NoLesson
    /\ decision[c] = "none" <=> lesson[c] = NoLesson
    /\ decision[c] = "none" => roots[c] = {}
    /\ decision[c] \in Own => roots[c] = {c}
    /\ \A r \in roots[c] : decision[r] \in Own

IInv == TypeOK /\ Rooted /\ NeverStronger /\ PatternIsRepeated /\ SameLesson

(* The ceiling is a label, and no higher than any of the labels.           *)
LEMMA CeilingBounds ==
  ASSUME NEW labels \in SUBSET Labels
  PROVE  /\ Ceiling(labels) \in Labels
         /\ \A l \in labels : Rank(Ceiling(labels)) <= Rank(l)
  BY DEF Ceiling, Rank, Labels

(* What one case's closure leaves alone: every lesson of every other case, *)
(* and every case those lessons go back to.                                *)
LEMMA OthersKeep ==
  ASSUME IInv, NEW c \in Cases, status[c] # "closed", NEW d \in Cases \ {c},
         NEW r \in roots[d]
  PROVE  r \in Cases /\ r # c
  BY DEF IInv, TypeOK, Rooted, Own

THEOREM InitEstablishes == Init => IInv
  BY DEF Init, IInv, TypeOK, Rooted, NeverStronger, PatternIsRepeated, SameLesson,
         Labels, Decisions, Own

LEMMA CloseWithOwnKeeps ==
  ASSUME IInv, NEW c \in Cases, NEW l \in Labels, NEW what \in Lessons, NEW how \in Own,
         CloseWithOwn(c, l, what, how)
  PROVE  IInv'
<1> USE LessonsAssumption
<1>1. TypeOK'
  BY DEF IInv, TypeOK, CloseWithOwn, Closing, Labels, Decisions, Own
<1>2. Rooted'
  BY OthersKeep DEF IInv, TypeOK, Rooted, CloseWithOwn, Closing, Own
<1>3. NeverStronger'
  BY OthersKeep DEF IInv, TypeOK, NeverStronger, CloseWithOwn, Closing, Rank, Labels
<1>4. PatternIsRepeated'
  <2> SUFFICES ASSUME NEW d \in Cases, decision'[d] = "repeated_pattern"
               PROVE  \E r, s \in roots'[d] :
                        r # s /\ \A t \in {r, s} : decision'[t] \in Own
    BY DEF PatternIsRepeated, Own
  <2>1. d # c /\ decision[d] = "repeated_pattern" /\ roots'[d] = roots[d]
    BY DEF IInv, TypeOK, CloseWithOwn, Own
  <2>2. PICK r \in roots[d], s \in roots[d] :
               r # s /\ \A t \in {r, s} : decision[t] \in Own
    BY <2>1 DEF IInv, PatternIsRepeated, Own
  <2>3. r \in Cases /\ r # c /\ s \in Cases /\ s # c
    BY <2>1, OthersKeep DEF Closing, CloseWithOwn
  <2> QED  BY <2>1, <2>2, <2>3 DEF IInv, TypeOK, CloseWithOwn
<1>5. SameLesson'
  BY OthersKeep DEF IInv, TypeOK, SameLesson, CloseWithOwn, Closing
<1> QED  BY <1>1, <1>2, <1>3, <1>4, <1>5 DEF IInv

(* The sources of a promotion go back to two different cases: either one   *)
(* of them is a pattern itself, or two are lessons of their own cases.     *)
LEMMA SourcesAreIndependent ==
  ASSUME IInv, NEW c \in Cases, NEW what \in Lessons, NEW sources \in SUBSET Cases,
         Promotes(c, what, sources)
  PROVE  \E r, s \in UNION {roots[x] : x \in sources} :
            r # s /\ \A t \in {r, s} : decision[t] \in Own
<1>1. PICK a \in sources, b \in sources : a # b
  BY DEF Promotes
<1>2. \A x \in sources : decision[x] \in Own \cup {"repeated_pattern"}
  BY LessonsAssumption DEF IInv, TypeOK, Rooted, Promotes, Decisions, Own
<1>3. CASE \E x \in sources : decision[x] = "repeated_pattern"
  <2>1. PICK x \in sources : decision[x] = "repeated_pattern"
    BY <1>3
  <2>2. PICK r \in roots[x], s \in roots[x] :
               r # s /\ \A t \in {r, s} : decision[t] \in Own
    BY <2>1 DEF IInv, PatternIsRepeated, Own
  <2> QED  BY <2>2
<1>4. CASE \A x \in sources : decision[x] \in Own
  <2>1. roots[a] = {a} /\ roots[b] = {b}
    BY <1>1, <1>4 DEF IInv, Rooted
  <2> QED  BY <1>1, <1>4, <2>1
<1> QED  BY <1>2, <1>3, <1>4

LEMMA CloseWithPatternKeeps ==
  ASSUME IInv, NEW c \in Cases, NEW l \in Labels, NEW what \in Lessons,
         NEW sources \in SUBSET Cases, CloseWithPattern(c, l, what, sources)
  PROVE  IInv'
<1> DEFINE strengths == {strength[s] : s \in sources}
           origins == UNION {roots[s] : s \in sources}
<1> USE LessonsAssumption
<1>1. strengths \in SUBSET Labels /\ Ceiling(strengths) \in Labels
  BY CeilingBounds DEF IInv, TypeOK
<1>2. /\ c \notin sources
      /\ \A s \in sources : s \in Cases /\ status[s] = "closed" /\ lesson[s] = what
  BY DEF CloseWithPattern, Promotes
<1>3. \A r \in origins : r \in Cases /\ r # c /\ decision[r] \in Own /\ lesson[r] = what
  BY <1>2, OthersKeep DEF IInv, Rooted, SameLesson, CloseWithPattern, Closing
<1>4. \A r \in origins : Rank(Ceiling(strengths)) <= Rank(label[r])
  <2> SUFFICES ASSUME NEW s \in sources, NEW r \in roots[s]
               PROVE  Rank(Ceiling(strengths)) <= Rank(label[r])
    OBVIOUS
  <2>1. Rank(Ceiling(strengths)) <= Rank(strength[s])
    BY <1>1, CeilingBounds
  <2>2. Rank(strength[s]) <= Rank(label[r])
    BY DEF IInv, NeverStronger
  <2> QED  BY <2>1, <2>2 DEF Rank
<1>5. /\ decision' = [decision EXCEPT ![c] = "repeated_pattern"]
      /\ lesson' = [lesson EXCEPT ![c] = what]
      /\ strength' = [strength EXCEPT ![c] = Ceiling(strengths)]
      /\ roots' = [roots EXCEPT ![c] = origins]
      /\ status[c] # "closed" /\ status' = [status EXCEPT ![c] = "closed"]
      /\ label' = [label EXCEPT ![c] = l] /\ damaged' = damaged
  BY DEF CloseWithPattern, Closing
<1>6. origins \in SUBSET Cases
  BY <1>3
<1> HIDE DEF strengths, origins
<1>7. TypeOK'
  BY <1>1, <1>5, <1>6 DEF IInv, TypeOK, Labels, Decisions
<1>8. \A d \in Cases : \A r \in roots'[d] :
        r # c /\ r \in Cases /\ decision'[r] = decision[r] /\ lesson'[r] = lesson[r]
          /\ label'[r] = label[r]
  <2> SUFFICES ASSUME NEW d \in Cases, NEW r \in roots'[d]
               PROVE  r # c /\ r \in Cases
    BY <1>5 DEF IInv, TypeOK
  <2> QED  BY <1>3, <1>5, OthersKeep DEF IInv, TypeOK
<1>9. Rooted'
  BY <1>3, <1>5, <1>8 DEF IInv, TypeOK, Rooted, Own
<1>10. NeverStronger'
  BY <1>4, <1>5, <1>8 DEF IInv, TypeOK, NeverStronger
<1>11. PatternIsRepeated'
  <2> SUFFICES ASSUME NEW d \in Cases, decision'[d] = "repeated_pattern"
               PROVE  \E r, s \in roots'[d] :
                        r # s /\ \A t \in {r, s} : decision'[t] \in Own
    BY DEF PatternIsRepeated, Own
  <2>1. CASE d = c
    <3>1. \E r, s \in origins : r # s /\ \A t \in {r, s} : decision[t] \in Own
      BY SourcesAreIndependent DEF origins, CloseWithPattern
    <3> QED  BY <2>1, <3>1, <1>5, <1>8 DEF IInv, TypeOK
  <2>2. CASE d # c
    <3>1. \E r, s \in roots[d] : r # s /\ \A t \in {r, s} : decision[t] \in Own
      BY <2>2, <1>5 DEF IInv, TypeOK, PatternIsRepeated, Own
    <3> QED  BY <2>2, <3>1, <1>5, <1>8 DEF IInv, TypeOK
  <2> QED  BY <2>1, <2>2
<1>12. SameLesson'
  BY <1>3, <1>5, <1>8 DEF IInv, TypeOK, SameLesson
<1> QED  BY <1>7, <1>9, <1>10, <1>11, <1>12 DEF IInv

THEOREM NextKeeps == IInv /\ [Next]_vars => IInv'
<1> SUFFICES ASSUME IInv, [Next]_vars PROVE IInv'
  OBVIOUS
<1>1. ASSUME NEW c \in Cases, Open(c) PROVE IInv'
  BY <1>1 DEF Open, IInv, TypeOK, Rooted, NeverStronger, PatternIsRepeated, SameLesson
<1>2. ASSUME NEW c \in Cases, NEW l \in Labels, CloseWithoutLesson(c, l) PROVE IInv'
  <2>1. TypeOK' /\ Rooted'
    BY <1>2 DEF CloseWithoutLesson, Closing, IInv, TypeOK, Rooted, Labels
  <2>2. NeverStronger'
    BY <1>2, OthersKeep DEF CloseWithoutLesson, Closing, IInv, TypeOK, Rooted, NeverStronger
  <2>3. PatternIsRepeated' /\ SameLesson'
    BY <1>2 DEF CloseWithoutLesson, Closing, IInv, PatternIsRepeated, SameLesson
  <2> QED  BY <2>1, <2>2, <2>3 DEF IInv
<1>3. ASSUME NEW c \in Cases, Damage(c) PROVE IInv'
  BY <1>3 DEF Damage, IInv, TypeOK, Rooted, NeverStronger, PatternIsRepeated, SameLesson
<1>4. CASE UNCHANGED vars
  BY <1>4 DEF vars, IInv, TypeOK, Rooted, NeverStronger, PatternIsRepeated, SameLesson
<1> QED  BY <1>1, <1>2, <1>3, <1>4, CloseWithOwnKeeps, CloseWithPatternKeeps DEF Next, Own

(* The inductive invariant.                                                *)
THEOREM Invariant == Spec => []IInv
  BY InitEstablishes, NextKeeps, PTL DEF Spec

(* The types of the lesson records.                                        *)
THEOREM TypeCorrect == Spec => []TypeOK
<1>1. IInv => TypeOK  BY DEF IInv
<1> QED  BY <1>1, Invariant, PTL

(* Repetition never makes a lesson stronger than the weakest case it goes  *)
(* back to, through any number of promotions (_transfer_support_ceiling).  *)
THEOREM RepetitionNeverStrengthens == Spec => []NeverStronger
<1>1. IInv => NeverStronger  BY DEF IInv
<1> QED  BY <1>1, Invariant, PTL

(* A repeated pattern, and a pattern of patterns, goes back to two cases   *)
(* that recorded it on their own account (_validate_transfer_evidence).    *)
THEOREM PatternsAreIndependent == Spec => []PatternIsRepeated
<1>1. IInv => PatternIsRepeated  BY DEF IInv
<1> QED  BY <1>1, Invariant, PTL

(* All of them recorded the lesson it states, for the scope it states.     *)
THEOREM PatternsAgree == Spec => []SameLesson
<1>1. IInv => SameLesson  BY DEF IInv
<1> QED  BY <1>1, Invariant, PTL
=============================================================================
