-------------------------- MODULE CaseStoreProofs ---------------------------
(***************************************************************************)
(* What holds of the durable store for every number of cases, sessions,  *)
(* processes, events and crashes.                                        *)
(***************************************************************************)
EXTENDS CaseStore, TLAPS, SequenceTheorems, FiniteSetTheorems, WellFoundedInduction

-----------------------------------------------------------------------------
(* The maximum of a bounded set of naturals exists: its least upper bound*)
(* is one of its members.                                                *)
LEMMA MaxOfBounded ==
  ASSUME NEW n \in Nat, NEW S \in SUBSET (0..n)
  PROVE  /\ Max0(S) \in 0..n
         /\ S # {} => Max0(S) \in S
         /\ \A m \in S : m <= Max0(S)
<1>1. CASE S = {}
  BY <1>1 DEF Max0
<1>2. CASE S # {}
  <2> DEFINE Bounds == {k \in Nat : \A m \in S : m <= k}
             R == OpToRel(<, Nat)
  <2>1. n \in Bounds
    OBVIOUS
  <2>2. PICK k \in Bounds : \A y \in Bounds : ~(<<y, k>> \in R)
    <3>1. Bounds \subseteq Nat /\ Bounds # {}
      BY <2>1
    <3> HIDE DEF Bounds, R
    <3>2. IsWellFoundedOn(R, Nat)
      BY NatLessThanWellFounded DEF R
    <3> QED BY <3>1, <3>2, WFMin
  <2>3. \A y \in Bounds : ~(y < k)
    BY <2>2 DEF OpToRel
  <2>4. k \in Nat /\ \A m \in S : m \in Nat /\ m <= k
    OBVIOUS
  <2> HIDE DEF R
  <2>6. k \in S
    <3>1. CASE k = 0
      <4>1. PICK m \in S : TRUE
        BY <1>2
      <4>2. m \in Nat /\ m <= 0
        BY <2>4, <3>1
      <4> QED BY <3>1, <4>2
    <3>2. CASE k # 0
      <4>1. k - 1 \in Nat /\ k - 1 < k
        BY <2>4, <3>2
      <4>2. PICK m \in S : ~(m <= k - 1)
        BY <2>3, <4>1
      <4>3. m = k
        BY <2>4, <4>2
      <4> QED BY <4>2, <4>3
    <3> QED BY <3>1, <3>2
  <2>5. Max0(S) \in S /\ \A m \in S : m <= Max0(S)
    BY <1>2, <2>4, <2>6 DEF Max0
  <2> QED BY <1>2, <2>4, <2>5
<1> QED BY <1>1, <1>2

-----------------------------------------------------------------------------
(* The inductive invariant.                                              *)

(* Only existing cases are bound to a session, written or read.          *)
InUse(rec) == rec.status # "none" /\ rec.session \in Sessions

BoundToSession ==
  /\ \A c \in Cases : Exists(c) => InUse(file[c])
  /\ \A c \in Pending : InUse(journal[c].case)
  /\ \A r \in reads : InUse(r.rec)

OnePending == \A c, d \in Pending : c = d

(* A journal holds the successor of the snapshot, or the snapshot itself *)
(* once it has been applied.                                             *)
JournalIsNext ==
  \A c \in Pending :
    /\ \/ file[c] = journal[c].case
       \/ journal[c].case.revision = file[c].revision + 1
    /\ step \in {"cache", "unlink"} => file[c] = journal[c].case

(* A copy whose revision is still the current one is the current record: *)
(* what the compare-and-swap of _commit_transaction relies on.           *)
CurrentCopiesAreExact ==
  \A r \in reads :
    /\ r.rec.revision <= file[r.case].revision
    /\ Current(r) => r.rec = file[r.case]

IInv ==
  /\ TypeOK
  /\ BoundToSession
  /\ OnePending
  /\ JournalIsNext
  /\ CurrentCopiesAreExact
  /\ OneActivePerSession

-----------------------------------------------------------------------------
(* The cache as read is always a function to bounded sequence numbers.   *)
LEMMA ReadCacheType ==
  ASSUME TypeOK
  PROVE  ReadCache \in [Sessions -> 0..MaxSeq]
<1>1. ASSUME NEW s \in Sessions
      PROVE  Max0(UNION {SeqsIn(timeline[c], s) : c \in Cases}) \in 0..MaxSeq
  <2>1. ASSUME NEW c \in Cases
        PROVE  SeqsIn(timeline[c], s) \subseteq 0..MaxSeq
    <3>1. timeline[c] \in Seq(Event)
      BY DEF TypeOK
    <3>2. \A i \in DOMAIN timeline[c] : timeline[c][i] \in Event
      BY <3>1, ElementOfSeq, LenProperties
    <3> QED BY <3>2 DEF SeqsIn, Event
  <2>2. UNION {SeqsIn(timeline[c], s) : c \in Cases} \subseteq 0..MaxSeq
    BY <2>1
  <2> QED BY <2>2, MaxOfBounded, BoundsAssumption
<1> QED BY <1>1 DEF ReadCache, Rebuilt, TypeOK

(* What any commit preserves, given that what it writes is well formed and *)
(* does not take a session from another active case.                     *)
LEMMA CommitKeepsIInv ==
  ASSUME IInv, NEW c \in Cases, NEW rec \in CaseRec, NEW events \in Seq(Event),
         events # <<>>, InUse(rec), rec.revision = file[c].revision + 1,
         rec.status = "active" =>
           \A d \in Cases \ {c} : ~(file[d].status = "active" /\ file[d].session = rec.session),
         Commit(c, rec, events),
         reads' \subseteq reads,
         index' = index \/ TouchCache
  PROVE  IInv'
<1> DEFINE j == [case |-> rec, events |-> events, base |-> Len(timeline[c])]
<1>1. /\ Pending = {}
      /\ file' = file /\ timeline' = timeline
      /\ journal' = [journal EXCEPT ![c] = j]
      /\ step' = "events"
  BY DEF Commit, Ready
<1>2. j \in Journal
  BY LenProperties DEF IInv, TypeOK, Journal
<1>3. cache' \in [Sessions -> 0..MaxSeq] /\ intact' \in BOOLEAN
  BY ReadCacheType DEF IInv, TypeOK, index, TouchCache
<1>4. TypeOK'
  BY <1>1, <1>2, <1>3 DEF IInv, TypeOK, Steps
<1>5. journal'[c] = j /\ \A d \in Cases \ {c} : journal'[d] = journal[d]
  BY <1>1 DEF IInv, TypeOK
<1>6. Pending' = {c}
  BY <1>1, <1>5 DEF Pending
<1>7. BoundToSession'
  BY <1>1, <1>5, <1>6 DEF IInv, BoundToSession, Exists
<1>8. OnePending' /\ JournalIsNext'
  BY <1>1, <1>5, <1>6 DEF OnePending, JournalIsNext
<1>9. CurrentCopiesAreExact'
  BY <1>1 DEF IInv, CurrentCopiesAreExact, Current
<1>10. OneActivePerSession'
  <2>1. Outcome(c)' = rec /\ \A d \in Cases \ {c} : Outcome(d)' = file[d]
    BY <1>1, <1>5, <1>6 DEF Outcome
  <2>2. \A d \in Cases : Outcome(d) = file[d]
    BY <1>1 DEF Outcome
  <2> QED BY <2>1, <2>2 DEF IInv, OneActivePerSession
<1> QED BY <1>4, <1>7, <1>8, <1>9, <1>10 DEF IInv

-----------------------------------------------------------------------------
(* A disposition commits one numbered event of a record that replaces the*)
(* current one.                                                          *)
LEMMA DispositionKeepsIInv ==
  ASSUME IInv, NEW c \in Cases, NEW s \in Sessions, NEW kind \in Kinds,
         NEW status \in Status \ {"none"}, NEW marker \in Nat,
         Disposition(c, kind, status, s, marker),
         status = "active" =>
           \A d \in Cases \ {c} : ~(file[d].status = "active" /\ file[d].session = s),
         reads' = reads
  PROVE  IInv'
<1> DEFINE rec == Revised(c, status, s, marker)
           e == Final(kind, s, NextSeq(s), rec)
<1>1. file[c].revision \in Nat
  BY DEF IInv, TypeOK, CaseRec
<1>2. /\ rec \in CaseRec /\ InUse(rec) /\ rec.revision = file[c].revision + 1
      /\ rec.status = status /\ rec.session = s
  BY <1>1 DEF Revised, CaseRec, InUse
<1>3. NextSeq(s) \in 0..MaxSeq
  BY ReadCacheType, BoundsAssumption DEF IInv, NextSeq, Disposition, Numbered
<1>4. e \in Event
  BY <1>2, <1>3 DEF Final, Event
<1>5. <<e>> \in Seq(Event) /\ <<e>> # <<>>
  BY <1>4
<1>6. Commit(c, rec, <<e>>) /\ TouchCache
  BY DEF Disposition
<1> HIDE DEF rec, e
<1> QED BY <1>2, <1>5, <1>6, CommitKeepsIInv

(* Opening a case (open_case) puts its journal in place and nothing else: the
   session had no active case, on disk or in a journal. *)
LEMMA OpenKeepsIInv ==
  ASSUME IInv, NEW c \in Cases, NEW s \in Sessions, NEW observations \in 0..1,
         Open(c, s, observations)
  PROVE  IInv'
<1> DEFINE rec == Revised(c, "active", s, 0)
           e == Final("case_opened", s, NextSeq(s), rec)
           note == Final("note", s, 0, NoCase)
           seen == [i \in 1..observations |-> note]
<1>1. file[c].revision \in Nat
  BY DEF IInv, TypeOK, CaseRec
<1>2. /\ rec \in CaseRec /\ InUse(rec) /\ rec.revision = file[c].revision + 1
      /\ rec.status = "active" /\ rec.session = s
  BY <1>1 DEF Revised, CaseRec, InUse, Status
<1>3. NextSeq(s) \in 0..MaxSeq /\ 0 \in 0..MaxSeq
  BY ReadCacheType, BoundsAssumption DEF IInv, NextSeq, Open, Numbered
<1>4. e \in Event /\ note \in Event
  BY <1>2, <1>3 DEF Final, Event, Kinds, DispositionKinds, NoCase, CaseRec, Status
<1>5. seen \in Seq(Event)
  BY <1>4, IsASeq
<1>6. Append(seen, e) \in Seq(Event) /\ Append(seen, e) # <<>>
  <2> HIDE DEF seen, e, note
  <2> QED BY <1>4, <1>5, AppendProperties
<1>7. /\ Commit(c, rec, Append(seen, e)) /\ TouchCache /\ reads' = reads
      /\ \A d \in Cases : ~(file[d].status = "active" /\ file[d].session = s)
  BY DEF Open, ActiveOn
<1> HIDE DEF rec, e, note, seen
<1> QED BY <1>2, <1>6, <1>7, CommitKeepsIInv

(* Writing a current copy back (transition_case) keeps the status and the
   session the case has on disk, or takes the case out of the active ones. *)
LEMMA WriteBackKeepsIInv ==
  ASSUME IInv, NEW r \in reads, NEW kind \in Kinds,
         NEW status \in {"paused", "closed", r.rec.status},
         WriteBack(r, kind, status)
  PROVE  IInv'
<1> DEFINE rec == Revised(r.case, status, r.rec.session, r.rec.marker)
           seq == IF kind \in DispositionKinds THEN NextSeq(r.rec.session) ELSE 0
           e == Final(kind, r.rec.session, seq, rec)
<1>1. r.case \in Cases /\ r.rec \in CaseRec /\ InUse(r.rec)
      /\ file[r.case] \in CaseRec /\ file[r.case].revision \in Nat
  BY DEF IInv, TypeOK, BoundToSession, CaseRec
<1>2. r.rec = file[r.case]
  BY DEF IInv, CurrentCopiesAreExact, WriteBack
<1>3. /\ rec \in CaseRec /\ InUse(rec) /\ rec.revision = file[r.case].revision + 1
      /\ rec.status = status /\ rec.session = file[r.case].session
  <2>1. r.rec.status \in Status \ {"none"} /\ r.rec.session \in Sessions
    BY <1>1 DEF CaseRec, InUse
  <2>2. status \in Status \ {"none"}
    BY <2>1 DEF Status
  <2>3. rec = [status |-> status, session |-> r.rec.session,
               revision |-> file[r.case].revision + 1, marker |-> r.rec.marker]
    BY DEF Revised
  <2>4. r.rec.marker \in Nat
    BY <1>1 DEF CaseRec
  <2> HIDE DEF rec
  <2> QED BY <1>1, <1>2, <2>1, <2>2, <2>3, <2>4 DEF CaseRec, InUse
<1>4. seq \in 0..MaxSeq
  <2>1. CASE kind \in DispositionKinds
    BY <1>1, <2>1, ReadCacheType, BoundsAssumption
       DEF IInv, NextSeq, WriteBack, Numbered, InUse
  <2>2. CASE kind \notin DispositionKinds
    BY <2>2, BoundsAssumption
  <2> QED BY <2>1, <2>2
<1>5. e \in Event
  BY <1>1, <1>3, <1>4 DEF Final, Event, InUse
<1>6. <<e>> \in Seq(Event) /\ <<e>> # <<>>
  BY <1>5
<1>7. /\ Commit(r.case, rec, <<e>>)
      /\ index' = index \/ TouchCache
      /\ reads' \subseteq reads
  BY DEF WriteBack
<1>8. rec.status = "active" =>
        \A d \in Cases \ {r.case} :
          ~(file[d].status = "active" /\ file[d].session = rec.session)
  <2>1. Pending = {}
    BY <1>7 DEF Commit, Ready
  <2>2. \A d \in Cases : Outcome(d) = file[d]
    BY <2>1 DEF Outcome
  <2>3. SUFFICES ASSUME rec.status = "active" PROVE file[r.case].status = "active"
    BY <1>1, <1>3, <2>2 DEF IInv, OneActivePerSession
  <2> QED BY <1>2, <1>3, <2>3
<1> HIDE DEF rec, e, seq
<1> QED BY <1>1, <1>3, <1>6, <1>7, <1>8, CommitKeepsIInv

-----------------------------------------------------------------------------
(* Steps that leave every case file, Timeline and journal alone.         *)
LEMMA QuietKeepsIInv ==
  ASSUME IInv, UNCHANGED disk, step' = step \/ step' \in {"idle", "events"},
         cache' \in [Sessions -> 0..MaxSeq], intact' \in BOOLEAN,
         reads' \subseteq reads
  PROVE  IInv'
<1>1. /\ file' = file /\ timeline' = timeline /\ journal' = journal
      /\ Pending' = Pending
  BY DEF disk, Pending
<1>2. TypeOK'
  BY <1>1 DEF IInv, TypeOK, Steps
<1>3. BoundToSession' /\ OnePending' /\ JournalIsNext' /\ CurrentCopiesAreExact'
  BY <1>1 DEF IInv, BoundToSession, Exists, OnePending, JournalIsNext,
              CurrentCopiesAreExact, Current
<1>4. OneActivePerSession'
  <2>1. \A c \in Cases : Outcome(c)' = Outcome(c)
    BY <1>1 DEF Outcome
  <2> QED BY <2>1 DEF IInv, OneActivePerSession
<1> QED BY <1>2, <1>3, <1>4 DEF IInv

(* Reading a case adds a copy that is exact at the time (get_case).      *)
LEMMA ReadKeepsIInv ==
  ASSUME IInv, NEW p \in Procs, NEW c \in Cases, ReadCase(p, c)
  PROVE  IInv'
<1> DEFINE r == [proc |-> p, case |-> c, rec |-> file[c]]
<1>1. /\ file' = file /\ timeline' = timeline /\ journal' = journal /\ step' = step
      /\ cache' = cache /\ intact' = intact
      /\ reads' = reads \cup {r} /\ Exists(c)
      /\ Pending' = Pending
  BY DEF ReadCase, disk, index, Pending
<1>2. file[c] \in CaseRec /\ file[c].revision \in Nat
  BY DEF IInv, TypeOK, CaseRec
<1>3. TypeOK'
  BY <1>1, <1>2 DEF IInv, TypeOK
<1>4. BoundToSession'
  BY <1>1 DEF IInv, BoundToSession, Exists
<1>5. OnePending' /\ JournalIsNext'
  BY <1>1 DEF IInv, OnePending, JournalIsNext
<1>6. CurrentCopiesAreExact'
  BY <1>1, <1>2 DEF IInv, CurrentCopiesAreExact, Current
<1>7. OneActivePerSession'
  BY <1>1 DEF IInv, OneActivePerSession, Outcome
<1> QED BY <1>3, <1>4, <1>5, <1>6, <1>7 DEF IInv

-----------------------------------------------------------------------------
(* The four writes of a journal.                                         *)
LEMMA ApplyEventsKeepsIInv ==
  ASSUME IInv, NEW c \in Pending, ApplyEvents(c)
  PROVE  IInv'
<1> DEFINE prefix == SubSeq(timeline[c], 1, journal[c].base)
<1>1. /\ file' = file /\ journal' = journal /\ cache' = cache /\ intact' = intact
      /\ reads' = reads /\ step' = "case" /\ Pending' = Pending
      /\ timeline' = [timeline EXCEPT ![c] = prefix \o journal[c].events]
  BY DEF ApplyEvents, index, Pending
<1>2. c \in Cases /\ timeline[c] \in Seq(Event) /\ journal[c] \in Journal
  BY DEF IInv, TypeOK, Pending
<1>3. journal[c].base \in 0..Len(timeline[c]) /\ journal[c].events \in Seq(Event)
  BY <1>2, LenProperties DEF ApplyEvents, Recoverable, Journal
<1>4. prefix \in Seq(Event)
  <2>1. \A i \in 1..journal[c].base : timeline[c][i] \in Event
    BY <1>2, <1>3, ElementOfSeq, LenProperties
  <2> QED BY <1>2, <1>3, <2>1, LenProperties, SubSeqProperties
<1>5. prefix \o journal[c].events \in Seq(Event)
  BY <1>3, <1>4, ConcatProperties
<1> HIDE DEF prefix
<1>6. TypeOK'
  BY <1>1, <1>5 DEF IInv, TypeOK, Steps
<1>7. BoundToSession' /\ OnePending' /\ JournalIsNext' /\ CurrentCopiesAreExact'
  BY <1>1 DEF IInv, BoundToSession, Exists, OnePending, JournalIsNext,
              CurrentCopiesAreExact, Current
<1>8. OneActivePerSession'
  BY <1>1 DEF IInv, OneActivePerSession, Outcome
<1> QED BY <1>6, <1>7, <1>8 DEF IInv

(* The snapshot write makes the journal's record the case on disk; copies
   that were current until then are stale from then on. *)
LEMMA ApplyCaseKeepsIInv ==
  ASSUME IInv, NEW c \in Pending, ApplyCase(c)
  PROVE  IInv'
<1>1. /\ timeline' = timeline /\ journal' = journal /\ cache' = cache /\ intact' = intact
      /\ reads' = reads /\ step' = "cache" /\ Pending' = Pending
      /\ file' = [file EXCEPT ![c] = journal[c].case]
  BY DEF ApplyCase, index, Pending
<1>2. c \in Cases /\ journal[c].case \in CaseRec /\ InUse(journal[c].case)
      /\ file[c] \in CaseRec /\ file[c].revision \in Nat
  BY DEF IInv, TypeOK, Pending, Journal, BoundToSession, CaseRec
<1>3. /\ file'[c] = journal[c].case
      /\ \A d \in Cases \ {c} : file'[d] = file[d]
      /\ file' \in [Cases -> CaseRec]
  BY <1>1, <1>2 DEF IInv, TypeOK
<1>4. Pending = {c}
  BY DEF IInv, OnePending
<1>5. TypeOK'
  BY <1>1, <1>3 DEF IInv, TypeOK, Steps
<1>6. BoundToSession'
  BY <1>1, <1>2, <1>3 DEF IInv, BoundToSession, Exists
<1>7. OnePending' /\ JournalIsNext'
  BY <1>1, <1>3, <1>4 DEF OnePending, JournalIsNext
<1>8. CurrentCopiesAreExact'
  <2> SUFFICES ASSUME NEW r \in reads
               PROVE  /\ r.rec.revision <= file'[r.case].revision
                      /\ r.rec.revision = file'[r.case].revision => r.rec = file'[r.case]
    BY <1>1 DEF CurrentCopiesAreExact, Current
  <2>1. /\ r.case \in Cases /\ r.rec \in CaseRec /\ r.rec.revision \in Nat
        /\ r.rec.revision <= file[r.case].revision
        /\ r.rec.revision = file[r.case].revision => r.rec = file[r.case]
    BY DEF IInv, TypeOK, CaseRec, CurrentCopiesAreExact, Current
  <2>2. CASE r.case # c
    BY <1>3, <2>1, <2>2
  <2>3. CASE r.case = c /\ file[c] = journal[c].case
    BY <1>3, <2>1, <2>3
  <2>4. CASE r.case = c /\ journal[c].case.revision = file[c].revision + 1
    BY <1>2, <1>3, <2>1, <2>4
  <2> QED BY <2>2, <2>3, <2>4 DEF IInv, JournalIsNext
<1>9. OneActivePerSession'
  <2>1. \A d \in Cases : Outcome(d)' = Outcome(d)
    BY <1>1, <1>3 DEF Outcome
  <2> QED BY <2>1 DEF IInv, OneActivePerSession
<1> QED BY <1>5, <1>6, <1>7, <1>8, <1>9 DEF IInv

(* Folding the journal's sequences into sessions.json touches no case
   (_reconcile_sessions_cache_locked). *)
LEMMA ReconcileKeepsIInv ==
  ASSUME IInv, NEW c \in Pending, ReconcileCache(c)
  PROVE  IInv'
<1>1. /\ file' = file /\ timeline' = timeline /\ journal' = journal
      /\ reads' = reads /\ step = "cache" /\ step' = "unlink"
      /\ Pending' = Pending
  BY DEF ReconcileCache, disk, Pending
<1>2. c \in Cases /\ journal[c].events \in Seq(Event)
  BY DEF IInv, TypeOK, Pending, Journal
<1>3. cache' \in [Sessions -> 0..MaxSeq] /\ intact' \in BOOLEAN
  <2>1. ASSUME NEW s \in Sessions
        PROVE  Max0({ReadCache[s]} \cup (SeqsIn(journal[c].events, s) \ {0})) \in 0..MaxSeq
    <3>1. \A i \in DOMAIN journal[c].events : journal[c].events[i] \in Event
      BY <1>2, ElementOfSeq, LenProperties
    <3>2. SeqsIn(journal[c].events, s) \subseteq 0..MaxSeq
      BY <3>1 DEF SeqsIn, Event
    <3>3. ReadCache[s] \in 0..MaxSeq
      BY ReadCacheType DEF IInv
    <3> QED BY <3>2, <3>3, MaxOfBounded, BoundsAssumption
  <2> QED BY <2>1 DEF IInv, TypeOK, ReconcileCache, index
<1>4. TypeOK'
  BY <1>1, <1>3 DEF IInv, TypeOK, Steps
<1>5. BoundToSession' /\ OnePending' /\ JournalIsNext' /\ CurrentCopiesAreExact'
  BY <1>1 DEF IInv, BoundToSession, Exists, OnePending, JournalIsNext,
              CurrentCopiesAreExact, Current
<1>6. OneActivePerSession'
  BY <1>1 DEF IInv, OneActivePerSession, Outcome
<1> QED BY <1>4, <1>5, <1>6 DEF IInv

(* Removing the journal leaves the snapshot it has installed.            *)
LEMMA UnlinkKeepsIInv ==
  ASSUME IInv, NEW c \in Pending, Unlink(c)
  PROVE  IInv'
<1>1. /\ file' = file /\ timeline' = timeline /\ cache' = cache /\ intact' = intact
      /\ reads' = reads /\ step = "unlink" /\ step' = "idle"
      /\ journal' = [journal EXCEPT ![c] = NoJournal]
  BY DEF Unlink, index
<1>2. Pending = {c} /\ c \in Cases
  BY DEF IInv, OnePending, Pending
<1>3. Pending' = {}
  BY <1>1, <1>2 DEF IInv, TypeOK, Pending, NoJournal
<1>4. NoJournal \in Journal
  BY DEF NoJournal, Journal, NoCase, CaseRec, Status
<1>5. TypeOK'
  BY <1>1, <1>4 DEF IInv, TypeOK, Steps
<1>6. BoundToSession' /\ OnePending' /\ JournalIsNext' /\ CurrentCopiesAreExact'
  BY <1>1, <1>3 DEF IInv, BoundToSession, Exists, OnePending, JournalIsNext,
                    CurrentCopiesAreExact, Current
<1>7. OneActivePerSession'
  <2>1. \A d \in Cases : Outcome(d)' = Outcome(d)
    BY <1>1, <1>2, <1>3 DEF IInv, JournalIsNext, Outcome
  <2> QED BY <2>1 DEF IInv, OneActivePerSession
<1> QED BY <1>5, <1>6, <1>7 DEF IInv
-----------------------------------------------------------------------------
(* One step per action of the store.                                     *)
LEMMA StepKeepsIInv ==
  ASSUME IInv, [Next]_vars
  PROVE  IInv'
<1>1. /\ cache \in [Sessions -> 0..MaxSeq] /\ intact \in BOOLEAN
      /\ ReadCache \in [Sessions -> 0..MaxSeq]
      /\ file \in [Cases -> CaseRec]
      /\ \A c \in Cases : file[c].marker \in Nat
  BY ReadCacheType DEF IInv, TypeOK, CaseRec
<1>2. ASSUME NEW c \in Cases, NEW s \in Sessions, NEW n \in 0..1, Open(c, s, n)
      PROVE  IInv'
  BY <1>2, OpenKeepsIInv
<1>3. ASSUME NEW c \in Cases, NEW s \in Sessions, NEW marked \in BOOLEAN,
             LifecyclePause(c, s, marked)
      PROVE  IInv'
  <2> DEFINE marker == IF marked THEN NextSeq(s) ELSE file[c].marker
  <2>1. Disposition(c, "case_paused", "paused", s, marker) /\ reads' = reads
    BY <1>3 DEF LifecyclePause
  <2>2. marker \in Nat
    BY <1>1 DEF NextSeq
  <2>3. "case_paused" \in Kinds /\ "paused" \in Status \ {"none"}
    BY DEF Kinds, DispositionKinds, Status
  <2> HIDE DEF marker
  <2> QED BY <2>1, <2>2, <2>3, DispositionKeepsIInv
<1>4. ASSUME NEW c \in Cases, NEW s \in Sessions, ResumePaused(c, s)
      PROVE  IInv'
  <2>1. /\ Disposition(c, "case_resumed", "active", s, 0) /\ reads' = reads
        /\ \A d \in Cases : ~(file[d].status = "active" /\ file[d].session = s)
    BY <1>4 DEF ResumePaused, ActiveOn
  <2>2. "case_resumed" \in Kinds /\ "active" \in Status \ {"none"}
    BY DEF Kinds, DispositionKinds, Status
  <2> QED BY <2>1, <2>2, DispositionKeepsIInv
<1>5. ASSUME NEW c \in Cases, NEW old \in Sessions, NEW new \in Sessions,
             MigrateActive(c, old, new), reads' = reads
      PROVE  IInv'
  <2>1. /\ Disposition(c, "session_migrated", "active", new, file[c].marker)
        /\ \A d \in Cases \ {c} : ~(file[d].status = "active" /\ file[d].session = new)
    BY <1>5 DEF MigrateActive, ActiveOn
  <2>2. "session_migrated" \in Kinds /\ "active" \in Status \ {"none"}
    BY DEF Kinds, DispositionKinds, Status
  <2> QED BY <1>1, <1>5, <2>1, <2>2, DispositionKeepsIInv
<1>6. ASSUME NEW s \in Sessions, ProofOfLife(s)
      PROVE  IInv'
  <2>1. CASE \E c \in Cases : Disposition(c, "case_auto_resumed", "active", s, 0)
    <3>1. PICK c \in Cases : Disposition(c, "case_auto_resumed", "active", s, 0)
      BY <2>1
    <3>2. /\ reads' = reads
          /\ \A d \in Cases : ~(file[d].status = "active" /\ file[d].session = s)
      BY <1>6 DEF ProofOfLife, ActiveOn
    <3>3. "case_auto_resumed" \in Kinds /\ "active" \in Status \ {"none"}
      BY DEF Kinds, DispositionKinds, Status
    <3> QED BY <3>1, <3>2, <3>3, DispositionKeepsIInv
  <2>2. CASE TouchCache /\ UNCHANGED <<disk, step>> /\ reads' = reads
    BY <1>1, <2>2, QuietKeepsIInv DEF TouchCache
  <2> QED BY <1>6, <2>1, <2>2 DEF ProofOfLife
<1>7. ASSUME NEW child \in Sessions, AdoptFromLineage(child)
      PROVE  IInv'
  <2> DEFINE ancestor == Lineage[Max0(Adoptable(child))]
             marker == IF Pristine(child) THEN NextSeq(child) ELSE 0
  <2>1. ancestor \in Sessions
    <3>1. Len(Lineage) \in Nat /\ DOMAIN Lineage = 1..Len(Lineage)
      BY LineageAssumption, LenProperties
    <3>2. Adoptable(child) \in SUBSET (0..Len(Lineage))
      BY <3>1 DEF Adoptable
    <3>3. Adoptable(child) # {}
      BY <1>7 DEF AdoptFromLineage
    <3>4. Max0(Adoptable(child)) \in Adoptable(child)
      BY <3>1, <3>2, <3>3, MaxOfBounded
    <3>5. Max0(Adoptable(child)) \in 1..Len(Lineage)
      BY <3>1, <3>4 DEF Adoptable
    <3> QED BY <3>5, LineageAssumption, ElementOfSeq
  <2>2. CASE \E c \in Cases : MigrateActive(c, ancestor, child)
    <3> HIDE DEF ancestor
    <3> QED BY <1>5, <1>7, <2>1, <2>2 DEF AdoptFromLineage
  <2>3. CASE \E c \in Cases :
               Disposition(c, "session_migrated", "paused", child, marker)
    <3>1. marker \in Nat
      BY <1>1 DEF NextSeq
    <3>2. PICK c \in Cases : Disposition(c, "session_migrated", "paused", child, marker)
      BY <2>3
    <3>3. "session_migrated" \in Kinds /\ "paused" \in Status \ {"none"}
      BY DEF Kinds, DispositionKinds, Status
    <3>4. reads' = reads
      BY <1>7 DEF AdoptFromLineage
    <3> HIDE DEF marker
    <3> QED BY <3>1, <3>2, <3>3, <3>4, DispositionKeepsIInv
  <2> QED BY <1>7, <2>2, <2>3 DEF AdoptFromLineage
<1>8. ASSUME NEW p \in Procs, NEW c \in Cases, ReadCase(p, c)
      PROVE  IInv'
  BY <1>8, ReadKeepsIInv
<1>9. ASSUME NEW r \in reads, PauseCase(r) \/ CloseCase(r) \/ NoteCase(r)
      PROVE  IInv'
  <2>1. /\ "case_paused" \in Kinds /\ "case_closed" \in Kinds /\ "note" \in Kinds
    BY DEF Kinds, DispositionKinds
  <2> QED BY <1>9, <2>1, WriteBackKeepsIInv DEF PauseCase, CloseCase, NoteCase
<1>10. ASSUME NEW r \in reads, RefuseStale(r)
       PROVE  IInv'
  BY <1>1, <1>10, QuietKeepsIInv DEF RefuseStale, index
<1>11. CASE Operation
  <2> USE <1>11
  <2>1. ASSUME NEW c \in Cases, NEW s \in Sessions, NEW new \in Sessions,
               Compress(c, s, new)
        PROVE  IInv'
    BY <1>5, <2>1 DEF Compress
  <2> QED BY <1>2, <1>3, <1>4, <1>6, <1>7, <1>8, <1>9, <1>10, <2>1 DEF Operation
<1>12. ASSUME NEW c \in Cases, Apply(c)
       PROVE  IInv'
  BY <1>12, ApplyEventsKeepsIInv, ApplyCaseKeepsIInv, ReconcileKeepsIInv, UnlinkKeepsIInv
     DEF Apply
<1>13. CASE Recover
  BY <1>1, <1>13, QuietKeepsIInv DEF Recover, index
<1>14. CASE Crash
  BY <1>1, <1>14, BoundsAssumption, QuietKeepsIInv DEF Crash, index
<1>15. CASE LoseCache
  <2>1. UNCHANGED disk /\ step' = step /\ reads' = reads
    BY <1>15 DEF LoseCache
  <2>2. intact' = FALSE /\ cache' = [s \in Sessions |-> 0] /\ 0 \in 0..MaxSeq
    BY <1>15, BoundsAssumption DEF LoseCache
  <2>3. cache' \in [Sessions -> 0..MaxSeq] /\ intact' \in BOOLEAN
    BY <2>2
  <2> QED BY <1>1, <2>1, <2>3, QuietKeepsIInv
<1>16. CASE UNCHANGED vars
  BY <1>1, <1>16, QuietKeepsIInv DEF vars, disk
<1> QED BY <1>11, <1>12, <1>13, <1>14, <1>15, <1>16 DEF Next

(* An empty store satisfies the invariant.                               *)
LEMMA InitIsIInv == Init => IInv
<1> SUFFICES ASSUME Init PROVE IInv
  OBVIOUS
<1>1. Pending = {}
  BY DEF Init, Pending, NoJournal
<1>2. NoCase \in CaseRec /\ NoJournal \in Journal
  BY DEF NoCase, CaseRec, Status, NoJournal, Journal
<1>3. TypeOK
  <2>1. <<>> \in Seq(Event)
    BY EmptySeq
  <2>2. 0 \in 0..MaxSeq
    BY BoundsAssumption
  <2> QED BY <1>2, <2>1, <2>2 DEF Init, TypeOK, Steps
<1>4. BoundToSession /\ OnePending /\ JournalIsNext /\ CurrentCopiesAreExact
  BY <1>1 DEF Init, BoundToSession, OnePending, JournalIsNext,
              CurrentCopiesAreExact, Exists, NoCase
<1>5. OneActivePerSession
  BY <1>1 DEF Init, OneActivePerSession, Outcome, NoCase
<1> QED BY <1>3, <1>4, <1>5 DEF IInv

(* Every reachable state of the store satisfies the invariant.           *)
THEOREM StoreInvariant == Spec => []IInv
<1>1. IInv /\ [Next]_vars => IInv'
  BY StepKeepsIInv
<1> QED BY <1>1, InitIsIInv, PTL DEF Spec

(* The files keep their shape through every operation, crash and recovery. *)
THEOREM StoreTypeOK == Spec => []TypeOK
<1>1. IInv => TypeOK
  BY DEF IInv
<1> QED BY <1>1, StoreInvariant, PTL

(* No session ever has two active cases, counting the case a pending     *)
(* journal will install (store._get_active_case_no_recovery).            *)
THEOREM StoreExclusive == Spec => []OneActivePerSession
<1>1. IInv => OneActivePerSession
  BY DEF IInv
<1> QED BY <1>1, StoreInvariant, PTL

(* A copy read outside the lock that still has the current revision is the *)
(* current record: writing it back loses nobody's update (the check of   *)
(* runtime_revision in store._commit_transaction).                       *)
THEOREM StoreNoLostUpdate == Spec => []CurrentCopiesAreExact
<1>1. IInv => CurrentCopiesAreExact
  BY DEF IInv
<1> QED BY <1>1, StoreInvariant, PTL

-----------------------------------------------------------------------------
(* The history of a case.                                                *)

(* The events that precede a pending journal's own.                      *)
JournalPrefix(c) == SubSeq(timeline[c], 1, journal[c].base)

(* The Timeline of a case as it is, or as its journal will make it.      *)
History(c) ==
  IF c \in Pending THEN JournalPrefix(c) \o journal[c].events ELSE timeline[c]

(* A pending journal can be applied to what is there: the Timeline has not *)
(* been written yet and hashes the snapshot, or it has, and the snapshot *)
(* is the predecessor or the journal's own.                              *)
JournalFits ==
  \A c \in Pending :
    /\ journal[c].base <= Len(timeline[c])
    /\ Binds(journal[c].case, journal[c].events)
    /\ \/ /\ Len(timeline[c]) = journal[c].base
          /\ step \in {"idle", "events"}
          /\ Exists(c) => Binds(file[c], timeline[c])
       \/ /\ timeline[c] = History(c)
          /\ Exists(c) => file[c] = journal[c].case \/ Binds(file[c], JournalPrefix(c))

(* A case at rest is the one its Timeline hashes.                        *)
SettledBound == \A c \in Cases \ Pending : Exists(c) => Binds(file[c], timeline[c])

(* No two events of a session share a sequence number.                   *)
SeqsUnique ==
  \A c, d \in Cases : \A i \in DOMAIN History(c), j \in DOMAIN History(d) :
    /\ History(c)[i].seq = History(d)[j].seq
    /\ History(c)[i].seq # 0
    /\ History(c)[i].session = History(d)[j].session
    => c = d /\ i = j

(* The sequence numbers of session s on the Timelines; the ones handed out, *)
(* pending journals included; and the ones of pending journals.          *)
Written(s) == UNION {SeqsIn(timeline[c], s) : c \in Cases}
Drawn(s) == UNION {SeqsIn(History(c), s) : c \in Cases}
JournalSeqs(s) == UNION {SeqsIn(journal[c].events, s) : c \in Cases}

(* A well-formed cache lacks no number but those of a pending journal, and *)
(* not even those once the journal has been reconciled.                  *)
CacheAgrees ==
  intact => \A s \in Sessions :
    /\ Max0({cache[s]} \cup JournalSeqs(s)) = Max0(Drawn(s))
    /\ step = "unlink" => cache[s] = Max0(Drawn(s))

(* Every revision of a case has left an event.                           *)
RevisionsLogged == \A c \in Cases : Outcome(c).revision <= Len(History(c))

(* A session that a case or an event names has drawn a number.           *)
SessionsNumbered ==
  \A c \in Cases, s \in Sessions :
    \/ Outcome(c).session = s
    \/ \E i \in DOMAIN History(c) : History(c)[i].session = s
    => Max0(Drawn(s)) >= 1

(* After the last pause of the case nothing was decided on it but the    *)
(* adoption that drew its new session's first number.                    *)
Undisputed(c) ==
  \A i \in DOMAIN History(c) :
    History(c)[i].kind \in DispositionKinds /\ History(c)[i].seq # 1 =>
      \E k \in DOMAIN History(c) : i <= k /\ History(c)[k].kind = "case_paused"

(* A marker is a number that a disposition of its case drew in the session *)
(* the case is in, and the case has waited since.                        *)
MarkersDrawn ==
  \A c \in Cases :
    Outcome(c).marker # 0 =>
      /\ Outcome(c).status = "paused"
      /\ Outcome(c).marker \in SeqsIn(History(c), Outcome(c).session)
      /\ Undisputed(c)

(* What the history adds to the invariant.                               *)
HInv ==
  /\ JournalFits /\ SettledBound /\ SeqsUnique /\ CacheAgrees
  /\ RevisionsLogged /\ SessionsNumbered /\ MarkersDrawn

-----------------------------------------------------------------------------
(* The maximum is where it is claimed to be.                             *)
LEMMA MaxIs ==
  ASSUME NEW n \in Nat, NEW S \in SUBSET (0..n), NEW m \in S, \A x \in S : x <= m
  PROVE  Max0(S) = m
<1>1. Max0(S) \in S /\ \A x \in S : x <= Max0(S)
  BY MaxOfBounded
<1> DEFINE top == Max0(S)
<1> HIDE DEF top
<1>2. top \in S /\ m <= top /\ top <= m
  BY <1>1 DEF top
<1>3. m \in 0..n /\ top \in 0..n
  BY <1>2
<1>4. m = top
  BY <1>2, <1>3
<1> QED  BY <1>4 DEF top

(* A maximum stands for the set it is of.                                *)
LEMMA MaxOfMax ==
  ASSUME NEW n \in Nat, NEW S \in SUBSET (0..n), NEW T \in SUBSET (0..n)
  PROVE  Max0({Max0(S)} \cup T) = Max0(S \cup T)
<1>1. Max0(S) \in 0..n /\ (S # {} => Max0(S) \in S) /\ \A x \in S : x <= Max0(S)
  BY MaxOfBounded
<1> DEFINE m == Max0(S)
           both == {m} \cup T
<1>2. both \in SUBSET (0..n)
  BY <1>1
<1>3. Max0(both) \in both /\ \A x \in both : x <= Max0(both)
  <2> HIDE DEF both, m
  <2>1. both # {}
    BY DEF both
  <2> QED  BY <1>2, <2>1, MaxOfBounded
<1>4. CASE S \cup T = {}
  <2>1. S = {} /\ T = {}
    BY <1>4
  <2>2. m = 0
    BY <2>1 DEF Max0
  <2>3. both = {0}
    BY <2>1, <2>2
  <2> HIDE DEF both
  <2>4. Max0(both) = 0
    BY <1>3, <2>3
  <2>5. Max0(S \cup T) = 0
    BY <1>4 DEF Max0
  <2> QED  BY <2>4, <2>5 DEF both
<1>5. CASE S \cup T # {}
  <2>1. \A x \in S \cup T : x <= Max0(both)
    <3>1. \A x \in S : x \in Nat /\ m \in Nat /\ Max0(both) \in Nat /\ x <= m /\ m <= Max0(both)
      BY <1>1, <1>2, <1>3
    <3>2. \A x \in S : x <= Max0(both)
      <4> HIDE DEF m, both
      <4> QED  BY <3>1
    <3> QED  BY <1>3, <3>2
  <2>2. Max0(both) \in S \cup T
    <3>1. CASE S # {}
      BY <1>1, <1>3, <3>1
    <3>2. CASE S = {}
      <4>1. m = 0
        BY <3>2 DEF Max0
      <4>2. PICK x \in T : TRUE
        BY <1>5, <3>2
      <4>3. x \in Nat /\ x <= Max0(both) /\ Max0(both) \in Nat
        BY <1>2, <1>3, <4>2
      <4>4. Max0(both) # 0 \/ x = 0
        BY <4>3
      <4> QED  BY <1>3, <4>1, <4>2, <4>4
    <3> QED  BY <3>1, <3>2
  <2> HIDE DEF both
  <2>3. Max0(S \cup T) = Max0(both)
    BY <2>1, <2>2, MaxIs
  <2> QED  BY <2>3 DEF both
<1> QED  BY <1>4, <1>5

(* The sequence numbers of events are bounded.                           *)
LEMMA SeqsInBounded ==
  ASSUME NEW events \in Seq(Event), NEW s
  PROVE  SeqsIn(events, s) \subseteq 0..MaxSeq
<1>1. \A i \in DOMAIN events : events[i] \in Event
  BY ElementOfSeq, LenProperties
<1> QED  BY <1>1 DEF SeqsIn, Event

-----------------------------------------------------------------------------
(* What History consists of.                                             *)
LEMMA PrefixFacts ==
  ASSUME TypeOK, JournalFits, NEW c \in Pending
  PROVE  /\ c \in Cases /\ timeline[c] \in Seq(Event) /\ journal[c].events \in Seq(Event)
         /\ journal[c].base \in 0..Len(timeline[c])
         /\ JournalPrefix(c) \in Seq(Event)
         /\ Len(JournalPrefix(c)) = journal[c].base
         /\ \A i \in 1..journal[c].base : JournalPrefix(c)[i] = timeline[c][i]
<1>1. c \in Cases /\ timeline[c] \in Seq(Event) /\ journal[c] \in Journal
  BY DEF TypeOK, Pending
<1>2. journal[c].base \in 0..Len(timeline[c]) /\ journal[c].events \in Seq(Event)
  BY <1>1, LenProperties DEF JournalFits, Journal
<1>3. \A i \in 1..journal[c].base : timeline[c][i] \in Event
  BY <1>1, <1>2, ElementOfSeq, LenProperties
<1> DEFINE b == journal[c].base
           t == timeline[c]
<1>4. b \in Nat /\ b \in Int /\ 1 \in Int
  BY <1>1, <1>2, LenProperties
<1> HIDE DEF b, t
<1>5. \A i \in 1..b : t[i] \in Event
  BY <1>3 DEF b, t
<1>6. /\ SubSeq(t, 1, b) \in Seq(Event)
      /\ Len(SubSeq(t, 1, b)) = IF 1 <= b THEN b - 1 + 1 ELSE 0
      /\ \A i \in 1..(b - 1 + 1) : SubSeq(t, 1, b)[i] = t[1 + i - 1]
  BY <1>4, <1>5, SubSeqProperties
<1>7. /\ Len(SubSeq(t, 1, b)) = b
      /\ \A i \in 1..b : SubSeq(t, 1, b)[i] = t[i]
  BY <1>4, <1>6
<1> QED  BY <1>1, <1>2, <1>6, <1>7 DEF JournalPrefix, b, t

(* History is a Timeline that extends the one on disk.                   *)
LEMMA HistoryFacts ==
  ASSUME TypeOK, JournalFits, NEW c \in Cases
  PROVE  /\ History(c) \in Seq(Event)
         /\ Len(History(c)) \in Nat /\ DOMAIN History(c) = 1..Len(History(c))
         /\ \A i \in DOMAIN History(c) : History(c)[i] \in Event
         /\ Len(timeline[c]) <= Len(History(c))
         /\ \A i \in DOMAIN timeline[c] : i \in DOMAIN History(c) /\ timeline[c][i] = History(c)[i]
         /\ c \in Pending =>
              /\ Len(History(c)) = journal[c].base + Len(journal[c].events)
              /\ \A i \in 1..journal[c].base : History(c)[i] = timeline[c][i]
              /\ \A i \in DOMAIN journal[c].events :
                   /\ journal[c].base + i \in DOMAIN History(c)
                   /\ History(c)[journal[c].base + i] = journal[c].events[i]
<1>1. timeline[c] \in Seq(Event)
  BY DEF TypeOK
<1>2. CASE c \notin Pending
  <2>1. History(c) = timeline[c]
    BY <1>2 DEF History
  <2> QED  BY <1>1, <1>2, <2>1, LenProperties, ElementOfSeq
<1>3. CASE c \in Pending
  <2> DEFINE p == JournalPrefix(c)
             e == journal[c].events
             b == journal[c].base
  <2>1. /\ p \in Seq(Event) /\ e \in Seq(Event) /\ b \in 0..Len(timeline[c])
        /\ Len(p) = b /\ \A i \in 1..b : p[i] = timeline[c][i]
    BY <1>3, PrefixFacts
  <2>2. History(c) = p \o e
    BY <1>3 DEF History
  <2>3. Len(timeline[c]) = b \/ timeline[c] = p \o e
    BY <1>3, <2>2 DEF JournalFits
  <2> HIDE DEF p, e, b
  <2>4. /\ p \o e \in Seq(Event)
        /\ Len(p \o e) = b + Len(e)
        /\ \A i \in 1..(b + Len(e)) : (p \o e)[i] = IF i <= b THEN p[i] ELSE e[i - b]
    BY <2>1, ConcatProperties
  <2>5. Len(e) \in Nat /\ DOMAIN e = 1..Len(e) /\ b \in Nat
        /\ DOMAIN (p \o e) = 1..(b + Len(e)) /\ Len(timeline[c]) \in Nat
        /\ DOMAIN timeline[c] = 1..Len(timeline[c])
    BY <1>1, <2>1, <2>4, LenProperties
  <2>6. \A i \in 1..(b + Len(e)) : (p \o e)[i] \in Event
    BY <2>4, <2>5, ElementOfSeq
  <2>7. \A i \in 1..Len(e) : b + i \in 1..(b + Len(e)) /\ (p \o e)[b + i] = e[i]
    BY <2>4, <2>5
  <2>8. \A i \in 1..b : (p \o e)[i] = timeline[c][i]
    BY <2>1, <2>4, <2>5
  <2>9. /\ Len(timeline[c]) <= b + Len(e)
        /\ \A i \in DOMAIN timeline[c] : i \in 1..(b + Len(e)) /\ timeline[c][i] = (p \o e)[i]
    BY <2>3, <2>4, <2>5, <2>8
  <2> DEFINE h == p \o e
  <2>10. /\ h \in Seq(Event) /\ Len(h) \in Nat /\ DOMAIN h = 1..Len(h)
         /\ Len(h) = b + Len(e)
    BY <2>4, <2>5
  <2>11. /\ \A i \in DOMAIN h : h[i] \in Event
         /\ \A i \in DOMAIN timeline[c] : i \in DOMAIN h /\ timeline[c][i] = h[i]
         /\ \A i \in 1..b : h[i] = timeline[c][i]
         /\ \A i \in DOMAIN e : b + i \in DOMAIN h /\ h[b + i] = e[i]
    BY <2>5, <2>6, <2>7, <2>8, <2>9
  <2>12. Len(timeline[c]) <= Len(h) /\ History(c) = h
    BY <2>2, <2>9, <2>10
  <2> HIDE DEF h
  <2> QED  BY <2>10, <2>11, <2>12 DEF e, b
<1> QED  BY <1>2, <1>3

(* The numbers of a session, over the events that are there or in a      *)
(* journal.                                                              *)
LEMMA DrawnFacts ==
  ASSUME TypeOK, JournalFits, NEW s \in Sessions
  PROVE  /\ Drawn(s) \in SUBSET (0..MaxSeq)
         /\ JournalSeqs(s) \subseteq Drawn(s)
         /\ Written(s) \subseteq Drawn(s)
         /\ Drawn(s) \subseteq Written(s) \cup JournalSeqs(s)
         /\ Pending = {} => JournalSeqs(s) = {}
         /\ Max0(Drawn(s)) \in 0..MaxSeq
         /\ \A n \in Drawn(s) : n <= Max0(Drawn(s))
<1>1. ASSUME NEW c \in Cases
      PROVE  /\ SeqsIn(History(c), s) \subseteq 0..MaxSeq
             /\ SeqsIn(timeline[c], s) \subseteq SeqsIn(History(c), s)
             /\ SeqsIn(journal[c].events, s) \subseteq SeqsIn(History(c), s)
             /\ SeqsIn(History(c), s) \subseteq
                  SeqsIn(timeline[c], s) \cup SeqsIn(journal[c].events, s)
             /\ c \notin Pending => SeqsIn(journal[c].events, s) = {}
  <2>1. SeqsIn(History(c), s) \subseteq 0..MaxSeq
    BY HistoryFacts, SeqsInBounded
  <2>2. SeqsIn(timeline[c], s) \subseteq SeqsIn(History(c), s)
    BY HistoryFacts DEF SeqsIn
  <2>3. CASE c \notin Pending
    <3>1. journal[c].events = <<>> /\ History(c) = timeline[c]
      BY <2>3 DEF Pending, History
    <3>2. SeqsIn(journal[c].events, s) = {}
      BY <3>1 DEF SeqsIn
    <3> QED  BY <2>1, <3>1, <3>2
  <2>4. CASE c \in Pending
    <3> DEFINE b == journal[c].base
               e == journal[c].events
    <3>1. /\ Len(History(c)) = b + Len(e) /\ DOMAIN History(c) = 1..Len(History(c))
          /\ \A i \in 1..b : History(c)[i] = timeline[c][i]
          /\ \A i \in DOMAIN e : /\ b + i \in DOMAIN History(c)
                                  /\ History(c)[b + i] = e[i]
      BY <2>4, HistoryFacts
    <3>2. /\ b \in 0..Len(timeline[c]) /\ Len(timeline[c]) \in Nat /\ Len(e) \in Nat
          /\ DOMAIN e = 1..Len(e) /\ DOMAIN timeline[c] = 1..Len(timeline[c])
      BY <2>4, PrefixFacts, LenProperties
    <3> HIDE DEF b, e
    <3>3. SeqsIn(e, s) \subseteq SeqsIn(History(c), s)
      BY <3>1 DEF SeqsIn
    <3>4. ASSUME NEW i \in DOMAIN History(c)
          PROVE  \/ i \in DOMAIN timeline[c] /\ History(c)[i] = timeline[c][i]
                 \/ i - b \in DOMAIN e /\ History(c)[i] = e[i - b]
      <4>1. CASE i <= b
        BY <3>1, <3>2, <4>1
      <4>2. CASE ~(i <= b)
        <5>1. i - b \in 1..Len(e) /\ b + (i - b) = i
          BY <3>1, <3>2, <4>2
        <5> QED  BY <3>1, <3>2, <5>1
      <4> QED  BY <4>1, <4>2
    <3>5. SeqsIn(History(c), s) \subseteq SeqsIn(timeline[c], s) \cup SeqsIn(e, s)
      BY <3>4 DEF SeqsIn
    <3> QED  BY <2>1, <2>2, <2>4, <3>3, <3>5 DEF e
  <2> QED  BY <2>1, <2>2, <2>3, <2>4
<1>2. Drawn(s) \in SUBSET (0..MaxSeq)
  BY <1>1 DEF Drawn
<1>3. Max0(Drawn(s)) \in 0..MaxSeq /\ \A n \in Drawn(s) : n <= Max0(Drawn(s))
  BY <1>2, BoundsAssumption, MaxOfBounded
<1>4. /\ JournalSeqs(s) \subseteq Drawn(s)
      /\ Written(s) \subseteq Drawn(s)
      /\ Drawn(s) \subseteq Written(s) \cup JournalSeqs(s)
  BY <1>1 DEF Drawn, JournalSeqs, Written
<1>5. Pending = {} => JournalSeqs(s) = {}
  BY <1>1 DEF JournalSeqs
<1> QED  BY <1>2, <1>3, <1>4, <1>5

(* However much of the cache is lost, what a reader makes of it and of a *)
(* pending journal is the newest number handed out.                      *)
LEMMA HighWaterIsNewest ==
  ASSUME TypeOK, JournalFits, CacheAgrees, NEW s \in Sessions
  PROVE  /\ HighWater(s) = Max0(Drawn(s))
         /\ Pending = {} => ReadCache[s] = Max0(Drawn(s))
<1>1. HighWater(s) = Max0({ReadCache[s]} \cup JournalSeqs(s))
  BY DEF HighWater, JournalSeqs
<1>2. HighWater(s) = Max0(Drawn(s))
  <2>1. CASE intact
    BY <1>1, <2>1 DEF CacheAgrees, ReadCache
  <2>2. CASE ~intact
    <3>1. ReadCache[s] = Max0(Written(s))
      BY <2>2 DEF ReadCache, Rebuilt, Written
    <3>2. Written(s) \cup JournalSeqs(s) = Drawn(s) /\ Drawn(s) \in SUBSET (0..MaxSeq)
      BY DrawnFacts
    <3>3. Written(s) \in SUBSET (0..MaxSeq) /\ JournalSeqs(s) \in SUBSET (0..MaxSeq)
      BY <3>2
    <3>4. Max0({Max0(Written(s))} \cup JournalSeqs(s)) = Max0(Written(s) \cup JournalSeqs(s))
      BY <3>3, MaxOfMax, BoundsAssumption
    <3> QED  BY <1>1, <3>1, <3>2, <3>4
  <2> QED  BY <2>1, <2>2
<1>3. ASSUME Pending = {} PROVE ReadCache[s] = Max0(Drawn(s))
  <2>1. ReadCache[s] \in 0..MaxSeq
    BY ReadCacheType
  <2>2. {ReadCache[s]} \cup JournalSeqs(s) = {ReadCache[s]}
    BY <1>3, DrawnFacts
  <2>3. Max0({ReadCache[s]}) = ReadCache[s]
    BY <2>1, MaxIs, BoundsAssumption
  <2> QED  BY <1>1, <1>2, <2>2, <2>3
<1> QED  BY <1>2, <1>3

(* Taking the zeroes out of a set leaves its maximum.                    *)
LEMMA MaxWithoutZero ==
  ASSUME NEW n \in Nat, NEW m \in 0..n, NEW S \in SUBSET (0..n)
  PROVE  Max0({m} \cup (S \ {0})) = Max0({m} \cup S)
<1> DEFINE few == {m} \cup (S \ {0})
           all == {m} \cup S
<1>1. few \in SUBSET (0..n) /\ all \in SUBSET (0..n) /\ few # {} /\ few \subseteq all
  OBVIOUS
<1>2. \A x \in all : x = 0 \/ x \in few
  OBVIOUS
<1> HIDE DEF few, all
<1>3. Max0(few) \in few /\ Max0(few) \in 0..n /\ \A x \in few : x <= Max0(few)
  BY <1>1, MaxOfBounded
<1>4. \A x \in all : x <= Max0(few)
  BY <1>2, <1>3
<1>5. Max0(all) = Max0(few)
  BY <1>1, <1>3, <1>4, MaxIs
<1> QED  BY <1>5 DEF few, all

(* A step that changes neither what the cases come to nor what has been  *)
(* written of them.                                                      *)
LEMMA SilentKeepsHInv ==
  ASSUME IInv, HInv, \A c \in Cases : History(c)' = History(c) /\ Outcome(c)' = Outcome(c),
         JournalFits', SettledBound', CacheAgrees'
  PROVE  HInv'
<1>1. \A s : Drawn(s)' = Drawn(s)
  BY DEF Drawn
<1>2. \A c \in Cases : Undisputed(c)' = Undisputed(c)
  BY DEF Undisputed
<1>3. SeqsUnique'
  BY DEF HInv, SeqsUnique
<1>4. RevisionsLogged' /\ SessionsNumbered'
  BY <1>1 DEF HInv, RevisionsLogged, SessionsNumbered
<1>5. MarkersDrawn'
  BY <1>1, <1>2 DEF HInv, MarkersDrawn
<1> QED  BY <1>3, <1>4, <1>5 DEF HInv

(* Steps that leave every case file, Timeline and journal alone, whatever*)
(* happens to the cache.                                                 *)
LEMMA QuietKeepsHInv ==
  ASSUME IInv, HInv, UNCHANGED disk, step' = step \/ step' \in {"idle", "events"},
         UNCHANGED index \/ intact' = FALSE \/ (Pending = {} /\ TouchCache)
  PROVE  HInv' /\ \A c \in Cases : History(c)' = History(c) /\ Outcome(c)' = Outcome(c)
<1>1. /\ file' = file /\ timeline' = timeline /\ journal' = journal
      /\ Pending' = Pending
  BY DEF disk, Pending
<1>2. \A c \in Cases : /\ History(c)' = History(c) /\ Outcome(c)' = Outcome(c)
                       /\ JournalPrefix(c)' = JournalPrefix(c) /\ Exists(c)' = Exists(c)
  BY <1>1 DEF History, JournalPrefix, Outcome, Exists
<1>3. JournalFits'
  <2> SUFFICES ASSUME NEW c \in Pending
               PROVE  /\ journal[c].base <= Len(timeline[c])
                      /\ Binds(journal[c].case, journal[c].events)
                      /\ \/ /\ Len(timeline[c]) = journal[c].base
                            /\ step' \in {"idle", "events"}
                            /\ Exists(c) => Binds(file[c], timeline[c])
                         \/ /\ timeline[c] = History(c)
                            /\ Exists(c) => file[c] = journal[c].case \/ Binds(file[c], JournalPrefix(c))
    <3>1. \A c \in Pending : c \in Cases
      BY DEF Pending
    <3> QED  BY <1>1, <1>2, <3>1 DEF JournalFits, Binds
  <2> QED  BY DEF HInv, JournalFits
<1>4. SettledBound'
  BY <1>1, <1>2 DEF HInv, SettledBound, Binds
<1>5. \A s \in Sessions : JournalSeqs(s)' = JournalSeqs(s) /\ Drawn(s)' = Drawn(s)
  BY <1>1, <1>2 DEF JournalSeqs, Drawn, SeqsIn
<1>6. CacheAgrees'
  <2>1. CASE UNCHANGED index
    <3>1. cache' = cache /\ intact' = intact
      BY <2>1 DEF index
    <3> QED  BY <1>5, <3>1 DEF HInv, CacheAgrees
  <2>2. CASE intact' = FALSE
    BY <2>2 DEF CacheAgrees
  <2>3. CASE Pending = {} /\ TouchCache
    <3> SUFFICES ASSUME NEW s \in Sessions
                 PROVE  /\ Max0({cache'[s]} \cup JournalSeqs(s)) = Max0(Drawn(s))
                        /\ cache'[s] = Max0(Drawn(s))
      BY <1>5 DEF CacheAgrees
    <3>1. cache'[s] = ReadCache[s] /\ ReadCache[s] = Max0(Drawn(s))
      BY <2>3, HighWaterIsNewest DEF TouchCache, HInv, IInv
    <3>2. JournalSeqs(s) = {}
      BY <2>3, DrawnFacts DEF HInv, IInv
    <3>3. Max0(Drawn(s)) \in 0..MaxSeq
      BY DrawnFacts DEF HInv, IInv
    <3>4. Max0({Max0(Drawn(s))}) = Max0(Drawn(s))
      BY <3>3, MaxIs, BoundsAssumption
    <3>5. {cache'[s]} \cup JournalSeqs(s) = {Max0(Drawn(s))}
      BY <3>1, <3>2
    <3> QED  BY <3>1, <3>4, <3>5
  <2> QED  BY <2>1, <2>2, <2>3
<1>7. HInv'
  BY <1>2, <1>3, <1>4, <1>6, SilentKeepsHInv
<1> QED  BY <1>2, <1>7

-----------------------------------------------------------------------------
(* The four writes of a journal, for its history.                        *)

(* The maximum of one number.                                            *)
LEMMA MaxOfOne ==
  ASSUME NEW n \in Nat, NEW m \in 0..n
  PROVE  Max0({m}) = m
  BY MaxIs

(* Whether the events of the journal are there already or not, writing   *)
(* them makes the Timeline what it was to become.                        *)
LEMMA ApplyEventsKeepsHInv ==
  ASSUME IInv, HInv, NEW c \in Pending, ApplyEvents(c)
  PROVE  HInv' /\ \A d \in Cases : History(d)' = History(d) /\ Outcome(d)' = Outcome(d)
<1> DEFINE p == JournalPrefix(c)
           e == journal[c].events
           b == journal[c].base
<1>1. /\ file' = file /\ journal' = journal /\ cache' = cache /\ intact' = intact
      /\ step' = "case" /\ Pending' = Pending
      /\ timeline' = [timeline EXCEPT ![c] = p \o e]
  BY DEF ApplyEvents, index, Pending, JournalPrefix
<1>2. Pending = {c} /\ c \in Cases
  BY DEF IInv, OnePending, Pending
<1>3. /\ timeline[c] \in Seq(Event) /\ p \in Seq(Event) /\ e \in Seq(Event)
      /\ b \in 0..Len(timeline[c]) /\ Len(p) = b
      /\ \A i \in 1..b : p[i] = timeline[c][i]
  BY PrefixFacts DEF IInv, HInv
<1>4. timeline'[c] = p \o e /\ \A d \in Cases \ {c} : timeline'[d] = timeline[d]
  BY <1>1, <1>2 DEF IInv, TypeOK
<1>5. JournalPrefix(c)' = p
  <2>1. JournalPrefix(c)' = SubSeq(p \o e, 1, b)
    BY <1>1, <1>4 DEF JournalPrefix
  <2> HIDE DEF p, e, b
  <2>2. /\ p \o e \in Seq(Event) /\ Len(p \o e) = b + Len(e) /\ Len(e) \in Nat
        /\ b \in Nat /\ b \in Int /\ 1 \in Int /\ Len(timeline[c]) \in Nat
        /\ \A i \in 1..b : (p \o e)[i] = p[i]
    <3>1. Len(timeline[c]) \in Nat /\ Len(e) \in Nat /\ Len(p) \in Nat
      BY <1>3, LenProperties
    <3>2. /\ p \o e \in Seq(Event) /\ Len(p \o e) = Len(p) + Len(e)
          /\ \A i \in 1..(Len(p) + Len(e)) :
               (p \o e)[i] = IF i <= Len(p) THEN p[i] ELSE e[i - Len(p)]
      BY <1>3, ConcatProperties
    <3>3. b \in Nat /\ Len(p) = b
      BY <1>3, <3>1
    <3> QED  BY <3>1, <3>2, <3>3
  <2>3. \A i \in 1..b : (p \o e)[i] \in Event
    BY <2>2, ElementOfSeq, <1>3
  <2>4. /\ SubSeq(p \o e, 1, b) \in Seq(Event)
        /\ Len(SubSeq(p \o e, 1, b)) = IF 1 <= b THEN b - 1 + 1 ELSE 0
        /\ \A i \in 1..(b - 1 + 1) : SubSeq(p \o e, 1, b)[i] = (p \o e)[1 + i - 1]
    BY <2>2, <2>3, SubSeqProperties
  <2>5. /\ Len(SubSeq(p \o e, 1, b)) = Len(p)
        /\ \A i \in 1..Len(p) : SubSeq(p \o e, 1, b)[i] = p[i]
    BY <1>3, <2>2, <2>4
  <2>6. SubSeq(p \o e, 1, b) = p
    BY <1>3, <2>4, <2>5, SeqEqual
  <2> QED  BY <2>1, <2>6
<1>6. History(c) = p \o e /\ History(c)' = p \o e
  BY <1>1, <1>2, <1>5 DEF History
<1>7. \A d \in Cases : History(d)' = History(d) /\ Outcome(d)' = Outcome(d)
  BY <1>1, <1>2, <1>4, <1>6 DEF History, Outcome
<1>8. JournalFits'
  <2>1. Exists(c) => file[c] = journal[c].case \/ Binds(file[c], p)
    <3>1. CASE Exists(c) => file[c] = journal[c].case \/ Binds(file[c], p)
      BY <3>1
    <3>2. CASE Len(timeline[c]) = b /\ (Exists(c) => Binds(file[c], timeline[c]))
      <4>1. SubSeq(timeline[c], 1, Len(timeline[c])) = timeline[c]
        BY <1>3, SubSeqFull
      <4>2. p = timeline[c]
        BY <3>2, <4>1 DEF JournalPrefix
      <4> QED  BY <3>2, <4>2
    <3> QED  BY <3>1, <3>2 DEF HInv, JournalFits
  <2>2. b <= Len(p \o e)
    <3> HIDE DEF p, e, b
    <3>1. Len(p \o e) = b + Len(e) /\ Len(e) \in Nat /\ b \in Nat
      BY <1>3, ConcatProperties, LenProperties
    <3> QED  BY <3>1
  <2>3. Binds(journal[c].case, e)
    BY DEF HInv, JournalFits
  <2> QED  BY <1>1, <1>2, <1>4, <1>5, <1>6, <2>1, <2>2, <2>3
           DEF JournalFits, Binds, Exists
<1>9. SettledBound'
  BY <1>1, <1>2, <1>4 DEF HInv, SettledBound, Binds, Exists
<1>10. CacheAgrees'
  <2>1. \A s \in Sessions : JournalSeqs(s)' = JournalSeqs(s) /\ Drawn(s)' = Drawn(s)
    BY <1>1, <1>7 DEF JournalSeqs, Drawn, SeqsIn
  <2> QED  BY <1>1, <2>1 DEF HInv, CacheAgrees
<1> QED  BY <1>7, <1>8, <1>9, <1>10, SilentKeepsHInv

(* The snapshot becomes what the journal had made of the case.           *)
LEMMA ApplyCaseKeepsHInv ==
  ASSUME IInv, HInv, NEW c \in Pending, ApplyCase(c)
  PROVE  HInv' /\ \A d \in Cases : History(d)' = History(d) /\ Outcome(d)' = Outcome(d)
<1>1. /\ timeline' = timeline /\ journal' = journal /\ cache' = cache /\ intact' = intact
      /\ step = "case" /\ step' = "cache" /\ Pending' = Pending
      /\ file' = [file EXCEPT ![c] = journal[c].case]
  BY DEF ApplyCase, index, Pending
<1>2. Pending = {c} /\ c \in Cases
  BY DEF IInv, OnePending, Pending
<1>3. file'[c] = journal[c].case /\ \A d \in Cases \ {c} : file'[d] = file[d]
  BY <1>1, <1>2 DEF IInv, TypeOK
<1>4. \A d \in Cases : /\ History(d)' = History(d) /\ Outcome(d)' = Outcome(d)
                       /\ JournalPrefix(d)' = JournalPrefix(d)
  BY <1>1, <1>2, <1>3 DEF History, Outcome, JournalPrefix
<1>5. /\ journal[c].base <= Len(timeline[c]) /\ Binds(journal[c].case, journal[c].events)
      /\ timeline[c] = History(c)
  BY <1>1 DEF HInv, JournalFits
<1>6. JournalFits'
  BY <1>1, <1>2, <1>3, <1>4, <1>5 DEF JournalFits, Binds, Exists
<1>7. SettledBound'
  BY <1>1, <1>2, <1>3 DEF HInv, SettledBound, Binds, Exists
<1>8. CacheAgrees'
  <2>1. \A s \in Sessions : JournalSeqs(s)' = JournalSeqs(s) /\ Drawn(s)' = Drawn(s)
    BY <1>1, <1>4 DEF JournalSeqs, Drawn, SeqsIn
  <2> QED  BY <1>1, <2>1 DEF HInv, CacheAgrees
<1> QED  BY <1>4, <1>6, <1>7, <1>8, SilentKeepsHInv

(* The cache learns the numbers of the journal.                          *)
LEMMA ReconcileKeepsHInv ==
  ASSUME IInv, HInv, NEW c \in Pending, ReconcileCache(c)
  PROVE  HInv' /\ \A d \in Cases : History(d)' = History(d) /\ Outcome(d)' = Outcome(d)
<1>1. /\ file' = file /\ timeline' = timeline /\ journal' = journal
      /\ step = "cache" /\ step' = "unlink" /\ Pending' = Pending
  BY DEF ReconcileCache, disk, Pending
<1>2. Pending = {c} /\ c \in Cases
  BY DEF IInv, OnePending, Pending
<1>3. \A d \in Cases : /\ History(d)' = History(d) /\ Outcome(d)' = Outcome(d)
                       /\ JournalPrefix(d)' = JournalPrefix(d) /\ Exists(d)' = Exists(d)
  BY <1>1 DEF History, Outcome, JournalPrefix, Exists
<1>4. JournalFits'
  BY <1>1, <1>2, <1>3 DEF HInv, JournalFits, Binds
<1>5. SettledBound'
  BY <1>1, <1>3 DEF HInv, SettledBound, Binds
<1>6. \A s \in Sessions : JournalSeqs(s)' = JournalSeqs(s) /\ Drawn(s)' = Drawn(s)
  BY <1>1, <1>3 DEF JournalSeqs, Drawn, SeqsIn
<1>7. ASSUME NEW s \in Sessions
      PROVE  /\ JournalSeqs(s) = SeqsIn(journal[c].events, s)
             /\ JournalSeqs(s) \in SUBSET (0..MaxSeq) /\ Drawn(s) \in SUBSET (0..MaxSeq)
             /\ JournalSeqs(s) \subseteq Drawn(s)
             /\ Max0(Drawn(s)) \in 0..MaxSeq
             /\ Max0({ReadCache[s]} \cup JournalSeqs(s)) = Max0(Drawn(s))
             /\ ReadCache[s] \in 0..MaxSeq
  <2>1. \A d \in Cases \ {c} : SeqsIn(journal[d].events, s) = {}
    BY <1>2 DEF Pending, SeqsIn
  <2>2. JournalSeqs(s) = SeqsIn(journal[c].events, s)
    BY <1>2, <2>1 DEF JournalSeqs
  <2>3. /\ JournalSeqs(s) \in SUBSET (0..MaxSeq) /\ Drawn(s) \in SUBSET (0..MaxSeq)
        /\ JournalSeqs(s) \subseteq Drawn(s) /\ Max0(Drawn(s)) \in 0..MaxSeq
    BY DrawnFacts DEF IInv, HInv
  <2>4. Max0({ReadCache[s]} \cup JournalSeqs(s)) = Max0(Drawn(s))
    BY HighWaterIsNewest DEF IInv, HInv, HighWater, JournalSeqs
  <2>5. ReadCache[s] \in 0..MaxSeq
    BY ReadCacheType DEF IInv
  <2> QED  BY <2>2, <2>3, <2>4, <2>5
<1>8. ASSUME NEW s \in Sessions, intact'
      PROVE  cache'[s] = Max0(Drawn(s))
  <2>1. Max0({ReadCache[s]} \cup (JournalSeqs(s) \ {0})) = Max0(Drawn(s))
    BY <1>7, MaxWithoutZero, BoundsAssumption
  <2>2. CASE \A t \in Sessions : SeqsIn(journal[c].events, t) \ {0} = {}
    <3>1. cache' = cache /\ intact
      BY <1>8, <2>2 DEF ReconcileCache, index
    <3>2. {ReadCache[s]} \cup (JournalSeqs(s) \ {0}) = {cache[s]}
      BY <1>7, <2>2, <3>1 DEF ReadCache
    <3>3. cache[s] \in 0..MaxSeq
      BY DEF IInv, TypeOK
    <3>4. Max0({cache[s]}) = cache[s]
      BY <3>3, MaxOfOne, BoundsAssumption
    <3> QED  BY <2>1, <3>1, <3>2, <3>4
  <2>3. CASE ~\A t \in Sessions : SeqsIn(journal[c].events, t) \ {0} = {}
    <3>1. cache' = [t \in Sessions |->
                      Max0({ReadCache[t]} \cup (SeqsIn(journal[c].events, t) \ {0}))]
      BY <2>3 DEF ReconcileCache
    <3> QED  BY <1>7, <2>1, <3>1
  <2> QED  BY <2>2, <2>3
<1>9. CacheAgrees'
  <2> SUFFICES ASSUME intact', NEW s \in Sessions
               PROVE  /\ Max0({cache'[s]} \cup JournalSeqs(s)) = Max0(Drawn(s))
                      /\ cache'[s] = Max0(Drawn(s))
    BY <1>6 DEF CacheAgrees
  <2>1. Max0({Max0(Drawn(s))} \cup JournalSeqs(s)) = Max0(Drawn(s) \cup JournalSeqs(s))
    BY <1>7, MaxOfMax, BoundsAssumption
  <2>2. Drawn(s) \cup JournalSeqs(s) = Drawn(s)
    BY <1>7
  <2> QED  BY <1>8, <2>1, <2>2
<1> QED  BY <1>3, <1>4, <1>5, <1>9, SilentKeepsHInv

(* What the journal had is there: it can go.                             *)
LEMMA UnlinkKeepsHInv ==
  ASSUME IInv, HInv, NEW c \in Pending, Unlink(c)
  PROVE  HInv' /\ \A d \in Cases : History(d)' = History(d) /\ Outcome(d)' = Outcome(d)
<1>1. /\ file' = file /\ timeline' = timeline /\ cache' = cache /\ intact' = intact
      /\ step = "unlink" /\ step' = "idle"
      /\ journal' = [journal EXCEPT ![c] = NoJournal]
  BY DEF Unlink, index
<1>2. Pending = {c} /\ c \in Cases
  BY DEF IInv, OnePending, Pending
<1>3. Pending' = {}
  BY <1>1, <1>2 DEF IInv, TypeOK, Pending, NoJournal
<1>4. /\ file[c] = journal[c].case /\ timeline[c] = History(c)
      /\ Binds(journal[c].case, journal[c].events)
  BY <1>1 DEF IInv, JournalIsNext, HInv, JournalFits
<1>5. \A d \in Cases : History(d)' = History(d) /\ Outcome(d)' = Outcome(d)
  BY <1>1, <1>2, <1>3, <1>4 DEF History, Outcome
<1>6. JournalFits'
  BY <1>3 DEF JournalFits
<1>7. Binds(file[c], timeline[c])
  <2> DEFINE e == journal[c].events
             b == journal[c].base
             h == History(c)
  <2>1. /\ Len(h) = b + Len(e) /\ e # <<>> /\ e[Len(e)].binds = journal[c].case
        /\ \A i \in DOMAIN e : h[b + i] = e[i]
    BY <1>2, <1>4, HistoryFacts DEF IInv, HInv, Binds
  <2>2. e \in Seq(Event) /\ b \in Nat /\ h \in Seq(Event)
    BY <1>2, PrefixFacts, HistoryFacts, LenProperties DEF IInv, HInv
  <2> HIDE DEF e, b, h
  <2>3. Len(e) \in Nat /\ Len(e) # 0 /\ DOMAIN e = 1..Len(e)
    BY <2>1, <2>2, EmptySeq, LenProperties
  <2>4. h[Len(h)] = e[Len(e)] /\ Len(h) # 0
    BY <2>1, <2>2, <2>3
  <2>5. h # <<>>
    BY <2>4
  <2> QED  BY <1>4, <2>1, <2>4, <2>5 DEF Binds, h
<1>8. SettledBound'
  BY <1>1, <1>2, <1>3, <1>7 DEF HInv, SettledBound, Binds, Exists
<1>9. CacheAgrees'
  <2> SUFFICES ASSUME intact, NEW s \in Sessions
               PROVE  Max0({cache[s]} \cup JournalSeqs(s)') = Max0(Drawn(s)')
    BY <1>1 DEF CacheAgrees
  <2>1. Drawn(s)' = Drawn(s) /\ cache[s] = Max0(Drawn(s))
    BY <1>1, <1>5 DEF HInv, CacheAgrees, Drawn
  <2>2. JournalSeqs(s)' = {}
    BY <1>1, <1>3 DEF JournalSeqs, Pending, SeqsIn
  <2>3. Max0({cache[s]}) = cache[s]
    <3>1. cache[s] \in 0..MaxSeq
      BY DEF IInv, TypeOK
    <3> QED  BY <3>1, MaxIs, BoundsAssumption
  <2>4. {cache[s]} \cup JournalSeqs(s)' = {cache[s]}
    BY <2>2
  <2> QED  BY <2>1, <2>3, <2>4
<1> QED  BY <1>5, <1>6, <1>8, <1>9, SilentKeepsHInv

-----------------------------------------------------------------------------
(* What a commit does to the history.                                    *)

(* Adding numbers to a set moves its maximum only if one is larger.      *)
LEMMA MaxOfMore ==
  ASSUME NEW n \in Nat, NEW S \in SUBSET (0..n), NEW m \in 0..n,
         NEW T \in SUBSET {0, m}, m = 0 \/ (m \in T /\ m > Max0(S))
  PROVE  Max0(S \cup T) = IF m = 0 THEN Max0(S) ELSE m
<1>1. Max0(S) \in 0..n /\ (S # {} => Max0(S) \in S) /\ \A x \in S : x <= Max0(S)
  BY MaxOfBounded
<1> DEFINE top == Max0(S)
           all == S \cup T
<1>2. all \in SUBSET (0..n)
  OBVIOUS
<1>3. CASE m # 0
  <2>1. m \in all /\ \A x \in all : x <= m
    BY <1>1, <1>3
  <2> HIDE DEF all
  <2>2. Max0(all) = m
    BY <1>2, <2>1, MaxIs
  <2> QED  BY <1>3, <2>2 DEF all
<1>4. CASE m = 0
  <2>1. CASE all = {}
    <3>1. S = {}
      BY <2>1
    <3> QED  BY <1>4, <2>1, <3>1
  <2>2. CASE S = {} /\ all # {}
    <3>1. all = {0} /\ top = 0
      BY <1>4, <2>2 DEF Max0
    <3>2. Max0({0}) = 0
      BY MaxOfOne
    <3> QED  BY <1>4, <3>1, <3>2
  <2>3. CASE S # {}
    <3>1. top \in all /\ \A x \in all : x <= top
      BY <1>1, <1>4, <2>3
    <3> HIDE DEF all, top
    <3>2. Max0(all) = top
      BY <1>2, <3>1, MaxIs
    <3> QED  BY <1>4, <3>2 DEF all, top
  <2> QED  BY <2>1, <2>2, <2>3
<1> QED  BY <1>3, <1>4

(* The journal's events become the last ones of the case's history.      *)
LEMMA CommitFacts ==
  ASSUME IInv, HInv, NEW c \in Cases, NEW rec \in CaseRec, NEW events \in Seq(Event),
         events # <<>>, Commit(c, rec, events)
  PROVE  /\ Pending = {} /\ Pending' = {c} /\ step' = "events"
         /\ file' = file /\ timeline' = timeline
         /\ journal'[c] = [case |-> rec, events |-> events, base |-> Len(timeline[c])]
         /\ \A d \in Cases \ {c} : journal'[d] = journal[d] /\ journal[d].events = <<>>
         /\ \A d \in Cases : Outcome(d) = file[d] /\ History(d) = timeline[d]
         /\ \A d \in Cases \ {c} : Outcome(d)' = Outcome(d) /\ History(d)' = History(d)
         /\ Outcome(c)' = rec
         /\ Len((History(c)')) = Len(History(c)) + Len(events)
         /\ \A i \in DOMAIN History(c) :
              i \in DOMAIN (History(c)') /\ (History(c)')[i] = History(c)[i]
         /\ \A i \in DOMAIN events :
              /\ Len(History(c)) + i \in DOMAIN (History(c)')
              /\ (History(c)')[Len(History(c)) + i] = events[i]
         /\ \A i \in DOMAIN (History(c)') :
              \/ i \in DOMAIN History(c)
              \/ \E k \in DOMAIN events : i = Len(History(c)) + k
<1> DEFINE j == [case |-> rec, events |-> events, base |-> Len(timeline[c])]
           t == timeline[c]
<1>1. /\ Pending = {} /\ step' = "events" /\ file' = file /\ timeline' = timeline
      /\ journal' = [journal EXCEPT ![c] = j]
  BY DEF Commit, Ready
<1>2. journal'[c] = j /\ \A d \in Cases \ {c} : journal'[d] = journal[d]
  BY <1>1 DEF IInv, TypeOK
<1>3. \A d \in Cases : journal[d].events = <<>>
  BY <1>1 DEF Pending
<1>4. Pending' = {c}
  BY <1>2, <1>3 DEF Pending
<1>5. /\ \A d \in Cases : Outcome(d) = file[d] /\ History(d) = timeline[d]
      /\ \A d \in Cases \ {c} : Outcome(d)' = file[d] /\ History(d)' = timeline[d]
      /\ Outcome(c)' = rec
  BY <1>1, <1>2, <1>4 DEF Outcome, History
<1>6. t \in Seq(Event)
  BY DEF IInv, TypeOK
<1>7. History(c)' = t \o events
  <2>1. JournalPrefix(c)' = SubSeq(t, 1, Len(t))
    BY <1>1, <1>2 DEF JournalPrefix
  <2>2. JournalPrefix(c)' = t
    BY <1>6, <2>1, SubSeqFull
  <2> QED  BY <1>2, <1>4, <2>2 DEF History
<1> HIDE DEF t
<1>8. /\ Len(t) \in Nat /\ DOMAIN t = 1..Len(t)
      /\ Len(events) \in Nat /\ DOMAIN events = 1..Len(events)
      /\ t \o events \in Seq(Event)
      /\ DOMAIN (t \o events) = 1..(Len(t) + Len(events))
      /\ Len(t \o events) = Len(t) + Len(events)
      /\ \A i \in 1..(Len(t) + Len(events)) :
           (t \o events)[i] = IF i <= Len(t) THEN t[i] ELSE events[i - Len(t)]
  <2>1. /\ t \o events \in Seq(Event)
        /\ Len(t \o events) = Len(t) + Len(events)
        /\ \A i \in 1..(Len(t) + Len(events)) :
             (t \o events)[i] = IF i <= Len(t) THEN t[i] ELSE events[i - Len(t)]
    BY <1>6, ConcatProperties
  <2> QED  BY <1>6, <2>1, LenProperties
<1>9. /\ \A i \in DOMAIN t : /\ i \in DOMAIN (t \o events)
                             /\ (t \o events)[i] = t[i]
      /\ \A i \in DOMAIN events : /\ Len(t) + i \in DOMAIN (t \o events)
                                  /\ (t \o events)[Len(t) + i] = events[i]
      /\ \A i \in DOMAIN (t \o events) : \/ i \in DOMAIN t
                                          \/ \E k \in DOMAIN events : i = Len(t) + k
  <2>1. \A i \in DOMAIN (t \o events) : i \in DOMAIN t \/
            (i - Len(t) \in DOMAIN events /\ i = Len(t) + (i - Len(t)))
    BY <1>8
  <2> QED  BY <1>8, <2>1
<1>10. History(c) = t
  BY <1>5 DEF t
<1>11. /\ Len((History(c)')) = Len(History(c)) + Len(events)
       /\ \A i \in DOMAIN History(c) :
              i \in DOMAIN (History(c)') /\ (History(c)')[i] = History(c)[i]
       /\ \A i \in DOMAIN events :
              /\ Len(History(c)) + i \in DOMAIN (History(c)')
              /\ (History(c)')[Len(History(c)) + i] = events[i]
       /\ \A i \in DOMAIN (History(c)') :
              \/ i \in DOMAIN History(c)
              \/ \E k \in DOMAIN events : i = Len(History(c)) + k
  BY <1>7, <1>8, <1>9, <1>10
<1> QED  BY <1>1, <1>2, <1>3, <1>4, <1>5, <1>11

(* What every operation commits: events of one session, the last of them *)
(* the disposition that is numbered next or, with no number, a note of a *)
(* case that is the session's already.  A marker is written by the pause *)
(* that draws it, by the adoption that draws a session's first number, or*)
(* kept by a note.                                                       *)
Writes(c, rec, events, kind, s, seq) ==
  /\ Commit(c, rec, events)
  /\ events # <<>>
  /\ events[Len(events)] = Final(kind, s, seq, rec)
  /\ \A i \in DOMAIN events \ {Len(events)} :
       events[i].kind = "note" /\ events[i].session = s /\ events[i].seq = 0
  /\ rec.session = s
  /\ rec.revision = file[c].revision + 1
  /\ \/ kind \in DispositionKinds /\ seq = NextSeq(s) /\ Numbered(s) /\ TouchCache
     \/ kind = "note" /\ seq = 0 /\ UNCHANGED index /\ Exists(c) /\ file[c].session = s
  /\ rec.marker # 0 =>
       /\ rec.status = "paused"
       /\ \/ rec.marker = seq /\ (kind = "case_paused" \/ (seq = 1 /\ file[c].marker # 0))
          \/ kind = "note" /\ rec.marker = file[c].marker

(* The numbers handed out, once the transaction is decided.              *)
LEMMA WritesDrawn ==
  ASSUME IInv, HInv, NEW c \in Cases, NEW rec \in CaseRec, NEW events \in Seq(Event),
         NEW kind \in Kinds, NEW s \in Sessions, NEW seq, Writes(c, rec, events, kind, s, seq)
  PROVE  /\ seq \in 0..MaxSeq
         /\ seq = 0 \/ seq = Max0(Drawn(s)) + 1
         /\ seq \in SeqsIn(events, s)
         /\ \A t \in Sessions :
              /\ JournalSeqs(t)' = SeqsIn(events, t)
              /\ Drawn(t)' = Drawn(t) \cup SeqsIn(events, t)
              /\ SeqsIn(events, t) \subseteq (IF t = s THEN {0, seq} ELSE {})
              /\ Max0(Drawn(t)') = IF t = s /\ seq # 0 THEN seq ELSE Max0(Drawn(t))
<1>1. /\ Pending = {} /\ Pending' = {c}
      /\ journal'[c].events = events
      /\ \A d \in Cases \ {c} : journal'[d].events = <<>> /\ History(d)' = History(d)
      /\ \A i \in DOMAIN History(c) :
              i \in DOMAIN (History(c)') /\ (History(c)')[i] = History(c)[i]
      /\ \A i \in DOMAIN events :
              /\ Len(History(c)) + i \in DOMAIN (History(c)')
              /\ (History(c)')[Len(History(c)) + i] = events[i]
  <2>1. Commit(c, rec, events) /\ events # <<>>
    BY DEF Writes
  <2>2. journal'[c] = [case |-> rec, events |-> events, base |-> Len(timeline[c])]
    BY <2>1, CommitFacts
  <2>3. \A d \in Cases \ {c} : /\ journal'[d] = journal[d] /\ journal[d].events = <<>>
                              /\ History(d)' = History(d)
    BY <2>1, CommitFacts
  <2>4. journal'[c].events = events /\ \A d \in Cases \ {c} : journal'[d].events = <<>>
    BY <2>2, <2>3
  <2>5. Pending = {} /\ Pending' = {c}
    BY <2>1, CommitFacts
  <2>6. /\ \A i \in DOMAIN History(c) :
              i \in DOMAIN (History(c)') /\ (History(c)')[i] = History(c)[i]
        /\ \A i \in DOMAIN events :
              /\ Len(History(c)) + i \in DOMAIN (History(c)')
              /\ (History(c)')[Len(History(c)) + i] = events[i]
    BY <2>1, CommitFacts
  <2> QED  BY <2>3, <2>4, <2>5, <2>6
<1>12. \A i \in DOMAIN (History(c)') :
         i \in DOMAIN History(c) \/ \E k \in DOMAIN events : i = Len(History(c)) + k
  BY CommitFacts DEF Writes
<1>2. /\ ReadCache[s] = Max0(Drawn(s)) /\ ReadCache[s] \in 0..MaxSeq
  BY <1>1, HighWaterIsNewest, ReadCacheType DEF IInv, HInv
<1>3. seq \in 0..MaxSeq /\ (seq = 0 \/ seq = Max0(Drawn(s)) + 1)
  BY <1>2, BoundsAssumption DEF Writes, NextSeq, Numbered
<1>4. /\ Len(events) \in Nat /\ Len(events) # 0 /\ DOMAIN events = 1..Len(events)
      /\ Len(History(c)) \in Nat /\ DOMAIN History(c) = 1..Len(History(c))
  BY LenProperties, EmptySeq, HistoryFacts DEF Writes, IInv, HInv
<1>5. /\ Len(events) \in DOMAIN events
      /\ events[Len(events)].session = s /\ events[Len(events)].seq = seq
  BY <1>4 DEF Writes, Final
<1>6. seq \in SeqsIn(events, s)
  BY <1>5 DEF SeqsIn
<1>7. \A i \in DOMAIN events : events[i].session = s /\ events[i].seq \in {0, seq}
  BY <1>5 DEF Writes
<1>8. ASSUME NEW t \in Sessions
      PROVE  SeqsIn(events, t) \subseteq (IF t = s THEN {0, seq} ELSE {})
  BY <1>7 DEF SeqsIn
<1>9. ASSUME NEW t \in Sessions PROVE JournalSeqs(t)' = SeqsIn(events, t)
  <2>1. SeqsIn(journal'[c].events, t) = SeqsIn(events, t)
    BY <1>1
  <2>2. \A d \in Cases \ {c} : SeqsIn(journal'[d].events, t) = {}
    BY <1>1 DEF SeqsIn
  <2>3. JournalSeqs(t)' = UNION {SeqsIn(journal'[d].events, t) : d \in Cases}
    BY DEF JournalSeqs, SeqsIn
  <2>4. UNION {SeqsIn(journal'[d].events, t) : d \in Cases} = SeqsIn(events, t)
    <3> DEFINE part(d) == SeqsIn(journal'[d].events, t)
    <3>1. part(c) = SeqsIn(events, t) /\ \A d \in Cases \ {c} : part(d) = {}
      BY <2>1, <2>2
    <3> HIDE DEF part
    <3>2. UNION {part(d) : d \in Cases} = SeqsIn(events, t)
      BY <3>1
    <3> QED  BY <3>2 DEF part
  <2> QED  BY <2>3, <2>4
<1>10. ASSUME NEW t \in Sessions PROVE Drawn(t)' = Drawn(t) \cup SeqsIn(events, t)
  <2>1. SeqsIn(History(c)', t) = SeqsIn(History(c), t) \cup SeqsIn(events, t)
    <3> DEFINE h == History(c)
               g == History(c)'
    <3>1. \A i \in DOMAIN h : i \in DOMAIN g /\ g[i] = h[i]
      BY <1>1
    <3>2. \A i \in DOMAIN events : /\ Len(h) + i \in DOMAIN g
                                  /\ g[Len(h) + i] = events[i]
      BY <1>1
    <3>3. \A i \in DOMAIN g : i \in DOMAIN h \/ \E k \in DOMAIN events : i = Len(h) + k
      BY <1>12
    <3> HIDE DEF h, g
    <3>4. SeqsIn(g, t) = SeqsIn(h, t) \cup SeqsIn(events, t)
      BY <3>1, <3>2, <3>3 DEF SeqsIn
    <3> QED  BY <3>4 DEF h, g
  <2>2. \A d \in Cases \ {c} : SeqsIn(History(d), t)' = SeqsIn(History(d), t)
    BY <1>1 DEF SeqsIn
  <2> QED  BY <2>1, <2>2 DEF Drawn
<1>11. ASSUME NEW t \in Sessions
       PROVE  Max0(Drawn(t)') = IF t = s /\ seq # 0 THEN seq ELSE Max0(Drawn(t))
  <2>1. Drawn(t) \in SUBSET (0..MaxSeq) /\ Max0(Drawn(t)) \in 0..MaxSeq
    BY DrawnFacts DEF IInv, HInv
  <2>2. CASE t = s
    <3> DEFINE T == SeqsIn(events, t)
               S == Drawn(t)
    <3>1. T \in SUBSET {0, seq} /\ (seq = 0 \/ (seq \in T /\ seq > Max0(S)))
      BY <1>3, <1>6, <1>8, <2>1, <2>2
    <3>2. S \in SUBSET (0..MaxSeq)
      BY <2>1
    <3>3. Drawn(t)' = S \cup T
      BY <1>10
    <3>4. seq \in 0..MaxSeq /\ MaxSeq \in Nat
      BY <1>3, BoundsAssumption
    <3> HIDE DEF S, T
    <3>5. Max0(S \cup T) = IF seq = 0 THEN Max0(S) ELSE seq
      BY <3>1, <3>2, <3>4, MaxOfMore
    <3> QED  BY <2>2, <3>3, <3>5 DEF S
  <2>3. CASE t # s
    <3>1. Drawn(t)' = Drawn(t)
      BY <1>8, <1>10, <2>3
    <3> QED  BY <2>3, <3>1
  <2> QED  BY <2>2, <2>3
<1> QED  BY <1>3, <1>6, <1>8, <1>9, <1>10, <1>11

(* Every event of the history is one that was there, the note of an      *)
(* initial observation, or the last one.                                 *)
LEMMA WritesHistory ==
  ASSUME IInv, HInv, NEW c \in Cases, NEW rec \in CaseRec, NEW events \in Seq(Event),
         NEW kind \in Kinds, NEW s \in Sessions, NEW seq, Writes(c, rec, events, kind, s, seq)
  PROVE  LET h == History(c)
             g == History(c)'
             last == Len(h) + Len(events)
         IN  /\ Len(h) \in Nat /\ DOMAIN h = 1..Len(h) /\ Len(g) = last
             /\ last \in Nat /\ last > Len(h)
             /\ last \in DOMAIN g /\ g[last] = Final(kind, s, seq, rec)
             /\ \A i \in DOMAIN h : i \in DOMAIN g /\ g[i] = h[i]
             /\ \A i \in DOMAIN g :
                  \/ i \in DOMAIN h
                  \/ i = last
                  \/ g[i].kind = "note" /\ g[i].session = s /\ g[i].seq = 0
             /\ \A i \in DOMAIN g : i \in 1..last
<1> DEFINE h == History(c)
           g == History(c)'
           last == Len(h) + Len(events)
<1>0. Commit(c, rec, events) /\ events # <<>>
  BY DEF Writes
<1>1. \A i \in DOMAIN h : i \in DOMAIN g /\ g[i] = h[i]
  BY <1>0, CommitFacts
<1>2. \A i \in DOMAIN events : /\ Len(h) + i \in DOMAIN g
                               /\ g[Len(h) + i] = events[i]
  BY <1>0, CommitFacts
<1>3. \A i \in DOMAIN g : i \in DOMAIN h \/ \E k \in DOMAIN events : i = Len(h) + k
  BY <1>0, CommitFacts
<1>4. Len(g) = last
  BY <1>0, CommitFacts
<1>5. /\ Len(events) \in Nat /\ Len(events) # 0 /\ DOMAIN events = 1..Len(events)
      /\ Len(h) \in Nat /\ DOMAIN h = 1..Len(h)
  BY <1>0, LenProperties, EmptySeq, HistoryFacts DEF IInv, HInv
<1>6. /\ events[Len(events)] = Final(kind, s, seq, rec)
      /\ \A i \in DOMAIN events \ {Len(events)} :
           events[i].kind = "note" /\ events[i].session = s /\ events[i].seq = 0
  BY DEF Writes
<1> HIDE DEF h, g
<1>7. Len(events) \in DOMAIN events /\ last \in Nat /\ last > Len(h)
  BY <1>5
<1>8. last \in DOMAIN g /\ g[last] = Final(kind, s, seq, rec)
  BY <1>2, <1>6, <1>7
<1>9. ASSUME NEW i \in DOMAIN g
      PROVE  \/ i \in DOMAIN h
             \/ i = last
             \/ g[i].kind = "note" /\ g[i].session = s /\ g[i].seq = 0
  <2>1. CASE i \in DOMAIN h
    BY <2>1
  <2>2. CASE i \notin DOMAIN h
    <3>1. PICK k \in DOMAIN events : i = Len(h) + k
      BY <1>3, <2>2
    <3>2. g[i] = events[k]
      BY <1>2, <3>1
    <3> QED  BY <1>6, <3>1, <3>2
  <2> QED  BY <2>1, <2>2
<1>10. \A i \in DOMAIN g : i \in 1..last
  BY <1>3, <1>5
<1> QED  BY <1>1, <1>4, <1>5, <1>7, <1>8, <1>9, <1>10 DEF h, g

(* What a commit writes fits what is there.                              *)
LEMMA WritesKeepHInv ==
  ASSUME IInv, HInv, NEW c \in Cases, NEW rec \in CaseRec, NEW events \in Seq(Event),
         NEW kind \in Kinds, NEW s \in Sessions, NEW seq, Writes(c, rec, events, kind, s, seq)
  PROVE  HInv'
<1>0. Commit(c, rec, events) /\ events # <<>>
  BY DEF Writes
<1>1. /\ Pending = {} /\ Pending' = {c} /\ step' = "events"
      /\ file' = file /\ timeline' = timeline
      /\ journal'[c] = [case |-> rec, events |-> events, base |-> Len(timeline[c])]
  BY <1>0, CommitFacts
<1>2. /\ \A d \in Cases : Outcome(d) = file[d] /\ History(d) = timeline[d]
      /\ \A d \in Cases \ {c} : Outcome(d)' = Outcome(d) /\ History(d)' = History(d)
      /\ Outcome(c)' = rec
  BY <1>0, CommitFacts
<1> DEFINE h == History(c)
           g == History(c)'
           last == Len(h) + Len(events)
<1>3. /\ Len(h) \in Nat /\ DOMAIN h = 1..Len(h) /\ Len(g) = last
      /\ last \in Nat /\ last > Len(h)
      /\ last \in DOMAIN g /\ g[last] = Final(kind, s, seq, rec)
  BY WritesHistory
<1>4. \A i \in DOMAIN h : i \in DOMAIN g /\ g[i] = h[i]
  BY WritesHistory
<1>5. \A i \in DOMAIN g :
        \/ i \in DOMAIN h
        \/ i = last
        \/ g[i].kind = "note" /\ g[i].session = s /\ g[i].seq = 0
  BY WritesHistory
<1>6. /\ seq \in 0..MaxSeq
      /\ seq = 0 \/ seq = Max0(Drawn(s)) + 1
      /\ seq \in SeqsIn(events, s)
  BY WritesDrawn
<1>7. \A t \in Sessions :
        /\ JournalSeqs(t)' = SeqsIn(events, t)
        /\ Drawn(t)' = Drawn(t) \cup SeqsIn(events, t)
        /\ SeqsIn(events, t) \subseteq (IF t = s THEN {0, seq} ELSE {})
        /\ Max0(Drawn(t)') = IF t = s /\ seq # 0 THEN seq ELSE Max0(Drawn(t))
  BY WritesDrawn
<1>8. \A t \in Sessions : /\ Drawn(t) \in SUBSET (0..MaxSeq) /\ Max0(Drawn(t)) \in 0..MaxSeq
                          /\ \A n \in Drawn(t) : n <= Max0(Drawn(t))
                          /\ ReadCache[t] = Max0(Drawn(t))
  BY <1>1, DrawnFacts, HighWaterIsNewest DEF IInv, HInv
<1>9. Binds(rec, events)
  BY <1>0 DEF Binds, Writes, Final
<1>10. JournalFits'
  <2>1. Exists(c) => Binds(file[c], timeline[c])
    BY <1>0 DEF Commit
  <2>2. Len(timeline[c]) \in Nat
    BY LenProperties DEF IInv, TypeOK
  <2> QED  BY <1>1, <1>9, <2>1, <2>2 DEF JournalFits, Binds, Exists
<1>11. SettledBound'
  BY <1>1 DEF HInv, SettledBound, Binds, Exists
<1>12. RevisionsLogged'
  <2>1. file[c].revision \in Nat /\ file[c].revision <= Len(h)
    BY <1>2 DEF HInv, RevisionsLogged, IInv, TypeOK, CaseRec
  <2>2. rec.revision <= Len(g)
    BY <1>3, <2>1 DEF Writes
  <2> QED  BY <1>2, <2>2 DEF HInv, RevisionsLogged
<1>13. CacheAgrees'
  <2>1. ASSUME intact', NEW t \in Sessions
        PROVE  Max0({cache'[t]} \cup JournalSeqs(t)') = Max0(Drawn(t)')
    <3>1. cache'[t] = Max0(Drawn(t))
      <4>1. CASE TouchCache
        BY <1>8, <4>1 DEF TouchCache
      <4>2. CASE UNCHANGED index
        BY <1>8, <2>1, <4>2 DEF index, ReadCache
      <4> QED  BY <4>1, <4>2 DEF Writes
    <3> DEFINE T == SeqsIn(events, t)
               S == Drawn(t)
    <3>2. T \in SUBSET (0..MaxSeq) /\ S \in SUBSET (0..MaxSeq)
      BY <1>6, <1>7, <1>8, BoundsAssumption
    <3>3. JournalSeqs(t)' = T /\ Drawn(t)' = S \cup T /\ cache'[t] = Max0(S)
      BY <1>7, <3>1
    <3> HIDE DEF S, T
    <3>4. Max0({Max0(S)} \cup T) = Max0(S \cup T)
      BY <3>2, MaxOfMax, BoundsAssumption
    <3> QED  BY <3>3, <3>4
  <2> QED  BY <1>1, <2>1 DEF CacheAgrees
<1>14. \A t \in Sessions : Max0(Drawn(t)) <= Max0(Drawn(t)')
  BY <1>6, <1>7, <1>8
<1>15. Max0(Drawn(s)') >= 1
  <2>1. CASE seq = 0
    <3>1. Exists(c) /\ file[c].session = s
      BY <1>6, <1>8, <2>1 DEF Writes, NextSeq
    <3>2. Max0(Drawn(s)) >= 1
      BY <1>2, <3>1 DEF HInv, SessionsNumbered, Exists
    <3> QED  BY <1>7, <2>1, <3>2
  <2>2. CASE seq # 0
    BY <1>6, <1>7, <2>2
  <2> QED  BY <2>1, <2>2
<1>16. SessionsNumbered'
  <2> SUFFICES ASSUME NEW d \in Cases, NEW t \in Sessions,
                      \/ Outcome(d)'.session = t
                      \/ \E i \in DOMAIN (History(d)') : (History(d)')[i].session = t
               PROVE  Max0(Drawn(t)') >= 1
    BY DEF SessionsNumbered
  <2>1. CASE t = s
    BY <1>15, <2>1
  <2>2. CASE t # s
    <3>1. \/ Outcome(d).session = t
          \/ \E i \in DOMAIN History(d) : History(d)[i].session = t
      <4>1. CASE d = c
        <5>1. rec.session = s
          BY DEF Writes
        <5>2. \A i \in DOMAIN g : i \in DOMAIN h \/ g[i].session = s
          BY <1>3, <1>5 DEF Final
        <5> HIDE DEF g, h
        <5>3. \E i \in DOMAIN g : g[i].session = t
          BY <1>2, <2>2, <4>1, <5>1 DEF g
        <5>4. \E i \in DOMAIN h : h[i].session = t
          BY <1>4, <2>2, <5>2, <5>3
        <5> QED  BY <4>1, <5>4 DEF h
      <4>2. CASE d # c
        BY <1>2, <4>2
      <4> QED  BY <4>1, <4>2
    <3>2. Max0(Drawn(t)) >= 1
      BY <3>1 DEF HInv, SessionsNumbered
    <3> QED  BY <1>7, <2>2, <3>2
  <2> QED  BY <2>1, <2>2
<1>17. SeqsUnique'
  <2> DEFINE G(d) == History(d)'
  <2>1. ASSUME NEW d \in Cases, NEW i \in DOMAIN G(d), G(d)[i].seq # 0
        PROVE  \/ i \in DOMAIN History(d) /\ G(d)[i] = History(d)[i]
               \/ d = c /\ i = last /\ G(d)[i].seq = seq /\ G(d)[i].session = s
    <3>1. CASE d = c
      BY <1>3, <1>4, <1>5, <2>1, <3>1 DEF Final
    <3>2. CASE d # c
      BY <1>2, <3>2
    <3> QED  BY <3>1, <3>2
  <2>2. ASSUME NEW d \in Cases, NEW i \in DOMAIN History(d), History(d)[i].session = s
        PROVE  History(d)[i].seq <= Max0(Drawn(s)) /\ History(d)[i].seq \in Nat
    <3>1. History(d)[i].seq \in SeqsIn(History(d), s)
      BY <2>2 DEF SeqsIn
    <3>2. History(d)[i].seq \in Drawn(s)
      BY <3>1 DEF Drawn
    <3> QED  BY <1>8, <3>2, BoundsAssumption
  <2> SUFFICES ASSUME NEW d \in Cases, NEW e \in Cases,
                      NEW i \in DOMAIN G(d), NEW j \in DOMAIN G(e),
                      G(d)[i].seq = G(e)[j].seq, G(d)[i].seq # 0,
                      G(d)[i].session = G(e)[j].session
               PROVE  d = e /\ i = j
    BY DEF SeqsUnique
  <2> HIDE DEF G
  <2>3. CASE /\ i \in DOMAIN History(d) /\ G(d)[i] = History(d)[i]
             /\ j \in DOMAIN History(e) /\ G(e)[j] = History(e)[j]
    BY <2>3 DEF HInv, SeqsUnique
  <2>4. CASE /\ d = c /\ i = last /\ G(d)[i].seq = seq /\ G(d)[i].session = s
             /\ j \in DOMAIN History(e) /\ G(e)[j] = History(e)[j]
    BY <1>6, <1>8, <2>2, <2>4
  <2>5. CASE /\ e = c /\ j = last /\ G(e)[j].seq = seq /\ G(e)[j].session = s
             /\ i \in DOMAIN History(d) /\ G(d)[i] = History(d)[i]
    BY <1>6, <1>8, <2>2, <2>5
  <2>6. CASE d = c /\ i = last /\ e = c /\ j = last
    BY <2>6
  <2> QED  BY <2>1, <2>3, <2>4, <2>5, <2>6
<1>18. MarkersDrawn'
  <2> SUFFICES ASSUME NEW d \in Cases, Outcome(d)'.marker # 0
               PROVE  /\ Outcome(d)'.status = "paused"
                      /\ Outcome(d)'.marker \in SeqsIn(History(d)', Outcome(d)'.session)
                      /\ Undisputed(d)'
    BY DEF MarkersDrawn
  <2>1. CASE d # c
    <3>1. Outcome(d)' = Outcome(d) /\ History(d)' = History(d)
      BY <1>2, <2>1
    <3>2. Undisputed(d)' = Undisputed(d)
      BY <3>1 DEF Undisputed
    <3> QED  BY <3>1, <3>2 DEF HInv, MarkersDrawn
  <2>2. CASE d = c
    <3>1. /\ rec.marker # 0 /\ Outcome(c)' = rec /\ rec.session = s /\ rec.status = "paused"
          /\ \/ rec.marker = seq /\ (kind = "case_paused" \/ (seq = 1 /\ file[c].marker # 0))
             \/ kind = "note" /\ rec.marker = file[c].marker
      BY <1>2, <2>2 DEF Writes
    <3>2. g[last].kind = kind /\ g[last].session = s /\ g[last].seq = seq
      BY <1>3 DEF Final
    <3>3. file[c].marker # 0 =>
            /\ file[c].marker \in SeqsIn(h, file[c].session)
            /\ \A i \in DOMAIN h : h[i].kind \in DispositionKinds /\ h[i].seq # 1 =>
                 \E k \in DOMAIN h : i <= k /\ h[k].kind = "case_paused"
      BY <1>2 DEF HInv, MarkersDrawn, Undisputed
    <3>4. "note" \notin DispositionKinds
      BY DEF DispositionKinds
    <3>5. \A i \in DOMAIN g : i <= last
      BY <1>3, WritesHistory
    <3>6. SeqsIn(g, s) = {g[i].seq : i \in {k \in DOMAIN g : g[k].session = s}}
      BY DEF SeqsIn
    <3>7. rec.marker = seq =>  rec.marker \in SeqsIn(g, s)
      <4> HIDE DEF g
      <4> QED  BY <1>3, <3>2 DEF SeqsIn
    <3>8. CASE kind = "note" /\ rec.marker = file[c].marker
      <4>1. file[c].session = s
        BY <3>4, <3>8 DEF Writes
      <4>2. rec.marker \in SeqsIn(g, s)
        <5> HIDE DEF g, h
        <5> QED  BY <1>4, <3>1, <3>3, <3>8, <4>1 DEF SeqsIn
      <4>3. Undisputed(c)'
        <5>1. \A i \in DOMAIN g : g[i].kind \in DispositionKinds /\ g[i].seq # 1 =>
                 \E k \in DOMAIN g : i <= k /\ g[k].kind = "case_paused"
          <6> HIDE DEF g, h
          <6> QED  BY <1>4, <1>5, <3>1, <3>2, <3>3, <3>4, <3>8
        <5> QED  BY <5>1 DEF Undisputed
      <4> QED  BY <2>2, <3>1, <4>2, <4>3
    <3>9. CASE rec.marker = seq /\ (kind = "case_paused" \/ (seq = 1 /\ file[c].marker # 0))
      <4>1. Undisputed(c)'
        <5>1. \A i \in DOMAIN g : g[i].kind \in DispositionKinds /\ g[i].seq # 1 =>
                 \E k \in DOMAIN g : i <= k /\ g[k].kind = "case_paused"
          <6>1. CASE kind = "case_paused"
            BY <1>3, <3>2, <3>5, <6>1
          <6>2. CASE seq = 1 /\ file[c].marker # 0
            <7> HIDE DEF g, h
            <7> QED  BY <1>4, <1>5, <3>2, <3>3, <3>4, <6>2
          <6> QED  BY <3>9, <6>1, <6>2
        <5> QED  BY <5>1 DEF Undisputed
      <4> QED  BY <2>2, <3>1, <3>7, <3>9, <4>1
    <3> QED  BY <3>1, <3>8, <3>9
  <2> QED  BY <2>1, <2>2
<1> QED  BY <1>10, <1>11, <1>12, <1>13, <1>16, <1>17, <1>18 DEF HInv

-----------------------------------------------------------------------------
(* The operations, each as what it writes.                               *)

(* With no journal pending, every case is at rest: only paused ones are  *)
(* marked.                                                               *)
LEMMA MarkedArePaused ==
  ASSUME HInv, Pending = {}, NEW c \in Cases, file[c].marker # 0
  PROVE  file[c].status = "paused"
  BY DEF HInv, MarkersDrawn, Outcome

(* A disposition of one event, with the marker it may write.             *)
LEMMA DispositionWrites ==
  ASSUME IInv, HInv, NEW c \in Cases, NEW s \in Sessions, NEW kind \in DispositionKinds,
         NEW status \in Status \ {"none"}, NEW marker \in Nat,
         Disposition(c, kind, status, s, marker),
         marker # 0 =>
           /\ status = "paused"
           /\ marker = NextSeq(s) /\ (kind = "case_paused" \/ (NextSeq(s) = 1 /\ file[c].marker # 0))
  PROVE  LET rec == Revised(c, status, s, marker)
             events == <<Final(kind, s, NextSeq(s), rec)>>
         IN  /\ Writes(c, rec, events, kind, s, NextSeq(s))
             /\ rec \in CaseRec /\ events \in Seq(Event) /\ kind \in Kinds
<1> DEFINE rec == Revised(c, status, s, marker)
           e == Final(kind, s, NextSeq(s), rec)
           events == <<e>>
<1>1. file[c].revision \in Nat
  BY DEF IInv, TypeOK, CaseRec
<1>2. /\ rec \in CaseRec /\ rec.revision = file[c].revision + 1
      /\ rec.status = status /\ rec.session = s /\ rec.marker = marker
  BY <1>1 DEF Revised, CaseRec
<1>3. NextSeq(s) \in 0..MaxSeq
  BY ReadCacheType, BoundsAssumption DEF IInv, NextSeq, Disposition, Numbered
<1>4. e \in Event /\ kind \in Kinds
  BY <1>2, <1>3 DEF Final, Event, Kinds
<1>5. Commit(c, rec, events) /\ TouchCache /\ Numbered(s)
  BY DEF Disposition
<1>6. events \in Seq(Event) /\ events # <<>> /\ Len(events) = 1 /\ events[1] = e
      /\ DOMAIN events = {1}
  BY <1>4
<1> HIDE DEF rec, e, events
<1>7. events[Len(events)] = Final(kind, s, NextSeq(s), rec)
  BY <1>6 DEF e
<1>8. Writes(c, rec, events, kind, s, NextSeq(s))
  BY <1>2, <1>5, <1>6, <1>7 DEF Writes
<1>9. events \in Seq(Event)
  BY <1>6
<1> QED  BY <1>2, <1>4, <1>8, <1>9 DEF rec, e, events

(* open_case: the notes of the initial observations, then case_opened.   *)
LEMMA OpenWrites ==
  ASSUME IInv, HInv, NEW c \in Cases, NEW s \in Sessions, NEW observations \in 0..1,
         Open(c, s, observations)
  PROVE  \E rec \in CaseRec, events \in Seq(Event) :
           /\ Writes(c, rec, events, "case_opened", s, NextSeq(s))
           /\ rec.status = "active" /\ rec.marker = 0
<1> DEFINE rec == Revised(c, "active", s, 0)
           e == Final("case_opened", s, NextSeq(s), rec)
           note == Final("note", s, 0, NoCase)
           seen == [i \in 1..observations |-> note]
           events == Append(seen, e)
<1>1. file[c].revision \in Nat
  BY DEF IInv, TypeOK, CaseRec
<1>2. /\ rec \in CaseRec /\ rec.revision = file[c].revision + 1
      /\ rec.status = "active" /\ rec.session = s /\ rec.marker = 0
  BY <1>1 DEF Revised, CaseRec, Status
<1>3. NextSeq(s) \in 0..MaxSeq /\ 0 \in 0..MaxSeq
  BY ReadCacheType, BoundsAssumption DEF IInv, NextSeq, Open, Numbered
<1>4. e \in Event /\ note \in Event
  BY <1>2, <1>3 DEF Final, Event, Kinds, DispositionKinds, NoCase, CaseRec, Status
<1>5. /\ seen \in Seq(Event) /\ Len(seen) = observations
      /\ \A i \in 1..observations : seen[i] = note
  BY <1>4, IsASeq
<1>6. note.kind = "note" /\ note.session = s /\ note.seq = 0
  BY DEF Final
<1>7. Commit(c, rec, events) /\ TouchCache /\ Numbered(s)
  BY DEF Open
<1>8. "case_opened" \in DispositionKinds
  BY DEF DispositionKinds
<1> HIDE DEF rec, e, note, seen
<1>9. /\ events \in Seq(Event) /\ Len(events) = observations + 1
      /\ events[observations + 1] = e
      /\ \A i \in 1..observations : events[i] = seen[i]
  BY <1>4, <1>5, AppendProperties
<1> HIDE DEF events
<1>10. DOMAIN events = 1..(observations + 1) /\ events # <<>>
  BY <1>9, LenProperties, EmptySeq
<1>11. Writes(c, rec, events, "case_opened", s, NextSeq(s))
  <2>1. events[Len(events)] = Final("case_opened", s, NextSeq(s), rec)
    BY <1>9 DEF e
  <2>2. \A i \in DOMAIN events \ {Len(events)} :
          events[i].kind = "note" /\ events[i].session = s /\ events[i].seq = 0
    BY <1>5, <1>6, <1>9, <1>10
  <2> QED  BY <1>2, <1>7, <1>8, <1>10, <2>1, <2>2 DEF Writes
<1> QED  BY <1>2, <1>9, <1>11

(* A copy written back is the current record: its session, and its marker*)
(* if it is a note, are those on disk.                                   *)
LEMMA WriteBackWrites ==
  ASSUME IInv, HInv, NEW r \in reads, NEW kind \in Kinds,
         NEW status \in {"paused", "closed", r.rec.status},
         WriteBack(r, kind, status),
         \/ r.rec.status = "active" /\ kind \in DispositionKinds
         \/ kind = "note" /\ status = r.rec.status
  PROVE  \E rec \in CaseRec, events \in Seq(Event) :
           /\ r.case \in Cases /\ r.rec = file[r.case] /\ r.rec.session \in Sessions
           /\ Exists(r.case)
           /\ rec.status = status
           /\ rec.marker = IF kind = "note" THEN file[r.case].marker ELSE 0
           /\ Writes(r.case, rec, events, kind, r.rec.session,
                     IF kind = "note" THEN 0 ELSE NextSeq(r.rec.session))
<1> DEFINE s == r.rec.session
           c == r.case
           rec == Revised(c, status, s, r.rec.marker)
           seq == IF kind \in DispositionKinds THEN NextSeq(s) ELSE 0
           e == Final(kind, s, seq, rec)
           events == <<e>>
<1>1. c \in Cases /\ r.rec \in CaseRec /\ InUse(r.rec)
      /\ file[c] \in CaseRec /\ file[c].revision \in Nat /\ s \in Sessions
  BY DEF IInv, TypeOK, BoundToSession, CaseRec, InUse
<1>2. r.rec = file[c]
  BY DEF IInv, CurrentCopiesAreExact, WriteBack
<1>3. /\ rec \in CaseRec /\ rec.revision = file[c].revision + 1
      /\ rec.status = status /\ rec.session = s /\ rec.marker = r.rec.marker
  <2>1. r.rec.status \in Status \ {"none"} /\ r.rec.session \in Sessions /\ r.rec.marker \in Nat
    BY <1>1 DEF CaseRec, InUse
  <2>2. status \in Status
    BY <2>1 DEF Status
  <2>3. rec = [status |-> status, session |-> s,
               revision |-> file[c].revision + 1, marker |-> r.rec.marker]
    BY DEF Revised
  <2> HIDE DEF rec
  <2> QED BY <1>1, <2>1, <2>2, <2>3 DEF CaseRec
<1>4. seq \in 0..MaxSeq
  <2>1. CASE kind \in DispositionKinds
    BY <1>1, <2>1, ReadCacheType, BoundsAssumption
       DEF IInv, NextSeq, WriteBack, Numbered
  <2>2. CASE kind \notin DispositionKinds
    BY <2>2, BoundsAssumption
  <2> QED BY <2>1, <2>2
<1>5. e \in Event
  BY <1>1, <1>3, <1>4 DEF Final, Event
<1>6. events \in Seq(Event) /\ events # <<>> /\ Len(events) = 1 /\ events[1] = e
      /\ DOMAIN events = {1}
  BY <1>5
<1>7. /\ Commit(c, rec, events)
      /\ IF kind \in DispositionKinds THEN Numbered(s) /\ TouchCache ELSE UNCHANGED index
  BY DEF WriteBack
<1>8. Exists(c) /\ file[c].session = s
  BY <1>1, <1>2 DEF Exists, InUse
<1>9. file[c].marker # 0 => kind = "note" /\ rec.status = "paused"
  <2>1. Pending = {}
    BY <1>7 DEF Commit, Ready
  <2> QED  BY <1>1, <1>2, <1>3, <2>1, MarkedArePaused
<1>10. rec.marker = IF kind = "note" THEN file[c].marker ELSE 0
  BY <1>2, <1>3, <1>9
<1>11. "note" \notin DispositionKinds
  BY DEF DispositionKinds
<1>12. kind = "note" \/ kind \in DispositionKinds
  OBVIOUS
<1> HIDE DEF rec, e, events, s, c
<1>13. Writes(c, rec, events, kind, s, seq)
  BY <1>2, <1>3, <1>6, <1>7, <1>8, <1>9, <1>11, <1>12 DEF Writes, e
<1>14. seq = IF kind = "note" THEN 0 ELSE NextSeq(s)
  BY <1>11, <1>12
<1> QED  BY <1>1, <1>2, <1>3, <1>6, <1>8, <1>10, <1>13, <1>14 DEF s, c

-----------------------------------------------------------------------------
(* The ledger that the files amount to.                                  *)

(* The ledger's high-water is the newest number handed out.              *)
LEMMA LedgerHighWater ==
  IInv /\ HInv => \A t \in Sessions : HighWater(t) = Max0(Drawn(t))
  BY HighWaterIsNewest DEF IInv, HInv

(* A step that neither decides a transaction nor loses one is no step of *)
(* the ledger.                                                           *)
LEMMA SilentIsStutter ==
  ASSUME IInv, HInv, IInv', HInv',
         \A c \in Cases : History(c)' = History(c) /\ Outcome(c)' = Outcome(c)
  PROVE  UNCHANGED Ledger!vars
<1>1. \A s \in Sessions : Drawn(s)' = Drawn(s)
  BY DEF Drawn
<1>2. \A s \in Sessions : HighWater(s) = Max0(Drawn(s))
  BY LedgerHighWater
<1>3. (\A t \in Sessions : HighWater(t) = Max0(Drawn(t)))'
  BY LedgerHighWater, PTL
<1>4. \A s \in Sessions : HighWater(s)' = HighWater(s)
  BY <1>1, <1>2, <1>3
<1>5. [s \in Sessions |-> HighWater(s)]' = [s \in Sessions |-> HighWater(s)]
  BY <1>4
<1>6. [c \in Cases |-> Outcome(c)]' = [c \in Cases |-> Outcome(c)]
  OBVIOUS
<1> QED  BY <1>5, <1>6 DEF Ledger!vars

(* A decided transaction advances the record of one case.                *)
LEMMA WritesAdvance ==
  ASSUME IInv, HInv, IInv', HInv',
         NEW c \in Cases, NEW rec \in CaseRec, NEW events \in Seq(Event),
         NEW kind \in Kinds, NEW s \in Sessions, NEW seq, Writes(c, rec, events, kind, s, seq)
  PROVE  /\ Pending = {}
         /\ \A d \in Cases : Outcome(d) = file[d]
         /\ \A t \in Sessions : HighWater(t) = ReadCache[t] /\ ReadCache[t] \in Nat
                                /\ ReadCache[t] = Max0(Drawn(t))
         /\ Ledger!Advance(c, rec.status, s, rec.marker)
         /\ kind \in DispositionKinds => Ledger!Dispose(s)
         /\ kind \notin DispositionKinds => [t \in Sessions |-> HighWater(t)]'
                                              = [t \in Sessions |-> HighWater(t)]
<1>0. Commit(c, rec, events) /\ events # <<>>
  BY DEF Writes
<1>1. /\ Pending = {}
      /\ \A d \in Cases : Outcome(d) = file[d] /\ History(d) = timeline[d]
      /\ \A d \in Cases \ {c} : Outcome(d)' = Outcome(d)
      /\ Outcome(c)' = rec
  BY <1>0, CommitFacts
<1>2. file[c].revision < MaxEvents
  <2>1. file[c].revision <= Len(timeline[c]) /\ file[c].revision \in Nat
    BY <1>1 DEF HInv, RevisionsLogged, IInv, TypeOK, CaseRec
  <2>2. Len(timeline[c]) + Len(events) <= MaxEvents
    BY <1>0 DEF Commit
  <2>3. Len(events) \in Nat /\ Len(events) # 0 /\ Len(timeline[c]) \in Nat
    BY <1>0, LenProperties, EmptySeq DEF IInv, TypeOK
  <2> QED  BY <2>1, <2>2, <2>3, BoundsAssumption
<1>3. rec = [status |-> rec.status, session |-> s,
             revision |-> file[c].revision + 1, marker |-> rec.marker]
  BY DEF Writes, CaseRec
<1>4. Ledger!Advance(c, rec.status, s, rec.marker)
  <2> DEFINE cs == [d \in Cases |-> Outcome(d)]
  <2>1. cs' = [cs EXCEPT ![c] = rec]
    BY <1>1
  <2>2. cs[c] = file[c]
    BY <1>1
  <2> HIDE DEF cs
  <2>3. /\ cs[c].revision < MaxEvents
        /\ cs' = [cs EXCEPT ![c] = [status |-> rec.status, session |-> s,
                                    revision |-> cs[c].revision + 1, marker |-> rec.marker]]
    BY <1>2, <1>3, <2>1, <2>2
  <2> QED  BY <2>3 DEF Ledger!Advance, cs
<1>5. \A t \in Sessions : HighWater(t) = ReadCache[t] /\ ReadCache[t] \in Nat
                          /\ ReadCache[t] = Max0(Drawn(t))
  <2> SUFFICES ASSUME NEW t \in Sessions
               PROVE  HighWater(t) = ReadCache[t] /\ ReadCache[t] \in Nat
                      /\ ReadCache[t] = Max0(Drawn(t))
    OBVIOUS
  <2>1. /\ ReadCache[t] = Max0(Drawn(t)) /\ HighWater(t) = Max0(Drawn(t))
        /\ Max0(Drawn(t)) \in 0..MaxSeq
    BY <1>1, HighWaterIsNewest, DrawnFacts DEF IInv, HInv
  <2> QED  BY <2>1, BoundsAssumption
<1>6. \A t \in Sessions :
        HighWater(t)' = IF t = s /\ seq # 0 THEN seq ELSE HighWater(t)
  <2>1. (\A t \in Sessions : HighWater(t) = Max0(Drawn(t)))'
    BY LedgerHighWater, PTL
  <2>2. \A t \in Sessions :
          Max0(Drawn(t)') = IF t = s /\ seq # 0 THEN seq ELSE Max0(Drawn(t))
    BY WritesDrawn
  <2>3. \A t \in Sessions : HighWater(t)' = Max0(Drawn(t)')
    BY <2>1
  <2>4. \A t \in Sessions : HighWater(t) = Max0(Drawn(t))
    BY <1>5
  <2> QED  BY <2>2, <2>3, <2>4
<1>7. ASSUME kind \in DispositionKinds PROVE Ledger!Dispose(s)
  <2>1. seq = HighWater(s) + 1 /\ seq # 0
    <3>1. seq = NextSeq(s)
      BY <1>7 DEF Writes, DispositionKinds
    <3> QED  BY <1>5, <3>1 DEF NextSeq
  <2> DEFINE hw == [t \in Sessions |-> HighWater(t)]
  <2>2. hw' = [hw EXCEPT ![s] = hw[s] + 1]
    BY <1>6, <2>1
  <2> QED  BY <2>2 DEF Ledger!Dispose
<1>8. ASSUME kind \notin DispositionKinds
      PROVE  [t \in Sessions |-> HighWater(t)]' = [t \in Sessions |-> HighWater(t)]
  <2>1. seq = 0
    BY <1>8 DEF Writes
  <2> QED  BY <1>6, <2>1
<1> QED  BY <1>1, <1>4, <1>5, <1>7, <1>8

-----------------------------------------------------------------------------
(* What each operation decides.                                          *)
Decides(c, s, kind, status, marker) ==
  \E rec \in CaseRec, events \in Seq(Event) : \E seq \in Nat :
    /\ Writes(c, rec, events, kind, s, seq)
    /\ rec.status = status
    /\ rec.marker = marker

(* The transaction keeps the history's invariant,                        *)
LEMMA DecidesKeepsHInv ==
  ASSUME IInv, HInv, NEW c \in Cases, NEW s \in Sessions, NEW kind \in Kinds,
         NEW status, NEW marker, Decides(c, s, kind, status, marker)
  PROVE  HInv'
  BY WritesKeepHInv DEF Decides

(* and is one step of the ledger's record and high-water.                *)
LEMMA DecidesAdvances ==
  ASSUME IInv, HInv, IInv', HInv', NEW c \in Cases, NEW s \in Sessions, NEW kind \in Kinds,
         NEW status, NEW marker, Decides(c, s, kind, status, marker)
  PROVE  /\ Pending = {}
         /\ \A d \in Cases : Outcome(d) = file[d]
         /\ \A t \in Sessions : HighWater(t) = ReadCache[t] /\ ReadCache[t] \in Nat
         /\ Ledger!Advance(c, status, s, marker)
         /\ kind \in DispositionKinds => Ledger!Dispose(s)
         /\ kind \notin DispositionKinds => [t \in Sessions |-> HighWater(t)]'
                                              = [t \in Sessions |-> HighWater(t)]
<1>1. PICK rec \in CaseRec, events \in Seq(Event) : \E seq \in Nat :
        Writes(c, rec, events, kind, s, seq) /\ rec.status = status /\ rec.marker = marker
  BY DEF Decides
<1>2. PICK seq \in Nat :
        Writes(c, rec, events, kind, s, seq) /\ rec.status = status /\ rec.marker = marker
  BY <1>1
<1> QED  BY <1>2, WritesAdvance

(* A disposition decides its only event.                                 *)
LEMMA DispositionDecides ==
  ASSUME IInv, HInv, NEW c \in Cases, NEW s \in Sessions, NEW kind \in DispositionKinds,
         NEW status \in Status \ {"none"}, NEW marker \in Nat,
         Disposition(c, kind, status, s, marker),
         marker # 0 =>
           /\ status = "paused"
           /\ marker = NextSeq(s) /\ (kind = "case_paused" \/ (NextSeq(s) = 1 /\ file[c].marker # 0))
  PROVE  Decides(c, s, kind, status, marker) /\ kind \in Kinds
<1> DEFINE rec == Revised(c, status, s, marker)
           events == <<Final(kind, s, NextSeq(s), rec)>>
<1>1. /\ Writes(c, rec, events, kind, s, NextSeq(s))
      /\ rec \in CaseRec /\ events \in Seq(Event) /\ kind \in Kinds
  BY DispositionWrites
<1>2. NextSeq(s) \in Nat
  BY ReadCacheType DEF IInv, NextSeq
<1>3. rec.status = status /\ rec.marker = marker
  BY DEF Revised
<1> HIDE DEF rec, events
<1> QED  BY <1>1, <1>2, <1>3 DEF Decides

(* A session without a case in its history has not been numbered yet.    *)
LEMMA PristineIsUnnumbered ==
  ASSUME IInv, HInv, Pending = {}, NEW s \in Sessions
  PROVE  IF Pristine(s) THEN ReadCache[s] = 0 ELSE ReadCache[s] >= 1
<1>1. ReadCache[s] = Max0(Drawn(s))
  BY HighWaterIsNewest DEF IInv, HInv
<1>2. \A d \in Cases : Outcome(d) = file[d] /\ History(d) = timeline[d]
  BY DEF Outcome, History
<1>3. CASE Pristine(s)
  <2>1. \A d \in Cases : SeqsIn(timeline[d], s) = {}
    BY <1>3 DEF Pristine, SeqsIn
  <2>2. Drawn(s) = {}
    BY <1>2, <2>1 DEF Drawn
  <2> QED  BY <1>1, <1>3, <2>2 DEF Max0
<1>4. CASE ~Pristine(s)
  <2>1. PICK d \in Cases : \/ Outcome(d).session = s
                           \/ \E i \in DOMAIN History(d) : History(d)[i].session = s
    BY <1>2, <1>4 DEF Pristine
  <2> QED  BY <1>1, <1>4, <2>1 DEF HInv, SessionsNumbered
<1> QED  BY <1>3, <1>4

(* Opening decides case_opened.                                          *)
LEMMA OpenDecides ==
  ASSUME IInv, HInv, NEW c \in Cases, NEW s \in Sessions, NEW observations \in 0..1,
         Open(c, s, observations)
  PROVE  Decides(c, s, "case_opened", "active", 0)
<1>1. NextSeq(s) \in Nat
  BY ReadCacheType DEF IInv, NextSeq
<1> QED  BY <1>1, OpenWrites DEF Decides

(* An active case carries no marker, so an unmarked pause writes none.   *)
LEMMA PauseDecides ==
  ASSUME IInv, HInv, NEW c \in Cases, NEW s \in Sessions, NEW marked \in BOOLEAN,
         LifecyclePause(c, s, marked)
  PROVE  Decides(c, s, "case_paused", "paused", IF marked THEN ReadCache[s] + 1 ELSE 0)
<1> DEFINE marker == IF marked THEN NextSeq(s) ELSE 0
<1>1. /\ Disposition(c, "case_paused", "paused", s,
                     IF marked THEN NextSeq(s) ELSE file[c].marker)
      /\ file[c].status = "active"
  BY DEF LifecyclePause, ActiveOn
<1>2. file[c].marker = 0
  BY <1>1, MarkedArePaused DEF Disposition, Commit, Ready
<1>3. Disposition(c, "case_paused", "paused", s, marker)
  BY <1>1, <1>2
<1>4. marker \in Nat /\ (marker # 0 => marker = NextSeq(s))
  BY ReadCacheType DEF IInv, NextSeq
<1>5. "case_paused" \in DispositionKinds /\ "paused" \in Status \ {"none"}
  BY DEF DispositionKinds, Status
<1> HIDE DEF marker
<1>6. Decides(c, s, "case_paused", "paused", marker)
  BY <1>3, <1>4, <1>5, DispositionDecides
<1> QED  BY <1>6 DEF marker, NextSeq

(* Resuming consumes the marker.                                         *)
LEMMA ResumeDecides ==
  ASSUME IInv, HInv, NEW c \in Cases, NEW s \in Sessions, ResumePaused(c, s)
  PROVE  Decides(c, s, "case_resumed", "active", 0)
<1>1. Disposition(c, "case_resumed", "active", s, 0)
  BY DEF ResumePaused
<1>2. "case_resumed" \in DispositionKinds /\ "active" \in Status \ {"none"}
  BY DEF DispositionKinds, Status
<1> QED  BY <1>1, <1>2, DispositionDecides

(* So does the proof of life.                                            *)
LEMMA AutoResumeDecides ==
  ASSUME IInv, HInv, NEW c \in Cases, NEW s \in Sessions,
         Disposition(c, "case_auto_resumed", "active", s, 0)
  PROVE  Decides(c, s, "case_auto_resumed", "active", 0)
<1>2. "case_auto_resumed" \in DispositionKinds /\ "active" \in Status \ {"none"}
  BY DEF DispositionKinds, Status
<1> QED  BY <1>2, DispositionDecides

(* An active case moves without one.                                     *)
LEMMA MigrateDecides ==
  ASSUME IInv, HInv, NEW c \in Cases, NEW old \in Sessions, NEW new \in Sessions,
         MigrateActive(c, old, new)
  PROVE  Decides(c, new, "session_migrated", "active", 0)
<1>1. Disposition(c, "session_migrated", "active", new, file[c].marker)
      /\ file[c].status = "active"
  BY DEF MigrateActive, ActiveOn
<1>2. file[c].marker = 0
  BY <1>1, MarkedArePaused DEF Disposition, Commit, Ready
<1>3. "session_migrated" \in DispositionKinds /\ "active" \in Status \ {"none"}
  BY DEF DispositionKinds, Status
<1> QED  BY <1>1, <1>2, <1>3, DispositionDecides

(* An adopted case keeps a marker only as its new session's first number.*)
LEMMA AdoptDecides ==
  ASSUME IInv, HInv, NEW c \in Cases, NEW old \in Sessions, NEW child \in Sessions,
         MarkerValid(c, old),
         Disposition(c, "session_migrated", "paused", child,
                     IF Pristine(child) THEN NextSeq(child) ELSE 0)
  PROVE  Decides(c, child, "session_migrated", "paused", IF ReadCache[child] = 0 THEN 1 ELSE 0)
<1> DEFINE marker == IF Pristine(child) THEN NextSeq(child) ELSE 0
<1>1. IF Pristine(child) THEN ReadCache[child] = 0 ELSE ReadCache[child] >= 1
  BY PristineIsUnnumbered DEF Disposition, Commit, Ready
<1>2. ReadCache[old] \in Nat /\ ReadCache[child] \in Nat
  BY ReadCacheType DEF IInv
<1>3. file[c].marker # 0
  BY <1>2 DEF MarkerValid
<1>4. marker = IF ReadCache[child] = 0 THEN 1 ELSE 0
  BY <1>1, <1>2 DEF NextSeq
<1>5. marker # 0 => marker = NextSeq(child) /\ NextSeq(child) = 1
  BY <1>1, <1>2, <1>4 DEF NextSeq
<1>6. Disposition(c, "session_migrated", "paused", child, marker) /\ marker \in Nat
  BY <1>4
<1>7. "session_migrated" \in DispositionKinds /\ "paused" \in Status \ {"none"}
  BY DEF DispositionKinds, Status
<1> HIDE DEF marker
<1>8. Decides(c, child, "session_migrated", "paused", marker)
  BY <1>3, <1>5, <1>6, <1>7, DispositionDecides
<1> QED  BY <1>4, <1>8

(* The operations that write a copy back.                                *)
LEMMA WriteBackDecides ==
  ASSUME IInv, HInv, NEW r \in reads, PauseCase(r) \/ CloseCase(r) \/ NoteCase(r)
  PROVE  \E c \in Cases, s \in Sessions :
           /\ Exists(c) /\ file[c].session = s
           /\ \/ /\ file[c].status = "active"
                 /\ \/ Decides(c, s, "case_paused", "paused", 0)
                    \/ Decides(c, s, "case_closed", "closed", 0)
              \/ Decides(c, s, "note", file[c].status, file[c].marker)
<1>1. /\ "case_paused" \in Kinds /\ "case_closed" \in Kinds /\ "note" \in Kinds
      /\ "case_paused" \in DispositionKinds /\ "case_closed" \in DispositionKinds
  BY DEF Kinds, DispositionKinds
<1>2. /\ r.rec.session \in Sessions => NextSeq(r.rec.session) \in Nat
  BY ReadCacheType DEF IInv, NextSeq
<1>3. CASE PauseCase(r)
  <2>1. r.rec.status = "active" /\ WriteBack(r, "case_paused", "paused")
    BY <1>3 DEF PauseCase
  <2>2. PICK rec \in CaseRec, events \in Seq(Event) :
           /\ r.case \in Cases /\ r.rec = file[r.case] /\ r.rec.session \in Sessions
           /\ Exists(r.case)
           /\ rec.status = "paused" /\ rec.marker = 0
           /\ Writes(r.case, rec, events, "case_paused", r.rec.session, NextSeq(r.rec.session))
    BY <1>1, <2>1, WriteBackWrites
  <2>3. Decides(r.case, r.rec.session, "case_paused", "paused", 0)
    BY <1>2, <2>2 DEF Decides
  <2> QED  BY <2>1, <2>2, <2>3
<1>4. CASE CloseCase(r)
  <2>1. r.rec.status = "active" /\ WriteBack(r, "case_closed", "closed")
    BY <1>4 DEF CloseCase
  <2>2. PICK rec \in CaseRec, events \in Seq(Event) :
           /\ r.case \in Cases /\ r.rec = file[r.case] /\ r.rec.session \in Sessions
           /\ Exists(r.case)
           /\ rec.status = "closed" /\ rec.marker = 0
           /\ Writes(r.case, rec, events, "case_closed", r.rec.session, NextSeq(r.rec.session))
    BY <1>1, <2>1, WriteBackWrites
  <2>3. Decides(r.case, r.rec.session, "case_closed", "closed", 0)
    BY <1>2, <2>2 DEF Decides
  <2> QED  BY <2>1, <2>2, <2>3
<1>5. CASE NoteCase(r)
  <2>1. WriteBack(r, "note", r.rec.status)
    BY <1>5 DEF NoteCase
  <2>2. PICK rec \in CaseRec, events \in Seq(Event) :
           /\ r.case \in Cases /\ r.rec = file[r.case] /\ r.rec.session \in Sessions
           /\ Exists(r.case)
           /\ rec.status = r.rec.status /\ rec.marker = file[r.case].marker
           /\ Writes(r.case, rec, events, "note", r.rec.session, 0)
    BY <1>1, <2>1, WriteBackWrites
  <2>3. Decides(r.case, r.rec.session, "note", r.rec.status, file[r.case].marker)
    BY <2>2 DEF Decides
  <2> QED  BY <2>2, <2>3
<1> QED  BY <1>3, <1>4, <1>5

(* The ancestor a child adopts from is another session.                  *)
LEMMA AncestorFacts ==
  ASSUME NEW child \in Sessions, AdoptFromLineage(child)
  PROVE  Lineage[Max0(Adoptable(child))] \in Sessions \ {child}
<1> DEFINE i == Max0(Adoptable(child))
<1>1. Len(Lineage) \in Nat /\ DOMAIN Lineage = 1..Len(Lineage)
  BY LineageAssumption, LenProperties
<1>2. Adoptable(child) \in SUBSET (0..Len(Lineage))
  BY <1>1 DEF Adoptable
<1>7. Adoptable(child) # {}
  BY DEF AdoptFromLineage
<1>3. i \in Adoptable(child)
  BY <1>1, <1>2, <1>7, MaxOfBounded
<1>4. i \in 1..Len(Lineage) /\ \A j \in 1..i : Lineage[j] # child
  BY <1>1, <1>3 DEF Adoptable
<1> HIDE DEF i
<1>5. Lineage[i] \in Sessions
  BY <1>4, LineageAssumption, ElementOfSeq
<1>6. i \in 1..i
  BY <1>4
<1> QED  BY <1>4, <1>5, <1>6 DEF i

(* The transactions that an operation of Next may decide, each where its *)
(* guards allow it.                                                      *)
Decided ==
  \E c \in Cases, s \in Sessions :
    \/ Decides(c, s, "case_opened", "active", 0) /\ ~Exists(c) /\ ActiveOn(s) = {}
    \/ \E marked \in BOOLEAN :
         /\ Decides(c, s, "case_paused", "paused", IF marked THEN ReadCache[s] + 1 ELSE 0)
         /\ c \in ActiveOn(s)
    \/ Decides(c, s, "case_closed", "closed", 0) /\ c \in ActiveOn(s)
    \/ /\ Decides(c, s, "case_resumed", "active", 0)
       /\ file[c].status = "paused" /\ ActiveOn(s) = {}
    \/ /\ Decides(c, s, "case_auto_resumed", "active", 0)
       /\ MarkerValid(c, s) /\ ActiveOn(s) = {}
    \/ \E old \in Sessions \ {s} :
         /\ Decides(c, s, "session_migrated", "active", 0)
         /\ c \in ActiveOn(old) /\ ActiveOn(s) \subseteq {c}
    \/ \E old \in Sessions \ {s} :
         /\ Decides(c, s, "session_migrated", "paused", IF ReadCache[s] = 0 THEN 1 ELSE 0)
         /\ MarkerValid(c, old) /\ ActiveOn(s) = {}
    \/ /\ Decides(c, s, "note", file[c].status, file[c].marker)
       /\ Exists(c) /\ file[c].session = s

(* A step that the history of no case and the outcome of none shows.     *)
Undecided ==
  /\ HInv'
  /\ Pending' \subseteq Pending
  /\ \A c \in Cases : History(c)' = History(c) /\ Outcome(c)' = Outcome(c)

(* Every operation, every write of a journal and every mishap is one or  *)
(* the other.                                                            *)
LEMMA StepCases ==
  ASSUME IInv, HInv, Next
  PROVE  Decided \/ Undecided
<1> USE DEF Decided, Undecided
<1>1. ASSUME NEW c \in Cases, NEW s \in Sessions, NEW n \in 0..1, Open(c, s, n)
      PROVE  Decided
  BY <1>1, OpenDecides DEF Open
<1>2. ASSUME NEW c \in Cases, NEW s \in Sessions, NEW marked \in BOOLEAN,
             LifecyclePause(c, s, marked)
      PROVE  Decided
  <2>1. /\ Decides(c, s, "case_paused", "paused", IF marked THEN ReadCache[s] + 1 ELSE 0)
        /\ c \in ActiveOn(s)
    BY <1>2, PauseDecides DEF LifecyclePause
  <2> QED  BY <2>1
<1>3. ASSUME NEW c \in Cases, NEW s \in Sessions, ResumePaused(c, s)
      PROVE  Decided
  BY <1>3, ResumeDecides DEF ResumePaused
<1>4. ASSUME NEW c \in Cases, NEW old \in Sessions, NEW new \in Sessions, old # new,
             MigrateActive(c, old, new)
      PROVE  Decided
  <2>1. /\ Decides(c, new, "session_migrated", "active", 0)
        /\ c \in ActiveOn(old) /\ ActiveOn(new) \subseteq {c}
    BY <1>4, MigrateDecides DEF MigrateActive
  <2>2. old \in Sessions \ {new}
    BY <1>4
  <2> QED  BY <2>1, <2>2
<1>5. ASSUME UNCHANGED disk, step' = step \/ step' \in {"idle", "events"},
             UNCHANGED index \/ intact' = FALSE \/ (Pending = {} /\ TouchCache)
      PROVE  Undecided
  <2>1. Pending' = Pending
    BY <1>5 DEF disk, Pending
  <2> QED  BY <1>5, <2>1, QuietKeepsHInv
<1>6. ASSUME NEW s \in Sessions, ProofOfLife(s)
      PROVE  Decided \/ Undecided
  <2>1. CASE \E c \in Cases : MarkerValid(c, s) /\ Disposition(c, "case_auto_resumed", "active", s, 0)
    <3>1. PICK c \in Cases : MarkerValid(c, s) /\ Disposition(c, "case_auto_resumed", "active", s, 0)
      BY <2>1
    <3>2. Decides(c, s, "case_auto_resumed", "active", 0)
      BY <3>1, AutoResumeDecides
    <3> QED  BY <1>6, <3>1, <3>2 DEF ProofOfLife
  <2>2. CASE Ready /\ TouchCache /\ UNCHANGED <<disk, step>>
    BY <1>5, <2>2 DEF Ready
  <2> QED  BY <1>6, <2>1, <2>2 DEF ProofOfLife
<1>7. ASSUME NEW child \in Sessions, AdoptFromLineage(child)
      PROVE  Decided
  <2> DEFINE ancestor == Lineage[Max0(Adoptable(child))]
  <2>1. ancestor \in Sessions /\ ancestor # child
    BY <1>7, AncestorFacts
  <2>2. \/ \E c \in Cases : MigrateActive(c, ancestor, child)
        \/ \E c \in Cases :
               /\ MarkerValid(c, ancestor)
               /\ Disposition(c, "session_migrated", "paused", child,
                    IF Pristine(child) THEN NextSeq(child) ELSE 0)
    BY <1>7 DEF AdoptFromLineage
  <2> HIDE DEF ancestor
  <2>3. CASE \E c \in Cases : MigrateActive(c, ancestor, child)
    BY <1>4, <2>1, <2>3
  <2>4. ASSUME NEW c \in Cases, MarkerValid(c, ancestor),
               Disposition(c, "session_migrated", "paused", child,
                    IF Pristine(child) THEN NextSeq(child) ELSE 0)
        PROVE  Decided
    <3>1. Decides(c, child, "session_migrated", "paused", IF ReadCache[child] = 0 THEN 1 ELSE 0)
      BY <2>1, <2>4, AdoptDecides
    <3>2. ActiveOn(child) = {} /\ ancestor \in Sessions \ {child}
      BY <1>7, <2>1 DEF AdoptFromLineage
    <3> QED  BY <2>4, <3>1, <3>2
  <2> HIDE DEF Decided
  <2> QED  BY <2>2, <2>3, <2>4
<1>8. ASSUME NEW p \in Procs, NEW c \in Cases, ReadCase(p, c)
      PROVE  Undecided
  BY <1>5, <1>8 DEF ReadCase
<1>9. ASSUME NEW r \in reads, PauseCase(r) \/ CloseCase(r) \/ NoteCase(r)
      PROVE  Decided
  <2>1. PICK c \in Cases, s \in Sessions :
           /\ Exists(c) /\ file[c].session = s
           /\ \/ /\ file[c].status = "active"
                 /\ \/ Decides(c, s, "case_paused", "paused", 0)
                    \/ Decides(c, s, "case_closed", "closed", 0)
              \/ Decides(c, s, "note", file[c].status, file[c].marker)
    BY <1>9, WriteBackDecides
  <2>2. CASE file[c].status = "active" /\ Decides(c, s, "case_paused", "paused", 0)
    <3>1. Decides(c, s, "case_paused", "paused", IF FALSE THEN ReadCache[s] + 1 ELSE 0)
      BY <2>2
    <3>2. c \in ActiveOn(s) /\ FALSE \in BOOLEAN
      BY <2>1, <2>2 DEF ActiveOn
    <3> QED  BY <3>1, <3>2
  <2>3. CASE file[c].status = "active" /\ Decides(c, s, "case_closed", "closed", 0)
    <3>1. c \in ActiveOn(s)
      BY <2>1, <2>3 DEF ActiveOn
    <3> QED  BY <2>3, <3>1
  <2>4. CASE Decides(c, s, "note", file[c].status, file[c].marker)
    BY <2>1, <2>4
  <2> HIDE DEF Decided
  <2> QED  BY <2>1, <2>2, <2>3, <2>4
<1>10. ASSUME NEW r \in reads, RefuseStale(r)
       PROVE  Undecided
  BY <1>5, <1>10 DEF RefuseStale
<1>11. ASSUME NEW c \in Cases, NEW s \in Sessions, NEW new \in Sessions, Compress(c, s, new)
       PROVE  Decided
  BY <1>4, <1>11 DEF Compress
<1>12. ASSUME NEW c \in Cases, Apply(c)
       PROVE  Undecided
  <2>1. c \in Pending /\ (ApplyEvents(c) \/ ApplyCase(c) \/ ReconcileCache(c) \/ Unlink(c))
    BY <1>12 DEF Apply
  <2>2. journal' = journal \/ journal' = [journal EXCEPT ![c] = NoJournal]
    BY <2>1 DEF ApplyEvents, ApplyCase, ReconcileCache, Unlink, disk
  <2>3. Pending' \subseteq Pending
    BY <2>1, <2>2 DEF IInv, TypeOK, Pending, NoJournal
  <2> QED
    BY <2>1, <2>3, ApplyEventsKeepsHInv, ApplyCaseKeepsHInv, ReconcileKeepsHInv, UnlinkKeepsHInv
<1>13. CASE Recover
  BY <1>5, <1>13 DEF Recover
<1>14. CASE Crash
  BY <1>5, <1>14 DEF Crash
<1>15. CASE LoseCache
  BY <1>5, <1>15 DEF LoseCache
<1> HIDE DEF Decided, Undecided
<1>16. CASE Operation
  BY <1>16, <1>1, <1>2, <1>3, <1>6, <1>7, <1>8, <1>9, <1>10, <1>11 DEF Operation
<1> QED  BY <1>12, <1>13, <1>14, <1>15, <1>16 DEF Next

-----------------------------------------------------------------------------
(* Every step keeps what is known of the history.                        *)
LEMMA StepKeepsHInv ==
  ASSUME IInv, HInv, [Next]_vars
  PROVE  HInv'
<1>1. ASSUME NEW c \in Cases, NEW s \in Sessions, NEW kind \in DispositionKinds \cup {"note"},
             NEW status, NEW marker, Decides(c, s, kind, status, marker)
      PROVE  HInv'
  BY <1>1, DecidesKeepsHInv DEF Kinds
<1>2. /\ "case_opened" \in DispositionKinds /\ "case_paused" \in DispositionKinds
      /\ "case_closed" \in DispositionKinds /\ "case_resumed" \in DispositionKinds
      /\ "case_auto_resumed" \in DispositionKinds /\ "session_migrated" \in DispositionKinds
  BY DEF DispositionKinds
<1>3. CASE Next
  BY <1>1, <1>2, <1>3, StepCases DEF Decided, Undecided
<1>4. CASE UNCHANGED vars
  <2>1. UNCHANGED disk /\ step' = step /\ UNCHANGED index
    BY <1>4 DEF vars, disk, index
  <2> QED  BY <2>1, QuietKeepsHInv
<1> QED  BY <1>3, <1>4

(* An empty store has an empty history.                                  *)
LEMMA InitIsHInv == Init => HInv
<1> SUFFICES ASSUME Init PROVE HInv
  OBVIOUS
<1>1. Pending = {}
  BY DEF Init, Pending, NoJournal
<1>2. \A c \in Cases : /\ History(c) = <<>> /\ Outcome(c) = NoCase /\ ~Exists(c)
                       /\ DOMAIN History(c) = {}
  BY <1>1 DEF Init, History, Outcome, Exists, NoCase
<1>3. JournalFits /\ SettledBound
  BY <1>1, <1>2 DEF JournalFits, SettledBound
<1>4. SeqsUnique
  BY <1>2 DEF SeqsUnique
<1>5. CacheAgrees
  BY DEF Init, CacheAgrees
<1>6. RevisionsLogged
  BY <1>2, LenProperties, EmptySeq DEF RevisionsLogged, NoCase
<1>7. SessionsNumbered
  BY <1>2, NoSessionAssumption DEF SessionsNumbered, NoCase
<1>8. MarkersDrawn
  BY <1>2 DEF MarkersDrawn, NoCase
<1> QED  BY <1>3, <1>4, <1>5, <1>6, <1>7, <1>8 DEF HInv

(* In every reachable state the journal fits what is there, sequence     *)
(* numbers are unique, the cache lacks nothing that is not being written *)
(* and markers were drawn by the cases that carry them (store.py:        *)
(* _commit_transaction, _apply_transaction_journal and                   *)
(* _reconcile_sessions_cache_locked together).                           *)
THEOREM StoreHistory == Spec => [](IInv /\ HInv)
<1>1. Init => IInv /\ HInv
  BY InitIsIInv, InitIsHInv
<1>2. IInv /\ HInv /\ [Next]_vars => (IInv /\ HInv)'
  BY StepKeepsIInv, StepKeepsHInv
<1> QED  BY <1>1, <1>2, PTL DEF Spec

-----------------------------------------------------------------------------
(* Every step of the store is a step of the ledger, or none.             *)
LEMMA StepIsLedgerStep ==
  ASSUME IInv, HInv, IInv', HInv', [Next]_vars
  PROVE  [Ledger!Next]_(Ledger!vars)
<1> DEFINE cs == [d \in Cases |-> Outcome(d)]
           hw == [t \in Sessions |-> HighWater(t)]
<1>1. ASSUME NEW c \in Cases, NEW s \in Sessions, NEW kind \in DispositionKinds \cup {"note"},
             NEW status, NEW marker, Decides(c, s, kind, status, marker)
      PROVE  /\ \A d \in Cases : cs[d] = file[d]
             /\ \A t \in Sessions : hw[t] = ReadCache[t] /\ ReadCache[t] \in Nat
                                    /\ Ledger!ActiveOn(t) = ActiveOn(t)
             /\ Ledger!Advance(c, status, s, marker)
             /\ kind # "note" => Ledger!Dispose(s)
             /\ kind = "note" => hw' = hw
  <2>1. kind \in Kinds /\ (kind # "note" <=> kind \in DispositionKinds)
    BY DEF Kinds, DispositionKinds
  <2>2. /\ \A d \in Cases : Outcome(d) = file[d]
        /\ \A t \in Sessions : HighWater(t) = ReadCache[t] /\ ReadCache[t] \in Nat
        /\ Ledger!Advance(c, status, s, marker)
        /\ kind \in DispositionKinds => Ledger!Dispose(s)
        /\ kind \notin DispositionKinds => hw' = hw
    BY <1>1, <2>1, DecidesAdvances
  <2>3. \A t \in Sessions : Ledger!ActiveOn(t) = ActiveOn(t)
    BY <2>2 DEF Ledger!ActiveOn, ActiveOn
  <2> QED  BY <2>1, <2>2, <2>3
<1>2. /\ "case_opened" \in DispositionKinds /\ "case_paused" \in DispositionKinds
      /\ "case_closed" \in DispositionKinds /\ "case_resumed" \in DispositionKinds
      /\ "case_auto_resumed" \in DispositionKinds /\ "session_migrated" \in DispositionKinds
  BY DEF DispositionKinds
<1>3. ASSUME NEW c \in Cases, NEW s \in Sessions,
             Decides(c, s, "case_opened", "active", 0), ~Exists(c), ActiveOn(s) = {}
      PROVE  Ledger!Open(c, s)
  <2>1. /\ cs[c] = file[c] /\ Ledger!ActiveOn(s) = {}
        /\ Ledger!Advance(c, "active", s, 0) /\ Ledger!Dispose(s)
    BY <1>1, <1>2, <1>3
  <2> QED  BY <1>3, <2>1 DEF Ledger!Open, Exists
<1>4. ASSUME NEW c \in Cases, NEW s \in Sessions, NEW marked \in BOOLEAN,
             Decides(c, s, "case_paused", "paused", IF marked THEN ReadCache[s] + 1 ELSE 0),
             c \in ActiveOn(s)
      PROVE  Ledger!Pause(c, s, marked)
  <2>1. /\ cs[c] = file[c] /\ hw[s] = ReadCache[s]
        /\ Ledger!Advance(c, "paused", s, IF marked THEN ReadCache[s] + 1 ELSE 0)
        /\ Ledger!Dispose(s)
    BY <1>1, <1>2, <1>4
  <2>2. cs[c].status = "active" /\ cs[c].session = s
    BY <1>4, <2>1 DEF ActiveOn
  <2>3. Ledger!Advance(c, "paused", s, IF marked THEN hw[s] + 1 ELSE 0)
    BY <2>1
  <2> QED  BY <2>1, <2>2, <2>3 DEF Ledger!Pause
<1>5. ASSUME NEW c \in Cases, NEW s \in Sessions,
             Decides(c, s, "case_closed", "closed", 0), c \in ActiveOn(s)
      PROVE  Ledger!Close(c, s)
  <2>1. /\ cs[c] = file[c]
        /\ Ledger!Advance(c, "closed", s, 0) /\ Ledger!Dispose(s)
    BY <1>1, <1>2, <1>5
  <2> QED  BY <1>5, <2>1 DEF Ledger!Close, ActiveOn
<1>6. ASSUME NEW c \in Cases, NEW s \in Sessions,
             Decides(c, s, "case_resumed", "active", 0),
             file[c].status = "paused", ActiveOn(s) = {}
      PROVE  Ledger!Resume(c, s)
  <2>1. /\ cs[c] = file[c] /\ Ledger!ActiveOn(s) = {}
        /\ Ledger!Advance(c, "active", s, 0) /\ Ledger!Dispose(s)
    BY <1>1, <1>2, <1>6
  <2> QED  BY <1>6, <2>1 DEF Ledger!Resume
<1>7. ASSUME NEW c \in Cases, NEW t \in Sessions, MarkerValid(c, t),
             cs[c] = file[c], hw[t] = ReadCache[t], ReadCache[t] \in Nat
      PROVE  Ledger!MarkerValid(c, t)
  BY <1>7 DEF MarkerValid, Ledger!MarkerValid
<1>8. ASSUME NEW c \in Cases, NEW s \in Sessions,
             Decides(c, s, "case_auto_resumed", "active", 0),
             MarkerValid(c, s), ActiveOn(s) = {}
      PROVE  Ledger!AutoResume(c, s)
  <2>1. /\ cs[c] = file[c] /\ hw[s] = ReadCache[s] /\ ReadCache[s] \in Nat
        /\ Ledger!ActiveOn(s) = {}
        /\ Ledger!Advance(c, "active", s, 0) /\ Ledger!Dispose(s)
    BY <1>1, <1>2, <1>8
  <2>2. Ledger!MarkerValid(c, s)
    BY <1>7, <1>8, <2>1
  <2> QED  BY <2>1, <2>2 DEF Ledger!AutoResume
<1>9. ASSUME NEW c \in Cases, NEW s \in Sessions, NEW old \in Sessions \ {s},
             Decides(c, s, "session_migrated", "active", 0),
             c \in ActiveOn(old), ActiveOn(s) \subseteq {c}
      PROVE  Ledger!Migrate(c, s)
  <2>1. /\ cs[c] = file[c] /\ Ledger!ActiveOn(s) = ActiveOn(s)
        /\ Ledger!Advance(c, "active", s, 0) /\ Ledger!Dispose(s)
    BY <1>1, <1>2, <1>9
  <2>2. c \notin ActiveOn(s) /\ file[c].status = "active" /\ file[c].session # s
    BY <1>9 DEF ActiveOn
  <2>3. ActiveOn(s) = {}
    BY <1>9, <2>2
  <2> QED  BY <2>1, <2>2, <2>3 DEF Ledger!Migrate
<1>10. ASSUME NEW c \in Cases, NEW s \in Sessions, NEW old \in Sessions \ {s},
              Decides(c, s, "session_migrated", "paused", IF ReadCache[s] = 0 THEN 1 ELSE 0),
              MarkerValid(c, old), ActiveOn(s) = {}
       PROVE  Ledger!Adopt(c, old, s)
  <2>1. /\ cs[c] = file[c] /\ hw[old] = ReadCache[old] /\ ReadCache[old] \in Nat
        /\ hw[s] = ReadCache[s]
        /\ Ledger!ActiveOn(s) = {}
        /\ Ledger!Advance(c, "paused", s, IF ReadCache[s] = 0 THEN 1 ELSE 0)
        /\ Ledger!Dispose(s)
    BY <1>1, <1>2, <1>10
  <2>2. Ledger!MarkerValid(c, old)
    BY <1>7, <1>10, <2>1
  <2>3. Ledger!Advance(c, "paused", s, IF hw[s] = 0 THEN 1 ELSE 0)
    BY <2>1
  <2> QED  BY <2>1, <2>2, <2>3 DEF Ledger!Adopt
<1>11. ASSUME NEW c \in Cases, NEW s \in Sessions,
              Decides(c, s, "note", file[c].status, file[c].marker),
              Exists(c), file[c].session = s
       PROVE  Ledger!Update(c)
  <2>1. /\ cs[c] = file[c] /\ hw' = hw
        /\ Ledger!Advance(c, file[c].status, s, file[c].marker)
    BY <1>1, <1>11
  <2>2. Ledger!Advance(c, cs[c].status, cs[c].session, cs[c].marker)
    BY <1>11, <2>1
  <2> QED  BY <1>11, <2>1, <2>2 DEF Ledger!Update, Exists
<1>12. CASE \A c \in Cases : History(c)' = History(c) /\ Outcome(c)' = Outcome(c)
  BY <1>12, SilentIsStutter
<1>13. CASE Next
  <2> HIDE DEF cs, hw
  <2> QED
    BY <1>3, <1>4, <1>5, <1>6, <1>8, <1>9, <1>10, <1>11, <1>12, <1>13, StepCases
       DEF Decided, Undecided, Ledger!Next
<1>14. CASE UNCHANGED vars
  <2>1. \A c \in Cases : History(c)' = History(c) /\ Outcome(c)' = Outcome(c)
    BY <1>14 DEF vars, History, JournalPrefix, Outcome, Pending
  <2> QED  BY <1>12, <2>1
<1> QED  BY <1>13, <1>14

(* The empty store is the empty ledger.                                  *)
LEMMA InitIsLedgerInit == Init => Ledger!Init
<1> SUFFICES ASSUME Init PROVE Ledger!Init
  OBVIOUS
<1>1. Pending = {}
  BY DEF Init, Pending, NoJournal
<1>2. \A c \in Cases : History(c) = <<>> /\ Outcome(c) = NoCase
  BY <1>1 DEF Init, History, Outcome
<1>3. \A s \in Sessions : HighWater(s) = 0
  <2> SUFFICES ASSUME NEW s \in Sessions PROVE HighWater(s) = 0
    OBVIOUS
  <2>1. HighWater(s) = Max0(Drawn(s))
    BY LedgerHighWater, InitIsIInv, InitIsHInv
  <2>2. Drawn(s) = {}
    BY <1>2 DEF Drawn, SeqsIn
  <2> QED  BY <2>1, <2>2 DEF Max0
<1> QED  BY <1>2, <1>3 DEF Ledger!Init, NoCase, Ledger!NoCase

(* Journal, Timeline, snapshot and cache, written one after the other and*)
(* torn apart by crashes, are one record per case and one counter per    *)
(* session that change in one step: the promise that every caller of     *)
(* store.py relies on.                                                   *)
THEOREM StoreImplementsLedger == Spec => ImplementsLedger
<1>1. IInv /\ HInv /\ (IInv /\ HInv)' /\ [Next]_vars => [Ledger!Next]_(Ledger!vars)
  BY StepIsLedgerStep
<1> QED  BY <1>1, InitIsLedgerInit, StoreHistory, PTL DEF Spec, ImplementsLedger, Ledger!Spec

-----------------------------------------------------------------------------
(* What a journal at rest asks of recovery, it finds.                    *)
LEMMA FittingIsRecoverable ==
  ASSUME IInv, HInv, NEW c \in Pending
  PROVE  Recoverable(c)
<1> DEFINE t == timeline[c]
           e == journal[c].events
           b == journal[c].base
           p == JournalPrefix(c)
           have == Len(t)
           overlap == have - b
<1>1. /\ t \in Seq(Event) /\ e \in Seq(Event) /\ b \in 0..Len(t)
      /\ p \in Seq(Event) /\ Len(p) = b
      /\ \A i \in 1..b : p[i] = t[i]
  BY PrefixFacts DEF IInv, HInv
<1>2. /\ Binds(journal[c].case, e)
      /\ \/ Len(t) = b /\ (Exists(c) => Binds(file[c], t))
         \/ /\ t = History(c)
            /\ Exists(c) => file[c] = journal[c].case \/ Binds(file[c], p)
  BY DEF HInv, JournalFits
<1>3. /\ History(c) = p \o e
      /\ Len(History(c)) = b + Len(e)
      /\ \A i \in DOMAIN e : /\ b + i \in DOMAIN History(c)
                             /\ History(c)[b + i] = e[i]
  <2>1. History(c) = p \o e
    BY DEF History
  <2>2. c \in Cases
    BY DEF Pending
  <2> QED  BY <2>1, <2>2, HistoryFacts DEF IInv, HInv
<1>4. /\ Len(t) \in Nat /\ Len(e) \in Nat /\ b \in Nat /\ e # <<>> /\ Len(e) # 0
      /\ DOMAIN e = 1..Len(e) /\ DOMAIN t = 1..Len(t)
  BY <1>1, <1>2, LenProperties, EmptySeq DEF Binds
<1>5. Len(t) = b \/ (t = History(c) /\ Len(t) = b + Len(e))
  BY <1>2, <1>3
<1> HIDE DEF t, e, b, p
<1>6. /\ b <= have /\ overlap <= Len(e) /\ overlap \in Nat
      /\ overlap = 0 \/ (overlap = Len(e) /\ t = History(c))
  <2>1. CASE Len(t) = b
    BY <1>4, <2>1
  <2>2. CASE t = History(c) /\ Len(t) = b + Len(e)
    BY <1>4, <2>2
  <2> QED  BY <1>5, <2>1, <2>2
<1>7. Exists(c) => Binds(file[c], p) \/ Binds(file[c], t)
  <2>1. CASE Len(t) = b /\ (Exists(c) => Binds(file[c], t))
    BY <2>1
  <2>2. CASE /\ t = History(c)
             /\ Exists(c) => file[c] = journal[c].case \/ Binds(file[c], p)
    <3>1. t # <<>> /\ t[Len(t)] = e[Len(e)]
      <4>1. Len(t) = b + Len(e) /\ Len(e) \in DOMAIN e
        BY <1>3, <1>4, <2>2
      <4>2. t[b + Len(e)] = e[Len(e)]
        BY <1>3, <2>2, <4>1
      <4>3. t # <<>>
        BY <1>1, <1>4, <4>1, EmptySeq
      <4> QED  BY <4>1, <4>2, <4>3
    <3>2. file[c] = journal[c].case => Binds(file[c], t)
      BY <1>2, <3>1 DEF Binds
    <3> QED  BY <2>2, <3>2
  <2> QED  BY <1>2, <2>1, <2>2
<1>9. /\ have \in Nat /\ have = Len(t) /\ overlap \in Nat /\ have = b + overlap
      /\ overlap \in 0..Len(e)
  <2>1. Len(t) = b + (Len(t) - b)
    BY <1>4
  <2>2. overlap \in 0..Len(e)
    <3>1. overlap = 0 \/ overlap = Len(e)
      BY <1>6
    <3> HIDE DEF overlap
    <3> QED  BY <1>4, <3>1
  <2> QED  BY <1>4, <1>6, <2>1, <2>2
<1>8. SubSeq(t, b + 1, have) = SubSeq(e, 1, overlap)
  <2> DEFINE x == SubSeq(t, b + 1, have)
             y == SubSeq(e, 1, overlap)
  <2> HIDE DEF have, overlap
  <2>7. overlap = 0 \/ (overlap = Len(e) /\ t = History(c))
    BY <1>6 DEF overlap, have
  <2>1. /\ \A i \in (b + 1)..have : t[i] \in Event
        /\ \A i \in 1..overlap : e[i] \in Event
    <3>1. \A i \in 1..Len(t) : t[i] \in Event
      BY <1>1, ElementOfSeq
    <3>2. \A i \in 1..Len(e) : e[i] \in Event
      BY <1>1, ElementOfSeq
    <3>3. (b + 1)..have \subseteq 1..Len(t) /\ 1..overlap \subseteq 1..Len(e)
      BY <1>4, <1>9
    <3> QED  BY <3>1, <3>2, <3>3
  <2>2. /\ x \in Seq(Event)
        /\ Len(x) = IF b + 1 <= have THEN have - (b + 1) + 1 ELSE 0
        /\ \A i \in 1..(have - (b + 1) + 1) : x[i] = t[(b + 1) + i - 1]
    BY <1>1, <1>4, <1>9, <2>1, SubSeqProperties
  <2>3. /\ y \in Seq(Event)
        /\ Len(y) = IF 1 <= overlap THEN overlap - 1 + 1 ELSE 0
        /\ \A i \in 1..(overlap - 1 + 1) : y[i] = e[1 + i - 1]
    BY <1>1, <1>9, <2>1, SubSeqProperties
  <2> HIDE DEF x, y
  <2>4. /\ Len(x) = overlap /\ Len(y) = overlap
        /\ \A i \in 1..overlap : x[i] = t[b + i] /\ y[i] = e[i]
    <3>1. /\ have \in Nat /\ b \in Nat /\ overlap \in Nat /\ have = b + overlap
          /\ have - (b + 1) + 1 = overlap /\ overlap - 1 + 1 = overlap
          /\ \A i \in 1..overlap : (b + 1) + i - 1 = b + i /\ 1 + i - 1 = i
      BY <1>4, <1>9
    <3>2. Len(x) = overlap /\ Len(y) = overlap
      BY <2>2, <2>3, <3>1
    <3>3. 1..(have - (b + 1) + 1) = 1..overlap /\ 1..(overlap - 1 + 1) = 1..overlap
      BY <3>1
    <3>4. \A i \in 1..overlap : x[i] = t[b + i]
      BY <2>2, <3>1, <3>3
    <3>5. \A i \in 1..overlap : y[i] = e[i]
      BY <2>3, <3>1, <3>3
    <3> QED  BY <3>2, <3>4, <3>5
  <2>5. \A i \in 1..overlap : x[i] = y[i]
    <3>1. CASE overlap = 0
      BY <3>1
    <3>2. CASE overlap = Len(e) /\ t = History(c)
      BY <1>3, <1>4, <2>4, <3>2
    <3> QED  BY <2>7, <3>1, <3>2
  <2>6. x = y
    BY <2>2, <2>3, <2>4, <2>5, SeqEqual
  <2> QED  BY <2>6 DEF x, y, have, overlap
<1> QED  BY <1>2, <1>6, <1>7, <1>8 DEF Recoverable, t, e, b, p, JournalPrefix

(* Wherever a crash strikes, recovery (_apply_transaction_journal) accepts *)
(* what it finds, and a case at rest passes the check of every commit:   *)
(* the store never refuses its own files.                                *)
THEOREM StoreNeverWedged == Spec => []NeverWedged
<1>1. ASSUME IInv, HInv PROVE NeverWedged
  <2>1. Cardinality(Pending) <= 1
    <3>1. CASE Pending = {}
      BY <3>1, FS_EmptySet
    <3>2. CASE Pending # {}
      <4>1. PICK c \in Pending : TRUE
        BY <3>2
      <4>2. Pending = {c}
        BY <1>1, <4>1 DEF IInv, OnePending
      <4>3. Cardinality({c}) = 1
        BY FS_Singleton
      <4> QED  BY <4>2, <4>3
    <3> QED  BY <3>1, <3>2
  <2>2. ASSUME NEW c \in Cases PROVE c \notin Pending /\ Exists(c) => Binds(file[c], timeline[c])
    BY <1>1, <2>2 DEF HInv, SettledBound
  <2>3. ASSUME NEW c \in Pending PROVE Recoverable(c)
    BY <1>1, <2>3, FittingIsRecoverable
  <2> QED  BY <2>1, <2>2, <2>3 DEF NeverWedged
<1>2. IInv /\ HInv => NeverWedged
  BY <1>1
<1> QED  BY <1>2, StoreHistory, PTL

(* A disposition number of a session is never given out twice, however   *)
(* often sessions.json is lost (_next_session_seq_locked and the cache   *)
(* that _rebuild_sessions_cache_locked writes).                          *)
THEOREM StoreSequencesUnique == Spec => []DispositionSeqsUnique
<1>1. IInv /\ HInv => DispositionSeqsUnique
  <2> SUFFICES ASSUME IInv, HInv,
                      NEW c \in Cases, NEW d \in Cases,
                      NEW i \in DOMAIN timeline[c], NEW j \in DOMAIN timeline[d],
                      timeline[c][i].seq = timeline[d][j].seq,
                      timeline[c][i].seq # 0,
                      timeline[c][i].session = timeline[d][j].session
               PROVE  c = d /\ i = j
    BY DEF DispositionSeqsUnique
  <2>1. /\ i \in DOMAIN History(c) /\ timeline[c][i] = History(c)[i]
        /\ j \in DOMAIN History(d) /\ timeline[d][j] = History(d)[j]
    BY HistoryFacts DEF IInv, HInv
  <2> QED  BY <2>1 DEF HInv, SeqsUnique
<1> QED  BY <1>1, StoreHistory, PTL

(* A case is auto-resumed (try_auto_resume) only when its own pause, or  *)
(* the adoption of it, is the last thing that was decided on the session.*)
THEOREM StoreProofOfLife == Spec => ProofOfLifeIsUndisputed
<1> DEFINE A == \A c \in Cases :
       LET resumes == \E i \in DOMAIN journal'[c].events :
                         /\ c \notin Pending
                         /\ journal'[c].events[i].kind = "case_auto_resumed"
           s == file[c].session
           paused == Max0({i \in DOMAIN timeline[c] : timeline[c][i].kind = "case_paused"})
           since == {i \in DOMAIN timeline[c] :
                       i > paused /\ timeline[c][i].kind \in DispositionKinds}
       IN resumes => /\ NewestOn(s) \in SeqsIn(timeline[c], s)
                     /\ \A i \in since : timeline[c][i].seq = 1
<1>1. IInv /\ HInv /\ [Next]_vars => [A]_vars
  <2> SUFFICES ASSUME IInv, HInv, Next, NEW c \in Cases, c \notin Pending,
                      NEW k \in DOMAIN journal'[c].events,
                      journal'[c].events[k].kind = "case_auto_resumed"
               PROVE  LET s == file[c].session
                          paused == Max0({i \in DOMAIN timeline[c] : timeline[c][i].kind = "case_paused"})
                          since == {i \in DOMAIN timeline[c] :
                                      i > paused /\ timeline[c][i].kind \in DispositionKinds}
                      IN  /\ NewestOn(s) \in SeqsIn(timeline[c], s)
                          /\ \A i \in since : timeline[c][i].seq = 1
    OBVIOUS
  <2>1. c \in Pending'
    <3>1. journal'[c].events # <<>>
      OBVIOUS
    <3> QED  BY <3>1 DEF Pending
  <2>2. ASSUME NEW d \in Cases, NEW s \in Sessions, NEW kind \in DispositionKinds \cup {"note"},
               NEW status, NEW marker, Decides(d, s, kind, status, marker)
        PROVE  Pending = {} /\ d = c /\ kind = "case_auto_resumed"
    <3>1. kind \in Kinds
      BY DEF Kinds
    <3>2. PICK rec \in CaseRec, events \in Seq(Event) : \E seq \in Nat :
            Writes(d, rec, events, kind, s, seq)
      BY <2>2 DEF Decides
    <3>3. PICK seq \in Nat : Writes(d, rec, events, kind, s, seq)
      BY <3>2
    <3>4. Commit(d, rec, events) /\ events # <<>>
      BY <3>3 DEF Writes
    <3>5. Pending = {} /\ Pending' = {d}
      BY <3>4, CommitFacts
    <3>6. journal'[d] = [case |-> rec, events |-> events, base |-> Len(timeline[d])]
      BY <3>4, CommitFacts
    <3>7. d = c /\ journal'[c].events = events
      BY <2>1, <3>5, <3>6
    <3>8. \A i \in DOMAIN events : events[i].kind = kind \/ events[i].kind = "note"
      BY <3>3 DEF Writes, Final
    <3>9. kind = "case_auto_resumed"
      BY <3>7, <3>8
    <3> QED  BY <3>5, <3>7, <3>9
  <2>3. Pending = {} /\ \E s \in Sessions : MarkerValid(c, s)
    <3>1. /\ "case_opened" \in DispositionKinds /\ "case_paused" \in DispositionKinds
          /\ "case_closed" \in DispositionKinds /\ "case_resumed" \in DispositionKinds
          /\ "case_auto_resumed" \in DispositionKinds /\ "session_migrated" \in DispositionKinds
      BY DEF DispositionKinds
    <3> QED  BY <2>1, <2>2, <3>1, StepCases DEF Decided, Undecided
  <2>4. PICK s \in Sessions : MarkerValid(c, s)
    BY <2>3
  <2>5. /\ file[c].session = s /\ file[c].marker = ReadCache[s] /\ ReadCache[s] >= 1
        /\ ReadCache[s] = Max0(Drawn(s)) /\ ReadCache[s] \in 0..MaxSeq
    BY <2>3, <2>4, HighWaterIsNewest, ReadCacheType DEF MarkerValid, IInv, HInv
  <2>6. \A d \in Cases : Outcome(d) = file[d] /\ History(d) = timeline[d]
    BY <2>3 DEF Outcome, History
  <2>7. /\ file[c].marker \in SeqsIn(timeline[c], s)
        /\ \A i \in DOMAIN timeline[c] :
             timeline[c][i].kind \in DispositionKinds /\ timeline[c][i].seq # 1 =>
               \E j \in DOMAIN timeline[c] : i <= j /\ timeline[c][j].kind = "case_paused"
    <3>1. file[c].marker # 0
      BY <2>5
    <3> QED  BY <2>5, <2>6, <3>1 DEF HInv, MarkersDrawn, Undisputed
  <2>8. NewestOn(s) = Max0(Drawn(s))
    BY <2>6 DEF NewestOn, Drawn
  <2> DEFINE pauses == {i \in DOMAIN timeline[c] : timeline[c][i].kind = "case_paused"}
  <2>9. /\ Max0(pauses) \in 0..Len(timeline[c]) /\ \A j \in pauses : j <= Max0(pauses)
        /\ DOMAIN timeline[c] \subseteq Nat
    <3>1. Len(timeline[c]) \in Nat /\ DOMAIN timeline[c] = 1..Len(timeline[c])
      BY LenProperties DEF IInv, TypeOK
    <3>2. pauses \in SUBSET (0..Len(timeline[c]))
      BY <3>1
    <3> HIDE DEF pauses
    <3> QED  BY <3>1, <3>2, MaxOfBounded
  <2>10. ASSUME NEW i \in DOMAIN timeline[c], i > Max0(pauses),
                timeline[c][i].kind \in DispositionKinds
         PROVE  timeline[c][i].seq = 1
    <3> SUFFICES ASSUME timeline[c][i].seq # 1 PROVE FALSE
      OBVIOUS
    <3>1. PICK j \in DOMAIN timeline[c] : i <= j /\ timeline[c][j].kind = "case_paused"
      BY <2>7, <2>10
    <3>2. j \in pauses
      BY <3>1
    <3> HIDE DEF pauses
    <3>3. i \in Nat /\ j \in Nat /\ j <= Max0(pauses) /\ Max0(pauses) \in Nat
      BY <2>9, <3>2
    <3> QED  BY <2>10, <3>1, <3>3
  <2> QED  BY <2>5, <2>7, <2>8, <2>10
<1> QED  BY <1>1, StoreHistory, PTL DEF Spec, ProofOfLifeIsUndisputed

(* At most one paused case of a session carries a valid marker, so that  *)
(* try_auto_resume never has to choose.                                  *)
THEOREM StoreMarkers == Spec => []Ledger!OneValidMarkerPerSession
<1>1. IInv /\ HInv => Ledger!OneValidMarkerPerSession
  <2> SUFFICES ASSUME IInv, HInv, NEW s \in Sessions, NEW c \in Cases, NEW d \in Cases,
                      Ledger!MarkerValid(c, s), Ledger!MarkerValid(d, s)
               PROVE  c = d
    BY DEF Ledger!OneValidMarkerPerSession
  <2>1. /\ Outcome(c).session = s /\ Outcome(d).session = s
        /\ Outcome(c).marker = Outcome(d).marker /\ Outcome(c).marker # 0
    BY DEF Ledger!MarkerValid
  <2>2. /\ Outcome(c).marker \in SeqsIn(History(c), s)
        /\ Outcome(c).marker \in SeqsIn(History(d), s)
    BY <2>1 DEF HInv, MarkersDrawn
  <2>3. PICK i \in DOMAIN History(c) :
          History(c)[i].seq = Outcome(c).marker /\ History(c)[i].session = s
    BY <2>2 DEF SeqsIn
  <2>4. PICK j \in DOMAIN History(d) :
          History(d)[j].seq = Outcome(c).marker /\ History(d)[j].session = s
    BY <2>2 DEF SeqsIn
  <2> QED  BY <2>1, <2>3, <2>4 DEF HInv, SeqsUnique
<1> QED  BY <1>1, StoreHistory, PTL
=============================================================================
