--------------------------- MODULE CaseIndexProofs ---------------------------
(***************************************************************************)
(* The session index protects its sessions, for any number of processes,   *)
(* cases and sessions, and whatever happens to the files.                  *)
(*                                                                         *)
(* Each process sees the disk through entries that may be long out of      *)
(* date.  The strengthening, Faithful, says what an entry is worth: one    *)
(* whose signature is still that of the snapshot holds the record itself,  *)
(* or names the session of a record it could not read.                     *)
(***************************************************************************)
EXTENDS CaseIndex, TLAPS

Faithful(e, c) ==
  /\ e \in Entry
  /\ e.signature <= signature[c]
  /\ e.kind = "case" /\ e.signature = signature[c] => e.case = case[c]
  /\ e.kind = "error" /\ e.signature = signature[c] /\ c \notin lost
       => case[c].session \in e.owners
  /\ e.kind = "error" => e.case = NoRecord
  /\ e.owners \cup ({e.case.session} \ {NoSession}) \subseteq named[c]

(* The Timeline names the session of the record before the record does.    *)
Attributed == \A c \in Cases : Exists(c) => case[c].session \in named[c]

IInv ==
  /\ TypeOK
  /\ Attributed
  /\ \A p \in Procs, c \in Cases : Faithful(entries[p][c], c)
  /\ OneActivePerSession

-----------------------------------------------------------------------------
(* What one refresh makes of one entry: faithful, and up to date.          *)
LEMMA RefreshedIsFaithful ==
  ASSUME IInv, NEW c \in Cases, NEW e, Faithful(e, c), NEW failed \in SUBSET Cases
  PROVE  /\ Faithful(Refreshed(e, c, failed), c)
         /\ Exists(c) => /\ Refreshed(e, c, failed).kind # "none"
                         /\ Refreshed(e, c, failed).signature = signature[c]
         /\ ~Exists(c) => Refreshed(e, c, failed) = NoEntry
<1> DEFINE r == Refreshed(e, c, failed)
<1>1. /\ case[c] \in Record /\ signature[c] \in Nat /\ signature[c] \in 0..MaxSignature
      /\ named[c] \in SUBSET Sessions
      /\ NoRecord \in Record /\ NoRecord.session = NoSession /\ NoSession \notin Sessions
      /\ MaxSignature \in Nat
  BY IndexAssumption DEF IInv, TypeOK, NoRecord, Record
<1>2. CASE ~Exists(c)
  <2>1. r = NoEntry
    BY <1>2 DEF Refreshed
  <2> QED  BY <1>1, <1>2, <2>1 DEF Faithful, NoEntry, Entry
<1>3. CASE Exists(c) /\ e.kind # "none" /\ e.signature = signature[c]
  <2>1. r = e
    BY <1>3 DEF Refreshed
  <2> QED  BY <1>3, <2>1
<1>4. CASE Exists(c) /\ ~(e.kind # "none" /\ e.signature = signature[c])
  <2>1. r = IF c \in damaged \cup failed
              THEN [kind |-> "error", signature |-> signature[c],
                    case |-> NoRecord, owners |-> Owners(e, c)]
              ELSE [kind |-> "case", signature |-> signature[c],
                    case |-> case[c], owners |-> {}]
    BY <1>4 DEF Refreshed
  <2>2. case[c].session \in named[c]
    BY <1>4 DEF IInv, Attributed
  <2>3. /\ Owners(e, c) \subseteq named[c]
        /\ c \notin lost => named[c] \subseteq Owners(e, c)
    BY DEF Owners, Faithful
  <2>4. CASE c \in damaged \cup failed
    BY <1>1, <1>4, <2>1, <2>2, <2>3, <2>4 DEF Faithful, Entry
  <2>5. CASE c \notin damaged \cup failed
    BY <1>1, <1>4, <2>1, <2>2, <2>5 DEF Faithful, Entry
  <2> QED  BY <2>4, <2>5
<1> QED  BY <1>2, <1>3, <1>4

LEMMA RefreshIsFaithful ==
  ASSUME IInv, NEW p \in Procs, NEW failed \in SUBSET Cases
  PROVE  /\ Refresh(p, failed) \in [Cases -> Entry]
         /\ \A c \in Cases : /\ Faithful(Refresh(p, failed)[c], c)
                             /\ Exists(c) => /\ Refresh(p, failed)[c].kind # "none"
                                             /\ Refresh(p, failed)[c].signature = signature[c]
<1>1. \A c \in Cases : Faithful(entries[p][c], c)
  BY DEF IInv
<1>2. \A c \in Cases : Refresh(p, failed)[c] = Refreshed(entries[p][c], c, failed)
  BY DEF Refresh
<1>3. ASSUME NEW c \in Cases
      PROVE  /\ Faithful(Refresh(p, failed)[c], c)
             /\ Exists(c) => /\ Refresh(p, failed)[c].kind # "none"
                             /\ Refresh(p, failed)[c].signature = signature[c]
  <2> DEFINE e == entries[p][c]
  <2>1. Faithful(e, c) /\ Refresh(p, failed)[c] = Refreshed(e, c, failed)
    BY <1>1, <1>2
  <2> HIDE DEF e
  <2>2. /\ Faithful(Refreshed(e, c, failed), c)
        /\ Exists(c) => /\ Refreshed(e, c, failed).kind # "none"
                        /\ Refreshed(e, c, failed).signature = signature[c]
    BY <2>1, RefreshedIsFaithful
  <2> QED  BY <2>1, <2>2
<1>4. Refresh(p, failed) \in [Cases -> Entry]
  BY <1>2, <1>3 DEF Refresh, Faithful
<1> QED  BY <1>3, <1>4

(* A lookup that finds no active case and is not refused is right, as far  *)
(* as the Timelines are there.                                             *)
LEMMA NoActiveCaseIsTrue ==
  ASSUME IInv, NEW p \in Procs, NEW failed \in SUBSET Cases, NEW s \in Sessions,
         NoActiveCase(Refresh(p, failed), s)
  PROVE  \A d \in Cases \ lost : ~(case[d].status = "active" /\ case[d].session = s)
<1> DEFINE index == Refresh(p, failed)
<1> SUFFICES ASSUME NEW d \in Cases \ lost, case[d].status = "active", case[d].session = s
             PROVE  FALSE
  OBVIOUS
<1>1. Exists(d) /\ case[d] \in Record /\ case[d] = [status |-> "active", session |-> s]
  BY DEF IInv, TypeOK, Record, Exists
<1>2. /\ Faithful(index[d], d)
      /\ index[d].kind # "none" /\ index[d].signature = signature[d]
  BY <1>1, RefreshIsFaithful
<1> HIDE DEF index
<1>3. CASE index[d].kind = "case"
  <2>1. d \in ActiveOn(index, s)
    BY <1>1, <1>2, <1>3 DEF ActiveOn, Faithful
  <2> QED  BY <2>1 DEF NoActiveCase, index
<1>4. CASE index[d].kind = "error"
  <2>1. Blocked(index, s)
    BY <1>1, <1>2, <1>4 DEF Blocked, Faithful
  <2> QED  BY <2>1 DEF NoActiveCase, index
<1> QED  BY <1>2, <1>3, <1>4 DEF Faithful, Entry

-----------------------------------------------------------------------------
(* An operation that writes the snapshot of c, after the lookup `index`.   *)
LEMMA WriteKeepsIInv ==
  ASSUME IInv, NEW p \in Procs, NEW index \in [Cases -> Entry],
         \A d \in Cases : Faithful(index[d], d),
         NEW c \in Cases, NEW s \in Sessions, NEW status \in {"active", "paused", "closed"},
         status = "active" =>
           \A d \in Cases \ lost : ~(case[d].status = "active" /\ case[d].session = s),
         Write(c, status, s), Looks(p, index)
  PROVE  IInv'
<1> DEFINE new == [status |-> status, session |-> s]
<1>1. /\ case' = [case EXCEPT ![c] = new]
      /\ signature' = [signature EXCEPT ![c] = signature[c] + 1]
      /\ named' = [named EXCEPT ![c] = named[c] \cup {s}]
      /\ damaged' = damaged /\ lost' = lost
      /\ entries' = [entries EXCEPT ![p] = index]
      /\ signature[c] < MaxSignature /\ c \notin lost
  BY DEF Write, Looks
<1>2. /\ case \in [Cases -> Record] /\ named \in [Cases -> SUBSET Sessions]
      /\ signature \in [Cases -> 0..MaxSignature] /\ MaxSignature \in Nat
      /\ entries \in [Procs -> [Cases -> Entry]] /\ damaged \subseteq Cases /\ lost \subseteq Fragile
      /\ new \in Record
  BY IndexAssumption DEF IInv, TypeOK, Record
<1>3. TypeOK'
  BY <1>1, <1>2 DEF TypeOK
<1>4. Attributed'
  BY <1>1, <1>2 DEF IInv, Attributed, Exists, Record
<1>5. ASSUME NEW d \in Cases, NEW e, Faithful(e, d)
      PROVE  Faithful(e, d)'
  <2>1. CASE d = c
    <3>1. e.signature < signature'[c] /\ e.signature # signature'[c] /\ e.signature <= signature'[c]
      BY <1>1, <1>2, <1>5, <2>1 DEF Faithful, Entry
    <3> QED  BY <1>1, <1>2, <1>5, <2>1, <3>1 DEF Faithful
  <2>2. CASE d # c
    BY <1>1, <1>2, <1>5, <2>2 DEF Faithful
  <2> QED  BY <2>1, <2>2
<1>6. \A q \in Procs, d \in Cases : Faithful(entries[q][d], d) /\ Faithful(index[d], d)
  BY DEF IInv
<1>7. ASSUME NEW q \in Procs, NEW d \in Cases PROVE Faithful(entries[q][d], d)'
  <2>1. entries'[q][d] = IF q = p THEN index[d] ELSE entries[q][d]
    BY <1>1, <1>2
  <2>2. CASE q = p
    <3>1. Faithful(index[d], d)' => Faithful(entries[q][d], d)'
      BY <2>1, <2>2 DEF Faithful
    <3> QED  BY <1>5, <1>6, <3>1
  <2>3. CASE q # p
    <3>1. entries'[q][d] = entries[q][d]
      BY <2>1, <2>3
    <3> DEFINE old == entries[q][d]
    <3>2. Faithful(entries[q][d], d)
      BY <1>6
    <3>3. PICK e : e = old
      OBVIOUS
    <3> QED  BY <1>5, <3>1, <3>2, <3>3 DEF Faithful
  <2> QED  BY <2>2, <2>3
<1>8. OneActivePerSession'
  BY <1>1, <1>2 DEF IInv, OneActivePerSession, Record
<1> QED  BY <1>3, <1>4, <1>7, <1>8 DEF IInv
-----------------------------------------------------------------------------
(* A step that touches no file, after a lookup or a restart of process p.  *)
LEMMA LookKeepsIInv ==
  ASSUME IInv, NEW p \in Procs, NEW index \in [Cases -> Entry],
         \A d \in Cases : Faithful(index[d], d),
         entries' = [entries EXCEPT ![p] = index], UNCHANGED disk
  PROVE  IInv'
<1>1. /\ case' = case /\ signature' = signature /\ named' = named
      /\ damaged' = damaged /\ lost' = lost
  BY DEF disk
<1>2. entries \in [Procs -> [Cases -> Entry]]
  BY DEF IInv, TypeOK
<1>3. TypeOK' /\ Attributed' /\ OneActivePerSession'
  BY <1>1, <1>2 DEF IInv, TypeOK, Attributed, Exists, OneActivePerSession
<1>4. ASSUME NEW q \in Procs, NEW d \in Cases PROVE Faithful(entries[q][d], d)'
  <2>1. entries'[q][d] = IF q = p THEN index[d] ELSE entries[q][d]
    BY <1>2
  <2>2. Faithful(entries[q][d], d) /\ Faithful(index[d], d)
    BY DEF IInv
  <2> QED  BY <1>1, <2>1, <2>2 DEF Faithful
<1> QED  BY <1>3, <1>4 DEF IInv

LEMMA OperationKeepsIInv ==
  ASSUME IInv, NEW p \in Procs, Operation(p)
  PROVE  IInv'
<1>1. PICK failed \in Failures :
        LET index == Refresh(p, failed) IN
          \/ Lookup(p, index)
          \/ \E c \in Cases, s \in Sessions :
               \/ Open(p, index, c, s)
               \/ \E status \in {"paused", "closed"} : Settle(p, index, c, s, status)
               \/ Resume(p, index, c, s)
               \/ \E new \in Sessions \ {s} : Migrate(p, index, c, s, new)
  BY DEF Operation
<1> DEFINE index == Refresh(p, failed)
<1>2. failed \in SUBSET Cases
  BY DEF Failures
<1>3. index \in [Cases -> Entry] /\ \A d \in Cases : Faithful(index[d], d)
  BY <1>2, RefreshIsFaithful
<1>4. ASSUME NEW s \in Sessions, NoActiveCase(index, s)
      PROVE  \A d \in Cases \ lost : ~(case[d].status = "active" /\ case[d].session = s)
  BY <1>2, <1>4, NoActiveCaseIsTrue
<1> HIDE DEF index
<1>5. CASE Lookup(p, index)
  BY <1>3, <1>5, LookKeepsIInv DEF Lookup, Looks
<1>6. ASSUME NEW c \in Cases, NEW s \in Sessions, Open(p, index, c, s) PROVE IInv'
  BY <1>3, <1>4, <1>6, WriteKeepsIInv DEF Open
<1>7. ASSUME NEW c \in Cases, NEW s \in Sessions, NEW status \in {"paused", "closed"},
             Settle(p, index, c, s, status)
      PROVE  IInv'
  BY <1>3, <1>7, WriteKeepsIInv DEF Settle
<1>8. ASSUME NEW c \in Cases, NEW s \in Sessions, Resume(p, index, c, s) PROVE IInv'
  BY <1>3, <1>4, <1>8, WriteKeepsIInv DEF Resume
<1>9. ASSUME NEW c \in Cases, NEW s \in Sessions, NEW new \in Sessions \ {s},
             Migrate(p, index, c, s, new)
      PROVE  IInv'
  BY <1>3, <1>4, <1>9, WriteKeepsIInv DEF Migrate
<1> QED  BY <1>1, <1>5, <1>6, <1>7, <1>8, <1>9 DEF index

LEMMA RestartKeepsIInv ==
  ASSUME IInv, NEW p \in Procs, Restart(p)
  PROVE  IInv'
<1> DEFINE index == [c \in Cases |-> NoEntry]
<1>1. NoEntry \in Entry
  BY IndexAssumption DEF NoEntry, Entry, NoRecord, Record
<1>2. ASSUME NEW d \in Cases PROVE Faithful(index[d], d)
  BY <1>1 DEF Faithful, NoEntry, NoRecord, IInv, TypeOK
<1>3. index \in [Cases -> Entry] /\ entries' = [entries EXCEPT ![p] = index]
  BY <1>1 DEF Restart
<1> HIDE DEF index
<1> QED  BY <1>2, <1>3, LookKeepsIInv DEF Restart

(* What happens to the files of c leaves its record and Timeline as they   *)
(* were; a snapshot that was touched has a new signature.                  *)
LEMMA FilesKeepIInv ==
  ASSUME IInv, NEW c \in Cases, Damage(c) \/ DamageTimeline(c) \/ Repair(c)
  PROVE  IInv'
<1>1. /\ case' = case /\ named' = named /\ entries' = entries
      /\ lost \subseteq lost' /\ lost' \subseteq Fragile
      /\ damaged' \subseteq Cases
      /\ signature' \in [Cases -> 0..MaxSignature]
      /\ \A d \in Cases : signature'[d] = signature[d] \/ signature'[d] = signature[d] + 1
  <2>1. /\ signature \in [Cases -> 0..MaxSignature] /\ lost \subseteq Fragile
        /\ damaged \subseteq Cases /\ MaxSignature \in Nat
    BY IndexAssumption DEF IInv, TypeOK
  <2>2. CASE DamageTimeline(c)
    BY <2>1, <2>2 DEF DamageTimeline
  <2>3. CASE Damage(c) \/ Repair(c)
    BY <2>1, <2>3 DEF Damage, Repair, Touched
  <2> QED  BY <2>2, <2>3
<1>2. TypeOK' /\ Attributed' /\ OneActivePerSession'
  BY <1>1 DEF IInv, TypeOK, Attributed, Exists, OneActivePerSession
<1>3. ASSUME NEW p \in Procs, NEW d \in Cases PROVE Faithful(entries[p][d], d)'
  <2>1. /\ Faithful(entries[p][d], d)
        /\ signature[d] \in Nat /\ entries[p][d].signature \in Nat
    BY DEF IInv, TypeOK, Entry, Faithful
  <2>2. signature'[d] = signature[d] \/ signature'[d] = signature[d] + 1
    BY <1>1
  <2> QED  BY <1>1, <2>1, <2>2 DEF Faithful
<1> QED  BY <1>2, <1>3 DEF IInv

-----------------------------------------------------------------------------
THEOREM InitEstablishes == Init => IInv
<1> SUFFICES ASSUME Init PROVE IInv
  OBVIOUS
<1>1. NoRecord \in Record /\ NoEntry \in Entry /\ MaxSignature \in Nat
  BY IndexAssumption DEF NoEntry, Entry, NoRecord, Record
<1>2. TypeOK
  BY <1>1 DEF Init, TypeOK
<1>3. Attributed /\ OneActivePerSession
  BY DEF Init, Attributed, OneActivePerSession, Exists, NoRecord
<1>4. ASSUME NEW p \in Procs, NEW c \in Cases PROVE Faithful(entries[p][c], c)
  <2>1. entries[p][c] = NoEntry /\ signature[c] = 0 /\ named[c] = {}
    BY DEF Init
  <2>2. /\ NoEntry.kind = "none" /\ NoEntry.signature = 0 /\ NoEntry.owners = {}
        /\ NoEntry.case.session = NoSession
    BY DEF NoEntry, NoRecord
  <2> HIDE DEF Init
  <2>3. Faithful(NoEntry, c)
    BY <1>1, <2>1, <2>2 DEF Faithful
  <2> QED  BY <2>1, <2>3
<1> QED  BY <1>2, <1>3, <1>4 DEF IInv

THEOREM NextKeeps == IInv /\ [Next]_vars => IInv'
<1> SUFFICES ASSUME IInv, [Next]_vars PROVE IInv'
  OBVIOUS
<1>1. CASE UNCHANGED vars
  <2>1. /\ case' = case /\ signature' = signature /\ named' = named
        /\ damaged' = damaged /\ lost' = lost /\ entries' = entries
    BY <1>1 DEF vars
  <2> QED  BY <2>1 DEF IInv, TypeOK, Attributed, Exists, Faithful, OneActivePerSession
<1>2. ASSUME NEW p \in Procs, Operation(p) \/ Restart(p) PROVE IInv'
  BY <1>2, OperationKeepsIInv, RestartKeepsIInv
<1>3. ASSUME NEW c \in Cases, Damage(c) \/ DamageTimeline(c) \/ Repair(c) PROVE IInv'
  BY <1>3, FilesKeepIInv
<1> QED  BY <1>1, <1>2, <1>3 DEF Next

THEOREM Invariant == Spec => []IInv
BY InitEstablishes, NextKeeps, PTL DEF Spec

(* The types of files and indexes.                                         *)
THEOREM TypeCorrect == Spec => []TypeOK
<1>1. IInv => TypeOK
  BY DEF IInv
<1> QED  BY <1>1, Invariant, PTL

(* A session has one active case, readable or not: select and refresh of   *)
(* case_index.py make up for what the snapshot no longer says.             *)
THEOREM SessionsStayExclusive == Spec => []OneActivePerSession
<1>1. IInv => OneActivePerSession
  BY DEF IInv
<1> QED  BY <1>1, Invariant, PTL

(* No process blocks a session that the Timeline of the case never named.  *)
THEOREM BystandersAreNotBlocked == Spec => []BlocksOnlyNamed
<1>1. IInv => BlocksOnlyNamed
  BY DEF IInv, BlocksOnlyNamed, Faithful
<1> QED  BY <1>1, Invariant, PTL

(* What a process knew of the owners of a case it keeps while the case is  *)
(* unreadable: each refresh of case_index.py starts from the last entry.   *)
THEOREM KnownOwnersAreKept == Spec => KnownOwnersStayProtected
<1> DEFINE Known(e) == e.owners \cup ({e.case.session} \ {NoSession})
<1>1. ASSUME IInv, [Next]_vars, NEW p \in Procs, NEW c \in Cases,
             entries'[p][c].kind = "error"
      PROVE  Known(entries[p][c]) \subseteq entries'[p][c].owners
  <2>1. /\ entries \in [Procs -> [Cases -> Entry]]
        /\ entries[p][c].kind = "error" => entries[p][c].case = NoRecord
    BY <1>1 DEF IInv, TypeOK, Faithful
  <2>2. CASE entries' = entries
    BY <1>1, <2>1, <2>2 DEF NoRecord
  <2>3. ASSUME NEW q \in Procs, NEW failed, entries' = [entries EXCEPT ![q] = Refresh(q, failed)]
        PROVE  Known(entries[p][c]) \subseteq entries'[p][c].owners
    <3>1. CASE p # q
      <4>1. entries'[p][c] = entries[p][c]
        BY <2>1, <2>3, <3>1
      <4> QED  BY <1>1, <2>1, <4>1 DEF NoRecord
    <3>2. CASE p = q
      <4> DEFINE e == entries[p][c]
      <4>1. entries'[p][c] = Refreshed(e, c, failed)
        BY <2>1, <2>3, <3>2 DEF Refresh
      <4>2. CASE ~Exists(c)
        BY <1>1, <4>1, <4>2 DEF Refreshed, NoEntry
      <4>3. CASE Exists(c) /\ e.kind # "none" /\ e.signature = signature[c]
        BY <1>1, <2>1, <4>1, <4>3 DEF Refreshed, NoRecord
      <4>4. CASE Exists(c) /\ ~(e.kind # "none" /\ e.signature = signature[c])
        <5>1. Refreshed(e, c, failed).owners = Owners(e, c)
          BY <1>1, <4>1, <4>4 DEF Refreshed
        <5> QED  BY <4>1, <5>1 DEF Owners
      <4> QED  BY <4>2, <4>3, <4>4
    <3> QED  BY <3>1, <3>2
  <2>4. CASE \E q \in Procs : Operation(q)
    <3>1. PICK q \in Procs : Operation(q)
      BY <2>4
    <3>2. \E failed : entries' = [entries EXCEPT ![q] = Refresh(q, failed)]
      BY <3>1 DEF Operation, Lookup, Open, Settle, Resume, Migrate, Looks
    <3> QED  BY <2>3, <3>2
  <2>5. CASE \E q \in Procs : Restart(q)
    <3>1. PICK q \in Procs : entries' = [entries EXCEPT ![q] = [d \in Cases |-> NoEntry]]
      BY <2>5 DEF Restart
    <3>2. CASE p # q
      <4>1. entries' = entries \/ entries'[p] = entries[p]
        BY <2>1, <3>1, <3>2
      <4> QED  BY <1>1, <2>1, <4>1 DEF NoRecord
    <3>3. CASE p = q
      BY <1>1, <2>1, <3>1, <3>3 DEF NoEntry
    <3> QED  BY <3>2, <3>3
  <2>6. CASE \E d \in Cases : Damage(d) \/ DamageTimeline(d) \/ Repair(d)
    BY <2>2, <2>6 DEF Damage, DamageTimeline, Repair
  <2>7. CASE UNCHANGED vars
    BY <2>2, <2>7 DEF vars
  <2> QED  BY <1>1, <2>4, <2>5, <2>6, <2>7 DEF Next
<1>2. IInv /\ [Next]_vars =>
        [\A p \in Procs, c \in Cases :
           entries'[p][c].kind = "error" =>
             Known(entries[p][c]) \subseteq entries'[p][c].owners]_vars
  BY <1>1
<1> QED  BY <1>2, Invariant, PTL DEF Spec, KnownOwnersStayProtected
=============================================================================
