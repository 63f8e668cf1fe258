-------------------------- MODULE ModelRepairProofs --------------------------
(***************************************************************************)
(* What a mismatch blames and what its repair must touch, for every model, *)
(* every plan and every chain of dependencies in it.                       *)
(*                                                                         *)
(* The propagation is a loop over the plan.  What it computes is the least *)
(* set that holds the affected items and every step that rests on it:      *)
(* every sweep stays inside such a set, and since a sweep that is not the  *)
(* last one needed reaches a new step, as many sweeps as there are steps   *)
(* reach it all.  The inductive invariant carries this from the mismatch   *)
(* to the revision that repairs it.                                        *)
(***************************************************************************)
EXTENDS ModelRepair, FiniteSetTheorems, WellFoundedInduction, TLAPS

(* A set of naturals that is not empty has a least member.                 *)
LEMMA LeastMember ==
  ASSUME NEW S \in SUBSET Nat, S # {}
  PROVE  \E m \in S : \A k \in S : m <= k
<1> DEFINE R == OpToRel(<, Nat)
<1>1. IsWellFoundedOn(R, Nat)
  BY NatLessThanWellFounded
<1> HIDE DEF R
<1>2. PICK m \in S : \A y \in S : ~(<<y, m>> \in R)
  BY <1>1, WFMin
<1>3. \A y \in S : ~(y < m)
  BY <1>2 DEF R, OpToRel
<1> QED  BY <1>3

-----------------------------------------------------------------------------
(* The sweeps over the plan.                                               *)

N == Cardinality(Steps)

(* sweep[n]: what n sweeps have reached.                                   *)
Sweeps(m, items, sweep) ==
  sweep = [n \in 0..N |-> IF n = 0 THEN items ELSE ExpandOnce(m, sweep[n - 1])]

LEMMA SweepsExist ==
  ASSUME NEW m, NEW items
  PROVE  N \in Nat /\ \E sweep : Sweeps(m, items, sweep)
<1> DEFINE Upto(k) == \E f : f = [n \in 0..k |-> IF n = 0 THEN items ELSE ExpandOnce(m, f[n - 1])]
           Bad == {k \in 0..N : ~Upto(k)}
<1>1. N \in Nat
  BY RepairAssumption, FS_CardinalityType DEF N
<1>2. ASSUME Bad # {} PROVE FALSE
  <2>1. PICK b \in Bad : \A k \in Bad : b <= k
    <3>1. Bad \in SUBSET Nat
      BY <1>1
    <3> HIDE DEF Bad
    <3> QED  BY <1>2, <3>1, LeastMember
  <2>2. b \in 0..N /\ ~Upto(b) /\ b \in Nat
    BY <1>1, <2>1
  <2>3. b # 0
    <3> DEFINE first == [n \in 0..0 |-> items]
    <3>1. first = [n \in 0..0 |-> IF n = 0 THEN items ELSE ExpandOnce(m, first[n - 1])]
      <4>1. \A n \in 0..0 : n = 0
        OBVIOUS
      <4> QED  BY <4>1
    <3>2. Upto(0)
      <4> HIDE DEF first
      <4> QED  BY <3>1
    <3> QED  BY <2>2, <3>2
  <2>4. b - 1 \in 0..N /\ Upto(b - 1)
    BY <1>1, <2>1, <2>2, <2>3
  <2>5. PICK f : f = [n \in 0..(b - 1) |-> IF n = 0 THEN items ELSE ExpandOnce(m, f[n - 1])]
    BY <2>4
  <2> DEFINE g == [n \in 0..b |-> IF n = b THEN ExpandOnce(m, f[b - 1]) ELSE f[n]]
  <2>6. \A n \in 0..(b - 1) : g[n] = f[n]
    BY <2>2
  <2>7. ASSUME NEW n \in 0..b
        PROVE  g[n] = IF n = 0 THEN items ELSE ExpandOnce(m, g[n - 1])
    <3>1. n # 0 => g[n - 1] = f[n - 1]
      <4>1. n # 0 => n - 1 \in 0..(b - 1)
        BY <2>2
      <4> QED  BY <2>6, <4>1
    <3>2. CASE n = b
      BY <2>3, <3>1, <3>2
    <3>3. CASE n # b
      <4>1. n \in 0..(b - 1)
        BY <2>2, <3>3
      <4>2. f[n] = IF n = 0 THEN items ELSE ExpandOnce(m, f[n - 1])
        BY <2>5, <4>1
      <4>3. g[n] = f[n]
        BY <2>6, <4>1
      <4> HIDE DEF g
      <4> QED  BY <3>1, <4>2, <4>3
    <3> QED  BY <3>2, <3>3
  <2>8. g = [n \in 0..b |-> IF n = 0 THEN items ELSE ExpandOnce(m, g[n - 1])]
    <3>1. g = [n \in 0..b |-> g[n]]
      OBVIOUS
    <3> HIDE DEF g
    <3> QED  BY <2>7, <3>1
  <2> HIDE DEF g
  <2> QED  BY <2>2, <2>8
<1>3. Upto(N)
  <2>1. N \in 0..N /\ N \notin Bad
    BY <1>1, <1>2
  <2> QED  BY <2>1
<1> QED  BY <1>1, <1>3 DEF Sweeps

LEMMA ExpandIs ==
  ASSUME NEW m, NEW items
  PROVE  /\ N \in Nat
         /\ \E sweep : Sweeps(m, items, sweep) /\ Expand(m, items) = sweep[N]
<1>1. \E sweep : Sweeps(m, items, sweep)
  BY SweepsExist
<1> DEFINE f == CHOOSE sweep : sweep = [n \in 0..N |->
                  IF n = 0 THEN items ELSE ExpandOnce(m, sweep[n - 1])]
<1>2. Sweeps(m, items, f)
  BY <1>1 DEF Sweeps
<1>3. Expand(m, items) = f[N]
  BY DEF Expand, N
<1> HIDE DEF f
<1> QED  BY <1>2, <1>3, SweepsExist

LEMMA SweepStep ==
  ASSUME NEW m, NEW items, NEW sweep, Sweeps(m, items, sweep), N \in Nat
  PROVE  /\ sweep[0] = items
         /\ \A n \in 1..N : sweep[n] = ExpandOnce(m, sweep[n - 1])
BY DEF Sweeps

(* s holds the items and whatever a step of the plan that rests on s is.   *)
Closed(m, s) == \A step \in Steps \cap Present(m) : Needs(m[step]) \cap s # {} => step \in s

(* The sweeps reach nothing but what rests on the items ...                *)
LEMMA ExpandIsLeast ==
  ASSUME NEW m, NEW items, NEW s, items \subseteq s, Closed(m, s)
  PROVE  items \subseteq Expand(m, items) /\ Expand(m, items) \subseteq s
<1>1. PICK sweep : Sweeps(m, items, sweep) /\ Expand(m, items) = sweep[N]
  BY ExpandIs
<1>2. N \in Nat
  BY ExpandIs
<1>3. sweep[0] = items /\ \A n \in 1..N : sweep[n] = ExpandOnce(m, sweep[n - 1])
  BY <1>1, <1>2, SweepStep
<1> DEFINE Bad == {n \in 0..N : ~(items \subseteq sweep[n] /\ sweep[n] \subseteq s)}
<1>4. ASSUME Bad # {} PROVE FALSE
  <2>1. PICK b \in Bad : \A k \in Bad : b <= k
    <3>1. Bad \in SUBSET Nat
      BY <1>2
    <3> HIDE DEF Bad
    <3> QED  BY <1>4, <3>1, LeastMember
  <2>2. b # 0
    BY <1>3, <2>1
  <2>3. b - 1 \in 0..N /\ b - 1 \notin Bad /\ b \in 1..N
    BY <1>2, <2>1, <2>2
  <2>4. items \subseteq sweep[b - 1] /\ sweep[b - 1] \subseteq s
    BY <2>3
  <2>5. sweep[b] = ExpandOnce(m, sweep[b - 1])
    BY <1>3, <2>3
  <2>6. items \subseteq sweep[b]
    BY <2>4, <2>5 DEF ExpandOnce
  <2>7. sweep[b] \subseteq s
    BY <2>4, <2>5 DEF ExpandOnce, Closed
  <2> QED  BY <2>1, <2>6, <2>7
<1>5. N \in 0..N /\ N \notin Bad
  BY <1>2, <1>4
<1> QED  BY <1>1, <1>5

(* ... and, since a sweep that reaches something new reaches a step more,  *)
(* one sweep for each step reaches it all.                                 *)
LEMMA ExpandIsClosed ==
  ASSUME NEW m, NEW items
  PROVE  Closed(m, Expand(m, items))
<1>1. PICK sweep : Sweeps(m, items, sweep) /\ Expand(m, items) = sweep[N]
  BY ExpandIs
<1>2. N \in Nat
  BY ExpandIs
<1>3. sweep[0] = items /\ \A n \in 1..N : sweep[n] = ExpandOnce(m, sweep[n - 1])
  BY <1>1, <1>2, SweepStep
<1> DEFINE reached(n) == sweep[n] \cap Steps
           Bad == {n \in 0..N : ~(Closed(m, sweep[n]) \/ Cardinality(reached(n)) >= n)}
<1>4. \A n : /\ IsFiniteSet(reached(n)) /\ Cardinality(reached(n)) \in Nat
             /\ reached(n) \subseteq Steps
  BY RepairAssumption, FS_Subset, FS_CardinalityType
<1>5. ASSUME Bad # {} PROVE FALSE
  <2>1. PICK b \in Bad : \A k \in Bad : b <= k
    <3>1. Bad \in SUBSET Nat
      BY <1>2
    <3> HIDE DEF Bad
    <3> QED  BY <1>5, <3>1, LeastMember
  <2>2. b \in 0..N /\ ~Closed(m, sweep[b]) /\ ~(Cardinality(reached(b)) >= b)
    BY <2>1
  <2>3. b # 0
    BY <1>4, <2>2
  <2>4. b - 1 \in 0..N /\ b - 1 \notin Bad /\ b \in 1..N /\ b \in Nat
    BY <1>2, <2>1, <2>3
  <2>5. sweep[b] = ExpandOnce(m, sweep[b - 1])
    BY <1>3, <2>4
  <2>6. CASE Closed(m, sweep[b - 1])
    <3>1. sweep[b] = sweep[b - 1]
      BY <2>5, <2>6 DEF ExpandOnce, Closed
    <3> QED  BY <2>2, <2>6, <3>1
  <2>7. CASE ~Closed(m, sweep[b - 1])
    <3>1. Cardinality(reached(b - 1)) >= b - 1
      BY <2>4, <2>7
    <3>2. PICK step \in Steps \cap Present(m) :
            Needs(m[step]) \cap sweep[b - 1] # {} /\ step \notin sweep[b - 1]
      BY <2>7 DEF Closed
    <3>3. reached(b - 1) \cup {step} \subseteq reached(b) /\ step \notin reached(b - 1)
      BY <2>5, <3>2 DEF ExpandOnce
    <3> HIDE DEF reached
    <3>4. /\ Cardinality(reached(b - 1) \cup {step}) = Cardinality(reached(b - 1)) + 1
          /\ Cardinality(reached(b - 1) \cup {step}) <= Cardinality(reached(b))
      BY <1>4, <3>3, FS_AddElement, FS_Subset
    <3> QED  BY <1>4, <2>2, <2>4, <3>1, <3>4
  <2> QED  BY <2>6, <2>7
<1>6. Closed(m, sweep[N]) \/ Cardinality(reached(N)) >= N
  <2>1. N \in 0..N /\ N \notin Bad
    BY <1>2, <1>5
  <2> QED  BY <2>1
<1>7. CASE Cardinality(reached(N)) >= N
  <2>1. Cardinality(reached(N)) <= Cardinality(Steps)
    BY <1>4, RepairAssumption, FS_Subset
  <2>2. Cardinality(reached(N)) = Cardinality(Steps)
    BY <1>2, <1>4, <1>7, <2>1 DEF N
  <2>3. reached(N) = Steps
    <3> HIDE DEF reached
    <3> QED  BY <1>4, <2>2, RepairAssumption, FS_Subset
  <2> QED  BY <1>1, <2>3 DEF Closed
<1> QED  BY <1>1, <1>6, <1>7

(* So the loop of _expand_stale_model_ids, cut off after one sweep for     *)
(* each step of the plan, computes what rests on the items: nothing more   *)
(* and nothing less, cyclic dependencies included.                         *)
THEOREM ExpandIsRestingOn ==
  ASSUME NEW m, NEW items \in SUBSET Ids
  PROVE  Expand(m, items) = RestingOn(m, items) /\ items \subseteq Expand(m, items)
         /\ Expand(m, items) \subseteq items \cup Present(m)
<1>1. Closed(m, Ids)
  BY DEF Closed, Ids
<1>2. Expand(m, items) \in SUBSET Ids /\ items \subseteq Expand(m, items)
  BY <1>1, ExpandIsLeast
<1>3. RestingOn(m, items) \subseteq Expand(m, items)
  BY <1>2, ExpandIsClosed DEF RestingOn, Closed
<1>4. Expand(m, items) \subseteq RestingOn(m, items)
  <2> SUFFICES ASSUME NEW s \in SUBSET Ids, items \subseteq s, Closed(m, s)
               PROVE  Expand(m, items) \subseteq s
    BY <1>2 DEF RestingOn, Closed
  <2> QED  BY ExpandIsLeast
<1>5. Expand(m, items) \subseteq items \cup Present(m)
  <2>1. Closed(m, items \cup Present(m))
    BY DEF Closed
  <2> QED  BY <2>1, ExpandIsLeast
<1> QED  BY <1>2, <1>3, <1>4, <1>5
-----------------------------------------------------------------------------
(* The invariant: a closed probe names nothing, and the stale items are    *)
(* what rested on the affected ones in the model that is still there.      *)
StaleIsWhatRests ==
  stale => /\ staleIds = Expand(model, affected)
           /\ affected \subseteq Present(model)

IInv ==
  /\ TypeOK /\ SnapshotHolds /\ StaleIsWhatRests
  /\ ~pending.open => pending = NoProbe

LEMMA InitHolds == Init => IInv
<1> SUFFICES ASSUME Init PROVE IInv
  OBVIOUS
<1>1. NoProbe.claim = None /\ ~NoProbe.open /\ NoProbe.open \in BOOLEAN
  BY DEF NoProbe
<1>2. /\ model \in Models /\ pending = NoProbe
      /\ stale = FALSE /\ staleIds = {} /\ affected = {}
  BY DEF Init
<1> QED  BY <1>1, <1>2 DEF IInv, TypeOK, SnapshotHolds, StaleIsWhatRests

LEMMA PresentIsIds == \A m : Present(m) \subseteq Ids
BY DEF Present

LEMMA CommitKeeps ==
  ASSUME IInv, NEW claim \in Claims \cup {None}, Commit(claim)
  PROVE  IInv'
<1>1. pending' = [claim |-> claim, open |-> TRUE,
                  snapshot |-> IF claim = None THEN None ELSE model[claim]]
      /\ UNCHANGED <<model, stale, staleIds, affected>> /\ ~stale
  BY DEF Commit
<1>2. /\ pending'.claim = claim /\ pending'.open
      /\ pending'.snapshot = IF claim = None THEN None ELSE model[claim]
  BY <1>1
<1>3. TypeOK'
  BY <1>1, <1>2 DEF IInv, TypeOK
<1>4. SnapshotHolds'
  BY <1>1, <1>2 DEF SnapshotHolds
<1>5. StaleIsWhatRests'
  BY <1>1 DEF StaleIsWhatRests
<1> QED  BY <1>2, <1>3, <1>4, <1>5 DEF IInv

(* The probe is settled without a mismatch.                                *)
LEMMA SettleKeeps ==
  ASSUME IInv, pending' = NoProbe, UNCHANGED <<model, stale, staleIds, affected>>
  PROVE  IInv'
<1>1. NoProbe.claim = None /\ ~NoProbe.open /\ NoProbe.open \in BOOLEAN
  BY DEF NoProbe
<1>2. TypeOK' /\ SnapshotHolds'
  BY <1>1 DEF IInv, TypeOK, SnapshotHolds
<1>3. StaleIsWhatRests'
  BY DEF IInv, StaleIsWhatRests, Expand, ExpandOnce, Present
<1> QED  BY <1>2, <1>3 DEF IInv

LEMMA MismatchKeeps ==
  ASSUME IInv, NEW items \in SUBSET Ids, CompareMismatch(items)
  PROVE  IInv'
<1>1. /\ items # {} /\ items \subseteq Present(model)
      /\ pending' = NoProbe /\ stale' = TRUE /\ affected' = items
      /\ staleIds' = Expand(model, items) /\ model' = model
  BY DEF CompareMismatch
<1>2. NoProbe.claim = None /\ ~NoProbe.open /\ NoProbe.open \in BOOLEAN
  BY DEF NoProbe
<1>3. staleIds' \subseteq Ids
  BY <1>1, ExpandIsRestingOn, PresentIsIds
<1>4. TypeOK' /\ SnapshotHolds'
  BY <1>1, <1>2, <1>3 DEF IInv, TypeOK, SnapshotHolds
<1>5. StaleIsWhatRests'
  <2>1. (staleIds = Expand(model, affected))'
    BY <1>1 DEF Expand, ExpandOnce, Present
  <2>2. (affected \subseteq Present(model))'
    BY <1>1 DEF Present
  <2> QED  BY <2>1, <2>2 DEF StaleIsWhatRests
<1> QED  BY <1>1, <1>4, <1>5 DEF IInv

LEMMA ReviseKeeps ==
  ASSUME IInv, NEW m \in Models, Revise(m)
  PROVE  IInv'
<1>1. /\ ~pending.open /\ model' = m /\ stale' = FALSE /\ staleIds' = {} /\ affected' = {}
      /\ pending' = pending
  BY DEF Revise
<1>2. pending = NoProbe /\ NoProbe.claim = None
  BY <1>1 DEF IInv, NoProbe
<1> QED  BY <1>1, <1>2 DEF IInv, TypeOK, SnapshotHolds, StaleIsWhatRests

LEMMA NextKeeps == IInv /\ [Next]_vars => IInv'
<1> SUFFICES ASSUME IInv, [Next]_vars PROVE IInv'
  OBVIOUS
<1>1. ASSUME NEW claim \in Claims \cup {None}, Commit(claim) PROVE IInv'
  BY <1>1, CommitKeeps
<1>2. ASSUME NEW items \in SUBSET Ids, CompareMatch(items) PROVE IInv'
  BY <1>2, SettleKeeps DEF CompareMatch
<1>3. ASSUME NEW items \in SUBSET Ids, CompareMismatch(items) PROVE IInv'
  BY <1>3, MismatchKeeps
<1>4. CASE Discard
  BY <1>4, SettleKeeps DEF Discard
<1>5. ASSUME NEW m \in Models, Revise(m) PROVE IInv'
  BY <1>5, ReviseKeeps
<1>6. CASE UNCHANGED vars
  <2>1. UNCHANGED <<model, pending, stale, staleIds, affected>>
    BY <1>6 DEF vars
  <2>2. TypeOK' /\ SnapshotHolds' /\ (~pending.open => pending = NoProbe)'
    BY <2>1 DEF IInv, TypeOK, SnapshotHolds
  <2>3. StaleIsWhatRests'
    BY <2>1 DEF IInv, StaleIsWhatRests, Expand, ExpandOnce, Present
  <2> QED  BY <2>2, <2>3 DEF IInv
<1> QED  BY <1>1, <1>2, <1>3, <1>4, <1>5, <1>6 DEF Next

(* The stale items are always all that rests on what the mismatch affected *)
(* (_compare_probe), and nothing a probe may do meanwhile disturbs them.   *)
THEOREM RepairInvariant == Spec => []IInv
BY InitHolds, NextKeeps, PTL DEF Spec

(* The model is always one the server accepts, a stale case has no pending *)
(* probe, and it is stale exactly if something was affected.               *)
THEOREM RepairTypeOK == Spec => []TypeOK
<1>1. IInv => TypeOK
  BY DEF IInv
<1> QED  BY <1>1, RepairInvariant, PTL

(* A probe is compared with the claim it was committed for: no revision    *)
(* goes through while it is pending (_commit_probe, _revise).              *)
THEOREM SnapshotsHold == Spec => []SnapshotHolds
<1>1. IInv => SnapshotHolds
  BY DEF IInv
<1> QED  BY <1>1, RepairInvariant, PTL

(* Which step makes a case stale, and which clears it.                     *)
LEMMA OnlyMismatchMakesStale ==
  ASSUME IInv, [Next]_vars, ~stale, stale'
  PROVE  \E items \in SUBSET Ids : CompareMismatch(items)
BY DEF Next, Commit, CompareMatch, Discard, Revise, vars

LEMMA OnlyRevisionClears ==
  ASSUME IInv, [Next]_vars, stale, ~stale'
  PROVE  \E m \in Models : Revise(m)
BY DEF Next, Commit, CompareMatch, CompareMismatch, Discard, vars

(* A mismatch of a bound probe makes its claim stale, and nothing but what *)
(* rests on it (_compare_probe and _expand_stale_model_ids).               *)
THEOREM MismatchBlamesLocally == Spec => BlameStaysLocal
<1>1. ASSUME IInv, [Next]_vars, stale', ~stale, pending.claim # None
      PROVE  /\ pending.claim \in staleIds'
             /\ staleIds' \subseteq RestingOn(model, {pending.claim})
  <2>1. PICK items \in SUBSET Ids : CompareMismatch(items)
    BY <1>1, OnlyMismatchMakesStale
  <2>2. PICK c : c = pending.claim
    OBVIOUS
  <2>3. /\ c \in items /\ items \subseteq Expand(model, {c})
        /\ staleIds' = Expand(model, items) /\ c \in Ids
    BY <1>1, <2>1, <2>2 DEF CompareMismatch, Related, IInv, TypeOK, Ids
  <2>4. c \in staleIds'
    BY <2>3, ExpandIsRestingOn
  <2>5. Expand(model, items) \subseteq Expand(model, {c})
    BY <2>3, ExpandIsClosed, ExpandIsLeast
  <2> QED  BY <2>2, <2>3, <2>4, <2>5, ExpandIsRestingOn
<1>2. IInv /\ [Next]_vars =>
        [stale' /\ ~stale /\ pending.claim # None =>
           /\ pending.claim \in staleIds'
           /\ staleIds' \subseteq RestingOn(model, {pending.claim})]_vars
  BY <1>1
<1> QED  BY <1>2, RepairInvariant, PTL DEF Spec, BlameStaysLocal

(* A substantive change of an item is one that the property asks for.      *)
LEMMA SubstantiveIsReconsidered ==
  ASSUME model \in Models, model' \in Models,
         NEW i \in Present(model), model'[i] # None, Substantive(model[i], model'[i])
  PROVE  Reconsidered(i)
<1>1. PICK old, new : old = model[i] /\ new = model'[i]
  OBVIOUS
<1>2. i \in Ids /\ old # None
  BY <1>1 DEF Present
<1>3. i \in Claims => old \in ClaimItems /\ new \in ClaimItems
  BY <1>1, <1>2 DEF Models
<1>4. i \in Steps => old \in StepItems /\ new \in StepItems
  BY <1>1, <1>2 DEF Models
<1>5. CASE Signature(old) # Signature(new)
  <2> SUFFICES ASSUME [old EXCEPT !.status = None] = [new EXCEPT !.status = None]
               PROVE  FALSE
    BY <1>1 DEF Reconsidered
  <2>1. old.text = new.text /\ old.action = new.action /\ old.needs = new.needs
    BY <1>2, <1>3, <1>4 DEF Ids, ClaimItems, StepItems
  <2> QED  BY <1>5, <2>1 DEF Signature
<1>6. CASE old.action = None /\ new.action = None /\ <<old.status, new.status>> \in Downgrades
  <2>1. i \in Claims
    BY <1>2, <1>4, <1>6, RepairAssumption DEF Ids, StepItems
  <2> QED  BY <1>1, <1>6, <2>1 DEF Reconsidered
<1> QED  BY <1>1, <1>5, <1>6 DEF Substantive

(* A case stops being stale only when everything that rested on what was   *)
(* contradicted is gone or says something else (_revise and                *)
(* _stale_item_change_is_substantive).                                     *)
THEOREM DependentsReconsidered == Spec => DependentsAreReconsidered
<1>1. ASSUME IInv, [Next]_vars, stale, ~stale', NEW i \in RestingOn(model, affected)
      PROVE  Reconsidered(i)
  <2>1. PICK m \in Models : Revise(m)
    BY <1>1, OnlyRevisionClears
  <2>2. i \in staleIds /\ i \in Present(model)
    BY <1>1, ExpandIsRestingOn DEF IInv, StaleIsWhatRests, TypeOK
  <2>3. CASE model'[i] = None
    BY <2>3 DEF Reconsidered
  <2>4. CASE model'[i] # None
    <3>1. i \in Present(m) /\ model' = m /\ Substantive(model[i], m[i])
      BY <1>1, <2>1, <2>2, <2>4 DEF Revise, Present
    <3>2. model \in Models /\ model' \in Models
      BY <1>1, <3>1 DEF IInv, TypeOK
    <3> QED  BY <2>2, <2>4, <3>1, <3>2, SubstantiveIsReconsidered
  <2> QED  BY <2>3, <2>4
<1>2. IInv /\ [Next]_vars =>
        [stale /\ ~stale' => \A i \in RestingOn(model, affected) : Reconsidered(i)]_vars
  BY <1>1
<1> QED  BY <1>2, RepairInvariant, PTL DEF Spec, DependentsAreReconsidered
=============================================================================
