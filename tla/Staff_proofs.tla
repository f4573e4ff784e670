---------------------------- MODULE Staff_proofs ----------------------------
(***************************************************************************)
(* Proofs about module Staff: what any number of starts, whole or cut      *)
(* short, leave of the users, for any roster and any ids.                  *)
(***************************************************************************)
EXTENDS Staff, WellFoundedInduction, TLAPS

\* People are numbered from 1, in the order of the roster.
LEMMA PeopleAreNumbered ==
  /\ People \subseteq Nat \ {0}
  /\ People # {} => 1 \in People
  /\ \A n \in Nat : n \in People => \A k \in 1..n : k \in People
  /\ None \notin People /\ None \notin UserIds /\ UserIds \subseteq Nat
  <1>1. Roster \in Seq([role : Roles, team : STRING])
    BY StaffAssumption
  <1>2. People = 1..Len(Roster) /\ Len(Roster) \in Nat
    BY <1>1 DEF People
  <1>3. None \notin Nat /\ UserIds \subseteq Nat
    BY StaffAssumption
  <1> HIDE DEF People
  <1>4. People \subseteq Nat \ {0}
    BY <1>2
  <1>5. People # {} => 1 \in People
    BY <1>2
  <1>6. \A n \in Nat : n \in People => \A k \in 1..n : k \in People
    BY <1>2
  <1> QED
    BY <1>3, <1>4, <1>5, <1>6

\* The rows.
LEMMA StaffTypeInit == StaffInit => StaffTypeOK
  BY PeopleAreNumbered DEF StaffInit, StaffTypeOK, Rows

(***************************************************************************)
(* Type correctness.                                                       *)
(***************************************************************************)
LEMMA StaffTypeStep == StaffTypeOK /\ [StaffNext]_staffVars => StaffTypeOK'
  <1> SUFFICES ASSUME StaffTypeOK, [StaffNext]_staffVars PROVE StaffTypeOK'
    OBVIOUS
  <1> USE PeopleAreNumbered DEF StaffTypeOK, Rows, table, process, pointers
  <1>1. CASE Start
    BY <1>1 DEF Start
  <1>2. ASSUME NEW u \in UserIds, InsertUser(u) PROVE StaffTypeOK'
    BY <1>2 DEF InsertUser
  <1>3. CASE DeleteDuplicates
    BY <1>3 DEF DeleteDuplicates
  <1>4. CASE Stop
    BY <1>4 DEF Stop
  <1>5. ASSUME NEW b \in Browsers, NEW u \in UserIds, SignIn(b, u) PROVE StaffTypeOK'
    BY <1>5 DEF SignIn
  <1>6. ASSUME \/ \E u \in UserIds : Own(u)
               \/ \E b \in Browsers : Approve(b) \/ Resolve(b),
               UNCHANGED <<table, process, session>>
        PROVE StaffTypeOK'
    BY <1>6 DEF Own, Approve, Resolve, MayAct, Known
  <1>7. CASE UNCHANGED staffVars
    BY <1>7 DEF staffVars
  <1> QED
    BY <1>1, <1>2, <1>3, <1>4, <1>5, <1>6, <1>7 DEF StaffNext

(***************************************************************************)
(* The variables of Staff keep their types.                                *)
(***************************************************************************)
THEOREM StaffTypeCorrect == StaffSpec => []StaffTypeOK
<1> QED
  BY StaffTypeInit, StaffTypeStep, PTL DEF StaffSpec

-----------------------------------------------------------------------------
(* Nobody disappears.                                                      *)

(***************************************************************************)
(* Of the rows with one user, one has the least id.                        *)
(***************************************************************************)
LEMMA FirstCopy ==
  ASSUME StaffTypeOK, NEW v \in Rows
  PROVE  \E u \in Rows : user[u] = user[v] /\ \A x \in Rows : user[x] = user[v] => ~(x < u)
<1> DEFINE copies == {u \in Rows : user[u] = user[v]}
           less == OpToRel(LAMBDA x, y : x < y, Nat)
<1>1. copies # {} /\ copies \subseteq Nat
  BY StaffAssumption DEF Rows
<1>2. IsWellFoundedOn(less, Nat)
  BY NatLessThanWellFounded
<1>3. \A x, y \in Nat : x < y <=> <<x, y>> \in less
  BY DEF OpToRel
<1> HIDE DEF less
<1>4. PICK u \in copies : \A x \in copies : ~(<<x, u>> \in less)
  BY <1>1, <1>2, WFMin
<1> QED
  BY <1>1, <1>3, <1>4

\* The users a start has put in already.
Seeded ==
    /\ boot = "users" => \A p \in People : p < next => \E u \in Rows : user[u] = p
    /\ boot \in {"dedupe", "up"} => \A p \in People : \E u \in Rows : user[u] = p

LEMMA SeededStep ==
  ASSUME StaffTypeOK, Seeded, [StaffNext]_staffVars
  PROVE  Seeded'
  <1> USE PeopleAreNumbered DEF Seeded
  <1>1. CASE Start
    BY <1>1 DEF Start
  <1>2. ASSUME NEW u \in UserIds, InsertUser(u) PROVE Seeded'
    <2>1. /\ boot = "users" /\ u \notin issued /\ next \in People
          /\ user' = [user EXCEPT ![u] = next] /\ next' = next + 1
          /\ boot' \in {"users", "dedupe"}
          /\ boot' = "dedupe" => next + 1 \notin People
      BY <1>2 DEF InsertUser, StaffTypeOK
    <2>2. u \notin Rows /\ user[u] = None
      BY <2>1 DEF StaffTypeOK, Rows
    <2>3. Rows' = Rows \cup {u} /\ user'[u] = next /\ \A v \in Rows : user'[v] = user[v]
      BY <2>1, <2>2 DEF StaffTypeOK, Rows
    <2>4. \A p \in People : p < next + 1 => \E v \in Rows' : user'[v] = p
      <3> SUFFICES ASSUME NEW p \in People, p < next + 1 PROVE \E v \in Rows' : user'[v] = p
        OBVIOUS
      <3>1. CASE p = next
        BY <3>1, <2>3
      <3>2. CASE p < next
        <4>1. PICK v \in Rows : user[v] = p
          BY <3>2, <2>1
        <4> QED
          BY <4>1, <2>3
      <3> QED
        BY <3>1, <3>2, <2>1
    <2>5. next + 1 \notin People => \A p \in People : p < next + 1
      BY <2>1
    <2> QED
      BY <2>1, <2>4, <2>5
  <1>3. CASE DeleteDuplicates
    <2>1. CASE boot' = "refused"
      BY <2>1
    <2>2. CASE boot' # "refused"
      <3>1. boot = "dedupe" /\ boot' = "up"
            /\ user' = [u \in UserIds |-> IF u \in Doomed THEN None ELSE user[u]]
        BY <2>2, <1>3 DEF DeleteDuplicates
      <3>2. ASSUME NEW p \in People PROVE \E u \in Rows' : user'[u] = p
        <4>1. PICK v \in Rows : user[v] = p
          BY <3>1
        <4>2. PICK u \in Rows : user[u] = p /\ \A x \in Rows : user[x] = p => ~(x < u)
          BY <4>1, FirstCopy
        <4>3. u \notin Doomed
          BY <4>2 DEF Doomed, Surplus
        <4> QED
          BY <3>1, <4>2, <4>3 DEF Rows
      <3> QED
        BY <3>1, <3>2
    <2> QED
      BY <2>1, <2>2
  <1>4. CASE Stop
    BY <1>4 DEF Stop
  <1>5. ASSUME UNCHANGED <<table, process>> PROVE Seeded'
    BY <1>5 DEF table, process, Rows
  <1> QED
    BY <1>1, <1>2, <1>3, <1>4, <1>5 DEF StaffNext, SignIn, staffVars

(***************************************************************************)
(* A process that serves has a row for everybody on the roster, whatever   *)
(* its starts deleted: the copy with the least id always stays.            *)
(***************************************************************************)
THEOREM EverybodyStays == StaffSpec => []EverybodyIsThere
<1>1. StaffInit => Seeded
  BY DEF StaffInit, Seeded
<1>2. StaffTypeOK /\ Seeded /\ [StaffNext]_staffVars => Seeded'
  BY SeededStep
<1>3. Seeded => EverybodyIsThere
  BY DEF Seeded, EverybodyIsThere
<1> QED
  BY <1>1, <1>2, <1>3, StaffTypeCorrect, PTL DEF StaffSpec

-----------------------------------------------------------------------------
(* What points at a user.                                                  *)

\* The foreign keys: what is named is there, before and after every step.
LEMMA ReferencesStep ==
  ASSUME StaffTypeOK, ReferencesHold, [StaffNext]_staffVars
  PROVE  ReferencesHold'
  <1> USE DEF ReferencesHold, Referenced, Rows, table, process, pointers
  <1>1. ASSUME NEW u \in UserIds, InsertUser(u) PROVE ReferencesHold'
    BY <1>1, PeopleAreNumbered DEF InsertUser, StaffTypeOK
  <1>2. CASE DeleteDuplicates
    BY <1>2 DEF DeleteDuplicates
  <1>3. CASE Start \/ Stop \/ \E b \in Browsers, u \in UserIds : SignIn(b, u)
    BY <1>3 DEF Start, Stop, SignIn
  <1>4. ASSUME \/ \E u \in UserIds : Own(u)
               \/ \E b \in Browsers : Approve(b) \/ Resolve(b),
               UNCHANGED <<table, process, session>>
        PROVE ReferencesHold'
    BY <1>4 DEF Own, Approve, Resolve, MayAct, Known
  <1>5. CASE UNCHANGED staffVars
    BY <1>5 DEF staffVars
  <1> QED
    BY <1>1, <1>2, <1>3, <1>4, <1>5 DEF StaffNext

(***************************************************************************)
(* No start deletes a row that a record, an approval or a resolution       *)
(* names.                                                                  *)
(***************************************************************************)
THEOREM ReferencesStay == StaffSpec => []ReferencesHold
<1>1. StaffInit => ReferencesHold
  BY DEF StaffInit, ReferencesHold, Referenced
<1>2. StaffTypeOK /\ ReferencesHold /\ [StaffNext]_staffVars => ReferencesHold'
  BY ReferencesStep
<1> QED
  BY <1>1, <1>2, StaffTypeCorrect, PTL DEF StaffSpec

LEMMA TwiceStep ==
  ASSUME StaffTypeOK, TwiceOnlyIfNamed, [StaffNext]_staffVars
  PROVE  TwiceOnlyIfNamed'
  <1> USE DEF TwiceOnlyIfNamed, Rows, table, process, pointers
  <1>1. CASE DeleteDuplicates
    <2> SUFFICES ASSUME boot' = "up", NEW u \in Rows', NEW v \in Rows', user'[u] = user'[v], v < u
                 PROVE u \in owners' \cup approvers'
      OBVIOUS
    <2>1. user' = [x \in UserIds |-> IF x \in Doomed THEN None ELSE user[x]]
      BY <1>1 DEF DeleteDuplicates
    <2>2. u \in Rows /\ v \in Rows /\ u \notin Doomed /\ user[u] = user[v]
      BY <2>1
    <2> QED
      BY <1>1, <2>2 DEF DeleteDuplicates, Doomed, Surplus
  <1>2. CASE Start \/ Stop \/ \E u \in UserIds : InsertUser(u)
    BY <1>2 DEF Start, Stop, InsertUser
  <1>3. ASSUME NEW b \in Browsers, NEW u \in UserIds, SignIn(b, u) PROVE TwiceOnlyIfNamed'
    BY <1>3 DEF SignIn
  <1>4. ASSUME \/ \E u \in UserIds : Own(u)
               \/ \E b \in Browsers : Approve(b) \/ Resolve(b),
               UNCHANGED <<table, process, session>>
        PROVE TwiceOnlyIfNamed'
    <2>1. owners \cup approvers \subseteq owners' \cup approvers' /\ user' = user /\ boot' = boot
      BY <1>4 DEF Own, Approve, Resolve
    <2> QED
      BY <2>1
  <1>5. CASE UNCHANGED staffVars
    BY <1>5 DEF staffVars
  <1> QED
    BY <1>1, <1>2, <1>3, <1>4, <1>5 DEF StaffNext

(***************************************************************************)
(* The only copies a start leaves are those with the larger id that own a  *)
(* record or made a decision.                                              *)
(***************************************************************************)
THEOREM CopiesAreNamed == StaffSpec => []TwiceOnlyIfNamed
<1>1. StaffInit => TwiceOnlyIfNamed
  BY DEF StaffInit, TwiceOnlyIfNamed
<1>2. StaffTypeOK /\ TwiceOnlyIfNamed /\ [StaffNext]_staffVars => TwiceOnlyIfNamed'
  BY TwiceStep
<1> QED
  BY <1>1, <1>2, StaffTypeCorrect, PTL DEF StaffSpec

(***************************************************************************)
(* The only reason for a refused start is a resolution.                    *)
(***************************************************************************)
THEOREM OnlyResolutionsRefuse == StaffSpec => []RefusedOnlyByResolution
<1>1. StaffInit => RefusedOnlyByResolution
  BY DEF StaffInit, RefusedOnlyByResolution
<1>2. ASSUME RefusedOnlyByResolution, [StaffNext]_staffVars PROVE RefusedOnlyByResolution'
  <2> USE DEF RefusedOnlyByResolution, table, process, pointers
  <2>1. CASE DeleteDuplicates
    BY <2>1 DEF DeleteDuplicates, Doomed, Surplus, Referenced
  <2>2. CASE Start \/ Stop \/ (\E u \in UserIds : InsertUser(u))
             \/ \E b \in Browsers, u \in UserIds : SignIn(b, u)
    BY <2>2 DEF Start, Stop, InsertUser, SignIn
  <2>3. ASSUME \/ \E u \in UserIds : Own(u)
               \/ \E b \in Browsers : Approve(b) \/ Resolve(b),
               UNCHANGED <<table, process, session>>
        PROVE RefusedOnlyByResolution'
    BY <2>3 DEF Own, Approve, Resolve, MayAct, Known
  <2>4. CASE UNCHANGED staffVars
    BY <1>2, <2>4 DEF staffVars
  <2> QED
    BY <1>2, <2>1, <2>2, <2>3, <2>4 DEF StaffNext
<1> QED
  BY <1>1, <1>2, PTL DEF StaffSpec
=============================================================================
