----------------------------- MODULE Crm_proofs -----------------------------
(***************************************************************************)
(* Proofs about module Crm: what concurrent runs, restarts and reviewers   *)
(* leave in the CRM tables, for any number of enquiries, workers, contacts *)
(* and reviewers, and whatever the attempts take from a text.              *)
(***************************************************************************)
EXTENDS Crm, Staff_proofs, FiniteSetTheorems

-----------------------------------------------------------------------------
(* The users are those of Staff.                                           *)

\* Whatever a run or a request does, the users see a step of theirs or none.
LEMMA StaffSimulates ==
  ASSUME [CrmNext]_crmVars
  PROVE  [StaffNext]_staffVars
  <1> USE DEF OnlyJob, staffVars
  <1>1. ASSUME NEW w \in Workers, CrmWorkerStep(w) PROVE [StaffNext]_staffVars
    <2>1. ASSUME WriteRecord(w) PROVE [StaffNext]_staffVars
      <3> DEFINE row == Upsert(record[job[w].enquiry],
                               [contact |-> job[w].target, owner |-> job[w].owner, team |-> job[w].team])
      <3>1. /\ UNCHANGED <<table, process, session>>
            /\ UNCHANGED pointers \/ Own(row.owner)
        BY <2>1 DEF WriteRecord
      <3>2. Own(row.owner) => \E u \in UserIds : Own(u)
        BY DEF Own, Rows
      <3> QED
        BY <3>1, <3>2 DEF StaffNext
    <2>2. ASSUME \/ CommitContact(w) \/ WriteDraft(w)
                 \/ \E e \in Enquiries : \E f \in Offers[e] : Begin(w, e, f)
          PROVE UNCHANGED staffVars
      BY <2>2 DEF CommitContact, WriteDraft, Begin
    <2>3. ASSUME ~ WriteRecord(w), ~ CommitContact(w), ~ WriteDraft(w),
                 ~ \E e \in Enquiries : \E f \in Offers[e] : Begin(w, e, f)
          PROVE UNCHANGED staffVars
      <3>1. \/ MatchByEmail(w) \/ MatchByPhone(w) \/ MatchByName(w)
            \/ (\E t \in Teams \cup {None} : Route(w, t))
            \/ FindCompany(w) \/ InsertCompany(w) \/ WriteContact(w) \/ LoseContact(w)
            \/ PickOwner(w) \/ RunFails(w)
        BY <1>1, <2>3 DEF CrmWorkerStep
      <3>2. \E j : OnlyJob(w, j)
        <4> HIDE DEF OnlyJob
        <4>1. ASSUME MatchByEmail(w) \/ MatchByPhone(w) PROVE \E j : OnlyJob(w, j)
          BY <4>1 DEF MatchByEmail, MatchByPhone, MatchBy
        <4>2. ASSUME MatchByName(w) \/ \E t \in Teams \cup {None} : Route(w, t)
              PROVE \E j : OnlyJob(w, j)
          BY <4>2 DEF MatchByName, Route
        <4>3. ASSUME FindCompany(w) \/ InsertCompany(w) PROVE \E j : OnlyJob(w, j)
          BY <4>3 DEF FindCompany, InsertCompany
        <4>4. ASSUME WriteContact(w) \/ LoseContact(w) \/ PickOwner(w) \/ RunFails(w)
              PROVE \E j : OnlyJob(w, j)
          BY <4>4 DEF WriteContact, LoseContact, PickOwner, RunFails
        <4> QED
          BY <3>1, <4>1, <4>2, <4>3, <4>4
      <3> QED
        BY <3>2
    <2> QED
      BY <2>1, <2>2, <2>3
  <1>2. ASSUME NEW b \in Browsers, BrowserStep(b) PROVE [StaffNext]_staffVars
    <2>1. ASSUME DecideReply(b) PROVE [StaffNext]_staffVars
      BY <2>1 DEF DecideReply, StaffNext
    <2>2. ASSUME Elsewhere(b) PROVE [StaffNext]_staffVars
      BY <2>2 DEF Elsewhere, StaffNext
    <2>3. ASSUME DecisionFails(b) \/ \E e \in Enquiries : CheckTeam(b, e) PROVE UNCHANGED staffVars
      BY <2>3 DEF DecisionFails, CheckTeam
    <2> QED
      BY <1>2, <2>1, <2>2, <2>3 DEF BrowserStep
  <1>3. ASSUME SeedStep \/ ProcessEnds PROVE [StaffNext]_staffVars
    BY <1>3 DEF SeedStep, ProcessEnds, StaffNext
  <1>4. ASSUME UNCHANGED crmVars PROVE UNCHANGED staffVars
    BY <1>4 DEF crmVars
  <1> QED
    BY <1>1, <1>2, <1>3, <1>4 DEF CrmNext

(***************************************************************************)
(* The runs and the reviewers touch the users as Staff says they may, so   *)
(* its theorems hold of them.                                              *)
(***************************************************************************)
THEOREM CrmImplementsStaff == CrmSpec => StaffSpec
<1>1. CrmInit => StaffInit
  BY DEF CrmInit
<1>2. [CrmNext]_crmVars => [StaffNext]_staffVars
  BY StaffSimulates
<1> QED
  BY <1>1, <1>2, PTL DEF CrmSpec, StaffSpec

-----------------------------------------------------------------------------
(* Types.                                                                  *)

\* What a run has in its hands agrees with where it is.
JobShape(j) ==
    /\ j.step = "idle" <=> j.enquiry = None
    /\ j.step = "commit" <=> j.row # None
    /\ j.newCompany # None => j.company # None
    /\ j.step \in {"commit", "owner", "record"} => j.target # None
    /\ j.step = "new_company" => j.fields["company"] # None

\* Runs exist while the process serves.
Base ==
    /\ CrmTypeOK
    /\ \A w \in Workers : JobShape(job[w])
    /\ boot # "up" => \A w \in Workers : job[w] = Idle

\* Who was found is still there: no statement deletes a contact.
Matched == \A w \in Workers : job[w].match # None => job[w].match \in Contacts

LEMMA IdleType == Idle \in Jobs /\ JobShape(Idle) /\ Nobody \in Details
  BY DEF Idle, Jobs, Steps, Nobody, Details, JobShape

LEMMA BaseInit == CrmInit => Base
  <1> SUFFICES ASSUME CrmInit PROVE Base
    OBVIOUS
  <1>1. StaffTypeOK
    BY StaffTypeInit DEF CrmInit
  <1>2. contact \in [ContactIds -> ContactRows \cup {None}]
    BY CrmAssumption DEF CrmInit
  <1>3. used \in [Enquiries -> Details] /\ job \in [Workers -> Jobs]
    BY IdleType DEF CrmInit
  <1>4. \A w \in Workers : job[w] = Idle
    BY DEF CrmInit
  <1> QED
    BY <1>1, <1>2, <1>3, <1>4, IdleType DEF CrmInit, Base, CrmTypeOK

\* A statement without effect on the tables.
LEMMA OnlyJobBase ==
  ASSUME Base, NEW w \in Workers, NEW j \in Jobs, JobShape(j), boot = "up", OnlyJob(w, j)
  PROVE  Base'
  <1>1. StaffTypeOK'
    BY DEF OnlyJob, Base, CrmTypeOK, StaffTypeOK, Rows, staffVars, table, process, pointers
  <1>2. job' = [job EXCEPT ![w] = j] /\ boot' = "up"
    BY DEF OnlyJob, staffVars, process
  <1>3. job' \in [Workers -> Jobs] /\ \A v \in Workers : JobShape(job'[v])
    BY <1>2 DEF Base, CrmTypeOK
  <1> QED
    BY <1>1, <1>2, <1>3 DEF OnlyJob, Base, CrmTypeOK, crmTables, crmHist

\* Records of runs are updated field by field.
LEMMA JobUpdates ==
  ASSUME NEW j \in Jobs
  PROVE  /\ \A s \in Steps : [j EXCEPT !.step = s] \in Jobs
         /\ \A s \in Steps : \A c \in ContactIds : [j EXCEPT !.step = s, !.match = c] \in Jobs
         /\ \A s \in Steps : \A t \in Teams \cup {None} : [j EXCEPT !.step = s, !.team = t] \in Jobs
         /\ \A s \in Steps : \A c \in CompanyIds : [j EXCEPT !.step = s, !.company = c] \in Jobs
         /\ \A s \in Steps : \A c \in CompanyIds : \A r \in CompanyRows :
              [j EXCEPT !.step = s, !.company = c, !.newCompany = r] \in Jobs
         /\ \A s \in Steps : \A c \in ContactIds : \A r \in ContactRows :
              [j EXCEPT !.step = s, !.target = c, !.row = r] \in Jobs
         /\ \A s \in Steps : \A u \in UserIds \cup {None} : [j EXCEPT !.step = s, !.owner = u] \in Jobs
  <1>1. \A s \in Steps : [j EXCEPT !.step = s] \in Jobs
    BY DEF Jobs
  <1>2. \A s \in Steps : \A c \in ContactIds :
          [j EXCEPT !.step = s, !.match = c] \in Jobs
    BY DEF Jobs
  <1>3. \A s \in Steps : \A t \in Teams \cup {None} :
          [j EXCEPT !.step = s, !.team = t] \in Jobs
    BY DEF Jobs
  <1>4. \A s \in Steps : \A c \in CompanyIds :
          [j EXCEPT !.step = s, !.company = c] \in Jobs
    BY DEF Jobs
  <1>5. \A s \in Steps : \A c \in CompanyIds : \A r \in CompanyRows :
          [j EXCEPT !.step = s, !.company = c, !.newCompany = r] \in Jobs
    BY DEF Jobs
  <1>6. \A s \in Steps : \A c \in ContactIds : \A r \in ContactRows :
          [j EXCEPT !.step = s, !.target = c, !.row = r] \in Jobs
    BY DEF Jobs
  <1>7. \A s \in Steps : \A u \in UserIds \cup {None} :
          [j EXCEPT !.step = s, !.owner = u] \in Jobs
    BY DEF Jobs
  <1> QED
    BY <1>1, <1>2, <1>3, <1>4, <1>5, <1>6, <1>7

\* Nobody is found by an absent value, and the found are contacts.
LEMMA FoundAreContacts ==
  ASSUME NEW column, NEW value
  PROVE  Found(column, value) \subseteq Contacts /\ Contacts \subseteq ContactIds
  BY DEF Found, With, Contacts

\* The least-loaded of some users is one of them, and none has fewer records.
LEMMA LeastLoadedIsOne ==
  ASSUME NEW us, us \subseteq Rows, us # {}
  PROVE  /\ LeastLoaded(us) \in us
         /\ \A v \in us : Load(LeastLoaded(us)) <= Load(v)
  <1>1. us \subseteq Nat
    BY PeopleAreNumbered DEF Rows
  <1>2. \A u \in us : Load(u) \in Nat
    <2> SUFFICES ASSUME NEW u \in us PROVE Load(u) \in Nat
      OBVIOUS
    <2> DEFINE theirs == {e \in Enquiries : record[e] # None /\ record[e].owner = u}
    <2>1. IsFiniteSet(theirs)
      BY CrmAssumption, FS_Subset
    <2> QED
      BY <2>1, FS_CardinalityType DEF Load
  <1> DEFINE loads == {Load(u) : u \in us}
             less == OpToRel(LAMBDA x, y : x < y, Nat)
  <1>3. IsWellFoundedOn(less, Nat)
    BY NatLessThanWellFounded
  <1>4. \A x, y \in Nat : x < y <=> <<x, y>> \in less
    BY DEF OpToRel
  <1> HIDE DEF less
  <1>5. loads \subseteq Nat /\ loads # {}
    BY <1>2
  <1>6. PICK n \in loads : \A x \in loads : ~(<<x, n>> \in less)
    BY <1>3, <1>5, WFMin
  <1> DEFINE idlest == {u \in us : Load(u) = n}
  <1>7. idlest \subseteq Nat /\ idlest # {}
    BY <1>1, <1>6
  <1>8. PICK u \in idlest : \A x \in idlest : ~(<<x, u>> \in less)
    BY <1>3, <1>7, WFMin
  <1>9. \A v \in us : Load(u) < Load(v) \/ (Load(u) = Load(v) /\ u <= v)
    <2> SUFFICES ASSUME NEW v \in us PROVE Load(u) < Load(v) \/ (Load(u) = Load(v) /\ u <= v)
      OBVIOUS
    <2>1. Load(u) = n /\ n \in Nat /\ Load(v) \in Nat /\ u \in Nat /\ v \in Nat
      BY <1>1, <1>2, <1>7, <1>8
    <2>2. ~(Load(v) < n)
      BY <1>4, <1>5, <1>6, <2>1
    <2>3. Load(v) = n => ~(v < u)
      BY <1>4, <1>8, <2>1
    <2>4. \A x, y \in Nat : ~(y < x) => x < y \/ x = y
      OBVIOUS
    <2>5. \A x, y \in Nat : ~(y < x) => x <= y
      OBVIOUS
    <2> HIDE DEF idlest, loads
    <2>6. n < Load(v) \/ n = Load(v)
      BY <2>1, <2>2, <2>4
    <2>7. n = Load(v) => u <= v
      BY <2>1, <2>3, <2>5
    <2> QED
      BY <2>1, <2>6, <2>7
  <1>10. u \in us
    BY <1>8
  <1> HIDE DEF idlest, loads
  <1> DEFINE l == LeastLoaded(us)
  <1>11. l \in us /\ \A v \in us : Load(l) < Load(v) \/ (Load(l) = Load(v) /\ l <= v)
    BY <1>9, <1>10 DEF LeastLoaded
  <1> HIDE DEF l
  <1>12. \A v \in us : Load(l) <= Load(v)
    BY <1>2, <1>11
  <1> QED
    BY <1>11, <1>12 DEF l

\* The steps of a run that are no commit keep the types.
LEMMA ReadingBase ==
  ASSUME Base, NEW w \in Workers,
         \/ MatchByEmail(w) \/ MatchByPhone(w) \/ MatchByName(w)
         \/ \E t \in Teams \cup {None} : Route(w, t)
         \/ FindCompany(w) \/ InsertCompany(w) \/ LoseContact(w)
         \/ PickOwner(w) \/ RunFails(w)
  PROVE  Base'
  <1> DEFINE j == job[w]
  <1>j. j \in Jobs /\ JobShape(j)
    BY DEF Base, CrmTypeOK
  <1>i. ASSUME boot = "up", OnlyJob(w, Idle) PROVE Base'
    BY <1>i, IdleType, OnlyJobBase
  <1>s. ASSUME boot = "up", NEW t \in {"phone", "name", "route", "new_company", "contact"},
               t = "new_company" => j.fields["company"] # None,
               j.step \notin {"idle", "commit"}, OnlyJob(w, [j EXCEPT !.step = t])
        PROVE Base'
    <2>1. [j EXCEPT !.step = t] \in Jobs
      BY <1>j, JobUpdates DEF Steps
    <2>2. JobShape([j EXCEPT !.step = t])
      BY <1>j, <1>s DEF JobShape, Jobs
    <2> QED
      BY <1>s, <2>1, <2>2, OnlyJobBase
  <1>1. ASSUME NEW column \in {"email", "phone"}, NEW next_ \in {"phone", "name"},
               MatchBy(w, column, next_)
        PROVE Base'
    <2>1. boot = "up" /\ j.step = column
      BY <1>1 DEF MatchBy, At
    <2>2. CASE OnlyJob(w, [j EXCEPT !.step = next_])
      BY <1>s, <2>1, <2>2
    <2>3. ASSUME NEW c \in ContactIds, OnlyJob(w, [j EXCEPT !.step = "route", !.match = c]) PROVE Base'
      <3>1. [j EXCEPT !.step = "route", !.match = c] \in Jobs
        BY <1>j, JobUpdates DEF Steps
      <3>2. JobShape([j EXCEPT !.step = "route", !.match = c])
        BY <1>j, <2>1 DEF JobShape, Jobs
      <3> QED
        BY <2>1, <2>3, <3>1, <3>2, OnlyJobBase
    <2> QED
      BY <1>1, <2>2, <2>3, FoundAreContacts DEF MatchBy
  <1>2. CASE MatchByEmail(w) \/ MatchByPhone(w)
    BY <1>1, <1>2 DEF MatchByEmail, MatchByPhone
  <1>3. CASE MatchByName(w)
    BY <1>3, <1>i, <1>s DEF MatchByName, At
  <1>4. ASSUME NEW t \in Teams \cup {None}, Route(w, t) PROVE Base'
    <2>1. [j EXCEPT !.step = "company", !.team = t] \in Jobs
      BY <1>j, JobUpdates DEF Steps
    <2>2. JobShape([j EXCEPT !.step = "company", !.team = t])
      BY <1>j, <1>4 DEF JobShape, Jobs, Route, At
    <2> QED
      BY <1>4, <2>1, <2>2, OnlyJobBase DEF Route, At
  <1>5. CASE FindCompany(w)
    <2>1. boot = "up" /\ j.step = "company"
      BY <1>5 DEF FindCompany, At
    <2>2. CASE OnlyJob(w, [j EXCEPT !.step = "contact"])
      BY <1>s, <2>1, <2>2
    <2>3. CASE j.fields["company"] # None /\ OnlyJob(w, [j EXCEPT !.step = "new_company"])
      BY <1>s, <2>1, <2>3
    <2>4. ASSUME NEW c \in CompanyIds, OnlyJob(w, [j EXCEPT !.step = "contact", !.company = c]) PROVE Base'
      <3>1. [j EXCEPT !.step = "contact", !.company = c] \in Jobs
        BY <1>j, JobUpdates DEF Steps
      <3>2. JobShape([j EXCEPT !.step = "contact", !.company = c])
        BY <1>j, <2>1, CrmAssumption DEF JobShape, Jobs
      <3> QED
        BY <2>1, <2>4, <3>1, <3>2, OnlyJobBase
    <2>5. FirstOf(Named(j.fields, DomainOf(j.fields["email"])), DomainOf(j.fields["email"])) \subseteq CompanyIds
      BY DEF FirstOf, Named, Firms
    <2> QED
      BY <1>5, <2>2, <2>3, <2>4, <2>5 DEF FindCompany
  <1>6. CASE InsertCompany(w)
    <2> DEFINE r == [name |-> j.fields["company"], domain |-> DomainOf(j.fields["email"])]
               k == [j EXCEPT !.step = "contact", !.company = FreshCompany, !.newCompany = r]
    <2>1. boot = "up" /\ j.step = "new_company" /\ FreshCompany \in CompanyIds
      BY <1>6 DEF InsertCompany, At, FreshCompany, UnusedCompanies
    <2>2. r \in CompanyRows
      <3>1. j.fields \in Details /\ j.fields["company"] # None
        BY <1>j, <2>1 DEF JobShape, Jobs
      <3>2. j.fields["company"] \in Values /\ j.fields["email"] \in Values \cup {None}
        BY <3>1 DEF Details, Columns
      <3> QED
        BY <3>2, CrmAssumption DEF CompanyRows
    <2> HIDE DEF r
    <2>3. k \in Jobs
      BY <1>j, <2>1, <2>2, JobUpdates DEF Steps
    <2>4. JobShape(k)
      BY <1>j, <2>1, CrmAssumption DEF JobShape, Jobs
    <2>5. OnlyJob(w, Idle) \/ OnlyJob(w, k)
      BY <1>6 DEF InsertCompany, r
    <2> HIDE DEF k
    <2> QED
      BY <1>i, <2>1, <2>3, <2>4, <2>5, OnlyJobBase
  <1>7. CASE LoseContact(w) \/ RunFails(w)
    BY <1>7, <1>i DEF LoseContact, RunFails, At
  <1>8. CASE PickOwner(w)
    <2> DEFINE us == Colleagues(j.team)
               u == IF us = {} THEN None ELSE LeastLoaded(us)
    <2>1. boot = "up" /\ j.step = "owner" /\ OnlyJob(w, [j EXCEPT !.step = "record", !.owner = u])
      BY <1>8 DEF PickOwner, At
    <2>2. u \in UserIds \cup {None}
      <3>1. us \subseteq Rows /\ Rows \subseteq UserIds
        BY DEF Colleagues, Rows
      <3> HIDE DEF us
      <3> QED
        BY <3>1, LeastLoadedIsOne
    <2> HIDE DEF u
    <2>3. [j EXCEPT !.step = "record", !.owner = u] \in Jobs
      BY <1>j, <2>2, JobUpdates DEF Steps
    <2>4. JobShape([j EXCEPT !.step = "record", !.owner = u])
      BY <1>j, <2>1 DEF JobShape, Jobs
    <2> QED
      BY <2>1, <2>3, <2>4, OnlyJobBase
  <1> QED
    BY <1>2, <1>3, <1>4, <1>5, <1>6, <1>7, <1>8

\* A step of a run that holds the types after it: it is the run's own, and the
\* process goes on.
LEMMA RunBase ==
  ASSUME Base, boot = "up", UNCHANGED process, StaffTypeOK',
         NEW w \in Workers, NEW j \in Jobs, JobShape(j), job' = [job EXCEPT ![w] = j],
         UNCHANGED <<checked, decider>>,
         contact' \in [ContactIds -> ContactRows \cup {None}],
         company' \in [CompanyIds -> CompanyRows \cup {None}],
         record' \in [Enquiries -> Records \cup {None}],
         draft' \in [Enquiries -> {"none", "pending_approval", "decided"}],
         runs' \in [Enquiries -> Nat], teams' \in [Enquiries -> SUBSET (Teams \cup {None})],
         used' \in [Enquiries -> Details]
  PROVE  Base'
  <1>1. job' \in [Workers -> Jobs] /\ \A v \in Workers : JobShape(job'[v])
    BY DEF Base, CrmTypeOK
  <1>2. boot' = "up"
    BY DEF process
  <1>3. checked' \in [Browsers -> Enquiries \cup {None}] /\ decider' \in [Enquiries -> UserIds \cup {None}]
    BY DEF Base, CrmTypeOK
  <1> QED
    BY <1>1, <1>2, <1>3 DEF Base, CrmTypeOK

LEMMA BeginBase ==
  ASSUME Base, StaffTypeOK', NEW w \in Workers, NEW e \in Enquiries, NEW f \in Offers[e], Begin(w, e, f)
  PROVE  Base'
  <1> DEFINE j == [Idle EXCEPT !.step = "email", !.enquiry = e, !.fields = f]
  <1>1. f \in Details /\ e # None
    BY CrmAssumption
  <1>2. j \in Jobs /\ JobShape(j)
    BY <1>1, IdleType DEF Idle, Jobs, Steps, JobShape
  <1>3. boot = "up" /\ job' = [job EXCEPT ![w] = j] /\ runs' = [runs EXCEPT ![e] = @ + 1]
        /\ UNCHANGED <<staffVars, crmTables, checked, teams, used, decider>>
    BY DEF Begin, At
  <1> HIDE DEF j
  <1>4. runs' \in [Enquiries -> Nat]
    BY <1>3 DEF Base, CrmTypeOK
  <1> QED
    BY <1>2, <1>3, <1>4, RunBase DEF Base, CrmTypeOK, staffVars, crmTables


LEMMA ContactBase ==
  ASSUME Base, Matched, StaffTypeOK', NEW w \in Workers, WriteContact(w)
  PROVE  /\ Base'
         /\ Target(w) \in ContactIds
         /\ RowFor(w) \in ContactRows
         /\ Target(w) \in Contacts => job[w].match = Target(w)
         /\ job[w].match = Target(w) =>
              \A column \in Columns : contact[Target(w)][column] # None =>
                 RowFor(w)[column] = contact[Target(w)][column]
  <1> DEFINE j == job[w]
             t == Target(w)
             r == RowFor(w)
             new == [j.fields EXCEPT !["company"] = j.company]
             k == [j EXCEPT !.step = "commit", !.target = t, !.row = r]
  <1>1. boot = "up" /\ j.step = "contact" /\ t \in ContactIds /\ OnlyJob(w, k)
    BY DEF WriteContact, At
  <1>2. j \in Jobs /\ JobShape(j)
    BY DEF Base, CrmTypeOK
  <1>3. new \in ContactRows
    BY <1>2 DEF Jobs, Details, ContactRows, Columns
  <1> HIDE DEF new
  <1>4. j.match # None => contact[j.match] \in ContactRows
    BY <1>2 DEF Matched, Contacts, Base, CrmTypeOK
  <1>5. r \in ContactRows
    <2>1. CASE j.match = None
      BY <2>1, <1>3 DEF RowFor, new
    <2>2. CASE j.match # None
      <3>1. r = Fill(contact[j.match], new)
        BY <2>2 DEF RowFor, new
      <3> QED
        BY <3>1, <2>2, <1>3, <1>4 DEF Fill, ContactRows
    <2> QED
      BY <2>1, <2>2
  <1>6. t \in Contacts => j.match = t
    BY DEF WriteContact, Target
  <1>7. j.match = t => \A column \in Columns : contact[t][column] # None => r[column] = contact[t][column]
    <2>1. j.match = t => r = Fill(contact[t], new)
      BY <1>1, CrmAssumption DEF RowFor, new
    <2> QED
      BY <2>1 DEF Fill
  <1> HIDE DEF r, t
  <1>8. k \in Jobs
    BY <1>1, <1>2, <1>5, JobUpdates DEF Steps
  <1>9. JobShape(k)
    BY <1>1, <1>2, <1>5, CrmAssumption DEF JobShape, Jobs
  <1> HIDE DEF k
  <1>10. Base'
    BY <1>1, <1>8, <1>9, OnlyJobBase
  <1> QED
    BY <1>1, <1>5, <1>6, <1>7, <1>10 DEF r, t

LEMMA CommitBase ==
  ASSUME Base, StaffTypeOK', NEW w \in Workers, CommitContact(w)
  PROVE  Base'
  <1> DEFINE j == job[w]
             k == [Idle EXCEPT !.step = "owner", !.enquiry = j.enquiry,
                               !.fields = j.fields, !.team = j.team, !.target = j.target]
  <1>1. boot = "up" /\ j.step = "commit" /\ job' = [job EXCEPT ![w] = k]
        /\ contact' = [contact EXCEPT ![j.target] = j.row]
        /\ UNCHANGED <<staffVars, record, draft, checked, crmHist>>
        /\ company' = IF j.newCompany = None THEN company
                      ELSE [company EXCEPT ![j.company] = j.newCompany]
    BY DEF CommitContact, At
  <1>2. j \in Jobs /\ JobShape(j)
    BY DEF Base, CrmTypeOK
  <1>3. k \in Jobs /\ JobShape(k)
    BY <1>1, <1>2, IdleType DEF Idle, Jobs, Steps, JobShape
  <1>4. j.row \in ContactRows \cup {None} /\ j.newCompany \in CompanyRows \cup {None}
    BY <1>2 DEF Jobs
  <1> HIDE DEF j, k
  <1>5. contact' \in [ContactIds -> ContactRows \cup {None}]
    BY <1>1, <1>4 DEF Base, CrmTypeOK
  <1>6. company' \in [CompanyIds -> CompanyRows \cup {None}]
    BY <1>1, <1>4 DEF Base, CrmTypeOK
  <1> QED
    BY <1>1, <1>3, <1>5, <1>6, RunBase DEF Base, CrmTypeOK, staffVars, crmHist

LEMMA RecordBase ==
  ASSUME Base, StaffTypeOK', NEW w \in Workers, WriteRecord(w)
  PROVE  /\ Base'
         /\ job[w].enquiry \in Enquiries
         /\ [contact |-> job[w].target, owner |-> job[w].owner, team |-> job[w].team] \in Records
  <1> DEFINE j == job[w]
             new == [contact |-> j.target, owner |-> j.owner, team |-> j.team]
             row == Upsert(record[j.enquiry], new)
             k == [Idle EXCEPT !.step = "draft", !.enquiry = j.enquiry]
             u == IF record[j.enquiry] = None THEN j.fields ELSE used[j.enquiry]
  <1>1. boot = "up" /\ j.step = "record" /\ job' = [job EXCEPT ![w] = k]
        /\ record' = [record EXCEPT ![j.enquiry] = row]
        /\ teams' = [teams EXCEPT ![j.enquiry] = @ \cup {row.team}]
        /\ UNCHANGED <<table, process, session, contact, company, draft, checked, runs, decider>>
    BY DEF WriteRecord, At
  <1>2. j \in Jobs /\ JobShape(j)
    BY DEF Base, CrmTypeOK
  <1>3. k \in Jobs /\ JobShape(k)
    BY <1>1, <1>2, IdleType DEF Idle, Jobs, Steps, JobShape
  <1>4. j.enquiry \in Enquiries /\ j.target \in ContactIds /\ j.fields \in Details
    BY <1>1, <1>2 DEF Jobs, JobShape
  <1>5. new \in Records
    BY <1>2, <1>4 DEF Jobs, Records
  <1>6. row \in Records
    <2>1. record[j.enquiry] \in Records \cup {None}
      BY <1>4 DEF Base, CrmTypeOK
    <2>2. new.owner \in UserIds \cup {None} /\ new.team \in Teams \cup {None}
      BY <1>2 DEF Jobs
    <2> HIDE DEF new
    <2>3. CASE record[j.enquiry] = None
      BY <2>3, <1>5 DEF Upsert
    <2>4. CASE record[j.enquiry] # None
      BY <2>1, <2>2, <2>4 DEF Upsert, Records
    <2> QED
      BY <2>3, <2>4
  <1>7. used' = [used EXCEPT ![j.enquiry] = u]
    BY DEF WriteRecord
  <1>8. u \in Details
    BY <1>4 DEF Base, CrmTypeOK
  <1>t. row.team \in Teams \cup {None}
    BY <1>6 DEF Records
  <1> HIDE DEF row, k, u
  <1>9. record' \in [Enquiries -> Records \cup {None}]
    BY <1>1, <1>4, <1>6 DEF Base, CrmTypeOK
  <1>10. teams' \in [Enquiries -> SUBSET (Teams \cup {None})] /\ used' \in [Enquiries -> Details]
    BY <1>1, <1>4, <1>7, <1>8, <1>t DEF Base, CrmTypeOK
  <1>11. Base'
    BY <1>1, <1>3, <1>9, <1>10, RunBase DEF Base, CrmTypeOK
  <1> QED
    BY <1>4, <1>5, <1>11

LEMMA DraftBase ==
  ASSUME Base, StaffTypeOK', NEW w \in Workers, WriteDraft(w)
  PROVE  Base'
  <1>1. boot = "up" /\ job' = [job EXCEPT ![w] = Idle]
        /\ draft' = [draft EXCEPT ![job[w].enquiry] = IF @ = "none" THEN "pending_approval" ELSE @]
        /\ UNCHANGED <<staffVars, contact, company, record, checked, crmHist>>
    BY DEF WriteDraft, At
  <1>2. draft' \in [Enquiries -> {"none", "pending_approval", "decided"}]
    BY <1>1 DEF Base, CrmTypeOK
  <1> QED
    BY <1>1, <1>2, IdleType, RunBase DEF Base, CrmTypeOK, staffVars, crmHist

\* The steps of the others.
LEMMA OthersBase ==
  ASSUME Base, StaffTypeOK',
         \/ \E b \in Browsers : BrowserStep(b)
         \/ SeedStep \/ ProcessEnds \/ UNCHANGED crmVars
  PROVE  Base'
  <1> USE DEF Base, CrmTypeOK
  <1>1. ASSUME NEW b \in Browsers, NEW e \in Enquiries, CheckTeam(b, e) PROVE Base'
    BY <1>1 DEF CheckTeam, crmTables, crmHist, staffVars, process
  <1>2. ASSUME NEW b \in Browsers, DecideReply(b) PROVE Base'
    <2>1. checked[b] \in Enquiries /\ session[b] \in UserIds
      BY <1>2 DEF DecideReply, Approve, MayAct, Known, Rows
    <2>2. draft' \in [Enquiries -> {"none", "pending_approval", "decided"}]
      BY <1>2 DEF DecideReply
    <2>3. decider' \in [Enquiries -> UserIds \cup {None}]
      BY <1>2, <2>1 DEF DecideReply
    <2>4. checked' \in [Browsers -> Enquiries \cup {None}]
      BY <1>2 DEF DecideReply
    <2> QED
      BY <1>2, <2>2, <2>3, <2>4 DEF DecideReply, process
  <1>3. ASSUME NEW b \in Browsers, DecisionFails(b) PROVE Base'
    BY <1>3 DEF DecisionFails, crmTables, crmHist, staffVars, process
  <1>4. ASSUME NEW b \in Browsers, Elsewhere(b) PROVE Base'
    BY <1>4 DEF Elsewhere, SignIn, crmTables, crmHist, process
  <1>5. CASE SeedStep
    <2>1. boot' = "up" => boot # "up"
      BY <1>5 DEF SeedStep, Start, InsertUser, DeleteDuplicates
    <2>2. boot # "up"
      BY <1>5 DEF SeedStep, Start, InsertUser, DeleteDuplicates
    <2> QED
      BY <1>5, <2>2 DEF SeedStep, crmTables, crmHist
  <1>6. CASE ProcessEnds
    <2>1. job' \in [Workers -> Jobs] /\ \A w \in Workers : job'[w] = Idle
      BY <1>6, IdleType DEF ProcessEnds
    <2>2. checked' \in [Browsers -> Enquiries \cup {None}]
      BY <1>6 DEF ProcessEnds
    <2> QED
      BY <1>6, <2>1, <2>2, IdleType DEF ProcessEnds, crmTables, crmHist
  <1>7. CASE UNCHANGED crmVars
    BY <1>7 DEF crmVars, crmTables, crmHist, staffVars, process
  <1> QED
    BY <1>1, <1>2, <1>3, <1>4, <1>5, <1>6, <1>7 DEF BrowserStep

LEMMA BaseStep ==
  ASSUME Base, Matched, [CrmNext]_crmVars
  PROVE  Base'
  <1>1. StaffTypeOK'
    BY StaffSimulates, StaffTypeStep DEF Base, CrmTypeOK
  <1>2. ASSUME NEW w \in Workers, CrmWorkerStep(w) PROVE Base'
    BY <1>1, <1>2, BeginBase, ReadingBase, ContactBase, CommitBase, RecordBase, DraftBase
       DEF CrmWorkerStep
  <1> QED
    BY <1>1, <1>2, OthersBase DEF CrmNext

-----------------------------------------------------------------------------
(* What a statement may do to the contacts and to the writes under way.    *)

\* Every step but the two that write a contact leaves the contacts alone, and
\* no run gets a write under way by it.
LEMMA Footprint ==
  ASSUME Base, [CrmNext]_crmVars,
         ~ \E w \in Workers : WriteContact(w) \/ CommitContact(w)
  PROVE  /\ UNCHANGED contact
         /\ \A v \in Workers :
               /\ job'[v].row # None => job'[v].row = job[v].row /\ job'[v].target = job[v].target
               /\ job'[v].match # None => job'[v].match = job[v].match \/ job'[v].match \in Contacts
  <1> DEFINE Light(v) ==
               /\ job'[v].row # None => job'[v].row = job[v].row /\ job'[v].target = job[v].target
               /\ job'[v].match # None => job'[v].match = job[v].match \/ job'[v].match \in Contacts
             Small(w, k) ==
               /\ k.row # None => k.row = job[w].row /\ k.target = job[w].target
               /\ k.match # None => k.match = job[w].match \/ k.match \in Contacts
  <1>j. ASSUME NEW w \in Workers, NEW k, Small(w, k), job' = [job EXCEPT ![w] = k]
        PROVE \A v \in Workers : Light(v)
    BY <1>j DEF Base, CrmTypeOK
  <1>i. \A w : Small(w, Idle)
    BY DEF Idle
  <1>o. ASSUME NEW w \in Workers, NEW k, Small(w, k), OnlyJob(w, k)
        PROVE UNCHANGED contact /\ \A v \in Workers : Light(v)
    <2>1. job' = [job EXCEPT ![w] = k] /\ UNCHANGED contact
      BY <1>o DEF OnlyJob, crmTables
    <2> HIDE DEF Small, Light
    <2> QED
      BY <1>j, <1>o, <2>1
  <1>s. ASSUME NEW w \in Workers
        PROVE /\ \A s : Small(w, [job[w] EXCEPT !.step = s])
              /\ \A s : \A c \in Contacts : Small(w, [job[w] EXCEPT !.step = s, !.match = c])
              /\ \A s, t : Small(w, [job[w] EXCEPT !.step = s, !.team = t])
              /\ \A s, c : Small(w, [job[w] EXCEPT !.step = s, !.company = c])
              /\ \A s, c, r : Small(w, [job[w] EXCEPT !.step = s, !.company = c, !.newCompany = r])
              /\ \A s, u : Small(w, [job[w] EXCEPT !.step = s, !.owner = u])
    <2>1. job[w] \in Jobs
      BY DEF Base, CrmTypeOK
    <2>2. \A s : Small(w, [job[w] EXCEPT !.step = s])
      BY <2>1 DEF Jobs
    <2>3. \A s : \A c \in Contacts : Small(w, [job[w] EXCEPT !.step = s, !.match = c])
      BY <2>1 DEF Jobs
    <2>4. \A s, t : Small(w, [job[w] EXCEPT !.step = s, !.team = t])
      BY <2>1 DEF Jobs
    <2>5. \A s, c : Small(w, [job[w] EXCEPT !.step = s, !.company = c])
      BY <2>1 DEF Jobs
    <2>6. \A s, c, r : Small(w, [job[w] EXCEPT !.step = s, !.company = c, !.newCompany = r])
      BY <2>1 DEF Jobs
    <2>7. \A s, u : Small(w, [job[w] EXCEPT !.step = s, !.owner = u])
      BY <2>1 DEF Jobs
    <2> HIDE DEF Small
    <2> QED
      BY <2>2, <2>3, <2>4, <2>5, <2>6, <2>7
  <1> DEFINE Goal == UNCHANGED contact /\ \A v \in Workers : Light(v)
  <1>w. ASSUME NEW w \in Workers, CrmWorkerStep(w) PROVE Goal
    <2> HIDE DEF Small
    <2>1. ASSUME NEW k, Small(w, k), OnlyJob(w, k) PROVE Goal
      BY <1>o, <2>1
    <2>2. ASSUME \/ \E k \in {Idle} \cup {[job[w] EXCEPT !.step = s] : s \in Steps} : OnlyJob(w, k)
          PROVE Goal
      BY <1>i, <1>s, <2>1, <2>2
    <2>3. ASSUME NEW column, NEW s \in Steps, MatchBy(w, column, s) PROVE Goal
      <3>1. \/ OnlyJob(w, [job[w] EXCEPT !.step = s])
            \/ \E c \in Contacts : OnlyJob(w, [job[w] EXCEPT !.step = "route", !.match = c])
        BY <2>3, FoundAreContacts DEF MatchBy
      <3> HIDE DEF Goal
      <3> QED
        BY <3>1, <1>s, <2>1
    <2>4. CASE MatchByEmail(w) \/ MatchByPhone(w)
      BY <2>3, <2>4 DEF MatchByEmail, MatchByPhone, Steps
    <2>5. CASE MatchByName(w)
      BY <2>2, <2>5 DEF MatchByName, Steps
    <2>6. ASSUME NEW t, Route(w, t) PROVE Goal
      <3>1. OnlyJob(w, [job[w] EXCEPT !.step = "company", !.team = t])
        BY <2>6 DEF Route
      <3> HIDE DEF Goal
      <3> QED
        BY <3>1, <1>s, <2>1
    <2>7. CASE FindCompany(w)
      <3>1. \/ OnlyJob(w, [job[w] EXCEPT !.step = "contact"])
            \/ OnlyJob(w, [job[w] EXCEPT !.step = "new_company"])
            \/ \E c : OnlyJob(w, [job[w] EXCEPT !.step = "contact", !.company = c])
        BY <2>7 DEF FindCompany
      <3> HIDE DEF Goal
      <3> QED
        BY <3>1, <1>s, <2>1
    <2>8. CASE InsertCompany(w)
      <3>1. \/ OnlyJob(w, Idle)
            \/ \E c, r : OnlyJob(w, [job[w] EXCEPT !.step = "contact", !.company = c, !.newCompany = r])
        BY <2>8 DEF InsertCompany
      <3> HIDE DEF Goal
      <3> QED
        BY <3>1, <1>s, <1>i, <2>1
    <2>9. CASE LoseContact(w) \/ RunFails(w)
      BY <2>9, <2>2 DEF LoseContact, RunFails
    <2>10. CASE PickOwner(w)
      <3>1. \E u : OnlyJob(w, [job[w] EXCEPT !.step = "record", !.owner = u])
        BY <2>10 DEF PickOwner
      <3> HIDE DEF Goal
      <3> QED
        BY <3>1, <1>s, <2>1
    <2>11. ASSUME NEW e \in Enquiries, NEW f \in Offers[e], Begin(w, e, f) PROVE Goal
      <3>1. Small(w, [Idle EXCEPT !.step = "email", !.enquiry = e, !.fields = f])
        BY DEF Small, Idle
      <3> QED
        BY <2>11, <3>1, <1>j DEF Begin, crmTables
    <2>12. CASE WriteRecord(w)
      <3>1. Small(w, [Idle EXCEPT !.step = "draft", !.enquiry = job[w].enquiry])
        BY DEF Small, Idle
      <3> QED
        BY <2>12, <3>1, <1>j DEF WriteRecord
    <2>13. CASE WriteDraft(w)
      BY <2>13, <1>i, <1>j DEF WriteDraft
    <2> HIDE DEF Goal
    <2> QED
      BY <1>w, <2>4, <2>5, <2>6, <2>7, <2>8, <2>9, <2>10, <2>11, <2>12, <2>13 DEF CrmWorkerStep
  <1>p. CASE ProcessEnds
    BY <1>p DEF ProcessEnds, crmTables, Idle
  <1>b. ASSUME NEW b \in Browsers, BrowserStep(b) PROVE Goal
    BY <1>b DEF BrowserStep, CheckTeam, DecideReply, DecisionFails, Elsewhere, crmTables
  <1>r. CASE SeedStep \/ UNCHANGED crmVars
    BY <1>r DEF SeedStep, crmVars, crmTables
  <1> QED
    BY <1>w, <1>p, <1>b, <1>r DEF CrmNext

\* A committed contact goes on existing.
LEMMA MatchedStep ==
  ASSUME Base, Matched, [CrmNext]_crmVars
  PROVE  Matched'
  <1>1. ASSUME NEW w \in Workers, WriteContact(w) PROVE Matched'
    <2>1. job' = [job EXCEPT ![w] = [job[w] EXCEPT !.step = "commit", !.target = Target(w), !.row = RowFor(w)]]
          /\ UNCHANGED contact
      BY <1>1 DEF WriteContact, OnlyJob, crmTables
    <2>2. \A v \in Workers : job'[v].match = job[v].match
      BY <2>1 DEF Base, CrmTypeOK, Jobs
    <2> QED
      BY <2>1, <2>2 DEF Matched, Contacts
  <1>2. ASSUME NEW w \in Workers, CommitContact(w) PROVE Matched'
    <2>1. job[w] \in Jobs /\ job[w].row # None
      BY <1>2 DEF CommitContact, At, Base, CrmTypeOK, JobShape
    <2>2. contact' = [contact EXCEPT ![job[w].target] = job[w].row]
      BY <1>2 DEF CommitContact
    <2>3. Contacts \subseteq Contacts'
      BY <2>1, <2>2 DEF Contacts, Base, CrmTypeOK
    <2>4. \A v \in Workers : job'[v].match = None \/ job'[v].match = job[v].match
      BY <1>2 DEF CommitContact, Idle, Base, CrmTypeOK
    <2> QED
      BY <2>3, <2>4 DEF Matched
  <1>3. CASE ~ \E w \in Workers : WriteContact(w) \/ CommitContact(w)
    BY <1>3, Footprint DEF Matched, Contacts
  <1> QED
    BY <1>1, <1>2, <1>3

LEMMA MatchedInit == CrmInit => Matched
  BY DEF CrmInit, Matched, Idle

(***************************************************************************)
(* The CRM tables, the runs and the requests under way keep their types.   *)
(***************************************************************************)
THEOREM CrmTypeCorrect == CrmSpec => []CrmTypeOK
<1> DEFINE Inv == Base /\ Matched
<1>1. CrmInit => Inv
  BY BaseInit, MatchedInit
<1>2. Inv /\ [CrmNext]_crmVars => Inv'
  BY BaseStep, MatchedStep
<1>3. Inv => CrmTypeOK
  BY DEF Base
<1> HIDE DEF Inv
<1> QED
  BY <1>1, <1>2, <1>3, PTL DEF CrmSpec

-----------------------------------------------------------------------------
(* Concurrent writers of contacts.                                         *)

Writing(w) == job[w].row # None

\* Writes under way wait for one another, have addresses nobody has, and were
\* built on what their contact still holds.
Locks ==
    /\ \A v, w \in Workers : v # w /\ Writing(v) /\ Writing(w) =>
          /\ job[v].target # job[w].target
          /\ job[v].row["email"] # None => job[v].row["email"] # job[w].row["email"]
    /\ \A w \in Workers : Writing(w) =>
          \A c \in Contacts : c # job[w].target /\ job[w].row["email"] # None =>
             contact[c]["email"] # job[w].row["email"]
    /\ \A w \in Workers : Writing(w) /\ job[w].target \in Contacts =>
          \A column \in Columns : contact[job[w].target][column] # None =>
             job[w].row[column] = contact[job[w].target][column]
    /\ OneContactPerAddress

LEMMA LocksInit == CrmInit => Locks
  <1> SUFFICES ASSUME CrmInit PROVE Locks
    OBVIOUS
  <1>1. \A w \in Workers : ~ Writing(w)
    BY DEF CrmInit, Writing, Idle
  <1>2. \A c \in Contacts : c \in DOMAIN Book /\ contact[c] = Book[c]
    BY DEF CrmInit, Contacts
  <1>3. OneContactPerAddress
    BY <1>2, CrmAssumption DEF OneContactPerAddress
  <1> QED
    BY <1>1, <1>3 DEF Locks

LEMMA LocksStep ==
  ASSUME Base, Matched, Locks, [CrmNext]_crmVars
  PROVE  Locks'
  <1>1. ASSUME NEW w \in Workers, WriteContact(w) PROVE Locks'
    <2> DEFINE t == Target(w)
               r == RowFor(w)
    <2>0. StaffTypeOK'
      BY StaffSimulates, StaffTypeStep DEF Base, CrmTypeOK
    <2>1. /\ job' = [job EXCEPT ![w] = [job[w] EXCEPT !.step = "commit", !.target = t, !.row = r]]
          /\ UNCHANGED contact
      BY <1>1 DEF WriteContact, OnlyJob, crmTables
    <2>2. /\ job'[w].target = t /\ job'[w].row = r
          /\ \A v \in Workers \ {w} : job'[v] = job[v]
      BY <2>1 DEF Base, CrmTypeOK, Jobs
    <2>3. /\ t \in Contacts => job[w].match = t
          /\ job[w].match = t =>
               \A column \in Columns : contact[t][column] # None => r[column] = contact[t][column]
      BY <1>1, <2>0, ContactBase
    <2>4. \A v \in Workers \ {w} : Writing(v) =>
             job[v].target # t /\ (r["email"] # None => job[v].row["email"] # r["email"])
      BY <1>1 DEF WriteContact, NotAwaiting, Writing
    <2>5. \A c \in Contacts : c # t /\ r["email"] # None => contact[c]["email"] # r["email"]
      BY <1>1 DEF WriteContact, Taken, With
    <2>6. Contacts' = Contacts /\ (OneContactPerAddress <=> OneContactPerAddress')
      BY <2>1 DEF Contacts, OneContactPerAddress
    <2>7. \A v \in Workers \ {w} : Writing(v)' = Writing(v)
      BY <2>2 DEF Writing
    <2> HIDE DEF t, r
    <2>8. \A u, v \in Workers : u # v /\ Writing(u)' /\ Writing(v)' =>
             /\ job'[u].target # job'[v].target
             /\ job'[u].row["email"] # None => job'[u].row["email"] # job'[v].row["email"]
      <3> SUFFICES ASSUME NEW u \in Workers, NEW v \in Workers, u # v, Writing(u)', Writing(v)'
                   PROVE /\ job'[u].target # job'[v].target
                         /\ job'[u].row["email"] # None => job'[u].row["email"] # job'[v].row["email"]
        OBVIOUS
      <3>1. CASE u # w /\ v # w
        BY <3>1, <2>2, <2>7 DEF Locks
      <3>2. CASE u = w
        BY <3>2, <2>2, <2>4, <2>7
      <3>3. CASE v = w
        BY <3>3, <2>2, <2>4, <2>7
      <3> QED
        BY <3>1, <3>2, <3>3
    <2>9. \A v \in Workers : Writing(v)' =>
             \A c \in Contacts' : c # job'[v].target /\ job'[v].row["email"] # None =>
                contact'[c]["email"] # job'[v].row["email"]
      BY <2>1, <2>2, <2>5, <2>6, <2>7 DEF Locks
    <2>10. \A v \in Workers : Writing(v)' /\ job'[v].target \in Contacts' =>
             \A column \in Columns : contact'[job'[v].target][column] # None =>
                job'[v].row[column] = contact'[job'[v].target][column]
      BY <2>1, <2>2, <2>3, <2>6, <2>7 DEF Locks
    <2> QED
      BY <2>6, <2>8, <2>9, <2>10 DEF Locks
  <1>2. ASSUME NEW w \in Workers, CommitContact(w) PROVE Locks'
    <2> DEFINE t == job[w].target
               r == job[w].row
    <2>1. Writing(w) /\ t \in ContactIds /\ r \in ContactRows /\ r # None
      BY <1>2 DEF CommitContact, At, Base, CrmTypeOK, JobShape, Jobs, Writing
    <2>2. contact' = [contact EXCEPT ![t] = r] /\ job'[w].row = None
          /\ \A v \in Workers \ {w} : job'[v] = job[v]
      BY <1>2 DEF CommitContact, Idle, Base, CrmTypeOK
    <2> HIDE DEF t, r
    <2>3. /\ contact'[t] = r /\ t \in Contacts'
          /\ \A c \in Contacts' : c # t => c \in Contacts /\ contact'[c] = contact[c]
      BY <2>1, <2>2 DEF Contacts, Base, CrmTypeOK
    <2>4. \A v \in Workers : Writing(v)' => v # w /\ Writing(v) /\ job'[v] = job[v]
      BY <2>2 DEF Writing
    <2>5. \A v \in Workers : v # w /\ Writing(v) =>
             /\ job[v].target # t
             /\ job[v].row["email"] # None => job[v].row["email"] # r["email"]
      BY <2>1 DEF Locks, t, r
    <2>6. \A c \in Contacts : c # t /\ r["email"] # None => contact[c]["email"] # r["email"]
      BY <2>1 DEF Locks, t, r
    <2>7. \A u, v \in Workers : u # v /\ Writing(u)' /\ Writing(v)' =>
             /\ job'[u].target # job'[v].target
             /\ job'[u].row["email"] # None => job'[u].row["email"] # job'[v].row["email"]
      BY <2>4 DEF Locks
    <2>8. \A v \in Workers : Writing(v)' =>
             \A c \in Contacts' : c # job'[v].target /\ job'[v].row["email"] # None =>
                contact'[c]["email"] # job'[v].row["email"]
      BY <2>3, <2>4, <2>5 DEF Locks
    <2>9. \A v \in Workers : Writing(v)' /\ job'[v].target \in Contacts' =>
             \A column \in Columns : contact'[job'[v].target][column] # None =>
                job'[v].row[column] = contact'[job'[v].target][column]
      BY <2>3, <2>4, <2>5 DEF Locks
    <2>10. OneContactPerAddress'
      BY <2>3, <2>6 DEF Locks, OneContactPerAddress
    <2> QED
      BY <2>7, <2>8, <2>9, <2>10 DEF Locks
  <1>3. CASE ~ \E w \in Workers : WriteContact(w) \/ CommitContact(w)
    <2>1. UNCHANGED contact
          /\ \A v \in Workers : job'[v].row # None => job'[v].row = job[v].row /\ job'[v].target = job[v].target
      BY <1>3, Footprint
    <2>2. Contacts' = Contacts /\ (OneContactPerAddress <=> OneContactPerAddress')
      BY <2>1 DEF Contacts, OneContactPerAddress
    <2>3. \A v \in Workers : Writing(v)' =>
             Writing(v) /\ job'[v].row = job[v].row /\ job'[v].target = job[v].target
      BY <2>1 DEF Writing
    <2>4. \A u, v \in Workers : u # v /\ Writing(u)' /\ Writing(v)' =>
             /\ job'[u].target # job'[v].target
             /\ job'[u].row["email"] # None => job'[u].row["email"] # job'[v].row["email"]
      BY <2>3 DEF Locks
    <2>5. \A v \in Workers : Writing(v)' =>
             \A c \in Contacts' : c # job'[v].target /\ job'[v].row["email"] # None =>
                contact'[c]["email"] # job'[v].row["email"]
      BY <2>1, <2>2, <2>3 DEF Locks
    <2>6. \A v \in Workers : Writing(v)' /\ job'[v].target \in Contacts' =>
             \A column \in Columns : contact'[job'[v].target][column] # None =>
                job'[v].row[column] = contact'[job'[v].target][column]
      BY <2>1, <2>2, <2>3 DEF Locks
    <2> QED
      BY <2>2, <2>4, <2>5, <2>6 DEF Locks
  <1> QED
    BY <1>1, <1>2, <1>3

\* What holds of the contacts and the runs.
WritersInv == Base /\ Matched /\ Locks

LEMMA WritersAlways == CrmSpec => []WritersInv
  <1>1. CrmInit => WritersInv
    BY BaseInit, MatchedInit, LocksInit DEF WritersInv
  <1>2. WritersInv /\ [CrmNext]_crmVars => WritersInv'
    BY BaseStep, MatchedStep, LocksStep DEF WritersInv
  <1> QED
    BY <1>1, <1>2, PTL DEF CrmSpec

(***************************************************************************)
(* However many workers race, no two contacts have the same address: a     *)
(* write waits for the others' and looks at what they committed.           *)
(***************************************************************************)
THEOREM AddressesAreUnique == CrmSpec => []OneContactPerAddress
<1>1. WritersInv => OneContactPerAddress
  BY DEF WritersInv, Locks
<1> QED
  BY <1>1, WritersAlways, PTL

\* A commit fills blanks; nothing else writes a contact.
LEMMA KnownValueStays ==
  ASSUME WritersInv, [CrmNext]_crmVars, NEW c \in Contacts, NEW column \in Columns,
         contact[c][column] # None
  PROVE  contact'[c] # None /\ contact'[c][column] = contact[c][column]
  <1>1. ASSUME NEW w \in Workers, CommitContact(w)
        PROVE contact'[c] # None /\ contact'[c][column] = contact[c][column]
    <2>1. Writing(w) /\ contact' = [contact EXCEPT ![job[w].target] = job[w].row]
      BY <1>1 DEF WritersInv, CommitContact, At, Base, CrmTypeOK, JobShape, Writing
    <2>2. CASE c = job[w].target
      BY <2>1, <2>2 DEF WritersInv, Locks, Writing, Contacts, Base, CrmTypeOK
    <2>3. CASE c # job[w].target
      BY <2>1, <2>3 DEF WritersInv, Contacts, Base, CrmTypeOK
    <2> QED
      BY <2>2, <2>3
  <1>2. CASE ~ \E w \in Workers : CommitContact(w)
    <2>1. UNCHANGED contact
      BY <1>2, Footprint DEF WritersInv, WriteContact, OnlyJob, crmTables
    <2> QED
      BY <2>1 DEF Contacts
  <1> QED
    BY <1>1, <1>2

(***************************************************************************)
(* A value the CRM knows is never overwritten: two runs that fill the same *)
(* contact cannot have built on the same row.                              *)
(***************************************************************************)
THEOREM KnownValuesKept == CrmSpec => KnownValuesStay
<1>1. WritersInv /\ [CrmNext]_crmVars =>
        [\A c \in Contacts : \A column \in Columns : contact[c][column] # None =>
            contact'[c] # None /\ contact'[c][column] = contact[c][column]]_crmVars
  BY KnownValueStays
<1> QED
  BY <1>1, WritersAlways, PTL DEF CrmSpec, KnownValuesStay

-----------------------------------------------------------------------------
(* Concurrent founders of companies.                                       *)

\* The run's transaction has inserted a company.
Founding(w) == job[w].newCompany # None

\* No company in hand.
Bare(j) == j.company = None /\ j.newCompany = None /\ j.row = None

\* Companies under way have ids and domains of their own, and a run, a write
\* and a contact name only companies that are there or come with the commit.
CompanyLocks ==
    /\ \A w \in Workers : job[w].company # None => job[w].step \in {"contact", "commit"}
    /\ \A v, w \in Workers : v # w /\ Founding(v) /\ Founding(w) =>
          /\ job[v].company # job[w].company
          /\ job[v].newCompany.domain # None => job[v].newCompany.domain # job[w].newCompany.domain
    /\ \A w \in Workers : Founding(w) =>
          /\ job[w].company \in CompanyIds \ Firms
          /\ \A c \in Firms : job[w].newCompany.domain # None =>
                company[c].domain # job[w].newCompany.domain
    /\ \A w \in Workers : job[w].company # None /\ ~ Founding(w) => job[w].company \in Firms
    /\ \A w \in Workers : job[w].row # None /\ job[w].row["company"] # None =>
          \/ job[w].row["company"] \in Firms
          \/ Founding(w) /\ job[w].row["company"] = job[w].company
    /\ CompaniesAgree

LEMMA CompanyLocksInit == CrmInit => CompanyLocks
  <1> SUFFICES ASSUME CrmInit PROVE CompanyLocks
    OBVIOUS
  <1>1. Firms = {} /\ \A w \in Workers : Bare(job[w])
    BY DEF CrmInit, Firms, Bare, Idle
  <1>2. \A c \in Contacts : contact[c]["company"] = None
    BY CrmAssumption DEF CrmInit, Contacts
  <1> QED
    BY <1>1, <1>2 DEF CompanyLocks, CompaniesAgree, Founding, Bare

\* The other steps leave the tables alone, and a run they touch has no company.
LEMMA BareStep ==
  ASSUME Base, CompanyLocks, [CrmNext]_crmVars,
         ~ \E w \in Workers : \/ FindCompany(w) \/ InsertCompany(w)
                              \/ WriteContact(w) \/ CommitContact(w)
  PROVE  /\ UNCHANGED <<contact, company>>
         /\ \A v \in Workers : job'[v] = job[v] \/ Bare(job'[v])
  <1>1. UNCHANGED <<contact, company>>
    BY DEF CrmNext, CrmWorkerStep, Begin, MatchByEmail, MatchByPhone, MatchBy, MatchByName,
           Route, LoseContact, PickOwner, WriteRecord, WriteDraft, RunFails, OnlyJob, crmTables,
           crmVars, BrowserStep, CheckTeam, DecideReply, DecisionFails, Elsewhere, SeedStep, ProcessEnds
  <1>2. ASSUME NEW w \in Workers, CrmWorkerStep(w)
        PROVE  \A v \in Workers : job'[v] = job[v] \/ Bare(job'[v])
    <2>0. job[w] \in Jobs /\ JobShape(job[w])
      BY DEF Base, CrmTypeOK
    <2>1. job[w].step \notin {"contact", "commit"} => Bare(job[w])
      BY <2>0 DEF CompanyLocks, Bare, JobShape
    <2> DEFINE Becomes(k) == job' = [job EXCEPT ![w] = k] /\ Bare(k)
    <2>b. ASSUME NEW k, Bare(k), OnlyJob(w, k) PROVE \E x : Becomes(x)
      <3>1. Becomes(k)
        BY <2>b DEF OnlyJob
      <3> HIDE DEF Becomes
      <3> QED
        BY <3>1
    <2>i. Bare(Idle)
      BY DEF Bare, Idle
    <2>s. ASSUME Bare(job[w])
          PROVE /\ \A s : Bare([job[w] EXCEPT !.step = s])
                /\ \A s, c : Bare([job[w] EXCEPT !.step = s, !.match = c])
                /\ \A s, t : Bare([job[w] EXCEPT !.step = s, !.team = t])
                /\ \A s, u : Bare([job[w] EXCEPT !.step = s, !.owner = u])
      BY <2>0, <2>s DEF Bare, Jobs
    <2>2. \E k : Becomes(k)
      <3> HIDE DEF Becomes
      <3>1. ASSUME NEW column \in {"email", "phone"}, NEW s, MatchBy(w, column, s)
            PROVE \E k : Becomes(k)
        <4>1. Bare(job[w])
          BY <3>1, <2>1 DEF MatchBy, At
        <4>2. \/ OnlyJob(w, [job[w] EXCEPT !.step = s])
              \/ \E c : OnlyJob(w, [job[w] EXCEPT !.step = "route", !.match = c])
          BY <3>1 DEF MatchBy
        <4> QED
          BY <4>1, <4>2, <2>b, <2>s
      <3>2. CASE MatchByEmail(w) \/ MatchByPhone(w)
        <4>1. MatchBy(w, "email", "phone") \/ MatchBy(w, "phone", "name")
          BY <3>2 DEF MatchByEmail, MatchByPhone
        <4> HIDE DEF MatchBy
        <4> QED
          BY <3>1, <4>1
      <3>3. CASE MatchByName(w)
        <4>1. /\ Bare(job[w])
              /\ OnlyJob(w, [job[w] EXCEPT !.step = "route"]) \/ OnlyJob(w, Idle)
          BY <3>3, <2>1 DEF MatchByName, At
        <4> QED
          BY <4>1, <2>b, <2>s, <2>i
      <3>4. CASE (\E t \in Teams \cup {None} : Route(w, t))
        <4>1. /\ Bare(job[w])
              /\ \E t : OnlyJob(w, [job[w] EXCEPT !.step = "company", !.team = t])
          BY <3>4, <2>1 DEF Route, At
        <4> QED
          BY <4>1, <2>b, <2>s
      <3>5. CASE LoseContact(w) \/ RunFails(w)
        BY <2>b, <2>i, <3>5 DEF LoseContact, RunFails
      <3>6. CASE PickOwner(w)
        <4>1. /\ Bare(job[w])
              /\ \E u : OnlyJob(w, [job[w] EXCEPT !.step = "record", !.owner = u])
          BY <3>6, <2>1 DEF PickOwner, At
        <4> QED
          BY <4>1, <2>b, <2>s
      <3>7. ASSUME NEW e \in Enquiries, NEW f \in Offers[e], Begin(w, e, f) PROVE \E k : Becomes(k)
        <4> DEFINE k == [Idle EXCEPT !.step = "email", !.enquiry = e, !.fields = f]
        <4>1. job' = [job EXCEPT ![w] = k] /\ Bare(k)
          BY <3>7 DEF Begin, Bare, Idle
        <4> HIDE DEF k
        <4> QED
          BY <4>1 DEF Becomes
      <3>8. CASE WriteRecord(w)
        <4> DEFINE k == [Idle EXCEPT !.step = "draft", !.enquiry = job[w].enquiry]
        <4>1. job' = [job EXCEPT ![w] = k] /\ Bare(k)
          BY <3>8 DEF WriteRecord, Bare, Idle
        <4> HIDE DEF k
        <4> QED
          BY <4>1 DEF Becomes
      <3>9. CASE WriteDraft(w)
        BY <2>i, <3>9 DEF WriteDraft, Becomes
      <3> QED
        BY <1>2, <3>2, <3>3, <3>4, <3>5, <3>6, <3>7, <3>8, <3>9 DEF CrmWorkerStep
    <2> QED
      BY <2>2 DEF Base, CrmTypeOK, Becomes
  <1>3. ASSUME ProcessEnds PROVE \A v \in Workers : Bare(job'[v])
    BY <1>3 DEF ProcessEnds, Bare, Idle
  <1>4. ASSUME SeedStep \/ (\E b \in Browsers : BrowserStep(b)) \/ UNCHANGED crmVars PROVE UNCHANGED job
    BY <1>4 DEF SeedStep, BrowserStep, CheckTeam, DecideReply, DecisionFails, Elsewhere, crmVars
  <1> QED
    BY <1>1, <1>2, <1>3, <1>4 DEF CrmNext

\* With these companies and runs, what a run has in its hands fits.
Fits(j, others) ==
    /\ j.company # None => j.step \in {"contact", "commit"}
    /\ j.newCompany # None =>
          /\ j.company \in CompanyIds \ Firms
          /\ \A c \in Firms : j.newCompany.domain # None => company[c].domain # j.newCompany.domain
          /\ \A v \in others : Founding(v) =>
                /\ job[v].company # j.company
                /\ j.newCompany.domain # None => job[v].newCompany.domain # j.newCompany.domain
    /\ j.company # None /\ j.newCompany = None => j.company \in Firms
    /\ j.row # None /\ j.row["company"] # None =>
          \/ j.row["company"] \in Firms
          \/ j.newCompany # None /\ j.row["company"] = j.company

\* A statement of a transaction that is still open.
LEMMA OpenStep ==
  ASSUME Base, CompanyLocks, UNCHANGED <<contact, company>>, NEW w \in Workers, NEW k,
         job' = [job EXCEPT ![w] = k], Fits(k, Workers \ {w})
  PROVE  CompanyLocks'
  <1>1. /\ Firms' = Firms /\ Contacts' = Contacts /\ (CompaniesAgree <=> CompaniesAgree')
        /\ job'[w] = k /\ \A v \in Workers \ {w} : job'[v] = job[v]
    BY DEF Firms, Contacts, CompaniesAgree, Base, CrmTypeOK
  <1>2. \A v \in Workers \ {w} : Founding(v)' <=> Founding(v)
    BY <1>1 DEF Founding
  <1>3. Founding(w)' <=> k.newCompany # None
    BY <1>1 DEF Founding
  <1>4. \A u, v \in Workers : u # v /\ Founding(u)' /\ Founding(v)' =>
          /\ job'[u].company # job'[v].company
          /\ job'[u].newCompany.domain # None => job'[u].newCompany.domain # job'[v].newCompany.domain
    <2> SUFFICES ASSUME NEW u \in Workers, NEW v \in Workers, u # v, Founding(u)', Founding(v)'
                 PROVE  /\ job'[u].company # job'[v].company
                        /\ job'[u].newCompany.domain # None =>
                              job'[u].newCompany.domain # job'[v].newCompany.domain
      OBVIOUS
    <2>1. CASE u # w /\ v # w
      BY <2>1, <1>1, <1>2 DEF CompanyLocks
    <2>2. CASE u = w
      BY <2>2, <1>1, <1>2, <1>3 DEF Fits
    <2>3. CASE v = w
      BY <2>3, <1>1, <1>2, <1>3 DEF Fits
    <2> QED
      BY <2>1, <2>2, <2>3
  <1>5. \A v \in Workers :
          /\ job'[v].company # None => job'[v].step \in {"contact", "commit"}
          /\ Founding(v)' =>
                /\ job'[v].company \in CompanyIds \ Firms
                /\ \A c \in Firms : job'[v].newCompany.domain # None =>
                      company[c].domain # job'[v].newCompany.domain
          /\ job'[v].company # None /\ ~ Founding(v)' => job'[v].company \in Firms
          /\ job'[v].row # None /\ job'[v].row["company"] # None =>
                \/ job'[v].row["company"] \in Firms
                \/ Founding(v)' /\ job'[v].row["company"] = job'[v].company
    BY <1>1, <1>2, <1>3 DEF CompanyLocks, Fits
  <1> QED
    BY <1>1, <1>4, <1>5 DEF CompanyLocks

LEMMA CompanyLocksStep ==
  ASSUME WritersInv, CompanyLocks, [CrmNext]_crmVars
  PROVE  CompanyLocks'
  <1>b. Base
    BY DEF WritersInv
  <1>1. ASSUME NEW w \in Workers, FindCompany(w) PROVE CompanyLocks'
    <2> DEFINE domain == DomainOf(job[w].fields["email"])
               first == FirstOf(Named(job[w].fields, domain), domain)
    <2>1. /\ job[w] \in Jobs /\ job[w].step = "company" /\ Bare(job[w])
          /\ UNCHANGED <<contact, company>>
      BY <1>1, <1>b DEF FindCompany, At, OnlyJob, crmTables, Base, CrmTypeOK, JobShape, CompanyLocks, Bare
    <2>2. \A s : Fits([job[w] EXCEPT !.step = s], Workers \ {w})
      BY <2>1 DEF Bare, Fits, Jobs
    <2>3. \A c \in Firms : Fits([job[w] EXCEPT !.step = "contact", !.company = c], Workers \ {w})
      BY <2>1 DEF Bare, Fits, Jobs
    <2>4. first \subseteq Firms
      BY DEF FirstOf, Named
    <2>5. \/ OnlyJob(w, [job[w] EXCEPT !.step = "contact"])
          \/ OnlyJob(w, [job[w] EXCEPT !.step = "new_company"])
          \/ \E c \in first : OnlyJob(w, [job[w] EXCEPT !.step = "contact", !.company = c])
      BY <1>1 DEF FindCompany
    <2> HIDE DEF first
    <2> QED
      BY <1>b, <2>1, <2>2, <2>3, <2>4, <2>5, OpenStep DEF OnlyJob
  <1>2. ASSUME NEW w \in Workers, InsertCompany(w) PROVE CompanyLocks'
    <2> DEFINE r == [name |-> job[w].fields["company"], domain |-> DomainOf(job[w].fields["email"])]
               k == [job[w] EXCEPT !.step = "contact", !.company = FreshCompany, !.newCompany = r]
    <2>1. /\ job[w] \in Jobs /\ job[w].row = None /\ UNCHANGED <<contact, company>>
      BY <1>2, <1>b DEF InsertCompany, At, OnlyJob, crmTables, Base, CrmTypeOK, JobShape
    <2>2. \A v \in Workers \ {w} :
            r.domain # None /\ Founding(v) => job[v].newCompany.domain # r.domain
      BY <1>2 DEF InsertCompany, Founding
    <2>3. FreshCompany \in UnusedCompanies
      BY <1>2 DEF InsertCompany, FreshCompany
    <2>4. CASE OnlyJob(w, Idle)
      <3>1. Fits(Idle, Workers \ {w})
        BY DEF Fits, Idle
      <3> QED
        BY <1>b, <2>1, <2>4, <3>1, OpenStep DEF OnlyJob
    <2>5. CASE /\ OnlyJob(w, k)
               /\ ~ (r.domain # None /\ \E d \in Firms : company[d].domain = r.domain)
      <3>1. /\ k.step = "contact" /\ k.company = FreshCompany /\ k.newCompany = r /\ k.row = None
        BY <2>1 DEF Jobs
      <3> HIDE DEF k, r
      <3>2. FreshCompany \in CompanyIds \ Firms /\ \A v \in Workers : Founding(v) => job[v].company # FreshCompany
        BY <2>3 DEF UnusedCompanies, Founding
      <3>3. r # None
        <4>1. r \in CompanyRows
          <5>1. job[w].fields \in Details /\ job[w].fields["company"] # None
            BY <1>2, <1>b DEF InsertCompany, At, Base, CrmTypeOK, JobShape, Jobs
          <5>2. job[w].fields["company"] \in Values /\ job[w].fields["email"] \in Values \cup {None}
            BY <5>1 DEF Details, Columns
          <5> QED
            BY <5>2, CrmAssumption DEF CompanyRows, r
        <4> QED
          BY <4>1, CrmAssumption
      <3>4. Fits(k, Workers \ {w})
        BY <2>2, <2>5, <3>1, <3>2, <3>3 DEF Fits
      <3> QED
        BY <1>b, <2>1, <2>5, <3>4, OpenStep DEF OnlyJob
    <2> QED
      BY <1>2, <2>4, <2>5 DEF InsertCompany
  <1>3. ASSUME NEW w \in Workers, WriteContact(w) PROVE CompanyLocks'
    <2> DEFINE j == job[w]
               r == RowFor(w)
               t == Target(w)
               k == [j EXCEPT !.step = "commit", !.target = t, !.row = r]
    <2>1. /\ j \in Jobs /\ OnlyJob(w, k) /\ UNCHANGED <<contact, company>>
      BY <1>3, <1>b DEF WriteContact, OnlyJob, crmTables, Base, CrmTypeOK
    <2>2. r["company"] # None =>
            r["company"] = j.company \/ r["company"] \in Firms
      <3> DEFINE new == [j.fields EXCEPT !["company"] = j.company]
      <3>1. new["company"] = j.company
        BY <2>1 DEF Jobs, Details, Columns
      <3>2. CASE j.match = None
        BY <3>1, <3>2 DEF RowFor
      <3>3. CASE j.match # None
        <4>1. r["company"] = IF contact[j.match]["company"] # None THEN contact[j.match]["company"]
                             ELSE j.company
          BY <3>1, <3>3 DEF RowFor, Fill, Columns
        <4>2. contact[j.match]["company"] # None => contact[j.match]["company"] \in Firms
          BY <3>3 DEF WritersInv, Matched, CompanyLocks, CompaniesAgree
        <4> QED
          BY <4>1, <4>2
      <3> QED
        BY <3>2, <3>3
    <2>3. /\ k.step = "commit" /\ k.company = j.company /\ k.newCompany = j.newCompany /\ k.row = r
      BY <2>1 DEF Jobs
    <2> HIDE DEF k, r
    <2>4. Fits(k, Workers \ {w})
      <3>1. \A v \in Workers \ {w} : Founding(v) /\ Founding(w) =>
              /\ job[v].company # j.company
              /\ j.newCompany.domain # None => job[v].newCompany.domain # j.newCompany.domain
        BY DEF CompanyLocks
      <3>2. Founding(w) <=> j.newCompany # None
        BY DEF Founding
      <3> QED
        BY <2>2, <2>3, <3>1, <3>2 DEF CompanyLocks, Fits
    <2> QED
      BY <1>b, <2>1, <2>4, OpenStep DEF OnlyJob
  <1>4. ASSUME NEW w \in Workers, CommitContact(w) PROVE CompanyLocks'
    <2> DEFINE t == job[w].target
               r == job[w].row
               c == job[w].company
               n == job[w].newCompany
    <2>1. /\ t \in ContactIds /\ r \in ContactRows /\ r # None
          /\ n \in CompanyRows \cup {None} /\ (n # None <=> Founding(w))
      BY <1>4, <1>b DEF CommitContact, At, Base, CrmTypeOK, JobShape, Jobs, Founding
    <2>2. /\ contact' = [contact EXCEPT ![t] = r]
          /\ company' = IF n = None THEN company ELSE [company EXCEPT ![c] = n]
          /\ Bare(job'[w]) /\ \A v \in Workers \ {w} : job'[v] = job[v]
      BY <1>4, <1>b DEF CommitContact, Bare, Idle, Base, CrmTypeOK
    <2>3. /\ n # None => /\ c \in CompanyIds \ Firms
                         /\ \A d \in Firms : n.domain # None => company[d].domain # n.domain
          /\ r["company"] # None => r["company"] \in Firms \/ (n # None /\ r["company"] = c)
      BY <2>1 DEF CompanyLocks
    <2>4. \A v \in Workers \ {w} : Founding(v) /\ n # None =>
            job[v].company # c /\ (job[v].newCompany.domain # None => job[v].newCompany.domain # n.domain)
      BY <2>1 DEF CompanyLocks
    <2>5. \A v \in Workers : Founding(v)' => v # w /\ Founding(v) /\ job'[v] = job[v]
      BY <2>2 DEF Founding, Bare
    <2> HIDE DEF t, r, c, n
    <2>6. /\ \A d \in Firms : d \in Firms' /\ company'[d] = company[d]
          /\ n = None => Firms' = Firms
          /\ n # None => c \in Firms' /\ company'[c] = n /\ Firms' = Firms \cup {c}
      <3>1. CASE n = None
        BY <3>1, <2>2 DEF Firms
      <3>2. CASE n # None
        BY <3>2, <1>b, <2>1, <2>2, <2>3 DEF Firms, Base, CrmTypeOK
      <3> QED
        BY <3>1, <3>2
    <2>7. CompaniesAgree'
      <3>1. \A d, f \in Firms' : company'[d].domain # None /\ company'[d].domain = company'[f].domain => d = f
        BY <2>3, <2>6 DEF CompanyLocks, CompaniesAgree
      <3>2. \A d \in Contacts' : d # t => d \in Contacts /\ contact'[d] = contact[d]
        BY <1>b, <2>1, <2>2 DEF Contacts, Base, CrmTypeOK
      <3>3. contact'[t] = r
        BY <1>b, <2>1, <2>2 DEF Base, CrmTypeOK
      <3>4. r["company"] # None => r["company"] \in Firms'
        BY <2>3, <2>6
      <3>5. \A d \in Contacts' : contact'[d]["company"] # None => contact'[d]["company"] \in Firms'
        BY <2>6, <3>2, <3>3, <3>4 DEF CompanyLocks, CompaniesAgree
      <3> QED
        BY <3>1, <3>5 DEF CompaniesAgree
    <2>8. \A v \in Workers : job'[v].company # None => v # w /\ job'[v] = job[v]
      BY <2>2 DEF Bare
    <2>9. \A v \in Workers : job'[v].row # None => v # w /\ job'[v] = job[v]
      BY <2>2 DEF Bare
    <2>10. \A u, v \in Workers : u # v /\ Founding(u)' /\ Founding(v)' =>
             /\ job'[u].company # job'[v].company
             /\ job'[u].newCompany.domain # None => job'[u].newCompany.domain # job'[v].newCompany.domain
      BY <2>5 DEF CompanyLocks
    <2>11. \A v \in Workers : Founding(v)' =>
             /\ job'[v].company \in CompanyIds \ Firms'
             /\ \A d \in Firms' : job'[v].newCompany.domain # None =>
                   company'[d].domain # job'[v].newCompany.domain
      BY <2>4, <2>5, <2>6 DEF CompanyLocks
    <2>12. \A v \in Workers : job'[v].company # None /\ ~ Founding(v)' => job'[v].company \in Firms'
      <3>1. \A v \in Workers \ {w} : Founding(v)' <=> Founding(v)
        BY <2>2 DEF Founding
      <3> QED
        BY <2>6, <2>8, <3>1 DEF CompanyLocks
    <2>13. \A v \in Workers : job'[v].row # None /\ job'[v].row["company"] # None =>
             \/ job'[v].row["company"] \in Firms'
             \/ Founding(v)' /\ job'[v].row["company"] = job'[v].company
      <3>1. \A v \in Workers \ {w} : Founding(v)' <=> Founding(v)
        BY <2>2 DEF Founding
      <3> QED
        BY <2>6, <2>9, <3>1 DEF CompanyLocks
    <2>14. \A v \in Workers : job'[v].company # None => job'[v].step \in {"contact", "commit"}
      BY <2>8 DEF CompanyLocks
    <2> QED
      BY <2>7, <2>10, <2>11, <2>12, <2>13, <2>14 DEF CompanyLocks
  <1>5. CASE ~ \E w \in Workers : \/ FindCompany(w) \/ InsertCompany(w)
                                 \/ WriteContact(w) \/ CommitContact(w)
    <2>1. /\ UNCHANGED <<contact, company>>
          /\ \A v \in Workers : job'[v] = job[v] \/ Bare(job'[v])
      BY <1>5, <1>b, BareStep
    <2>2. Firms' = Firms /\ Contacts' = Contacts /\ (CompaniesAgree <=> CompaniesAgree')
      BY <2>1 DEF Firms, Contacts, CompaniesAgree
    <2>3. \A v \in Workers : ~ Bare(job'[v]) => job'[v] = job[v] /\ (Founding(v)' <=> Founding(v))
      BY <2>1 DEF Founding
    <2>4. \A v \in Workers : Bare(job'[v]) => ~ Founding(v)'
      BY DEF Bare, Founding
    <2>5. \A v \in Workers :
             Bare(job'[v]) <=> /\ job'[v].company = None
                               /\ job'[v].newCompany = None
                               /\ job'[v].row = None
      BY DEF Bare
    <2>6. \A u, v \in Workers : u # v /\ Founding(u)' /\ Founding(v)' =>
             /\ job'[u].company # job'[v].company
             /\ job'[u].newCompany.domain # None => job'[u].newCompany.domain # job'[v].newCompany.domain
      BY <2>3, <2>4 DEF CompanyLocks
    <2>7. \A v \in Workers :
             /\ job'[v].company # None => job'[v].step \in {"contact", "commit"}
             /\ Founding(v)' =>
                   /\ job'[v].company \in CompanyIds \ Firms
                   /\ \A c \in Firms : job'[v].newCompany.domain # None =>
                         company[c].domain # job'[v].newCompany.domain
             /\ job'[v].company # None /\ ~ Founding(v)' => job'[v].company \in Firms
             /\ job'[v].row # None /\ job'[v].row["company"] # None =>
                   \/ job'[v].row["company"] \in Firms
                   \/ Founding(v)' /\ job'[v].row["company"] = job'[v].company
      BY <2>3, <2>4, <2>5 DEF CompanyLocks
    <2> QED
      BY <2>1, <2>2, <2>6, <2>7 DEF CompanyLocks
  <1> QED
    BY <1>1, <1>2, <1>3, <1>4, <1>5

(***************************************************************************)
(* However many runs create companies at once, a domain belongs to one,    *)
(* and no contact names a company whose transaction did not commit.        *)
(***************************************************************************)
THEOREM CompaniesStayApart == CrmSpec => []CompaniesAgree
<1>1. CrmInit => WritersInv /\ CompanyLocks
  BY BaseInit, MatchedInit, LocksInit, CompanyLocksInit DEF WritersInv
<1>2. WritersInv /\ CompanyLocks /\ [CrmNext]_crmVars => (WritersInv /\ CompanyLocks)'
  BY BaseStep, MatchedStep, LocksStep, CompanyLocksStep DEF WritersInv
<1>3. CompanyLocks => CompaniesAgree
  BY DEF CompanyLocks
<1> QED
  BY <1>1, <1>2, <1>3, PTL DEF CrmSpec

-----------------------------------------------------------------------------
(* Records and their contacts.                                             *)

\* With these contact rows, the run has found, or will write, its sender.
JobNames(j, rows) ==
    /\ j.match # None => Names(rows[j.match], j.fields) /\ ~ ByNameOnly(j.fields)
    /\ j.step \in {"company", "new_company", "contact"} =>
          \E column \in Identifiers : j.fields[column] # None
    /\ j.row # None => Names(j.row, j.fields)
    /\ j.step \in {"owner", "record"} =>
          rows[j.target] # None /\ Names(rows[j.target], j.fields)

Identified ==
    /\ \A w \in Workers : JobNames(job[w], contact)
    /\ \A e \in Enquiries : record[e] # None =>
          record[e].contact \in Contacts /\ Names(contact[record[e].contact], used[e])

LEMMA NamesStay ==
  ASSUME WritersInv, [CrmNext]_crmVars, NEW c \in Contacts, NEW f, Names(contact[c], f)
  PROVE  contact'[c] # None /\ Names(contact'[c], f)
  <1>1. ASSUME NEW column \in Identifiers, f[column] # None, contact[c][column] = f[column],
               column = "name" => ByNameOnly(f)
        PROVE  contact'[c] # None /\ Names(contact'[c], f)
    <2>1. column \in Columns /\ contact[c][column] # None
      BY <1>1 DEF Columns, Identifiers
    <2>2. contact'[c] # None /\ contact'[c][column] = contact[c][column]
      BY <2>1, KnownValueStays
    <2> QED
      BY <1>1, <2>2 DEF Names
  <1> QED
    BY <1>1 DEF Names

\* A step keeps what was true of a run, since no contact loses a value.
LEMMA JobNamesStay ==
  ASSUME WritersInv, [CrmNext]_crmVars, NEW j \in Jobs, JobShape(j),
         j.match # None => j.match \in Contacts, JobNames(j, contact)
  PROVE  JobNames(j, contact')
  <1>1. j.match # None => Names(contact'[j.match], j.fields)
    BY NamesStay DEF JobNames
  <1>2. j.step \in {"owner", "record"} => j.target \in Contacts
    BY DEF JobNames, JobShape, Jobs, Contacts
  <1>3. j.step \in {"owner", "record"} => contact'[j.target] # None /\ Names(contact'[j.target], j.fields)
    BY <1>2, NamesStay DEF JobNames
  <1> QED
    BY <1>1, <1>3 DEF JobNames

\* A step that commits no contact.
LEMMA JobNamesStep ==
  ASSUME WritersInv, Identified, NEW w \in Workers, CrmWorkerStep(w), ~ CommitContact(w),
         StaffTypeOK'
  PROVE  \A v \in Workers : JobNames(job'[v], contact)
  <1> DEFINE j == job[w]
  <1>j. j \in Jobs /\ JobShape(j) /\ JobNames(j, contact)
    BY DEF WritersInv, Base, CrmTypeOK, Identified
  <1>k. ASSUME NEW k, JobNames(k, contact), job' = [job EXCEPT ![w] = k]
        PROVE \A v \in Workers : JobNames(job'[v], contact)
    BY <1>k DEF WritersInv, Base, CrmTypeOK, Identified
  <1>o. ASSUME NEW k, JobNames(k, contact), OnlyJob(w, k)
        PROVE \A v \in Workers : JobNames(job'[v], contact)
    BY <1>o, <1>k DEF OnlyJob
  <1>i. JobNames(Idle, contact)
    BY DEF Idle, JobNames
  <1>s. ASSUME NEW s \in Steps \ {"company", "owner", "record"},
               s \in {"new_company", "contact"} =>
                  \E column \in Identifiers : j.fields[column] # None
        PROVE /\ JobNames([j EXCEPT !.step = s], contact)
              /\ \A c : JobNames([j EXCEPT !.step = s, !.company = c], contact)
              /\ \A c, r : JobNames([j EXCEPT !.step = s, !.company = c, !.newCompany = r], contact)
    <2>1. JobNames([j EXCEPT !.step = s], contact)
      BY <1>j, <1>s DEF JobNames, Jobs, Steps
    <2>2. \A c : JobNames([j EXCEPT !.step = s, !.company = c], contact)
      BY <1>j, <1>s DEF JobNames, Jobs, Steps
    <2>3. \A c, r : JobNames([j EXCEPT !.step = s, !.company = c, !.newCompany = r], contact)
      BY <1>j, <1>s DEF JobNames, Jobs, Steps
    <2> QED
      BY <2>1, <2>2, <2>3
  <1> DEFINE Goal == \A v \in Workers : JobNames(job'[v], contact)
  <1> HIDE DEF Goal
  <1>1. ASSUME NEW e \in Enquiries, NEW f \in Offers[e], Begin(w, e, f) PROVE Goal
    <2>1. JobNames([Idle EXCEPT !.step = "email", !.enquiry = e, !.fields = f], contact)
      BY DEF Idle, JobNames
    <2> QED
      BY <1>1, <2>1, <1>k DEF Begin, Goal
  <1>2. ASSUME NEW column \in {"email", "phone"}, NEW s \in {"phone", "name"}, MatchBy(w, column, s)
        PROVE Goal
    <2>1. CASE OnlyJob(w, [j EXCEPT !.step = s])
      BY <2>1, <1>s, <1>o DEF Goal, Steps
    <2>2. ASSUME NEW c \in Found(column, j.fields[column]),
                 OnlyJob(w, [j EXCEPT !.step = "route", !.match = c])
          PROVE Goal
      <3>1. j.fields[column] # None /\ contact[c][column] = j.fields[column]
        BY <2>2 DEF Found, With
      <3>2. Names(contact[c], j.fields) /\ ~ ByNameOnly(j.fields)
        BY <1>2, <3>1 DEF Names, Identifiers, ByNameOnly
      <3>3. JobNames([j EXCEPT !.step = "route", !.match = c], contact)
        BY <3>2, <1>j DEF JobNames, Jobs
      <3> QED
        BY <2>2, <3>3, <1>o DEF Goal
    <2> QED
      BY <1>2, <2>1, <2>2 DEF MatchBy
  <1>3. ASSUME MatchByEmail(w) \/ MatchByPhone(w) PROVE Goal
    <2>1. MatchBy(w, "email", "phone") \/ MatchBy(w, "phone", "name")
      BY <1>3 DEF MatchByEmail, MatchByPhone
    <2> HIDE DEF MatchBy
    <2> QED
      BY <1>2, <2>1
  <1>4. CASE MatchByName(w)
    <2>1. OnlyJob(w, [j EXCEPT !.step = "route"]) \/ OnlyJob(w, Idle)
      BY <1>4 DEF MatchByName
    <2> QED
      BY <2>1, <1>s, <1>i, <1>o DEF Goal, Steps
  <1>5. ASSUME NEW t, Route(w, t) PROVE Goal
    <2>1. JobNames([j EXCEPT !.step = "company", !.team = t], contact)
      BY <1>5, <1>j DEF Route, JobNames, Jobs
    <2> QED
      BY <1>5, <2>1, <1>o DEF Route, Goal
  <1>6. CASE FindCompany(w)
    <2>1. \E column \in Identifiers : j.fields[column] # None
      BY <1>6, <1>j DEF FindCompany, At, JobNames
    <2>2. \/ OnlyJob(w, [j EXCEPT !.step = "contact"])
          \/ OnlyJob(w, [j EXCEPT !.step = "new_company"])
          \/ \E c : OnlyJob(w, [j EXCEPT !.step = "contact", !.company = c])
      BY <1>6 DEF FindCompany
    <2> QED
      BY <2>1, <2>2, <1>s, <1>o DEF Goal, Steps
  <1>7. CASE InsertCompany(w)
    <2>1. \E column \in Identifiers : j.fields[column] # None
      BY <1>7, <1>j DEF InsertCompany, At, JobNames
    <2>2. \/ OnlyJob(w, Idle)
          \/ \E c, r : OnlyJob(w, [j EXCEPT !.step = "contact", !.company = c, !.newCompany = r])
      BY <1>7 DEF InsertCompany
    <2> QED
      BY <2>1, <2>2, <1>s, <1>i, <1>o DEF Goal, Steps
  <1>8. CASE WriteContact(w)
    <2> DEFINE t == Target(w)
               r == RowFor(w)
    <2>1. At(w, "contact") /\ OnlyJob(w, [j EXCEPT !.step = "commit", !.target = t, !.row = r])
          /\ t \in ContactIds
      BY <1>8 DEF WriteContact
    <2>2. Names(r, j.fields)
      <3>1. CASE j.match = None
        <4>1. \E column \in Identifiers : j.fields[column] # None
          BY <2>1, <1>j DEF At, JobNames
        <4>2. \A column \in Identifiers : r[column] = j.fields[column]
          BY <3>1, <1>j DEF RowFor, Jobs, Details, Columns, Identifiers
        <4> QED
          BY <4>1, <4>2 DEF Names, Identifiers, ByNameOnly
      <3>2. CASE j.match # None
        <4>1. PICK column \in Identifiers :
                /\ j.fields[column] # None /\ contact[j.match][column] = j.fields[column]
                /\ column = "name" => ByNameOnly(j.fields)
          BY <3>2, <1>j DEF JobNames, Names
        <4>2. r[column] = contact[j.match][column]
          BY <3>2, <4>1 DEF RowFor, Fill, Columns, Identifiers
        <4> QED
          BY <4>1, <4>2 DEF Names
      <3> QED
        BY <3>1, <3>2
    <2> HIDE DEF t, r
    <2>3. JobNames([j EXCEPT !.step = "commit", !.target = t, !.row = r], contact)
      BY <2>2, <1>j DEF JobNames, Jobs
    <2> QED
      BY <2>1, <2>3, <1>o DEF Goal
  <1>9. CASE LoseContact(w) \/ RunFails(w)
    BY <1>9, <1>i, <1>o DEF LoseContact, RunFails, Goal
  <1>10. CASE PickOwner(w)
    <2>1. j.step = "owner" /\ \E u : OnlyJob(w, [j EXCEPT !.step = "record", !.owner = u])
      BY <1>10 DEF PickOwner, At
    <2>2. \A u : JobNames([j EXCEPT !.step = "record", !.owner = u], contact)
      BY <2>1, <1>j DEF JobNames, Jobs
    <2> QED
      BY <2>1, <2>2, <1>o DEF Goal
  <1>11. CASE WriteRecord(w)
    <2>1. JobNames([Idle EXCEPT !.step = "draft", !.enquiry = j.enquiry], contact)
      BY DEF Idle, JobNames
    <2> QED
      BY <1>11, <2>1, <1>k DEF WriteRecord, Goal
  <1>12. CASE WriteDraft(w)
    BY <1>12, <1>i, <1>k DEF WriteDraft, Goal
  <1> QED
    BY <1>1, <1>3, <1>4, <1>5, <1>6, <1>7, <1>8, <1>9, <1>10, <1>11, <1>12 DEF CrmWorkerStep, Goal

LEMMA IdentifiedStep ==
  ASSUME WritersInv, Identified, [CrmNext]_crmVars
  PROVE  Identified'
  <1>0. StaffTypeOK'
    BY StaffSimulates, StaffTypeStep DEF WritersInv, Base, CrmTypeOK
  <1>1. \A v \in Workers : job'[v] = job[v] \/ job'[v] = Idle => JobNames(job'[v], contact')
    <2>1. JobNames(Idle, contact')
      BY DEF Idle, JobNames
    <2>2. \A v \in Workers : JobNames(job[v], contact')
      BY JobNamesStay DEF WritersInv, Base, CrmTypeOK, Matched, Identified
    <2> QED
      BY <2>1, <2>2
  <1>2. \A w \in Workers : JobNames(job'[w], contact')
    <2>1. ASSUME NEW w \in Workers, CommitContact(w), NEW v \in Workers PROVE JobNames(job'[v], contact')
      <3>1. CASE v # w
        BY <2>1, <3>1, <1>1 DEF CommitContact, WritersInv, Base, CrmTypeOK
      <3>2. CASE v = w
        <4> DEFINE j == job[w]
        <4>1. j.row # None /\ j.target \in ContactIds /\ Names(j.row, j.fields)
          BY <2>1 DEF CommitContact, At, WritersInv, Base, CrmTypeOK, JobShape, Jobs, Identified, JobNames
        <4>2. contact'[j.target] = j.row
          BY <2>1, <4>1 DEF CommitContact, WritersInv, Base, CrmTypeOK
        <4>3. job'[w] = [Idle EXCEPT !.step = "owner", !.enquiry = j.enquiry,
                                     !.fields = j.fields, !.team = j.team, !.target = j.target]
          BY <2>1 DEF CommitContact, WritersInv, Base, CrmTypeOK
        <4> HIDE DEF j
        <4> QED
          BY <3>2, <4>1, <4>2, <4>3 DEF Idle, JobNames
      <3> QED
        BY <3>1, <3>2
    <2>2. ASSUME NEW w \in Workers, CrmWorkerStep(w), ~ CommitContact(w), NEW v \in Workers
          PROVE JobNames(job'[v], contact')
      <3>1. CASE WriteContact(w)
        <4>1. UNCHANGED contact
          BY <3>1 DEF WriteContact, OnlyJob, crmTables
        <4> QED
          BY <2>2, <4>1, <1>0, JobNamesStep
      <3>2. CASE ~ WriteContact(w)
        <4>1. UNCHANGED contact
          BY <2>2, <3>2 DEF CrmWorkerStep, Begin, MatchByEmail, MatchByPhone, MatchBy, MatchByName,
                            Route, FindCompany, InsertCompany, LoseContact, PickOwner, WriteRecord,
                            WriteDraft, RunFails, OnlyJob, crmTables
        <4> QED
          BY <2>2, <4>1, <1>0, JobNamesStep
      <3> QED
        BY <3>1, <3>2
    <2>3. ASSUME \E b \in Browsers : BrowserStep(b) PROVE UNCHANGED job
      BY <2>3 DEF BrowserStep, CheckTeam, DecideReply, DecisionFails, Elsewhere
    <2>4. CASE ProcessEnds
      BY <2>4, <1>1 DEF ProcessEnds
    <2>5. CASE SeedStep \/ UNCHANGED crmVars
      BY <2>5, <1>1 DEF SeedStep, crmVars
    <2> QED
      BY <1>1, <2>1, <2>2, <2>3, <2>4, <2>5 DEF CrmNext
  <1>3. \A e \in Enquiries : record'[e] # None =>
          record'[e].contact \in Contacts' /\ Names(contact'[record'[e].contact], used'[e])
    <2>1. ASSUME NEW e \in Enquiries, record'[e] = record[e], used'[e] = used[e], record[e] # None
          PROVE record'[e].contact \in Contacts' /\ Names(contact'[record'[e].contact], used'[e])
      <3>1. record[e].contact \in Contacts /\ Names(contact[record[e].contact], used[e])
        BY <2>1 DEF Identified
      <3> QED
        BY <2>1, <3>1, NamesStay DEF Contacts
    <2>2. ASSUME NEW w \in Workers, WriteRecord(w), NEW e \in Enquiries, record'[e] # None
          PROVE record'[e].contact \in Contacts' /\ Names(contact'[record'[e].contact], used'[e])
      <3> DEFINE j == job[w]
                 new == [contact |-> j.target, owner |-> j.owner, team |-> j.team]
      <3>1. j.enquiry \in Enquiries
        BY <2>2, <1>0, RecordBase DEF WritersInv
      <3>2. /\ record' = [record EXCEPT ![j.enquiry] = Upsert(record[j.enquiry], new)]
            /\ used' = [used EXCEPT ![j.enquiry] = IF record[j.enquiry] = None THEN j.fields ELSE @]
            /\ UNCHANGED contact
        BY <2>2 DEF WriteRecord
      <3>3. CASE e # j.enquiry
        BY <2>2, <3>2, <3>3, <2>1 DEF WritersInv, Base, CrmTypeOK
      <3>4. CASE e = j.enquiry /\ record[e] = None
        <4>1. j.target \in ContactIds /\ contact[j.target] # None /\ Names(contact[j.target], j.fields)
          BY <2>2 DEF WriteRecord, At, WritersInv, Base, CrmTypeOK, JobShape, Jobs, Identified, JobNames
        <4>2. record'[e].contact = j.target /\ used'[e] = j.fields
          BY <3>2, <3>4 DEF Upsert, WritersInv, Base, CrmTypeOK
        <4> QED
          BY <3>2, <4>1, <4>2 DEF Contacts
      <3>5. CASE e = j.enquiry /\ record[e] # None
        <4>1. record[e] \in Records
          BY <3>5 DEF WritersInv, Base, CrmTypeOK
        <4>2. record'[e].contact = record[e].contact
          BY <3>2, <3>5, <4>1 DEF Upsert, WritersInv, Base, CrmTypeOK, Records
        <4>3. used'[e] = used[e]
          BY <3>2, <3>5 DEF WritersInv, Base, CrmTypeOK
        <4>4. record[e].contact \in Contacts /\ Names(contact[record[e].contact], used[e])
          BY <3>5 DEF Identified
        <4> QED
          BY <3>2, <4>2, <4>3, <4>4 DEF Contacts
      <3> QED
        BY <3>3, <3>4, <3>5
    <2>3. CASE ~ \E w \in Workers : WriteRecord(w)
      <3>1. UNCHANGED <<record, used>>
        BY <2>3 DEF CrmNext, CrmWorkerStep, Begin, MatchByEmail, MatchByPhone, MatchBy, MatchByName,
                    Route, FindCompany, InsertCompany, WriteContact, LoseContact, CommitContact,
                    PickOwner, WriteDraft, RunFails, OnlyJob, crmTables, crmHist, crmVars,
                    BrowserStep, CheckTeam, DecideReply, DecisionFails, Elsewhere, SeedStep, ProcessEnds
      <3> QED
        BY <2>1, <3>1
    <2> QED
      BY <2>2, <2>3
  <1> QED
    BY <1>2, <1>3 DEF Identified

LEMMA IdentifiedInit == CrmInit => Identified
  BY DEF CrmInit, Identified, JobNames, Idle

\* The steps that neither pick an owner nor write a record.
LEMMA NoRecord ==
  ASSUME WritersInv, [CrmNext]_crmVars, ~ \E w \in Workers : PickOwner(w) \/ WriteRecord(w)
  PROVE  /\ UNCHANGED <<record, teams, used>>
         /\ \A v \in Workers : job'[v].step \in {"record", "draft"} => job'[v] = job[v]
         /\ ~ (\E w \in Workers : WriteContact(w) \/ CommitContact(w)) =>
               \A v \in Workers : job'[v].step \in {"commit", "owner"} => job'[v] = job[v]
  <1>1. UNCHANGED <<record, teams, used>>
    BY DEF CrmNext, CrmWorkerStep, Begin, MatchByEmail, MatchByPhone, MatchBy, MatchByName,
           Route, FindCompany, InsertCompany, WriteContact, LoseContact, CommitContact,
           PickOwner, WriteDraft, RunFails, OnlyJob, crmTables, crmHist, crmVars,
           BrowserStep, CheckTeam, DecideReply, DecisionFails, Elsewhere, SeedStep, ProcessEnds
  <1>2. ASSUME NEW w \in Workers, CrmWorkerStep(w)
        PROVE  \A v \in Workers :
                  /\ job'[v].step \in {"record", "draft"} => job'[v] = job[v]
                  /\ ~ (WriteContact(w) \/ CommitContact(w)) =>
                        (job'[v].step \in {"commit", "owner"} => job'[v] = job[v])
    <2>0. job[w] \in Jobs /\ Idle.step = "idle"
      BY DEF WritersInv, Base, CrmTypeOK, Idle
    <2> DEFINE Late == {"commit", "owner", "record", "draft"}
               Quiet(k) == k.step \notin Late
    <2>s. /\ \A s : s \notin Late => Quiet([job[w] EXCEPT !.step = s])
          /\ \A c : Quiet([job[w] EXCEPT !.step = "route", !.match = c])
          /\ \A t : Quiet([job[w] EXCEPT !.step = "company", !.team = t])
          /\ \A c : Quiet([job[w] EXCEPT !.step = "contact", !.company = c])
          /\ \A c, r : Quiet([job[w] EXCEPT !.step = "contact", !.company = c, !.newCompany = r])
          /\ Quiet(Idle)
      BY <2>0 DEF Jobs
    <2> DEFINE Becomes(k) == /\ job' = [job EXCEPT ![w] = k]
                             /\ k.step \notin {"record", "draft"}
                             /\ WriteContact(w) \/ CommitContact(w) \/ Quiet(k)
    <2>b. ASSUME NEW k, OnlyJob(w, k), Quiet(k) PROVE \E x : Becomes(x)
      <3>1. Becomes(k)
        BY <2>b DEF OnlyJob
      <3> HIDE DEF Becomes
      <3> QED
        BY <3>1
    <2>1. PICK k : Becomes(k)
      <3> HIDE DEF Becomes, Quiet
      <3>1. ASSUME NEW column, NEW s, s \notin Late, MatchBy(w, column, s) PROVE \E k : Becomes(k)
        <4>1. \/ OnlyJob(w, [job[w] EXCEPT !.step = s])
              \/ \E c : OnlyJob(w, [job[w] EXCEPT !.step = "route", !.match = c])
          BY <3>1 DEF MatchBy
        <4> QED
          BY <3>1, <4>1, <2>b, <2>s
      <3>2. CASE MatchByEmail(w) \/ MatchByPhone(w)
        <4>1. MatchBy(w, "email", "phone") \/ MatchBy(w, "phone", "name")
          BY <3>2 DEF MatchByEmail, MatchByPhone
        <4> HIDE DEF MatchBy
        <4> QED
          BY <3>1, <4>1
      <3>3. CASE MatchByName(w)
        <4>1. OnlyJob(w, [job[w] EXCEPT !.step = "route"]) \/ OnlyJob(w, Idle)
          BY <3>3 DEF MatchByName
        <4> QED
          BY <4>1, <2>b, <2>s
      <3>4. CASE (\E t \in Teams \cup {None} : Route(w, t))
        <4>1. \E t : OnlyJob(w, [job[w] EXCEPT !.step = "company", !.team = t])
          BY <3>4 DEF Route
        <4> QED
          BY <4>1, <2>b, <2>s
      <3>5. CASE FindCompany(w)
        <4>1. \/ OnlyJob(w, [job[w] EXCEPT !.step = "contact"])
              \/ OnlyJob(w, [job[w] EXCEPT !.step = "new_company"])
              \/ \E c : OnlyJob(w, [job[w] EXCEPT !.step = "contact", !.company = c])
          BY <3>5 DEF FindCompany
        <4> QED
          BY <4>1, <2>b, <2>s
      <3>6. CASE InsertCompany(w)
        <4>1. \/ OnlyJob(w, Idle)
              \/ \E c, r : OnlyJob(w, [job[w] EXCEPT !.step = "contact", !.company = c, !.newCompany = r])
          BY <3>6 DEF InsertCompany
        <4> QED
          BY <4>1, <2>b, <2>s
      <3>7. CASE WriteContact(w)
        <4> DEFINE k == [job[w] EXCEPT !.step = "commit", !.target = Target(w), !.row = RowFor(w)]
        <4>1. job' = [job EXCEPT ![w] = k]
          BY <3>7 DEF WriteContact, OnlyJob
        <4>2. k.step = "commit"
          BY <2>0 DEF Jobs
        <4> HIDE DEF k
        <4> QED
          BY <3>7, <4>1, <4>2 DEF Becomes
      <3>8. CASE LoseContact(w) \/ RunFails(w)
        BY <2>b, <2>s, <3>8 DEF LoseContact, RunFails
      <3>9. CASE CommitContact(w)
        <4> DEFINE k == [Idle EXCEPT !.step = "owner", !.enquiry = job[w].enquiry, !.fields = job[w].fields,
                                     !.team = job[w].team, !.target = job[w].target]
        <4>1. job' = [job EXCEPT ![w] = k]
          BY <3>9 DEF CommitContact
        <4>2. k.step = "owner"
          BY DEF Idle
        <4> HIDE DEF k
        <4> QED
          BY <3>9, <4>1, <4>2 DEF Becomes
      <3>10. ASSUME NEW e \in Enquiries, NEW f \in Offers[e], Begin(w, e, f) PROVE \E k : Becomes(k)
        <4> DEFINE k == [Idle EXCEPT !.step = "email", !.enquiry = e, !.fields = f]
        <4>1. job' = [job EXCEPT ![w] = k]
          BY <3>10 DEF Begin
        <4>2. k.step = "email"
          BY DEF Idle
        <4> HIDE DEF k
        <4> QED
          BY <4>1, <4>2 DEF Becomes, Quiet
      <3>11. CASE WriteDraft(w)
        BY <2>0, <3>11 DEF WriteDraft, Becomes, Quiet
      <3> QED
        BY <1>2, <3>2, <3>3, <3>4, <3>5, <3>6, <3>7, <3>8, <3>9, <3>10, <3>11 DEF CrmWorkerStep
    <2> QED
      BY <2>1 DEF WritersInv, Base, CrmTypeOK, Becomes
  <1>3. ASSUME ProcessEnds
        PROVE  \A v \in Workers : job'[v].step \notin {"commit", "owner", "record", "draft"}
    <2>1. Idle.step \notin {"commit", "owner", "record", "draft"}
      BY DEF Idle
    <2> QED
      BY <1>3, <2>1 DEF ProcessEnds
  <1>4. ASSUME SeedStep \/ (\E b \in Browsers : BrowserStep(b)) \/ UNCHANGED crmVars PROVE UNCHANGED job
    BY <1>4 DEF SeedStep, BrowserStep, CheckTeam, DecideReply, DecisionFails, Elsewhere, crmVars
  <1> QED
    BY <1>1, <1>2, <1>3, <1>4 DEF CrmNext

\* An address or a number is known of the contact.
Reachable(row) == row["email"] # None \/ row["phone"] # None

\* The run has a contact in its hands for the record.
Holding(w) == job[w].step \in {"owner", "record"}

\* A name attaches nobody: who is known by a name only is written once and
\* held by the run that wrote it or by the record it wrote, and no write
\* under way goes to such a contact.
Alone ==
    /\ \A w \in Workers : Writing(w) =>
          /\ ByNameOnly(job[w].fields) => ~ Reachable(job[w].row)
          /\ job[w].target \in Contacts => Reachable(contact[job[w].target])
    /\ \A w \in Workers : Holding(w) /\ ByNameOnly(job[w].fields) =>
          ~ Reachable(contact[job[w].target])
    /\ \A e \in Enquiries : record[e] # None /\ ByNameOnly(used[e]) =>
          ~ Reachable(contact[record[e].contact])
    /\ \A v, w \in Workers :
          v # w /\ Holding(v) /\ Holding(w) /\ ~ Reachable(contact[job[w].target]) =>
             job[v].target # job[w].target
    /\ \A w \in Workers : \A e \in Enquiries :
          Holding(w) /\ record[e] # None /\ ~ Reachable(contact[job[w].target]) =>
             record[e].contact # job[w].target
    /\ \A d, e \in Enquiries :
          d # e /\ record[d] # None /\ record[e] # None /\ ~ Reachable(contact[record[e].contact]) =>
             record[d].contact # record[e].contact

\* The contacts of runs and records are there.
LEMMA HeldAreContacts ==
  ASSUME WritersInv, Identified
  PROVE  /\ \A w \in Workers : Holding(w) => job[w].target \in Contacts
         /\ \A e \in Enquiries : record[e] # None => record[e].contact \in Contacts
  <1>1. ASSUME NEW w \in Workers, Holding(w) PROVE job[w].target \in Contacts
    <2>1. job[w] \in Jobs /\ job[w].target # None /\ contact[job[w].target] # None
      BY <1>1 DEF Holding, WritersInv, Base, CrmTypeOK, JobShape, Identified, JobNames
    <2> QED
      BY <2>1 DEF Jobs, Contacts
  <1> QED
    BY <1>1 DEF Identified

\* A run takes up a write.
LEMMA AloneWrite ==
  ASSUME WritersInv, Identified, Alone, NEW w \in Workers, WriteContact(w)
  PROVE  Alone'
  <1> DEFINE j == job[w]
             t == Target(w)
             r == RowFor(w)
  <1>1. /\ job' = [job EXCEPT ![w] = [j EXCEPT !.step = "commit", !.target = t, !.row = r]]
        /\ UNCHANGED <<contact, record, used>>
        /\ j.match = None => t \notin Contacts
        /\ j \in Jobs /\ JobNames(j, contact)
    BY DEF WriteContact, OnlyJob, crmTables, crmHist, WritersInv, Base, CrmTypeOK, Identified
  <1>2. t \in Contacts => Reachable(contact[t]) /\ ~ ByNameOnly(j.fields)
    <2> SUFFICES ASSUME t \in Contacts PROVE Reachable(contact[t]) /\ ~ ByNameOnly(j.fields)
      OBVIOUS
    <2>1. j.match # None /\ t = j.match
      BY <1>1 DEF Target
    <2>2. Names(contact[t], j.fields) /\ ~ ByNameOnly(j.fields)
      BY <1>1, <2>1 DEF JobNames
    <2> HIDE DEF t
    <2> QED
      BY <2>2 DEF Names, Identifiers, Reachable
  <1>3. ByNameOnly(j.fields) => ~ Reachable(r)
    <2>1. CASE j.match = None
      <3>1. r["email"] = j.fields["email"] /\ r["phone"] = j.fields["phone"]
        BY <1>1, <2>1 DEF RowFor, Jobs, Details, Columns
      <3> HIDE DEF r
      <3> QED
        BY <3>1 DEF ByNameOnly, Reachable
    <2>2. CASE j.match # None
      BY <1>1, <2>2 DEF JobNames
    <2> QED
      BY <2>1, <2>2
  <1>4. /\ job'[w].step = "commit" /\ job'[w].fields = j.fields
        /\ job'[w].target = t /\ job'[w].row = r
        /\ \A v \in Workers \ {w} : job'[v] = job[v]
    BY <1>1 DEF WritersInv, Base, CrmTypeOK, Jobs
  <1> HIDE DEF t, r
  <1>5. /\ Contacts' = Contacts
        /\ \A v \in Workers : Holding(v)' => v # w /\ Holding(v) /\ job'[v] = job[v]
        /\ \A v \in Workers \ {w} : Writing(v)' <=> Writing(v)
    BY <1>1, <1>4 DEF Contacts, Holding, Writing
  <1>6. \A v \in Workers : Writing(v)' =>
          /\ ByNameOnly(job'[v].fields) => ~ Reachable(job'[v].row)
          /\ job'[v].target \in Contacts' => Reachable(contact'[job'[v].target])
    BY <1>1, <1>2, <1>3, <1>4, <1>5 DEF Alone
  <1>7. \A v \in Workers : Holding(v)' /\ ByNameOnly(job'[v].fields) =>
          ~ Reachable(contact'[job'[v].target])
    BY <1>1, <1>5 DEF Alone
  <1>8. \A u, v \in Workers :
          u # v /\ Holding(u)' /\ Holding(v)' /\ ~ Reachable(contact'[job'[v].target]) =>
             job'[u].target # job'[v].target
    BY <1>1, <1>5 DEF Alone
  <1>9. \A v \in Workers : \A e \in Enquiries :
          Holding(v)' /\ record'[e] # None /\ ~ Reachable(contact'[job'[v].target]) =>
             record'[e].contact # job'[v].target
    BY <1>1, <1>5 DEF Alone
  <1> QED
    BY <1>1, <1>6, <1>7, <1>8, <1>9 DEF Alone

\* A commit writes a contact nobody holds yet, or one that can be reached.
LEMMA AloneCommit ==
  ASSUME WritersInv, Identified, Alone, NEW w \in Workers, CommitContact(w)
  PROVE  Alone'
  <1> DEFINE j == job[w]
             t == j.target
             r == j.row
  <1>1. /\ Writing(w) /\ t \in ContactIds /\ r \in ContactRows /\ r # None
        /\ contact' = [contact EXCEPT ![t] = r]
        /\ UNCHANGED <<record, used>>
    BY DEF CommitContact, At, Writing, WritersInv, Base, CrmTypeOK, JobShape, Jobs, crmHist
  <1>2. /\ job'[w].step = "owner" /\ job'[w].fields = j.fields
        /\ job'[w].target = t /\ job'[w].row = None
        /\ \A v \in Workers \ {w} : job'[v] = job[v]
    BY DEF CommitContact, Idle, WritersInv, Base, CrmTypeOK
  <1>3. t \in Contacts => Reachable(contact[t]) /\ Reachable(r)
    <2>1. t \in Contacts => Reachable(contact[t])
      BY <1>1 DEF Alone
    <2>2. t \in Contacts => \A column \in Columns : contact[t][column] # None => r[column] = contact[t][column]
      BY <1>1 DEF WritersInv, Locks
    <2> HIDE DEF t, r
    <2> QED
      BY <2>1, <2>2 DEF Reachable, Columns
  <1>4. ByNameOnly(j.fields) => ~ Reachable(r)
    BY <1>1 DEF Alone
  <1>5. \A v \in Workers \ {w} : Writing(v) => job[v].target # t
    BY <1>1 DEF WritersInv, Locks
  <1>6. \A v \in Workers : Holding(v) => job[v].target \in Contacts
    BY HeldAreContacts
  <1>7. \A e \in Enquiries : record[e] # None => record[e].contact \in Contacts
    BY HeldAreContacts
  <1> HIDE DEF t, r
  <1>8. /\ contact'[t] = r
        /\ \A c \in ContactIds \ {t} : contact'[c] = contact[c] /\ (c \in Contacts' <=> c \in Contacts)
        /\ Contacts \subseteq ContactIds
    BY <1>1 DEF WritersInv, Base, CrmTypeOK, Contacts
  \* Who cannot be reached is new, or as before.
  <1>9. \A c \in Contacts : Reachable(contact'[c]) <=> Reachable(contact[c])
    BY <1>3, <1>8
  <1>10. \A c \in Contacts : ~ Reachable(contact'[c]) => c # t
    BY <1>3, <1>8
  <1>11. \A v \in Workers \ {w} : (Holding(v)' <=> Holding(v)) /\ (Writing(v)' <=> Writing(v))
    BY <1>2 DEF Holding, Writing
  <1>12. ~ Writing(w)'
    BY <1>2 DEF Writing
  <1>13. \A v \in Workers : Writing(v)' =>
          /\ ByNameOnly(job'[v].fields) => ~ Reachable(job'[v].row)
          /\ job'[v].target \in Contacts' => Reachable(contact'[job'[v].target])
    <2> SUFFICES ASSUME NEW v \in Workers, Writing(v)'
                 PROVE  /\ ByNameOnly(job'[v].fields) => ~ Reachable(job'[v].row)
                        /\ job'[v].target \in Contacts' => Reachable(contact'[job'[v].target])
      OBVIOUS
    <2>1. v # w /\ Writing(v) /\ job'[v] = job[v] /\ job[v].target # t
      BY <1>2, <1>5, <1>11, <1>12
    <2>2. Contacts' \subseteq ContactIds
      BY DEF Contacts
    <2> QED
      BY <1>8, <2>1, <2>2 DEF Alone
  <1>14. \A v \in Workers : Holding(v)' /\ ByNameOnly(job'[v].fields) =>
          ~ Reachable(contact'[job'[v].target])
    <2> SUFFICES ASSUME NEW v \in Workers, Holding(v)', ByNameOnly(job'[v].fields)
                 PROVE  ~ Reachable(contact'[job'[v].target])
      OBVIOUS
    <2>1. CASE v = w
      BY <1>2, <1>4, <1>8, <2>1
    <2>2. CASE v # w
      BY <1>2, <1>6, <1>9, <1>11, <2>2 DEF Alone
    <2> QED
      BY <2>1, <2>2
  <1>15. \A e \in Enquiries : record'[e] # None /\ ByNameOnly(used'[e]) =>
          ~ Reachable(contact'[record'[e].contact])
    BY <1>1, <1>7, <1>9 DEF Alone
  <1>16. \A u, v \in Workers :
          u # v /\ Holding(u)' /\ Holding(v)' /\ ~ Reachable(contact'[job'[v].target]) =>
             job'[u].target # job'[v].target
    <2> SUFFICES ASSUME NEW u \in Workers, NEW v \in Workers, u # v, Holding(u)', Holding(v)',
                        ~ Reachable(contact'[job'[v].target]), job'[u].target = job'[v].target
                 PROVE  FALSE
      OBVIOUS
    <2>1. CASE u # w /\ v # w
      BY <1>2, <1>6, <1>9, <1>11, <2>1 DEF Alone
    <2>2. CASE u = w
      BY <1>2, <1>6, <1>10, <1>11, <2>2
    <2>3. CASE v = w
      BY <1>2, <1>6, <1>10, <1>11, <2>3
    <2> QED
      BY <2>1, <2>2, <2>3
  <1>17. \A v \in Workers : \A e \in Enquiries :
          Holding(v)' /\ record'[e] # None /\ ~ Reachable(contact'[job'[v].target]) =>
             record'[e].contact # job'[v].target
    <2> SUFFICES ASSUME NEW v \in Workers, NEW e \in Enquiries, Holding(v)', record'[e] # None,
                        ~ Reachable(contact'[job'[v].target]), record'[e].contact = job'[v].target
                 PROVE  FALSE
      OBVIOUS
    <2>1. CASE v = w
      BY <1>1, <1>2, <1>7, <1>10, <2>1
    <2>2. CASE v # w
      BY <1>1, <1>2, <1>6, <1>9, <1>11, <2>2 DEF Alone
    <2> QED
      BY <2>1, <2>2
  <1>18. \A d, e \in Enquiries :
          d # e /\ record'[d] # None /\ record'[e] # None /\ ~ Reachable(contact'[record'[e].contact]) =>
             record'[d].contact # record'[e].contact
    BY <1>1, <1>7, <1>9 DEF Alone
  <1> QED
    BY <1>13, <1>14, <1>15, <1>16, <1>17, <1>18 DEF Alone

\* The steps after which whoever writes or holds a contact did before.
LEMMA AloneKept ==
  ASSUME Alone, UNCHANGED <<contact, record, used>>,
         \A v \in Workers : Writing(v)' => job'[v] = job[v],
         \A v \in Workers : Holding(v)' =>
            Holding(v) /\ job'[v].target = job[v].target /\ job'[v].fields = job[v].fields
  PROVE  Alone'
  <1>1. Contacts' = Contacts
    BY DEF Contacts
  <1>2. \A v \in Workers : Writing(v)' =>
          /\ ByNameOnly(job'[v].fields) => ~ Reachable(job'[v].row)
          /\ job'[v].target \in Contacts' => Reachable(contact'[job'[v].target])
    BY <1>1 DEF Alone, Writing
  <1>3. \A v \in Workers : Holding(v)' /\ ByNameOnly(job'[v].fields) =>
          ~ Reachable(contact'[job'[v].target])
    BY DEF Alone
  <1>4. \A u, v \in Workers :
          u # v /\ Holding(u)' /\ Holding(v)' /\ ~ Reachable(contact'[job'[v].target]) =>
             job'[u].target # job'[v].target
    BY DEF Alone
  <1>5. \A v \in Workers : \A e \in Enquiries :
          Holding(v)' /\ record'[e] # None /\ ~ Reachable(contact'[job'[v].target]) =>
             record'[e].contact # job'[v].target
    BY DEF Alone
  <1> QED
    BY <1>2, <1>3, <1>4, <1>5 DEF Alone

\* The contact a run held alone is its record's.
LEMMA AloneRecord ==
  ASSUME WritersInv, Identified, Alone, NEW w \in Workers, WriteRecord(w), StaffTypeOK'
  PROVE  Alone'
  <1> DEFINE j == job[w]
             e == j.enquiry
             t == j.target
             new == [contact |-> t, owner |-> j.owner, team |-> j.team]
  <1>1. e \in Enquiries /\ new \in Records /\ Holding(w)
    BY RecordBase DEF WriteRecord, At, Holding, WritersInv
  <1>2. /\ record' = [record EXCEPT ![e] = Upsert(record[e], new)]
        /\ used' = [used EXCEPT ![e] = IF record[e] = None THEN j.fields ELSE @]
        /\ UNCHANGED contact
    BY DEF WriteRecord
  <1>3. job'[w].step = "draft" /\ job'[w].row = None /\ \A v \in Workers \ {w} : job'[v] = job[v]
    BY DEF WriteRecord, WritersInv, Base, CrmTypeOK, Idle
  <1>4. record[e] = None => record'[e].contact = t /\ used'[e] = j.fields
    BY <1>1, <1>2 DEF Upsert, WritersInv, Base, CrmTypeOK
  <1>5. record[e] # None => record'[e].contact = record[e].contact /\ used'[e] = used[e]
    <2> SUFFICES ASSUME record[e] # None
                 PROVE  record'[e].contact = record[e].contact /\ used'[e] = used[e]
      OBVIOUS
    <2>1. record[e] \in Records
      BY <1>1 DEF WritersInv, Base, CrmTypeOK
    <2>2. record'[e].contact = record[e].contact
      BY <1>1, <1>2, <2>1 DEF Upsert, WritersInv, Base, CrmTypeOK, Records
    <2>3. used'[e] = used[e]
      BY <1>1, <1>2 DEF WritersInv, Base, CrmTypeOK
    <2> QED
      BY <2>2, <2>3
  <1>6. \A d \in Enquiries \ {e} : record'[d] = record[d] /\ used'[d] = used[d]
    BY <1>2 DEF WritersInv, Base, CrmTypeOK
  <1>7. \A v \in Workers : Writing(v)' => v # w /\ Writing(v) /\ job'[v] = job[v]
    BY <1>3 DEF Writing
  <1>8. \A v \in Workers : Holding(v)' => v # w /\ Holding(v) /\ job'[v] = job[v]
    BY <1>3 DEF Holding
  <1>c. Contacts' = Contacts
    BY <1>2 DEF Contacts
  <1> HIDE DEF e, t, new
  <1>9. \A v \in Workers : Writing(v)' =>
          /\ ByNameOnly(job'[v].fields) => ~ Reachable(job'[v].row)
          /\ job'[v].target \in Contacts' => Reachable(contact'[job'[v].target])
    BY <1>2, <1>7, <1>c DEF Alone
  <1>10. \A v \in Workers : Holding(v)' /\ ByNameOnly(job'[v].fields) =>
          ~ Reachable(contact'[job'[v].target])
    BY <1>2, <1>8 DEF Alone
  <1>11. \A u, v \in Workers :
          u # v /\ Holding(u)' /\ Holding(v)' /\ ~ Reachable(contact'[job'[v].target]) =>
             job'[u].target # job'[v].target
    BY <1>2, <1>8 DEF Alone
  <1>12. \A d \in Enquiries : record'[d] # None /\ ByNameOnly(used'[d]) =>
          ~ Reachable(contact'[record'[d].contact])
    <2>1. record[e] = None /\ ByNameOnly(j.fields) => ~ Reachable(contact[t])
      BY <1>1 DEF Alone, t
    <2>2. \A d \in Enquiries : record[d] # None /\ ByNameOnly(used[d]) =>
            ~ Reachable(contact[record[d].contact])
      BY DEF Alone
    <2> QED
      BY <1>1, <1>2, <1>4, <1>5, <1>6, <2>1, <2>2
  <1>13. \A v \in Workers : \A d \in Enquiries :
          Holding(v)' /\ record'[d] # None /\ ~ Reachable(contact'[job'[v].target]) =>
             record'[d].contact # job'[v].target
    <2>1. \A v \in Workers \ {w} : Holding(v) /\ ~ Reachable(contact[job[v].target]) => t # job[v].target
      BY <1>1 DEF Alone, t
    <2>2. \A v \in Workers : \A d \in Enquiries :
            Holding(v) /\ record[d] # None /\ ~ Reachable(contact[job[v].target]) =>
               record[d].contact # job[v].target
      BY DEF Alone
    <2> QED
      BY <1>2, <1>4, <1>5, <1>6, <1>8, <2>1, <2>2
  <1>14. \A c, d \in Enquiries :
          c # d /\ record'[c] # None /\ record'[d] # None /\ ~ Reachable(contact'[record'[d].contact]) =>
             record'[c].contact # record'[d].contact
    <2>1. \A d \in Enquiries : record[d] # None /\ ~ Reachable(contact[t]) => record[d].contact # t
      BY <1>1 DEF Alone, t
    <2>2. \A c, d \in Enquiries :
            c # d /\ record[c] # None /\ record[d] # None /\ ~ Reachable(contact[record[d].contact]) =>
               record[c].contact # record[d].contact
      BY DEF Alone
    <2> SUFFICES ASSUME NEW c \in Enquiries, NEW d \in Enquiries, c # d, record'[c] # None,
                        record'[d] # None, ~ Reachable(contact'[record'[d].contact]),
                        record'[c].contact = record'[d].contact
                 PROVE  FALSE
      OBVIOUS
    <2>3. CASE record[e] # None
      BY <1>2, <1>5, <1>6, <2>2, <2>3
    <2>4. CASE record[e] = None /\ c # e /\ d # e
      BY <1>2, <1>6, <2>2, <2>4
    <2>5. CASE record[e] = None /\ (c = e \/ d = e)
      BY <1>2, <1>4, <1>6, <2>1, <2>5
    <2> QED
      BY <2>3, <2>4, <2>5
  <1> QED
    BY <1>9, <1>10, <1>11, <1>12, <1>13, <1>14 DEF Alone

LEMMA AloneStep ==
  ASSUME WritersInv, Identified, Alone, [CrmNext]_crmVars
  PROVE  Alone'
  <1>0. StaffTypeOK' /\ WritersInv'
    BY StaffSimulates, StaffTypeStep, BaseStep, MatchedStep, LocksStep DEF WritersInv, Base, CrmTypeOK
  <1>1. ASSUME NEW w \in Workers, PickOwner(w) PROVE Alone'
    <2>1. /\ job[w] \in Jobs /\ job[w].step = "owner" /\ UNCHANGED <<contact, record, used>>
          /\ \E u : job' = [job EXCEPT ![w] = [job[w] EXCEPT !.step = "record", !.owner = u]]
      BY <1>1 DEF PickOwner, At, OnlyJob, crmTables, crmHist, WritersInv, Base, CrmTypeOK
    <2>2. /\ job'[w].target = job[w].target /\ job'[w].fields = job[w].fields
          /\ job'[w].row = job[w].row /\ \A v \in Workers \ {w} : job'[v] = job[v]
      BY <2>1 DEF WritersInv, Base, CrmTypeOK, Jobs
    <2>3. job[w].row = None
      BY <2>1 DEF WritersInv, Base, JobShape
    <2>4. \A v \in Workers : Writing(v)' => job'[v] = job[v]
      BY <2>2, <2>3 DEF Writing
    <2>5. \A v \in Workers : Holding(v)' =>
            Holding(v) /\ job'[v].target = job[v].target /\ job'[v].fields = job[v].fields
      BY <2>1, <2>2 DEF Holding
    <2> QED
      BY <2>1, <2>4, <2>5, AloneKept
  <1>2. CASE ~ \E w \in Workers : \/ WriteContact(w) \/ CommitContact(w)
                                 \/ PickOwner(w) \/ WriteRecord(w)
    <2>1. /\ UNCHANGED <<contact, record, used>>
          /\ \A v \in Workers : job'[v].step \in {"commit", "owner", "record"} => job'[v] = job[v]
      BY <1>2, Footprint, NoRecord DEF WritersInv
    <2>2. \A v \in Workers : Writing(v)' => job'[v].step = "commit"
      BY <1>0 DEF WritersInv, Base, JobShape, Writing
    <2>3. \A v \in Workers : Holding(v)' => job'[v] = job[v] /\ Holding(v)
      BY <2>1 DEF Holding
    <2> QED
      BY <2>1, <2>2, <2>3, AloneKept
  <1> QED
    BY <1>0, <1>1, <1>2, AloneWrite, AloneCommit, AloneRecord

LEMMA AloneInit == CrmInit => Alone
  BY DEF CrmInit, Alone, Idle, Writing, Holding

(***************************************************************************)
(* Whoever else writes contacts, and however often the enquiry is run      *)
(* again, its record stays with a contact that has the address or the      *)
(* number it was created by; and a contact known by a name only, as an     *)
(* enquiry that gave nothing else leaves it, is no other enquiry's.        *)
(***************************************************************************)
THEOREM RecordsNameSenders == CrmSpec => []RecordNamesItsSender
<1> DEFINE Inv == WritersInv /\ Identified /\ Alone
<1>1. CrmInit => Inv
  BY BaseInit, MatchedInit, LocksInit, IdentifiedInit, AloneInit DEF WritersInv
<1>2. Inv /\ [CrmNext]_crmVars => Inv'
  BY BaseStep, MatchedStep, LocksStep, IdentifiedStep, AloneStep DEF WritersInv
<1>3. Inv => RecordNamesItsSender
  BY DEF Identified, Alone, RecordNamesItsSender
<1> HIDE DEF Inv
<1> QED
  BY <1>1, <1>2, <1>3, PTL DEF CrmSpec

-----------------------------------------------------------------------------
(* Owners and reviewers.                                                   *)

TeamOf(u) == Roster[user[u]].team

\* Nobody who serves, owns or decided is taken away or becomes another.
LEMMA UsersStay ==
  ASSUME StaffTypeOK, ReferencesHold, [StaffNext]_staffVars
  PROVE  /\ boot = "up" => user' = user
         /\ \A u \in owners \cup approvers : u \in Rows /\ u \in Rows' /\ user'[u] = user[u]
         /\ owners \subseteq owners' /\ approvers \subseteq approvers'
         /\ boot = "up" /\ boot' # "up" => boot' = "down"
  <1> USE DEF ReferencesHold, Referenced, Rows, table, process, pointers
  <1>1. ASSUME NEW u \in UserIds, InsertUser(u)
        PROVE /\ boot # "up" /\ UNCHANGED pointers
              /\ \A v \in Rows : v \in Rows' /\ user'[v] = user[v]
    BY <1>1, PeopleAreNumbered DEF InsertUser, StaffTypeOK
  <1>2. ASSUME DeleteDuplicates
        PROVE /\ boot # "up" /\ UNCHANGED pointers
              /\ \A v \in owners \cup approvers : v \in Rows' /\ user'[v] = user[v]
    BY <1>2 DEF DeleteDuplicates
  <1>3. ASSUME Start \/ Stop \/ \E b \in Browsers, u \in UserIds : SignIn(b, u)
        PROVE UNCHANGED <<user, pointers>> /\ boot' \in {boot, "down", "users", "dedupe"}
              /\ (boot = "up" => boot' \in {"up", "down"})
    BY <1>3 DEF Start, Stop, SignIn
  <1>4. ASSUME \/ \E u \in UserIds : Own(u)
               \/ \E b \in Browsers : Approve(b) \/ Resolve(b),
               UNCHANGED <<table, process, session>>
        PROVE UNCHANGED <<user, boot>> /\ owners \subseteq owners' /\ approvers \subseteq approvers'
    BY <1>4 DEF Own, Approve, Resolve
  <1>5. ASSUME UNCHANGED staffVars PROVE UNCHANGED <<user, boot, pointers>>
    BY <1>5 DEF staffVars
  <1> QED
    BY <1>1, <1>2, <1>3, <1>4, <1>5 DEF StaffNext

\* Whoever a run picked is of its team, and a record's team is one it has had.
Owned ==
    /\ ReferencesHold
    /\ \A w \in Workers : job[w].step = "record" /\ job[w].owner # None =>
          job[w].owner \in Rows /\ TeamOf(job[w].owner) = job[w].team
    /\ \A e \in Enquiries : record[e] # None => record[e].team \in teams[e]
    /\ \A e \in Enquiries : record[e] # None /\ record[e].owner # None => record[e].owner \in owners
    /\ OwnerIsOfTheTeam

LEMMA OwnedStep ==
  ASSUME WritersInv, Owned, [CrmNext]_crmVars
  PROVE  Owned'
  <1>1. StaffTypeOK /\ [StaffNext]_staffVars
    BY StaffSimulates DEF WritersInv, Base, CrmTypeOK
  <1>2. ReferencesHold /\ ReferencesHold'
    BY <1>1, ReferencesStep DEF Owned
  <1>3. /\ boot = "up" => user' = user
        /\ \A u \in owners \cup approvers : u \in Rows /\ u \in Rows' /\ user'[u] = user[u]
        /\ owners \subseteq owners' /\ approvers \subseteq approvers'
    BY <1>1, <1>2, UsersStay
  <1>4. \A e \in Enquiries : record'[e] = record[e] /\ teams'[e] = teams[e] /\ record'[e] # None =>
          /\ record'[e].team \in teams'[e]
          /\ record'[e].owner # None =>
                /\ record'[e].owner \in owners'
                /\ Roster[user'[record'[e].owner]].team \in teams'[e]
    BY <1>3 DEF Owned, OwnerIsOfTheTeam
  <1>5. \A v \in Workers : job'[v] = job[v] /\ job'[v].step = "record" /\ job'[v].owner # None =>
          job'[v].owner \in Rows' /\ Roster[user'[job'[v].owner]].team = job'[v].team
    <2>1. \A v \in Workers : job[v].step = "record" => boot = "up"
      BY DEF WritersInv, Base, Idle
    <2>2. boot = "up" => Rows' = Rows /\ user' = user
      BY <1>3 DEF Rows
    <2> QED
      BY <2>1, <2>2 DEF Owned, TeamOf
  <1>6. CASE ~ \E w \in Workers : PickOwner(w) \/ WriteRecord(w)
    <2>1. /\ UNCHANGED <<record, teams>>
          /\ \A v \in Workers : job'[v].step = "record" => job'[v] = job[v]
      BY <1>6, NoRecord
    <2> QED
      BY <2>1, <1>2, <1>4, <1>5 DEF Owned, OwnerIsOfTheTeam, TeamOf
  <1>7. ASSUME NEW w \in Workers, PickOwner(w) PROVE Owned'
    <2> DEFINE us == Colleagues(job[w].team)
               u == IF us = {} THEN None ELSE LeastLoaded(us)
    <2>1. /\ job' = [job EXCEPT ![w] = [job[w] EXCEPT !.step = "record", !.owner = u]]
          /\ UNCHANGED <<user, record, teams>>
      BY <1>7 DEF PickOwner, OnlyJob, staffVars, table, crmTables, crmHist
    <2>2. us \subseteq Rows /\ \A v \in us : TeamOf(v) = job[w].team
      BY DEF Colleagues, TeamOf
    <2> HIDE DEF us
    <2>3. u # None => u \in Rows /\ TeamOf(u) = job[w].team
      BY <2>2, LeastLoadedIsOne
    <2> HIDE DEF u
    <2>4. job'[w].owner = u /\ job'[w].team = job[w].team /\ \A v \in Workers \ {w} : job'[v] = job[v]
      BY <2>1 DEF WritersInv, Base, CrmTypeOK, Jobs
    <2>5. \A v \in Workers : job'[v].step = "record" /\ job'[v].owner # None =>
            job'[v].owner \in Rows' /\ Roster[user'[job'[v].owner]].team = job'[v].team
      BY <2>1, <2>3, <2>4, <1>5 DEF TeamOf, Rows
    <2>6. \A e \in Enquiries : record'[e] = record[e] /\ teams'[e] = teams[e]
      BY <2>1
    <2> HIDE DEF us
    <2> QED
      BY <2>5, <2>6, <1>2, <1>4 DEF Owned, OwnerIsOfTheTeam, TeamOf
  <1>8. ASSUME NEW w \in Workers, WriteRecord(w) PROVE Owned'
    <2> DEFINE j == job[w]
               e == j.enquiry
               new == [contact |-> j.target, owner |-> j.owner, team |-> j.team]
               row == Upsert(record[e], new)
    <2>0. StaffTypeOK'
      BY <1>1, StaffTypeStep
    <2>1. e \in Enquiries /\ new \in Records
      BY <1>8, <2>0, RecordBase DEF WritersInv
    <2>2. /\ record' = [record EXCEPT ![e] = row]
          /\ teams' = [teams EXCEPT ![e] = @ \cup {row.team}]
          /\ IF row.owner = None THEN UNCHANGED pointers ELSE Own(row.owner)
          /\ job' = [job EXCEPT ![w] = [Idle EXCEPT !.step = "draft", !.enquiry = e]]
          /\ boot = "up" /\ j.step = "record"
      BY <1>8 DEF WriteRecord, At
    <2>3. record[e] \in Records \cup {None}
      BY <2>1 DEF WritersInv, Base, CrmTypeOK
    <2>4. row.owner # None => row.owner \in owners'
      BY <2>2 DEF Own
    <2>5. /\ record[e] = None => row = new
          /\ record[e] # None => \/ row.owner = new.owner /\ row.team = new.team
                                \/ row.owner = record[e].owner
      <3>1. CASE record[e] = None
        BY <3>1 DEF Upsert
      <3>2. CASE record[e] # None
        BY <3>2, <2>3 DEF Upsert, Records
      <3> QED
        BY <3>1, <3>2
    <2>6. row.owner = j.owner /\ row.team = j.team /\ row.owner # None =>
            Roster[user'[row.owner]].team = row.team
      BY <1>3, <2>2 DEF Owned, TeamOf
    <2>7. record[e] # None /\ row.owner = record[e].owner /\ row.owner # None =>
            Roster[user'[row.owner]].team \in teams[e]
      BY <1>3, <2>1 DEF Owned, OwnerIsOfTheTeam
    <2>8. \A v \in Workers : job'[v].step = "record" => job'[v] = job[v]
      BY <2>2 DEF WritersInv, Base, CrmTypeOK, Idle
    <2>n. new.owner = j.owner /\ new.team = j.team
      OBVIOUS
    <2> HIDE DEF row, new, e, j
    <2>9. /\ record'[e] = row /\ teams'[e] = teams[e] \cup {row.team}
          /\ \A d \in Enquiries \ {e} : record'[d] = record[d] /\ teams'[d] = teams[d]
      BY <2>1, <2>2 DEF WritersInv, Base, CrmTypeOK
    <2>10. row.owner # None => Roster[user'[row.owner]].team \in teams'[e]
      BY <2>5, <2>6, <2>7, <2>9, <2>n
    <2>11. \A d \in Enquiries : record'[d] # None =>
             /\ record'[d].team \in teams'[d]
             /\ record'[d].owner # None =>
                   /\ record'[d].owner \in owners'
                   /\ Roster[user'[record'[d].owner]].team \in teams'[d]
      BY <1>4, <2>4, <2>9, <2>10
    <2> QED
      BY <2>8, <2>11, <1>2, <1>5 DEF Owned, OwnerIsOfTheTeam, TeamOf
  <1> QED
    BY <1>6, <1>7, <1>8

LEMMA OwnedInit == CrmInit => Owned
  BY DEF CrmInit, StaffInit, Owned, Idle, ReferencesHold, Referenced, OwnerIsOfTheTeam

(***************************************************************************)
(* A record belongs to one of a team it has had, however often it is       *)
(* written, through every restart and every DELETE of Seed.                *)
(***************************************************************************)
THEOREM OwnersAreOfTheTeam == CrmSpec => []OwnerIsOfTheTeam
<1>1. CrmInit => WritersInv /\ Owned
  BY BaseInit, MatchedInit, LocksInit, OwnedInit DEF WritersInv
<1>2. WritersInv /\ Owned /\ [CrmNext]_crmVars => (WritersInv /\ Owned)'
  BY BaseStep, MatchedStep, LocksStep, OwnedStep DEF WritersInv
<1>3. Owned => OwnerIsOfTheTeam
  BY DEF Owned
<1> QED
  BY <1>1, <1>2, <1>3, PTL DEF CrmSpec

\* With these users, this one may decide on a record that has had the teams.
MayDecide(rows, u, ts) == Roster[rows[u]].role = "ops_admin" \/ Roster[rows[u]].team \in ts

\* A request that has checked the team, and whoever has decided, is of a team
\* the record has had.
Decided ==
    /\ \A e \in Enquiries : draft[e] # "none" => record[e] # None
    /\ \A w \in Workers : job[w].step = "draft" => record[job[w].enquiry] # None
    /\ \A b \in Browsers : checked[b] # None =>
          /\ boot = "up" /\ session[b] \in Rows /\ record[checked[b]] # None
          /\ MayDecide(user, session[b], teams[checked[b]])
    /\ \A e \in Enquiries : decider[e] # None =>
          /\ decider[e] \in approvers /\ record[e] # None
          /\ MayDecide(user, decider[e], teams[e])

LEMMA DecidedStep ==
  ASSUME WritersInv, Owned, Decided, [CrmNext]_crmVars
  PROVE  Decided'
  <1>1. StaffTypeOK /\ StaffTypeOK' /\ [StaffNext]_staffVars
    BY StaffSimulates, StaffTypeStep DEF WritersInv, Base, CrmTypeOK
  <1>2. /\ boot = "up" => user' = user
        /\ \A u \in approvers : u \in Rows /\ user'[u] = user[u]
        /\ approvers \subseteq approvers'
    BY <1>1, UsersStay DEF Owned
  <1>3. \A u, t : user'[u] = user[u] => (MayDecide(user', u, t) <=> MayDecide(user, u, t))
    BY DEF MayDecide
  <1>t. /\ checked \in [Browsers -> Enquiries \cup {None}] /\ None \notin Enquiries
        /\ \A w \in Workers : job[w].step # "idle" => boot = "up" /\ job[w].enquiry \in Enquiries
    BY CrmAssumption, IdleType DEF WritersInv, Base, CrmTypeOK, JobShape, Jobs, Idle
  \* What a step leaves alone.
  <1>4. \A e \in Enquiries : UNCHANGED <<record[e], teams[e], decider[e]>> /\ decider'[e] # None =>
          /\ decider'[e] \in approvers' /\ record'[e] # None
          /\ MayDecide(user', decider'[e], teams'[e])
    BY <1>2, <1>3 DEF Decided
  <1>5. ASSUME boot = "up", NEW b \in Browsers, checked[b] # None, checked'[b] = checked[b],
               session'[b] = session[b], record'[checked[b]] = record[checked[b]],
               teams'[checked[b]] = teams[checked[b]]
        PROVE /\ session'[b] \in Rows' /\ record'[checked'[b]] # None
              /\ MayDecide(user', session'[b], teams'[checked'[b]])
    <2>1. user' = user /\ Rows' = Rows
      BY <1>2, <1>5 DEF Rows
    <2> QED
      BY <2>1, <1>5 DEF Decided
  <1>6. ASSUME NEW w \in Workers, WriteRecord(w) PROVE Decided'
    <2> DEFINE e == job[w].enquiry
    <2>1. /\ boot = "up" /\ boot' = "up" /\ e \in Enquiries
          /\ teams[e] \subseteq teams'[e]
          /\ UNCHANGED <<draft, session, checked, decider>>
          /\ \A d \in Enquiries \ {e} : record'[d] = record[d] /\ teams'[d] = teams[d]
      BY <1>6, <1>t DEF WriteRecord, At, process, WritersInv, Base, CrmTypeOK
    <2>2. record'[e] # None
      <3>1. /\ record'[e] = Upsert(record[e], [contact |-> job[w].target, owner |-> job[w].owner,
                                               team |-> job[w].team])
            /\ [contact |-> job[w].target, owner |-> job[w].owner, team |-> job[w].team] \in Records
        BY <1>6, <1>1, <2>1, RecordBase DEF WriteRecord, WritersInv, Base, CrmTypeOK
      <3>2. record[e] \in Records \cup {None}
        BY <2>1 DEF WritersInv, Base, CrmTypeOK
      <3>3. record'[e] \in Records
        BY <3>1, <3>2 DEF Upsert, Records
      <3> QED
        BY <3>3, CrmAssumption
    <2>3. \A u : MayDecide(user, u, teams[e]) /\ user'[u] = user[u] => MayDecide(user', u, teams'[e])
      BY <2>1 DEF MayDecide
    <2>5. \A v \in Workers : job'[v].step = "draft" =>
             v = w \/ job'[v] = job[v]
      BY <1>6 DEF WriteRecord, WritersInv, Base, CrmTypeOK
    <2>6. job'[w].enquiry = e
      BY <1>6 DEF WriteRecord, WritersInv, Base, CrmTypeOK, Idle
    <2> HIDE DEF e
    <2>7. \A d \in Enquiries : draft'[d] # "none" => record'[d] # None
      BY <2>1, <2>2 DEF Decided
    <2>8. \A v \in Workers : job'[v].step = "draft" => record'[job'[v].enquiry] # None
      <3> SUFFICES ASSUME NEW v \in Workers, job'[v].step = "draft"
                   PROVE record'[job'[v].enquiry] # None
        OBVIOUS
      <3>1. CASE v = w
        BY <3>1, <2>2, <2>6
      <3>2. CASE v # w
        <4>1. job'[v] = job[v]
          BY <3>2, <2>5
        <4>2. job[v].enquiry \in Enquiries /\ record[job[v].enquiry] # None
          BY <4>1, <1>t DEF Decided
        <4> QED
          BY <4>1, <4>2, <2>1, <2>2
      <3> QED
        BY <3>1, <3>2
    <2>9. \A b \in Browsers : checked'[b] # None =>
             /\ boot' = "up" /\ session'[b] \in Rows' /\ record'[checked'[b]] # None
             /\ MayDecide(user', session'[b], teams'[checked'[b]])
      <3> SUFFICES ASSUME NEW b \in Browsers, checked'[b] # None
                   PROVE /\ boot' = "up" /\ session'[b] \in Rows' /\ record'[checked'[b]] # None
                         /\ MayDecide(user', session'[b], teams'[checked'[b]])
        OBVIOUS
      <3>1. checked[b] \in Enquiries /\ checked'[b] = checked[b] /\ session'[b] = session[b]
        BY <2>1, <1>t
      <3>2. CASE checked[b] # e
        BY <2>1, <3>1, <3>2, <1>5, <1>t
      <3>3. CASE checked[b] = e
        <4>1. session[b] \in Rows /\ MayDecide(user, session[b], teams[e])
          BY <3>1, <3>3, <1>t DEF Decided
        <4> QED
          BY <2>1, <2>2, <2>3, <3>1, <3>3, <4>1, <1>2 DEF Rows
      <3> QED
        BY <3>2, <3>3
    <2>10. \A d \in Enquiries : decider'[d] # None =>
             /\ decider'[d] \in approvers' /\ record'[d] # None
             /\ MayDecide(user', decider'[d], teams'[d])
      <3> SUFFICES ASSUME NEW d \in Enquiries, decider'[d] # None
                   PROVE /\ decider'[d] \in approvers' /\ record'[d] # None
                         /\ MayDecide(user', decider'[d], teams'[d])
        OBVIOUS
      <3>1. CASE d # e
        BY <3>1, <2>1, <1>4
      <3>2. CASE d = e
        BY <3>2, <2>1, <2>2, <2>3, <1>2 DEF Decided
      <3> QED
        BY <3>1, <3>2
    <2> QED
      BY <2>7, <2>8, <2>9, <2>10 DEF Decided
  <1>7. CASE /\ ~ \E w \in Workers : WriteRecord(w)
             /\ \/ \E w \in Workers : CrmWorkerStep(w)
                \/ ProcessEnds \/ SeedStep \/ UNCHANGED crmVars
    <2>1. UNCHANGED <<record, teams, decider>>
      BY <1>7 DEF CrmWorkerStep, Begin, MatchByEmail, MatchByPhone, MatchBy, MatchByName,
             Route, FindCompany, InsertCompany, WriteContact, LoseContact, CommitContact,
             PickOwner, WriteDraft, RunFails, OnlyJob, crmTables, crmHist, crmVars, SeedStep, ProcessEnds
    <2>2. \A w \in Workers : job'[w].step = "draft" => job'[w] = job[w]
      <3>1. ASSUME NEW w \in Workers, PickOwner(w) PROVE \A v \in Workers \ {w} : job'[v] = job[v]
        BY <3>1 DEF PickOwner, OnlyJob, WritersInv, Base, CrmTypeOK
      <3>2. ASSUME NEW w \in Workers, PickOwner(w) PROVE job'[w].step # "draft"
        BY <3>2 DEF PickOwner, OnlyJob, WritersInv, Base, CrmTypeOK, Jobs
      <3> QED
        BY <1>7, <3>1, <3>2, NoRecord
    <2>3. \A e \in Enquiries : draft'[e] # "none" => record'[e] # None
      <3>1. ASSUME NEW w \in Workers, WriteDraft(w)
            PROVE \A e \in Enquiries : draft'[e] # "none" => draft[e] # "none" \/ e = job[w].enquiry
        BY <3>1 DEF WriteDraft, WritersInv, Base, CrmTypeOK
      <3>2. ASSUME NEW w \in Workers, WriteDraft(w) PROVE record[job[w].enquiry] # None
        BY <3>2 DEF WriteDraft, At, Decided
      <3>3. CASE ~ \E w \in Workers : WriteDraft(w)
        <4>1. UNCHANGED draft
          BY <1>7, <3>3 DEF CrmWorkerStep, Begin, MatchByEmail, MatchByPhone, MatchBy, MatchByName,
             Route, FindCompany, InsertCompany, WriteContact, LoseContact, CommitContact,
             PickOwner, RunFails, OnlyJob, crmTables, crmVars, SeedStep, ProcessEnds
        <4> QED
          BY <2>1, <4>1 DEF Decided
      <3> QED
        BY <2>1, <3>1, <3>2, <3>3 DEF Decided
    <2>4. \A b \in Browsers : checked'[b] # None =>
             /\ boot' = "up" /\ session'[b] \in Rows' /\ record'[checked'[b]] # None
             /\ MayDecide(user', session'[b], teams'[checked'[b]])
      <3>1. CASE ProcessEnds
        BY <3>1 DEF ProcessEnds
      <3>2. CASE UNCHANGED crmVars \/ \E w \in Workers : CrmWorkerStep(w)
        <4>1. UNCHANGED <<boot, session, checked>>
          BY <1>7, <3>2 DEF CrmWorkerStep, Begin, MatchByEmail, MatchByPhone, MatchBy, MatchByName,
             Route, FindCompany, InsertCompany, WriteContact, LoseContact, CommitContact,
             PickOwner, WriteDraft, RunFails, OnlyJob, crmVars, staffVars, process
        <4> QED
          BY <2>1, <4>1, <1>5 DEF Decided
      <3>3. CASE SeedStep
        <4>1. boot # "up" /\ UNCHANGED checked
          BY <3>3 DEF SeedStep, Start, InsertUser, DeleteDuplicates
        <4> QED
          BY <4>1 DEF Decided
      <3> QED
        BY <1>7, <3>1, <3>2, <3>3
    <2> QED
      BY <2>1, <2>2, <2>3, <2>4, <1>4 DEF Decided
  <1>8. ASSUME NEW b \in Browsers, BrowserStep(b) PROVE Decided'
    <2>1. UNCHANGED <<record, teams, job>>
      BY <1>8 DEF BrowserStep, CheckTeam, DecideReply, DecisionFails, Elsewhere, crmTables, crmHist
    <2>2. /\ boot' = boot
          /\ \A c \in Browsers \ {b} : session'[c] = session[c] /\ checked'[c] = checked[c]
      BY <1>8, <1>1, <1>t DEF BrowserStep, CheckTeam, DecideReply, DecisionFails, Elsewhere, SignIn,
                    staffVars, process, StaffTypeOK
    <2>3. \A c \in Browsers \ {b} : checked'[c] # None =>
             /\ boot' = "up" /\ session'[c] \in Rows' /\ record'[checked'[c]] # None
             /\ MayDecide(user', session'[c], teams'[checked'[c]])
      BY <2>1, <2>2, <1>5 DEF Decided
    <2>4. \A e \in Enquiries : draft'[e] # "none" => draft[e] # "none"
      BY <1>8 DEF BrowserStep, CheckTeam, DecideReply, DecisionFails, Elsewhere, crmTables,
                  WritersInv, Base, CrmTypeOK
    <2>5. ASSUME checked'[b] # None
          PROVE /\ boot' = "up" /\ session'[b] \in Rows' /\ record'[checked'[b]] # None
                /\ MayDecide(user', session'[b], teams'[checked'[b]])
      <3>1. PICK e \in Enquiries : CheckTeam(b, e)
        BY <1>8, <2>5, <1>t DEF BrowserStep, DecideReply, DecisionFails, Elsewhere
      <3>2. /\ checked'[b] = e /\ record[e] # None /\ boot = "up" /\ session[b] \in Rows
            /\ UNCHANGED <<user, session>>
        BY <3>1, <1>t DEF CheckTeam, InScope, MayAct, Known, Decided, staffVars, table
      <3>3. MayDecide(user, session[b], teams[e])
        BY <3>1, <3>2 DEF CheckTeam, InScope, MayDecide, Owned
      <3> QED
        BY <2>1, <2>2, <3>2, <3>3 DEF Rows
    <2>6. \A e \in Enquiries : decider'[e] # None =>
             /\ decider'[e] \in approvers' /\ record'[e] # None
             /\ MayDecide(user', decider'[e], teams'[e])
      <3>1. CASE DecideReply(b)
        <4> DEFINE d == checked[b]
        <4>1. /\ d \in Enquiries /\ decider' = [decider EXCEPT ![d] = session[b]]
              /\ approvers' = approvers \cup {session[b]} /\ UNCHANGED user
          BY <3>1, <1>t DEF DecideReply, Approve, table
        <4>2. /\ session[b] \in Rows /\ record[d] # None
              /\ MayDecide(user, session[b], teams[d])
          BY <4>1, <1>t DEF Decided
        <4> HIDE DEF d
        <4>3. decider'[d] = session[b] /\ \A e \in Enquiries \ {d} : decider'[e] = decider[e]
          BY <4>1 DEF WritersInv, Base, CrmTypeOK
        <4> QED
          BY <2>1, <4>1, <4>2, <4>3, <1>4
      <3>2. CASE ~ DecideReply(b)
        <4>1. UNCHANGED decider
          BY <1>8, <3>2 DEF BrowserStep, CheckTeam, DecisionFails, Elsewhere, crmHist
        <4> QED
          BY <2>1, <4>1, <1>4
      <3> QED
        BY <3>1, <3>2
    <2> QED
      BY <2>1, <2>3, <2>4, <2>5, <2>6 DEF Decided
  <1> QED
    BY <1>6, <1>7, <1>8 DEF CrmNext

LEMMA DecidedInit == CrmInit => Decided
  BY DEF CrmInit, Decided, Idle

(***************************************************************************)
(* A reply is decided on by an operator or by somebody of a team its       *)
(* record has had: no restart and no sign-in comes between the check of    *)
(* the team and the decision, and a run that does leaves the team among    *)
(* those the record has had.                                               *)
(***************************************************************************)
THEOREM TeamsDecide == CrmSpec => []DecidedByItsTeam
<1>1. CrmInit => WritersInv /\ Owned /\ Decided
  BY BaseInit, MatchedInit, LocksInit, OwnedInit, DecidedInit DEF WritersInv
<1>2. WritersInv /\ Owned /\ Decided /\ [CrmNext]_crmVars => (WritersInv /\ Owned /\ Decided)'
  BY BaseStep, MatchedStep, LocksStep, OwnedStep, DecidedStep DEF WritersInv
<1>3. Decided => DecidedByItsTeam
  BY DEF Decided, DecidedByItsTeam, MayDecide
<1> QED
  BY <1>1, <1>2, <1>3, PTL DEF CrmSpec

-----------------------------------------------------------------------------
(* The spread of work.                                                     *)

\* The records of a user, and the runs that have picked it and have not
\* written yet, as the tables and the runs have them.
Owning(rows, u) == {e \in Enquiries : rows[e] # None /\ rows[e].owner = u}
Picking(jobs, u) == {w \in Workers : jobs[w].step = "record" /\ jobs[w].owner = u}

Share(rows, u) == Cardinality(Owning(rows, u))
Burden(rows, jobs, u) == Share(rows, u) + Cardinality(Picking(jobs, u))

LEMMA ShareType ==
  ASSUME NEW rows, NEW jobs, NEW u
  PROVE  /\ IsFiniteSet(Owning(rows, u)) /\ Share(rows, u) \in Nat
         /\ IsFiniteSet(Picking(jobs, u)) /\ Cardinality(Picking(jobs, u)) \in Nat
         /\ Cardinality(Workers) \in Nat /\ Cardinality(Picking(jobs, u)) <= Cardinality(Workers)
         /\ Burden(rows, jobs, u) \in Nat
  <1>1. IsFiniteSet(Owning(rows, u))
    BY CrmAssumption, FS_Subset DEF Owning
  <1>2. Share(rows, u) \in Nat
    BY <1>1, FS_CardinalityType DEF Share
  <1>3. IsFiniteSet(Workers) /\ Picking(jobs, u) \in SUBSET Workers
    BY CrmAssumption DEF Picking
  <1>4. IsFiniteSet(Picking(jobs, u)) /\ Cardinality(Picking(jobs, u)) <= Cardinality(Workers)
    BY <1>3, FS_Subset, Zenon
  <1>5. Cardinality(Picking(jobs, u)) \in Nat /\ Cardinality(Workers) \in Nat
    BY <1>3, <1>4, FS_CardinalityType, Zenon
  <1> QED
    BY <1>1, <1>2, <1>4, <1>5 DEF Burden

\* With these users, records and runs: nobody is burdened more than by a
\* record per worker beyond some row of each colleague who has one.
Levelled(users, rows, jobs) ==
    \A u \in UserIds : \A p \in People :
        /\ users[u] # None /\ Roster[p].team = Roster[users[u]].team
        /\ \E v \in UserIds : users[v] = p
        => \E v \in UserIds :
              /\ users[v] = p
              /\ Burden(rows, jobs, u) <= Share(rows, v) + Cardinality(Workers)

\* Nobody owns a record before everybody is there.
AllOrNone == owners # {} => \A p \in People : \E u \in Rows : user[u] = p

LEMMA AllOrNoneStep ==
  ASSUME StaffTypeOK, Seeded, AllOrNone, [StaffNext]_staffVars
  PROVE  AllOrNone'
  <1> USE PeopleAreNumbered
  <1>1. ASSUME NEW u \in UserIds, InsertUser(u) PROVE AllOrNone'
    <2>1. /\ owners' = owners
          /\ \A v \in Rows : v \in Rows' /\ user'[v] = user[v]
      BY <1>1 DEF InsertUser, StaffTypeOK, Rows, pointers
    <2> QED
      BY <2>1 DEF AllOrNone
  <1>2. CASE DeleteDuplicates
    <2>1. CASE UNCHANGED user
      BY <1>2, <2>1 DEF DeleteDuplicates, AllOrNone, Rows, pointers
    <2>2. CASE user' = [u \in UserIds |-> IF u \in Doomed THEN None ELSE user[u]]
      <3> SUFFICES ASSUME owners # {}, NEW p \in People PROVE \E u \in Rows' : user'[u] = p
        BY <1>2 DEF DeleteDuplicates, AllOrNone, pointers
      <3>1. PICK v \in Rows : user[v] = p
        BY DEF AllOrNone
      <3>2. PICK u \in Rows : user[u] = p /\ \A x \in Rows : user[x] = p => ~(x < u)
        BY <3>1, FirstCopy
      <3>3. u \notin Doomed
        BY <3>2 DEF Doomed, Surplus
      <3> QED
        BY <2>2, <3>2, <3>3 DEF Rows
    <2> QED
      BY <1>2, <2>1, <2>2 DEF DeleteDuplicates
  <1>3. ASSUME NEW u \in UserIds, Own(u), UNCHANGED <<table, process, session>> PROVE AllOrNone'
    <2>1. boot = "up" /\ user' = user
      BY <1>3 DEF Own, table
    <2> QED
      BY <2>1 DEF AllOrNone, Seeded, Rows
  <1>4. ASSUME UNCHANGED <<user, owners>> PROVE AllOrNone'
    BY <1>4 DEF AllOrNone, Rows
  <1>5. ASSUME \/ Start \/ Stop \/ (\E b \in Browsers, u \in UserIds : SignIn(b, u))
               \/ (\E b \in Browsers : Approve(b) \/ Resolve(b)) /\ UNCHANGED <<table, process, session>>
               \/ UNCHANGED staffVars
        PROVE UNCHANGED <<user, owners>>
    BY <1>5 DEF Start, Stop, SignIn, Approve, Resolve, staffVars, table, pointers
  <1> QED
    BY <1>1, <1>2, <1>3, <1>4, <1>5 DEF StaffNext

\* As long as no user changes, burdens may go down and shares may go up.
LEMMA LevelledOn ==
  ASSUME NEW users, NEW rows, NEW jobs, NEW rows2, NEW jobs2, Levelled(users, rows, jobs),
         \A u \in UserIds : /\ Burden(rows2, jobs2, u) <= Burden(rows, jobs, u)
                            /\ Share(rows, u) <= Share(rows2, u)
  PROVE  Levelled(users, rows2, jobs2)
  <1> SUFFICES ASSUME NEW u \in UserIds, NEW p \in People, users[u] # None,
                      Roster[p].team = Roster[users[u]].team, \E v \in UserIds : users[v] = p
               PROVE  \E v \in UserIds :
                         /\ users[v] = p
                         /\ Burden(rows2, jobs2, u) <= Share(rows2, v) + Cardinality(Workers)
    BY DEF Levelled
  <1>1. PICK v \in UserIds : /\ users[v] = p
                             /\ Burden(rows, jobs, u) <= Share(rows, v) + Cardinality(Workers)
    BY DEF Levelled
  <1>2. /\ Burden(rows, jobs, u) \in Nat /\ Burden(rows2, jobs2, u) \in Nat
        /\ Share(rows, v) \in Nat /\ Share(rows2, v) \in Nat /\ Cardinality(Workers) \in Nat
    BY ShareType
  <1>3. Burden(rows2, jobs2, u) <= Burden(rows, jobs, u) /\ Share(rows, v) <= Share(rows2, v)
    OBVIOUS
  <1>4. Burden(rows2, jobs2, u) <= Share(rows2, v) + Cardinality(Workers)
    BY <1>1, <1>2, <1>3
  <1> QED
    BY <1>1, <1>4

\* Rows come and go while no run is under way.
LEMMA LevelledSeeding ==
  ASSUME NEW users, NEW users2, NEW rows, NEW jobs, Levelled(users, rows, jobs),
         \A u \in UserIds : Picking(jobs, u) = {},
         \A u \in UserIds : Owning(rows, u) # {} =>
            /\ users2[u] # None /\ users2[u] = users[u]
            /\ \A p \in People : \E v \in UserIds : users[v] = p,
         \A v \in UserIds : Owning(rows, v) # {} \/ users2[v] = users[v] \/ users[v] = None
                                               \/ users2[v] = None
  PROVE  Levelled(users2, rows, jobs)
  <1> SUFFICES ASSUME NEW u \in UserIds, NEW p \in People, users2[u] # None,
                      Roster[p].team = Roster[users2[u]].team, NEW x \in UserIds, users2[x] = p
               PROVE  \E v \in UserIds :
                         /\ users2[v] = p
                         /\ Burden(rows, jobs, u) <= Share(rows, v) + Cardinality(Workers)
    BY DEF Levelled
  <1>0. \A v \in UserIds : Owning(rows, v) = {} => Share(rows, v) = 0 /\ Burden(rows, jobs, v) = 0
    <2>1. Cardinality({}) = 0
      BY FS_EmptySet, Zenon
    <2>2. \A v \in UserIds : Cardinality(Picking(jobs, v)) = 0
      BY <2>1
    <2> QED
      BY <2>1, <2>2 DEF Burden, Share
  <1>n. \A v \in UserIds : Share(rows, v) \in Nat /\ Burden(rows, jobs, v) \in Nat
                            /\ Cardinality(Workers) \in Nat
    BY ShareType
  <1>1. CASE Owning(rows, u) = {}
    BY <1>0, <1>n, <1>1
  <1>2. CASE Owning(rows, u) # {}
    <2>1. users2[u] = users[u] /\ \E v \in UserIds : users[v] = p
      BY <1>2
    <2>2. PICK v \in UserIds : /\ users[v] = p
                               /\ Burden(rows, jobs, u) <= Share(rows, v) + Cardinality(Workers)
      BY <2>1 DEF Levelled
    <2>3. CASE users2[v] = p
      BY <2>2, <2>3
    <2>4. CASE users2[v] # p
      <3>1. Share(rows, v) = 0
        BY <1>0, <2>2, <2>4
      <3>2. Burden(rows, jobs, u) <= Share(rows, x) + Cardinality(Workers)
        BY <1>n, <2>2, <3>1
      <3> QED
        BY <3>2
    <2> QED
      BY <2>3, <2>4
  <1> QED
    BY <1>1, <1>2

\* What keeps the work spread.
SpreadInv == WritersInv /\ Owned /\ Seeded /\ AllOrNone /\ Levelled(user, record, job)

\* The load of a user is its share.
LEMMA LoadIsShare ==
  ASSUME NEW u
  PROVE  Load(u) = Share(record, u)
  BY DEF Load, Share, Owning

LEMMA PickLevelled ==
  ASSUME SpreadInv, NEW w \in Workers, PickOwner(w)
  PROVE  Levelled(user', record', job')
  <1> DEFINE us == Colleagues(job[w].team)
             o == IF us = {} THEN None ELSE LeastLoaded(us)
  <1>1. /\ job' = [job EXCEPT ![w] = [job[w] EXCEPT !.step = "record", !.owner = o]]
        /\ UNCHANGED <<user, record>> /\ job[w].step = "owner"
    BY DEF PickOwner, At, OnlyJob, staffVars, table, crmTables
  <1>2. o # None => /\ o \in us
                    /\ \A v \in us : Share(record, o) <= Share(record, v)
    <2>1. us \subseteq Rows
      BY DEF Colleagues
    <2> HIDE DEF us
    <2> QED
      BY <2>1, LeastLoadedIsOne, LoadIsShare
  <1>3. \A v \in UserIds : user[v] # None /\ Roster[user[v]].team = job[w].team <=> v \in us
    BY DEF Colleagues, Rows
  <1>4. us \subseteq UserIds
    BY DEF Colleagues, Rows
  <1> HIDE DEF us, o
  <1>5. /\ job'[w].step = "record" /\ job'[w].owner = o
        /\ \A v \in Workers \ {w} : job'[v] = job[v]
    BY <1>1 DEF SpreadInv, WritersInv, Base, CrmTypeOK, Jobs
  <1> SUFFICES ASSUME NEW u \in UserIds, NEW p \in People, user[u] # None,
                      Roster[p].team = Roster[user[u]].team, NEW x \in UserIds, user[x] = p
               PROVE  \E v \in UserIds :
                         /\ user[v] = p
                         /\ Burden(record, job', u) <= Share(record, v) + Cardinality(Workers)
    BY <1>1 DEF Levelled
  <1>6. CASE u = o
    <2>1. u \in us /\ x \in us
      <3>1. u # None
        BY StaffAssumption
      <3>2. u \in us
        BY <1>2, <1>6, <3>1
      <3>3. user[x] # None
        BY PeopleAreNumbered
      <3> QED
        BY <1>3, <3>2, <3>3
    <2>2. Share(record, u) <= Share(record, x)
      BY <1>2, <1>6, <2>1, StaffAssumption
    <2>3. /\ Share(record, u) \in Nat /\ Share(record, x) \in Nat /\ Cardinality(Workers) \in Nat
          /\ Cardinality(Picking(job', u)) \in Nat /\ Cardinality(Picking(job', u)) <= Cardinality(Workers)
      BY ShareType
    <2>4. Burden(record, job', u) <= Share(record, x) + Cardinality(Workers)
      BY <2>2, <2>3 DEF Burden
    <2> QED
      BY <2>4
  <1>7. CASE u # o
    <2>1. Picking(job', u) = Picking(job, u)
      BY <1>1, <1>5, <1>7 DEF Picking
    <2>2. Burden(record, job', u) = Burden(record, job, u)
      BY <2>1 DEF Burden
    <2> QED
      BY <2>2 DEF SpreadInv, Levelled
  <1> QED
    BY <1>6, <1>7

LEMMA RecordLevelled ==
  ASSUME SpreadInv, StaffTypeOK', NEW w \in Workers, WriteRecord(w)
  PROVE  Levelled(user', record', job')
  <1> DEFINE e == job[w].enquiry
             o == job[w].owner
             old == record[e]
             new == [contact |-> job[w].target, owner |-> o, team |-> job[w].team]
             row == Upsert(old, new)
  <1>1. /\ e \in Enquiries /\ new \in Records /\ old \in Records \cup {None}
        /\ record' = [record EXCEPT ![e] = row]
        /\ job' = [job EXCEPT ![w] = [Idle EXCEPT !.step = "draft", !.enquiry = e]]
        /\ job[w].step = "record" /\ UNCHANGED user
    BY RecordBase DEF SpreadInv, WritersInv, Base, CrmTypeOK, WriteRecord, At, table
  <1>2. /\ row # None
        /\ old # None /\ old.owner # None => row.owner = old.owner
        /\ old = None \/ old.owner = None => row.owner = o
    <2>1. new.owner = o
      OBVIOUS
    <2> HIDE DEF new, old, e, o
    <2>2. CASE old = None
      BY <2>1, <2>2, <1>1, CrmAssumption DEF Upsert
    <2>3. CASE old # None
      <3>1. old \in Records
        BY <1>1, <2>3
      <3>2. row \in Records
        BY <1>1, <2>3, <3>1 DEF Upsert, Records
      <3>3. row.owner = IF old.owner = None THEN new.owner ELSE old.owner
        BY <2>3, <3>1 DEF Upsert, Records
      <3> QED
        BY <2>1, <2>3, <3>2, <3>3, CrmAssumption
    <2> QED
      BY <2>2, <2>3
  <1> HIDE DEF new, row
  <1>3. record'[e] = row /\ \A d \in Enquiries \ {e} : record'[d] = record[d]
    BY <1>1 DEF SpreadInv, WritersInv, Base, CrmTypeOK
  <1>4. job'[w].step = "draft" /\ \A v \in Workers \ {w} : job'[v] = job[v]
    BY <1>1 DEF SpreadInv, WritersInv, Base, CrmTypeOK, Idle
  <1>5. ASSUME NEW u \in UserIds
        PROVE  /\ Burden(record', job', u) <= Burden(record, job, u)
               /\ Share(record, u) <= Share(record', u)
    <2>0. u # None
      BY StaffAssumption
    <2>1. Picking(job', u) = Picking(job, u) \ {w}
      BY <1>4 DEF Picking
    <2>t. /\ IsFiniteSet(Picking(job, u)) /\ IsFiniteSet(Owning(record, u))
          /\ Share(record, u) \in Nat /\ Cardinality(Picking(job, u)) \in Nat
          /\ Cardinality(Picking(job', u)) \in Nat
      BY ShareType
    <2>2. Cardinality(Picking(job', u)) =
             IF w \in Picking(job, u) THEN Cardinality(Picking(job, u)) - 1
             ELSE Cardinality(Picking(job, u))
      BY <2>1, <2>t, FS_RemoveElement, Zenon
    <2>3. CASE (old = None \/ old.owner = None) /\ o = u
      <3>1. Owning(record', u) = Owning(record, u) \cup {e}
        BY <2>3, <1>1, <1>2, <1>3 DEF Owning
      <3>2. e \notin Owning(record, u) /\ w \in Picking(job, u)
        BY <2>0, <2>3, <1>1 DEF Owning, Picking
      <3>3. Cardinality(Owning(record', u)) = Cardinality(Owning(record, u)) + 1
        BY <2>t, <3>1, <3>2, FS_AddElement, Zenon
      <3>4. Cardinality(Picking(job', u)) = Cardinality(Picking(job, u)) - 1
        BY <2>2, <3>2
      <3> QED
        BY <2>t, <3>3, <3>4 DEF Burden, Share
    <2>4. CASE ~ ((old = None \/ old.owner = None) /\ o = u)
      <3>1. Owning(record', u) = Owning(record, u)
        BY <2>0, <2>4, <1>1, <1>2, <1>3 DEF Owning
      <3>2. Share(record', u) = Share(record, u)
        BY <3>1 DEF Share
      <3>3. Cardinality(Picking(job', u)) <= Cardinality(Picking(job, u))
        BY <2>2, <2>t
      <3> QED
        BY <2>t, <3>2, <3>3 DEF Burden
    <2> QED
      BY <2>3, <2>4
  <1>6. Levelled(user, record', job')
    BY <1>5, LevelledOn DEF SpreadInv
  <1> QED
    BY <1>1, <1>6

LEMMA LevelledStep ==
  ASSUME SpreadInv, [CrmNext]_crmVars
  PROVE  Levelled(user', record', job')
  <1>1. StaffTypeOK /\ StaffTypeOK' /\ [StaffNext]_staffVars
    BY StaffSimulates, StaffTypeStep DEF SpreadInv, WritersInv, Base, CrmTypeOK
  <1>2. ASSUME NEW w \in Workers, PickOwner(w) \/ WriteRecord(w)
        PROVE  Levelled(user', record', job')
    BY <1>1, <1>2, PickLevelled, RecordLevelled
  <1>3. CASE ~ \E w \in Workers : PickOwner(w) \/ WriteRecord(w)
    <2>1. /\ UNCHANGED record
          /\ \A v \in Workers : job'[v].step = "record" => job'[v] = job[v]
      BY <1>3, NoRecord DEF SpreadInv
    <2>2. \A u \in UserIds : Picking(job', u) \subseteq Picking(job, u)
      BY <2>1 DEF Picking
    <2>3. \A u \in UserIds : /\ Burden(record', job', u) <= Burden(record, job, u)
                              /\ Share(record, u) <= Share(record', u)
      <3> SUFFICES ASSUME NEW u \in UserIds
                   PROVE  /\ Burden(record', job', u) <= Burden(record, job, u)
                          /\ Share(record, u) <= Share(record', u)
        OBVIOUS
      <3>1. /\ IsFiniteSet(Picking(job, u)) /\ Share(record, u) \in Nat
            /\ Cardinality(Picking(job, u)) \in Nat /\ Cardinality(Picking(job', u)) \in Nat
        BY ShareType
      <3>2. Cardinality(Picking(job', u)) <= Cardinality(Picking(job, u))
        BY <2>2, <3>1, FS_Subset, Zenon
      <3>3. Share(record', u) = Share(record, u)
        BY <2>1
      <3> QED
        BY <3>1, <3>2, <3>3 DEF Burden
    <2>4. Levelled(user, record', job')
      BY <2>3, LevelledOn DEF SpreadInv
    <2>5. CASE UNCHANGED user
      BY <2>4, <2>5
    <2>6. CASE ~ UNCHANGED user
      <3>1. \/ \E u \in UserIds : InsertUser(u)
            \/ DeleteDuplicates
        BY <2>6, <1>1 DEF StaffNext, Start, Stop, SignIn, staffVars, table
      <3>2. boot # "up"
        BY <3>1 DEF InsertUser, DeleteDuplicates
      <3>3. \A u \in UserIds : Picking(job', u) = {}
        BY <2>2, <3>2 DEF SpreadInv, WritersInv, Base, Picking, Idle
      <3>4. \A u \in UserIds : Owning(record', u) # {} => u \in owners
        BY <2>1, StaffAssumption DEF Owning, SpreadInv, Owned
      <3>5. \A u \in owners : u \in UserIds /\ user[u] # None /\ user'[u] = user[u]
        BY <1>1, UsersStay DEF SpreadInv, Owned, Rows
      <3>6. owners # {} => \A p \in People : \E v \in UserIds : user[v] = p
        BY DEF SpreadInv, AllOrNone, Rows
      <3>7. \A v \in UserIds : user'[v] = user[v] \/ user[v] = None \/ user'[v] = None
        BY <3>1, <1>1 DEF InsertUser, DeleteDuplicates, StaffTypeOK, Rows
      <3>8. \A u \in UserIds : Owning(record', u) # {} =>
               /\ user'[u] # None /\ user'[u] = user[u]
               /\ \A p \in People : \E v \in UserIds : user[v] = p
        BY <3>4, <3>5, <3>6
      <3> QED
        BY <2>4, <3>3, <3>7, <3>8, LevelledSeeding
    <2> QED
      BY <2>5, <2>6
  <1> QED
    BY <1>2, <1>3

LEMMA SpreadInit == CrmInit => SpreadInv
  <1> SUFFICES ASSUME CrmInit PROVE SpreadInv
    OBVIOUS
  <1>1. WritersInv /\ Owned
    BY BaseInit, MatchedInit, LocksInit, OwnedInit DEF WritersInv
  <1>2. Seeded /\ AllOrNone
    BY DEF CrmInit, StaffInit, Seeded, AllOrNone
  <1>3. \A u \in UserIds : user[u] = None
    BY DEF CrmInit, StaffInit
  <1>4. Levelled(user, record, job)
    BY <1>3 DEF Levelled
  <1> QED
    BY <1>1, <1>2, <1>4 DEF SpreadInv

(***************************************************************************)
(* However many runs pick an owner at the same time, fail between the pick *)
(* and the write, or write a second time, and whatever a restart does to   *)
(* the rows, nobody is more than a record per worker ahead of a colleague. *)
(***************************************************************************)
THEOREM WorkStaysSpread == CrmSpec => []WorkIsSpread
<1>1. CrmInit => SpreadInv
  BY SpreadInit
<1>2. ASSUME SpreadInv, [CrmNext]_crmVars PROVE SpreadInv'
  <2>1. StaffTypeOK /\ [StaffNext]_staffVars
    BY <1>2, StaffSimulates DEF SpreadInv, WritersInv, Base, CrmTypeOK
  <2>2. WritersInv' /\ Owned'
    BY <1>2, BaseStep, MatchedStep, LocksStep, OwnedStep DEF SpreadInv, WritersInv
  <2>3. Seeded' /\ AllOrNone'
    BY <1>2, <2>1, SeededStep, AllOrNoneStep DEF SpreadInv
  <2>4. Levelled(user, record, job)'
    BY <1>2, LevelledStep
  <2> QED
    BY <2>2, <2>3, <2>4 DEF SpreadInv
<1>3. ASSUME SpreadInv PROVE WorkIsSpread
  <2> SUFFICES ASSUME boot = "up", NEW u \in Rows, NEW p \in People, Roster[p].team = Roster[user[u]].team
               PROVE  \E v \in Rows : user[v] = p /\ Load(u) <= Load(v) + Cardinality(Workers)
    BY DEF WorkIsSpread
  <2>1. \E v \in Rows : user[v] = p
    BY <1>3 DEF SpreadInv, Seeded
  <2>2. PICK v \in UserIds : /\ user[v] = p
                             /\ Burden(record, job, u) <= Share(record, v) + Cardinality(Workers)
    BY <1>3, <2>1 DEF SpreadInv, Levelled, Rows
  <2>3. v \in Rows
    BY <2>2, PeopleAreNumbered DEF Rows
  <2>4. /\ Share(record, u) \in Nat /\ Share(record, v) \in Nat /\ Cardinality(Workers) \in Nat
        /\ Cardinality(Picking(job, u)) \in Nat
    BY ShareType
  <2>5. Share(record, u) <= Share(record, v) + Cardinality(Workers)
    BY <2>2, <2>4 DEF Burden
  <2> QED
    BY <2>2, <2>3, <2>5, LoadIsShare
<1> QED
  BY <1>1, <1>2, <1>3, PTL DEF CrmSpec

-----------------------------------------------------------------------------
(* What Staff promises.                                                    *)

(***************************************************************************)
(* Whatever runs and reviewers do, a process that serves has a row for     *)
(* everybody, nobody they name is deleted, and a start leaves a user twice *)
(* or fails only for the reasons Staff gives.                              *)
(***************************************************************************)
THEOREM UsersHold ==
  CrmSpec => [](EverybodyIsThere /\ ReferencesHold /\ TwiceOnlyIfNamed /\ RefusedOnlyByResolution)
<1> QED
  BY CrmImplementsStaff, EverybodyStays, ReferencesStay, CopiesAreNamed, OnlyResolutionsRefuse, PTL
=============================================================================
