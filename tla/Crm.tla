--------------------------------- MODULE Crm ---------------------------------
(***************************************************************************)
(* What a run does to the CRM tables, one SQL statement at a time:         *)
(* MatchContact, UpsertContact, PickOwner, UpsertCRMRecord and UpsertDraft *)
(* (internal/store/crm.go, review.go) as Pool.run and Pool.act call them   *)
(* (internal/worker/worker.go), and the decision of a reviewer, who may be *)
(* limited to a team (internal/api/dashboard.go).                          *)
(*                                                                         *)
(* A statement sees what was committed before it; a row or a unique key    *)
(* that an open transaction has written makes another writer wait.  Which  *)
(* run of an enquiry is made when is left to EnquiryQueue: here an enquiry *)
(* may be run again at any time, by another worker or after a restart.     *)
(* Left out: candidates of duplicate_match_candidate (EnquiryPipeline),    *)
(* the clarifying question, and a rule's target_user_id.                   *)
(***************************************************************************)
EXTENDS Staff

CONSTANTS
    Enquiries,
    Workers,
    Teams,      \* target_team of the routing rules
    ContactIds, \* ids the database may give to contacts
    CompanyIds, \* and to companies
    Values,     \* e-mail addresses, phone numbers and names
    TooShort,   \* numbers of fewer than seven digits, which find nobody
    Offers,     \* for each enquiry, the fields Trusted may leave in an attempt
    Book,       \* the contacts the CRM starts with
    DomainOf(_),\* domainOf; None of an address without one
    MaxRuns     \* bound: how often each enquiry may be run

Columns == {"email", "phone", "name", "company"}
Details == [Columns -> Values \cup {None}]

ContactRows == [Columns -> Values \cup CompanyIds \cup {None}]
CompanyRows == [name : Values, domain : Values \cup {None}]
Records == [contact : ContactIds, owner : UserIds \cup {None}, team : Teams \cup {None}]

\* The placeholder is no value of anything, and the CRM starts with a table
\* that keeps the unique index, and without companies.
ASSUME CrmAssumption ==
    /\ IsFiniteSet(Enquiries) /\ IsFiniteSet(Workers)
    /\ None \notin Values \cup CompanyIds \cup ContactIds \cup Enquiries
    /\ None \notin ContactRows /\ None \notin CompanyRows /\ None \notin Records
    /\ \A v \in Values \cup {None} : DomainOf(v) \in Values \cup {None}
    /\ DOMAIN Book \subseteq ContactIds
    /\ \A c \in DOMAIN Book : Book[c] \in ContactRows /\ Book[c]["company"] = None
    /\ \A c, d \in DOMAIN Book :
          Book[c]["email"] # None /\ Book[c]["email"] = Book[d]["email"] => c = d
    /\ Offers \in [Enquiries -> SUBSET Details]
    /\ TooShort \subseteq Values
    /\ MaxRuns \in [Enquiries -> Nat]

VARIABLES
    contact,    \* the contact rows
    company,    \* the company rows
    record,     \* crm_record, by enquiry_id
    draft,      \* the reply: "none", "pending_approval" or decided upon
    job,        \* what each worker's run has in its hands
    checked,    \* the message whose team each browser's request has checked
    \* History.
    runs,       \* runs begun of each enquiry
    teams,      \* the teams each record has had
    used,       \* the fields the run that created the record went by
    decider     \* the app_user row of the reviewer who decided on the reply

crmTables == <<contact, company, record, draft>>
crmHist == <<runs, teams, used, decider>>
crmVars == <<staffVars, crmTables, job, checked, crmHist>>

Nobody == [c \in Columns |-> None]

Idle == [step |-> "idle", enquiry |-> None, fields |-> Nobody, match |-> None,
         team |-> None, company |-> None, newCompany |-> None,
         target |-> None, row |-> None, owner |-> None]

Steps == {"idle", "email", "phone", "name", "route", "company", "new_company",
          "contact", "commit", "owner", "record", "draft"}

\* What a run may have in its hands.
Jobs == [step : Steps, enquiry : Enquiries \cup {None},
         fields : Details, match : ContactIds \cup {None},
         team : Teams \cup {None}, company : CompanyIds \cup {None},
         newCompany : CompanyRows \cup {None},
         target : ContactIds \cup {None},
         row : ContactRows \cup {None}, owner : UserIds \cup {None}]

CrmTypeOK ==
    /\ StaffTypeOK
    /\ contact \in [ContactIds -> ContactRows \cup {None}]
    /\ company \in [CompanyIds -> CompanyRows \cup {None}]
    /\ record \in [Enquiries -> Records \cup {None}]
    /\ draft \in [Enquiries -> {"none", "pending_approval", "decided"}]
    /\ job \in [Workers -> Jobs]
    /\ checked \in [Browsers -> Enquiries \cup {None}]
    /\ runs \in [Enquiries -> Nat]
    /\ teams \in [Enquiries -> SUBSET (Teams \cup {None})]
    /\ used \in [Enquiries -> Details]
    /\ decider \in [Enquiries -> UserIds \cup {None}]

CrmInit ==
    /\ StaffInit
    /\ contact = [c \in ContactIds |-> IF c \in DOMAIN Book THEN Book[c] ELSE None]
    /\ company = [c \in CompanyIds |-> None]
    /\ record = [e \in Enquiries |-> None]
    /\ draft = [e \in Enquiries |-> "none"]
    /\ job = [w \in Workers |-> Idle]
    /\ checked = [b \in Browsers |-> None]
    /\ runs = [e \in Enquiries |-> 0]
    /\ teams = [e \in Enquiries |-> {}]
    /\ used = [e \in Enquiries |-> Nobody]
    /\ decider = [e \in Enquiries |-> None]

Contacts == {c \in ContactIds : contact[c] # None}
Firms == {c \in CompanyIds : company[c] # None}

At(w, s) == boot = "up" /\ job[w].step = s

OnlyJob(w, j) ==
    /\ job' = [job EXCEPT ![w] = j]
    /\ UNCHANGED <<staffVars, crmTables, checked, crmHist>>

\* Any statement may fail, and so may a provider: the transaction, if there is
\* one, rolls back, and the run returns the error.
RunFails(w) ==
    /\ boot = "up"
    /\ job[w].step # "idle"
    /\ OnlyJob(w, Idle)

-----------------------------------------------------------------------------
(* MatchContact: three queries, each on its own.                           *)

Begin(w, e, f) ==
    /\ At(w, "idle")
    /\ runs[e] < MaxRuns[e]
    /\ job' = [job EXCEPT ![w] = [Idle EXCEPT !.step = "email", !.enquiry = e, !.fields = f]]
    /\ runs' = [runs EXCEPT ![e] = @ + 1]
    /\ UNCHANGED <<staffVars, crmTables, checked, teams, used, decider>>

\* The contacts with this value in a column; nobody is found by an absent one.
With(column, value) ==
    {c \in Contacts : value # None /\ contact[c][column] = value}

Found(column, value) == IF value \in TooShort THEN {} ELSE With(column, value)

MatchBy(w, column, otherwise) ==
    LET j == job[w]
        found == Found(column, j.fields[column]) IN
    /\ At(w, column)
    /\ IF found = {}
       THEN OnlyJob(w, [j EXCEPT !.step = otherwise])
       ELSE \E c \in found : OnlyJob(w, [j EXCEPT !.step = "route", !.match = c])

MatchByEmail(w) == MatchBy(w, "email", "phone")

MatchByPhone(w) == MatchBy(w, "phone", "name")

\* Variant: a similar name attaches.
MatchByNameAttaching(w) == MatchBy(w, "name", "route")

\* A similar name never scores high enough to attach: SetStatus ends the run.
MatchByName(w) ==
    /\ At(w, "name")
    /\ OnlyJob(w, IF With("name", job[w].fields["name"]) = {}
                  THEN [job[w] EXCEPT !.step = "route"] ELSE Idle)

\* What the router takes for a way to reach or recognise the sender.
Identifiers == {"email", "phone", "name"}

\* The router decides to write, for the team of a rule; an attachment needs
\* none.  (RunFails stands for every decision that writes nothing.)
Route(w, t) ==
    LET j == job[w] IN
    /\ At(w, "route")
    /\ \E column \in Identifiers : j.fields[column] # None
    /\ j.match = None => t # None
    /\ OnlyJob(w, [j EXCEPT !.step = "company", !.team = t])

-----------------------------------------------------------------------------
(* UpsertContact: one transaction.                                         *)

\* The rows the company query finds, and those that ORDER BY
\* (lower(domain) = lower($1)) DESC puts first: NULL before true before false.
Named(f, domain) ==
    {c \in Firms : \/ domain # None /\ company[c].domain = domain
                   \/ company[c].name = f["company"]}

FirstOf(found, domain) ==
    LET undomained == {c \in found : company[c].domain = None}
        same == {c \in found : domain # None /\ company[c].domain = domain} IN
    IF undomained # {} THEN undomained ELSE IF same # {} THEN same ELSE found

FindCompany(w) ==
    LET j == job[w]
        domain == DomainOf(j.fields["email"])
        found == Named(j.fields, domain) IN
    /\ At(w, "company")
    /\ IF j.fields["company"] = None THEN OnlyJob(w, [j EXCEPT !.step = "contact"])
       ELSE IF found = {} THEN OnlyJob(w, [j EXCEPT !.step = "new_company"])
       ELSE \E c \in FirstOf(found, domain) :
               OnlyJob(w, [j EXCEPT !.step = "contact", !.company = c])

\* An id no row has, committed or not.  Ids of contacts and companies are only
\* compared for equality, so it does not matter which.
UnusedCompanies == {c \in CompanyIds \ Firms :
    \A v \in Workers : job[v].newCompany # None => job[v].company # c}

FreshCompany == CHOOSE c \in UnusedCompanies : TRUE

FreshContact == CHOOSE c \in ContactIds :
    c \notin Contacts /\ \A v \in Workers : job[v].row # None => job[v].target # c

\* Variant: company has no unique index.
InsertCompanyUnindexed(w) ==
    LET j == job[w]
        row == [name |-> j.fields["company"], domain |-> DomainOf(j.fields["email"])] IN
    /\ At(w, "new_company")
    /\ UnusedCompanies # {}
    /\ OnlyJob(w, [j EXCEPT !.step = "contact", !.company = FreshCompany, !.newCompany = row])

\* company_domain_key: wait for an open transaction with the same domain; a
\* committed one fails the statement, and nothing adopts the other's row.
InsertCompany(w) ==
    LET j == job[w]
        row == [name |-> j.fields["company"], domain |-> DomainOf(j.fields["email"])] IN
    /\ At(w, "new_company")
    /\ UnusedCompanies # {}
    /\ \A v \in Workers \ {w} :
          row.domain # None /\ job[v].newCompany # None => job[v].newCompany.domain # row.domain
    /\ IF row.domain # None /\ \E d \in Firms : company[d].domain = row.domain
       THEN OnlyJob(w, Idle)
       ELSE OnlyJob(w, [j EXCEPT !.step = "contact", !.company = FreshCompany, !.newCompany = row])

\* Variant: the model's value wins.
FillOverwriting(row, new) ==
    [column \in Columns |-> IF new[column] # None THEN new[column] ELSE row[column]]

\* COALESCE: fill blanks only.
Fill(row, new) ==
    [column \in Columns |-> IF row[column] # None THEN row[column] ELSE new[column]]

\* The contact this transaction writes, and what it writes.
Target(w) == IF job[w].match = None THEN FreshContact ELSE job[w].match

RowFor(w) ==
    LET new == [job[w].fields EXCEPT !["company"] = job[w].company] IN
    IF job[w].match = None THEN new ELSE Fill(contact[job[w].match], new)

\* No other open transaction has written the row or the key.
NotAwaiting(w) ==
    \A v \in Workers \ {w} : job[v].row # None =>
        /\ job[v].target # Target(w)
        /\ RowFor(w)["email"] # None => job[v].row["email"] # RowFor(w)["email"]

\* Variant: contact has no unique index.
TakenNever(w) == FALSE

\* contact_email_key: another contact has the address.
Taken(w) == With("email", RowFor(w)["email"]) \ {Target(w)} # {}

WriteContact(w) ==
    /\ At(w, "contact")
    /\ Target(w) \in IF job[w].match = None THEN ContactIds \ Contacts ELSE ContactIds
    /\ NotAwaiting(w)
    /\ ~Taken(w)
    /\ OnlyJob(w, [job[w] EXCEPT !.step = "commit", !.target = Target(w), !.row = RowFor(w)])

\* A unique violation aborts the transaction, so the SELECT that would adopt
\* the other worker's contact fails too, and UpsertContact returns its error.
LoseContact(w) ==
    /\ At(w, "contact")
    /\ NotAwaiting(w)
    /\ Taken(w)
    /\ OnlyJob(w, Idle)

CommitContact(w) ==
    LET j == job[w] IN
    /\ At(w, "commit")
    /\ contact' = [contact EXCEPT ![j.target] = j.row]
    /\ company' = IF j.newCompany = None THEN company
                  ELSE [company EXCEPT ![j.company] = j.newCompany]
    /\ job' = [job EXCEPT ![w] = [Idle EXCEPT !.step = "owner", !.enquiry = j.enquiry,
                                  !.fields = j.fields, !.team = j.team, !.target = j.target]]
    /\ UNCHANGED <<staffVars, record, draft, checked, crmHist>>

-----------------------------------------------------------------------------
(* The rest of Pool.act.                                                   *)

Load(u) == Cardinality({e \in Enquiries : record[e] # None /\ record[e].owner = u})

\* Variant: the least-loaded user, whatever the team.
ColleaguesAnywhere(t) == Rows

Colleagues(t) == {u \in Rows : Roster[user[u]].team = t}

\* ORDER BY count(r.id), u.id.
LeastLoaded(us) ==
    CHOOSE u \in us : \A v \in us :
        \/ Load(u) < Load(v)
        \/ Load(u) = Load(v) /\ u <= v

PickOwner(w) ==
    LET us == Colleagues(job[w].team) IN
    /\ At(w, "owner")
    /\ OnlyJob(w, [job[w] EXCEPT !.step = "record",
                                 !.owner = IF us = {} THEN None ELSE LeastLoaded(us)])

\* Variant: the contact is overwritten like the team.
UpsertRepointing(old, new) ==
    IF old = None THEN new
    ELSE [new EXCEPT !.owner = IF old.owner = None THEN @ ELSE old.owner]

\* ON CONFLICT: the contact stays, an owner stays, the team is overwritten.
Upsert(old, new) ==
    IF old = None THEN new
    ELSE [old EXCEPT !.team = new.team, !.owner = IF @ = None THEN new.owner ELSE @]

WriteRecord(w) ==
    LET j == job[w]
        row == Upsert(record[j.enquiry],
                      [contact |-> j.target, owner |-> j.owner, team |-> j.team]) IN
    /\ At(w, "record")
    /\ record' = [record EXCEPT ![j.enquiry] = row]
    /\ IF row.owner = None THEN UNCHANGED pointers ELSE Own(row.owner)
    /\ teams' = [teams EXCEPT ![j.enquiry] = @ \cup {row.team}]
    /\ used' = [used EXCEPT ![j.enquiry] = IF record[j.enquiry] = None THEN j.fields ELSE @]
    /\ job' = [job EXCEPT ![w] = [Idle EXCEPT !.step = "draft", !.enquiry = j.enquiry]]
    /\ UNCHANGED <<table, process, session, contact, company, draft, checked, runs, decider>>

\* UpsertDraft and the final SetStatus.
WriteDraft(w) ==
    LET e == job[w].enquiry IN
    /\ At(w, "draft")
    /\ draft' = [draft EXCEPT ![e] = IF @ = "none" THEN "pending_approval" ELSE @]
    /\ job' = [job EXCEPT ![w] = Idle]
    /\ UNCHANGED <<staffVars, contact, company, record, checked, crmHist>>

-----------------------------------------------------------------------------
(* handleDecision.                                                         *)

\* Variant: any rep may decide.
InScopeAnyTeam(b, e) == MayAct(b)

\* scopeTeam against MessageTeam, "" for a record without a team.
InScope(b, e) ==
    LET actor == Roster[user[session[b]]] IN
    /\ MayAct(b)
    /\ actor.role # "ops_admin" => record[e].team = actor.team

CheckTeam(b, e) ==
    /\ checked[b] = None
    /\ draft[e] # "none"
    /\ InScope(b, e)
    /\ checked' = [checked EXCEPT ![b] = e]
    /\ UNCHANGED <<staffVars, crmTables, job, crmHist>>

\* Approve.  The team is not looked at again.
DecideReply(b) ==
    LET e == checked[b] IN
    /\ e # None
    /\ draft[e] = "pending_approval"
    /\ draft' = [draft EXCEPT ![e] = "decided"]
    /\ Approve(b)
    /\ decider' = [decider EXCEPT ![e] = session[b]]
    /\ checked' = [checked EXCEPT ![b] = None]
    /\ UNCHANGED <<table, process, session, contact, company, record, job, runs, teams, used>>

\* ErrNotPending, or a statement fails.
DecisionFails(b) ==
    /\ checked[b] # None
    /\ checked' = [checked EXCEPT ![b] = None]
    /\ UNCHANGED <<staffVars, crmTables, job, crmHist>>

-----------------------------------------------------------------------------

\* The process ends: its transactions roll back and its requests are cut off.
ProcessEnds ==
    /\ Stop
    /\ job' = [w \in Workers |-> Idle]
    /\ checked' = [b \in Browsers |-> None]
    /\ UNCHANGED <<crmTables, crmHist>>

SeedStep ==
    /\ Start \/ (\E u \in UserIds : InsertUser(u)) \/ DeleteDuplicates
    /\ UNCHANGED <<crmTables, job, checked, crmHist>>

\* Variant: the header is believed without a look at app_user.
ElsewhereUnchecked(b) ==
    /\ checked[b] = None
    /\ boot = "up"
    /\ \E u \in UserIds : session' = [session EXCEPT ![b] = u]
    /\ UNCHANGED <<table, process, pointers, crmTables, job, checked, crmHist>>

\* A browser without a request under way changes its user, or its reviewer
\* resolves a match.
Elsewhere(b) ==
    /\ checked[b] = None
    /\ \/ \E u \in UserIds : SignIn(b, u)
       \/ Resolve(b) /\ UNCHANGED <<table, process, session>>
    /\ UNCHANGED <<crmTables, job, checked, crmHist>>

CrmWorkerStep(w) ==
    \/ \E e \in Enquiries : \E f \in Offers[e] : Begin(w, e, f)
    \/ MatchByEmail(w)
    \/ MatchByPhone(w)
    \/ MatchByName(w)
    \/ \E t \in Teams \cup {None} : Route(w, t)
    \/ FindCompany(w)
    \/ InsertCompany(w)
    \/ WriteContact(w)
    \/ LoseContact(w)
    \/ CommitContact(w)
    \/ PickOwner(w)
    \/ WriteRecord(w)
    \/ WriteDraft(w)
    \/ RunFails(w)

BrowserStep(b) ==
    \/ \E e \in Enquiries : CheckTeam(b, e)
    \/ DecideReply(b)
    \/ DecisionFails(b)
    \/ Elsewhere(b)

CrmNext ==
    \/ \E w \in Workers : CrmWorkerStep(w)
    \/ \E b \in Browsers : BrowserStep(b)
    \/ SeedStep
    \/ ProcessEnds

CrmSpec == CrmInit /\ [][CrmNext]_crmVars

-----------------------------------------------------------------------------
(* Safety.                                                                 *)

(***************************************************************************)
(* UpsertContact, "fill blanks only.  Never overwrite a human-known value  *)
(* with a model-extracted one": whatever two runs read before they write,  *)
(* a column of a contact that has a value keeps it.                        *)
(***************************************************************************)
KnownValuesStay ==
    [][\A c \in Contacts : \A column \in Columns :
          contact[c][column] # None => contact'[c] # None /\ contact'[c][column] = contact[c][column]
      ]_crmVars

\* The fields name nobody but by a name.
ByNameOnly(f) == f["email"] = None /\ f["phone"] = None

\* The row has the address or the number of the fields, or their name if that
\* is all there is.
Names(row, f) ==
    \E column \in Identifiers :
        /\ f[column] # None /\ row[column] = f[column]
        /\ column = "name" => ByNameOnly(f)

(***************************************************************************)
(* The contact is resolved before any draft, and no retry or race points   *)
(* the record at somebody else: the record's contact has the address or    *)
(* the number of the enquiry it was created for.  Where the enquiry gave a *)
(* name only, the contact has that name and is no other enquiry's: a name  *)
(* attaches nobody.                                                        *)
(***************************************************************************)
RecordNamesItsSender ==
    \A e \in Enquiries : record[e] # None =>
        /\ Names(contact[record[e].contact], used[e])
        /\ ByNameOnly(used[e]) =>
              \A d \in Enquiries \ {e} : record[d] # None => record[d].contact # record[e].contact

(***************************************************************************)
(* However two workers race, an address belongs to one contact, so the     *)
(* records of its enquiries are found together.                            *)
(***************************************************************************)
OneContactPerAddress ==
    \A c, d \in Contacts :
        contact[c]["email"] # None /\ contact[c]["email"] = contact[d]["email"] => c = d

(***************************************************************************)
(* The owner of a record is of a team the record has had, through every    *)
(* restart of Seed: of its present one, unless a later run overwrote the   *)
(* team, which keeps the owner.                                            *)
(***************************************************************************)
OwnerIsOfTheTeam ==
    \A e \in Enquiries : record[e] # None /\ record[e].owner # None =>
        Roster[user[record[e].owner]].team \in teams[e]

(***************************************************************************)
(* The unique index and the foreign key: however two runs race to create a *)
(* company, and whichever of their transactions fails, a domain belongs to *)
(* one company, and the company of a contact is there.                     *)
(***************************************************************************)
CompaniesAgree ==
    /\ \A c, d \in Firms :
          company[c].domain # None /\ company[c].domain = company[d].domain => c = d
    /\ \A c \in Contacts : contact[c]["company"] # None => contact[c]["company"] \in Firms

(***************************************************************************)
(* crm.go:247, "routing spreads work instead of piling it on one person":  *)
(* runs that pick at the same time may all pick the same person, but that  *)
(* is all: nobody ever has more records than a colleague but for one per   *)
(* worker.  (A user whom a restart left twice has a row that keeps up.)    *)
(***************************************************************************)
WorkIsSpread ==
    boot = "up" =>
        \A u \in Rows : \A p \in People : Roster[p].team = Roster[user[u]].team =>
            \E v \in Rows : user[v] = p /\ Load(u) <= Load(v) + Cardinality(Workers)

(***************************************************************************)
(* dashboard.go:119, "A rep or agent may only approve their own team's     *)
(* outbound message": the message was their team's when the request looked *)
(* at it, and may have moved to another before it was sent, as Approve     *)
(* does not look again.  Nobody of a team it never had decides.            *)
(***************************************************************************)
DecidedByItsTeam ==
    \A e \in Enquiries : decider[e] # None =>
        LET actor == Roster[user[decider[e]]] IN
        actor.role = "ops_admin" \/ actor.team \in teams[e]

-----------------------------------------------------------------------------
(* What the code's comments say and the runs refute.                       *)

(***************************************************************************)
(* crm.go:204, "Raced with another worker on the same email: adopt the     *)
(* winner": a run that meets the winner's contact goes on with it.         *)
(***************************************************************************)
AdoptsTheWinner ==
    [][\A w \in Workers :
          job[w].match = None /\ LoseContact(w) => job'[w].step # "idle"]_crmVars
=============================================================================
