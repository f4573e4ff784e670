# Verification of the enquiry pipeline

TLA+ specifications of this repository's enquiry pipeline: a webhook gateway, a
work queue in Postgres, a pool of workers that classify an enquiry, write the
CRM and draft an answer, and a dashboard where people approve what is sent.
TLC checks the specifications on small instances; TLAPS proves the safety
properties for any number of enquiries, workers and reviewers.

## The system

| Component | State | Operations | Interacts with |
|---|---|---|---|
| Webhook gateway (`internal/api/server.go`, `internal/ingest`) | enquiry.idempotency_key | `handleWebhook`: `Normalize`, `InsertEnquiry` or `EnquiryByIdempotencyKey`, wake | inserts rows, nudges the pool; called by providers until they get a 2xx |
| Work queue (`internal/store/store.go`, `schema.sql`) | `enquiry`: status, attempts, locked_until, next_attempt_at | `InsertEnquiry`, `ClaimEnquiry`, `SetStatus`, `Requeue` | gateway, workers, reviewers all write the row |
| Worker pool (`internal/worker/worker.go`) | goroutines, the one-slot `wake` channel, the claimed enquiry | `loop`, `process`, `run`, `act`, `fail` | queue, providers, CRM, messages |
| Extraction, drafting (`internal/llm`) | none | `Extract` (two tiers), `Ground`, `Trusted`, `DraftReply`, `DraftClarifyingQuestion` | called by `run` and `act` |
| Router (`internal/router`) | none | `Route` | called by `run` |
| CRM (`internal/store/crm.go`) | contact, company, crm_record, duplicate_match_candidate | `MatchContact`, `RecordDuplicateCandidate`, `UpsertContact`, `PickOwner`, `UpsertCRMRecord` | called by `run` and `act`; candidates resolved by reviewers |
| Approval gate (`internal/store/review.go`, `internal/api/dashboard.go`) | message, approval_action | `UpsertDraft`, `Approve`, `ResolveDuplicate`, `handleDecision`, `handleResolveDuplicate` | workers draft, reviewers decide; both write the enquiry |
| Dashboard (`dashboard/app`) | the page a reviewer has open, its editor | read, decide, resolve | the API |
| Process (`cmd/api/main.go`) | up, shutting down, down | start (migrate, seed), SIGTERM, exit, crash | starts and abandons the workers |
| Users (`internal/store/seed.go`, `requireActor`) | app_user, and the ids records, approvals, resolutions and browsers keep | insert all, then delete surplus copies, at each start; sign in; act | seeded before the service is up; owners and reviewers are taken from it |
| Audit, routing rules, configuration, simulator, scripts | append-only rows; a seeded table | best-effort inserts; upserts by name | - |

What makes it hard: every SQL statement is atomic and nothing between two of
them is.  Workers, a worker whose lease ran out, reviewers and the gateway write
the same row; a run is a dozen statements and up to four provider calls, and
may stop after any of them; the answer of a statement that was applied may be
lost; a shutdown cancels the context under every worker and waits for none.
The model need not say on a retry what it said before.

What makes each component correct:

- *Queue and pool*: a processing row can always be claimed again; two workers
  have one enquiry only after a lease ran out or a reviewer requeued it;
  `MAX_ATTEMPTS` bounds the claims; the dead letter comes with the last failure
  and not before; every accepted enquiry comes to rest; no wake signal is missed.
- *Approval gate*: each message is decided at most once, the decision, the
  record of it and the send are one step, and nothing touches it afterwards.
- *Stages*: a reply has its CRM record, an enquiry waiting for approval has its
  draft, one of several copies of an enquiry at most is answered.
- *Extraction and router*: nothing the text does not back finds or fills a
  contact; a record can be reached; only an identifier attaches an enquiry to a
  contact, and to the team the rules name; no unsure verdict is acted upon.
- *Gateway*: two senders are told of one enquiry exactly if their deliveries
  have one key; what makes the key swallows nothing else, and no noise makes two
  enquiries of one; what was delivered is acknowledged, and comes to rest.
- *CRM tables*: whatever runs race, fail or are repeated, an address is one
  contact's and a domain one company's, a value the CRM knows stays, a record
  names the sender it was created for, and no colleague is more than one record
  per worker ahead of another. A record's owner is of its team and its team
  decides on its reply as long as the team stays: a later run may overwrite it,
  so what always holds is that both are of a team the record has had.
- *Users*: whatever starts are cut short, everybody has a row, what points at a
  row finds it, and the only copies left are the ones something points at.

`PROJECT.json` lists every component with what is modelled of it, the hazards
with the property that would catch each, the runs, the theorems, and for every
definition the lines it translates.

## Modules

- **`EnquiryQueue`** - the queue and the pool.  One function per column of
  `enquiry`; one action per statement or per step of `loop`, `process` and
  `fail`.  A run is abstract: it ends in a `SetStatus` (`Finish`), in one whose
  answer is lost (`AnswerLost`) or in an error (`RunFails`).  Time is what the
  statements compare it with: a lease is live or expired, a retry due or not.
  Faults: leases that run out under a live worker (`Overrun`), statements that
  fail with or without effect (`DbError`), `Stop`, `Exit`, `Crash`, `Start`.
  Reviewers write the row (`Decide`, `Resolve`) in any status, as the code does.
- **`ApprovalGate`** - what the gate promises, by itself: draft, redraft, one
  decision.
- **`EnquiryPipeline`** extends `EnquiryQueue` with the stages of `run` and
  `act` (`Begin`, `Dedupe`, `Extract`, `MatchAndRoute`, `WriteContact`,
  `WriteRecord`, `WriteDraft`, `Complete`, `StageFails`), the tables they
  write, and the reviewers (`Read`, `BeginApprove` .. `CommitApprove` around the
  row lock, `ResolveCandidate` then `RequeueResolved`).  Every action
  conjoins the queue's action it is, which is why the refinement below is worth
  checking: the stages must add no step the queue does not have.
- **`Routing`** - the routing decision over classes of answers and kinds of
  match, which is all the stages need of it.
- **`Triage`** - the same part of one run with its data: two providers asked
  (`Tier1Answers`, `Tier1Fails`, `Tier2Answers`, `Tier2Fails`), each answer
  validated, cleaned and checked (`Valid`, `Cleaned`, `Unverified`, `Trusted`),
  the match with its scores (`MatchContact`), the decision with rules, conditions
  and priorities (`Route`, `FirstTarget`), and what `act` writes (`Act`).  Its
  invariant `RoutedAsPlanned` ties it to `Routing` and so to the pipeline.
- **`Normalization`** - `Normalize` and `DedupeHash` as operators: quotes,
  dividers, signatures and invisible runes removed from a text in the code's
  order, the hash of sender and text, the idempotency key. A text is a sequence
  of lines with marks, which is what the patterns look at, and each pattern is
  the set of positions it keeps. Also what its reader takes from a text (`Said`)
  and what does not matter to it (`NoiseApart`), for the properties of `Gateway`.
- **`Gateway`** extends `EnquiryQueue` with the requests of `handleWebhook`:
  `Deliver`, then `Accept`, or `Conflict` and `LookUp`, then `Signal` and
  `Answer`; an insert applied without an answer (`AcceptUnreported`), a request
  broken off (`Break`, `ProcessDies`), and the provider's `Redeliver`. The pool,
  its faults and the process are the queue's own actions.
- **`Staff`** - `app_user` and everything that points at it: `Start`,
  `InsertUser` one statement at a time, `DeleteDuplicates` with its guards and
  the foreign keys it may violate, `Stop` anywhere; `SignIn`, `Own`, `Approve`
  and `Resolve` while the service is up. Ids are numbers given in any order, as
  the code compares random uuids.
- **`Crm`** extends `Staff` with the CRM statements of a run, each an action:
  the three queries of `MatchContact`, `Route`, the transaction of
  `UpsertContact` (`FindCompany`, `InsertCompany`, `WriteContact`,
  `LoseContact`, `CommitContact`: what a transaction has written is in the
  worker's hands until it commits, and others wait for it), `PickOwner`,
  `WriteRecord`, `WriteDraft`; and a reviewer's `CheckTeam` and `DecideReply`.
  Any statement may fail (`RunFails`), and any run may be made again.
- **`EnquiryQueue_proofs`**, **`EnquiryPipeline_proofs`**, **`Triage_proofs`**,
  **`Normalization_proofs`**, **`Gateway_proofs`**, **`Staff_proofs`**,
  **`Crm_proofs`** - the theorems.
- **`MCEnquiryQueue`**, **`MCEnquiryPipeline`** - symmetry for TLC;
  **`MCTriage`**, **`MCGateway`**, **`MCStaff`**, **`MCCrm`** - answers, rules,
  contacts, payloads, users and fields for it.

How they compose: `EnquiryPipeline` and `Gateway` both implement `EnquiryQueue`,
so the queue's theorems hold with the stages behind it and with the webhooks in
front (the instance of `pipeline_gate` has no failed statement, so there a final
`SetStatus` whose answer is lost is the theorem's part, and `queue_safety`'s); `EnquiryPipeline` implements `ApprovalGate`; `Crm` implements `Staff`.
`Crm` opens up the three stages (`MatchAndRoute`, `WriteContact`,
`WriteRecord`) that `EnquiryPipeline` takes as one step each, and leaves to it
which run is made when; `Triage` opens up `Extract` and the routing decision.

Abstractions. A content hash is a member of `Contents`; the model's verdict is
one of four classes, which is all `Route` looks at before the match; a contact
is found exactly, by its name, or not at all; rules either match or not; a
draft is one of `Texts`. `MatchAndRoute` joins the reads and the one write
between the extraction and `act` (`RecordDuplicateCandidate` is the only
statement with an effect among them). In `Triage` a text is the set of things
it states: a value or a quote is in it or invented, which is all `Ground` can
tell; scores and confidences are per cents; the order of rules' names in the
database is a constant of its own, as it need not be Go's. `SaveExtraction` and
the audit rows are read by no stage and are left out. In `Crm` an e-mail
address, a number and a name are values, an attempt is the fields `Trusted`
leaves, which may be a name and nothing else; a similar name is an equal one, as
no similarity attaches; a person's name and company name are one field each; a
number of fewer than seven digits is one of `TooShort`, which finds nobody and
is written all the same. A new row gets any id nobody has, as
ids of contacts, companies and enquiries are only compared for equality; those
of users are ordered, since `Seed` orders them. In `Normalization` the hash is
injective; of the web form's own fields the address is in the text as it was
typed (`Email`), and `name` stands for the others.

The definitions named `...Late`, `...AnyLease`, `...Always` and the like, marked
*Variant*, are mutated forms of the definition that follows them; no
specification uses them.  They show that each property can fail.

## Runs

| Run | Instance | Shows |
|---|---|---|
| `queue_safety` | 1 enquiry, 2 workers, 2 attempts; 1 overrun lease, 1 failed statement, 1 stop or crash, 2 reviewers' writes | the type invariant, the lease, mutual exclusion, the retry budget, the dead letter, no fresh enquiry is left to the ticker (`FreshIsNoticed`), and the inductive invariants `Ownership`, `RetryPotential` |
| `queue_liveness` | the same with one reviewers' write, under `FairSpec` | `EveryEnquirySettles` |
| `pipeline_gate` | 1 enquiry, 2 workers, 1 overrun lease, 2 reviewers with 2 writes | the stages implement the queue (`QueueSpec`) and the gate (`ThroughTheGate`), `PendingHasDraft`, `ReplyHasRecord` |
| `pipeline_twins` | 2 copies of an enquiry, 2 workers, 1 stop or crash | `OneCopyAnswered` |
| `triage` | every answer that differs in at most three arguments from a plain one, from either provider; 18 contact tables, 4 rule tables | `NothingUnbackedIsUsed`, `RecordIsReachable`, `AttachedExactly`, `NoOtherTeam`, `RoutedAsPlanned` |
| `gateway` | 2 deliveries (a mail with a signature, divider and quote, or a web form; six others, from the noisy copy of either to a mail with nothing new), 2 enquiries, 1 worker; 1 broken-off request, 1 stop or crash | `OneEnquiryPerKey`, `NoOtherIsSwallowed`, `NoiseIsOneEnquiry`, and the gateway implements the queue (`Spec`) |
| `gateway_liveness` | one message delivered twice; 1 broken-off request, 1 failed statement, 1 stop or crash, under `FairGatewaySpec` | `EveryDeliveryLands` |
| `crm` | 2 enquiries of one sender whom the CRM knows by phone, the first run twice, 2 workers; 4 contact ids, 2 company ids; 1 team with 1 user, who may get a second row at the second start; 1 browser | `OneContactPerAddress`, `CompaniesAgree`, `KnownValuesStay`, `RecordNamesItsSender`, `OwnerIsOfTheTeam`, `DecidedByItsTeam`; of the users `EverybodyIsThere`, `ReferencesHold`, `TwiceOnlyIfNamed`, `RefusedOnlyByResolution`; and `StaffSpec` |
| `pipeline_one_copy`, `triage_invented`, `crm_winner`, `staff_restart` | the smallest that shows it | a sentence of the repository that the code does not keep (below) |

*Why the bounds are enough.* Rows of the queue interact only through the
workers, so one enquiry with two workers has every race for a row; two are
needed where the property relates two rows (copies of an enquiry; that two
enquiries sharing the one wake signal are noticed is left to the theorem
`FreshAreNoticed`, which has any number of them). Two attempts are a retry and a dead letter; one overrun
lease is a zombie and its successor; one failed statement, one stop and two
reviewers' writes put each fault before, between and after the others. `Aging`
names the enquiries that may outlive the dedupe window: both in
`pipeline_twins`, whose property is about it, none where there is no second
copy. `triage` varies three arguments of an answer at once (an address, its
quote and the confidence, for instance); a property of one run relates at most
that many, and the rule tables have a misspelt condition, a rule that shares
its priority and names the two orders compare differently. `gateway` has two
requests, which is what a race for one key needs, and payloads for each way a
key can be equal or differ; its pool is as small as it can be, since what the
pool does to a row is the queue's matter and `Spec` is checked. `crm` has the
smallest tables in which two runs can find, create and fill the same contact,
and create the same company: the attempts of the two enquiries name the sender by
address (and company), by name only, by address, number and name, and by a number
too short to be looked up; records without a team (an
attachment) stand for a record of another team, as a reviewer's team differs
from both. Two starts put a second row beside each user while the first is
owner, actor or nothing. The theorems have no
such bounds: the counters that hold them are constants of any value. Symmetry
(of enquiries, workers, reviewers) is used in safety runs only, where no
property names one of them.

*Fairness* (`queue_liveness`, `gateway_liveness`).  A goroutine that can run does
(`WorkersProceed`), and so does a webhook handler that has stored its enquiry
(`HandlersProceed`); every provider call has a time-out and the database answers,
so a run ends - nothing says it ever succeeds; the clock moves, so leases,
backoffs and tickers run out (`TimePasses`); `main` exits after the signal, and
somebody starts the service again (`Restarts`; `docker-compose.yml` has no
restart policy, so this is the operator's part).  `gateway_liveness` adds
`RequestsProceed`: a handler goes on while its statements are answered, and a
provider delivers again until it gets a 2xx, which is what the idempotency key is
there for (`store.go:77`, `schema.sql:40`).
Faults are not fair, and bounded.  The properties need all of it: without
`OrphanExpires` an abandoned row stays processing, without `Tick` nobody looks
at a retry whose backoff runs out while the workers sleep, without `Start`
nothing moves after a stop.  That the ticker is not needed for a fresh enquiry is
a safety property, `FreshIsNoticed`: a worker is on its way to the queue, a
signal is in the channel, or a handler is about to send one.

## Where the code and its documents part

Each of these has a run that refutes the sentence:

1. `pipeline_one_copy` - two copies received before either is claimed are each
   discarded as the duplicate of the other, against `store.go:101`.
2. `triage_invented` - an invented e-mail address with a quote of anything in
   the text is matched and written, against `worker.go:135-136`.
3. `crm_winner` - the worker that loses the race for a new contact's address
   does not adopt the winner: the unique violation has aborted its transaction,
   the SELECT fails as well, and the run spends an attempt, against
   `crm.go:204-205`. (It recovers on the retry, which finds the contact.)
4. `staff_restart` - a restart inserts the users again and cannot delete a copy
   that resolved a match, so `Seed` fails and the service does not start,
   against "a restart never duplicates them", `seed.go:12-13`.

These showed while modelling; the models do what the code does, and no run
states the sentence:

- A shutdown requeue spends an attempt (`store.go:125` counts at the claim),
  against `worker.go:270-271`. `RetryBudget` counts such claims apart.
- `main` does not wait for the pool (`main.go:63`), against `main.go:87-88`.
- A resolved match is flagged again by the run that the resolution requeued,
  against `dashboard.go:199-200`.
- A retry that is routed otherwise leaves two messages of different kinds, and
  both can be sent, against `docs/01-PRD.md:51`.
- A restart leaves a user twice when the copy with the larger id owns a record or
  has approved (`seed.go:32-35`), against `seed.go:12-13`; `TwiceOnlyIfNamed`
  says that this is the only way.
- `company_domain_key` fails the whole transaction of the second of two runs that
  create one company (`crm.go:171`); unlike for contacts, no comment promises
  otherwise. That it leaves the tables right is `CompaniesAgree`; companies
  without a domain have no unique name and can be created twice. `ORDER BY (lower(domain) = ...) DESC` puts a company without a
  domain before the one whose domain matches (`crm.go:170`).
- A reply written below the message it answers is cut with it
  (`normalize.go:125`), so two such replies are one enquiry; `NoOtherIsSwallowed`
  excludes exactly these. Invisible runes before a mark hide it from the
  patterns, and the sender's address keeps them, so those two kinds of noise do
  make another enquiry; `NoiseIsOneEnquiry` says so. A client's key is not scoped
  to its channel or sender, and an automatic key, unlike the dedupe window, never
  expires (`normalize.go:92-99`).

- A rep or agent may approve a message that is no longer their team's
  (`dashboard.go:119`): the team is read before `Approve` (`dashboard.go:122`), and
  a run that writes the record again in between overwrites the team
  (`crm.go:240`). It keeps the owner too, who is then of the former team.
  `DecidedByItsTeam` and `OwnerIsOfTheTeam` therefore say "a team the record has
  had", which is all that holds.
- A retry of a run that failed after `UpsertContact` (`worker.go:201`) matches the
  contact its own enquiry created. An enquiry with a name only is then flagged as
  a possible duplicate of itself, and waits for a reviewer.

## Proofs

Assumptions: `QueueAssumption` (`Workers` finite, the bounds naturals,
`MaxAttempts` any natural) and `PipelineAssumption` (`Outcomes` is what `act`
ends in; the texts are distinct from the placeholders); `TriageAssumption` (the
answers, rules and contacts are of their types, thresholds are integers, the
match floor is above 0, as a floor of 0 would match everybody);
`GatewayAssumption` (payloads are payloads, and the placeholder is none of them
nor a key); `StaffAssumption` (the roster is a sequence of users, ids are
naturals); `CrmAssumption` (`Enquiries` and `Workers` finite, the placeholder is
no value or row, an address has a domain or none, and the CRM starts with
contacts that keep the unique index, and without companies). Contents, texts,
deliveries, contacts, companies, browsers and reviewers are any sets, of any
size.

| Theorem | Says |
|---|---|
| `TypeCorrect` | `Spec => []TypeOK` |
| `LeasesAgree` | `[]LeasedWhileProcessing` |
| `OwnershipHolds`, `MutualExclusion` | `[]Ownership`, and from it `[]OneWorkerPerLease` |
| `SettledStays` | `SettledIsFinal`, an action property, from `Ownership` |
| `AccountsHold`, `DeadLetterAfterBudget` | `[]Accounts`, and from it `[]DeadLetterExact` |
| `PotentialHolds`, `ClaimsAreBounded` | `[]RetryPotential`, and from it `[]RetryBudget` |
| `FreshAreNoticed` | `[]FreshIsNoticed`, if there is a worker at all |
| `PipelineTypeCorrect` | the pipeline's types, and the agreement of stage, plan and program counter |
| `PipelineImplementsQueue` | `PipelineSpec => QueueSpec`: all of the above holds of the pipeline |
| `PipelineKeepsTheQueue` | the lease, mutual exclusion, dead letter, retry budget and `FreshIsNoticed`, stated of the pipeline itself |
| `LocksHold`, `GateHolds` | a locked message is pending and locked once; `PipelineSpec => ThroughTheGate` |
| `CopiesAnsweredOnce` | `[]OneCopyAnswered` |
| `RepliesHaveRecords`, `PendingHasDrafts` | `[]ReplyHasRecord`, `[]PendingHasDraft` |
| `TriageTypeCorrect`, `DerivationHolds` | the types of a run, and `[]Derived` |
| `UnbackedIsUnused`, `RecordsAreReachable`, `AttachmentsAreExact`, `TeamsAgree` | `[]NothingUnbackedIsUsed`, `[]RecordIsReachable`, `[]AttachedExactly`, `[]NoOtherTeam`, for any answers, contacts and rules |
| `RoutesAsPlanned` | `[]RoutedAsPlanned` |
| `GatewayTypeCorrect`, `GatewayImplementsQueue` | the gateway's types; `GatewaySpec => Spec`: the queue's theorems hold behind it |
| `GatewayKeepsTheQueue` | the same five, stated of the gateway, whose handlers are part of `FreshIsNoticed` |
| `RedeliveryIsNoOp` | `[]OneEnquiryPerKey`, for any deliveries and any overlap |
| `NothingSaidIsLost`, `NoiseIsNotHashed` | of payloads of any length: the normalized text of one that is not answered below its divider says what the payload says; payloads that differ in noise only have one hash |
| `NothingElseIsSwallowed`, `NoiseMakesNoEnquiry` | `[]NoOtherIsSwallowed`, `[]NoiseIsOneEnquiry`, from these |
| `StaffTypeCorrect`, `EverybodyStays`, `ReferencesStay`, `CopiesAreNamed`, `OnlyResolutionsRefuse` | the users' types, `[]EverybodyIsThere`, `[]ReferencesHold`, `[]TwiceOnlyIfNamed`, `[]RefusedOnlyByResolution`, for any roster and any number of starts |
| `CrmImplementsStaff`, `UsersHold` | `CrmSpec => StaffSpec`, and with it those four of the CRM, with the runs and reviewers as well |
| `CrmTypeCorrect` | the types of the CRM tables, the runs and the requests |
| `AddressesAreUnique`, `KnownValuesKept` | `[]OneContactPerAddress`, and the action property `KnownValuesStay` |
| `CompaniesStayApart` | `[]CompaniesAgree`: a domain is one company's, and a contact's company exists |
| `RecordsNameSenders` | `[]RecordNamesItsSender` |
| `OwnersAreOfTheTeam`, `TeamsDecide` | `[]OwnerIsOfTheTeam`, `[]DecidedByItsTeam` |
| `WorkStaysSpread` | `[]WorkIsSpread`: while the service is up, nobody has more records than a colleague of the team but for one per worker |

*The arguments.*  Mutual exclusion is not inductive: that two workers hold an
enquiry says nothing of how they came to it.  `Ownership` is: while no lease of
the enquiry has run out and no reviewer has requeued it, the worker that has it
knows the row's attempt number and the row is processing (or was settled over
its head), so no claim of it is possible.  `Accounts` adds the books of an
undisturbed enquiry - every attempt but the current one has failed - which
gives the dead letter exactly.  `RetryBudget` must hold even for workers with a
lost lease, whose attempt numbers are stale; `RetryPotential` counts the
requeues such workers may still make: each claim below the budget creates at
most one, each is spent at most once, so attempts made plus requeues possible
never exceed the budget plus the excused claims.  The gate needs `RowLocked`
(`FOR UPDATE` as an invariant); the copies need `OneCopyPasses`, over what has
got past deduplication and not over messages only, with `ArrivedFirst`; the
draft needs `DraftFirst` and the record `RecordFirst`, which speak of the runs
about to write.  In `Triage`, `Derived` says that match, plan, contact and team
all come from the extraction the run ended up with; the rest is about the
operators (a trusted field is backed; a matching rule that none precedes exists,
by the least elements of sets of naturals, and no order of names changes which
where priorities differ).

`GatewayImplementsQueue` maps every step of a request to the queue's `Insert`,
`InsertUnreported`, `Wake` or nothing; `RedeliveryIsNoOp` needs that a row's key
never changes and that an enquiry found by a request has the request's key.
`NothingElseIsSwallowed` rests on the text: each removal keeps a set of positions,
what is said lies within it, and a position is counted by those kept before it, so
the lines picked are the lines kept, in order and each once. Equal hashes then
are equal texts up to case, which say the same. `NoiseMakesNoEnquiry` follows the
same removals side by side: no pattern tells the two payloads apart, so they keep
the same positions. None of this needs induction over the lines, as nothing in
`Normalization` is defined by recursion.

`EverybodyStays` needs the copy with the least id, which exists as the ids are
naturals and which the DELETE spares by its own condition; the rest of `Staff`
follows from the DELETE's guards against what each statement adds. In `Crm`,
that two contacts never share an address is not inductive, and neither is that a
value stays: both need `Locks`, over the rows open transactions have written -
they have different targets and addresses, nobody committed has their address,
and what their target held when they were built it still holds. `Matched` (who
was found is still there) and `JobShape` (what a run has agrees with where it
is) are what types need. `RecordNamesItsSender` needs `Identified`: a run that
found somebody, or is about to write, or has written, names its sender - which
lasts because values stay. That a contact created from a name is no other
enquiry's needs `Alone`: a contact of which only the name is known is in the hands
of the run that created it or in the one record that run wrote, as a name
attaches nobody and the ids of rows under way differ. The owner needs `Owned`, the reviewer `Decided`: a
request that has checked the team stays of a team the record has had because a
user's row does not change while the service is up, and because the teams a
record has had only grow.

Companies need `CompanyLocks`: those that open transactions have inserted have ids
and domains of their own, and what a run, a write or a contact names is there or
comes with the commit. (`InsertCompany` takes an id that no row and no open
transaction has; a guard that only asked for one id among the rows' was too weak,
which this proof showed.) The spread of work is not inductive, as a pick is made
long before the record counts. `Levelled` is: a pick not yet written counts as a
record of its user, and the burden of each user is at most the records of each
colleague and one for every worker - the user picked had no more records than
any colleague, and no more than all workers can have picked it. Restarts need
`AllOrNone`, nobody owns before everybody is there, and a copy with records is
spared by the DELETE. The bound cannot be smaller: with one less, TLC finds a
counterexample with two users, two workers and three enquiries.

Only model-checked: the liveness properties `EveryEnquirySettles` and
`EveryDeliveryLands` (fairness and `ENABLED` are outside the prover's reach). The
four sentences above are refuted by TLC and have no theorem. Only proved:
`WorkIsSpread`, as a team of two and three enquiries beside what `crm` needs is
more states than a run can visit (the statement was explored with smaller tables,
two users, three enquiries and two workers, before it was proved), and
`Accounts`, the inductive form of `DeadLetterExact`, which the runs check.

## Not modelled, and why

Prompts, how a response is parsed, and what the regular expressions accept
within a line are text and stay out; spam hits are written to the audit log and
change no decision. Drafting is two provider calls with a fall-back and no state:
a draft is a text or an error. Audit rows are appended best-effort and no code
reads them but the dashboard. Webhook signatures, the API's bearer token and CORS
are checks without state of their own. Migration, configuration, the simulator,
the scripts and the read-only queries change nothing the properties speak of.
The routing rules `Seed` upserts by name change only where the file does; the
rules in force are a constant of `Triage`. Of the CRM rows, the industry, the
type and the stage are set from the extraction and read by nothing modelled.

## Plan

What is left, in this order:

1. The dashboard's editor (`page.tsx:80`) and the text an approval is bound to:
   the hazards at `review.go:75` and `page.tsx:80` have no property, as the code
   compares nothing and no document promises it does.
2. The refinement of `Crm` into `EnquiryPipeline`: a run's CRM steps as the
   stages `MatchAndRoute`, `WriteContact` and `WriteRecord`, which would carry
   the theorems about leases and retries over to the tables.
3. The routing rules over restarts, with a file that changes between them.
