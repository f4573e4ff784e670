---------------------------- MODULE EnquiryQueue ----------------------------
(***************************************************************************)
(* The Postgres-backed work queue and the worker pool that drains it:      *)
(* internal/worker/worker.go over the queue statements of                  *)
(* internal/store/store.go, started and stopped by cmd/api/main.go.        *)
(*                                                                         *)
(* The `enquiry` table is a function per column.  Each SQL statement is one *)
(* atomic step, as it is in Postgres; between two statements of one worker *)
(* anything else may happen.  What the stages do to an enquiry is left to  *)
(* module EnquiryPipeline: here a run ends in the SetStatus of one of      *)
(* Outcomes, or in an error.                                               *)
(*                                                                         *)
(* Time is abstracted to what the statements compare it with: a lease      *)
(* (locked_until) is live or expired, a retry (next_attempt_at) is due or  *)
(* not.                                                                    *)
(***************************************************************************)
EXTENDS Integers, FiniteSets

CONSTANTS
    Enquiries,      \* rows that may be inserted
    Workers,        \* the goroutines of Pool.Run (WORKER_COUNT)
    None,           \* "no enquiry": the nil *model.Enquiry
    Outcomes,       \* the statuses in which a run may end
    MaxAttempts,    \* cfg.MaxAttempts; config.validate accepts any number
    MaxOverruns,    \* bound: leases that expire while their worker still runs
    MaxDbErrors,    \* bound: statements that fail while the process is up
    MaxStops,       \* bound: shutdowns and crashes
    MaxReviews      \* bound: reviewers' writes to one enquiry

ASSUME QueueAssumption ==
    /\ None \notin Enquiries
    /\ IsFiniteSet(Workers)
    /\ Outcomes \subseteq {"discarded_duplicate", "archived_junk",
                           "needs_human_review", "pending_approval"}
    /\ Outcomes # {}
    /\ MaxAttempts \in Nat
    /\ MaxOverruns \in Nat
    /\ MaxDbErrors \in Nat
    /\ MaxStops \in Nat
    /\ MaxReviews \in Nat

VARIABLES
    status,     \* enquiry.status; "absent" before the row is inserted
    attempts,   \* enquiry.attempts
    lease,      \* enquiry.locked_until: "none" (NULL), "live", "expired"
    due,        \* enquiry.next_attempt_at <= now()
    proc,       \* the process: "up", "stopping" (its context cancelled), "down"
    pc,         \* where each worker is in loop / process / fail
    held,       \* the enquiry each worker has in its hands
    tries,      \* e.Attempts as ClaimEnquiry returned it to that worker
    wake,       \* the one-slot channel p.wake holds a signal
    nudges,     \* webhook handlers that have inserted and not yet called wake()
    overruns, dbErrors, stops,  \* how much of each fault bound is used
    \* History: no guard reads it but the bound on reviews.
    reclaims,   \* claims of an expired lease
    releases,   \* shutdown requeues
    failures,   \* runs that ended in a processing failure
    lost,       \* final SetStatus statements applied but reported as an error
    decisions,  \* messages of the enquiry a reviewer decided on
    requeues    \* reviewers' requeues

row == <<status, attempts, lease, due>>
local == <<pc, held, tries>>
faults == <<overruns, dbErrors, stops>>
reviews == <<decisions, requeues>>
hist == <<reclaims, releases, failures, lost, reviews>>
vars == <<row, proc, local, wake, nudges, faults, hist>>

(***************************************************************************)
(* "Settled" is every status the worker leaves alone: a run's outcome, the *)
(* dead letter, or what a reviewer's decision makes of the enquiry.        *)
(***************************************************************************)
Decided == {"sent", "needs_human_review"}
Settled == Outcomes \cup {"failed"} \cup Decided
Statuses == {"absent", "received", "processing"} \cup Settled

Busy == {"run", "release", "fail"}

TypeOK ==
    /\ status \in [Enquiries -> Statuses]
    /\ attempts \in [Enquiries -> Nat]
    /\ lease \in [Enquiries -> {"none", "live", "expired"}]
    /\ due \in [Enquiries -> BOOLEAN]
    /\ proc \in {"up", "stopping", "down"}
    /\ pc \in [Workers -> {"off", "claim", "sleep"} \cup Busy]
    /\ held \in [Workers -> Enquiries \cup {None}]
    /\ \A w \in Workers : pc[w] \in Busy <=> held[w] # None
    /\ proc = "down" => \A w \in Workers : pc[w] = "off"
    /\ tries \in [Workers -> Nat]
    /\ wake \in BOOLEAN
    /\ nudges \subseteq Enquiries
    /\ overruns \in Nat /\ dbErrors \in Nat /\ stops \in Nat
    /\ reclaims \in [Enquiries -> Nat]
    /\ releases \in [Enquiries -> Nat]
    /\ failures \in [Enquiries -> Nat]
    /\ lost \in [Enquiries -> Nat]
    /\ decisions \in [Enquiries -> Nat]
    /\ requeues \in [Enquiries -> Nat]

Init ==
    /\ status = [e \in Enquiries |-> "absent"]
    /\ attempts = [e \in Enquiries |-> 0]
    /\ lease = [e \in Enquiries |-> "none"]
    /\ due = [e \in Enquiries |-> FALSE]
    /\ proc = "up"
    /\ pc = [w \in Workers |-> "claim"]
    /\ held = [w \in Workers |-> None]
    /\ tries = [w \in Workers |-> 0]
    /\ wake = FALSE
    /\ nudges = {}
    /\ overruns = 0 /\ dbErrors = 0 /\ stops = 0
    /\ reclaims = [e \in Enquiries |-> 0]
    /\ releases = [e \in Enquiries |-> 0]
    /\ failures = [e \in Enquiries |-> 0]
    /\ lost = [e \in Enquiries |-> 0]
    /\ decisions = [e \in Enquiries |-> 0]
    /\ requeues = [e \in Enquiries |-> 0]

-----------------------------------------------------------------------------
(* The statements of store.go on one row.                                  *)

\* Variants that break a property, used only to test the properties: the lease
\* is not compared, the status is not, and a crashed worker's row is not taken.
ClaimableAnyLease(e) ==
    \/ status[e] = "received" /\ due[e]
    \/ status[e] = "processing"

ClaimableAnyStatus(e) ==
    \/ status[e] # "processing" /\ due[e]
    \/ status[e] = "processing" /\ lease[e] = "expired"

ClaimableOnlyReceived(e) ==
    status[e] = "received" /\ due[e]

\* ORDER BY received_at is a preference and not a promise: SKIP LOCKED passes
\* over a row another statement is holding, so any due row may be the one taken.
Claimable(e) ==
    \/ status[e] = "received" /\ due[e]
    \/ status[e] = "processing" /\ lease[e] = "expired"

ClaimRow(e) ==
    /\ status' = [status EXCEPT ![e] = "processing"]
    /\ attempts' = [attempts EXCEPT ![e] = @ + 1]
    /\ lease' = [lease EXCEPT ![e] = "live"]
    /\ reclaims' = [reclaims EXCEPT ![e] = IF lease[e] = "expired" THEN @ + 1 ELSE @]
    /\ UNCHANGED <<due, releases, failures, lost, reviews>>

\* Variant: locked_until is not cleared.
SetStatusKeepingLease(e, s) ==
    /\ status' = [status EXCEPT ![e] = s]
    /\ UNCHANGED <<attempts, lease, due>>

SetStatus(e, s) ==
    /\ status' = [status EXCEPT ![e] = s]
    /\ lease' = [lease EXCEPT ![e] = "none"]
    /\ UNCHANGED <<attempts, due>>

\* Variant: a status of its own for retries, which no other statement knows.
RequeueAsRetrying(e, now) ==
    /\ status' = [status EXCEPT ![e] = "retrying"]
    /\ lease' = [lease EXCEPT ![e] = "none"]
    /\ due' = [due EXCEPT ![e] = now]
    /\ UNCHANGED attempts

Requeue(e, now) ==
    /\ status' = [status EXCEPT ![e] = "received"]
    /\ lease' = [lease EXCEPT ![e] = "none"]
    /\ due' = [due EXCEPT ![e] = now]
    /\ UNCHANGED attempts

\* A statement is reported as failed: at any time once the context is
\* cancelled, and a bounded number of times while the process is up.
DbError ==
    \/ /\ proc = "stopping"
       /\ UNCHANGED faults
    \/ /\ proc = "up"
       /\ dbErrors < MaxDbErrors
       /\ dbErrors' = dbErrors + 1
       /\ UNCHANGED <<overruns, stops>>

-----------------------------------------------------------------------------
(* The webhook: InsertEnquiry commits, then the pool is nudged.            *)

InsertRow(e) ==
    /\ proc # "down"
    /\ status[e] = "absent"
    /\ status' = [status EXCEPT ![e] = "received"]
    /\ due' = [due EXCEPT ![e] = TRUE]
    /\ UNCHANGED <<attempts, lease, proc, local, wake, hist>>

\* Variant: the pool is nudged before the row is committed.
InsertUnannounced(e) ==
    /\ InsertRow(e)
    /\ UNCHANGED <<nudges, faults>>

Insert(e) ==
    /\ InsertRow(e)
    /\ nudges' = nudges \cup {e}
    /\ UNCHANGED faults

\* The INSERT is applied and reported as failed: the handler answers 500 and
\* leaves the row to the ticker.
InsertUnreported(e) ==
    /\ InsertRow(e)
    /\ DbError
    /\ UNCHANGED nudges

\* Pool.Wake: a non-blocking send; a full channel swallows the signal.
Wake(e) ==
    /\ e \in nudges
    /\ nudges' = nudges \ {e}
    /\ wake' = TRUE
    /\ UNCHANGED <<row, proc, pc, held, tries, faults, hist>>

-----------------------------------------------------------------------------
(* Pool.loop: claim until the queue is empty, then sleep.                  *)

Claim(w, e) ==
    /\ proc = "up"
    /\ pc[w] = "claim"
    /\ Claimable(e)
    /\ ClaimRow(e)
    /\ pc' = [pc EXCEPT ![w] = "run"]
    /\ held' = [held EXCEPT ![w] = e]
    /\ tries' = [tries EXCEPT ![w] = attempts[e] + 1]
    /\ UNCHANGED <<proc, wake, nudges, faults>>

ClaimNothing(w) ==
    /\ proc = "up"
    /\ pc[w] = "claim"
    /\ \A e \in Enquiries : ~Claimable(e)
    /\ pc' = [pc EXCEPT ![w] = "sleep"]
    /\ UNCHANGED <<row, proc, held, tries, wake, nudges, faults, hist>>

\* ClaimEnquiry returns an error, and its UPDATE may have been applied all the
\* same: then the row is leased to nobody.  The loop sleeps, or returns when
\* the context is cancelled.
ClaimFails(w) ==
    /\ pc[w] = "claim"
    /\ DbError
    /\ \/ UNCHANGED <<row, hist>>
       \/ \E e \in Enquiries : Claimable(e) /\ ClaimRow(e)
    /\ pc' = [pc EXCEPT ![w] = IF proc = "up" THEN "sleep" ELSE "off"]
    /\ UNCHANGED <<proc, held, tries, wake, nudges>>

TakeWake(w) ==
    /\ proc # "down"
    /\ pc[w] = "sleep"
    /\ wake
    /\ wake' = FALSE
    /\ pc' = [pc EXCEPT ![w] = "claim"]
    /\ UNCHANGED <<row, proc, held, tries, nudges, faults, hist>>

Tick(w) ==
    /\ proc # "down"
    /\ pc[w] = "sleep"
    /\ pc' = [pc EXCEPT ![w] = "claim"]
    /\ UNCHANGED <<row, proc, held, tries, wake, nudges, faults, hist>>

\* <-ctx.Done() in the select, or in the error branch of the claim.
Return(w) ==
    /\ proc = "stopping"
    /\ pc[w] = "sleep"
    /\ pc' = [pc EXCEPT ![w] = "off"]
    /\ UNCHANGED <<row, proc, held, tries, wake, nudges, faults, hist>>

-----------------------------------------------------------------------------
(* Pool.process: run, and fail when run returns an error.                  *)

\* Variant: one claim per signal, without draining the queue.
BackToSleep(w) ==
    /\ pc' = [pc EXCEPT ![w] = "sleep"]
    /\ held' = [held EXCEPT ![w] = None]
    /\ tries' = [tries EXCEPT ![w] = 0]

BackToLoop(w) ==
    /\ pc' = [pc EXCEPT ![w] = "claim"]
    /\ held' = [held EXCEPT ![w] = None]
    /\ tries' = [tries EXCEPT ![w] = 0]

Finish(w, s) ==
    /\ proc = "up"
    /\ pc[w] = "run"
    /\ SetStatus(held[w], s)
    /\ BackToLoop(w)
    /\ UNCHANGED <<proc, wake, nudges, faults, hist>>

\* The error run returns is context.Canceled only after the shutdown signal,
\* and even then another error may come first.
ToFail(w) ==
    \/ /\ proc = "stopping"
       /\ pc' = [pc EXCEPT ![w] = "release"]
       /\ UNCHANGED failures
    \/ /\ pc' = [pc EXCEPT ![w] = "fail"]
       /\ failures' = [failures EXCEPT ![held[w]] = @ + 1]

\* A stage before the final SetStatus returns an error.
RunFails(w) ==
    /\ proc # "down"
    /\ pc[w] = "run"
    /\ ToFail(w)
    /\ UNCHANGED <<row, proc, held, tries, wake, nudges, faults, reclaims, releases, lost, reviews>>

\* The final SetStatus is applied, and its answer is lost.
AnswerLost(w, s) ==
    /\ pc[w] = "run"
    /\ DbError
    /\ SetStatus(held[w], s)
    /\ ToFail(w)
    /\ lost' = [lost EXCEPT ![held[w]] = @ + 1]
    /\ UNCHANGED <<proc, held, tries, wake, nudges, reclaims, releases, reviews>>

-----------------------------------------------------------------------------
(* Pool.fail.                                                              *)

\* Cancelled by a shutdown: requeue, with a context of its own.
Release(w) ==
    /\ proc # "down"
    /\ pc[w] = "release"
    /\ Requeue(held[w], TRUE)
    /\ releases' = [releases EXCEPT ![held[w]] = @ + 1]
    /\ BackToLoop(w)
    /\ UNCHANGED <<proc, wake, nudges, faults, reclaims, failures, lost, reviews>>

\* Variants: one attempt too many, one too few.
BudgetSpentLate(w) == tries[w] > MaxAttempts

BudgetSpentEarly(w) == tries[w] + 1 >= MaxAttempts

BudgetSpent(w) == tries[w] >= MaxAttempts

DeadLetter(w) ==
    /\ proc = "up"
    /\ pc[w] = "fail"
    /\ BudgetSpent(w)
    /\ SetStatus(held[w], "failed")
    /\ BackToLoop(w)
    /\ UNCHANGED <<proc, wake, nudges, faults, hist>>

Retry(w) ==
    /\ proc = "up"
    /\ pc[w] = "fail"
    /\ ~BudgetSpent(w)
    /\ Requeue(held[w], FALSE)
    /\ BackToLoop(w)
    /\ UNCHANGED <<proc, wake, nudges, faults, hist>>

\* The SetStatus or the Requeue fails (the one of Release by its five seconds
\* or by st.Close); `_ =` drops the error and the row stays processing.
FailNotRecorded(w) ==
    /\ pc[w] \in {"release", "fail"}
    /\ DbError
    /\ BackToLoop(w)
    /\ UNCHANGED <<row, proc, wake, nudges, hist>>

-----------------------------------------------------------------------------
(* The reviewers' statements on the row.  Approve and ResolveDuplicate look *)
(* at a message or a match candidate, which some run has left behind, and   *)
(* never at the enquiry: the row may be in any status, a worker's included. *)

Reviewable(e) ==
    /\ proc # "down"
    /\ attempts[e] > 0
    /\ decisions[e] + requeues[e] < MaxReviews

\* Approve: status only, locked_until is left as it is.
Decide(e, s) ==
    /\ Reviewable(e)
    /\ status' = [status EXCEPT ![e] = s]
    /\ decisions' = [decisions EXCEPT ![e] = @ + 1]
    /\ UNCHANGED <<attempts, lease, due, proc, local, wake, nudges, faults,
                   reclaims, releases, failures, lost, requeues>>

\* handleResolveDuplicate: Requeue, then s.wake().
Resolve(e) ==
    /\ Reviewable(e)
    /\ Requeue(e, TRUE)
    /\ nudges' = nudges \cup {e}
    /\ requeues' = [requeues EXCEPT ![e] = @ + 1]
    /\ UNCHANGED <<proc, local, wake, faults,
                   reclaims, releases, failures, lost, decisions>>

-----------------------------------------------------------------------------
(* Time.                                                                   *)

Orphaned(e) == \A w \in Workers : pc[w] \in Busy => held[w] # e

LeaseExpires(e) ==
    /\ lease[e] = "live"
    /\ lease' = [lease EXCEPT ![e] = "expired"]
    /\ UNCHANGED <<status, attempts, due, proc, local, wake, nudges, hist>>

\* The worker that took the lease is gone.
OrphanExpires(e) ==
    /\ Orphaned(e)
    /\ LeaseExpires(e)
    /\ UNCHANGED faults

\* A run outlasts cfg.LockTTL: four provider calls of LLM_TIMEOUT each and the
\* statements between them, which have no time-out, may.
Overrun(e) ==
    /\ ~Orphaned(e)
    /\ overruns < MaxOverruns
    /\ LeaseExpires(e)
    /\ overruns' = overruns + 1
    /\ UNCHANGED <<dbErrors, stops>>

BackoffElapses(e) ==
    /\ status[e] = "received"
    /\ ~due[e]
    /\ due' = [due EXCEPT ![e] = TRUE]
    /\ UNCHANGED <<status, attempts, lease, proc, local, wake, nudges, faults, hist>>

-----------------------------------------------------------------------------
(* The process.                                                            *)

MayStop ==
    /\ stops < MaxStops
    /\ stops' = stops + 1
    /\ UNCHANGED <<overruns, dbErrors>>

\* SIGTERM: signal.NotifyContext cancels the context every worker runs under.
Stop ==
    /\ proc = "up"
    /\ MayStop
    /\ proc' = "stopping"
    /\ UNCHANGED <<row, local, wake, nudges, hist>>

ProcessEnds ==
    /\ proc' = "down"
    /\ pc' = [w \in Workers |-> "off"]
    /\ held' = [w \in Workers |-> None]
    /\ tries' = [w \in Workers |-> 0]
    /\ nudges' = {}
    /\ UNCHANGED <<row, wake, hist>>

\* main returns from srv.Shutdown, which waits fifteen seconds for the webhook
\* handlers and not at all for pool.Run: a worker may be anywhere.
Exit ==
    /\ proc = "stopping"
    /\ ProcessEnds
    /\ UNCHANGED faults

Crash ==
    /\ proc # "down"
    /\ MayStop
    /\ ProcessEnds

Start ==
    /\ proc = "down"
    /\ proc' = "up"
    /\ pc' = [w \in Workers |-> "claim"]
    /\ wake' = FALSE
    /\ UNCHANGED <<row, held, tries, nudges, faults, hist>>

-----------------------------------------------------------------------------

WorkerStep(w) ==
    \/ \E e \in Enquiries : Claim(w, e)
    \/ ClaimNothing(w)
    \/ ClaimFails(w)
    \/ TakeWake(w)
    \/ Tick(w)
    \/ Return(w)
    \/ \E s \in Outcomes : Finish(w, s) \/ AnswerLost(w, s)
    \/ RunFails(w)
    \/ Release(w)
    \/ DeadLetter(w)
    \/ Retry(w)
    \/ FailNotRecorded(w)

RowStep(e) ==
    \/ Insert(e)
    \/ InsertUnreported(e)
    \/ Wake(e)
    \/ OrphanExpires(e)
    \/ Overrun(e)
    \/ BackoffElapses(e)
    \/ \E s \in Decided : Decide(e, s)
    \/ Resolve(e)

Next ==
    \/ \E w \in Workers : WorkerStep(w)
    \/ \E e \in Enquiries : RowStep(e)
    \/ Stop
    \/ Exit
    \/ Crash
    \/ Start

(***************************************************************************)
(* What the scheduling justifies.  A goroutine that can run does; every    *)
(* provider call has a time-out and the database answers, so a run ends;   *)
(* the clock moves, so leases, backoffs and tickers expire; main exits     *)
(* after the signal and the operator starts it again.  Nothing says a run  *)
(* ever succeeds.                                                          *)
(***************************************************************************)
WorkersProceed == \A w \in Workers :
    /\ WF_vars((\E e \in Enquiries : Claim(w, e)) \/ ClaimNothing(w))
    /\ WF_vars(TakeWake(w))
    /\ WF_vars(RunFails(w) \/ \E s \in Outcomes : Finish(w, s))
    /\ WF_vars(Release(w) \/ DeadLetter(w) \/ Retry(w))

HandlersProceed == \A e \in Enquiries : WF_vars(Wake(e))

TimePasses ==
    /\ \A w \in Workers : WF_vars(Tick(w))
    /\ \A e \in Enquiries : WF_vars(OrphanExpires(e)) /\ WF_vars(BackoffElapses(e))

Restarts == WF_vars(Exit) /\ WF_vars(Start)

Spec == Init /\ [][Next]_vars

FairSpec == Spec /\ WorkersProceed /\ HandlersProceed /\ TimePasses /\ Restarts

-----------------------------------------------------------------------------
(* Safety.                                                                 *)

(***************************************************************************)
(* A processing row has a lease: without one it would match neither arm of *)
(* ClaimEnquiry and be lost.  No other row has one, so that the second arm *)
(* takes back only abandoned work, but where a reviewer's decision, which  *)
(* leaves the lease alone, overtook the worker.                            *)
(***************************************************************************)
LeasedWhileProcessing ==
    \A e \in Enquiries :
        /\ status[e] = "processing" => lease[e] # "none"
        /\ lease[e] # "none" => status[e] = "processing" \/ decisions[e] > 0

(***************************************************************************)
(* FOR UPDATE SKIP LOCKED and the lease keep workers apart: two of them    *)
(* have the same enquiry only if its lease ran out on one of them or a     *)
(* reviewer put the row back in the queue.                                 *)
(***************************************************************************)
OneWorkerPerLease ==
    \A e \in Enquiries : \A v, w \in Workers :
        v # w /\ pc[v] \in Busy /\ pc[w] \in Busy /\ held[v] = e /\ held[w] = e
            => reclaims[e] > 0 \/ requeues[e] > 0

(***************************************************************************)
(* MAX_ATTEMPTS bounds the claims of an enquiry, whatever workers with a   *)
(* lost lease do to the row, but for one claim for each expired lease,     *)
(* each shutdown requeue and each reviewer's requeue.  (The code tests     *)
(* attempts after a failure, so one attempt is made even if MAX_ATTEMPTS   *)
(* is 0.)                                                                  *)
(***************************************************************************)
Budget == IF MaxAttempts = 0 THEN 1 ELSE MaxAttempts

RetryBudget ==
    \A e \in Enquiries :
        attempts[e] <= Budget + reclaims[e] + releases[e] + requeues[e]

Undisturbed(e) ==
    /\ reclaims[e] = 0 /\ releases[e] = 0 /\ lost[e] = 0
    /\ decisions[e] = 0 /\ requeues[e] = 0

(***************************************************************************)
(* fail() dead-letters an enquiry when its budget is spent, not before and *)
(* not after: undisturbed, it failed exactly Budget times, and an enquiry  *)
(* waiting for a retry has failed fewer times.                             *)
(***************************************************************************)
DeadLetterExact ==
    \A e \in Enquiries : Undisturbed(e) =>
        /\ status[e] = "failed" => failures[e] = Budget
        /\ status[e] = "received" => failures[e] < Budget

(***************************************************************************)
(* A settled enquiry stays as it is until a reviewer acts on it: only a    *)
(* worker whose lease ran out, whose row a reviewer took from under it, or *)
(* whose final statement was answered with an error, moves it again.       *)
(***************************************************************************)
SettledIsFinal ==
    [][\A e \in Enquiries :
          status[e] \in Settled /\ Undisturbed(e)
            => \/ UNCHANGED <<status[e], attempts[e], lease[e]>>
               \/ decisions'[e] > 0 \/ requeues'[e] > 0]_vars

\* No run has failed it; and somebody will look at the queue.
Fresh(e) == status[e] = "received" /\ failures[e] = 0

Alert == wake \/ nudges # {} \/ \E w \in Workers : pc[w] \in {"claim"} \cup Busy

(***************************************************************************)
(* Pool.Wake: "dropping the extra signal loses nothing".  While every      *)
(* claim is answered, an enquiry that no run has failed is never left to   *)
(* the ticker: a worker is on its way to the queue, a signal is in the     *)
(* channel, or a handler is about to send one, although the channel holds  *)
(* one signal and one signal rouses one worker.                            *)
(***************************************************************************)
FreshIsNoticed ==
    proc = "up" /\ dbErrors = 0 /\ (\E e \in Enquiries : Fresh(e)) => Alert

-----------------------------------------------------------------------------
(* The inductive invariants behind the safety properties.                  *)

\* Only a failed run makes an enquiry wait.
FreshIsDue == \A e \in Enquiries : Fresh(e) => due[e]

(***************************************************************************)
(* While no lease of e has run out and no reviewer has requeued it, the    *)
(* worker that has e is the only one, knows its attempt number, and has    *)
(* the row to itself: the row is processing, or was settled by a reviewer  *)
(* or by the statement whose answer was lost.                              *)
(***************************************************************************)
Ownership ==
    \A e \in Enquiries : \A w \in Workers :
        held[w] = e /\ reclaims[e] = 0 /\ requeues[e] = 0 =>
            /\ tries[w] = attempts[e]
            /\ \A v \in Workers : held[v] = e => v = w
            /\ \/ status[e] = "processing"
               \/ decisions[e] > 0 /\ status[e] \in Settled
               \/ lost[e] > 0 /\ status[e] \in Settled /\ pc[w] # "run"

(***************************************************************************)
(* The books of an undisturbed enquiry: every attempt but the one under    *)
(* way has failed.                                                         *)
(***************************************************************************)
Accounts ==
    \A e \in Enquiries : Undisturbed(e) =>
        /\ status[e] = "absent" => attempts[e] = 0 /\ failures[e] = 0
        /\ status[e] = "received" => attempts[e] = failures[e] /\ failures[e] < Budget
        /\ status[e] = "processing" =>
              /\ attempts[e] \in 1..Budget
              /\ \A w \in Workers : held[w] = e =>
                    failures[e] = IF pc[w] = "fail" THEN attempts[e] ELSE attempts[e] - 1
        /\ status[e] = "failed" => failures[e] = Budget

(***************************************************************************)
(* A worker that may still requeue e for a retry holds one of the Budget   *)
(* attempts that end in one; so does an attempt not made yet.  Each is     *)
(* spent at most once, which is what bounds the claims.                    *)
(***************************************************************************)
Retriers(e) ==
    {w \in Workers : held[w] = e /\ pc[w] \in {"run", "fail"} /\ tries[w] < MaxAttempts}

RetryPotential ==
    \A e \in Enquiries :
        (IF attempts[e] >= Budget THEN attempts[e] ELSE Budget - 1)
          + (IF status[e] \in {"absent", "received"} THEN 1 ELSE 0)
          + Cardinality(Retriers(e))
        <= Budget + reclaims[e] + releases[e] + requeues[e]

-----------------------------------------------------------------------------
(* Liveness.                                                               *)

(***************************************************************************)
(* "Nothing is ever silently dropped": every enquiry the gateway accepts   *)
(* comes to rest in a status a human can see and stays there, through      *)
(* crashes, shutdowns, lost statements, expired leases and reviewers'      *)
(* requeues.                                                               *)
(***************************************************************************)
EveryEnquirySettles ==
    \A e \in Enquiries :
        status[e] # "absent" ~> [](status[e] \in Settled)
=============================================================================
