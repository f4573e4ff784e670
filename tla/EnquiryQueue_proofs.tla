------------------------ MODULE EnquiryQueue_proofs ------------------------
(***************************************************************************)
(* Theorems about EnquiryQueue, for any number of enquiries and workers    *)
(* and any bounds on the faults.                                           *)
(***************************************************************************)
EXTENDS EnquiryQueue, FiniteSetTheorems, TLAPS

(***************************************************************************)
(* Type correctness: at the first start every worker is about to claim.    *)
(***************************************************************************)
LEMMA TypeInit == Init => TypeOK
  <1> SUFFICES ASSUME Init PROVE TypeOK
    OBVIOUS
  <1>1. \A w \in Workers : pc[w] \in Busy <=> held[w] # None
    BY DEF Init, Busy
  <1> QED
    BY <1>1 DEF Init, TypeOK, Statuses, Busy

\* Every statement, handler and process event keeps the types.
LEMMA TypeStep == TypeOK /\ [Next]_vars => TypeOK'
  <1> SUFFICES ASSUME TypeOK, [Next]_vars PROVE TypeOK'
    OBVIOUS
  <1> USE QueueAssumption DEF TypeOK, Statuses, Settled, Decided, Busy, row, local, faults, hist, reviews
  <1>1. ASSUME NEW w \in Workers, NEW e \in Enquiries, Claim(w, e) PROVE TypeOK'
    BY <1>1 DEF Claim, ClaimRow
  <1>2. ASSUME NEW w \in Workers, ClaimNothing(w) PROVE TypeOK'
    BY <1>2 DEF ClaimNothing
  <1>3. ASSUME NEW w \in Workers, ClaimFails(w) PROVE TypeOK'
    BY <1>3 DEF ClaimFails, ClaimRow, DbError
  <1>4. ASSUME NEW w \in Workers, TakeWake(w) \/ Tick(w) \/ Return(w) PROVE TypeOK'
    BY <1>4 DEF TakeWake, Tick, Return
  <1>5. ASSUME NEW w \in Workers, NEW s \in Outcomes, Finish(w, s) PROVE TypeOK'
    BY <1>5 DEF Finish, SetStatus, BackToLoop
  <1>6. ASSUME NEW w \in Workers, NEW s \in Outcomes, AnswerLost(w, s) PROVE TypeOK'
    BY <1>6 DEF AnswerLost, SetStatus, ToFail, DbError
  <1>7. ASSUME NEW w \in Workers, RunFails(w) PROVE TypeOK'
    BY <1>7 DEF RunFails, ToFail
  <1>8. ASSUME NEW w \in Workers, Release(w) PROVE TypeOK'
    BY <1>8 DEF Release, Requeue, BackToLoop
  <1>9. ASSUME NEW w \in Workers, DeadLetter(w) PROVE TypeOK'
    BY <1>9 DEF DeadLetter, SetStatus, BackToLoop
  <1>10. ASSUME NEW w \in Workers, Retry(w) PROVE TypeOK'
    BY <1>10 DEF Retry, Requeue, BackToLoop
  <1>11. ASSUME NEW w \in Workers, FailNotRecorded(w) PROVE TypeOK'
    BY <1>11 DEF FailNotRecorded, BackToLoop, DbError
  <1>12. ASSUME NEW e \in Enquiries, Insert(e) \/ InsertUnreported(e) \/ Wake(e) PROVE TypeOK'
    <2>1. CASE Insert(e)
      BY <2>1 DEF Insert, InsertRow
    <2>2. CASE InsertUnreported(e)
      <3>1. dbErrors' \in Nat /\ UNCHANGED <<overruns, stops>>
        BY <2>2 DEF InsertUnreported, DbError
      <3> QED
        BY <2>2, <3>1 DEF InsertUnreported, InsertRow
    <2>3. CASE Wake(e)
      BY <2>3 DEF Wake
    <2> QED
      BY <1>12, <2>1, <2>2, <2>3
  <1>13. ASSUME NEW e \in Enquiries, OrphanExpires(e) \/ Overrun(e) PROVE TypeOK'
    BY <1>13 DEF OrphanExpires, Overrun, LeaseExpires
  <1>14. ASSUME NEW e \in Enquiries, BackoffElapses(e) PROVE TypeOK'
    BY <1>14 DEF BackoffElapses
  <1>15. CASE Stop
    BY <1>15 DEF Stop, MayStop
  <1>16. CASE Start
    <2>1. \A w \in Workers : pc[w] \notin Busy /\ held[w] = None
      BY <1>16 DEF Start
    <2> QED
      BY <1>16, <2>1 DEF Start
  <1>17. ASSUME Exit \/ Crash PROVE TypeOK'
    <2>1. ProcessEnds /\ stops' \in Nat /\ UNCHANGED <<overruns, dbErrors>>
      BY <1>17 DEF Exit, Crash, MayStop
    <2> QED
      BY <2>1 DEF ProcessEnds
  <1>18. CASE UNCHANGED vars
    BY <1>18 DEF vars
  <1>19. ASSUME NEW e \in Enquiries, NEW s \in Decided, Decide(e, s) PROVE TypeOK'
    BY <1>19 DEF Decide
  <1>20. ASSUME NEW e \in Enquiries, Resolve(e) PROVE TypeOK'
    BY <1>20 DEF Resolve, Requeue
  <1> QED
    BY <1>1, <1>2, <1>3, <1>4, <1>5, <1>6, <1>7, <1>8, <1>9, <1>10, <1>11,
       <1>12, <1>13, <1>14, <1>15, <1>16, <1>17, <1>18, <1>19, <1>20
    DEF Next, WorkerStep, RowStep

\* Every variable keeps its type, and a worker has an enquiry in its hands
\* exactly between the claim and the end of process().
THEOREM TypeCorrect == Spec => []TypeOK
  BY TypeInit, TypeStep, PTL DEF Spec

(***************************************************************************)
(* Leases and statuses agree.  ClaimEnquiry, SetStatus and Requeue keep    *)
(* the two columns in step; Approve writes the status alone, and is        *)
(* counted in decisions.                                                   *)
(***************************************************************************)
LEMMA LeaseStep ==
  TypeOK /\ LeasedWhileProcessing /\ [Next]_vars => LeasedWhileProcessing'
  <1> SUFFICES ASSUME TypeOK, LeasedWhileProcessing, [Next]_vars
               PROVE LeasedWhileProcessing'
    OBVIOUS
  <1> USE QueueAssumption DEF TypeOK, LeasedWhileProcessing, Busy, row, local, hist, reviews
  <1>1. ASSUME NEW e \in Enquiries, ClaimRow(e) PROVE LeasedWhileProcessing'
    BY <1>1 DEF ClaimRow, Statuses, Settled, Decided
  <1>2. ASSUME NEW e \in Enquiries, NEW s \in Settled, SetStatus(e, s), decisions' = decisions
        PROVE LeasedWhileProcessing'
    BY <1>2 DEF SetStatus, Statuses, Settled, Decided
  <1>3. ASSUME NEW e \in Enquiries, NEW now \in BOOLEAN, Requeue(e, now), decisions' = decisions
        PROVE LeasedWhileProcessing'
    BY <1>3 DEF Requeue, Statuses, Settled, Decided
  <1>4. ASSUME UNCHANGED <<status, lease, decisions>> PROVE LeasedWhileProcessing'
    BY <1>4
  <1>5. ASSUME NEW w \in Workers, WorkerStep(w) PROVE LeasedWhileProcessing'
    <2>1. ASSUME NEW e \in Enquiries, Claim(w, e) PROVE LeasedWhileProcessing'
      BY <2>1, <1>1 DEF Claim
    <2>2. CASE ClaimFails(w)
      BY <2>2, <1>1, <1>4 DEF ClaimFails
    <2>3. ASSUME NEW s \in Outcomes, Finish(w, s) \/ AnswerLost(w, s)
          PROVE LeasedWhileProcessing'
      <3>1. held[w] \in Enquiries
        BY <2>3 DEF Finish, AnswerLost
      <3> QED
        BY <2>3, <3>1, <1>2 DEF Finish, AnswerLost, Settled
    <2>4. CASE DeadLetter(w)
      <3>1. held[w] \in Enquiries
        BY <2>4 DEF DeadLetter
      <3> QED
        BY <2>4, <3>1, <1>2 DEF DeadLetter, Settled
    <2>5. CASE Retry(w) \/ Release(w)
      <3>1. held[w] \in Enquiries
        BY <2>5 DEF Retry, Release
      <3> QED
        BY <2>5, <3>1, <1>3 DEF Retry, Release
    <2>6. CASE ClaimNothing(w) \/ TakeWake(w) \/ Tick(w) \/ Return(w)
               \/ RunFails(w) \/ FailNotRecorded(w)
      BY <2>6, <1>4 DEF ClaimNothing, TakeWake, Tick, Return, RunFails, FailNotRecorded
    <2> QED
      BY <1>5, <2>1, <2>2, <2>3, <2>4, <2>5, <2>6 DEF WorkerStep
  <1>6. ASSUME NEW e \in Enquiries, RowStep(e) PROVE LeasedWhileProcessing'
    <2>1. CASE Insert(e) \/ InsertUnreported(e)
      BY <2>1 DEF Insert, InsertUnreported, InsertRow, Statuses, Settled, Decided
    <2>2. CASE OrphanExpires(e) \/ Overrun(e)
      BY <2>2 DEF OrphanExpires, Overrun, LeaseExpires
    <2>3. CASE Wake(e) \/ BackoffElapses(e)
      BY <2>3, <1>4 DEF Wake, BackoffElapses
    <2>4. ASSUME NEW s \in Decided, Decide(e, s) PROVE LeasedWhileProcessing'
      BY <2>4 DEF Decide, Reviewable, Statuses, Settled, Decided
    <2>5. CASE Resolve(e)
      BY <2>5, <1>3 DEF Resolve
    <2> QED
      BY <1>6, <2>1, <2>2, <2>3, <2>4, <2>5 DEF RowStep
  <1>7. CASE Stop \/ Exit \/ Crash \/ Start
    BY <1>7, <1>4 DEF Stop, Exit, Crash, Start, ProcessEnds
  <1>8. CASE UNCHANGED vars
    BY <1>8, <1>4 DEF vars
  <1> QED
    BY <1>5, <1>6, <1>7, <1>8 DEF Next

\* A row the queue calls processing always has a lease that can run out, so it
\* can always be claimed again; another row has one only after a decision.
THEOREM LeasesAgree == Spec => []LeasedWhileProcessing
  <1>1. Init => LeasedWhileProcessing
    BY DEF Init, LeasedWhileProcessing
  <1> QED
    BY <1>1, LeaseStep, TypeCorrect, PTL DEF Spec

(***************************************************************************)
(* Ownership is inductive.  A claim takes a row no undisturbed worker has  *)
(* (it is received, or its lease has run out and the claim says so in      *)
(* reclaims); every other statement on a row is made by its holder.        *)
(***************************************************************************)
LEMMA OwnershipStep ==
  TypeOK /\ LeasedWhileProcessing /\ Ownership /\ [Next]_vars => Ownership'
  <1> SUFFICES ASSUME TypeOK, LeasedWhileProcessing, Ownership, [Next]_vars
               PROVE Ownership'
    OBVIOUS
  <1> USE QueueAssumption DEF TypeOK, Ownership, Busy, row, local, hist, reviews
  <1> DEFINE HandsOff(w) ==
        /\ held' = [held EXCEPT ![w] = None]
        /\ tries' = [tries EXCEPT ![w] = 0]
        /\ pc' = [pc EXCEPT ![w] = "claim"]
  <1>1. ASSUME NEW w \in Workers, NEW e \in Enquiries, Claim(w, e) PROVE Ownership'
    <2>1. Claimable(e) /\ ClaimRow(e) /\ held[w] = None
      BY <1>1 DEF Claim
    <2>2. reclaims'[e] = 0 /\ requeues[e] = 0 => \A v \in Workers : held[v] # e
      BY <2>1 DEF Claimable, ClaimRow, Settled, Decided, LeasedWhileProcessing
    <2>3. \A f \in Enquiries : f # e =>
             status'[f] = status[f] /\ attempts'[f] = attempts[f] /\ reclaims'[f] = reclaims[f]
      BY <2>1 DEF ClaimRow
    <2>4. /\ status'[e] = "processing" /\ attempts'[e] = attempts[e] + 1
          /\ held' = [held EXCEPT ![w] = e] /\ pc' = [pc EXCEPT ![w] = "run"]
          /\ tries' = [tries EXCEPT ![w] = attempts[e] + 1]
          /\ lost' = lost /\ decisions' = decisions /\ requeues' = requeues
          /\ reclaims[e] \in Nat /\ reclaims'[e] \in {reclaims[e], reclaims[e] + 1}
      BY <1>1, <2>1 DEF Claim, ClaimRow, Statuses
    <2> QED
      BY <2>1, <2>2, <2>3, <2>4
  <1>2. ASSUME NEW w \in Workers, ClaimFails(w) PROVE Ownership'
    <2>1. held[w] = None /\ held' = held /\ tries' = tries /\ pc' \in {[pc EXCEPT ![w] = "sleep"], [pc EXCEPT ![w] = "off"]}
      BY <1>2 DEF ClaimFails
    <2>2. CASE UNCHANGED <<row, hist>>
      BY <2>1, <2>2
    <2>3. ASSUME NEW e \in Enquiries, Claimable(e), ClaimRow(e) PROVE Ownership'
      <3>1. reclaims'[e] = 0 /\ requeues[e] = 0 => \A v \in Workers : held[v] # e
        BY <2>3 DEF Claimable, ClaimRow, Settled, Decided, LeasedWhileProcessing
      <3>2. /\ \A f \in Enquiries : f # e =>
               status'[f] = status[f] /\ attempts'[f] = attempts[f] /\ reclaims'[f] = reclaims[f]
            /\ lost' = lost /\ decisions' = decisions /\ requeues' = requeues
        BY <2>3 DEF ClaimRow
      <3> QED
        BY <2>1, <3>1, <3>2
    <2> QED
      BY <1>2, <2>2, <2>3 DEF ClaimFails
  <1>3. ASSUME NEW w \in Workers, NEW s \in Outcomes, AnswerLost(w, s) PROVE Ownership'
    <2>1. /\ held' = held /\ tries' = tries /\ attempts' = attempts /\ reclaims' = reclaims
          /\ status' = [status EXCEPT ![held[w]] = s]
          /\ lost' = [lost EXCEPT ![held[w]] = @ + 1]
          /\ pc' \in {[pc EXCEPT ![w] = "release"], [pc EXCEPT ![w] = "fail"]}
          /\ held[w] \in Enquiries /\ pc[w] = "run"
          /\ decisions' = decisions /\ requeues' = requeues
      BY <1>3 DEF AnswerLost, SetStatus, ToFail
    <2> QED
      BY <2>1 DEF Settled, Statuses
  <1>4. ASSUME NEW w \in Workers, RunFails(w) PROVE Ownership'
    BY <1>4 DEF RunFails, ToFail
  <1>5. ASSUME NEW w \in Workers, HandsOff(w), held[w] \in Enquiries, reclaims' = reclaims,
               attempts' = attempts, lost' = lost, reviews' = reviews, NEW s \in Statuses,
               status' = [status EXCEPT ![held[w]] = s]
        PROVE Ownership'
    BY <1>5
  <1>6. ASSUME NEW w \in Workers,
               \/ \E s \in Outcomes : Finish(w, s)
               \/ DeadLetter(w) \/ Retry(w) \/ Release(w)
        PROVE Ownership'
    <2>1. HandsOff(w) /\ pc[w] \in Busy
      BY <1>6 DEF Finish, DeadLetter, Retry, Release, BackToLoop
    <2>4. held[w] \in Enquiries
      BY <2>1
    <2>2. reclaims' = reclaims /\ attempts' = attempts /\ lost' = lost /\ reviews' = reviews
      BY <1>6 DEF Finish, DeadLetter, Retry, Release, SetStatus, Requeue
    <2>3. \E s \in Statuses : status' = [status EXCEPT ![held[w]] = s]
      BY <1>6 DEF Finish, DeadLetter, Retry, Release, SetStatus, Requeue, Statuses, Settled, Decided
    <2> HIDE DEF HandsOff
    <2> QED
      BY <2>1, <2>2, <2>3, <2>4, <1>5
  <1>7. ASSUME NEW w \in Workers, FailNotRecorded(w) PROVE Ownership'
    BY <1>7 DEF FailNotRecorded, BackToLoop
  <1>8. ASSUME NEW w \in Workers, ClaimNothing(w) \/ TakeWake(w) \/ Tick(w) \/ Return(w)
        PROVE Ownership'
    BY <1>8 DEF ClaimNothing, TakeWake, Tick, Return
  <1>9. ASSUME NEW e \in Enquiries, Insert(e) \/ InsertUnreported(e) PROVE Ownership'
    BY <1>9 DEF Insert, InsertUnreported, InsertRow, Settled, Decided
  <1>10. ASSUME NEW e \in Enquiries, Wake(e) \/ BackoffElapses(e) PROVE Ownership'
    BY <1>10 DEF Wake, BackoffElapses
  <1>11. ASSUME NEW e \in Enquiries, OrphanExpires(e) \/ Overrun(e) PROVE Ownership'
    BY <1>11 DEF OrphanExpires, Overrun, LeaseExpires
  <1>12. CASE Exit \/ Crash
    BY <1>12 DEF Exit, Crash, ProcessEnds
  <1>13. CASE Stop \/ UNCHANGED vars
    BY <1>13 DEF Stop, vars
  <1>14. CASE Start
    BY <1>14 DEF Start
  <1>15. ASSUME NEW e \in Enquiries, NEW s \in Decided, Decide(e, s) PROVE Ownership'
    BY <1>15 DEF Decide, Settled
  <1>16. ASSUME NEW e \in Enquiries, Resolve(e) PROVE Ownership'
    BY <1>16 DEF Resolve, Requeue
  <1> QED
    BY <1>1, <1>2, <1>3, <1>4, <1>6, <1>7, <1>8, <1>9, <1>10, <1>11, <1>12,
       <1>13, <1>14, <1>15, <1>16 DEF Next, WorkerStep, RowStep

\* A worker with a live claim has the row to itself.
THEOREM OwnershipHolds == Spec => []Ownership
  <1>1. Init => Ownership
    BY QueueAssumption DEF Init, Ownership
  <1> QED
    BY <1>1, OwnershipStep, TypeCorrect, LeasesAgree, PTL DEF Spec

\* Two workers never have the same enquiry unless its lease ran out on one or a
\* reviewer requeued it.
THEOREM MutualExclusion == Spec => []OneWorkerPerLease
  <1>1. TypeOK /\ Ownership => OneWorkerPerLease
    BY QueueAssumption DEF TypeOK, Ownership, OneWorkerPerLease
  <1> QED
    BY <1>1, OwnershipHolds, TypeCorrect, PTL

(***************************************************************************)
(* Nothing moves a settled row but a reviewer or a worker that holds it,   *)
(* and by Ownership such a worker lost its lease or its last answer.       *)
(***************************************************************************)
THEOREM SettledStays == Spec => SettledIsFinal
  <1> DEFINE Moves(e) == ~ UNCHANGED <<status[e], attempts[e], lease[e]>>
  <1>1. ASSUME TypeOK, LeasedWhileProcessing, Ownership, [Next]_vars,
               NEW e \in Enquiries, status[e] \in Settled, Undisturbed(e), Moves(e),
               ~ (decisions'[e] > 0 \/ requeues'[e] > 0)
        PROVE FALSE
    <2> USE QueueAssumption DEF TypeOK, Busy, row, local, Undisturbed, Settled, Decided
    <2>1. status[e] \notin {"absent", "received", "processing"} /\ lease[e] = "none"
      BY <1>1 DEF LeasedWhileProcessing
    <2>2. \A w \in Workers : held[w] # e
      BY <1>1, <2>1 DEF Ownership
    <2>3. ~ Claimable(e)
      BY <2>1 DEF Claimable
    <2>4. ASSUME NEW f \in Enquiries, f # e PROVE ~ ClaimRow(f)
      BY <1>1, <2>4 DEF ClaimRow
    <2>5. ASSUME NEW f \in Enquiries \cup {None}, f # e, NEW s PROVE ~ SetStatus(f, s)
      BY <1>1, <2>5 DEF SetStatus
    <2>6. ASSUME NEW f \in Enquiries \cup {None}, f # e, NEW now PROVE ~ Requeue(f, now)
      BY <1>1, <2>6 DEF Requeue
    <2>7. ASSUME NEW w \in Workers, WorkerStep(w) PROVE FALSE
      <3>1. CASE \E f \in Enquiries : Claim(w, f)
        BY <3>1, <2>3, <2>4 DEF Claim
      <3>2. CASE ClaimFails(w)
        BY <3>2, <1>1, <2>3, <2>4 DEF ClaimFails
      <3>3. CASE (\E s \in Outcomes : Finish(w, s) \/ AnswerLost(w, s)) \/ DeadLetter(w)
        BY <3>3, <1>1, <2>2, <2>5 DEF Finish, AnswerLost, DeadLetter
      <3>4. CASE Retry(w) \/ Release(w)
        BY <3>4, <1>1, <2>2, <2>6 DEF Retry, Release
      <3>5. CASE ClaimNothing(w) \/ TakeWake(w) \/ Tick(w) \/ Return(w)
                 \/ RunFails(w) \/ FailNotRecorded(w)
        BY <3>5, <1>1 DEF ClaimNothing, TakeWake, Tick, Return, RunFails, FailNotRecorded
      <3> QED
        BY <2>7, <3>1, <3>2, <3>3, <3>4, <3>5 DEF WorkerStep
    <2>8. ASSUME NEW f \in Enquiries, RowStep(f) PROVE FALSE
      <3>1. CASE Insert(f) \/ InsertUnreported(f)
        BY <3>1, <1>1, <2>1 DEF Insert, InsertUnreported, InsertRow
      <3>2. CASE OrphanExpires(f) \/ Overrun(f)
        BY <3>2, <1>1, <2>1 DEF OrphanExpires, Overrun, LeaseExpires
      <3>3. CASE Wake(f) \/ BackoffElapses(f)
        BY <3>3, <1>1 DEF Wake, BackoffElapses
      <3>4. CASE Resolve(f) \/ \E s \in Decided : Decide(f, s)
        <4>1. CASE f = e
          <5>1. decisions[e] = 0 /\ requeues[e] = 0
            BY <1>1
          <5>a. ASSUME Resolve(e) PROVE requeues'[e] = 1
            <6>1. requeues' = [requeues EXCEPT ![e] = requeues[e] + 1]
              BY <5>a DEF Resolve
            <6> QED
              BY <6>1, <5>1, <1>1
          <5>b. ASSUME NEW s \in Decided, Decide(e, s) PROVE decisions'[e] = 1
            <6>1. decisions' = [decisions EXCEPT ![e] = decisions[e] + 1]
              BY <5>b DEF Decide
            <6> QED
              BY <6>1, <5>1, <1>1
          <5>2. decisions'[e] = 1 \/ requeues'[e] = 1
            BY <3>4, <4>1, <5>a, <5>b
          <5>3. decisions'[e] > 0 \/ requeues'[e] > 0
            BY <5>2
          <5> QED
            BY <5>3, <1>1
        <4>2. CASE f # e
          BY <3>4, <4>2, <1>1, <2>6 DEF Resolve, Decide
        <4> QED
          BY <4>1, <4>2
      <3> QED
        BY <2>8, <3>1, <3>2, <3>3, <3>4 DEF RowStep
    <2>9. CASE Stop \/ Exit \/ Crash \/ Start \/ UNCHANGED vars
      BY <2>9, <1>1 DEF Stop, Exit, Crash, Start, ProcessEnds, vars
    <2> QED
      BY <1>1, <2>7, <2>8, <2>9 DEF Next
  <1>2. TypeOK /\ LeasedWhileProcessing /\ Ownership /\ [Next]_vars
          => [\A e \in Enquiries : status[e] \in Settled /\ Undisturbed(e)
                => \/ UNCHANGED <<status[e], attempts[e], lease[e]>>
                   \/ decisions'[e] > 0 \/ requeues'[e] > 0]_vars
    BY <1>1
  <1> QED
    BY <1>2, TypeCorrect, LeasesAgree, OwnershipHolds, PTL DEF Spec, SettledIsFinal

-----------------------------------------------------------------------------
(* The retry books.                                                        *)

\* The budget fail() works with is at least one attempt.
LEMMA BudgetType ==
  Budget \in Nat /\ Budget >= 1 /\ Budget >= MaxAttempts
    /\ (MaxAttempts > 0 => Budget = MaxAttempts)
  BY QueueAssumption DEF Budget

\* Attempts and failures of an undisturbed enquiry move together.
LEMMA AccountsStep ==
  TypeOK /\ LeasedWhileProcessing /\ Ownership /\ Accounts /\ [Next]_vars => Accounts'
  <1> SUFFICES ASSUME TypeOK, LeasedWhileProcessing, Ownership, Accounts, [Next]_vars
               PROVE Accounts'
    OBVIOUS
  <1> USE QueueAssumption, BudgetType DEF TypeOK, Accounts, Undisturbed, Busy, row, local, hist, reviews
  <1>1. ASSUME NEW f \in Enquiries, Claimable(f), ClaimRow(f),
               NEW w \in Workers, held[w] = None,
               \/ /\ held' = [held EXCEPT ![w] = f]
                  /\ pc' = [pc EXCEPT ![w] = "run"]
               \/ /\ held' = held
                  /\ pc' \in {[pc EXCEPT ![w] = "sleep"], [pc EXCEPT ![w] = "off"]}
        PROVE Accounts'
    <2>1. reclaims'[f] = 0 /\ requeues[f] = 0 => /\ status[f] = "received" /\ reclaims[f] = 0
                             /\ \A v \in Workers : held[v] # f
      BY <1>1 DEF Claimable, ClaimRow, LeasedWhileProcessing, Ownership, Settled, Decided
    <2>2. /\ status' = [status EXCEPT ![f] = "processing"]
          /\ attempts' = [attempts EXCEPT ![f] = @ + 1]
          /\ releases' = releases /\ failures' = failures /\ lost' = lost
          /\ decisions' = decisions /\ requeues' = requeues
          /\ \A e \in Enquiries : e # f => reclaims'[e] = reclaims[e]
      BY <1>1 DEF ClaimRow
    <2> QED
      BY <1>1, <2>1, <2>2
  <1>2. ASSUME NEW w \in Workers, WorkerStep(w) PROVE Accounts'
    <2>1. ASSUME NEW f \in Enquiries, Claim(w, f) PROVE Accounts'
      BY <2>1, <1>1 DEF Claim
    <2>2. CASE ClaimFails(w)
      <3>1. CASE UNCHANGED <<row, hist>>
        BY <2>2, <3>1 DEF ClaimFails
      <3>2. ASSUME NEW f \in Enquiries, Claimable(f), ClaimRow(f) PROVE Accounts'
        BY <2>2, <3>2, <1>1 DEF ClaimFails
      <3> QED
        BY <2>2, <3>1, <3>2 DEF ClaimFails
    <2>3. ASSUME NEW s \in Outcomes, Finish(w, s) PROVE Accounts'
      BY <2>3 DEF Finish, SetStatus, BackToLoop
    <2>4. ASSUME NEW s \in Outcomes, AnswerLost(w, s) PROVE Accounts'
      BY <2>4 DEF AnswerLost, SetStatus, ToFail
    <2>5. CASE RunFails(w)
      <3>1. held[w] \in Enquiries /\ pc[w] = "run"
        BY <2>5 DEF RunFails
      <3>2. Undisturbed(held[w]) => \A v \in Workers : held[v] = held[w] => v = w
        BY <3>1 DEF Ownership
      <3>3. Undisturbed(held[w]) => status[held[w]] = "processing"
        BY <3>1 DEF Ownership
      <3> QED
        BY <2>5, <3>1, <3>2, <3>3 DEF RunFails, ToFail
    <2>6. CASE DeadLetter(w) \/ Retry(w)
      <3>1. held[w] \in Enquiries /\ pc[w] = "fail"
        BY <2>6 DEF DeadLetter, Retry
      <3>2. Undisturbed(held[w]) =>
              /\ status[held[w]] = "processing"
              /\ tries[w] = attempts[held[w]]
              /\ failures[held[w]] = attempts[held[w]]
              /\ attempts[held[w]] \in 1..Budget
        BY <3>1 DEF Ownership
      <3>3. CASE DeadLetter(w)
        BY <3>1, <3>2, <3>3 DEF DeadLetter, BudgetSpent, SetStatus, BackToLoop, Budget
      <3>4. CASE Retry(w)
        BY <3>1, <3>2, <3>4 DEF Retry, BudgetSpent, Requeue, BackToLoop
      <3> QED
        BY <2>6, <3>3, <3>4
    <2>7. CASE Release(w)
      BY <2>7 DEF Release, Requeue, BackToLoop
    <2>8. CASE FailNotRecorded(w)
      BY <2>8 DEF FailNotRecorded, BackToLoop
    <2>9. CASE ClaimNothing(w) \/ TakeWake(w) \/ Tick(w) \/ Return(w)
      BY <2>9 DEF ClaimNothing, TakeWake, Tick, Return
    <2> QED
      BY <1>2, <2>1, <2>2, <2>3, <2>4, <2>5, <2>6, <2>7, <2>8, <2>9 DEF WorkerStep
  <1>3. ASSUME NEW f \in Enquiries, RowStep(f) PROVE Accounts'
    <2>1. CASE Insert(f) \/ InsertUnreported(f)
      BY <2>1 DEF Insert, InsertUnreported, InsertRow
    <2>2. CASE Wake(f) \/ BackoffElapses(f)
      BY <2>2 DEF Wake, BackoffElapses
    <2>3. CASE OrphanExpires(f) \/ Overrun(f)
      BY <2>3 DEF OrphanExpires, Overrun, LeaseExpires
    <2>4. CASE Resolve(f) \/ \E s \in Decided : Decide(f, s)
      BY <2>4 DEF Resolve, Requeue, Decide
    <2> QED
      BY <1>3, <2>1, <2>2, <2>3, <2>4 DEF RowStep
  <1>4. CASE Exit \/ Crash
    BY <1>4 DEF Exit, Crash, ProcessEnds
  <1>5. CASE Start
    BY <1>5 DEF Start
  <1>6. CASE Stop \/ UNCHANGED vars
    BY <1>6 DEF Stop, vars
  <1> QED
    BY <1>2, <1>3, <1>4, <1>5, <1>6 DEF Next

\* The books of an undisturbed enquiry balance.
THEOREM AccountsHold == Spec => []Accounts
  <1>1. Init => Accounts
    BY QueueAssumption, BudgetType DEF Init, Accounts
  <1> QED
    BY <1>1, AccountsStep, TypeCorrect, LeasesAgree, OwnershipHolds, PTL DEF Spec

\* An undisturbed enquiry is dead-lettered after exactly MAX_ATTEMPTS failures.
THEOREM DeadLetterAfterBudget == Spec => []DeadLetterExact
  <1>1. Accounts => DeadLetterExact
    BY DEF Accounts, DeadLetterExact
  <1> QED
    BY <1>1, AccountsHold, PTL

-----------------------------------------------------------------------------
(* The bound on the number of claims.                                      *)

\* A subset of a finite set is no larger.
LEMMA SubsetSmaller ==
  ASSUME NEW S, IsFiniteSet(S), NEW T, T \subseteq S
  PROVE  Cardinality(S) \in Nat /\ Cardinality(T) \in Nat /\ Cardinality(T) <= Cardinality(S)
  BY FS_Subset, FS_CardinalityType

\* One element more adds at most one.
LEMMA OneMore ==
  ASSUME NEW S, IsFiniteSet(S), NEW x, NEW T, T \subseteq S \cup {x}
  PROVE  Cardinality(T) <= Cardinality(S) + 1
  <1>1. Cardinality(S) \in Nat
    BY FS_CardinalityType
  <1>2. /\ IsFiniteSet(S \cup {x})
        /\ Cardinality(S \cup {x}) \in {Cardinality(S), Cardinality(S) + 1}
    BY FS_AddElement
  <1>3. /\ Cardinality(T) \in Nat
        /\ Cardinality(T) <= Cardinality(S \cup {x})
    BY <1>2, SubsetSmaller
  <1> QED
    BY <1>1, <1>2, <1>3

\* A set without one of its elements is smaller.
LEMMA OneLess ==
  ASSUME NEW S, IsFiniteSet(S), NEW x \in S, NEW T, T \subseteq S \ {x}
  PROVE  Cardinality(T) + 1 <= Cardinality(S)
  <1>1. IsFiniteSet(S \ {x}) /\ Cardinality(S \ {x}) = Cardinality(S) - 1
    BY FS_RemoveElement
  <1> QED
    BY <1>1, SubsetSmaller, FS_CardinalityType

\* Only finitely many workers can hold an attempt that may be retried.
LEMMA RetriersFinite ==
  \A e \in Enquiries : IsFiniteSet(Retriers(e)) /\ Cardinality(Retriers(e)) \in Nat
  BY QueueAssumption, FS_Subset, FS_CardinalityType DEF Retriers

\* A retry spends a retrier, a claim spends the open place or a reclaim, a
\* release or a reviewer's requeue opens a place and is counted.
LEMMA PotentialStep ==
  TypeOK /\ RetryPotential /\ [Next]_vars => RetryPotential'
  <1> SUFFICES ASSUME TypeOK, RetryPotential, [Next]_vars, NEW e \in Enquiries
               PROVE ((IF attempts[e] >= Budget THEN attempts[e] ELSE Budget - 1)
                        + (IF status[e] \in {"absent", "received"} THEN 1 ELSE 0)
                        + Cardinality(Retriers(e))
                      <= Budget + reclaims[e] + releases[e] + requeues[e])'
    BY DEF RetryPotential
  <1> USE QueueAssumption, BudgetType DEF TypeOK, Busy, row, local, hist, reviews
  <1> DEFINE High == IF attempts[e] >= Budget THEN attempts[e] ELSE Budget - 1
             Open == IF status[e] \in {"absent", "received"} THEN 1 ELSE 0
             C == Cardinality(Retriers(e))
             Extra == reclaims[e] + releases[e] + requeues[e]
  <1>a. /\ High \in Nat /\ Open \in {0, 1} /\ C \in Nat /\ Extra \in Nat
        /\ High + Open + C <= Budget + Extra
    BY RetriersFinite DEF RetryPotential
  <1>t. TypeOK'
    BY TypeStep
  <1>b. /\ High' \in Nat /\ Open' \in {0, 1} /\ C' \in Nat /\ Extra' \in Nat
    <2>1. IsFiniteSet(Retriers(e)')
      BY FS_Subset DEF Retriers
    <2>2. C' \in Nat
      BY <2>1, FS_CardinalityType
    <2>3. High' \in Nat /\ Open' \in {0, 1}
      BY <1>t
    <2>4. reclaims'[e] \in Nat /\ releases'[e] \in Nat /\ requeues'[e] \in Nat
      BY <1>t
    <2> HIDE DEF C
    <2> QED
      BY <2>2, <2>3, <2>4
  <1> SUFFICES High' + Open' + C' <= Budget + Extra'
    BY <1>b, <1>t DEF Budget
  <1>c. ASSUME Retriers(e)' \subseteq Retriers(e) PROVE C' <= C
    BY <1>c, RetriersFinite, SubsetSmaller
  <1>d. ASSUME attempts'[e] = attempts[e], Open' <= Open, Extra' >= Extra,
               Retriers(e)' \subseteq Retriers(e)
        PROVE High' + Open' + C' <= Budget + Extra'
    BY <1>a, <1>b, <1>c, <1>d
  <1>e. ASSUME UNCHANGED <<status, attempts, reclaims, releases, requeues>>,
               Retriers(e)' \subseteq Retriers(e)
        PROVE High' + Open' + C' <= Budget + Extra'
    BY <1>a, <1>b, <1>d, <1>e
  <1> HIDE DEF C
  <1>1. ASSUME NEW f \in Enquiries, Claimable(f), ClaimRow(f),
               f # e => Retriers(e)' \subseteq Retriers(e),
               C' <= C + 1,
               attempts[e] + 1 >= MaxAttempts => C' <= C
        PROVE High' + Open' + C' <= Budget + Extra'
    <2>1. CASE f # e
      BY <1>1, <2>1, <1>a, <1>b, <1>c DEF ClaimRow
    <2>2. CASE f = e /\ lease[e] = "expired"
      BY <1>1, <2>2, <1>a, <1>b DEF ClaimRow, Budget
    <2>3. CASE f = e /\ status[e] = "received"
      BY <1>1, <2>3, <1>a, <1>b DEF ClaimRow, Budget
    <2> QED
      BY <1>1, <2>1, <2>2, <2>3 DEF Claimable
  <1>2. ASSUME NEW w \in Workers, WorkerStep(w)
        PROVE High' + Open' + C' <= Budget + Extra'
    <2>1. ASSUME NEW f \in Enquiries, Claim(w, f)
          PROVE High' + Open' + C' <= Budget + Extra'
      <3>1. f # e => Retriers(e)' \subseteq Retriers(e)
        BY <2>1 DEF Claim, Retriers
      <3>2. Retriers(e)' \subseteq Retriers(e) \cup {w}
        BY <2>1 DEF Claim, Retriers
      <3>3. f = e /\ attempts[e] + 1 >= MaxAttempts => Retriers(e)' \subseteq Retriers(e)
        BY <2>1 DEF Claim, Retriers
      <3>4. C' <= C + 1
        BY <3>2, RetriersFinite, OneMore DEF C
      <3> QED
        BY <2>1, <3>1, <3>3, <3>4, <1>1, <1>c DEF Claim
    <2>2. CASE ClaimFails(w)
      <3>1. Retriers(e)' \subseteq Retriers(e)
        BY <2>2 DEF ClaimFails, Retriers
      <3>2. CASE UNCHANGED <<row, hist>>
        BY <3>1, <3>2, <1>e
      <3>3. ASSUME NEW f \in Enquiries, Claimable(f), ClaimRow(f)
            PROVE High' + Open' + C' <= Budget + Extra'
        BY <3>1, <3>3, <1>1, <1>c, <1>a, <1>b
      <3> QED
        BY <2>2, <3>2, <3>3 DEF ClaimFails
    <2>3. CASE (\E s \in Outcomes : Finish(w, s) \/ AnswerLost(w, s)) \/ DeadLetter(w)
      <3>1. Retriers(e)' \subseteq Retriers(e)
        BY <2>3 DEF Finish, AnswerLost, DeadLetter, BackToLoop, ToFail, Retriers
      <3>2. attempts' = attempts /\ reclaims' = reclaims /\ releases' = releases /\ requeues' = requeues
        BY <2>3 DEF Finish, AnswerLost, DeadLetter, SetStatus
      <3>3. \E s \in Settled : status' = [status EXCEPT ![held[w]] = s]
        BY <2>3 DEF Finish, AnswerLost, DeadLetter, SetStatus, Settled
      <3>4. Open' <= Open
        BY <3>3 DEF Settled, Decided
      <3> QED
        BY <3>1, <3>2, <3>4, <1>a, <1>d
    <2>4. CASE Retry(w)
      <3>1. held[w] \in Enquiries /\ tries[w] < MaxAttempts /\ pc[w] = "fail"
        BY <2>4 DEF Retry, BudgetSpent
      <3>2. Retriers(e)' \subseteq Retriers(e) \ {w}
        BY <2>4 DEF Retry, BackToLoop, Retriers
      <3>3. CASE held[w] = e
        <4>1. w \in Retriers(e)
          BY <3>1, <3>3 DEF Retriers
        <4>2. C' + 1 <= C
          BY <3>2, <4>1, RetriersFinite, OneLess DEF C
        <4>3. High' = High /\ Extra' = Extra
          BY <2>4 DEF Retry, Requeue
        <4>4. C' <= C - 1
          BY <4>2, <1>a, <1>b
        <4>5. High + Open' + C' <= High + C
          BY <4>4, <1>a, <1>b
        <4>6. High + C <= Budget + Extra
          BY <1>a
        <4>7. High' + Open' + C' <= High + C
          BY <4>3, <4>5
        <4>8. Budget + Extra = Budget + Extra'
          BY <4>3
        <4> QED
          BY <4>6, <4>7, <4>8, <1>a, <1>b
      <3>4. CASE held[w] # e
        BY <2>4, <3>2, <3>4, <1>a, <1>d DEF Retry, Requeue
      <3> QED
        BY <3>3, <3>4
    <2>5. CASE Release(w)
      <3>1. Retriers(e)' \subseteq Retriers(e)
        BY <2>5 DEF Release, BackToLoop, Retriers
      <3>2. held[w] \in Enquiries
        BY <2>5 DEF Release
      <3> QED
        BY <2>5, <3>1, <3>2, <1>a, <1>b, <1>c DEF Release, Requeue
    <2>6. CASE RunFails(w) \/ FailNotRecorded(w)
      <3>1. Retriers(e)' \subseteq Retriers(e)
        BY <2>6 DEF RunFails, FailNotRecorded, ToFail, BackToLoop, Retriers
      <3> QED
        BY <2>6, <3>1, <1>e DEF RunFails, FailNotRecorded
    <2>7. CASE ClaimNothing(w) \/ TakeWake(w) \/ Tick(w) \/ Return(w)
      <3>1. Retriers(e)' \subseteq Retriers(e)
        BY <2>7 DEF ClaimNothing, TakeWake, Tick, Return, Retriers
      <3> QED
        BY <2>7, <3>1, <1>e DEF ClaimNothing, TakeWake, Tick, Return
    <2> QED
      BY <1>2, <2>1, <2>2, <2>3, <2>4, <2>5, <2>6, <2>7 DEF WorkerStep
  <1>3. ASSUME NEW f \in Enquiries,
               Insert(f) \/ InsertUnreported(f) \/ Wake(f) \/ OrphanExpires(f) \/ Overrun(f) \/ BackoffElapses(f)
        PROVE High' + Open' + C' <= Budget + Extra'
    <2>1. Retriers(e)' \subseteq Retriers(e)
      BY <1>3 DEF Insert, InsertUnreported, InsertRow, Wake, OrphanExpires, Overrun, LeaseExpires, BackoffElapses,
                  Retriers
    <2>2. UNCHANGED <<attempts, reclaims, releases, requeues>> /\ Open' <= Open
      BY <1>3 DEF Insert, InsertUnreported, InsertRow, Wake, OrphanExpires, Overrun, LeaseExpires, BackoffElapses
    <2> QED
      BY <2>1, <2>2, <1>a, <1>d
  <1>5. ASSUME NEW f \in Enquiries, NEW s \in Decided, Decide(f, s)
        PROVE High' + Open' + C' <= Budget + Extra'
    <2>1. Retriers(e)' \subseteq Retriers(e)
      BY <1>5 DEF Decide, Retriers
    <2>2. UNCHANGED <<attempts, reclaims, releases, requeues>> /\ Open' <= Open
      BY <1>5 DEF Decide, Decided
    <2> QED
      BY <2>1, <2>2, <1>a, <1>d
  <1>6. ASSUME NEW f \in Enquiries, Resolve(f)
        PROVE High' + Open' + C' <= Budget + Extra'
    <2>1. Retriers(e)' \subseteq Retriers(e)
      BY <1>6 DEF Resolve, Retriers
    <2> QED
      BY <1>6, <2>1, <1>a, <1>b, <1>c DEF Resolve, Requeue
  <1>4. CASE Stop \/ Exit \/ Crash \/ Start \/ UNCHANGED vars
    <2>1. Retriers(e)' \subseteq Retriers(e)
      BY <1>4 DEF Stop, Exit, Crash, Start, ProcessEnds, Retriers, vars
    <2> QED
      BY <1>4, <2>1, <1>e DEF Stop, Exit, Crash, Start, ProcessEnds, vars
  <1> QED
    BY <1>2, <1>3, <1>4, <1>5, <1>6 DEF Next, RowStep

(***************************************************************************)
(* What bounds the claims: retries under way, the open place of a waiting  *)
(* enquiry and the attempts made never add up to more than the budget and  *)
(* the counted disturbances.                                               *)
(***************************************************************************)
THEOREM PotentialHolds == Spec => []RetryPotential
  <1>1. ASSUME Init PROVE RetryPotential
    <2>1. \A e \in Enquiries : Retriers(e) = {}
      BY <1>1, QueueAssumption DEF Init, Retriers
    <2> QED
      BY <1>1, <2>1, BudgetType, FS_EmptySet DEF Init, RetryPotential
  <1> QED
    BY <1>1, PotentialStep, TypeCorrect, PTL DEF Spec

\* However many workers lose their lease in the middle of a run, an enquiry is
\* claimed at most MAX_ATTEMPTS times and once more for each lease that ran out
\* and each shutdown or reviewer that requeued it.
THEOREM ClaimsAreBounded == Spec => []RetryBudget
  <1>1. TypeOK /\ RetryPotential => RetryBudget
    BY BudgetType, RetriersFinite DEF TypeOK, RetryPotential, RetryBudget
  <1> QED
    BY <1>1, PotentialHolds, TypeCorrect, PTL

-----------------------------------------------------------------------------
(* The wake signal.                                                        *)

\* A worker that is about to record a failure has counted it, so the enquiry
\* it sends back to wait is not fresh; and no worker returns before a signal.
Counted ==
  /\ FreshIsDue
  /\ \A w \in Workers : pc[w] = "fail" => failures[held[w]] > 0
  /\ proc = "up" => \A w \in Workers : pc[w] # "off"

LEMMA CountedStep == TypeOK /\ Counted /\ [Next]_vars => Counted'
  <1> SUFFICES ASSUME TypeOK, Counted, [Next]_vars PROVE Counted'
    OBVIOUS
  <1> USE QueueAssumption DEF TypeOK, Busy, Counted, FreshIsDue, Fresh, row, local, hist, reviews
  <1>1. ASSUME NEW w \in Workers, WorkerStep(w) PROVE Counted'
    <2>1. ASSUME NEW e \in Enquiries, Claim(w, e) PROVE Counted'
      BY <2>1 DEF Claim, ClaimRow
    <2>2. CASE ClaimNothing(w) \/ TakeWake(w) \/ Tick(w) \/ Return(w)
      BY <2>2 DEF ClaimNothing, TakeWake, Tick, Return
    <2>3. CASE ClaimFails(w)
      BY <2>3 DEF ClaimFails, ClaimRow
    <2>4. ASSUME NEW s \in Outcomes, Finish(w, s) PROVE Counted'
      BY <2>4 DEF Finish, SetStatus, BackToLoop
    <2>5. ASSUME NEW s \in Outcomes, AnswerLost(w, s) PROVE Counted'
      BY <2>5 DEF AnswerLost, SetStatus, ToFail
    <2>6. CASE RunFails(w)
      BY <2>6 DEF RunFails, ToFail
    <2>7. CASE Release(w)
      BY <2>7 DEF Release, Requeue, BackToLoop
    <2>8. CASE DeadLetter(w)
      BY <2>8 DEF DeadLetter, SetStatus, BackToLoop
    <2>9. CASE Retry(w)
      BY <2>9 DEF Retry, Requeue, BackToLoop
    <2>10. CASE FailNotRecorded(w)
      BY <2>10 DEF FailNotRecorded, BackToLoop
    <2> QED
      BY <1>1, <2>1, <2>2, <2>3, <2>4, <2>5, <2>6, <2>7, <2>8, <2>9, <2>10 DEF WorkerStep
  <1>2. ASSUME NEW e \in Enquiries, RowStep(e) PROVE Counted'
    <2>1. CASE Insert(e) \/ InsertUnreported(e)
      BY <2>1 DEF Insert, InsertUnreported, InsertRow
    <2>2. CASE Wake(e) \/ BackoffElapses(e)
      BY <2>2 DEF Wake, BackoffElapses
    <2>3. CASE OrphanExpires(e) \/ Overrun(e)
      BY <2>3 DEF OrphanExpires, Overrun, LeaseExpires
    <2>4. ASSUME NEW s \in Decided, Decide(e, s) PROVE Counted'
      BY <2>4 DEF Decide, Decided
    <2>5. CASE Resolve(e)
      BY <2>5 DEF Resolve, Requeue
    <2> QED
      BY <1>2, <2>1, <2>2, <2>3, <2>4, <2>5 DEF RowStep
  <1>3. CASE Stop \/ Exit \/ Crash \/ Start
    BY <1>3 DEF Stop, Exit, Crash, Start, ProcessEnds
  <1>4. CASE UNCHANGED vars
    BY <1>4 DEF vars
  <1> QED
    BY <1>1, <1>2, <1>3, <1>4 DEF Next

\* Whoever consumes the signal goes to the queue, and leaves it only when
\* there is nothing due, or to work.
LEMMA NoticedStep ==
  ASSUME Workers # {}, TypeOK, Counted, FreshIsNoticed, [Next]_vars
  PROVE  FreshIsNoticed'
  <1> SUFFICES ASSUME proc' = "up", dbErrors' = 0, NEW e \in Enquiries, Fresh(e)'
               PROVE Alert'
    BY DEF FreshIsNoticed
  <1> USE QueueAssumption DEF TypeOK, Busy, Alert, row, local, hist, reviews
  <1>d. ASSUME DbError, proc' = proc PROVE FALSE
    BY <1>d DEF DbError
  <1>1. ASSUME Fresh(e), UNCHANGED <<proc, dbErrors, pc, wake, nudges>> PROVE Alert'
    BY <1>1 DEF FreshIsNoticed
  <1>2. ASSUME NEW w \in Workers, pc'[w] \in {"claim"} \cup Busy PROVE Alert'
    BY <1>2
  <1>3. ASSUME NEW w \in Workers, WorkerStep(w) PROVE Alert'
    <2>1. CASE \E f \in Enquiries : Claim(w, f)
      BY <2>1, <1>2 DEF Claim
    <2>2. CASE ClaimNothing(w)
      <3>1. Fresh(e)
        BY <2>2 DEF ClaimNothing, Fresh
      <3>2. Claimable(e)
        BY <3>1 DEF Counted, FreshIsDue, Fresh, Claimable
      <3> QED
        BY <2>2, <3>2 DEF ClaimNothing
    <2>3. CASE ClaimFails(w) \/ FailNotRecorded(w) \/ \E s \in Outcomes : AnswerLost(w, s)
      <3>1. DbError /\ proc' = proc
        BY <2>3 DEF ClaimFails, FailNotRecorded, AnswerLost
      <3> QED
        BY <3>1, <1>d
    <2>4. CASE TakeWake(w) \/ Tick(w)
      BY <2>4, <1>2 DEF TakeWake, Tick
    <2>5. CASE Return(w)
      BY <2>5 DEF Return
    <2>6. CASE Release(w) \/ DeadLetter(w) \/ Retry(w) \/ \E s \in Outcomes : Finish(w, s)
      BY <2>6, <1>2 DEF Release, DeadLetter, Retry, Finish, BackToLoop
    <2>7. CASE RunFails(w)
      BY <2>7, <1>2 DEF RunFails, ToFail
    <2> QED
      BY <1>3, <2>1, <2>2, <2>3, <2>4, <2>5, <2>6, <2>7 DEF WorkerStep
  <1>4. ASSUME NEW f \in Enquiries, RowStep(f) PROVE Alert'
    <2>1. CASE Insert(f) \/ Resolve(f)
      BY <2>1 DEF Insert, Resolve
    <2>2. CASE InsertUnreported(f)
      BY <2>2, <1>d DEF InsertUnreported, InsertRow
    <2>3. CASE Wake(f)
      BY <2>3 DEF Wake
    <2>4. CASE OrphanExpires(f) \/ Overrun(f)
      BY <2>4, <1>1 DEF OrphanExpires, Overrun, LeaseExpires, Fresh, faults
    <2>5. CASE BackoffElapses(f)
      BY <2>5, <1>1 DEF BackoffElapses, Fresh, faults
    <2>6. ASSUME NEW s \in Decided, Decide(f, s) PROVE Alert'
      <3>1. Fresh(e)
        BY <2>6 DEF Decide, Decided, Fresh
      <3> QED
        BY <2>6, <3>1, <1>1 DEF Decide, faults
    <2> QED
      BY <1>4, <2>1, <2>2, <2>3, <2>4, <2>5, <2>6 DEF RowStep
  <1>5. CASE Stop \/ Exit \/ Crash
    BY <1>5 DEF Stop, Exit, Crash, ProcessEnds
  <1>6. CASE Start
    BY <1>6 DEF Start
  <1>7. CASE UNCHANGED vars
    BY <1>7, <1>1 DEF vars, Fresh, faults
  <1> QED
    BY <1>3, <1>4, <1>5, <1>6, <1>7 DEF Next

(***************************************************************************)
(* With a worker at all, dropping a signal loses nothing: an enquiry that  *)
(* no run has failed never waits for the ticker alone, however many are    *)
(* accepted while the channel is full, through stops and crashes.          *)
(***************************************************************************)
THEOREM FreshAreNoticed ==
  ASSUME Workers # {}
  PROVE  Spec => []FreshIsNoticed
  <1>1. ASSUME Init PROVE Counted /\ FreshIsNoticed
    BY <1>1 DEF Init, Counted, FreshIsDue, Fresh, FreshIsNoticed
  <1>2. TypeOK /\ Counted /\ FreshIsNoticed /\ [Next]_vars => Counted' /\ FreshIsNoticed'
    BY CountedStep, NoticedStep
  <1> QED
    BY <1>1, <1>2, TypeCorrect, PTL DEF Spec
=============================================================================
