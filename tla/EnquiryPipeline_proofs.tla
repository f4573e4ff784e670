----------------------- MODULE EnquiryPipeline_proofs -----------------------
(***************************************************************************)
(* Theorems about EnquiryPipeline, for any number of enquiries, workers,   *)
(* reviewers, texts and any bounds on the faults.                          *)
(***************************************************************************)
EXTENDS EnquiryPipeline, EnquiryQueue_proofs

(***************************************************************************)
(* The pipeline takes no step the queue does not have: a stage is either   *)
(* one of the queue's actions or stutters on the queue's variables.        *)
(***************************************************************************)

\* A decision is written as one of the outcomes of a run.
LEMMA OutcomeType == \A p : OutcomeOf(p) \in Outcomes
  BY PipelineAssumption DEF OutcomeOf

\* A worker's stage is a queue step of that worker, or leaves the queue alone.
LEMMA WorkerStepSimulates ==
  ASSUME NEW w \in Workers, PipelineWorkerStep(w)
  PROVE  WorkerStep(w) \/ UNCHANGED vars
  <1>1. ASSUME NEW e \in Enquiries, Begin(w, e) PROVE WorkerStep(w)
    BY <1>1 DEF Begin, WorkerStep
  <1>2. ASSUME Dedupe(w) PROVE UNCHANGED vars
    BY <1>2 DEF Dedupe
  <1>3. ASSUME NEW c \in Answers, Extract(w, c) PROVE UNCHANGED vars
    BY <1>3 DEF Extract
  <1>4. ASSUME NEW whose, NEW match, NEW ruled, MatchAndRoute(w, whose, match, ruled)
        PROVE UNCHANGED vars
    BY <1>4 DEF MatchAndRoute
  <1>5. ASSUME NEW k, WriteContact(w, k) PROVE UNCHANGED vars
    BY <1>5 DEF WriteContact
  <1>6. ASSUME WriteRecord(w) PROVE UNCHANGED vars
    BY <1>6 DEF WriteRecord
  <1>7. ASSUME NEW b \in Texts, WriteDraft(w, b) PROVE UNCHANGED vars
    BY <1>7 DEF WriteDraft
  <1>8. ASSUME Complete(w) PROVE WorkerStep(w)
    BY <1>8, OutcomeType DEF Complete, WorkerStep
  <1>9. ASSUME StageFails(w) PROVE WorkerStep(w)
    BY <1>9 DEF StageFails, WorkerStep
  <1>10. ASSUME Recover(w) PROVE WorkerStep(w)
    BY <1>10 DEF Recover, WorkerStep
  <1>11. ASSUME Idle(w) PROVE WorkerStep(w)
    BY <1>11 DEF Idle, WorkerStep
  <1> QED
    BY <1>1, <1>2, <1>3, <1>4, <1>5, <1>6, <1>7, <1>8, <1>9, <1>10, <1>11
    DEF PipelineWorkerStep

\* A reviewer's request is a Decide or a Resolve of the enquiry on the screen.
LEMMA ReviewerStepSimulates ==
  ASSUME PipelineTypeOK, NEW r \in Reviewers, ReviewerStep(r)
  PROVE  (\E e \in Enquiries : RowStep(e)) \/ UNCHANGED vars
  <1>1. ASSUME NEW e \in Enquiries, Read(r, e) PROVE UNCHANGED vars
    BY <1>1 DEF Read
  <1>2. ASSUME NEW k \in Kinds, BeginApprove(r, k) PROVE UNCHANGED vars
    BY <1>2 DEF BeginApprove
  <1>3. ASSUME NEW d, CommitApprove(r, d) PROVE \E e \in Enquiries : RowStep(e)
    <2>1. open[r] \in Enquiries
      BY <1>3 DEF CommitApprove, PipelineTypeOK, Kinds
    <2>2. \E s \in Decided : Decide(open[r], s)
      BY <1>3 DEF CommitApprove, Decided
    <2> QED
      BY <2>1, <2>2 DEF RowStep
  <1>4. ASSUME RequestFails(r) PROVE UNCHANGED vars
    BY <1>4 DEF RequestFails
  <1>5. ASSUME NEW whose, NEW s, ResolveCandidate(r, whose, s) PROVE UNCHANGED vars
    BY <1>5 DEF ResolveCandidate
  <1>6. ASSUME RequeueResolved(r) PROVE \E e \in Enquiries : RowStep(e)
    BY <1>6 DEF RequeueResolved, PipelineTypeOK, RowStep
  <1> QED
    BY <1>1, <1>2, <1>3, <1>4, <1>5, <1>6 DEF ReviewerStep

\* Every step of the pipeline is one of the queue's or stutters.
LEMMA StepSimulates ==
  ASSUME PipelineTypeOK, [PipelineNext]_pipelineVars
  PROVE  [Next]_vars
  <1>1. ASSUME NEW w \in Workers, PipelineWorkerStep(w) PROVE [Next]_vars
    BY <1>1, WorkerStepSimulates DEF Next
  <1>2. ASSUME NEW r \in Reviewers, ReviewerStep(r) PROVE [Next]_vars
    BY <1>2, ReviewerStepSimulates DEF Next
  <1>3. ASSUME NEW e \in Enquiries, NEW c, NEW k, Receive(e, c, k) PROVE [Next]_vars
    BY <1>3 DEF Receive, Next, RowStep
  <1>4. ASSUME NEW e \in Enquiries, WindowPasses(e) PROVE [Next]_vars
    BY <1>4 DEF WindowPasses
  <1>5. ASSUME NEW e \in Enquiries, Elsewhere(e) PROVE [Next]_vars
    BY <1>5 DEF Elsewhere, Next, RowStep
  <1>6. ASSUME ProcessStep PROVE [Next]_vars
    BY <1>6 DEF ProcessStep, Next
  <1>7. ASSUME UNCHANGED pipelineVars PROVE [Next]_vars
    BY <1>7 DEF pipelineVars
  <1> QED
    BY <1>1, <1>2, <1>3, <1>4, <1>5, <1>6, <1>7 DEF PipelineNext

-----------------------------------------------------------------------------
(* Types.                                                                  *)

\* The route of a run is a plan, and act has a first stage for each plan.
LEMMA RouteType ==
  ASSUME NEW c, NEW match, NEW ruled \in BOOLEAN
  PROVE  /\ Route(c, match, ruled) \in Plans
         /\ FirstStage(Route(c, match, ruled)) \in {"contact", "draft", "finish"}
  BY DEF Route, Plans, FirstStage

\* The worker's steps keep the types.
LEMMA WorkerStepType ==
  ASSUME TypeOK, PipelineTypeOK, NEW w \in Workers, PipelineWorkerStep(w)
  PROVE  PipelineTypeOK'
  <1> USE PipelineAssumption DEF PipelineTypeOK, columns, crm, gate, steps, screen,
        vars, row, local
  <1>1. ASSUME NEW e \in Enquiries, Begin(w, e) PROVE PipelineTypeOK'
    BY <1>1 DEF Begin, ToStage, Claim, TypeOK
  <1>2. ASSUME Dedupe(w) PROVE PipelineTypeOK'
    <2>1. /\ UNCHANGED <<vars, columns, crm, gate, class, screen>>
          /\ pc[w] = "run" /\ stage[w] = "dedupe"
          /\ \/ stage' = [stage EXCEPT ![w] = "finish"] /\ plan' = [plan EXCEPT ![w] = "discard"]
             \/ stage' = [stage EXCEPT ![w] = "extract"] /\ plan' = plan
      BY <1>2 DEF Dedupe, At, ToStage
    <2>2. plan[w] = "none"
      BY <2>1
    <2> QED
      BY <2>1, <2>2 DEF Plans
  <1>3. ASSUME NEW c \in Answers, Extract(w, c) PROVE PipelineTypeOK'
    BY <1>3 DEF Extract, At, ToStage, Plans
  <1>4. ASSUME NEW whose \in {"theirs", "own"}, NEW match \in Matches, NEW ruled \in BOOLEAN,
               MatchAndRoute(w, whose, match, ruled)
        PROVE PipelineTypeOK'
    <2> DEFINE p == Route(class[w], match, ruled)
    <2>1. p \in Plans /\ FirstStage(p) \in {"contact", "draft", "finish"} /\ p # "none"
      BY RouteType DEF Plans
    <2>2. candidate' \in [Contacts -> {"none", "pending", "auto_attached", "attached", "separate"}]
      BY <1>4 DEF MatchAndRoute, RecordCandidate
    <2> HIDE DEF p
    <2> QED
      BY <1>4, <2>1, <2>2 DEF MatchAndRoute, At, ToStage, p
  <1>5. ASSUME NEW k \in {"fuzzy", "exact"}, WriteContact(w, k) PROVE PipelineTypeOK'
    <2> DEFINE own == <<held[w], "own">>
               found == IF plan[w] = "create" /\ known[own] # "exact" THEN k ELSE known[own]
    <2>1. known' \in [Contacts -> Matches]
      <3>1. known \in [Contacts -> Matches]
        BY DEF PipelineTypeOK
      <3>2. known' = [known EXCEPT ![own] = found]
        BY <1>5 DEF WriteContact
      <3>3. own \in Contacts => found \in Matches
        BY <3>1, <1>5 DEF Matches
      <3> HIDE DEF own, found
      <3> QED
        BY ONLY <3>1, <3>2, <3>3
    <2>2. stage' = [stage EXCEPT ![w] = "record"] /\ stage[w] = "contact" /\ pc[w] = "run"
      BY <1>5 DEF WriteContact, At, ToStage
    <2>3. UNCHANGED <<vars, columns, candidate, record, gate, class, plan, screen>>
      BY <1>5 DEF WriteContact
    <2> QED
      BY <2>1, <2>2, <2>3
  <1>6. ASSUME WriteRecord(w) PROVE PipelineTypeOK'
    BY <1>6 DEF WriteRecord, At, ToStage
  <1>7. ASSUME NEW b \in Texts, WriteDraft(w, b) PROVE PipelineTypeOK'
    BY <1>7 DEF WriteDraft, UpsertDraft, At, ToStage
  <1>8. ASSUME LeaveRun(w), pc' = [pc EXCEPT ![w] = pc'[w]], pc'[w] # "run",
               UNCHANGED <<columns, crm, gate, screen>>
        PROVE PipelineTypeOK'
    BY <1>8 DEF LeaveRun, TypeOK
  <1>9. ASSUME Complete(w) PROVE PipelineTypeOK'
    <2>1. pc' = [pc EXCEPT ![w] = pc'[w]] /\ pc'[w] # "run"
      BY <1>9 DEF Complete, Finish, AnswerLost, ToFail, BackToLoop, TypeOK
    <2> QED
      BY <1>8, <1>9, <2>1 DEF Complete
  <1>10. ASSUME StageFails(w) PROVE PipelineTypeOK'
    <2>1. pc' = [pc EXCEPT ![w] = pc'[w]] /\ pc'[w] # "run"
      BY <1>10 DEF StageFails, RunFails, ToFail, TypeOK
    <2> QED
      BY <1>8, <1>10, <2>1 DEF StageFails
  <1>11. ASSUME Recover(w) PROVE PipelineTypeOK'
    <2>1. pc' = [pc EXCEPT ![w] = "claim"] /\ pc[w] # "run"
      BY <1>11 DEF Recover, Release, DeadLetter, Retry, BackToLoop
    <2>2. \A v \in Workers : pc'[v] = "run" <=> pc[v] = "run"
      BY <2>1 DEF TypeOK
    <2>3. UNCHANGED <<columns, crm, gate, steps, screen>>
      BY <1>11 DEF Recover
    <2> QED
      BY <2>2, <2>3
  <1>12. ASSUME Idle(w) PROVE PipelineTypeOK'
    <2>1. pc' = [pc EXCEPT ![w] = pc'[w]] /\ pc[w] # "run" /\ pc'[w] # "run"
      BY <1>12 DEF Idle, ClaimNothing, ClaimFails, TakeWake, Tick, Return,
         FailNotRecorded, BackToLoop, TypeOK
    <2> QED
      BY <1>12, <2>1 DEF Idle, TypeOK
  <1> QED
    BY <1>1, <1>2, <1>3, <1>4, <1>5, <1>6, <1>7, <1>9, <1>10, <1>11, <1>12
    DEF PipelineWorkerStep

\* The reviewers' requests keep the types.
LEMMA ReviewerStepType ==
  ASSUME TypeOK, PipelineTypeOK, NEW r \in Reviewers, ReviewerStep(r)
  PROVE  PipelineTypeOK'
  <1> USE PipelineAssumption DEF PipelineTypeOK, columns, crm, gate, steps, screen,
        vars, row, local, Kinds
  <1>1. ASSUME NEW e \in Enquiries, Read(r, e) PROVE PipelineTypeOK'
    BY <1>1, QueueAssumption DEF Read, Messages
  <1>2. ASSUME NEW k \in Kinds, BeginApprove(r, k) PROVE PipelineTypeOK'
    BY <1>2 DEF BeginApprove, LockMessage
  <1>3. ASSUME NEW d, CommitApprove(r, d) PROVE PipelineTypeOK'
    <2> DEFINE m == <<open[r], hand[r]>>
    <2>m. m \in Messages
      BY <1>3 DEF CommitApprove, Messages
    <2>1. message' \in [Messages -> {"none", "pending_approval", "sent", "rejected"}]
      BY <1>3 DEF CommitApprove
    <2>2. body' \in [Messages -> Texts \cup {Edited, None}]
      <3>1. PICK t : t \in {Edited, body[m]} /\ body' = [body EXCEPT ![m] = t]
        BY <1>3 DEF CommitApprove
      <3>2. t \in Texts \cup {Edited, None}
        BY <2>m, <3>1
      <3> HIDE DEF m
      <3> QED
        BY <3>1, <3>2
    <2>3. decided' \in [Messages -> Nat]
      <3>1. decided' = [decided EXCEPT ![m] = @ + 1]
        BY <1>3 DEF CommitApprove
      <3> HIDE DEF m
      <3> QED
        BY <2>m, <3>1
    <2>4. hand' = [hand EXCEPT ![r] = "idle"]
          /\ UNCHANGED <<columns, crm, steps, open, shown, pc>>
      BY <1>3 DEF CommitApprove, Decide
    <2> QED
      BY <2>1, <2>2, <2>3, <2>4
  <1>4. ASSUME RequestFails(r) PROVE PipelineTypeOK'
    BY <1>4 DEF RequestFails
  <1>5. ASSUME NEW whose, NEW s \in {"attached", "separate"}, ResolveCandidate(r, whose, s)
        PROVE PipelineTypeOK'
    BY <1>5 DEF ResolveCandidate
  <1>6. ASSUME RequeueResolved(r) PROVE PipelineTypeOK'
    BY <1>6 DEF RequeueResolved, Resolve
  <1> QED
    BY <1>1, <1>2, <1>3, <1>4, <1>5, <1>6 DEF ReviewerStep

\* So does everything else.
LEMMA PipelineTypeStep ==
  TypeOK /\ PipelineTypeOK /\ [PipelineNext]_pipelineVars => PipelineTypeOK'
  <1> SUFFICES ASSUME TypeOK, PipelineTypeOK, [PipelineNext]_pipelineVars
               PROVE  PipelineTypeOK'
    OBVIOUS
  <1> USE PipelineAssumption DEF PipelineTypeOK, columns, crm, gate, steps, screen,
        vars, row, local
  <1>1. ASSUME NEW e \in Enquiries, NEW c \in Contents, NEW k \in Senders, Receive(e, c, k)
        PROVE  PipelineTypeOK'
    BY <1>1 DEF Receive, Insert, InsertUnreported, InsertRow
  <1>2. ASSUME NEW e \in Enquiries, WindowPasses(e) PROVE PipelineTypeOK'
    BY <1>2 DEF WindowPasses
  <1>3. ASSUME NEW e \in Enquiries, Elsewhere(e) PROVE PipelineTypeOK'
    BY <1>3 DEF Elsewhere, Wake, OrphanExpires, Overrun, LeaseExpires, BackoffElapses
  <1>4. ASSUME Stop, UNCHANGED <<columns, crm, gate, steps, screen>> PROVE PipelineTypeOK'
    BY <1>4 DEF Stop
  <1>5. ASSUME Start, UNCHANGED <<columns, crm, gate, steps, screen>> PROVE PipelineTypeOK'
    <2>1. \A w \in Workers : pc[w] # "run" /\ pc'[w] # "run"
      BY <1>5 DEF Start, TypeOK
    <2> QED
      BY <1>5, <2>1
  <1>6. ASSUME ProcessStep, Exit \/ Crash PROVE PipelineTypeOK'
    <2>1. ProcessEnds /\ UNCHANGED <<columns, crm, gate, open, shown>>
          /\ stage' = [w \in Workers |-> "none"]
          /\ class' = [w \in Workers |-> "none"]
          /\ plan' = [w \in Workers |-> "none"]
          /\ hand' = [r \in Reviewers |-> "idle"]
      BY <1>6 DEF ProcessStep, Exit, Crash, Stop, Start, ProcessEnds
    <2> QED
      BY <2>1 DEF ProcessEnds
  <1>7. ASSUME UNCHANGED pipelineVars PROVE PipelineTypeOK'
    BY <1>7 DEF pipelineVars
  <1> QED
    BY <1>1, <1>2, <1>3, <1>4, <1>5, <1>6, <1>7, WorkerStepType, ReviewerStepType
    DEF PipelineNext, ProcessStep

\* Every variable of the queue and of the stages keeps its type; a worker has
\* a stage exactly while it runs, and a plan exactly between Route and the end.
THEOREM PipelineTypeCorrect == PipelineSpec => [](TypeOK /\ PipelineTypeOK)
  <1>1. PipelineInit => TypeOK /\ PipelineTypeOK
    <2>1. ASSUME PipelineInit PROVE PipelineTypeOK
      BY <2>1 DEF PipelineInit, PipelineTypeOK, Init, Matches
    <2> QED
      BY <2>1, TypeInit DEF PipelineInit
  <1>2. TypeOK /\ PipelineTypeOK /\ [PipelineNext]_pipelineVars => (TypeOK /\ PipelineTypeOK)'
    BY StepSimulates, TypeStep, PipelineTypeStep
  <1> QED
    BY <1>1, <1>2, PTL DEF PipelineSpec

\* The stages implement the queue, so that each theorem about EnquiryQueue
\* holds of the pipeline.
THEOREM PipelineImplementsQueue == PipelineSpec => QueueSpec
  <1>1. PipelineInit => Init
    BY DEF PipelineInit
  <1>2. PipelineTypeOK /\ [PipelineNext]_pipelineVars => [Next]_vars
    BY StepSimulates
  <1> QED
    BY <1>1, <1>2, PipelineTypeCorrect, PTL DEF PipelineSpec, QueueSpec, Spec

(***************************************************************************)
(* What the queue promises survives the stages and the reviewers: who has  *)
(* a lease, that one worker runs an undisturbed enquiry, when it becomes a *)
(* dead letter, and how often it may be claimed.                           *)
(***************************************************************************)
THEOREM PipelineKeepsTheQueue ==
  PipelineSpec => [](LeasedWhileProcessing /\ OneWorkerPerLease /\ DeadLetterExact /\ RetryBudget)
  BY PipelineImplementsQueue, LeasesAgree, MutualExclusion, DeadLetterAfterBudget, ClaimsAreBounded,
     PTL DEF QueueSpec

-----------------------------------------------------------------------------
(* Who changes what.                                                       *)

\* The messages change in a draft and in a decision, and nowhere else.
LEMMA MessageSteps ==
  ASSUME [PipelineNext]_pipelineVars
  PROVE  \/ UNCHANGED gate
         \/ \E w \in Workers, b \in Texts : WriteDraft(w, b)
         \/ \E r \in Reviewers, d \in {"approved", "approved_with_edit", "rejected"} :
               CommitApprove(r, d)
  <1>1. ASSUME NEW w \in Workers, PipelineWorkerStep(w)
        PROVE  UNCHANGED gate \/ \E b \in Texts : WriteDraft(w, b)
    BY <1>1 DEF PipelineWorkerStep, Begin, Dedupe, Extract, MatchAndRoute, WriteContact,
       WriteRecord, Complete, StageFails, Recover, Idle
  <1>2. ASSUME NEW r \in Reviewers, ReviewerStep(r)
        PROVE  \/ UNCHANGED gate
               \/ \E d \in {"approved", "approved_with_edit", "rejected"} : CommitApprove(r, d)
    BY <1>2 DEF ReviewerStep, Read, BeginApprove, RequestFails, ResolveCandidate, RequeueResolved
  <1>3. ASSUME NEW e \in Enquiries, NEW c, NEW k, Receive(e, c, k) PROVE UNCHANGED gate
    BY <1>3 DEF Receive
  <1>4. ASSUME NEW e \in Enquiries, WindowPasses(e) \/ Elsewhere(e) PROVE UNCHANGED gate
    BY <1>4 DEF WindowPasses, Elsewhere
  <1>5. ASSUME ProcessStep PROVE UNCHANGED gate
    BY <1>5 DEF ProcessStep
  <1>6. ASSUME UNCHANGED pipelineVars PROVE UNCHANGED gate
    BY <1>6 DEF pipelineVars
  <1> QED
    BY <1>1, <1>2, <1>3, <1>4, <1>5, <1>6 DEF PipelineNext

\* A locked message is given up only by its own request: its row stays the
\* same and no request steps in.
LEMMA HandSteps ==
  ASSUME PipelineTypeOK, [PipelineNext]_pipelineVars, NEW r \in Reviewers, hand'[r] \in Kinds
  PROVE  \/ hand'[r] = hand[r] /\ open'[r] = open[r] /\ shown'[r] = shown[r]
         \/ \E k \in Kinds : BeginApprove(r, k)
  <1> USE DEF Kinds, screen, PipelineTypeOK
  <1> DEFINE Same == hand'[r] = hand[r] /\ open'[r] = open[r] /\ shown'[r] = shown[r]
  <1>1. ASSUME NEW w \in Workers, PipelineWorkerStep(w) PROVE Same
    BY <1>1 DEF PipelineWorkerStep, Begin, Dedupe, Extract, MatchAndRoute, WriteContact,
       WriteRecord, WriteDraft, Complete, StageFails, Recover, Idle
  <1>2. ASSUME NEW q \in Reviewers, NEW e \in Enquiries, Read(q, e) PROVE Same
    BY <1>2 DEF Read
  <1>3. ASSUME NEW q \in Reviewers, NEW k \in Kinds, BeginApprove(q, k)
        PROVE  Same \/ BeginApprove(r, k)
    BY <1>3 DEF BeginApprove, LockMessage
  <1>4. ASSUME NEW q \in Reviewers, NEW d, CommitApprove(q, d) PROVE Same
    BY <1>4 DEF CommitApprove
  <1>5. ASSUME NEW q \in Reviewers, RequestFails(q) \/ RequeueResolved(q) PROVE Same
    <2>1. UNCHANGED <<open, shown>> /\ hand' = [hand EXCEPT ![q] = "idle"]
      BY <1>5 DEF RequestFails, RequeueResolved
    <2> QED
      BY <2>1
  <1>6. ASSUME NEW q \in Reviewers, NEW whose, NEW s, ResolveCandidate(q, whose, s) PROVE Same
    BY <1>6 DEF ResolveCandidate
  <1>7. ASSUME NEW e \in Enquiries, NEW c, NEW k, Receive(e, c, k) PROVE Same
    BY <1>7 DEF Receive
  <1>8. ASSUME NEW e \in Enquiries, WindowPasses(e) \/ Elsewhere(e) PROVE Same
    BY <1>8 DEF WindowPasses, Elsewhere
  <1>9. ASSUME ProcessStep PROVE Same
    BY <1>9 DEF ProcessStep
  <1>10. ASSUME UNCHANGED pipelineVars PROVE Same
    BY <1>10 DEF pipelineVars
  <1> QED
    BY <1>1, <1>2, <1>3, <1>4, <1>5, <1>6, <1>7, <1>8, <1>9, <1>10
    DEF PipelineNext, ReviewerStep

-----------------------------------------------------------------------------
(* The approval gate.                                                      *)

\* A request takes a lock nobody has, and a draft waits for it.
LEMMA LockStep ==
  TypeOK /\ PipelineTypeOK /\ RowLocked /\ [PipelineNext]_pipelineVars => RowLocked'
  <1> SUFFICES ASSUME TypeOK, PipelineTypeOK, RowLocked, [PipelineNext]_pipelineVars,
                      NEW r \in Reviewers, hand'[r] \in Kinds
               PROVE  /\ message'[<<open'[r], hand'[r]>>] = "pending_approval"
                      /\ \A q \in Reviewers \ {r} :
                            <<open'[q], hand'[q]>> # <<open'[r], hand'[r]>>
    BY DEF RowLocked
  <1>1. \/ hand'[r] = hand[r] /\ open'[r] = open[r]
        \/ \E k \in Kinds : BeginApprove(r, k)
    BY HandSteps
  <1>2. /\ message[<<open'[r], hand'[r]>>] = "pending_approval"
        /\ <<open'[r], hand'[r]>> \in Messages
        /\ \A q \in Reviewers \ {r} : <<open[q], hand[q]>> # <<open'[r], hand'[r]>>
    <2>1. CASE hand'[r] = hand[r] /\ open'[r] = open[r]
      <3>1. open[r] \in Enquiries
        BY <2>1 DEF PipelineTypeOK, Kinds
      <3> QED
        BY <2>1, <3>1 DEF RowLocked, Messages
    <2>2. ASSUME NEW k \in Kinds, BeginApprove(r, k)
          PROVE  /\ message[<<open[r], k>>] = "pending_approval"
                 /\ open[r] \in Enquiries
                 /\ open'[r] = open[r] /\ hand'[r] = k
                 /\ \A q \in Reviewers : <<open[q], hand[q]>> # <<open[r], k>>
      BY <2>2 DEF BeginApprove, LockMessage, Unlocked, PipelineTypeOK
    <2> QED
      BY <1>1, <2>1, <2>2 DEF Messages
  <1>3. ASSUME NEW q \in Reviewers \ {r}, <<open'[q], hand'[q]>> = <<open'[r], hand'[r]>>
        PROVE FALSE
    <2>1. hand'[q] \in Kinds
      BY <1>3
    <2>2. \/ hand'[q] = hand[q] /\ open'[q] = open[q]
          \/ \E k \in Kinds : BeginApprove(q, k)
      BY <2>1, HandSteps
    <2>3. ASSUME NEW k \in Kinds, BeginApprove(q, k)
          PROVE  hand'[q] = k /\ open'[q] = open[q] /\ <<open[r], hand[r]>> # <<open[q], k>>
                 /\ hand'[r] = hand[r] /\ open'[r] = open[r]
      BY <2>3 DEF BeginApprove, LockMessage, Unlocked, PipelineTypeOK
    <2> QED
      BY <1>2, <1>3, <2>2, <2>3
  <1>4. message'[<<open'[r], hand'[r]>>] = "pending_approval"
    <2> DEFINE n == <<open'[r], hand'[r]>>
    <2>1. CASE UNCHANGED gate
      BY <1>2, <2>1 DEF gate
    <2>2. ASSUME NEW w \in Workers, NEW b \in Texts, WriteDraft(w, b)
          PROVE  message'[n] = "pending_approval"
      BY <1>2, <2>2 DEF WriteDraft, UpsertDraft, PipelineTypeOK
    <2>3. ASSUME NEW q \in Reviewers, NEW d, CommitApprove(q, d)
          PROVE  message'[n] = "pending_approval"
      <3>1. q # r
        BY <2>3 DEF CommitApprove, PipelineTypeOK, Kinds
      <3>2. <<open[q], hand[q]>> # n
        BY <3>1, <1>2
      <3>3. \E s : message' = [message EXCEPT ![<<open[q], hand[q]>>] = s]
        BY <2>3 DEF CommitApprove
      <3> QED
        BY <1>2, <3>2, <3>3 DEF PipelineTypeOK
    <2> QED
      BY <2>1, <2>2, <2>3, MessageSteps
  <1> QED
    BY <1>3, <1>4

\* A draft written by a worker is a draft of the gate, or changes nothing.
LEMMA DraftIsGated ==
  ASSUME TypeOK, PipelineTypeOK, NEW w \in Workers, NEW b \in Texts, WriteDraft(w, b)
  PROVE  [Gate!GateNext]_Gate!gateVars
  <1> DEFINE m == <<held[w], KindOf(plan[w])>>
  <1>1. m \in Messages
    BY DEF WriteDraft, At, TypeOK, Busy, Messages, Kinds, KindOf
  <1>2. UpsertDraft(m, b)
    BY DEF WriteDraft
  <1> HIDE DEF m
  <1>3. CASE message[m] \in {"none", "pending_approval"}
    <2>1. message' = [message EXCEPT ![m] = "pending_approval"]
      BY <1>1, <1>2, <1>3 DEF UpsertDraft, PipelineTypeOK
    <2>2. body' = [body EXCEPT ![m] = b] /\ UNCHANGED decided
      BY <1>1, <1>2, <1>3 DEF UpsertDraft, PipelineTypeOK
    <2>3. body'[m] = b
      BY <1>1, <2>2 DEF PipelineTypeOK
    <2> QED
      BY <1>1, <1>3, <2>1, <2>2, <2>3 DEF Gate!GateNext, Gate!Draft
  <1>4. CASE message[m] \notin {"none", "pending_approval"}
    <2>1. message' = message
      BY <1>1, <1>2, <1>4 DEF UpsertDraft, PipelineTypeOK
    <2>2. body' = body /\ decided' = decided
      BY <1>1, <1>2, <1>4 DEF UpsertDraft, PipelineTypeOK
    <2> QED
      BY <2>1, <2>2 DEF Gate!gateVars
  <1> QED
    BY <1>3, <1>4

\* The commit of an Approve settles the message it has locked.
LEMMA DecisionIsGated ==
  ASSUME PipelineTypeOK, RowLocked, NEW r \in Reviewers, NEW d, CommitApprove(r, d)
  PROVE  Gate!GateNext
  <1> DEFINE m == <<open[r], hand[r]>>
  <1>1. m \in Messages
    BY DEF CommitApprove, PipelineTypeOK, Kinds, Messages
  <1>2. message[m] = "pending_approval"
    BY DEF CommitApprove, RowLocked
  <1>3. \E s \in {"sent", "rejected"} : message' = [message EXCEPT ![m] = s]
    BY DEF CommitApprove
  <1>4. \E t \in {body[m], Edited} : body' = [body EXCEPT ![m] = t]
    BY DEF CommitApprove
  <1>5. decided' = [decided EXCEPT ![m] = @ + 1]
    BY DEF CommitApprove
  <1> QED
    BY <1>1, <1>2, <1>3, <1>4, <1>5 DEF Gate!GateNext, Gate!Settle

\* No request decides on a message another request has locked.
THEOREM LocksHold == PipelineSpec => []RowLocked
  <1>1. PipelineInit => RowLocked
    BY DEF PipelineInit, RowLocked, Kinds
  <1> QED
    BY <1>1, LockStep, PipelineTypeCorrect, PTL DEF PipelineSpec

\* Every outbound message goes through the approval gate, whatever workers,
\* reviewers, crashes and expired leases do.
THEOREM GateHolds == PipelineSpec => ThroughTheGate
  <1>1. PipelineInit => Gate!GateInit
    BY DEF PipelineInit, Gate!GateInit
  <1>2. TypeOK /\ PipelineTypeOK /\ RowLocked /\ [PipelineNext]_pipelineVars
           => [Gate!GateNext]_Gate!gateVars
    <2> SUFFICES ASSUME TypeOK, PipelineTypeOK, RowLocked, [PipelineNext]_pipelineVars
                 PROVE  [Gate!GateNext]_Gate!gateVars
      OBVIOUS
    <2>1. CASE UNCHANGED gate
      BY <2>1 DEF gate, Gate!gateVars
    <2> QED
      BY <2>1, MessageSteps, DraftIsGated, DecisionIsGated
  <1> QED
    BY <1>1, <1>2, LocksHold, PipelineTypeCorrect, PTL
    DEF PipelineSpec, ThroughTheGate, Gate!GateSpec

-----------------------------------------------------------------------------
(* What a step of the queue leaves behind.                                 *)

\* A row never goes back to being absent, nobody has a row that is, and its
\* decisions are never taken back.
LEMMA RowSteps ==
  ASSUME TypeOK, [Next]_vars, NEW e \in Enquiries
  PROVE  /\ status'[e] = "absent" =>
               /\ status[e] = "absent"
               /\ \A w \in Workers : held'[w] = e => held[w] = e
         /\ decisions'[e] >= decisions[e]
  <1> USE QueueAssumption DEF TypeOK, Statuses, Settled, Decided, Busy, row, local, hist, reviews
  <1> DEFINE Fine ==
         /\ status'[e] = "absent" =>
               /\ status[e] = "absent"
               /\ \A w \in Workers : held'[w] = e => held[w] = e
         /\ decisions'[e] >= decisions[e]
  <1>1. ASSUME NEW w \in Workers, NEW f \in Enquiries, Claim(w, f) PROVE Fine
    BY <1>1 DEF Claim, ClaimRow
  <1>2. ASSUME NEW w \in Workers, ClaimNothing(w) \/ TakeWake(w) \/ Tick(w) \/ Return(w)
        PROVE Fine
    BY <1>2 DEF ClaimNothing, TakeWake, Tick, Return
  <1>3. ASSUME NEW w \in Workers, ClaimFails(w) PROVE Fine
    BY <1>3 DEF ClaimFails, ClaimRow
  <1>4. ASSUME NEW w \in Workers, NEW s \in Outcomes, Finish(w, s) PROVE Fine
    <2>1. /\ status' = [status EXCEPT ![held[w]] = s] /\ held' = [held EXCEPT ![w] = None]
          /\ decisions' = decisions /\ held[w] \in Enquiries /\ s # "absent"
      BY <1>4 DEF Finish, SetStatus, BackToLoop
    <2> QED
      BY <2>1
  <1>5. ASSUME NEW w \in Workers, NEW s \in Outcomes, AnswerLost(w, s) PROVE Fine
    <2>1. /\ status' = [status EXCEPT ![held[w]] = s] /\ held' = held
          /\ decisions' = decisions /\ held[w] \in Enquiries /\ s # "absent"
      BY <1>5 DEF AnswerLost, SetStatus
    <2> QED
      BY <2>1
  <1>6. ASSUME NEW w \in Workers, RunFails(w) \/ FailNotRecorded(w) PROVE Fine
    BY <1>6 DEF RunFails, FailNotRecorded, BackToLoop
  <1>7. ASSUME NEW w \in Workers, Release(w) \/ Retry(w) PROVE Fine
    BY <1>7 DEF Release, Retry, Requeue, BackToLoop
  <1>8. ASSUME NEW w \in Workers, DeadLetter(w) PROVE Fine
    BY <1>8 DEF DeadLetter, SetStatus, BackToLoop
  <1>9. ASSUME NEW f \in Enquiries, Insert(f) \/ InsertUnreported(f) \/ Wake(f) \/ BackoffElapses(f) PROVE Fine
    BY <1>9 DEF Insert, InsertUnreported, InsertRow, Wake, BackoffElapses
  <1>10. ASSUME NEW f \in Enquiries, OrphanExpires(f) \/ Overrun(f) PROVE Fine
    BY <1>10 DEF OrphanExpires, Overrun, LeaseExpires
  <1>11. ASSUME NEW f \in Enquiries, NEW s \in Decided, Decide(f, s) PROVE Fine
    BY <1>11 DEF Decide
  <1>12. ASSUME NEW f \in Enquiries, Resolve(f) PROVE Fine
    BY <1>12 DEF Resolve, Requeue
  <1>13. ASSUME Stop \/ Start PROVE Fine
    BY <1>13 DEF Stop, Start
  <1>14. ASSUME Exit \/ Crash PROVE Fine
    BY <1>14 DEF Exit, Crash, ProcessEnds
  <1>15. CASE UNCHANGED vars
    BY <1>15 DEF vars
  <1> QED
    BY <1>1, <1>2, <1>3, <1>4, <1>5, <1>6, <1>7, <1>8, <1>9, <1>10, <1>11, <1>12,
       <1>13, <1>14, <1>15
    DEF Next, WorkerStep, RowStep

\* A run keeps its enquiry and goes from stage to stage on its own.
LEMMA RunSteps ==
  ASSUME TypeOK, PipelineTypeOK, [PipelineNext]_pipelineVars, NEW v \in Workers,
         stage'[v] \notin {"none", "dedupe"}
  PROVE  /\ held'[v] = held[v] /\ held[v] \in Enquiries
         /\ \/ stage'[v] = stage[v] /\ plan'[v] = plan[v]
            \/ Dedupe(v)
            \/ stage[v] = "extract" /\ stage'[v] = "match"
            \/ \E whose \in {"theirs", "own"}, match \in Matches, ruled \in BOOLEAN :
                  MatchAndRoute(v, whose, match, ruled)
            \/ stage[v] = "contact" /\ stage'[v] = "record"
            \/ WriteRecord(v)
            \/ \E b \in Texts : WriteDraft(v, b)
  <1> USE DEF PipelineTypeOK, columns, crm, gate, steps, screen, vars, row, local, Busy
  <1> DEFINE Moved == \/ Dedupe(v)
                      \/ stage[v] = "extract" /\ stage'[v] = "match"
                      \/ \E whose \in {"theirs", "own"}, match \in Matches, ruled \in BOOLEAN :
                            MatchAndRoute(v, whose, match, ruled)
                      \/ stage[v] = "contact" /\ stage'[v] = "record"
                      \/ WriteRecord(v)
                      \/ \E b \in Texts : WriteDraft(v, b)
             Same == stage'[v] = stage[v] /\ plan'[v] = plan[v]
             Kept == held'[v] = held[v] /\ held[v] \in Enquiries
  <1>0. stage[v] # "none" => held[v] \in Enquiries
    BY DEF TypeOK
  <1>1. ASSUME NEW w \in Workers, NEW e \in Enquiries, Begin(w, e) PROVE Kept /\ Same
    BY <1>0, <1>1 DEF Begin, ToStage, Claim, TypeOK
  <1>2. ASSUME NEW w \in Workers, Dedupe(w) PROVE Kept /\ (Same \/ Moved)
    <2>1. CASE w = v
      BY <1>0, <1>2, <2>1 DEF Dedupe, At
    <2>2. CASE w # v
      BY <1>0, <1>2, <2>2 DEF Dedupe, At, ToStage
    <2> QED
      BY <2>1, <2>2
  <1>3. ASSUME NEW w \in Workers, NEW c \in Answers, Extract(w, c) PROVE Kept /\ (Same \/ Moved)
    BY <1>0, <1>3 DEF Extract, At, ToStage
  <1>4. ASSUME NEW w \in Workers, NEW whose \in {"theirs", "own"}, NEW match \in Matches,
               NEW ruled \in BOOLEAN, MatchAndRoute(w, whose, match, ruled)
        PROVE Kept /\ (Same \/ Moved)
    <2>1. CASE w = v
      BY <1>0, <1>4, <2>1 DEF MatchAndRoute, At
    <2>2. CASE w # v
      BY <1>0, <1>4, <2>2 DEF MatchAndRoute, At, ToStage
    <2> QED
      BY <2>1, <2>2
  <1>5. ASSUME NEW w \in Workers, NEW k, WriteContact(w, k) PROVE Kept /\ (Same \/ Moved)
    BY <1>0, <1>5 DEF WriteContact, At, ToStage
  <1>6. ASSUME NEW w \in Workers, WriteRecord(w) PROVE Kept /\ (Same \/ Moved)
    <2>1. CASE w = v
      BY <1>0, <1>6, <2>1 DEF WriteRecord, At
    <2>2. CASE w # v
      BY <1>0, <1>6, <2>2 DEF WriteRecord, At, ToStage
    <2> QED
      BY <2>1, <2>2
  <1>7. ASSUME NEW w \in Workers, NEW b \in Texts, WriteDraft(w, b) PROVE Kept /\ (Same \/ Moved)
    <2>1. CASE w = v
      BY <1>0, <1>7, <2>1 DEF WriteDraft, At
    <2>2. CASE w # v
      BY <1>0, <1>7, <2>2 DEF WriteDraft, At, ToStage
    <2> QED
      BY <2>1, <2>2
  <1>8. ASSUME NEW w \in Workers, Complete(w) \/ StageFails(w) PROVE Kept /\ Same
    <2>1. LeaveRun(w) /\ (held' = held \/ held' = [held EXCEPT ![w] = None])
      BY <1>8 DEF Complete, StageFails, Finish, BackToLoop, AnswerLost, RunFails
    <2>2. w # v
      BY <2>1 DEF LeaveRun
    <2> QED
      BY <1>0, <2>1, <2>2 DEF LeaveRun, TypeOK
  <1>9. ASSUME NEW w \in Workers, Recover(w) PROVE Kept /\ Same
    <2>1. UNCHANGED steps /\ pc[w] # "run" /\ held' = [held EXCEPT ![w] = None]
      BY <1>9 DEF Recover, Release, DeadLetter, Retry, BackToLoop
    <2> QED
      BY <1>0, <2>1 DEF TypeOK
  <1>10. ASSUME NEW w \in Workers, Idle(w) PROVE Kept /\ Same
    <2>1. UNCHANGED steps /\ pc[w] # "run"
          /\ (held' = held \/ held' = [held EXCEPT ![w] = None])
      BY <1>10 DEF Idle, ClaimNothing, ClaimFails, TakeWake, Tick, Return,
         FailNotRecorded, BackToLoop
    <2> QED
      BY <1>0, <2>1 DEF TypeOK
  <1>11. ASSUME NEW r \in Reviewers, ReviewerStep(r) PROVE Kept /\ Same
    <2>1. UNCHANGED steps /\ UNCHANGED held
      BY <1>11 DEF ReviewerStep, Read, BeginApprove, CommitApprove, RequestFails,
         ResolveCandidate, RequeueResolved, Decide, Resolve
    <2> QED
      BY <1>0, <2>1
  <1>12. ASSUME NEW e \in Enquiries, NEW c, NEW k, Receive(e, c, k) PROVE Kept /\ Same
    BY <1>0, <1>12 DEF Receive, Insert, InsertUnreported, InsertRow
  <1>13. ASSUME NEW e \in Enquiries, WindowPasses(e) \/ Elsewhere(e) PROVE Kept /\ Same
    <2>1. UNCHANGED steps /\ UNCHANGED held
      BY <1>13 DEF WindowPasses, Elsewhere, Wake, OrphanExpires, Overrun, LeaseExpires,
         BackoffElapses
    <2> QED
      BY <1>0, <2>1
  <1>14. ASSUME ProcessStep PROVE Kept /\ Same
    BY <1>0, <1>14 DEF ProcessStep, Stop, Start
  <1>15. ASSUME UNCHANGED pipelineVars PROVE Kept /\ Same
    BY <1>0, <1>15 DEF pipelineVars
  <1> HIDE DEF Kept, Same, Moved, PipelineTypeOK, columns, crm, gate, steps, screen, vars,
        row, local, Busy
  <1>16. Kept /\ (Same \/ Moved)
    BY <1>1, <1>2, <1>3, <1>4, <1>5, <1>6, <1>7, <1>8, <1>9, <1>10, <1>11, <1>12,
       <1>13, <1>14, <1>15
    DEF PipelineNext, PipelineWorkerStep
  <1> QED
    BY <1>16 DEF Kept, Same, Moved

\* Only an arrival gives a row its content or puts it in the window, and a CRM
\* record stays.
LEMMA TableSteps ==
  ASSUME PipelineTypeOK, [PipelineNext]_pipelineVars, NEW e \in Enquiries
  PROVE  /\ \/ content'[e] = content[e] /\ (recent'[e] => recent[e])
            \/ status[e] = "absent"
         /\ record[e] => record'[e]
  <1> USE DEF PipelineTypeOK, columns, crm
  <1>1. ASSUME NEW w \in Workers, PipelineWorkerStep(w)
        PROVE  content' = content /\ recent' = recent /\ (record[e] => record'[e])
    BY <1>1 DEF PipelineWorkerStep, Begin, Dedupe, Extract, MatchAndRoute, WriteContact,
       WriteRecord, WriteDraft, Complete, StageFails, Recover, Idle
  <1>2. ASSUME NEW r \in Reviewers, ReviewerStep(r)
        PROVE  content' = content /\ recent' = recent /\ record' = record
    BY <1>2 DEF ReviewerStep, Read, BeginApprove, CommitApprove, RequestFails,
       ResolveCandidate, RequeueResolved
  <1>3. ASSUME NEW f \in Enquiries, NEW c, NEW k, Receive(f, c, k)
        PROVE  /\ record' = record
               /\ \/ content'[e] = content[e] /\ recent'[e] = recent[e]
                  \/ status[e] = "absent"
    BY <1>3 DEF Receive, Insert, InsertUnreported, InsertRow
  <1>4. ASSUME NEW f \in Enquiries, WindowPasses(f)
        PROVE  content' = content /\ record' = record /\ (recent'[e] => recent[e])
    BY <1>4 DEF WindowPasses
  <1>5. ASSUME NEW f \in Enquiries, Elsewhere(f)
        PROVE  content' = content /\ recent' = recent /\ record' = record
    BY <1>5 DEF Elsewhere
  <1>6. ASSUME ProcessStep
        PROVE  content' = content /\ recent' = recent /\ record' = record
    BY <1>6 DEF ProcessStep
  <1>7. ASSUME UNCHANGED pipelineVars
        PROVE  content' = content /\ recent' = recent /\ record' = record
    BY <1>7 DEF pipelineVars
  <1> QED
    BY <1>1, <1>2, <1>3, <1>4, <1>5, <1>6, <1>7 DEF PipelineNext

\* An enquiry is put up for approval by the end of its run only.
LEMMA PendingSteps ==
  ASSUME TypeOK, PipelineTypeOK, [PipelineNext]_pipelineVars, NEW e \in Enquiries,
         status[e] # "pending_approval", status'[e] = "pending_approval"
  PROVE  \E w \in Workers : /\ held[w] = e /\ stage[w] = "finish"
                            /\ OutcomeOf(plan[w]) = "pending_approval"
  <1> USE DEF vars, row
  <1>1. ASSUME NEW w \in Workers, Complete(w)
        PROVE  held[w] = e /\ stage[w] = "finish" /\ OutcomeOf(plan[w]) = "pending_approval"
    <2>1. status' = [status EXCEPT ![held[w]] = OutcomeOf(plan[w])]
      BY <1>1 DEF Complete, Finish, AnswerLost, SetStatus
    <2>2. stage[w] = "finish"
      BY <1>1 DEF Complete, At
    <2> QED
      BY <2>1, <2>2 DEF TypeOK
  <1>2. ASSUME NEW w \in Workers, NEW f \in Enquiries, Begin(w, f) PROVE FALSE
    BY <1>2 DEF Begin, Claim, ClaimRow, TypeOK
  <1>3. ASSUME NEW w \in Workers, Dedupe(w) \/ WriteRecord(w) PROVE FALSE
    BY <1>3 DEF Dedupe, WriteRecord
  <1>4. ASSUME NEW w \in Workers, NEW c, Extract(w, c) \/ WriteContact(w, c) \/ WriteDraft(w, c)
        PROVE FALSE
    BY <1>4 DEF Extract, WriteContact, WriteDraft
  <1>5. ASSUME NEW w \in Workers, NEW whose, NEW match, NEW ruled,
               MatchAndRoute(w, whose, match, ruled)
        PROVE FALSE
    BY <1>5 DEF MatchAndRoute
  <1>6. ASSUME NEW w \in Workers, StageFails(w) PROVE FALSE
    BY <1>6 DEF StageFails, RunFails
  <1>7. ASSUME NEW w \in Workers, Recover(w) PROVE FALSE
    BY <1>7 DEF Recover, Release, Retry, DeadLetter, Requeue, SetStatus, TypeOK
  <1>8. ASSUME NEW w \in Workers, Idle(w) PROVE FALSE
    BY <1>8 DEF Idle, ClaimNothing, ClaimFails, ClaimRow, TakeWake, Tick, Return,
       FailNotRecorded, TypeOK
  <1>9. ASSUME NEW r \in Reviewers, NEW d, CommitApprove(r, d) PROVE FALSE
    BY <1>9 DEF CommitApprove, Decide, TypeOK
  <1>10. ASSUME NEW r \in Reviewers, RequeueResolved(r) PROVE FALSE
    BY <1>10 DEF RequeueResolved, Resolve, Requeue, TypeOK
  <1>11. ASSUME NEW r \in Reviewers, ReviewerStep(r) PROVE FALSE
    BY <1>9, <1>10, <1>11 DEF ReviewerStep, Read, BeginApprove, RequestFails, ResolveCandidate
  <1>12. ASSUME NEW f \in Enquiries, NEW c, NEW k, Receive(f, c, k) PROVE FALSE
    BY <1>12 DEF Receive, Insert, InsertUnreported, InsertRow, TypeOK
  <1>13. ASSUME NEW f \in Enquiries, WindowPasses(f) \/ Elsewhere(f) PROVE FALSE
    BY <1>13 DEF WindowPasses, Elsewhere, Wake, OrphanExpires, Overrun, LeaseExpires,
       BackoffElapses
  <1>14. ASSUME ProcessStep PROVE FALSE
    BY <1>14 DEF ProcessStep, Stop, Start, Exit, Crash, ProcessEnds
  <1>15. ASSUME UNCHANGED pipelineVars PROVE FALSE
    BY <1>15 DEF pipelineVars
  <1> QED
    BY <1>1, <1>2, <1>3, <1>4, <1>5, <1>6, <1>7, <1>8, <1>11, <1>12, <1>13, <1>14, <1>15
    DEF PipelineNext, PipelineWorkerStep

\* A message appears in the draft of a run, and never disappears.
LEMMA MessageAppears ==
  ASSUME TypeOK, PipelineTypeOK, RowLocked, [PipelineNext]_pipelineVars,
         NEW e \in Enquiries, NEW k \in Kinds
  PROVE  /\ message[<<e, k>>] # "none" => message'[<<e, k>>] # "none"
         /\ message[<<e, k>>] = "none" /\ message'[<<e, k>>] # "none" =>
               \E w \in Workers : /\ held[w] = e /\ stage[w] = "draft"
                                  /\ KindOf(plan[w]) = k
  <1> DEFINE n == <<e, k>>
  <1>0. n \in Messages
    BY DEF Messages
  <1>1. ASSUME NEW w \in Workers, NEW b \in Texts, WriteDraft(w, b)
        PROVE  /\ message[n] # "none" => message'[n] # "none"
               /\ message'[n] # message[n] => n = <<held[w], KindOf(plan[w])>>
               /\ stage[w] = "draft"
    BY <1>0, <1>1 DEF WriteDraft, UpsertDraft, At, PipelineTypeOK
  <1>2. ASSUME NEW r \in Reviewers, NEW d, CommitApprove(r, d)
        PROVE  (message[n] = "none") <=> (message'[n] = "none")
    <2>1. message[<<open[r], hand[r]>>] = "pending_approval"
      BY <1>2 DEF CommitApprove, RowLocked
    <2>2. \E s \in {"sent", "rejected"} :
             message' = [message EXCEPT ![<<open[r], hand[r]>>] = s]
      BY <1>2 DEF CommitApprove
    <2> QED
      BY <1>0, <2>1, <2>2 DEF PipelineTypeOK
  <1> QED
    BY <1>1, <1>2, MessageSteps DEF gate

-----------------------------------------------------------------------------
(* Deduplication, the CRM record and the draft.                            *)

\* Rows precede runs and messages: a message is drafted by a run that has the
\* row in its hands.
LEMMA ArrivedStep ==
  TypeOK /\ PipelineTypeOK /\ RowLocked /\ ArrivedFirst /\ [PipelineNext]_pipelineVars
    => ArrivedFirst'
  <1> SUFFICES ASSUME TypeOK, PipelineTypeOK, RowLocked, ArrivedFirst,
                      [PipelineNext]_pipelineVars,
                      NEW e \in Enquiries, status'[e] = "absent"
               PROVE  /\ \A w \in Workers : held'[w] # e
                      /\ \A k \in Kinds : message'[<<e, k>>] = "none"
    BY DEF ArrivedFirst
  <1>1. /\ status[e] = "absent"
        /\ \A w \in Workers : held'[w] = e => held[w] = e
    BY StepSimulates, RowSteps
  <1>2. /\ \A w \in Workers : held[w] # e
        /\ \A k \in Kinds : message[<<e, k>>] = "none"
    BY <1>1 DEF ArrivedFirst
  <1> QED
    BY <1>1, <1>2, MessageAppears

\* What has passed deduplication had passed it before, or has just been found
\* without a twin.
LEMMA PassedSteps ==
  ASSUME TypeOK, PipelineTypeOK, RowLocked, [PipelineNext]_pipelineVars,
         NEW e \in Enquiries, Passed(e)'
  PROVE  Passed(e) \/ \E w \in Workers : Dedupe(w) /\ held[w] = e /\ ~ Twin(e)
  <1>1. ASSUME NEW k \in Kinds, message'[<<e, k>>] # "none" PROVE Passed(e)
    BY <1>1, MessageAppears DEF Passed
  <1>2. ASSUME NEW w \in Workers, held'[w] = e,
               stage'[w] \in {"extract", "match", "contact", "record", "draft"}
        PROVE  Passed(e) \/ (Dedupe(w) /\ held[w] = e /\ ~ Twin(e))
    <2>1. held[w] = e
      BY <1>2, RunSteps
    <2>2. CASE Dedupe(w)
      BY <1>2, <2>1, <2>2 DEF Dedupe, ToStage, At, PipelineTypeOK
    <2>3. CASE ~ Dedupe(w)
      <3>1. stage[w] \in {"extract", "match", "contact", "record", "draft"}
        BY <1>2, <2>3, RunSteps DEF MatchAndRoute, WriteRecord, WriteDraft, At
      <3> QED
        BY <2>1, <3>1 DEF Passed
    <2> QED
      BY <2>2, <2>3
  <1>3. \/ \E k \in Kinds : message'[<<e, k>>] # "none"
        \/ \E w \in Workers :
              held'[w] = e /\ stage'[w] \in {"extract", "match", "contact", "record", "draft"}
    BY DEF Passed
  <1> QED
    BY <1>1, <1>2, <1>3

\* A copy passes deduplication only if there is no other copy in the window,
\* and a new copy has not passed it.
LEMMA CopyStep ==
  TypeOK /\ PipelineTypeOK /\ RowLocked /\ ArrivedFirst /\ OneCopyPasses
    /\ [PipelineNext]_pipelineVars => OneCopyPasses'
  <1> SUFFICES ASSUME TypeOK, PipelineTypeOK, RowLocked, ArrivedFirst, OneCopyPasses,
                      [PipelineNext]_pipelineVars,
                      NEW e \in Enquiries, NEW f \in Enquiries, e # f,
                      content'[e] = content'[f], recent'[e], recent'[f],
                      Passed(e)', Passed(f)'
               PROVE  FALSE
    BY DEF OneCopyPasses
  <1>1. ASSUME NEW g \in Enquiries, status[g] = "absent" PROVE ~ Passed(g)'
    <2>1. /\ \A w \in Workers : held[w] # g
          /\ \A k \in Kinds : message[<<g, k>>] = "none"
      BY <1>1 DEF ArrivedFirst
    <2>2. ~ Passed(g)
      BY <2>1 DEF Passed
    <2> QED
      BY <2>1, <2>2, PassedSteps
  <1>2. /\ content'[e] = content[e] /\ recent[e]
        /\ content'[f] = content[f] /\ recent[f]
    BY <1>1, TableSteps
  <1>3. ASSUME NEW w \in Workers, Dedupe(w), held[w] = e, ~ Twin(e) PROVE FALSE
    BY <1>2, <1>3 DEF Twin
  <1>4. ASSUME NEW w \in Workers, Dedupe(w), held[w] = f, ~ Twin(f) PROVE FALSE
    BY <1>2, <1>4 DEF Twin
  <1>5. Passed(e) /\ Passed(f)
    BY <1>3, <1>4, PassedSteps
  <1> QED
    BY <1>2, <1>5 DEF OneCopyPasses

\* A run writes the record on its way to the reply, and the record stays.
LEMMA RecordStep ==
  TypeOK /\ PipelineTypeOK /\ RecordFirst /\ [PipelineNext]_pipelineVars => RecordFirst'
  <1> SUFFICES ASSUME TypeOK, PipelineTypeOK, RecordFirst, [PipelineNext]_pipelineVars,
                      NEW w \in Workers, stage'[w] = "draft", plan'[w] # "clarify"
               PROVE  record'[held'[w]]
    BY DEF RecordFirst
  <1>1. /\ held'[w] = held[w] /\ held[w] \in Enquiries
        /\ \/ stage[w] = "draft" /\ plan'[w] = plan[w]
           \/ Dedupe(w)
           \/ \E whose \in {"theirs", "own"}, match \in Matches, ruled \in BOOLEAN :
                 MatchAndRoute(w, whose, match, ruled)
           \/ WriteRecord(w)
           \/ \E b \in Texts : WriteDraft(w, b)
    BY RunSteps
  <1>2. CASE stage[w] = "draft" /\ plan'[w] = plan[w]
    BY <1>1, <1>2, TableSteps DEF RecordFirst
  <1>3. ~ Dedupe(w)
    BY DEF Dedupe, ToStage, At, PipelineTypeOK
  <1>4. ASSUME NEW whose, NEW match, NEW ruled \in BOOLEAN, MatchAndRoute(w, whose, match, ruled)
        PROVE FALSE
    <2> DEFINE p == Route(class[w], match, ruled)
    <2>1. stage'[w] = FirstStage(p) /\ plan'[w] = p
      BY <1>4 DEF MatchAndRoute, At, ToStage, PipelineTypeOK
    <2> HIDE DEF p
    <2> QED
      BY <2>1 DEF FirstStage
  <1>5. CASE WriteRecord(w)
    BY <1>1, <1>5 DEF WriteRecord, PipelineTypeOK
  <1>6. ASSUME NEW b, WriteDraft(w, b) PROVE FALSE
    BY <1>6 DEF WriteDraft, ToStage, At, PipelineTypeOK
  <1> QED
    BY <1>1, <1>2, <1>3, <1>4, <1>5, <1>6

\* A reply is drafted by a run that has written the record.
LEMMA ReplyStep ==
  TypeOK /\ PipelineTypeOK /\ RowLocked /\ RecordFirst /\ ReplyHasRecord
    /\ [PipelineNext]_pipelineVars => ReplyHasRecord'
  <1> SUFFICES ASSUME TypeOK, PipelineTypeOK, RowLocked, RecordFirst, ReplyHasRecord,
                      [PipelineNext]_pipelineVars,
                      NEW e \in Enquiries, message'[<<e, "reply">>] # "none"
               PROVE  record'[e]
    BY DEF ReplyHasRecord
  <1>1. \/ message[<<e, "reply">>] # "none"
        \/ \E w \in Workers : held[w] = e /\ stage[w] = "draft" /\ KindOf(plan[w]) = "reply"
    BY MessageAppears DEF Kinds
  <1>2. record[e]
    BY <1>1 DEF ReplyHasRecord, RecordFirst, KindOf
  <1> QED
    BY <1>2, TableSteps

\* A run that ends in pending_approval has been through a draft.
LEMMA DraftStep ==
  TypeOK /\ PipelineTypeOK /\ RowLocked /\ DraftFirst /\ [PipelineNext]_pipelineVars
    => DraftFirst'
  <1> SUFFICES ASSUME TypeOK, PipelineTypeOK, RowLocked, DraftFirst, [PipelineNext]_pipelineVars
               PROVE  DraftFirst'
    OBVIOUS
  <1>1. ASSUME NEW e \in Enquiries, NEW k \in Kinds, message'[<<e, k>>] \in {"sent", "rejected"}
        PROVE  decisions'[e] > 0
    <2>0. <<e, k>> \in Messages /\ decisions[e] \in Nat /\ decisions'[e] \in Nat
          /\ decisions'[e] >= decisions[e]
      BY StepSimulates, TypeStep, RowSteps DEF Messages, TypeOK
    <2>1. CASE message[<<e, k>>] \in {"sent", "rejected"}
      BY <2>0, <2>1 DEF DraftFirst
    <2>2. ASSUME NEW w \in Workers, NEW b \in Texts, WriteDraft(w, b)
          PROVE  message[<<e, k>>] \in {"sent", "rejected"}
      BY <1>1, <2>0, <2>2 DEF WriteDraft, UpsertDraft, PipelineTypeOK
    <2>3. ASSUME NEW r \in Reviewers, NEW d, CommitApprove(r, d)
          PROVE  message[<<e, k>>] \in {"sent", "rejected"} \/ decisions'[e] > 0
      <3>1. CASE <<open[r], hand[r]>> = <<e, k>>
        <4>1. decisions' = [decisions EXCEPT ![e] = @ + 1]
          BY <2>3, <3>1 DEF CommitApprove, Decide
        <4> QED
          BY <2>0, <4>1 DEF TypeOK
      <3>2. CASE <<open[r], hand[r]>> # <<e, k>>
        <4>1. \E s : message' = [message EXCEPT ![<<open[r], hand[r]>>] = s]
          BY <2>3 DEF CommitApprove
        <4> QED
          BY <1>1, <2>0, <3>2, <4>1 DEF PipelineTypeOK
      <3> QED
        BY <3>1, <3>2
    <2> QED
      BY <1>1, <2>1, <2>2, <2>3, MessageSteps DEF gate
  <1>2. ASSUME NEW w \in Workers, stage'[w] = "finish",
               OutcomeOf(plan'[w]) = "pending_approval"
        PROVE  \E k \in Kinds : message'[<<held'[w], k>>] # "none"
    <2>1. /\ held'[w] = held[w] /\ held[w] \in Enquiries
          /\ \/ stage[w] = "finish" /\ plan'[w] = plan[w]
             \/ Dedupe(w)
             \/ \E whose \in {"theirs", "own"}, match \in Matches, ruled \in BOOLEAN :
                   MatchAndRoute(w, whose, match, ruled)
             \/ WriteRecord(w)
             \/ \E b \in Texts : WriteDraft(w, b)
      BY <1>2, RunSteps
    <2>2. CASE stage[w] = "finish" /\ plan'[w] = plan[w]
      BY <1>2, <2>1, <2>2, MessageAppears DEF DraftFirst
    <2>3. ASSUME Dedupe(w) PROVE FALSE
      <3>1. plan'[w] = "discard"
        BY <1>2, <2>3 DEF Dedupe, ToStage, At, PipelineTypeOK
      <3> QED
        BY <1>2, <3>1 DEF OutcomeOf
    <2>4. ASSUME NEW whose, NEW match, NEW ruled \in BOOLEAN,
                 MatchAndRoute(w, whose, match, ruled)
          PROVE FALSE
      <3> DEFINE p == Route(class[w], match, ruled)
      <3>1. stage'[w] = FirstStage(p) /\ plan'[w] = p
        BY <2>4 DEF MatchAndRoute, At, ToStage, PipelineTypeOK
      <3>2. p \in Plans
        BY RouteType
      <3> HIDE DEF p
      <3> QED
        BY <1>2, <3>1, <3>2 DEF FirstStage, OutcomeOf, Plans
    <2>5. ASSUME WriteRecord(w) PROVE FALSE
      BY <1>2, <2>5 DEF WriteRecord, ToStage, At, PipelineTypeOK
    <2>6. ASSUME NEW b \in Texts, WriteDraft(w, b)
          PROVE  \E k \in Kinds : message'[<<held'[w], k>>] # "none"
      <3> DEFINE k == KindOf(plan[w])
      <3>1. k \in Kinds
        BY DEF KindOf, Kinds
      <3>2. message' = [message EXCEPT ![<<held[w], k>>] =
                           IF @ = "none" THEN "pending_approval" ELSE @]
        BY <2>6 DEF WriteDraft, UpsertDraft
      <3> HIDE DEF k
      <3>3. <<held[w], k>> \in Messages
        BY <2>1, <3>1 DEF Messages
      <3> QED
        BY <2>1, <3>1, <3>2, <3>3 DEF PipelineTypeOK
    <2> QED
      BY <2>1, <2>2, <2>3, <2>4, <2>5, <2>6
  <1>3. ASSUME NEW e \in Enquiries, status'[e] = "pending_approval"
        PROVE  \E k \in Kinds : message'[<<e, k>>] # "none"
    <2>1. \E k \in Kinds : message[<<e, k>>] # "none"
      <3>1. CASE status[e] = "pending_approval"
        BY <3>1 DEF DraftFirst
      <3>2. CASE status[e] # "pending_approval"
        BY <1>3, <3>2, PendingSteps DEF DraftFirst
      <3> QED
        BY <3>1, <3>2
    <2> QED
      BY <2>1, MessageAppears
  <1> QED
    BY <1>1, <1>2, <1>3 DEF DraftFirst

\* Of two copies of an enquiry in the window, at most one is ever drafted a
\* message, in whatever order they are received, claimed, retried or reclaimed.
THEOREM CopiesAnsweredOnce == PipelineSpec => []OneCopyAnswered
  <1>1. PipelineInit => ArrivedFirst /\ OneCopyPasses
    BY QueueAssumption DEF PipelineInit, Init, ArrivedFirst, OneCopyPasses, Messages
  <1>2. OneCopyPasses => OneCopyAnswered
    BY DEF OneCopyPasses, OneCopyAnswered, Passed
  <1> QED
    BY <1>1, <1>2, ArrivedStep, CopyStep, LocksHold, PipelineTypeCorrect, PTL DEF PipelineSpec

\* No reply without its CRM record.
THEOREM RepliesHaveRecords == PipelineSpec => []ReplyHasRecord
  <1>1. PipelineInit => RecordFirst /\ ReplyHasRecord
    BY DEF PipelineInit, RecordFirst, ReplyHasRecord, Messages, Kinds
  <1> QED
    BY <1>1, RecordStep, ReplyStep, LocksHold, PipelineTypeCorrect, PTL DEF PipelineSpec

\* What waits for approval has a draft to approve.
THEOREM PendingHasDrafts == PipelineSpec => []PendingHasDraft
  <1>1. PipelineInit => DraftFirst
    BY DEF PipelineInit, Init, DraftFirst, Messages
  <1>2. PipelineTypeOK /\ DraftFirst => PendingHasDraft
    <2> SUFFICES ASSUME PipelineTypeOK, DraftFirst, NEW e \in Enquiries,
                        status[e] = "pending_approval", decisions[e] = 0
                 PROVE  \E k \in Kinds : message[<<e, k>>] = "pending_approval"
      BY DEF PendingHasDraft
    <2>1. PICK k \in Kinds : message[<<e, k>>] # "none"
      BY DEF DraftFirst
    <2>2. message[<<e, k>>] \notin {"sent", "rejected"}
      BY DEF DraftFirst
    <2>3. <<e, k>> \in Messages
      BY DEF Messages
    <2> QED
      BY <2>1, <2>2, <2>3 DEF PipelineTypeOK
  <1> QED
    BY <1>1, <1>2, DraftStep, LocksHold, PipelineTypeCorrect, PTL DEF PipelineSpec
=============================================================================
