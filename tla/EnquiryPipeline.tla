-------------------------- MODULE EnquiryPipeline --------------------------
(***************************************************************************)
(* The stages of Pool.run and Pool.act (internal/worker/worker.go) on top  *)
(* of the queue, and the two things reviewers do on the dashboard          *)
(* (internal/api/dashboard.go, internal/store/review.go): decide on a      *)
(* drafted message, and resolve an ambiguous CRM match.                    *)
(*                                                                         *)
(* What the model says about an enquiry is not reproducible from one       *)
(* attempt to the next, so each run classifies it afresh.  Confidence,     *)
(* fields and match scores are abstracted to what Route tells apart.       *)
(***************************************************************************)
EXTENDS EnquiryQueue, Routing

CONSTANTS
    Contents,   \* values of dedupe_hash
    Reviewers,  \* browser sessions of actors who may decide
    Senders,    \* how the CRM may know a sender: some of Matches
    Answers,    \* how the model may classify an enquiry: some of Classes
    Texts,      \* texts of a draft
    Edited,     \* the text of approved_with_edit
    Aging       \* bound: the enquiries that may outlive DEDUPE_WINDOW

ASSUME PipelineAssumption ==
    /\ Outcomes = {"discarded_duplicate", "archived_junk",
                   "needs_human_review", "pending_approval"}
    /\ None \notin Contents
    /\ None \notin Texts
    /\ Edited \notin Texts
    /\ Senders \subseteq Matches
    /\ Answers \subseteq Classes

VARIABLES
    content,    \* enquiry.dedupe_hash
    recent,     \* enquiry.received_at > now() - DEDUPE_WINDOW
    known,      \* how MatchContact can find each contact: "exact", "fuzzy"
    candidate,  \* duplicate_match_candidate.resolution of each contact
    record,     \* a crm_record with this enquiry_id exists
    message,    \* message.status for each enquiry and kind
    body,       \* message.body
    decided,    \* number of approval_action rows of each message
    stage,      \* the next stage of each worker's run
    class,      \* what the model said in that run, until Route has used it
    plan,       \* the action of that run
    open,       \* the enquiry on each reviewer's screen
    shown,      \* the kinds of message that page shows
    hand        \* what the reviewer's request is doing; in an Approve, the
                \* kind of message whose row it has locked

columns == <<content, recent>>
crm == <<known, candidate, record>>
gate == <<message, body, decided>>
steps == <<stage, class, plan>>
screen == <<open, shown, hand>>
pipelineVars == <<vars, columns, crm, gate, steps, screen>>

Kinds == {"reply", "clarifying_question"}
Messages == Enquiries \X Kinds

\* The contacts an enquiry may match: one the CRM had, and the one created from
\* the enquiry itself, which a later attempt finds.
Contacts == Enquiries \X {"theirs", "own"}

PipelineTypeOK ==
    /\ content \in [Enquiries -> Contents \cup {None}]
    /\ recent \in [Enquiries -> BOOLEAN]
    /\ known \in [Contacts -> Matches]
    /\ candidate \in [Contacts -> {"none", "pending", "auto_attached", "attached", "separate"}]
    /\ record \in [Enquiries -> BOOLEAN]
    /\ message \in [Messages -> {"none", "pending_approval", "sent", "rejected"}]
    /\ body \in [Messages -> Texts \cup {Edited, None}]
    /\ decided \in [Messages -> Nat]
    /\ stage \in [Workers -> {"none", "dedupe", "extract", "match", "contact",
                              "record", "draft", "finish"}]
    /\ \A w \in Workers : stage[w] # "none" <=> pc[w] = "run"
    /\ class \in [Workers -> Classes \cup {"none"}]
    /\ plan \in [Workers -> Plans \cup {"none"}]
    /\ \A w \in Workers :
          stage[w] \in {"contact", "record", "draft", "finish"} <=> plan[w] # "none"
    /\ open \in [Reviewers -> Enquiries \cup {None}]
    /\ shown \in [Reviewers -> SUBSET Kinds]
    /\ hand \in [Reviewers -> {"idle", "resolved"} \cup Kinds]
    /\ \A r \in Reviewers : hand[r] # "idle" => open[r] # None

PipelineInit ==
    /\ Init
    /\ content = [e \in Enquiries |-> None]
    /\ recent = [e \in Enquiries |-> FALSE]
    /\ known = [c \in Contacts |-> "none"]
    /\ candidate = [c \in Contacts |-> "none"]
    /\ record = [e \in Enquiries |-> FALSE]
    /\ message = [m \in Messages |-> "none"]
    /\ body = [m \in Messages |-> None]
    /\ decided = [m \in Messages |-> 0]
    /\ stage = [w \in Workers |-> "none"]
    /\ class = [w \in Workers |-> "none"]
    /\ plan = [w \in Workers |-> "none"]
    /\ open = [r \in Reviewers |-> None]
    /\ shown = [r \in Reviewers |-> {}]
    /\ hand = [r \in Reviewers |-> "idle"]

-----------------------------------------------------------------------------
(* Arrival.                                                                *)

Receive(e, c, k) ==
    /\ Insert(e) \/ InsertUnreported(e)
    /\ content' = [content EXCEPT ![e] = c]
    /\ recent' = [recent EXCEPT ![e] = TRUE]
    /\ known' = [known EXCEPT ![<<e, "theirs">>] = k]
    /\ UNCHANGED <<candidate, record, gate, steps, screen>>

WindowPasses(e) ==
    /\ e \in Aging
    /\ recent[e]
    /\ recent' = [recent EXCEPT ![e] = FALSE]
    /\ UNCHANGED <<vars, content, crm, gate, steps, screen>>

-----------------------------------------------------------------------------
(* Pool.run.                                                               *)

At(w, s) == pc[w] = "run" /\ stage[w] = s /\ proc # "down"

ToStage(w, s) == stage' = [stage EXCEPT ![w] = s]

\* Variant: the plan outlives its run.
LeaveRunKeepingPlan(w) ==
    /\ stage' = [stage EXCEPT ![w] = "none"]
    /\ class' = [class EXCEPT ![w] = "none"]
    /\ UNCHANGED plan

LeaveRun(w) ==
    /\ stage' = [stage EXCEPT ![w] = "none"]
    /\ class' = [class EXCEPT ![w] = "none"]
    /\ plan' = [plan EXCEPT ![w] = "none"]

Begin(w, e) ==
    /\ Claim(w, e)
    /\ ToStage(w, "dedupe")
    /\ UNCHANGED <<columns, crm, gate, class, plan, screen>>

\* Variant: only enquiries nobody has finished with count.
TwinUnsettled(e) ==
    \E f \in Enquiries \ {e} :
        content[f] = content[e] /\ recent[f] /\ status[f] \notin Settled

\* FindRecentDuplicate: any other row with the hash, whatever became of it.
Twin(e) ==
    \E f \in Enquiries \ {e} : content[f] = content[e] /\ recent[f]

Dedupe(w) ==
    /\ At(w, "dedupe")
    /\ IF Twin(held[w])
       THEN /\ ToStage(w, "finish")
            /\ plan' = [plan EXCEPT ![w] = "discard"]
       ELSE /\ ToStage(w, "extract")
            /\ UNCHANGED plan
    /\ UNCHANGED <<vars, columns, crm, gate, class, screen>>

\* llm.Extract and SaveExtraction, whose row no stage reads.
Extract(w, c) ==
    /\ At(w, "extract")
    /\ class' = [class EXCEPT ![w] = c]
    /\ ToStage(w, "match")
    /\ UNCHANGED <<vars, columns, crm, gate, plan, screen>>

\* Variant of the next operator: the reply is drafted without the CRM record.
FirstStageWithoutCRM(p) ==
    IF p \in {"attach", "create", "clarify"} THEN "draft" ELSE "finish"

\* The first stage of act after each decision.
FirstStage(p) ==
    CASE p \in {"attach", "create"} -> "contact"
      [] p = "clarify"              -> "draft"
      [] OTHER                      -> "finish"

\* MatchContact sees the fields that were grounded this time: all that would
\* find the contact, or the name alone, or nothing.
MatchFound(c, match) ==
    \/ match = "none"
    \/ match = "fuzzy" /\ known[c] # "none"
    \/ match = "exact" /\ known[c] = "exact"

\* RecordDuplicateCandidate keeps the resolution of a row that is there.
RecordCandidate(c, match) ==
    IF match = "none" \/ candidate[c] # "none" THEN UNCHANGED candidate
    ELSE candidate' = [candidate EXCEPT ![c] =
                          IF match = "exact" THEN "auto_attached" ELSE "pending"]

MatchAndRoute(w, whose, match, ruled) ==
    /\ At(w, "match")
    /\ MatchFound(<<held[w], whose>>, match)
    /\ class[w] = "junk" => match = "none"
    /\ RecordCandidate(<<held[w], whose>>, match)
    /\ plan' = [plan EXCEPT ![w] = Route(class[w], match, ruled)]
    /\ ToStage(w, FirstStage(Route(class[w], match, ruled)))
    /\ class' = [class EXCEPT ![w] = "none"]
    /\ UNCHANGED <<vars, columns, known, record, gate, screen>>

-----------------------------------------------------------------------------
(* Pool.act.                                                               *)

\* UpsertContact: a contact created from this enquiry is one a later attempt
\* will find, by its address or by nothing but its name.
WriteContact(w, k) ==
    /\ At(w, "contact")
    /\ known' = [known EXCEPT ![<<held[w], "own">>] =
                    IF plan[w] = "create" /\ @ # "exact" THEN k ELSE @]
    /\ ToStage(w, "record")
    /\ UNCHANGED <<vars, columns, candidate, record, gate, class, plan, screen>>

\* Variant: the run ends without the draft.
WriteRecordOnly(w) ==
    /\ At(w, "record")
    /\ record' = [record EXCEPT ![held[w]] = TRUE]
    /\ ToStage(w, "finish")
    /\ UNCHANGED <<vars, columns, known, candidate, gate, class, plan, screen>>

WriteRecord(w) ==
    /\ At(w, "record")
    /\ record' = [record EXCEPT ![held[w]] = TRUE]
    /\ ToStage(w, "draft")
    /\ UNCHANGED <<vars, columns, known, candidate, gate, class, plan, screen>>

KindOf(p) == IF p = "clarify" THEN "clarifying_question" ELSE "reply"

Unlocked(m) == \A r \in Reviewers : <<open[r], hand[r]>> # m

\* Variant: the status is not looked at before the text is replaced.
UpsertDraftAlways(m, b) ==
    /\ message' = [message EXCEPT ![m] = IF @ = "none" THEN "pending_approval" ELSE @]
    /\ body' = [body EXCEPT ![m] = b]
    /\ UNCHANGED decided

\* ON CONFLICT waits for the row, then keeps the text a human acted on.
UpsertDraft(m, b) ==
    /\ message' = [message EXCEPT ![m] = IF @ = "none" THEN "pending_approval" ELSE @]
    /\ body' = [body EXCEPT ![m] =
                   IF message[m] \in {"none", "pending_approval"} THEN b ELSE @]
    /\ UNCHANGED decided

WriteDraft(w, b) ==
    LET m == <<held[w], KindOf(plan[w])>> IN
    /\ At(w, "draft")
    /\ Unlocked(m)
    /\ UpsertDraft(m, b)
    /\ ToStage(w, "finish")
    /\ UNCHANGED <<vars, columns, crm, class, plan, screen>>

\* Variant: the reply goes out without an approval.
OutcomeSent(p) ==
    CASE p = "discard"          -> "discarded_duplicate"
      [] p = "junk"             -> "archived_junk"
      [] p \in {"review", "flag"} -> "needs_human_review"
      [] p = "clarify"          -> "pending_approval"
      [] OTHER                  -> "sent"

OutcomeOf(p) ==
    CASE p = "discard"          -> "discarded_duplicate"
      [] p = "junk"             -> "archived_junk"
      [] p \in {"review", "flag"} -> "needs_human_review"
      [] OTHER                  -> "pending_approval"

Complete(w) ==
    /\ At(w, "finish")
    /\ \/ Finish(w, OutcomeOf(plan[w]))
       \/ AnswerLost(w, OutcomeOf(plan[w]))
    /\ LeaveRun(w)
    /\ UNCHANGED <<columns, crm, gate, screen>>

\* Any stage may fail: a provider, a statement, or the rejected rewrite of an
\* e-mail address another enquiry's contact has.
StageFails(w) ==
    /\ RunFails(w)
    /\ LeaveRun(w)
    /\ UNCHANGED <<columns, crm, gate, screen>>

Recover(w) ==
    /\ Release(w) \/ DeadLetter(w) \/ Retry(w)
    /\ UNCHANGED <<columns, crm, gate, steps, screen>>

\* What the loop does without an enquiry in its hands, or drops it with.
Idle(w) ==
    /\ \/ ClaimNothing(w) \/ ClaimFails(w) \/ TakeWake(w) \/ Tick(w) \/ Return(w)
       \/ FailNotRecorded(w)
    /\ UNCHANGED <<columns, crm, gate, steps, screen>>

-----------------------------------------------------------------------------
(* Reviewers.                                                              *)

\* GET /api/enquiries/{id}.
Read(r, e) ==
    /\ proc # "down"
    /\ hand[r] = "idle"
    /\ status[e] # "absent"
    /\ open' = [open EXCEPT ![r] = e]
    /\ shown' = [shown EXCEPT ![r] = {k \in Kinds : message[<<e, k>>] # "none"}]
    /\ UNCHANGED <<vars, columns, crm, gate, steps, hand>>

\* Variant: SELECT without FOR UPDATE.
LockTaken(r, k) ==
    /\ hand' = [hand EXCEPT ![r] = k]

\* SELECT ... FOR UPDATE on the message.
LockMessage(r, k) ==
    /\ Unlocked(<<open[r], k>>)
    /\ hand' = [hand EXCEPT ![r] = k]

\* Approve, of a message on the page, up to its check of the status.
BeginApprove(r, k) ==
    /\ proc # "down"
    /\ hand[r] = "idle"
    /\ open[r] # None
    /\ k \in shown[r]
    /\ message[<<open[r], k>>] = "pending_approval"
    /\ LockMessage(r, k)
    /\ UNCHANGED <<vars, columns, crm, gate, steps, open, shown>>

\* The rest of the transaction, and its commit.
CommitApprove(r, decision) ==
    LET m == <<open[r], hand[r]>>
        reject == decision = "rejected" IN
    /\ hand[r] \in Kinds
    /\ message' = [message EXCEPT ![m] = IF reject THEN "rejected" ELSE "sent"]
    /\ body' = [body EXCEPT ![m] = IF decision = "approved_with_edit" THEN Edited ELSE @]
    /\ decided' = [decided EXCEPT ![m] = @ + 1]
    /\ Decide(open[r], IF reject THEN "needs_human_review" ELSE "sent")
    /\ hand' = [hand EXCEPT ![r] = "idle"]
    /\ UNCHANGED <<columns, crm, steps, open, shown>>

\* A statement fails or the browser goes away: the transaction rolls back, or
\* the resolution stands without its requeue.
RequestFails(r) ==
    /\ hand[r] # "idle"
    /\ hand' = [hand EXCEPT ![r] = "idle"]
    /\ UNCHANGED <<vars, columns, crm, gate, steps, open, shown>>

\* ResolveDuplicate commits; the requeue is a statement of its own.
ResolveCandidate(r, whose, resolution) ==
    /\ hand[r] = "idle"
    /\ open[r] # None
    /\ Reviewable(open[r])
    /\ candidate[<<open[r], whose>>] = "pending"
    /\ candidate' = [candidate EXCEPT ![<<open[r], whose>>] = resolution]
    /\ hand' = [hand EXCEPT ![r] = "resolved"]
    /\ UNCHANGED <<vars, columns, known, record, gate, steps, open, shown>>

RequeueResolved(r) ==
    /\ hand[r] = "resolved"
    /\ Resolve(open[r])
    /\ hand' = [hand EXCEPT ![r] = "idle"]
    /\ UNCHANGED <<columns, crm, gate, steps, open, shown>>

-----------------------------------------------------------------------------
(* Time and the process.                                                   *)

Elsewhere(e) ==
    /\ Wake(e) \/ OrphanExpires(e) \/ Overrun(e) \/ BackoffElapses(e)
    /\ UNCHANGED <<columns, crm, gate, steps, screen>>

ProcessStep ==
    \/ /\ Stop \/ Start
       /\ UNCHANGED <<columns, crm, gate, steps, screen>>
    \/ /\ Exit \/ Crash
       /\ stage' = [w \in Workers |-> "none"]
       /\ class' = [w \in Workers |-> "none"]
       /\ plan' = [w \in Workers |-> "none"]
       /\ hand' = [r \in Reviewers |-> "idle"]
       /\ UNCHANGED <<columns, crm, gate, open, shown>>

PipelineWorkerStep(w) ==
    \/ \E e \in Enquiries : Begin(w, e)
    \/ Dedupe(w)
    \/ \E c \in Answers : Extract(w, c)
    \/ \E whose \in {"theirs", "own"}, match \in Matches, ruled \in BOOLEAN :
          MatchAndRoute(w, whose, match, ruled)
    \/ \E k \in {"fuzzy", "exact"} : WriteContact(w, k)
    \/ WriteRecord(w)
    \/ \E b \in Texts : WriteDraft(w, b)
    \/ Complete(w)
    \/ StageFails(w)
    \/ Recover(w)
    \/ Idle(w)

ReviewerStep(r) ==
    \/ \E e \in Enquiries : Read(r, e)
    \/ \E k \in Kinds : BeginApprove(r, k)
    \/ \E d \in {"approved", "approved_with_edit", "rejected"} : CommitApprove(r, d)
    \/ RequestFails(r)
    \/ \E whose \in {"theirs", "own"}, s \in {"attached", "separate"} :
          ResolveCandidate(r, whose, s)
    \/ RequeueResolved(r)

PipelineNext ==
    \/ \E w \in Workers : PipelineWorkerStep(w)
    \/ \E r \in Reviewers : ReviewerStep(r)
    \/ \E e \in Enquiries :
          \/ \E c \in Contents, k \in Senders : Receive(e, c, k)
          \/ WindowPasses(e)
          \/ Elsewhere(e)
    \/ ProcessStep

PipelineSpec == PipelineInit /\ [][PipelineNext]_pipelineVars

-----------------------------------------------------------------------------
(* What the pipeline promises.                                             *)

(***************************************************************************)
(* The stages are an implementation of the queue's abstract run: what is   *)
(* proved of EnquiryQueue holds of the whole pipeline.                     *)
(***************************************************************************)
QueueSpec == Spec

(***************************************************************************)
(* Retried and zombie workers, two reviewers and any crash notwithstanding,*)
(* every message goes through the approval gate of module ApprovalGate.    *)
(***************************************************************************)
Gate == INSTANCE ApprovalGate WITH Bodies <- Texts, Nothing <- None

ThroughTheGate == Gate!GateSpec

(***************************************************************************)
(* An enquiry waiting for approval has a draft to approve, until some      *)
(* reviewer has decided on one of its messages.                            *)
(***************************************************************************)
PendingHasDraft ==
    \A e \in Enquiries :
        status[e] = "pending_approval" /\ decisions[e] = 0 =>
            \E k \in Kinds : message[<<e, k>>] = "pending_approval"

(***************************************************************************)
(* A reply is drafted only for an enquiry that has its CRM record.         *)
(***************************************************************************)
ReplyHasRecord ==
    \A e \in Enquiries : message[<<e, "reply">>] # "none" => record[e]

(***************************************************************************)
(* What deduplication is for: of two enquiries with the same content, both *)
(* still in the window, at most one is drafted a message, in whatever      *)
(* order they arrive, are claimed, retried or reclaimed.                   *)
(***************************************************************************)
OneCopyAnswered ==
    \A e, f \in Enquiries :
        e # f /\ content[e] = content[f] /\ recent[e] /\ recent[f] =>
            \A k, l \in Kinds : "none" \in {message[<<e, k>>], message[<<f, l>>]}

-----------------------------------------------------------------------------
(* The inductive invariants behind these properties.                       *)

(***************************************************************************)
(* FOR UPDATE: the message a request has locked is still to be decided,    *)
(* and no other request has it.                                            *)
(***************************************************************************)
RowLocked ==
    \A r \in Reviewers : hand[r] \in Kinds =>
        /\ message[<<open[r], hand[r]>>] = "pending_approval"
        /\ \A q \in Reviewers \ {r} : <<open[q], hand[q]>> # <<open[r], hand[r]>>

(***************************************************************************)
(* No run and no message precedes the row it is about.                     *)
(***************************************************************************)
ArrivedFirst ==
    \A e \in Enquiries : status[e] = "absent" =>
        /\ \A w \in Workers : held[w] # e
        /\ \A k \in Kinds : message[<<e, k>>] = "none"

Passed(e) ==
    \/ \E k \in Kinds : message[<<e, k>>] # "none"
    \/ \E w \in Workers :
          held[w] = e /\ stage[w] \in {"extract", "match", "contact", "record", "draft"}

(***************************************************************************)
(* Of two copies in the window, at most one has got past deduplication.    *)
(***************************************************************************)
OneCopyPasses ==
    \A e, f \in Enquiries :
        e # f /\ content[e] = content[f] /\ recent[e] /\ recent[f] =>
            ~ (Passed(e) /\ Passed(f))

(***************************************************************************)
(* A run that is about to draft a reply has written the CRM record.        *)
(***************************************************************************)
RecordFirst ==
    \A w \in Workers : stage[w] = "draft" /\ plan[w] # "clarify" => record[held[w]]

(***************************************************************************)
(* A run that is about to ask for approval, and an enquiry that waits for  *)
(* it, has a message; only a reviewer's decision takes it from the queue.  *)
(***************************************************************************)
DraftFirst ==
    /\ \A e \in Enquiries : \A k \in Kinds :
          message[<<e, k>>] \in {"sent", "rejected"} => decisions[e] > 0
    /\ \A w \in Workers :
          stage[w] = "finish" /\ OutcomeOf(plan[w]) = "pending_approval" =>
              \E k \in Kinds : message[<<held[w], k>>] # "none"
    /\ \A e \in Enquiries : status[e] = "pending_approval" =>
          \E k \in Kinds : message[<<e, k>>] # "none"

-----------------------------------------------------------------------------
(* What the code's comments and documents say and the runs refute.         *)

(***************************************************************************)
(* store.go:101, FindRecentDuplicate "looks for an earlier enquiry with    *)
(* the same content hash": the first of several copies is not discarded.   *)
(***************************************************************************)
OneCopyIsKept ==
    \A e \in Enquiries : status[e] = "discarded_duplicate" =>
        \E f \in Enquiries :
            content[f] = content[e] /\ status[f] # "discarded_duplicate"
=============================================================================
