---------------------------- MODULE ApprovalGate ----------------------------
(***************************************************************************)
(* What the human approval gate promises of every outbound message, by     *)
(* itself: a draft may be rewritten until one reviewer decides on it; that *)
(* decision is recorded with it, and nothing touches the message again.    *)
(* (internal/store/review.go, the comments on UpsertDraft and Approve, and *)
(* docs/04-ARCHITECTURE.md section 7.)  EnquiryPipeline implements it.     *)
(***************************************************************************)
EXTENDS Naturals

CONSTANTS
    Messages,   \* (enquiry, kind) pairs: one outbound message each
    Bodies,     \* texts of a draft, however it was made
    Edited,     \* a text a reviewer wrote
    Nothing     \* the text of a message not yet drafted

VARIABLES
    message,    \* "none", "pending_approval", "sent" or "rejected"
    body,       \* its text
    decided     \* the approval_action rows of each message

gateVars == <<message, body, decided>>

GateInit ==
    /\ message = [m \in Messages |-> "none"]
    /\ body = [m \in Messages |-> Nothing]
    /\ decided = [m \in Messages |-> 0]

\* Anyone may draft, and draft again while nobody has decided.
Draft(m) ==
    /\ message[m] \in {"none", "pending_approval"}
    /\ message' = [message EXCEPT ![m] = "pending_approval"]
    /\ body'[m] \in Bodies
    /\ body' = [body EXCEPT ![m] = body'[m]]
    /\ UNCHANGED decided

\* The decision, the approval_action row and the send are one step.
Settle(m, s) ==
    /\ message[m] = "pending_approval"
    /\ message' = [message EXCEPT ![m] = s]
    /\ \E b \in {body[m], Edited} : body' = [body EXCEPT ![m] = b]
    /\ decided' = [decided EXCEPT ![m] = @ + 1]

GateNext == \E m \in Messages :
    \/ Draft(m)
    \/ \E s \in {"sent", "rejected"} : Settle(m, s)

GateSpec == GateInit /\ [][GateNext]_gateVars
=============================================================================
