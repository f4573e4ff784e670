SPECIFICATION PipelineSpec
CONSTANTS
    Enquiries = {e1}
    Workers = {w1, w2}
    Reviewers = {r1, r2}
    None = None
    Edited = Edited
    Aging = {}
    Contents = {c1}
    Senders = {"none"}
    Answers = {"complete"}
    Texts = {t1}
    Outcomes = {"discarded_duplicate", "archived_junk", "needs_human_review", "pending_approval"}
    MaxAttempts = 1
    MaxOverruns = 1
    MaxDbErrors = 0
    MaxStops = 0
    MaxReviews = 2
SYMMETRY PipelineSymmetry
INVARIANT PipelineTypeOK
INVARIANT PendingHasDraft
INVARIANT ReplyHasRecord
PROPERTY QueueSpec
PROPERTY ThroughTheGate
