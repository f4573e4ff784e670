SPECIFICATION PipelineSpec
CONSTANTS
    Enquiries = {e1, e2}
    Workers = {w1}
    Reviewers = {}
    None = None
    Edited = Edited
    Aging = {}
    Contents = {c1}
    Senders = {"none"}
    Answers = {"junk"}
    Texts = {t1}
    Outcomes = {"discarded_duplicate", "archived_junk", "needs_human_review", "pending_approval"}
    MaxAttempts = 1
    MaxOverruns = 0
    MaxDbErrors = 0
    MaxStops = 0
    MaxReviews = 0
SYMMETRY PipelineSymmetry
INVARIANT OneCopyIsKept
