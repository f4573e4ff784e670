SPECIFICATION PipelineSpec
CONSTANTS
    Enquiries = {e1, e2}
    Workers = {w1, w2}
    Reviewers = {}
    None = None
    Edited = Edited
    Aging = {e1, e2}
    Contents = {c1}
    Senders = {"none"}
    Answers = {"junk", "incomplete"}
    Texts = {t1}
    Outcomes = {"discarded_duplicate", "archived_junk", "needs_human_review", "pending_approval"}
    MaxAttempts = 1
    MaxOverruns = 0
    MaxDbErrors = 0
    MaxStops = 1
    MaxReviews = 0
SYMMETRY PipelineSymmetry
INVARIANT OneCopyAnswered
