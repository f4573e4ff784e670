SPECIFICATION Spec
CONSTANTS
    Enquiries = {e1}
    Workers = {w1, w2}
    None = None
    Outcomes = {"pending_approval"}
    MaxAttempts = 2
    MaxOverruns = 1
    MaxDbErrors = 1
    MaxStops = 1
    MaxReviews = 2
SYMMETRY QueueSymmetry
INVARIANT TypeOK
INVARIANT LeasedWhileProcessing
INVARIANT OneWorkerPerLease
INVARIANT RetryBudget
INVARIANT DeadLetterExact
INVARIANT FreshIsNoticed
INVARIANT Ownership
INVARIANT RetryPotential
PROPERTY SettledIsFinal
