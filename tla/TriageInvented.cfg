SPECIFICATION TriageSpec
CONSTANTS
    Answers <- SomeAnswers
    RuleSets <- SomeRuleSets
    Directories <- SomeDirectories
    Names <- SomeNames
    Collation <- Collated
    Targets = {"enterprise", "inbound", "support"}
    NoTarget = "none"
    ConfidenceThreshold = 72
    AutoAttachMatchThreshold = 95
    TrgmMatchFloor = 45
INVARIANT NoInventedEmail
CHECK_DEADLOCK FALSE
