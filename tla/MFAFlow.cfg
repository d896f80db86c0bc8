SPECIFICATION MFAFairSpec
CONSTANT
    Submitters <- TwoSubmissions
INVARIANTS
    MFAInv
    LinkBelongsToTaker
    ChallengeUsedOnce
PROPERTIES
    SubmissionEnds
CHECK_DEADLOCK FALSE
