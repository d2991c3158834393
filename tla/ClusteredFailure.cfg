SPECIFICATION FairSpec
CONSTANT Jobs <- SmallJobs
PROPERTY FailedRankFailsTheCall
CHECK_DEADLOCK FALSE
