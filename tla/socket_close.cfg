\* One socket; any peer may go, any call may fail.
SPECIFICATION FairSpec
INVARIANT FailureClosesWithCode
CHECK_DEADLOCK FALSE
