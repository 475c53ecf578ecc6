SPECIFICATION FairSpec
CHECK_DEADLOCK FALSE
CONSTANTS
    Timeout <- MCTimeout
INVARIANTS TypeOK LargeRunsOnce WaitBound Ja4IsTrusted
PROPERTY HeadOrGiveUp
