\* The delays of the code, three of its fifteen attempts, fetches of 0, 15 or
\* 30 seconds and every kind of answer.
SPECIFICATION PollingSpec
CONSTANTS
    InitialDelay = 5
    MaxAttempts = 3
    Delay = 3
    Timeout = 30
    ClientWait = 60
    Latency = {0, 15, 30}
    Status = {"none", "PROGRESS", "FINISHED"}
    Verdict = {"none", "passed", "failed"}
    Check = {"none", "passed", "failed"}
    Document = {"none", "nameless", "named"}
INVARIANTS
    PollsWithinBound
    GivesUpOnlyIfSlow
PROPERTIES
    LoginIsCurrent
    VerificationEnds
CHECK_DEADLOCK FALSE
