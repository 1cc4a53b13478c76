CONSTANTS
    s1 = s1
    s2 = s2
    t1 = t1
    t2 = t2
    client = client
    w1 = w1
    None = None
    Sessions = {s1, s2}
    Threads = {t1, t2}
    Client = client
    Waiters = {w1}
    Calls = {"get", "drop", "wait", "commit"}
    Errors = {"token_expired"}
    StopPolicies = {"AfterChangesUploaded"}
    Answers = {"token"}
    MaxCalls = 5
    MaxErrors = 1
SPECIFICATION FairSpec
CHECK_DEADLOCK FALSE
PROPERTY DyingEnds
PROPERTY WaiterIsCalled
 
