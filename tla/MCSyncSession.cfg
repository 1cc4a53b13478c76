CONSTANTS
    s1 = s1
    s2 = s2
    t1 = t1
    t2 = t2
    client = client
    w1 = w1
    None = None
    Sessions = {s1, s2}
    Threads = {t1, t2}
    Client = client
    Waiters = {w1}
    Calls = {"get", "drop", "wait", "commit", "suspend", "resume", "log_out", "log_in", "update_configuration", "reconnect"}
    Errors = {"token_expired", "bad_authentication", "inactive", "fatal", "other"}
    StopPolicies = {"Immediately", "LiveIndefinitely", "AfterChangesUploaded"}
    Answers = {"token", "unreachable", "refused"}
    MaxCalls = 3
    MaxErrors = 1
SPECIFICATION Spec
CHECK_DEADLOCK FALSE
SYMMETRY Symmetry
INVARIANT TypeOK
INVARIANT ActiveIsLinked
INVARIANT WaiterHasOnePlace
INVARIANT OneBoundSession
