\* A counterexample to RefusedTriesRefresh.
SPECIFICATION Spec
CONSTANTS
    Token = {1, 2}
    NoToken = NoToken
    Tab = {"tab1", "tab2"}
    Nobody = Nobody
    Process = {p1, p2}
    MaxRedisChanges = 0
    MaxLoads = 0
    MaxLogins = 1
    Sender = {"tab1", "tab2"}
    First = 1
PROPERTIES
    RefusedTriesRefresh
CHECK_DEADLOCK FALSE
