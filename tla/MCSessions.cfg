\* Two pages of one browser, two requests in the backend at a time, three tokens,
\* of which the browser holds the first; Redis goes or comes back once.
\* When all tokens are used the requests that would issue one wait, which is no
\* deadlock.
SPECIFICATION Spec
CONSTANTS
    Token = {1, 2, 3}
    NoToken = NoToken
    Tab = {"tab1", "tab2"}
    Nobody = Nobody
    Process = {p1, p2}
    MaxRedisChanges = 1
    MaxLoads = 1
    Sender = {"tab1"}
    MaxLogins = 1
    First = 1
INVARIANTS
    LoggedOutIsOver
    HeldIsAccepted
    OneRefresh
SYMMETRY ProcessSymmetry
CHECK_DEADLOCK FALSE
