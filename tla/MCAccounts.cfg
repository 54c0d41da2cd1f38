\* Two cards, two columns, one window and other clients, two requests at a time.  The system
\* may rest when nothing more is to happen.
SPECIFICATION FairSpec
CONSTANTS
    Card = {c1, c2}
    NoCard = NoCard
    Column = {"name", "city"}
    Value = {"a", "b"}
    MaxDeals = 2
    Window = {w1}
    Nobody = Nobody
    Process = {p1, p2}
    Workload = {{"cards", "api"}, {"cards", "leave"}, {"cards", "fail"},
                {"profile", "api"}, {"profile", "leave"},
                {"verify", "escalate", "job"}, {"deals", "delete", "job"}}
INVARIANTS
    TypeOK
    CalmCards
    ScoreAddsUp
PROPERTIES
    SavesWhatWasTyped
    ScoreCatchesUp
CHECK_DEADLOCK FALSE
