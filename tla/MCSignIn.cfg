\* One address and two Telegram accounts, two requests at a time, three credentials.
\* When all credentials are used the requests that would issue one wait, which is no
\* deadlock.
SPECIFICATION Spec
CONSTANTS
    p1 = p1
    p2 = p2
    w1 = w1
    email = email
    telegram1 = telegram1
    telegram2 = telegram2
    Email = {email}
    Telegram = {telegram1, telegram2}
    NoUser = NoUser
    NoTelegram = NoTelegram
    Key = {1, 2, 3}
    NoKey = NoKey
    Window = {w1}
    Nobody = Nobody
    Process = {p1, p2}
    MaxStarts = 2
    Confirmed = {email}
    Workload <- MCWorkload
INVARIANTS
    TypeOK
    SessionsAreConfirmed
    GrantsBounded
    CalmLinkWorksOnce
    CodesNeedStarts
SYMMETRY Symmetry
CHECK_DEADLOCK FALSE
