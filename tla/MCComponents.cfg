\* Small instances of the nine components.
SPECIFICATION Spec
CONSTANTS
    User = {a, b}
    WithFactor = {b}
    MaySuspend = {b}
    Source = ip
    Session = {s1}
    Token = {t1}
    Request = {r1, r2}
    IdleTime = 1
    Lifetime = 1
    PendingTtl = 1
    Window = 1
    Limit = 2
    LastTick = 3
    Secret = {c1, c2}
    LastKey = 3
    Label = {l1, l2}
    Connection = {k1, k2}
    LastVersion = 2
    Job = {j1}
    Mail = {m1, m2}
    Dispatcher = {d1, d2}
    SendTime = 1
    Lease = 2
    Backoff = 2
    LastMinute = 4
    Subject = {1, 2, 3}
    MaxRestarts = 2
    RejectThreshold = 2
    LastRuc = 2
    Tab = {tab1, tab2}
    Items = 3
    Shard = {h1, h2}
    Site = {x, y}
INVARIANTS
    OneGuessPerToken
    FailuresBounded
    RemovedIsRevoked
    MailedOnce
    SuccessMeansAllHeld
    CapturedInTurn
    DoneShowsOutcome
    MergedIsWhole
PROPERTIES
    EndedStaysEnded
    FinishedMeansRotated
    CredentialsHold
CHECK_DEADLOCK FALSE
SYMMETRY Symmetry
