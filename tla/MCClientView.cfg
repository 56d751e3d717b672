\* One tab, historian or real-time (the alarm tab is the historian tab without
\* the description of the chosen variable).
CONSTANTS
    Tabs = {"historian", "realtime"}
    MaxPushes = 1
    MaxDrops = 1
    MaxRanges = 1
    MaxQueries = 2
    MaxConnects = 2
SPECIFICATION Spec
INVARIANTS
    Lockstep
    ShownAsAsked
    NoDangling
    SoundWithoutTrouble
    InAgreement
CHECK_DEADLOCK FALSE
PROPERTIES
    WindowReturns
    QueriesShown
