\* Two clients and room for one session: the first may send every command,
\* the second HELLO.  Two samples, four frames.
CONSTANTS
    c1 = c1
    c2 = c2
    v1 = v1
    v2 = v2
    Nobody = Nobody
    Conns = {c1, c2}
    Variables = {v1, v2}
    Frames <- MCFrames
    Commands = {"HELLO", "DISCONNECT", "SET_REALTIME_MODE", "SET_HISTORIAN_MODE", "RESET_MODE", "GET_REALTIME_VARIABLES", "STOP_REALTIME_SENDING", "GET_HISTORIAN_VARIABLES", "GET_HISTORIAN_ALARMS"}
    MAX_CONNECTIONS = 1
    MaxFrames = 4
    MaxAhead = 1
    MaxSamples = 2
SPECIFICATION SessionSpec
INVARIANTS
    SessionsBounded
    SubscribedWhileSending
    OneStray
    NoDeletedReceiver
    AnswersInOrder
    InStep
PROPERTIES
    AnswersCome
    LeavesAfterClose
CHECK_DEADLOCK FALSE
