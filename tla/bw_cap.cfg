CONSTANTS
    Agents = {"Sender", "Receiver"}
    Streams = {"u"}
    CALLBACK_CAPACITY = 2
    CIC_CAPACITY = 2
    SOCKET_CAPACITY = 1
    MaxPings = 1
SPECIFICATION FairSpec
INVARIANTS
    PassIsReal
    VerdictSound
PROPERTIES
    AnswerEndsTuner
CHECK_DEADLOCK FALSE
