SPECIFICATION FairSpec
CONSTANTS
    Addrs = {a1, a2}
    NoAddr = NoAddr
    Lens = {0, 1}
    MaxMsgs <- TwoAndOne
    MaxFaults = 2
    MaxNet = 2
CHECK_DEADLOCK FALSE
INVARIANTS AnswersHaveAddressee
PROPERTIES AnswersReturn NothingStuck
