SPECIFICATION FairSpec
CHECK_DEADLOCK FALSE
CONSTANTS
    Indices = {0, 1}
    Labels = {"a", "b"}
    None = None
    Frames <- MCFrames
    MaxFrames = 3
    MaxAttempts = 2
    MaxPanics = 1
INVARIANTS
    StreamInv
    AnswerIsTurn
    CountedAsSeen
PROPERTIES
    FollowsProtocol
    StreamEnds
    ContentArrives
