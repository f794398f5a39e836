SPECIFICATION FairSpec
CONSTANTS
    MaxUpdates = 2
INVARIANTS
    TypeOK
    StreamIsLeftAlone
    EarlyLossSparesBoard
    SuccessIsTrue
    Conversation
    ScratchOutlivesWork
PROPERTIES
    AbandonedReturns
CHECK_DEADLOCK FALSE
