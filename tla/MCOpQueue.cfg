SPECIFICATION FairSpec
CONSTANTS
    Client = {c1, c2}
    Worker = {w1, w2}
    QUEUE_MAX_SIZE = 1
    MaxCalls = 2
    NoOne = NoOne
INVARIANTS
    NoDanglingOperation
    ExactlyOneHome
    AnswersOwnCall
PROPERTY EveryCallReturns
