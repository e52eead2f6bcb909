CONSTANTS
    Worker = {w1, w2}
    Master = master
    Check = {c1, c2, c3, c4}
    Bad = {c4}
    nBatchSize = 2

SPECIFICATION Spec

INVARIANTS
    TypeOK
    CountsExact
    AnswerIsRight
    MasterNeverStranded

PROPERTY WaitReturns
