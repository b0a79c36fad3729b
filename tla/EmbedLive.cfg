CONSTANTS
    Tids = {t1}
    Workers = {w1, w2}
    NoTid = NoTid
    NoEntry = NoEntry
    Null = Null
    EmitCounts <- OncePerCalc
    Reported <- EmbedReported
    PrepareCodes <- PrepareAnswers
    ResultCodes <- TwoResults
    MaxCalcs = 1
SPECIFICATION FairSpec
PROPERTIES EndIsReported NextArrivalRescues
CHECK_DEADLOCK FALSE
