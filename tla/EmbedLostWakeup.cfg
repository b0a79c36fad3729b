CONSTANTS
    Tids = {t1}
    Workers = {w1}
    NoTid = NoTid
    NoEntry = NoEntry
    Null = Null
    EmitCounts <- OncePerCalc
    Reported <- EmbedReported
    PrepareCodes <- PrepareAnswers
    ResultCodes <- TwoResults
    MaxCalcs = 1
SPECIFICATION FairSpec
PROPERTIES EveryEndIsReported
CHECK_DEADLOCK FALSE
