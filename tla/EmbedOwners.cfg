CONSTANTS
    Tids = {t1}
    Workers = {w1}
    NoTid = NoTid
    NoEntry = NoEntry
    Null = Null
    EmitCounts <- PerCalc
    Reported <- EmbedReported
    PrepareCodes <- PrepareAnswers
    ResultCodes <- TwoResults
    MaxCalcs = 1
SPECIFICATION Spec
INVARIANTS OwnershipIsHandedOver
CHECK_DEADLOCK FALSE
