CONSTANTS
    Tids = {t1, t2}
    Workers = {w1, w2}
    NoTid = NoTid
    NoEntry = NoEntry
    Null = Null
    EmitCounts <- PerCalc
    Reported <- EAria2Reported
    PrepareCodes <- PrepareAnswers
    ResultCodes <- TwoResults
    MaxCalcs = 1
SPECIFICATION Spec
SYMMETRY Symmetry
INVARIANTS TypeOK FinalReportIsLast SingleOwner FinishFindsItsWorker FaultsHaveCauses TablesAgree RunningIsRegistered
PROPERTIES ImplementsTaskReports FinalStatusSticks PoolDrainedBeforeDelete
CHECK_DEADLOCK FALSE
