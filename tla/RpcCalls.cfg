CONSTANTS
    Tasks = {t1, t2}
    Transports <- AllTransports
    NoAnswer = NoAnswer
    MaxAdds = 2
    MaxCalls = 4
SPECIFICATION Spec
INVARIANTS TypeOK EveryPollReports PromptFaultsAreOfPolls ReportsBounded
CHECK_DEADLOCK FALSE
