CONSTANTS
    Tasks = {t1, t2}
    Transports <- AllTransports
    NoAnswer = NoAnswer
    MaxAdds = 2
    MaxCalls = 3
SPECIFICATION LiveSpec
PROPERTIES AnsweredIsReleased
CHECK_DEADLOCK FALSE
