SPECIFICATION IoSpec
CONSTANTS
    Records = {r1, r2, r3}
    None = None
INVARIANTS
    IoTypeOK
    RecordsAreUsedWhileLive
    AnswerIsOfTheRequest
PROPERTIES
    EveryRecordIsFreed
CHECK_DEADLOCK FALSE
