SPECIFICATION SupervisorFair
CONSTANTS
    Programs = {p1}
    NoProgram = NoProgram
    AdsEnabled = FALSE
    CommandSlots = 2
    LinkAtBoot = {TRUE, FALSE}
    MaxAttempts = 2
    MaxFaults = 1
INVARIANTS
    SupervisorTypeOK
    AcceptorIsLookedAfter
PROPERTIES
    CoinsAreRefused
    OutOfServiceEnds
