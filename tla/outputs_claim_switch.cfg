SPECIFICATION OutputsSpec
CONSTANTS
    Programs = {p1, p2}
    NoProgram = NoProgram
    AdsEnabled = FALSE
    MaxFaults = 2
PROPERTY
    NoReportOnSwitch
