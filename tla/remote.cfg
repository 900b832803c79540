SPECIFICATION RemoteSpec
CONSTANTS
    Tasks = {"http", "keepalive", "web", "fsm"}
    MaxFaults = 2
INVARIANTS
    RemoteTypeOK
    DebitedOnce
PROPERTIES
    LostPaymentHasACause
    TokenComesBack
