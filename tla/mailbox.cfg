SPECIFICATION MailboxSpec
CONSTANTS
    Agents = {"fsm", "http", "led"}
    Readers = {"fsm", "http"}
    DefaultTo = "fsm"
    Targets = {{}, {"fsm", "http"}, {"led"}}
    Events = {"e", "f"}
    NoEvent = "none"
    Size = 4
    TTL = 1
INVARIANTS
    MailboxTypeOK
    RingIsTidy
PROPERTIES
    ImplementsBus
    RoomComesBack
