SPECIFICATION CoinSpec
CONSTANTS
    Width = 10
    Depth = 3
    MaxFresh = 5
INVARIANTS
    CoinTypeOK
    OnlyNewEventsAreRead
    NoNewEventIsPassedOver
