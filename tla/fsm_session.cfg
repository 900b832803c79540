SPECIFICATION SessionSpec
CONSTANTS
    MaxCredit = 2
    CentsPerCredit = 2
    Programs = {"wash", "rinse"}
    Price <- TimePrice
    Duration <- TimeDuration
    Pause <- TimePause
    Amounts = {3}
    OpenSources = {"TOUCH"}
    CoinTags = {"COIN"}
    QrCodes = {}
    CardCode = "tag"
    NoCode = "none"
    NoProgram = "none"
    EndedAux = {1}
    Elapsed = {1}
    MaxElapsed = 1
    SplashTime = 1
    SplashSlack = 0
    DefaultPause = 1
    PreFinePercent = 50
    MaxVendUnits = 2
    AdsEnabled = FALSE
CHECK_DEADLOCK FALSE
INVARIANTS
    CreditWithinCap
    CycleNeverOverruns
PROPERTIES
    ComesToRest
    PauseEnds
