SPECIFICATION VendSpec
CONSTANTS
    MaxCredit = 1
    CentsPerCredit = 1
    Programs = {"wash"}
    Price <- Ones
    Duration <- Ones
    Pause <- Ones
    Amounts = {1}
    OpenSources = {"TOUCH"}
    CoinTags = {}
    QrCodes = {}
    CardCode = "tag"
    NoCode = "none"
    NoProgram = "none"
    EndedAux = {0, 1}
    Elapsed = {1}
    MaxElapsed = 1
    SplashTime = 0
    SplashSlack = 0
    DefaultPause = 1
    PreFinePercent = 0
    MaxVendUnits = 2
    AdsEnabled = FALSE
    Credits = {1}
    Grants = {1, 2}
    Failures = {"JUST_RESET", "END_SESSION", "OUT_OF_SEQUENCE"}
    MaxFaults = 1
    MaxRetries = 1
    QueueSize = 1
INVARIANTS
    EngineTypeOK
PROPERTIES
    ImplementsCardSale
    AnswerGetsThrough
    AnswerArrives
    WashIsSettled
