SPECIFICATION Spec
CONSTANTS
    MaxCredit = 3
    CentsPerCredit = 1
    Programs = {"wash", "wax"}
    Price <- CreditPrice
    Duration <- CreditDuration
    Pause <- CreditPause
    Amounts = {2}
    OpenSources = {"TOUCH"}
    CoinTags = {"CCTALK"}
    QrCodes = {"qr"}
    CardCode = "tag"
    NoCode = "none"
    NoProgram = "none"
    EndedAux = {1}
    Elapsed = {1}
    MaxElapsed = 1
    SplashTime = 1
    SplashSlack = 0
    DefaultPause = 1
    PreFinePercent = 0
    MaxVendUnits = 3
    AdsEnabled = TRUE
INVARIANTS
    TypeOK
    TotalsFollowBuckets
    VendIsCovered
    CustomerIsOfSession
PROPERTIES
    ImplementsLife
    CyclesArePaid
    CoinsOnlyBuyCycles
    StopRequestStopsCharging
