SPECIFICATION Spec
CHECK_DEADLOCK FALSE
CONSTANTS
    One = 10
    CtnOne = 20
    UnitMass <- MCUnitMass
    CtnDonorMax = 1
    Document <- MCDocument
    Families <- MCFamilies
    GrossPins <- MCGrossPins
    NetPins <- MCNetPins
    CtnPins <- MCCtnPins
    TotalsEntered <- MCTotals
    HsEntered <- MCHsEntered
    Rates <- MCRates
    MaxItems = 4
    MaxEntries = 2
    AirlineNumbers = {"157-1", "157-2"}
    ForwarderNumbers = {"FWD1", "FWD2"}
    Meaning <- MCMeaning
    TextOrder <- MCTextOrder
    GroupRange <- MCGroupRange
    NoGroup = ""
    Tolerance = 1
    HalfUnit = 1
    Official <- MCOfficial
    Score <- MCScore
    Guess <- MCGuess
    Country <- MCCountry
    Keep = Keep
    None = None
    Seeds <- MCSeeds
    Reference <- MCReference
    ValidExim = {"exim1"}
    StrictBlocking = FALSE
    Confirmations <- MCConfirmations
    Overrides <- MCOverrides
    ExporterCountry = "CN"
    ImporterExim = "exim1"
    ProfileCoo = ""
    Banks <- MCBanks
    Terms <- MCTerms
INVARIANTS
    TypeOK
    ReconcilesOrBlocks
    PrintedFiguresMoveLast
    LowestAwbDecides
    RowsOnce
    EvidenceConserved
    XmlReconciles
    CostsAddUp
PROPERTIES
    RemedyUnblocks
