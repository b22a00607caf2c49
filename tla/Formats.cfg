SPECIFICATION Spec
\* A call ends with its result.
CHECK_DEADLOCK FALSE
CONSTANTS
    lower = lower
    upper = upper
    Serials = {lower, upper}
    Advertisements <- MCAdvertisements
    Texts <- MCTexts
    Answers <- MCAnswers
    Configurations <- MCConfigurations
    Values <- MCValues
    HexSerials <- MCHexSerials
    InterfaceLists <- MCInterfaceLists
INVARIANTS
    IBeaconReencodes
    WellFormedNeverThrows
    NearerIsLouder
    TextSurvives
    MissingIsSkipped
    WrittenIsRead
    EveryAddressReported
