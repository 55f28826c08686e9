\* All providers; two calls of one account and one change by somebody else.
SPECIFICATION Spec
CONSTANTS
    MultiPartPublicSuffixes <- MCSuffixes
    ZoneName <- MCZoneName
    Accounts <- MCAccounts
    Contents <- MCContents
    FirstSerial = 10
    Values   <- MCValues
    MaxPages = 2
    MaxCalls = 2
    MaxForeign <- MCMaxForeign
    Wants <- MCWants
INVARIANTS
    OkMeansRecorded
    NoDuplicate
    ValidConfigNeverRefused
    OkMeansPublished
PROPERTIES
    OthersUntouched
    ImplementsProviderCall
    CallsEnd
CHECK_DEADLOCK FALSE
