SPECIFICATION FairSpec
CONSTANTS
    ADR_ACK_LIMIT = 1
    ADR_ACK_DELAY = 1
    Region = "EU"
    PathLosses <- MCPathLosses
    Shares <- MCShares
    Methods <- MCMethods
    HistoryRange = 2
    ChangeTransmissionPower = TRUE
    AppPayloads = {47, 51}
    RequestSets <- MCRequestSets
INVARIANTS TypeOK NoFault
PROPERTIES MarginKept AdrIsObeyed HeardAgain SendsAgain
