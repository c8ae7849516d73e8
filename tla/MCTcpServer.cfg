CONSTANTS
    console = console
    tablet = tablet
    Clients <- TwoClients
    Workloads <- MCWorkloads
    Token <- MCToken
    NoClient = NoClient
    Crc <- Crc8
    MaxData = 4096
SPECIFICATION FairSpec
INVARIANTS TypeOK AnswersFit GrantedFirst NothingLeft
PROPERTIES Served SessionsEnd StopReturns
CHECK_DEADLOCK FALSE
