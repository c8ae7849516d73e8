CONSTANTS
    Topics = {imu}
    Nodes = {fusion}
    Workers = {one, two}
    Publishers = {one, two}
    MaxQueue = 2
    MaxPublished = 4
    NoTopic = NoTopic
    NoMessage = NoMessage
    Writers = {one, two}
    W = 2
    MaxSeq = 2
    MaxFlight = 1
    SameNode = TRUE
    Peers = {one, two}
    Capacity = 2
    MaxFrames = 3
    NoFrame = NoFrame
    Targets = {one, two}
    NoTarget = NoTarget
    ToSend <- MCFrames
    Noise = {170, 85, 1}
    MaxNoise = 1
    MaxAxes = 2
    MaxBtns = 1
    Checksum <- MCChecksum
    Services = {a, b, c}
    DepLists <- MCDepLists
    Tables <- MCTables
SPECIFICATION PartsSpec
INVARIANTS
    PartsTypeOK
    OneTicket
    NoLostWakeup
    WindowHonest
    NoTornFrame
    FileWhole
    StreamParsed
    OrderRespectsDeps
PROPERTIES
    ImplementsMailbox
    WindowFollows
    Rediscovered
    PipelineInOrder
    SilentGoesOffline
CHECK_DEADLOCK FALSE
