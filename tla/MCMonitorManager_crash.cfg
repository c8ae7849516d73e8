CONSTANTS
    motion = motion
    remote = remote
    voice = voice
    t1 = t1
    p1 = p1
    p2 = p2
    Names <- AllNames
    Services <- TwoServices
    Deps <- ChainDeps
    Scripted = {}
    Launchers = {}
    Groups <- Singles
    Threads = {t1}
    Pids = {p1, p2}
    NoPid = NoPid
    NoService = NoService
    NoThread = NoThread
SPECIFICATION MonitorFairSpec
PROPERTIES CrashRecorded
