CONSTANTS
    motion = motion
    remote = remote
    voice = voice
    t1 = t1
    t2 = t2
    p1 = p1
    p2 = p2
    p3 = p3
    p4 = p4
    Names <- PairServices
    Services <- PairServices
    Deps <- PairDeps
    Scripted = {}
    Launchers = {}
    Groups <- PairGroups
    Threads = {t1}
    Pids = {p1, p2}
    NoPid = NoPid
    NoService = NoService
    NoThread = NoThread
SPECIFICATION Spec
INVARIANTS NoReentry
