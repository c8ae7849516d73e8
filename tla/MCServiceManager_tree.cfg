CONSTANTS
    motion = motion
    remote = remote
    voice = voice
    t1 = t1
    t2 = t2
    p1 = p1
    p2 = p2
    p3 = p3
    p4 = p4
    Names <- TreeNames
    Services <- TreeServices
    Deps <- TreeDeps
    Scripted = {voice}
    Launchers = {}
    Groups <- TreeGroups
    Threads = {t1}
    Pids = {p1, p2, p3, p4}
    NoPid = NoPid
    NoService = NoService
    NoThread = NoThread
SPECIFICATION Spec
SYMMETRY Symmetry
INVARIANTS TypeOK NoLostChild DepsRunning NoReentry
PROPERTIES StopsDependentsFirst StartsDependenciesFirst
