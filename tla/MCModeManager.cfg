CONSTANTS
    motion = motion
    remote = remote
    t1 = t1
    t2 = t2
    p1 = p1
    p2 = p2
    p3 = p3
    Names <- ModeServices
    Services <- ModeServices
    Deps <- ModeDeps
    Scripted = {}
    Launchers = {}
    Groups = {}
    Threads = {t1, t2}
    Pids = {p1, p2}
    NoPid = NoPid
    NoService = NoService
    NoThread = NoThread
    Modes = {"standby", "debug"}
    AllModes = {"debug"}
    Target <- ClosedTarget
    External = {}
    NoMode = NoMode
SPECIFICATION ModeSpec
SYMMETRY Symmetry
INVARIANTS ModeTypeOK ModeReached
PROPERTIES StaysInMode
