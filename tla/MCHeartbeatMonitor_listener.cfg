CONSTANTS
    vision = vision
    lidar = lidar
    Targets <- MCTargets
    Timeout <- MCTimeout
    Ahead <- MCAhead
    MaxLag = 1
    Depth = 1
SPECIFICATION Spec
INVARIANTS ListenerUpToDate
