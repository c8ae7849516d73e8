CONSTANTS
    vision = vision
    lidar = lidar
    Targets <- MCTargets
    Timeout <- MCTimeout
    Ahead <- MCAhead
    MaxLag = 1
    Depth = 1
SPECIFICATION FairSpec
INVARIANTS TypeOK TimeoutJustified TimeoutTold
PROPERTIES SilenceDetected Recovers
