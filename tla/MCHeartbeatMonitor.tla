------------------------- MODULE MCHeartbeatMonitor -------------------------
(***************************************************************************)
(* Two services, one of them with a clock that is a tick ahead.            *)
(***************************************************************************)
EXTENDS HeartbeatMonitor, TLC

CONSTANTS vision, lidar

MCTargets == {vision, lidar}
MCTimeout == vision :> 1 @@ lidar :> 2
MCAhead   == vision :> 0 @@ lidar :> 1

=============================================================================
