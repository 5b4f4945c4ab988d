---------------------------- MODULE TrackerService ----------------------------
(***************************************************************************)
(* What the tracker's two SetBool services promise their clients: Follow   *)
(* is granted only under fusion, closing either is never refused, closing  *)
(* fusion closes Follow with it, and nothing changes without a request.    *)
(***************************************************************************)
VARIABLES
  follow,  \* Follow is on
  fusion   \* LiDAR fusion is on

service == <<follow, fusion>>

Init == follow = FALSE /\ fusion = FALSE

\* /tracking/set_enabled with true, granted
FollowOn == fusion /\ follow' = TRUE /\ UNCHANGED fusion

\* /tracking/set_enabled with false
FollowOff == follow' = FALSE /\ UNCHANGED fusion

\* /tracking/set_lidar_enabled with true, granted
FusionOn == fusion' = TRUE /\ UNCHANGED follow

\* /tracking/set_lidar_enabled with false
FusionOff == fusion' = FALSE /\ follow' = FALSE

Next == FollowOn \/ FollowOff \/ FusionOn \/ FusionOff

Spec == Init /\ [][Next]_service
===============================================================================
