------------------------------ MODULE ObjectTrack ------------------------------
(***************************************************************************)
(* The tracker (object_track/src/object_track_node.cpp): it turns synced   *)
(* images and detections into velocity commands, and lets the robot move   *)
(* only on a fresh range of the current target.  Images, scans, the two    *)
(* services and two 100 ms timers arrive in any order; one thread spins    *)
(* the node, so every callback is one step.                                *)
(*                                                                         *)
(* A target covers some columns of the image and a scan has points in some *)
(* of them; it gives a range if the two meet.  A command is zero or not.   *)
(***************************************************************************)
EXTENDS Naturals

CONSTANTS
  Column,       (* columns of the image                                     *)
  ScanTimeout   (* lidar_scan_timeout_sec in ticks of 100 ms                *)

ASSUME TimeoutAssumption == ScanTimeout \in Nat \ {0}

VARIABLES
  tree,             \* the TF tree has both frames
  transform_ready,  \* lidar_transform_ready_
  transform_timer,  \* the timer that waits for TF runs
  lidar_enabled,    \* lidar_enabled_: the scan subscription exists
  enabled,          \* enabled_: Follow
  inputs_ready,     \* inputs_ready_
  scan_received,    \* lidar_scan_received_
  scan_age,         \* ticks since last_lidar_scan_at_
  stop_emitted,     \* lidar_timeout_stop_emitted_
  points,           \* columns with projected_points_
  target,           \* columns between target_left_ and target_right_
  command,          \* last_linear_command_ and last_angular_command_
  dry_run,          \* dry_run_
  wheels,           \* the last velocity published
  due               \* the freshness timer has not run since the last tick

transform == <<tree, transform_ready, transform_timer>>
scanning == <<scan_received, scan_age, stop_emitted>>
vars == <<transform, lidar_enabled, enabled, inputs_ready, scanning, points, target, command,
          dry_run, wheels, due>>

Init ==
  /\ tree = FALSE /\ transform_ready = FALSE /\ transform_timer = TRUE
  /\ lidar_enabled = FALSE /\ enabled = FALSE /\ inputs_ready = FALSE
  /\ scan_received = FALSE /\ scan_age = ScanTimeout + 1 /\ stop_emitted = FALSE
  /\ points = {} /\ target = {} /\ command = "zero"
  /\ dry_run \in BOOLEAN /\ wheels = "none"
  /\ due = FALSE

-------------------------------------------------------------------------------

\* emit_velocity: a dry run only shows the command.
Emits(c) == IF dry_run THEN wheels ELSE c

\* has_recent_lidar_scan
Recent == scan_received /\ scan_age <= ScanTimeout

\* is_lidar_scan_expired
Expired == lidar_enabled /\ transform_ready /\ scan_received /\ ~Recent

\* clear_lidar_control_state
Clear == points' = {} /\ command' = "zero"

\* stop_follow_without_fresh_lidar_scan
StopFollow(expired) ==
  /\ Clear
  /\ stop_emitted' = IF enabled THEN expired ELSE stop_emitted
  /\ wheels' = IF enabled THEN Emits("zero") ELSE wheels

RangeReady == lidar_enabled /\ transform_ready /\ Recent

\* The target's own range decides; it may still call for no motion.
Commands(t) == IF t \cap points # {} THEN {"zero", "moving"} ELSE {"zero"}

\* An image and its detections; t covers the chosen target, or nothing.
SyncCallback(t) ==
  /\ inputs_ready' = TRUE
  /\ target' = t
  /\ IF RangeReady
     THEN /\ command' \in Commands(t)
          /\ wheels' = IF enabled THEN Emits(command') ELSE wheels
          /\ UNCHANGED <<points, stop_emitted>>
     ELSE StopFollow(Expired)
  /\ UNCHANGED <<transform, lidar_enabled, enabled, scan_received, scan_age, dry_run, due>>

\* Faulty variant (mutation only): a scan only updates the range.
ScanOnly(p) ==
  /\ lidar_enabled /\ transform_ready
  /\ scan_received' = TRUE /\ scan_age' = 0 /\ stop_emitted' = FALSE
  /\ points' = p
  /\ UNCHANGED <<transform, lidar_enabled, enabled, inputs_ready, target, command, dry_run, wheels, due>>

\* A scan with points in the columns p; without a range for the current target
\* it withdraws the command at once.
ScanCallback(p) ==
  /\ lidar_enabled /\ transform_ready
  /\ scan_received' = TRUE /\ scan_age' = 0 /\ stop_emitted' = FALSE
  /\ points' = p
  /\ IF target \cap p = {}
     THEN /\ command' = "zero"
          /\ wheels' = IF enabled /\ command # "zero" THEN Emits("zero") ELSE wheels
     ELSE UNCHANGED <<command, wheels>>
  /\ UNCHANGED <<transform, lidar_enabled, enabled, inputs_ready, target, dry_run, due>>

\* load_lidar_transform: a lookup may fail even when both frames exist.
LoadTransform(loaded) ==
  /\ loaded => tree
  /\ transform_ready' = (transform_ready \/ loaded)

\* apply_lidar_enabled(true): may load the transform itself; the scan topic
\* may have no publisher.
EnableLidar ==
  /\ ~lidar_enabled
  /\ \E loaded \in BOOLEAN : LoadTransform(loaded)
  /\ lidar_enabled' \in (IF transform_ready' THEN BOOLEAN ELSE {FALSE})
  /\ UNCHANGED <<tree, transform_timer, enabled, inputs_ready, scanning, points, target, command,
                 dry_run, wheels, due>>

\* apply_lidar_enabled(false): forgets the scan, and Follow with it.
DisableLidar ==
  /\ lidar_enabled /\ lidar_enabled' = FALSE
  /\ Clear
  /\ scan_received' = FALSE /\ stop_emitted' = FALSE
  /\ enabled' = FALSE
  /\ wheels' = IF enabled THEN Emits("zero") ELSE wheels
  /\ UNCHANGED <<transform, inputs_ready, scan_age, target, dry_run, due>>

MayFollow == inputs_ready /\ lidar_enabled /\ transform_ready /\ Recent

\* apply_enabled, when it is not refused and changes the state.
SetEnabled(e) ==
  /\ enabled # e
  /\ e => MayFollow
  /\ enabled' = e
  /\ Clear
  /\ wheels' = Emits("zero")
  /\ UNCHANGED <<transform, lidar_enabled, inputs_ready, scanning, target, dry_run, due>>

\* Faulty variant (mutation only): the stop waits for the next image.
FreshnessIgnored ==
  /\ due /\ due' = FALSE
  /\ UNCHANGED <<transform, lidar_enabled, enabled, inputs_ready, scanning, points, target, command,
                 dry_run, wheels>>

\* The 100 ms timer: one stop for a lapse that no image has handled yet.
CheckScanFreshness ==
  /\ due /\ due' = FALSE
  /\ IF enabled /\ Expired /\ ~stop_emitted
     THEN StopFollow(TRUE)
     ELSE UNCHANGED <<points, command, stop_emitted, wheels>>
  /\ UNCHANGED <<transform, lidar_enabled, enabled, inputs_ready, scan_received, scan_age, target, dry_run>>

\* The other timer: it ends when the transform is loaded, or at its deadline.
PollTransform ==
  /\ transform_timer
  /\ \E loaded \in BOOLEAN :
       /\ LoadTransform(loaded)
       /\ transform_timer' \in (IF loaded THEN {FALSE} ELSE BOOLEAN)
  /\ UNCHANGED <<tree, lidar_enabled, enabled, inputs_ready, scanning, points, target, command,
                 dry_run, wheels, due>>

\* The platform's static transform arrives, perhaps after the deadline.
TreeArrives ==
  /\ ~tree /\ tree' = TRUE
  /\ UNCHANGED <<transform_ready, transform_timer, lidar_enabled, enabled, inputs_ready, scanning,
                 points, target, command, dry_run, wheels, due>>

\* 100 ms pass; the timer of the last 100 ms has run by then.
Tick ==
  /\ ~due /\ due' = TRUE
  /\ scan_age' = IF scan_age <= ScanTimeout THEN scan_age + 1 ELSE scan_age
  /\ UNCHANGED <<transform, lidar_enabled, enabled, inputs_ready, scan_received, stop_emitted, points,
                 target, command, dry_run, wheels>>

Next ==
  \/ \E t \in SUBSET Column : SyncCallback(t)
  \/ \E p \in SUBSET Column : ScanCallback(p)
  \/ EnableLidar
  \/ DisableLidar
  \/ \E e \in BOOLEAN : SetEnabled(e)
  \/ CheckScanFreshness
  \/ PollTransform
  \/ TreeArrives
  \/ Tick

Spec == Init /\ [][Next]_vars

\* What the services' clients see.
Service == INSTANCE TrackerService WITH follow <- enabled, fusion <- lidar_enabled

-------------------------------------------------------------------------------

TypeOK ==
  /\ tree \in BOOLEAN /\ transform_ready \in BOOLEAN /\ transform_timer \in BOOLEAN
  /\ lidar_enabled \in BOOLEAN /\ enabled \in BOOLEAN /\ inputs_ready \in BOOLEAN
  /\ scan_received \in BOOLEAN /\ stop_emitted \in BOOLEAN
  /\ scan_age \in 0..ScanTimeout + 1
  /\ points \subseteq Column /\ target \subseteq Column
  /\ command \in {"zero", "moving"}
  /\ dry_run \in BOOLEAN
  /\ wheels \in {"none"} \cup (IF dry_run THEN {} ELSE {"zero", "moving"})
  /\ due \in BOOLEAN

\* Follow is on only while everything it was granted for still stands, however
\* the two services are called in between (ADR 0006: synchronized inputs,
\* fusion, transform, and a scan since fusion was enabled).
FollowHasItsInputs ==
  enabled => inputs_ready /\ lidar_enabled /\ transform_ready /\ scan_received

\* The robot's last command moves it only while Follow is on, and the node
\* remembers having sent it, so that every later stop knows what to withdraw.
MotionIsRemembered == wheels = "moving" => enabled /\ command = "moving"

\* The robot moves only while the newest scan gives a range of the newest
\* target, whichever of the two came last.
MotionHasRange == wheels = "moving" => target \cap points # {}

\* The two services keep what TrackerService promises their clients, in the
\* middle of images, scans and timers.
ServesTracker == Service!Spec

\* Once the scan is too old and the 100 ms timer has run, the robot has been
\* stopped, even if neither an image nor a scan ever arrives again.
StaleScanStops == scan_age > ScanTimeout /\ ~due => wheels # "moving"
===============================================================================
