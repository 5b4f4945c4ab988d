------------------------------- MODULE Vision -------------------------------
(***************************************************************************)
(* The tracker's computations on one image and one scan: it chooses a      *)
(* target among the detections of YoloPostprocess, takes the nearest range *)
(* of the scan within the target's columns and computes a velocity         *)
(* (object_track/include/object_track/tracking_math.hpp, sync_callback).   *)
(* ObjectTrack says when these results may move the robot.                 *)
(*                                                                         *)
(* Ranges are whole units and gains whole numbers; columns and rows of     *)
(* scan points come in half pixels, so that truncating makes a difference. *)
(***************************************************************************)
EXTENDS YoloPostprocess

CONSTANTS
  LogicalWidth, LogicalHeight,       (* logical image (code: 640 x 360)       *)
  TargetClass, MinimumArea,
  Beams,                             (* what a beam may meet: its range, and  *)
                                     (* distance and place seen by the camera *)
  MaxBeams,                          (* bound: beams of a scan                *)
  RangeMin, RangeMax,                (* of the LaserScan                      *)
  ImageWidth, ImageHeight,           (* 2 * cx, 2 * cy                        *)
  MinimumRange, MaximumRange, KeepDistance, LinearGain, MaximumSpeed,
  AngularGain, MaximumAngular

ASSUME ImageAssumption == LogicalWidth \in Nat \ {0} /\ LogicalHeight \in Nat \ {0} /\ MinimumArea \in Nat

\* Distances are lengths; the configured gains and limits are not negative.
ASSUME MotionAssumption ==
  /\ Beams \subseteq [range : Nat, distance : Nat, front : BOOLEAN, x : Int, y : Int]
  /\ ImageWidth \in Nat /\ ImageHeight \in Nat
  /\ MinimumRange \in Nat /\ MaximumRange \in Nat /\ KeepDistance \in Nat
  /\ LinearGain \in Nat /\ MaximumSpeed \in Nat /\ AngularGain \in Nat /\ MaximumAngular \in Nat

VARIABLES
  selected,   \* index of the selected detection, or 0
  scan,       \* the latest scan
  projected,  \* projected_points_
  velocity    \* last_linear_command_, last_angular_command_

tracking == <<selected, scan, projected, velocity>>
visionVars == <<postprocess, tracking>>

Zero == [linear |-> 0, angular |-> 0]

VisionInit ==
  /\ PostprocessInit
  /\ selected = 0 /\ scan = {} /\ projected = {} /\ velocity = Zero

-----------------------------------------------------------------------------
\* select_target

\* logical_box: each side is scaled and truncated on its own.
LogicalBox(d) ==
  LET X(value) == (value * LogicalWidth) \div source[1]
      Y(value) == (value * LogicalHeight) \div source[2]
  IN  [x |-> X(d.x1), width |-> X(d.x2) - X(d.x1), height |-> Y(d.y2) - Y(d.y1)]

Area(d) == LogicalBox(d).width * LogicalBox(d).height

Eligible(d) ==
  d.class = TargetClass /\ d.x2 > d.x1 /\ d.y2 > d.y1 /\ Area(d) > MinimumArea

\* Faulty variant (mutation only): a later one of the same size wins.
LastLargest(list) ==
  LET choices == {i \in DOMAIN list : Eligible(list[i])}
  IN  IF choices = {} THEN 0
      ELSE Max({i \in choices : \A j \in choices : Area(list[j]) <= Area(list[i])})

\* The first of the largest eligible detections.
SelectTarget(list) ==
  LET choices == {i \in DOMAIN list : Eligible(list[i])}
  IN  IF choices = {} THEN 0
      ELSE Min({i \in choices : \A j \in choices : Area(list[j]) <= Area(list[i])})

-----------------------------------------------------------------------------
\* Ranges

\* project_laser_scan: a beam with a range strictly inside the sensor's limits,
\* seen in front of the camera and inside its image, gives a point.
Project(beams) ==
  {[x |-> b.x, range |-> b.distance] :
     b \in {a \in beams : /\ RangeMin < a.range /\ a.range < RangeMax /\ a.front
                          /\ 0 <= a.x /\ a.x < 2 * ImageWidth
                          /\ 0 <= a.y /\ a.y < 2 * ImageHeight}}

\* Faulty variant (mutation only): columns are rounded to the nearest pixel.
RoundedInside(p, d) == (p.x + 1) \div 2 > d.x1 /\ (p.x + 1) \div 2 < d.x2

\* Columns are truncated to whole pixels; both borders are excluded.
Inside(p, d) == p.x \div 2 > d.x1 /\ p.x \div 2 < d.x2

\* nearest_range_in_horizontal_span; {} for infinity.
NearestRange(d) ==
  LET ranges == {p.range : p \in {q \in projected' : Inside(q, d)}}
  IN  IF ranges = {} THEN {} ELSE {Min(ranges)}

-----------------------------------------------------------------------------
\* Velocities

Limited(value, limit) == Max({-limit, Min({limit, value})})

LinearCommand(range) ==
  IF range < MinimumRange \/ range > MaximumRange THEN 0
  ELSE Limited(LinearGain * (range - KeepDistance), MaximumSpeed)

\* Faulty variant (mutation only): the wrong side.
TurnAway(d) ==
  LET box == LogicalBox(d)
  IN  Limited(AngularGain * (2 * box.x + box.width - LogicalWidth), MaximumAngular)

\* angular_command for the centre of the logical box, in half pixels.
AngularCommand(d) ==
  LET box == LogicalBox(d)
  IN  Limited(AngularGain * (LogicalWidth - (2 * box.x + box.width)), MaximumAngular)

\* sync_callback with a fresh scan and the transform loaded.
Track(beams) ==
  /\ stage = "done" /\ stage' = "tracked"
  /\ selected' = SelectTarget(detections)
  /\ scan' = beams /\ projected' = Project(beams)
  /\ velocity' =
       IF selected' = 0 THEN Zero
       ELSE LET d == detections[selected']
            IN  IF NearestRange(d) = {} THEN Zero
                ELSE [linear  |-> LinearCommand(Min(NearestRange(d))),
                      angular |-> AngularCommand(d)]
  /\ UNCHANGED <<decoding, sorting, ranking, sorted, place, detections>>

VisionNext ==
  \/ Process /\ UNCHANGED tracking
  \/ \E n \in 0 .. MaxBeams : \E beams \in kSubset(n, Beams) : Track(beams)

VisionSpec == VisionInit /\ [][VisionNext]_visionVars

-----------------------------------------------------------------------------
(* Properties.                                                             *)

\* From boxes to the choice: the tracker follows the largest detection of its
\* class, and among equally large ones a best scored one.  It only compares
\* areas in order of arrival; the score decides because the detector sorts.
FollowsLargest ==
  selected # 0 =>
    \A i \in DOMAIN detections : Eligible(detections[i]) =>
      /\ Area(detections[i]) <= Area(detections[selected])
      /\ Area(detections[i]) = Area(detections[selected]) => detections[i].conf <= detections[selected].conf

\* The robot moves only for a target that the scan meets, and never closer to it
\* than keep_distance: it drives forward only if everything the scan meets on the
\* target is farther, and back only if something on it is nearer.  What lies on
\* the target is said of the beams, not of the points the code made of them, so
\* that a border drawn wrongly in project_laser_scan or
\* nearest_range_in_horizontal_span shows.  A point within a pixel of the
\* target's left side may be missed: its column is truncated to that side.
KeepsDistance ==
  velocity # Zero =>
    LET d  == detections[selected]
        on == {b \in scan : /\ RangeMin < b.range /\ b.range < RangeMax /\ b.front
                            /\ b.x \in 0 .. 2 * ImageWidth - 1 /\ b.y \in 0 .. 2 * ImageHeight - 1
                            /\ 2 * d.x1 < b.x /\ b.x < 2 * d.x2}
    IN  /\ selected # 0 /\ on # {}
        /\ velocity.linear > 0 => \A b \in on : b.x >= 2 * d.x1 + 2 => b.distance > KeepDistance
        /\ velocity.linear < 0 => \E b \in on : b.distance < KeepDistance

\* The robot turns towards its target: truncating the box to logical pixels
\* never makes it turn right for a target whose centre is on the left, nor left
\* for one more than a logical pixel to the right (logical_box, angular_command).
TurnsToTarget ==
  selected # 0 =>
    LET d      == detections[selected]
        centre == (d.x1 + d.x2) * LogicalWidth      \* in 2 * source[1]-th logical pixels
        middle == LogicalWidth * source[1]
    IN  /\ velocity.angular < 0 => centre > middle
        /\ velocity.angular > 0 => centre < middle + 2 * source[1]

=============================================================================
