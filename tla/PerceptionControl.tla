--------------------------- MODULE PerceptionControl ---------------------------
(***************************************************************************)
(* The two entries that control the tracker and the camera: the agent's    *)
(* perception actions (robot_agent/actions/perception.py, ros/perception.py)*)
(* and the web control node (web_video_server/tracking_control_node.py),   *)
(* composed with what the tracker's services promise (TrackerService).     *)
(*                                                                         *)
(* An agent action is a list of stages under one deadline.  It waits for   *)
(* each receipt however late, on its own thread; the web node keeps its    *)
(* requests in flight and goes on.                                         *)
(***************************************************************************)
EXTENDS Naturals, Sequences

CONSTANT
  MaxRequests   (* bound: web requests and receipts under way at one time   *)

ASSUME MaxRequestsAssumption == MaxRequests \in Nat

VARIABLES
  follow,           \* the tracker: Follow is on
  fusion,           \* the tracker: fusion is on
  action,           \* the agent action under way, or "none"
  todo,             \* its stages not begun yet
  late,             \* its deadline has passed
  wire,             \* the agent's request: "none", "sent", "granted" or "refused"
  agent_follow,     \* _follow: the agent's last confirmation
  agent_fusion,     \* _fusion
  camera,           \* what /enable_camera carried last
  web_sent,         \* Follow requests of the web node not handled yet
  web_receipts,     \* its receipts under way, as <<value, success>>
  web_follow,       \* tracking_enabled
  agent_overtaken,  \* others changed Follow since it handled the agent's request
  web_overtaken     \* others changed Follow since it granted the web's request

tracker == <<follow, fusion>>
agent == <<action, todo, late, wire, agent_follow, agent_fusion>>
web == <<web_sent, web_receipts, web_follow>>
overtaken == <<agent_overtaken, web_overtaken>>
vars == <<tracker, agent, camera, web, overtaken>>

Tracker == INSTANCE TrackerService

Init ==
  /\ Tracker!Init
  /\ action = "none" /\ todo = <<>> /\ late = FALSE /\ wire = "none"
  /\ agent_follow = "unknown" /\ agent_fusion = "unknown"
  /\ camera = "unasked"
  /\ web_sent = <<>> /\ web_receipts = <<>> /\ web_follow = FALSE
  /\ agent_overtaken = FALSE /\ web_overtaken = FALSE

-------------------------------------------------------------------------------
(* The agent's actions.                                                    *)

CameraStages == {"camera_on", "camera_off"}
ServiceStages == {"follow_on", "follow_off", "fusion_on", "fusion_off"}

\* Faulty variant (mutation only): the camera is paused before Follow.
ScriptsCameraFirst ==
  [start_camera     |-> <<"camera_on">>,
   stop_camera      |-> <<"camera_off", "follow_off">>,
   enable_lidar     |-> <<"fusion_on">>,
   disable_lidar    |-> <<"fusion_off">>,
   start_following  |-> <<"camera_on", "fusion_on", "follow_on">>,
   enable_tracking  |-> <<"follow_on">>,
   disable_tracking |-> <<"follow_off">>,
   stop_following   |-> <<"follow_off", "fusion_off">>]

\* The stages of each action, in their order.
Scripts ==
  [start_camera     |-> <<"camera_on">>,
   stop_camera      |-> <<"follow_off", "camera_off">>,
   enable_lidar     |-> <<"fusion_on">>,
   disable_lidar    |-> <<"fusion_off">>,
   start_following  |-> <<"camera_on", "fusion_on", "follow_on">>,
   enable_tracking  |-> <<"follow_on">>,
   disable_tracking |-> <<"follow_off">>,
   stop_following   |-> <<"follow_off", "fusion_off">>]

\* toggle_following() goes by what is confirmed, and refuses to guess.
ToggleTo == IF agent_follow = "on" THEN "stop_following" ELSE "start_following"

Begin(a) ==
  /\ action = "none"
  /\ action' = a /\ todo' = Scripts[a] /\ late' = FALSE
  /\ UNCHANGED <<wire, agent_follow, agent_fusion, tracker, camera, web, overtaken>>

Toggle == agent_follow # "unknown" /\ Begin(ToggleTo)

DeadlinePasses ==
  /\ action # "none" /\ ~late
  /\ late' = TRUE
  /\ UNCHANGED <<action, todo, wire, agent_follow, agent_fusion, tracker, camera, web, overtaken>>

\* Only the first stages of two scripts are begun whatever the time: a lone
\* start_camera has no deadline, and stop_camera's Follow request has its own.
Untimed == action \in {"start_camera", "stop_camera"} /\ todo = Scripts[action]

MayBeginStage == action # "none" /\ wire = "none" /\ todo # <<>> /\ (late => Untimed)

\* Publishing the switch is the whole stage; nothing confirms it.
PublishCamera ==
  /\ MayBeginStage /\ Head(todo) \in CameraStages
  /\ camera' = IF Head(todo) = "camera_on" THEN "on" ELSE "off"
  /\ todo' = Tail(todo)
  /\ UNCHANGED <<action, late, wire, agent_follow, agent_fusion, tracker, web, overtaken>>

\* Faulty variant (mutation only): each receipt is taken for its own kind only.
ConfirmsOwnKind(granted) ==
  LET kind == Head(todo)
      value == IF ~granted THEN "unknown" ELSE IF kind \in {"follow_on", "fusion_on"} THEN "on" ELSE "off"
  IN IF kind \in {"follow_on", "follow_off"}
     THEN agent_follow' = value /\ UNCHANGED agent_fusion
     ELSE agent_fusion' = value /\ UNCHANGED agent_follow

\* What a receipt of the first stage of todo says about Follow and fusion.
Confirms(granted) ==
  LET kind == Head(todo)
      value == IF ~granted THEN "unknown" ELSE IF kind \in {"follow_on", "fusion_on"} THEN "on" ELSE "off"
  IN IF kind \in {"follow_on", "follow_off"}
     THEN agent_follow' = value /\ UNCHANGED agent_fusion
     ELSE /\ agent_fusion' = value
          /\ agent_follow' = IF value = "off" THEN "off" ELSE agent_follow

\* call_async on a service that is ready.
SubmitStage ==
  /\ MayBeginStage /\ Head(todo) \in ServiceStages
  /\ wire' = "sent"
  /\ UNCHANGED <<action, todo, late, agent_follow, agent_fusion, tracker, camera, web, overtaken>>

\* Before its last stage an action looks at the clock itself, and leaves what
\* was confirmed alone; elsewhere set_enabled does, and its failure is recorded.
LateBefore == late /\ Len(todo) = 1 /\ todo # Scripts[action]

\* The service is not there, the camera has no subscriber, or it is too late:
\* failed, and nothing further is tried.
StageFails ==
  /\ action # "none" /\ wire = "none" /\ todo # <<>>
  /\ IF Head(todo) \in ServiceStages
     THEN Confirms(FALSE) \/ (LateBefore /\ UNCHANGED <<agent_follow, agent_fusion>>)
     ELSE UNCHANGED <<agent_follow, agent_fusion>>
  /\ todo' = <<>>
  /\ UNCHANGED <<action, late, wire, tracker, camera, web, overtaken>>

\* A receipt that is not a success ends the action.
AfterReceipt == IF wire = "granted" THEN Tail(todo) ELSE <<>>

Receive ==
  /\ wire \in {"granted", "refused"}
  /\ Confirms(wire = "granted")
  /\ todo' = AfterReceipt
  /\ wire' = "none"
  /\ UNCHANGED <<action, late, tracker, camera, web, overtaken>>

End ==
  /\ action # "none" /\ todo = <<>>
  /\ action' = "none" /\ late' = FALSE
  /\ UNCHANGED <<todo, wire, agent_follow, agent_fusion, tracker, camera, web, overtaken>>

AgentStep == DeadlinePasses \/ PublishCamera \/ SubmitStage \/ StageFails \/ Receive \/ End

-------------------------------------------------------------------------------
(* The tracker handles one request at a time, in any order of its clients. *)

HandleAgent ==
  /\ wire = "sent"
  /\ LET kind == Head(todo) IN
     \/ /\ \/ kind = "follow_on" /\ Tracker!FollowOn
           \/ kind = "follow_off" /\ Tracker!FollowOff
           \/ kind = "fusion_on" /\ Tracker!FusionOn
           \/ kind = "fusion_off" /\ Tracker!FusionOff
        /\ wire' = "granted"
        /\ agent_overtaken' = (agent_overtaken /\ kind = "fusion_on")
        /\ web_overtaken' = (web_overtaken \/ follow' # follow)
     \/ /\ kind \in {"follow_on", "fusion_on"}
        /\ wire' = "refused"
        /\ UNCHANGED <<tracker, overtaken>>
  /\ UNCHANGED <<action, todo, late, agent_follow, agent_fusion, camera, web>>

HandleWeb ==
  /\ web_sent # <<>>
  /\ web_sent' = Tail(web_sent)
  /\ \/ /\ IF Head(web_sent) THEN Tracker!FollowOn ELSE Tracker!FollowOff
        /\ web_receipts' = Append(web_receipts, <<Head(web_sent), TRUE>>)
        /\ web_overtaken' = FALSE
        /\ agent_overtaken' = (agent_overtaken \/ follow' # follow)
     \/ /\ Head(web_sent)
        /\ web_receipts' = Append(web_receipts, <<TRUE, FALSE>>)
        /\ UNCHANGED <<tracker, overtaken>>
  /\ UNCHANGED <<agent, camera, web_follow>>

-------------------------------------------------------------------------------
(* The web control node.                                                   *)

\* request_tracking_state; an unavailable service is answered at once.
RequestTrackingState(e) ==
  /\ Len(web_sent) + Len(web_receipts) < MaxRequests
  /\ web_sent' \in {web_sent, Append(web_sent, e)}
  /\ UNCHANGED <<web_receipts, web_follow>>

\* The camera is switched with the request, not after its receipt.
OnCommand(c) ==
  /\ camera' = IF c \in {"start_camera", "start_tracking"} THEN "on"
               ELSE IF c = "stop_camera" THEN "off" ELSE camera
  /\ IF c = "start_camera" THEN UNCHANGED web ELSE RequestTrackingState(c = "start_tracking")
  /\ UNCHANGED <<tracker, agent, overtaken>>

\* Faulty variant (mutation only): the request is taken for its receipt.
AdoptsRequest(receipt) == receipt[1]

\* Only a success changes what the web node reports.
Adopts(receipt) == IF receipt[2] THEN receipt[1] ELSE web_follow

OnTrackingResponse ==
  /\ web_receipts # <<>>
  /\ web_follow' = Adopts(Head(web_receipts))
  /\ web_receipts' = Tail(web_receipts)
  /\ UNCHANGED <<tracker, agent, camera, web_sent, overtaken>>

Next ==
  \/ \E a \in DOMAIN Scripts : Begin(a)
  \/ Toggle
  \/ AgentStep
  \/ HandleAgent
  \/ HandleWeb
  \/ \E c \in {"start_camera", "stop_camera", "start_tracking", "stop_tracking"} : OnCommand(c)
  \/ OnTrackingResponse

Spec == Init /\ [][Next]_vars

-------------------------------------------------------------------------------

TypeOK ==
  /\ follow \in BOOLEAN /\ fusion \in BOOLEAN
  /\ action \in {"none"} \cup DOMAIN Scripts
  /\ todo \in Seq(CameraStages \cup ServiceStages)
  /\ late \in BOOLEAN
  /\ wire \in {"none", "sent", "granted", "refused"}
  /\ wire # "none" => todo # <<>> /\ action # "none"
  /\ agent_follow \in {"unknown", "on", "off"} /\ agent_fusion \in {"unknown", "on", "off"}
  /\ camera \in {"unasked", "on", "off"}
  /\ web_sent \in Seq(BOOLEAN) /\ web_receipts \in Seq(BOOLEAN \X BOOLEAN)
  /\ Len(web_sent) + Len(web_receipts) <= MaxRequests
  /\ web_follow \in BOOLEAN
  /\ agent_overtaken \in BOOLEAN /\ web_overtaken \in BOOLEAN

\* What the agent reports as confirmed is what the tracker does, through late,
\* refused and implied receipts, until the web node changes Follow itself.
AgentKnows ==
  wire = "none" =>
    /\ agent_fusion # "unknown" => fusion = (agent_fusion = "on")
    /\ agent_follow # "unknown" /\ ~agent_overtaken => follow = (agent_follow = "on")

\* With several requests in flight the web node still ends up reporting what
\* the tracker does, until the agent changes Follow.
WebKnows ==
  web_sent = <<>> /\ web_receipts = <<>> /\ ~web_overtaken => web_follow = follow

\* The agent never pauses the camera under a Follow that runs, unless the web
\* node has switched it on again since the standby receipt.
CameraPausedInStandby == [][PublishCamera /\ camera' = "off" => ~follow \/ agent_overtaken]_vars
===============================================================================
