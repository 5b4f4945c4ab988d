----------------------------- MODULE UsbCamera ------------------------------
(***************************************************************************)
(* The camera node (usb_camera_node.cpp): the capture thread, the switch   *)
(* /enable_camera, the viewers, and the destructor, on top of the device   *)
(* handle.  One step of the capture thread is one read of shared state or  *)
(* one system call; its sleeps are times in which it takes no step.        *)
(***************************************************************************)
EXTENDS V4l2Camera

CONSTANTS
    Lazy,       \* the parameter lazy
    Divider     \* the parameter frame_divider

ASSUME NodeAssumption == Lazy \in BOOLEAN /\ Divider \in Nat \ {0}

VARIABLES
    viewed,     \* somebody subscribes to the images
    enabled,    \* enabled_
    node,       \* "alive", then rclcpp::ok() fails: "leaving", then the
                \* destructor waits: "joining", then "gone"
    worker,     \* where the capture thread is
    candidate,  \* candidate_index
    count,      \* FrameDivider: frame_index_ modulo Divider
    late        \* images published since the camera was last disabled

vars == <<cameraVars, viewed, enabled, node, worker, candidate, count, late>>

Opening == {"negotiating", "requesting", "mapping", "queueing", "starting"}

TypeOK ==
    /\ CameraTypeOK
    /\ viewed \in BOOLEAN /\ enabled \in BOOLEAN
    /\ node \in {"alive", "leaving", "joining", "gone"}
    /\ worker \in {"looping", "gating", "ready", "waiting", "copying",
                   "returning", "publishing", "ended"} \cup Opening
    /\ candidate \in Candidates
    /\ count \in 0 .. Divider - 1
    /\ late \in Nat

Init ==
    /\ CameraInit
    /\ viewed \in BOOLEAN
    /\ enabled = TRUE
    /\ node = "alive"
    /\ worker = "looping"
    /\ candidate = 0
    /\ count = 0
    /\ late = 0

-----------------------------------------------------------------------------
(* The capture thread.                                                     *)

WorkerUnchanged == UNCHANGED <<health, viewed, enabled, node>>

\* The loop's condition, and whether anybody is watching.
Loop ==
    /\ worker = "looping"
    /\ IF node # "alive"
       THEN worker' = "ended" /\ UNCHANGED <<object, kernel>>
       ELSE IF Lazy /\ ~viewed
       THEN CloseDevice /\ UNCHANGED worker
       ELSE worker' = "gating" /\ UNCHANGED <<object, kernel>>
    /\ UNCHANGED <<frame, candidate, count, late>>
    /\ WorkerUnchanged

\* Faulty variant (mutation only): the switch only keeps the camera from
\* being opened.
GateClosedOnly ==
    /\ worker = "gating"
    /\ worker' = IF enabled \/ IsOpen THEN "ready" ELSE "looping"
    /\ UNCHANGED <<object, kernel, frame, candidate, count, late>>
    /\ WorkerUnchanged

\* The switch is read after the viewers were counted.
Gate ==
    /\ worker = "gating"
    /\ IF enabled
       THEN worker' = "ready" /\ UNCHANGED <<object, kernel>>
       ELSE CloseDevice /\ worker' = "looping"
    /\ UNCHANGED <<frame, candidate, count, late>>
    /\ WorkerUnchanged

\* Faulty variant (mutation only): the next attempt tries the same path.
NextSame == UNCHANGED candidate

\* After a failed attempt it is the next candidate's turn.
NextCandidate == candidate' = (candidate + 1) % NumCandidates

\* A closed camera is opened; an open one is read.
BeginOpen ==
    /\ worker = "ready"
    /\ \/ /\ IsOpen
          /\ worker' = "waiting"
          /\ UNCHANGED <<object, kernel, candidate>>
       \/ /\ ~IsOpen
          /\ OpenFile(candidate)
          /\ worker' = "negotiating"
          /\ UNCHANGED candidate
       \/ /\ ~IsOpen /\ health[candidate] = "refuses"
          /\ CloseDevice
          /\ NextCandidate
          /\ worker' = "looping"
    /\ UNCHANGED <<frame, count, late>>
    /\ WorkerUnchanged

\* The next call of open_device() succeeds.  The mapping loop queues each
\* buffer as soon as it is mapped.
OpenStep ==
    /\ \/ worker = "negotiating" /\ Negotiate /\ worker' = "requesting"
       \/ worker = "requesting" /\ RequestBuffers /\ worker' = "mapping"
       \/ worker = "mapping" /\ MapBuffer /\ worker' = "queueing"
       \/ /\ worker = "queueing" /\ QueueBuffer
          /\ worker' = IF NextBuffer < granted THEN "mapping" ELSE "starting"
       \/ /\ worker = "starting" /\ ~MayFail /\ StartStream
          /\ worker' = "waiting"
    /\ UNCHANGED <<frame, candidate, count, late>>
    /\ WorkerUnchanged

\* The next call of open_device() fails; it cleans up and reports failure.
OpenFails ==
    /\ worker \in Opening
    /\ MayFail
    /\ CloseDevice
    /\ NextCandidate
    /\ worker' = "looping"
    /\ UNCHANGED <<frame, count, late>>
    /\ WorkerUnchanged

\* capture(): a frame is ready in time.
TakeFrame ==
    /\ worker = "waiting"
    /\ DequeueBuffer
    /\ worker' = "copying"
    /\ UNCHANGED <<candidate, count, late>>
    /\ WorkerUnchanged

Copy ==
    /\ worker = "copying"
    /\ CopyFrame
    /\ worker' = "returning"
    /\ UNCHANGED <<candidate, count, late>>
    /\ WorkerUnchanged

\* capture() ends: a valid frame whose buffer went back counts, and every
\* Divider-th one is published; otherwise the camera is closed, to be opened
\* again on the same path.
EndCapture ==
    /\ worker = "returning"
    /\ \/ /\ ReturnBuffer
          /\ valid
          /\ count' = (count + 1) % Divider
          /\ worker' = IF count' = 0 THEN "publishing" ELSE "looping"
       \/ /\ ~valid \/ health[fd] # "works"
          /\ CloseDevice
          /\ taken' = NoBuffer
          /\ worker' = "looping"
          /\ UNCHANGED <<valid, count>>
    /\ UNCHANGED <<candidate, late>>
    /\ WorkerUnchanged

\* capture() times out or fails before a frame is taken.
CaptureFails ==
    /\ worker = "waiting"
    /\ health[fd] # "works"
    /\ CloseDevice
    /\ worker' = "looping"
    /\ UNCHANGED <<frame, candidate, count, late>>
    /\ WorkerUnchanged

Publish ==
    /\ worker = "publishing"
    /\ late' = IF enabled THEN late ELSE late + 1
    /\ worker' = "looping"
    /\ UNCHANGED <<object, kernel, frame, candidate, count>>
    /\ WorkerUnchanged

Worker ==
    \/ Loop \/ Gate \/ BeginOpen \/ OpenStep \/ OpenFails
    \/ TakeFrame \/ Copy \/ EndCapture \/ CaptureFails \/ Publish

-----------------------------------------------------------------------------
(* The executor, the viewers, and the end of the node.                     *)

\* /enable_camera
EnableCamera ==
    /\ node = "alive"
    /\ enabled' \in BOOLEAN
    /\ late' = 0
    /\ enabled' # enabled
    /\ UNCHANGED <<cameraVars, viewed, node, worker, candidate, count>>

ViewersChange ==
    /\ viewed' = ~viewed
    /\ UNCHANGED <<cameraVars, enabled, node, worker, candidate, count, late>>

OthersUnchanged == UNCHANGED <<viewed, enabled, worker, candidate, count, late>>

\* A signal: rclcpp::ok() fails and the executor stops spinning.
Shutdown ==
    /\ node = "alive"
    /\ node' = "leaving"
    /\ UNCHANGED cameraVars
    /\ OthersUnchanged

\* ~UsbCameraNode(): running_ is cleared, ...
BeginDestruct ==
    /\ node = "leaving"
    /\ node' = "joining"
    /\ UNCHANGED cameraVars
    /\ OthersUnchanged

\* Faulty variant (mutation only): the device is left to the thread.
JoinOnly ==
    /\ node = "joining" /\ worker = "ended"
    /\ node' = "gone"
    /\ UNCHANGED cameraVars
    /\ OthersUnchanged

\* ... the thread is joined, and the device closed.
Join ==
    /\ node = "joining" /\ worker = "ended"
    /\ CloseDevice
    /\ node' = "gone"
    /\ UNCHANGED <<health, frame>>
    /\ OthersUnchanged

Destructor == BeginDestruct \/ Join

Next ==
    \/ Worker \/ Destructor \/ Shutdown
    \/ EnableCamera \/ ViewersChange
    \/ DeviceChanges /\ UNCHANGED node /\ OthersUnchanged

Spec == Init /\ [][Next]_vars

\* The thread runs: select() has a time-out, the sleeps end.  The destructor
\* runs once spinning ends.  Of the devices only what their behaviour says is
\* assumed: one that works has a frame in time.
Fairness == WF_vars(Worker) /\ WF_vars(Destructor)

FairSpec == Spec /\ Fairness

-----------------------------------------------------------------------------
(* Properties.                                                             *)

\* The process holds exactly the descriptor and the mappings the object has
\* on record, at every point of an opening that may fail at any call: what is
\* recorded is what close_device() gives back (open_device, close_device).
NothingLeaks ==
    /\ descriptors = IF IsOpen THEN 1 ELSE 0
    /\ mappings = Cardinality(buffers)
    /\ queued \cup {taken} \subseteq buffers \cup {NoBuffer}

\* Disabling the camera lets at most one more image out, the one whose
\* capture had begun (capture_loop reads the switch before each capture).
OneAfterDisable == late <= 1

\* If one candidate works and the others refuse to open, images come out in
\* the end, wherever in the list the working one stands (candidate_index).
FindsTheCamera ==
    (/\ <>[](enabled /\ viewed /\ node = "alive")
     /\ \E d \in Candidates :
            <>[](\A c \in Candidates : health[c] = IF c = d THEN "works" ELSE "refuses"))
    => []<>(worker = "publishing")

\* Once the node is to end, the destructor returns and the device is free
\* (~UsbCameraNode).
StopReleases == node = "leaving" ~> (node = "gone" /\ descriptors = 0 /\ mappings = 0)
=============================================================================
