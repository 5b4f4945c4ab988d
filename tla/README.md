# A TLA+ verification of the robot's software

TLA+ models of the control logic of the robot in this repository, TLC
configurations that check them on small instances, and TLAPS proofs of the
properties that matter most for every value of the constants.  Every definition
is a translation of source code; `PROJECT.json` gives, for each, the file and
the lines (`map`), and lists runs, faulty variants, hazards, findings and
theorems.  Paths below are relative to `src/ros2_ws/src/`; "agent" stands for
`robot_agent/robot_agent/`.

    tlc -workers 2 -config MCObjectTrack.cfg MCObjectTrack
    tlapm TrackerProofs.tla

## 1. The system

The robot listens, asks a language model what to do, executes the action list
it answers with, and remembers the conversation.  One of its abilities is to
follow a person: camera images go through a detector, the tracker combines the
detections with the lidar, and velocity commands come out.  A web page can
switch the same tracker.  A monitor keeps a table of the running nodes.

| Component | Source | State it keeps | Operations |
|---|---|---|---|
| Action execution | agent `actions/execution.py`, `actions/registry.py`, `calls.py` | outcome table, retained call, one daemon thread per submitted command | `execute`, `reconcile`, the receipts of the threads |
| Online interaction | agent `conversation/interaction.py` | `_provider_call`, the slot of model calls and memory updates | `submit`, `clear_memory`, `reconcile` |
| Conversation memory | agent `conversation/memory.py` | recent exchanges, summary, a file | `record`, `clear`, load, save in two halves |
| Live speech input | agent `voice/live_input.py`, `voice/_speech_task.py`, `robot_audio/robot_audio/pcm_input.py` | sentence slot, pause and resume flags, a connection, a recorder process | `listen`, two threads, `close` |
| Voice session and output | agent `voice/session.py`, `voice/output.py`, `ros/voice_node.py` | awake or asleep, silence timer, playback | turns, `tick`, `stop` |
| Perception actions | agent `actions/perception.py`, `ros/perception.py` | last confirmed Follow and fusion | staged actions under one deadline |
| Web control node | `web_video_server/.../tracking_control_node.py` | `tracking_enabled` | `on_command`, service answers |
| Object tracker | `object_track/src/object_track_node.cpp`, `tracking_math.hpp` | Follow, fusion, TF, scan, target, last command | image, scan, two services, two timers |
| Detector | `rknn_yolov6/src/rknn_yolov6_node.cpp`, `bounded_queue.hpp` | two bounded queues, two threads, enable switch | `receive_image`, `/enable_detector`, offline mode, destructor |
| Monitor | `monitor/src/main.cpp`, `monitor/src/monitor/*` | registered nodes, tombstones of ended ones, last samples | register, unregister, 3 s sampling |
| Monitor client | `monitor_client/src/monitor_registration.cpp` | a worker thread, an executor thread, request futures | register, renew, `Close` |
| One-shot voice front end | `robot_voice/robot_voice/voice_frontend_node.py` | one capture at a time, an answer awaited | capture request, model response |
| Camera node | `usb_camera/src/usb_camera_node.cpp`, `v4l2_camera.cpp` | file descriptor, mapped buffers, candidate device, switch | capture loop, `/enable_camera`, destructor |
| Image codecs | `img_decode`, `img_encode` with their Rockchip back ends | MPP and RGA objects, a lazy subscription, a frame divider | set-up, decode, encode, subscriber timer |
| Laser and image computations | `rknn_yolov6/src/postprocess.cpp`, `object_track/include/object_track/tracking_math.hpp` | none between images | decode heads, sort, suppress, select, range, control laws |
| Lidar | `ydlidar` | device handle | scan timer |
| Video server | `web_video_server/.../web_video_node.py` | newest frame and detections | raw image, detections, streams |
| Simulated devices, provider, wiring | agent `actions/*simulation.py`, `capabilities.py`, `conversation/provider.py`, `runtime.py` | positions, playlists, volume | the devices' commands |

How they meet:

* `submit` calls the execution and the memory.  The model call and the memory
  update run on threads of their own, share one slot, and outlive the caller's
  time-outs.
* A device call is a perception action for instance; it calls the tracker's two
  services and publishes `/enable_camera`.  The web node calls the same service
  with requests of its own; the tracker tells neither what the other did.
* The camera publishes JPEG images; the decoding node turns them into raw ones,
  which the detector and the encoding node take.  Camera and decoder work only
  while somebody subscribes, if they are lazy.
* The detector publishes `/ai_msg_det`; the tracker joins it with the image and
  the newest scan.
* The voice loop pauses the live input while a turn is processed and resumes it
  afterwards.
* Nodes register with the monitor over services and renew a lease.

What is hard, component by component, and what makes it correct:

* *Action execution.*  Calls are never cancelled, so a deadline leaves a thread
  behind whose receipt comes at any later time.  No two device calls may
  overlap, a list must stop at the first command that is not confirmed, and a
  published result must never be contradicted by what the device did.
* *Interaction and memory.*  A late thread must not touch what the next turn
  uses; a summary that fails, a save that fails or a crash between two file
  operations must neither lose nor resurrect what was forgotten.
* *Live speech.*  Two threads, an operator's stop and two external processes
  race.  The robot must not hear itself, not act on an old sentence, not go
  deaf, and not leak the recorder.
* *Perception control.*  Two clients hold copies of the tracker's state and
  learn of changes only from their own receipts.
* *Tracker.*  It must not drive on data that is gone: an old scan, another
  target, a closed fusion.
* *Detector.*  Two threads, dropping queues and a destructor that must leave no
  result behind for a backend that no longer exists.
* *Camera and codecs.*  A chain of ten system or vendor calls, each of which may
  fail, is taken up again every second; nothing may leak, and a result the
  hardware owes must not become the picture of another header.
* *Computations.*  A hand-written sort, a suppression with overwritten indices and
  truncating conversions decide which person is followed, and on which side of a
  threshold the robot stands.
* *Monitor and client.*  Delayed and duplicated requests, reused PIDs, leases
  against loss, and a close with a deadline.

`PROJECT.json` lists these hazards at the lines where they bite.

## 2. The modules

Each `MC<module>.tla` extends its module for TLC; the constants are in the
`.cfg`.  Names of variables and actions follow the source.  Definitions marked
"Faulty variant (mutation only)" are used by no specification: each is what a
plausible mistake would make of the definition below it, and every checked
property fails under one of them.

**ActionLedger, ActionExecution.**  The ledger is the promise: a command leaves
*not executed* only behind confirmed successes, a doubt ends only with what the
device confirmed, a closed list is never resumed, and no turn opens while any
command is in doubt.  The execution has the caller's loop (`SubmitCall`,
`WaitTimesOut` at the deadline, `TakeReceipt`, `TakeNoFact`, `Report`), the
explicit `Reconcile`, and the device threads (`CallEnds`).  A command is its
position in the list.

**ConversationMemory.**  `record` in its steps (the exchange, the summary, the
save), `clear`, the save in two halves (temporary file, rename), and a crash
with a restart at every step.  An exchange is its number; a summary is the set
of exchanges it stands for.

**OnlineInteraction** instantiates both and adds the slot, the model call, the
turn, and the end of the process at any point: its file survives, its threads and
the command in doubt do not.

**TrackerService, ObjectTrack.**  The service module is what the tracker's
clients rely on.  The tracker module has each callback as one action, because
one thread spins the node.  An image is divided into columns; a target and the
scan's projected points cover some of them, and the target has a range when
both meet.  Velocities are zero or not.

**PerceptionControl** composes the promise of `TrackerService` with the agent's
staged actions and the web node.  An agent's receipt may come after its
deadline; the web node's requests and answers are two queues.

**MonitorRegistry.**  A call of the monitor in its steps (check the process,
read the clock, prune, commit), with processes exiting, PIDs being reused and
time passing in between.

**MonitorClient.**  One registration: worker, executor and closing thread, in
ticks of 100 ms, against the monitor's table as this client sees it.  The test
of `stopping_` and the wait that follows it are separate steps, as in the code.
A request takes any time to arrive, its response any time to come back and to be
seen by the worker's poll; every wait of the worker may end up to `Late` ticks after
its period, for polls, discovery and scheduling.  The monitor may refuse a
request.

**LiveSpeech.**  The capture thread, the receive thread, the business loop and
the main thread.  A frame is the listening window it was recorded in, or
`Busy`; the recognizer may begin a sentence at any frame it was sent.

**BoundedQueue, DetectorPipeline.**  The queue is a component of its own with
the consumer's sleep on the condition variable as a step; the pipeline
instantiates it twice.  An image is its number.

**V4l2Camera, UsbCamera.**  `open_device` and `capture` are one step per system
call.  What the object records (descriptor, buffers, streaming) is kept apart from
what the kernel holds (descriptors, mappings, queued buffers), so a leak is a
difference of the two.  A device works, stays silent or refuses, and may change at
any time.

**JpegDecoder, JpegEncoder, ImageChain.**  One callback of a node is one action
with all its calls to MPP and RGA in their order, each of which may fail.  An
image knows whether its picture belongs to its header, and MPP keeps the results
it owes, so the one-packet protocol of the nodes can be told from the pictures.
The chain puts the two nodes on one topic that keeps the newest image only.

**YoloPostprocess, Vision.**  One image's way from the network's output to a velocity.
`Decode` takes the cells above the threshold one by one; `Enter`, `Sweep` and
`PutKey` are a call of `quick_sort_indice_inverse` (its key, one turn of its outer
loop, its end), with the ranges of the calls still to be made in a set, since they
share no element and so may run in any order; `Suppress` and `Emit` are one turn of
the loops of `nms` and of the output.  Then target selection, range choice and the
control laws of the tracker are one action, `Track`.  Every run of
the model is one image and one scan.  Scores are small numbers in the order of
the real ones; boxes come in half cells and are scaled by exact rationals where the
code uses floating point, so rounding errors are not modelled but truncation to
integers is; a beam of the scan is an entry of a catalogue with the distance and the
place in the image the camera sees, instead of the trigonometry.

Each `<name>Proofs` module extends the modules it is about: ActionExecutionProofs,
OnlineInteractionProofs (with the memory), MonitorProofs (monitor and client),
TrackerProofs (ObjectTrack and Vision), PerceptionControlProofs, LiveSpeechProofs,
ImagePathProofs (detector pipeline and image chain) and UsbCameraProofs.

## 3. The runs

| Run | Bounds | Shows |
|---|---|---|
| `action_execution` | 2 turns, 3 commands | `NoOverlap`: no two device calls at once. `BlockedByOneUnknown`, `ReportsAreTrue`: late receipts. `KeepsLedger`: refinement of the ledger |
| `online_interaction` | 2 turns of 2 commands, 3 exchanges, recent list of 2, a restart at any step | `ExecutePrecondition`, `MemoryProtocol`: the discipline the two components expect of their caller. `ForgottenStaysForgotten`: a confirmed clear survives late summaries, failing saves and crashes. `CallReturns` |
| `monitor_registry` | 4 registrations, 2 names, 1 PID used twice, 2 tombstones, lease of 1 tick | `EndedStaysEnded`: late requests revive nothing. `OwnersKeepTheirNames`: a late unregister request of the predecessor does no harm. `DeadRecordsVanish` |
| `monitor_client` | the code's periods in ticks of 100 ms: response 5, renewal 20, close 10, lease 100; waits up to 2 ticks late; 2 renewals in a row without an answer, 1 abandoned request | `EndsForGood`: a close never skips the unregister request, and a confirmed one is final. `LeaseIsKept`, `CloseReturns` |
| `monitor_client_close` | the same | violation, see section 6 |
| `object_track` | 2 columns, scan time-out of 2 ticks | `MotionHasRange`, `StaleScanStops` |
| `perception_control` | 2 web requests under way | `AgentKnows`, `WebKnows`: what each entry reports is true unless somebody else changed it since. `CameraPausedInStandby` |
| `live_speech` | 2 windows, 2 connection attempts, 2 frames sent per connection, 1 in the pipe | `PausedAudioStaysOut`, `DeliversCurrentWindow`, `NeverDeaf`, `StopReleases` |
| `detector_pipeline` | queues of 2 as in the code, 7 images | `FewAfterDisable`: at most six results after a disable. `NewestIsHandled`. `StopDrains` |
| `usb_camera` | 2 candidate devices, 3 buffers, every second frame | `NothingLeaks`: on any failing call. `OneAfterDisable`. `FindsTheCamera`: a device that works is found. `StopReleases` |
| `image_chain` | sizes 0, 3, 6, 7 and 16 with 7 the largest allowed, 2 tasks per port, 1 result owed | `WithinMaximum`: nothing too large passes the decoder. `PictureIsOwn`: a picture keeps its header unless MPP withheld a result. `SetUpOrNothing`: a failed set-up leaves nothing |
| `vision` | 4 outputs in 7 cells of 3 heads, 2 source sizes, 2 beams out of 9 | `BestFirst`, `OneBoxEach`: sort and suppression against their definitions. `FollowsLargest`. `KeepsDistance`: said of the scan's beams, so that a border drawn wrongly shows. `TurnsToTarget` |

The type invariant of LiveSpeech is checked in its run as well as proved; the other
type invariants are proved (section 5).

Why the bounds suffice.  Two turns let a receipt of one arrive in the other;
three commands give a first, a middle and a last.  Three exchanges with a trigger
of one and a recent list of two give a failed summary, an overflow of the list
and a summary of both.  Four registrations give the same process twice, another
name, and the successor under the same PID; two tombstones make the table of
tombstones full.  In the client the periods are the code's own, so the sums of
waits are compared as they are.  Two unanswered renewals in a row, with every wait
200 ms late, are the most a lease of ten seconds bears: at 300 ms, or with a third
renewal lost and nothing late, a lease lapses (section 6).  Two columns tell a target
with a range, one without and a target that moved apart; a scan time-out of two ticks has a fresh, an ageing and an expired
scan.  Two listening windows are an old one and the present one; two attempts are
a failure and a retry or a second failure.  Seven images are one more than the
detector pipeline can hold.  Two devices are the one in use and the one that
appears; three buffers are a first, a middle and a last of the mapping and queueing
loops.  The sizes are an empty image, one odd and one even size, the largest
allowed and one beyond it; one owed result shifts every later picture.  Four
detections make a partition move entries in both directions and leave two calls
that both have work, let a suppressed box lie
between two others, and pass the output limit of two.

`CHECK_DEADLOCK FALSE` stands where the program really ends or waits for ever:
a bounded number of turns or images is used up, `stop()` or the destructor has
returned, a device never answers, or one image and one scan are computed.

## 4. Fairness

* The caller's thread runs inside `submit()` (`OnlineInteraction`): weak fairness of
  its steps, which include its deadlines.  Nothing is assumed of
  devices, the model service or the disk, nor that an exception occurs.
  `clear_memory()` writes the file on the caller's own thread without a deadline, so
  it is not fair, and `CallReturns` is about `submit()` only.
* The monitor: a callback that has begun ends (weak).  The executor looks at
  its timers before its services each time it is free, so requests cannot starve
  the sampling timer (strong fairness of `UpdateAll`).
* The client: its threads run (weak); time passes however often the monitor
  comes and goes (strong fairness of `ClientTick`).  Nothing is assumed of the monitor
  or the network.
* Live speech: the four threads run; reads, the handshake and a turn have their
  own deadlines in the code.  The receive thread finds out by itself that the
  capture failed, a send failed or the socket is gone.  Nothing is assumed of
  the service, the recorder or the operator.
* The detector: both threads run, a backend call returns, and a destructor once
  entered goes on.  Nobody promises images, commands or a stop.
* The camera: its thread runs, its waits and sleeps end (each has a time limit in
  the code), and a destructor once entered goes on.  The devices may fail for ever;
  `FindsTheCamera` supposes that one of them comes to work and stays, and that the
  others refuse.

## 5. The proofs

TLAPS proves the following for every value of the constants, from the named
assumptions next to the constants only.

*ActionExecutionProofs* (assumptions: the set of success receipts is not empty
and disjoint from the other states; positive list length and number of turns).
`TypeCorrect`, `CallsNeverOverlap`, `ListsStopAtFirstFailure`,
`BlockingIsExact`, `PublishedResultsAreTrue`, `PublishedResultsOnlyResolve`, and
`ExecutionKeepsLedger`, the refinement of ActionLedger.  "No two calls overlap"
is not inductive: one must know that only the retained call can be running
(`OnlyPendingRuns`), that a retained call is exactly the one unknown entry of
the table (`PendingIsUnknown`), where the loop stands in the table
(`LoopInvariant`), and that the table agrees with the threads (`TableIsTrue`).
The refinement uses the same invariant, action by action.

*MonitorProofs*, the monitor (every set of names, PIDs and identities, every lease
and capacity).  `TypeCorrect`, `EndedNeverReturns`, `SamplesAreCurrent`,
`NamesAreKept`.  The strengthening is that a confirmed identity keeps its
tombstone for as long as its process lives (`LiveConfirmedBuried`), that a
tombstone's identity owns no record (`BuriedOwnNothing`), that a record stands
under its own name, and that the table of tombstones stays finite and bounded.

*MonitorProofs*, the client (all positive periods, any number of lost and delayed
requests).  `ClosedStaysGone` rests on the order of two stores against two loads:
`Close()` writes the deadline before the flag (`StoresInOrder`), the worker leaves its
loop only for the flag (`LeavesWhenStopped`), so whoever sees the flag sees the deadline
too; and an answer to an unregister request proves that the tombstone is still there
or that the monitor has restarted and no old request can reach it
(`UnregisteredForGood`).  `LeaseOutlastsLosses` counts rounds: a round (`Round`) is a sleep,
a wait for the service and a wait for a response, each of them late, every unanswered
renewal adds one at most to the age of the record (`AgeBounded`), and the answer to a
renewal comes when the record is already as old as a wait for a response
(`AnswerAge`).  It supposes, as a hypothesis about the periods, that the lease is as
long as one round more than there are losses, and that age.  The code's periods
satisfy it for two losses and 200 ms of lateness in every wait
(3 * 3.1 s + 0.7 s = 10 s), and for no lateness with three.
`CloseLateByASleep` is the positive side of the finding in section 6: `Close()` waits
for the worker no longer than its own time-out or one whole sleep, whichever is longer,
but for the lateness of that wait.

*TrackerProofs*, the node (every set of columns, every positive time-out).
`FollowNeedsItsInputs`, `MotionKnown`, `MotionNeedsRange`, `StaleScansStop`, and
`ImplementsService`: every step of the tracker is a step of `TrackerService` or
a stutter, so PerceptionControl composes with what the tracker really does.
The strengthening ties the remembered command to a range that still stands and
the emitted stop to a lapse that still lasts.

*TrackerProofs*, the computations (all sizes of images, every output of the network,
any number of cells, any catalogue of beams, gains and limits that are not negative).
`SortingIsRight`, `SuppressionIsRight`, `LargestIsFollowed`, `DistanceIsKept`,
`TurnIsRight`.  The sort is proved without induction over its recursion, through an
invariant of the list and the set of calls: with the key put into the hole, the list
still holds each candidate once with its score (`NoneIsLost`), and two entries in the
wrong order lie in the range of one call that is still to come or running
(`RestIsOrdered`); the calls share no element (`CallsAreApart`), and in the running one
the entries left of `low` and right of `high` are on their side of the key
(`PartitionIsHalfDone`).  When no call is left, nothing is in the wrong order.  For
`nms`, a box is removed by one that is left and has had its turn
(`RemovedByTheLeft`).  `LargestIsFollowed` needs the order of the output
(`ShownInOrder`), because `select_target` only compares areas.  `DistanceIsKept` relates
the points the code keeps to the beams they come from, border by border.  That `Min` and `Max`
of a set exist is derived from the library's theorem that a well-founded relation has
minimal elements, once, in `MinOf` and `MaxOf`.

*ImagePathProofs*, the detector (every positive capacity, every number of images).
`TypeCorrect`, which includes that no queue exceeds its capacity, and
`DisableIsBounded`: at most 2 * Capacity + 2 results after a disable.  The
invariant counts: results published since the disable plus images in flight
never exceed what the pipeline can hold, and a thread holds an image exactly
where its loop has one.

*ImagePathProofs*, the two codec nodes (every configured size, all sizes of images,
any number of tasks and of results MPP may owe).  `ChainTypeCorrect`,
`HeadersAreKept`, `FailedSetUpLeavesNothing`, `NothingTooLarge`.
The strengthening says where a picture may be late: every picture behind the decoding
node is its header's unless that node's MPP owes a result, and behind the encoding node
unless either of them is late (`OwnUnlessLate`).

*UsbCameraProofs* (every number of devices and buffers).  `TypeCorrect`,
`CameraLeaksNothing`, `DisableIsPrompt`.  The strengthening says that the recorded
buffers are an initial segment as long as the kernel's mappings, that the
descriptor is recorded exactly while the kernel holds it, and how far each point of
`open_device` has come.

*LiveSpeechProofs* (every number of connection attempts, frames and windows).
`TypeCorrect`, `NothingOfAPauseIsSent`, `SentencesAreCurrent`, `NothingOutlivesStop`.
The core is `HeardInWindow`: while the input is not paused, the frame in hand, the pipe
and what was sent since the last resume were recorded in the present window.  It holds
because a window begins only where the pipe is cleared.  A sentence begins at a frame
the recognizer has (`Refers`), and a resume is requested only during a pause
(`PauseHolds`).  For the end, what `_cancel_io()` has shut stays shut whoever was
opening it (`Shut`).

*OnlineInteractionProofs* (every list length, number of turns and configuration of the
memory the constructor accepts) proves the memory's inductive invariant,
`MemoryAlone`: only the exchange `record` is about to append is
younger than all that memory, file and confirmed clears know of, and a summary
under way is made of what the memory still holds.  It then composes the invariants of
the execution and the memory.
`TypeCorrect`, `ListsStartFree`, `MemoryIsSerialised` (the composition implements
ConversationMemory), `ClearIsFinal`, `ContextIsFresh`, `ExecutionStaysSafe` and
`UpdatesFindMemoryFree`.  What is added is the coupling: the caller is inside
`execute` exactly while its loop is not idle, and the slot tells who uses the
memory.  The restart is no step of ActionExecution, so the execution's invariant is
carried over it by the initial condition instead of by its specification.

*PerceptionControlProofs* (every number of web requests under way).
`TypeCorrect`, `AgentReportsTheTracker`, `WebReportsTheTracker`,
`CameraPausesInStandby`.  The invariant says what the receipts on their way will
teach: the last success on its way to the web node tells what the tracker does, and
an agent's granted receipt tells what its request changed while the rest of its
knowledge stands.

Every safety invariant and every action property of the passing runs is proved.  Only
model-checked: the liveness properties (`CallReturns`, `DeadRecordsVanish`,
`CloseReturns`, `NeverDeaf`, `StopReleases` of two modules, `NewestIsHandled`,
`StopDrains`, `FindsTheCamera`), since fairness and ENABLED are beyond
the prover.  A sort of the whole list as one recursive operator could not be proved
about, since the induction theorems take an operator as parameter; as a sequence of
steps it could.

## 6. Findings

`monitor_client_close` refutes `ClosesByDeadline`.  `Close()` sets `stopping_`
and notifies without holding the worker's mutex
(`monitor_client/src/monitor_registration.cpp:304`).  A worker that has tested
the flag but does not wait yet misses the notification and sleeps out its two
seconds, so `Close()` returns late and the unregister request is not waited
for.  `CloseReturns` shows that it does return, and the theorem
`CloseLateByASleep` that it waits for one sleep of the worker at most.

Observations made while modelling, not stated as properties:

* Offline results are named by the file's place in the list; `rknn_yolov6/README.md:139`
  says they are numbered in the order of processing.  An unreadable file, a failed
  inference or a result the output queue drops leaves a gap.
* The camera's candidate does not advance past a device that opens but delivers
  nothing: the loop opens it again, so another device that works is not tried.
* `frame_rate_stats.hpp:43` says that idle time is not counted; the window is not
  reset while re-opening the camera fails.
* The output limit of the postprocessing counts suppressed entries, so more than a
  hundred candidates may hide a good detection.  Suppression ignores the class.
* A result MPP withholds once leaves the decoder one picture late for ever: each
  later image carries the picture of an earlier one under its own header, and the
  detector and the tracker take it for the present.  The encoder recovers at the next
  change of resolution.  `PictureIsOwn` speaks of the time before such a result only.
* Each failed enqueue of the decoder keeps a task of MPP.  When none is left, or when
  a result never comes, a blocking poll
  (`img_decode/src/rockchip_image_processor.cpp:153` and `:171`) never returns.  The
  node has one thread, so its timer no longer follows the viewers either, and only the
  end of the process helps.  No property promises more.
* The lease has little to spare.  With three renewals in a row without an answer, four
  sleeps and three waits of 500 ms pass, 9.5 s, until the fourth is sent; the last
  answered one may have been handled 500 ms before its answer, and polls and
  transit come on top: the record of a running node can be pruned.  Its next renewal
  makes it again.
* `clear_memory()` is as fast as its disk: it saves and fsyncs on the
  caller's own thread (agent `conversation/memory.py:133`), which may be the thread of
  the voice loop.  Only `submit()` has deadlines for all its waits.
* A scan point within a pixel of the target's left side is not counted as on
  the target, because its column is truncated to that side; on the right it is counted
  up to the side itself.
* The monitor reads memory and disk figures by PID alone after it has checked the
  start time once (`monitor/src/monitor/process_monitor.cpp:329`).
* A restart of the agent forgets a command in doubt; nothing on disk says that a
  device may still be executing it.
* The shutdown of the live input is guarded twice.  Dropping one
  of its tests of `_closed` alone does not leak the recorder or the connection,
  because the business loop's own `close()` cancels once more.

## 7. What the models leave out

* ActionExecution: parameter validation (a rejected list never starts).
* ConversationMemory: the text of exchanges and summaries.
* OnlineInteraction: the JSON of the model, and exceptions that are not the
  call's own.
* MonitorRegistry: the cleanup log, and the CPU, memory and disk figures.
  Requests refused for their form change nothing and are no steps.
* ObjectTrack: drawing; projection, ranges and control laws are in Vision.
* PerceptionControl: JSON, and requests with unknown commands.
* LiveSpeech: heartbeats and intermediate results, which change nothing, and the
  6 s limit of the joins.
* DetectorPipeline: the counts of subscribers (an image not accepted changes
  nothing), the rate report and the drawing.  An exception thrown by a backend's
  `infer` ends the process and is not a behaviour of the model.
* UsbCamera: sizes, the requested format, the bytes of an image, the rate report.
* ImageChain: pixels, strides and colour formats; the OpenCV back ends keep no
  state.
* Vision: floating-point rounding and the trigonometry of the projection.

Not modelled, each with its reason in `PROJECT.json`: the voice session and
output, the simulated devices and the parameter checks, the provider and the
wiring, the one-shot front end, the lidar node, the video server, the samplers of
the monitor, the camera benchmark, interfaces, launch files, scripts and tests.
The vendor runtimes and the services outside the
repository appear as what they may answer.

## 8. The plan

Done, in this order: ActionLedger and ActionExecution; ConversationMemory and
OnlineInteraction, which composes them; MonitorRegistry and MonitorClient;
TrackerService and ObjectTrack; PerceptionControl, which composes the promise with its
two clients; LiveSpeech; BoundedQueue and DetectorPipeline; V4l2Camera and UsbCamera;
the image chain; the computations.  The safety properties of all of them are proved.

Next, the models:

1. `VoiceOutput`: playback, `enable_tts`, cancellation and the clean-up of the
   spoken file, against a turn that ends and a stop.  Property: after a cancel
   nothing is spoken, and no file stays behind.
2. `VoiceSession`: wake words, sleep and the silence time-out, with `tick`
   racing a turn; composed with VoiceOutput.  Property: a sleeping robot
   executes nothing, and the silence timer never ends a turn under way.
3. `VoiceFrontend`: one capture at a time and late answers of the model.
4. `FrameStore` of the video server: what a stream shows is a merged pair of a
   frame and detections of the same frame.

Next, the proofs: the safety of those models; a refinement of BoundedQueue as an
abstract queue that drops its oldest entry; for the liveness properties, the safety
half of each (what a waiting thread's wake-up depends on) as invariants.
