-------------------------- MODULE DetectorPipeline --------------------------
(***************************************************************************)
(* The two-stage pipeline of the detector node (rknn_yolov6_node.cpp).     *)
(* The node's callbacks put accepted images into the input queue, the      *)
(* inference thread turns an image into a backend result and hands it to   *)
(* the output queue, the processing thread interprets and publishes it.    *)
(* In offline mode the inference thread reads the images from a directory  *)
(* instead, through the same output queue.  Whatever the stages cannot     *)
(* keep up with is superseded by newer images.  The destructor stops the   *)
(* stages in order, so that every result is handled before the backend is  *)
(* destroyed.                                                              *)
(*                                                                         *)
(* An image is its number in the order of arrival (offline: of the sorted  *)
(* file list, where the code counts from 0 and the model from 1).          *)
(***************************************************************************)
EXTENDS Integers, Sequences

CONSTANTS
    Capacity,   \* kQueueCapacity
    MaxFrames   \* bound: images accepted; offline: files in the directory

ASSUME PipelineAssumption == Capacity \in Nat \ {0} /\ MaxFrames \in Nat

NoFrame == 0
Frames == 1 .. MaxFrames

VARIABLES
    offline,                              \* offline_mode_
    enabled,                              \* enabled_
    arrived,                              \* number of the newest image
    inQueue, inClosed, inAsleep,          \* input_queue_
    outQueue, outClosed, outAsleep,       \* output_queue_
    inference,                            \* where the inference thread is
    inferring,                            \* the image it holds
    processing,                           \* where the processing thread is
    handling,                             \* the image it holds
    destructor,                           \* where the destructor is
    failed,                               \* newest image without a result
    inferred,                             \* newest image with a result
    handled,                              \* newest image processing is done with
    published                             \* live images published since disabled

input == <<inQueue, inClosed, inAsleep>>
output == <<outQueue, outClosed, outAsleep>>
record == <<failed, inferred, handled, published>>
vars == <<offline, enabled, arrived, input, output, inference, inferring,
          processing, handling, destructor, record>>

Input == INSTANCE BoundedQueue
             WITH queue <- inQueue, closed <- inClosed, asleep <- inAsleep
Output == INSTANCE BoundedQueue
             WITH queue <- outQueue, closed <- outClosed, asleep <- outAsleep

\* stopping_ is set by the destructor's first statement.
Stopping == destructor # "alive"

TypeOK ==
    /\ offline \in BOOLEAN
    /\ enabled \in BOOLEAN
    /\ arrived \in 0 .. MaxFrames
    /\ Input!QueueTypeOK(Frames)
    /\ Output!QueueTypeOK(Frames)
    /\ inference \in {"taking", "taken", "inferring", "inferred", "closing", "done"}
    /\ inferring \in Frames \cup {NoFrame}
    /\ processing \in {"taking", "handling", "done"}
    /\ handling \in Frames \cup {NoFrame}
    /\ destructor \in {"alive", "stopping", "joining", "closing", "draining", "gone"}
    /\ failed \in Frames \cup {NoFrame}
    /\ inferred \in Frames \cup {NoFrame}
    /\ handled \in Frames \cup {NoFrame}
    /\ published \in Nat

Init ==
    /\ offline \in BOOLEAN
    /\ enabled \in BOOLEAN
    /\ arrived = 0
    /\ Input!Init /\ Output!Init
    /\ inference = "taking" /\ inferring = NoFrame
    /\ processing = "taking" /\ handling = NoFrame
    /\ destructor = "alive"
    /\ failed = NoFrame /\ inferred = NoFrame /\ handled = NoFrame
    /\ published = 0

-----------------------------------------------------------------------------
(* The node's callbacks.  One executor thread runs them, and it is the     *)
(* thread that later runs the destructor.                                  *)

\* Faulty variant (mutation only): disabling does not gate the images.
ReceiveAlways ==
    /\ ~Stopping
    /\ ~offline
    /\ arrived < MaxFrames
    /\ arrived' = arrived + 1
    /\ Input!Push(arrived + 1)
    /\ UNCHANGED <<offline, enabled, output, inference, inferring, processing,
                   handling, destructor, record>>

\* receive_image(): an image that is accepted.  One nobody subscribes to, or
\* an incomplete one, changes nothing.
ReceiveImage ==
    /\ ~Stopping
    /\ ~offline /\ enabled
    /\ arrived < MaxFrames
    /\ arrived' = arrived + 1
    /\ Input!Push(arrived + 1)
    /\ UNCHANGED <<offline, enabled, output, inference, inferring, processing,
                   handling, destructor, record>>

\* /enable_detector: images already accepted go on through the pipeline.
EnableDetector ==
    /\ ~Stopping
    /\ enabled' \in BOOLEAN
    /\ published' = IF enabled' THEN 0 ELSE published
    /\ UNCHANGED <<offline, arrived, input, output, inference, inferring, processing,
                   handling, destructor, failed, inferred, handled>>

-----------------------------------------------------------------------------
(* The inference thread.                                                   *)

InferenceUnchanged ==
    UNCHANGED <<offline, enabled, processing, handling, destructor, handled,
                published>>

\* run_live_frames(): nothing to take yet.
AwaitFrame ==
    /\ ~offline /\ inference = "taking"
    /\ Input!Sleep
    /\ UNCHANGED <<arrived, output, inference, inferring, failed, inferred>>
    /\ InferenceUnchanged

\* run_live_frames(): an image is taken.
TakeFrame ==
    /\ ~offline /\ inference = "taking"
    /\ \E f \in Frames : Input!Pop(f) /\ inferring' = f
    /\ inference' = "taken"
    /\ UNCHANGED <<arrived, output, failed, inferred>>
    /\ InferenceUnchanged

\* The stop flag is read after the image was taken, not with it: an image
\* taken just before the stop is still worked on, one taken later is not.
LeaveOrInfer ==
    /\ inference = "taken"
    /\ \/ /\ Stopping
          /\ inference' = "closing" /\ inferring' = NoFrame
       \/ /\ ~Stopping
          /\ inference' = "inferring" /\ UNCHANGED inferring
    /\ UNCHANGED <<arrived, input, output, failed, inferred>>
    /\ InferenceUnchanged

\* run_live_frames(): the input queue is closed and drained.
EndOfFrames ==
    /\ ~offline /\ inference = "taking"
    /\ Input!Ended
    /\ inference' = "closing"
    /\ UNCHANGED <<arrived, output, inferring, failed, inferred>>
    /\ InferenceUnchanged

\* run_offline_images(): the next file, which may be unreadable.
ReadImage ==
    /\ offline /\ inference = "taking"
    /\ ~Stopping /\ arrived < MaxFrames
    /\ arrived' = arrived + 1
    /\ \/ inference' = "inferring" /\ inferring' = arrived' /\ UNCHANGED failed
       \/ failed' = arrived' /\ UNCHANGED <<inference, inferring>>
    /\ UNCHANGED <<input, output, inferred>>
    /\ InferenceUnchanged

\* run_offline_images(): no file is left, the node stops, or the directories
\* are not usable and no file is read at all.
EndOfImages ==
    /\ offline /\ inference = "taking"
    /\ Stopping \/ arrived \in {0, MaxFrames}
    /\ inference' = "closing"
    /\ UNCHANGED <<arrived, input, output, inferring, failed, inferred>>
    /\ InferenceUnchanged

\* run_inference(): the backend succeeds, or the image is given up.
Infer ==
    /\ inference = "inferring"
    /\ \/ /\ inferred' = inferring
          /\ inference' = "inferred"
          /\ UNCHANGED <<inferring, failed>>
       \/ /\ failed' = inferring
          /\ inference' = "taking" /\ inferring' = NoFrame
          /\ UNCHANGED inferred
    /\ UNCHANGED <<arrived, input, output>>
    /\ InferenceUnchanged

\* queue_inference_result()
HandOver ==
    /\ inference = "inferred"
    /\ Output!Push(inferring)
    /\ inference' = "taking" /\ inferring' = NoFrame
    /\ UNCHANGED <<arrived, input, failed, inferred>>
    /\ InferenceUnchanged

\* run_inference_stage(): no more results will come.
CloseOutput ==
    /\ inference = "closing"
    /\ Output!Close
    /\ inference' = "done"
    /\ UNCHANGED <<arrived, input, inferring, failed, inferred>>
    /\ InferenceUnchanged

Inference ==
    \/ AwaitFrame \/ TakeFrame \/ LeaveOrInfer \/ EndOfFrames
    \/ ReadImage \/ EndOfImages
    \/ Infer \/ HandOver \/ CloseOutput

-----------------------------------------------------------------------------
(* The processing thread.                                                  *)

ProcessingUnchanged ==
    UNCHANGED <<offline, enabled, arrived, input, inference, inferring,
                destructor, failed, inferred>>

AwaitResult ==
    /\ processing = "taking"
    /\ Output!Sleep
    /\ UNCHANGED <<processing, handling, handled, published>>
    /\ ProcessingUnchanged

TakeResult ==
    /\ processing = "taking"
    /\ \E f \in Frames : Output!Pop(f) /\ handling' = f
    /\ processing' = "handling"
    /\ UNCHANGED <<handled, published>>
    /\ ProcessingUnchanged

\* process_frame(): the detections are published, and offline the annotated
\* image is written; or an exception ends the frame.
ProcessFrame ==
    /\ processing = "handling"
    /\ \/ published' = IF enabled \/ offline THEN published ELSE published + 1
       \/ UNCHANGED published
    /\ handled' = handling
    /\ processing' = "taking" /\ handling' = NoFrame
    /\ UNCHANGED output
    /\ ProcessingUnchanged

EndOfResults ==
    /\ processing = "taking"
    /\ Output!Ended
    /\ processing' = "done"
    /\ UNCHANGED <<handling, handled, published>>
    /\ ProcessingUnchanged

Processing == AwaitResult \/ TakeResult \/ ProcessFrame \/ EndOfResults

-----------------------------------------------------------------------------
(* The destructor.                                                         *)

DestructorUnchanged ==
    UNCHANGED <<offline, enabled, arrived, inference, inferring, processing,
                handling, record>>

StopFlag ==
    /\ destructor = "alive"
    /\ destructor' = "stopping"
    /\ UNCHANGED <<input, output>>
    /\ DestructorUnchanged

CloseInput ==
    /\ destructor = "stopping"
    /\ Input!Close
    /\ destructor' = "joining"
    /\ UNCHANGED output
    /\ DestructorUnchanged

\* Faulty variant (mutation only): the output queue is closed while the
\* inference thread is still at work.
JoinNobody ==
    /\ destructor = "joining"
    /\ destructor' = "closing"
    /\ UNCHANGED <<input, output>>
    /\ DestructorUnchanged

JoinInference ==
    /\ destructor = "joining"
    /\ inference = "done"
    /\ destructor' = "closing"
    /\ UNCHANGED <<input, output>>
    /\ DestructorUnchanged

CloseOutputAgain ==
    /\ destructor = "closing"
    /\ Output!Close
    /\ destructor' = "draining"
    /\ UNCHANGED input
    /\ DestructorUnchanged

JoinProcessing ==
    /\ destructor = "draining"
    /\ processing = "done"
    /\ destructor' = "gone"
    /\ UNCHANGED <<input, output>>
    /\ DestructorUnchanged

Destruct ==
    \/ CloseInput \/ JoinInference \/ CloseOutputAgain \/ JoinProcessing

Next ==
    \/ ReceiveImage \/ EnableDetector
    \/ Inference \/ Processing
    \/ StopFlag \/ Destruct

Spec == Init /\ [][Next]_vars

\* The threads run, a backend call returns, and a destructor once entered is
\* executed.  Nobody promises images, commands, or a stop.
Fairness == WF_vars(Inference) /\ WF_vars(Processing) /\ WF_vars(Destruct)

FairSpec == Spec /\ Fairness

-----------------------------------------------------------------------------
(* Properties.                                                             *)

\* Turning the detector off only stops images from entering: what both queues
\* and both threads hold still comes out.  That is at most two full queues and
\* one image in each thread, so an observer of /ai_msg_det can rely on silence
\* after that many results (receive_image, BoundedQueue::push).
FewAfterDisable == published <= 2 * Capacity + 2

\* The newest image is never the one that is dropped: as long as no newer one
\* arrives it is handled, unless the backend fails on it or the node stops
\* (BoundedQueue::push drops the oldest and wakes the consumer).
NewestIsHandled ==
    \A f \in Frames :
        arrived = f ~> (arrived # f \/ handled = f \/ failed = f \/ Stopping)

\* The destructor returns, and then the last result the backend produced has
\* been handled: it is neither lost in the queue nor left behind for a backend
\* that no longer exists (~Implementation, "等待后处理排空").
StopDrains == Stopping ~> (destructor = "gone" /\ handled = inferred)
=============================================================================
