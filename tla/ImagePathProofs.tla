----------------------- MODULE ImagePathProofs ---------------------------
(***************************************************************************)
(* Proofs about the images' way through the robot.                         *)
(*                                                                         *)
(* The detector pipeline, for every queue capacity and every number of     *)
(* images: the state is well typed, so neither queue exceeds its capacity, *)
(* and only a bounded number of results is published after the detector    *)
(* was disabled.                                                           *)
(*                                                                         *)
(* The decoding and the encoding node, for every configured size, all      *)
(* sizes of arriving images and any number of results MPP may owe: the     *)
(* state is well typed, a picture keeps its header unless MPP withheld a   *)
(* result, and a failed set-up leaves nothing behind.                      *)
(***************************************************************************)
EXTENDS DetectorPipeline, ImageChain, TLAPS

\* Whether a thread holds an image.
Busy(f) == IF f = NoFrame THEN 0 ELSE 1

\* The images that are somewhere in the pipeline.
InFlight == Len(inQueue) + Len(outQueue) + Busy(inferring) + Busy(handling)

\* A thread holds an image exactly where its loop has one.
HoldsItsImage ==
    /\ inferring = NoFrame <=> inference \in {"taking", "closing", "done"}
    /\ handling = NoFrame <=> processing \in {"taking", "done"}

\* Nothing is counted while results are wanted; afterwards every published
\* result was in flight when the detector was disabled.
CountsDown ==
    /\ enabled \/ offline => published = 0
    /\ published + InFlight <= 2 * Capacity + 2

PipelineInv == TypeOK /\ HoldsItsImage /\ CountsDown

-----------------------------------------------------------------------------
(* The queue, for every kind of item and every capacity.                   *)

\* A push onto a queue within its capacity leaves it within its capacity and
\* no more than one item longer.
LEMMA JoinedFits ==
    ASSUME NEW Item, NEW q \in Seq(Item), Len(q) <= Capacity, NEW v \in Item
    PROVE  LET j == Append(IF Len(q) >= Capacity THEN Tail(q) ELSE q, v)
           IN  j \in Seq(Item) /\ Len(j) <= Capacity /\ Len(j) <= Len(q) + 1
<1> USE PipelineAssumption
<1>1. CASE Len(q) >= Capacity
  <2>1. q # <<>>
    BY <1>1
  <2>2. Tail(q) \in Seq(Item) /\ Len(Tail(q)) = Len(q) - 1
    BY <2>1
  <2> QED  BY <1>1, <2>2
<1>2. CASE ~(Len(q) >= Capacity)
  BY <1>2
<1> QED  BY <1>1, <1>2

\* Taking the oldest item leaves a queue that is one shorter.
LEMMA TailFits ==
    ASSUME NEW Item, NEW q \in Seq(Item), q # <<>>
    PROVE  Tail(q) \in Seq(Item) /\ Len(Tail(q)) = Len(q) - 1
OBVIOUS

\* push() on the input queue.
LEMMA InputPush ==
    ASSUME Input!QueueTypeOK(Frames), NEW v \in Frames, Input!Push(v)
    PROVE  Input!QueueTypeOK(Frames)' /\ Len(inQueue') <= Len(inQueue) + 1
<1>1. CASE inClosed /\ UNCHANGED <<inQueue, inClosed, inAsleep>>
  BY <1>1 DEF Input!QueueTypeOK
<1>2. CASE inQueue' = Input!Joined(v) /\ inAsleep' = FALSE /\ UNCHANGED inClosed
  BY <1>2, JoinedFits DEF Input!QueueTypeOK, Input!Joined
<1> QED  BY <1>1, <1>2 DEF Input!Push

\* push() on the output queue.
LEMMA OutputPush ==
    ASSUME Output!QueueTypeOK(Frames), NEW v \in Frames, Output!Push(v)
    PROVE  Output!QueueTypeOK(Frames)' /\ Len(outQueue') <= Len(outQueue) + 1
<1>1. CASE outClosed /\ UNCHANGED <<outQueue, outClosed, outAsleep>>
  BY <1>1 DEF Output!QueueTypeOK
<1>2. CASE outQueue' = Output!Joined(v) /\ outAsleep' = FALSE /\ UNCHANGED outClosed
  BY <1>2, JoinedFits DEF Output!QueueTypeOK, Output!Joined
<1> QED  BY <1>1, <1>2 DEF Output!Push

-----------------------------------------------------------------------------
(* The pipeline.                                                           *)

\* Init establishes the inductive invariant.
LEMMA PipelineStarts == Init => PipelineInv
<1> SUFFICES ASSUME Init PROVE PipelineInv
  OBVIOUS
<1> USE PipelineAssumption
<1>1. TypeOK
  <2>1. <<>> \in Seq(Frames) /\ Len(<<>>) = 0
    OBVIOUS
  <2>c. 0 <= Capacity
    OBVIOUS
  <2>q. inQueue = <<>> /\ outQueue = <<>>
    BY DEF Init, Input!Init, Output!Init
  <2>f. /\ inClosed \in BOOLEAN /\ inAsleep \in BOOLEAN
        /\ outClosed \in BOOLEAN /\ outAsleep \in BOOLEAN
    BY Zenon DEF Init, Input!Init, Output!Init
  <2>2. Input!QueueTypeOK(Frames)
    BY <2>1, <2>c, <2>q, <2>f DEF Input!QueueTypeOK
  <2>3. Output!QueueTypeOK(Frames)
    BY <2>1, <2>c, <2>q, <2>f DEF Output!QueueTypeOK
  <2>4. arrived \in 0 .. MaxFrames /\ published \in Nat
    BY DEF Init
  <2> QED  BY <2>1, <2>2, <2>3, <2>4 DEF Init, TypeOK
<1>2. HoldsItsImage
  BY DEF Init, HoldsItsImage, NoFrame
<1>3. CountsDown
  BY DEF Init, CountsDown, InFlight, Busy, NoFrame, Input!Init, Output!Init
<1> QED  BY <1>1, <1>2, <1>3 DEF PipelineInv

\* Every step of the program preserves it.
LEMMA PipelineSteps == PipelineInv /\ [Next]_vars => PipelineInv'
<1> SUFFICES ASSUME PipelineInv, [Next]_vars PROVE PipelineInv'
  OBVIOUS
<1> USE PipelineAssumption DEF PipelineInv, InferenceUnchanged, ProcessingUnchanged,
        DestructorUnchanged, input, output, record
<1>0. TypeOK /\ Input!QueueTypeOK(Frames) /\ Output!QueueTypeOK(Frames)
  BY DEF TypeOK
<1>bound. /\ Len(inQueue) \in Nat /\ Len(outQueue) \in Nat
          /\ Len(inQueue) <= Capacity /\ Len(outQueue) <= Capacity
          /\ published \in Nat
          /\ Busy(inferring) \in 0 .. 1 /\ Busy(handling) \in 0 .. 1
  BY <1>0 DEF Input!QueueTypeOK, Output!QueueTypeOK, TypeOK, Busy
<1>count. /\ published + InFlight <= 2 * Capacity + 2
          /\ published \in Nat /\ InFlight \in Nat /\ Capacity \in Nat
  BY <1>bound DEF CountsDown, InFlight
<1>1. CASE ReceiveImage
  <2>1. arrived + 1 \in Frames
    BY <1>1, <1>0 DEF ReceiveImage, TypeOK, Frames
  <2>2. Input!QueueTypeOK(Frames)' /\ Len(inQueue') <= Len(inQueue) + 1
    BY <1>1, <2>1, <1>0, InputPush DEF ReceiveImage
  <2>3. TypeOK'
    BY <1>1, <2>1, <2>2, <1>0 DEF ReceiveImage, TypeOK, Output!QueueTypeOK, Frames
  <2>4. HoldsItsImage'
    BY <1>1 DEF ReceiveImage, HoldsItsImage
  <2>5. published = 0 /\ published' = 0
    BY <1>1 DEF ReceiveImage, CountsDown
  <2>6. Len(inQueue') \in Nat /\ Len(inQueue') <= Capacity
    BY <2>2 DEF Input!QueueTypeOK
  <2>7. CountsDown'
    BY <1>1, <1>bound, <2>5, <2>6 DEF ReceiveImage, CountsDown, InFlight, Busy
  <2> QED  BY <2>3, <2>4, <2>7
<1>2. CASE EnableDetector
  <2>1. TypeOK'
    BY <1>2, <1>0 DEF EnableDetector, TypeOK, Input!QueueTypeOK, Output!QueueTypeOK
  <2>2. HoldsItsImage'
    BY <1>2 DEF EnableDetector, HoldsItsImage
  <2>3. UNCHANGED <<inQueue, outQueue, inferring, handling>>
    BY <1>2 DEF EnableDetector
  <2>4. published' \in Nat /\ published' <= published
    BY <1>2, <1>bound DEF EnableDetector
  <2>5. (enabled \/ offline => published = 0)'
    BY <1>2 DEF EnableDetector, CountsDown
  <2>6. published' + InFlight' <= 2 * Capacity + 2
    BY <1>bound, <1>count, <2>3, <2>4 DEF InFlight, Busy
  <2> QED  BY <2>1, <2>2, <2>5, <2>6 DEF CountsDown
<1>3. CASE AwaitFrame
  <2>1. TypeOK'
    BY <1>3 DEF AwaitFrame, Input!Sleep, TypeOK, Input!QueueTypeOK, Output!QueueTypeOK
  <2>2. HoldsItsImage'
    BY <1>3 DEF AwaitFrame, Input!Sleep, HoldsItsImage
  <2>3. CountsDown'
    BY <1>3 DEF AwaitFrame, Input!Sleep, CountsDown, InFlight, Busy
  <2> QED  BY <2>1, <2>2, <2>3
<1>4. CASE TakeFrame
  <2>1. PICK f \in Frames : Input!Pop(f) /\ inferring' = f
    BY <1>4 DEF TakeFrame
  <2>2. inQueue' \in Seq(Frames) /\ Len(inQueue') = Len(inQueue) - 1
    BY <2>1, <1>0, TailFits DEF Input!Pop, Input!QueueTypeOK
  <2>3. Input!QueueTypeOK(Frames)'
    BY <2>1, <2>2, <1>0, <1>bound DEF Input!Pop, Input!QueueTypeOK
  <2>4. TypeOK'
    BY <1>4, <2>1, <2>3, <1>0 DEF TakeFrame, TypeOK, Output!QueueTypeOK
  <2>5. inferring' # NoFrame /\ inferring = NoFrame
    BY <1>4, <2>1 DEF TakeFrame, HoldsItsImage, Frames, NoFrame
  <2>6. HoldsItsImage'
    BY <1>4, <2>5 DEF TakeFrame, HoldsItsImage
  <2>7. CountsDown'
    BY <1>4, <1>bound, <2>2, <2>5 DEF TakeFrame, CountsDown, InFlight, Busy
  <2> QED  BY <2>4, <2>6, <2>7
<1>5. CASE LeaveOrInfer
  <2>1. TypeOK'
    BY <1>5 DEF LeaveOrInfer, TypeOK, Input!QueueTypeOK, Output!QueueTypeOK
  <2>2. HoldsItsImage'
    BY <1>5 DEF LeaveOrInfer, HoldsItsImage
  <2>3. CountsDown'
    BY <1>5, <1>bound DEF LeaveOrInfer, CountsDown, InFlight, Busy
  <2> QED  BY <2>1, <2>2, <2>3
<1>6. CASE EndOfFrames
  <2>1. TypeOK'
    BY <1>6 DEF EndOfFrames, Input!Ended, TypeOK, Input!QueueTypeOK, Output!QueueTypeOK
  <2>2. HoldsItsImage'
    BY <1>6 DEF EndOfFrames, Input!Ended, HoldsItsImage
  <2>3. CountsDown'
    BY <1>6 DEF EndOfFrames, Input!Ended, CountsDown, InFlight, Busy
  <2> QED  BY <2>1, <2>2, <2>3
<1>7. CASE ReadImage
  <2>1. arrived' \in Frames /\ arrived' # NoFrame
    BY <1>7, <1>0 DEF ReadImage, TypeOK, Frames, NoFrame
  <2>2. TypeOK'
    BY <1>7, <2>1 DEF ReadImage, TypeOK, Input!QueueTypeOK, Output!QueueTypeOK, Frames
  <2>3. HoldsItsImage'
    BY <1>7, <2>1 DEF ReadImage, HoldsItsImage
  <2>4. published' = 0 /\ offline'
    BY <1>7 DEF ReadImage, CountsDown
  <2>5. Busy(inferring') \in 0 .. 1 /\ Busy(handling') \in 0 .. 1
    BY DEF Busy
  <2>6. CountsDown'
    BY <1>7, <1>bound, <2>4, <2>5 DEF ReadImage, CountsDown, InFlight, Busy
  <2> QED  BY <2>2, <2>3, <2>6
<1>8. CASE EndOfImages
  <2>1. TypeOK'
    BY <1>8 DEF EndOfImages, TypeOK, Input!QueueTypeOK, Output!QueueTypeOK
  <2>2. HoldsItsImage'
    BY <1>8 DEF EndOfImages, HoldsItsImage
  <2>3. CountsDown'
    BY <1>8 DEF EndOfImages, CountsDown, InFlight, Busy
  <2> QED  BY <2>1, <2>2, <2>3
<1>9. CASE Infer
  <2>1. TypeOK'
    BY <1>9 DEF Infer, TypeOK, Input!QueueTypeOK, Output!QueueTypeOK
  <2>2. HoldsItsImage'
    BY <1>9 DEF Infer, HoldsItsImage
  <2>3. CountsDown'
    BY <1>9, <1>bound DEF Infer, CountsDown, InFlight, Busy
  <2> QED  BY <2>1, <2>2, <2>3
<1>10. CASE HandOver
  <2>1. inferring \in Frames
    BY <1>10, <1>0 DEF HandOver, TypeOK, HoldsItsImage
  <2>2. Output!QueueTypeOK(Frames)' /\ Len(outQueue') <= Len(outQueue) + 1
    BY <1>10, <2>1, <1>0, OutputPush DEF HandOver
  <2>3. TypeOK'
    BY <1>10, <2>2, <1>0 DEF HandOver, TypeOK, Input!QueueTypeOK
  <2>4. HoldsItsImage'
    BY <1>10 DEF HandOver, HoldsItsImage
  <2>5. Len(outQueue') \in Nat
    BY <2>2 DEF Output!QueueTypeOK
  <2>6. Busy(inferring) = 1 /\ Busy(inferring') = 0
    BY <1>10, <2>1 DEF HandOver, Busy, Frames, NoFrame
  <2>7. CountsDown'
    BY <1>10, <1>bound, <2>2, <2>5, <2>6 DEF HandOver, CountsDown, InFlight, Busy
  <2> QED  BY <2>3, <2>4, <2>7
<1>11. CASE CloseOutput
  <2>c. outClosed' = TRUE /\ outAsleep' = FALSE /\ outQueue' = outQueue
    BY <1>11 DEF CloseOutput, Output!Close
  <2>q. Output!QueueTypeOK(Frames)'
    BY <2>c, <1>0 DEF Output!QueueTypeOK
  <2>1. TypeOK'
    BY <1>11, <2>q, <1>0 DEF CloseOutput, TypeOK, Input!QueueTypeOK
  <2>2. HoldsItsImage'
    BY <1>11 DEF CloseOutput, Output!Close, HoldsItsImage
  <2>3. CountsDown'
    BY <1>11 DEF CloseOutput, Output!Close, CountsDown, InFlight, Busy
  <2> QED  BY <2>1, <2>2, <2>3
<1>12. CASE AwaitResult
  <2>1. TypeOK'
    BY <1>12 DEF AwaitResult, Output!Sleep, TypeOK, Input!QueueTypeOK, Output!QueueTypeOK
  <2>2. HoldsItsImage'
    BY <1>12 DEF AwaitResult, Output!Sleep, HoldsItsImage
  <2>3. CountsDown'
    BY <1>12 DEF AwaitResult, Output!Sleep, CountsDown, InFlight, Busy
  <2> QED  BY <2>1, <2>2, <2>3
<1>13. CASE TakeResult
  <2>1. PICK f \in Frames : Output!Pop(f) /\ handling' = f
    BY <1>13 DEF TakeResult
  <2>2. outQueue' \in Seq(Frames) /\ Len(outQueue') = Len(outQueue) - 1
    BY <2>1, <1>0, TailFits DEF Output!Pop, Output!QueueTypeOK
  <2>3. Output!QueueTypeOK(Frames)'
    BY <2>1, <2>2, <1>0, <1>bound DEF Output!Pop, Output!QueueTypeOK
  <2>4. TypeOK'
    BY <1>13, <2>1, <2>3, <1>0 DEF TakeResult, TypeOK, Input!QueueTypeOK
  <2>5. handling' # NoFrame /\ handling = NoFrame
    BY <1>13, <2>1 DEF TakeResult, HoldsItsImage, Frames, NoFrame
  <2>6. HoldsItsImage'
    BY <1>13, <2>5 DEF TakeResult, HoldsItsImage
  <2>7. CountsDown'
    BY <1>13, <1>bound, <2>2, <2>5 DEF TakeResult, CountsDown, InFlight, Busy
  <2> QED  BY <2>4, <2>6, <2>7
<1>14. CASE ProcessFrame
  <2>1. handling \in Frames /\ handling # NoFrame
    BY <1>14, <1>0 DEF ProcessFrame, TypeOK, HoldsItsImage
  <2>2. published' \in Nat /\ published' <= published + 1
    BY <1>14, <1>bound DEF ProcessFrame
  <2>4. TypeOK'
    BY <1>14, <2>1, <2>2, <1>0
       DEF ProcessFrame, TypeOK, Input!QueueTypeOK, Output!QueueTypeOK
  <2>5. HoldsItsImage'
    BY <1>14 DEF ProcessFrame, HoldsItsImage
  <2>6. Busy(handling) = 1 /\ Busy(handling') = 0
    BY <1>14, <2>1 DEF ProcessFrame, Busy
  <2>7. (enabled \/ offline => published = 0)'
    BY <1>14 DEF ProcessFrame, CountsDown
  <2>8. UNCHANGED <<inQueue, outQueue, inferring>>
    BY <1>14 DEF ProcessFrame
  <2>9. published' + InFlight' <= 2 * Capacity + 2
    BY <1>bound, <1>count, <2>2, <2>6, <2>8 DEF InFlight, Busy
  <2> QED  BY <2>4, <2>5, <2>7, <2>9 DEF CountsDown
<1>15. CASE EndOfResults
  <2>1. TypeOK'
    BY <1>15 DEF EndOfResults, Output!Ended, TypeOK, Input!QueueTypeOK, Output!QueueTypeOK
  <2>2. HoldsItsImage'
    BY <1>15 DEF EndOfResults, Output!Ended, HoldsItsImage
  <2>3. CountsDown'
    BY <1>15 DEF EndOfResults, Output!Ended, CountsDown, InFlight, Busy
  <2> QED  BY <2>1, <2>2, <2>3
<1>16. CASE StopFlag \/ Destruct
  <2>1. UNCHANGED <<offline, enabled, arrived, inQueue, outQueue, inference,
                    inferring, processing, handling, record>>
    BY <1>16 DEF StopFlag, Destruct, CloseInput, JoinInference, JoinProcessing,
                 CloseOutputAgain, Input!Close, Output!Close
  <2>2. /\ inClosed' \in BOOLEAN /\ inAsleep' \in BOOLEAN
        /\ outClosed' \in BOOLEAN /\ outAsleep' \in BOOLEAN
    BY <1>16, <1>0
       DEF StopFlag, Destruct, CloseInput, JoinInference, JoinProcessing,
           CloseOutputAgain, Input!Close, Output!Close, Input!QueueTypeOK,
           Output!QueueTypeOK
  <2>3. destructor' \in {"alive", "stopping", "joining", "closing", "draining", "gone"}
    BY <1>16 DEF StopFlag, Destruct, CloseInput, JoinInference, JoinProcessing,
                 CloseOutputAgain
  <2>4. TypeOK'
    BY <2>1, <2>2, <2>3, <1>0 DEF TypeOK, Input!QueueTypeOK, Output!QueueTypeOK
  <2>5. HoldsItsImage' /\ CountsDown'
    BY <2>1 DEF HoldsItsImage, CountsDown, InFlight, Busy
  <2> QED  BY <2>4, <2>5
<1>17. CASE UNCHANGED vars
  BY <1>17 DEF vars, TypeOK, Input!QueueTypeOK, Output!QueueTypeOK,
               HoldsItsImage, CountsDown, InFlight, Busy
<1> QED
  BY <1>1, <1>2, <1>3, <1>4, <1>5, <1>6, <1>7, <1>8, <1>9, <1>10, <1>11,
     <1>12, <1>13, <1>14, <1>15, <1>16, <1>17 DEF Next, Inference, Processing

\* The inductive invariant holds in every reachable state.
THEOREM PipelineInvariance == Spec => []PipelineInv
BY PipelineStarts, PipelineSteps, PTL DEF Spec

\* Type correctness, the capacity of both queues included: no burst of images
\* makes a queue of the pipeline grow beyond kQueueCapacity.
THEOREM TypeCorrect == Spec => []TypeOK
<1>1. PipelineInv => TypeOK
  BY DEF PipelineInv
<1> QED  BY <1>1, PipelineInvariance, PTL

\* After the detector is disabled at most 2 * Capacity + 2 results are still
\* published, whatever the capacity and however many images were accepted.
THEOREM DisableIsBounded == Spec => []FewAfterDisable
<1>1. PipelineInv => FewAfterDisable
  <2> SUFFICES ASSUME PipelineInv PROVE FewAfterDisable
    OBVIOUS
  <2>1. InFlight \in Nat /\ published \in Nat
    BY DEF PipelineInv, TypeOK, InFlight, Busy, Input!QueueTypeOK, Output!QueueTypeOK
  <2> QED  BY <2>1, PipelineAssumption DEF PipelineInv, CountsDown, FewAfterDisable
<1> QED  BY <1>1, PipelineInvariance, PTL

-----------------------------------------------------------------------------
(* The decoding and the encoding node.                                     *)

\* Every picture that left the decoding node is its header's, unless MPP owes
\* a result; behind the encoding node, unless either of them is late.
OwnUnlessLate ==
    /\ inbox.own
    /\ image.own \/ behind > 0
    /\ raw.own \/ behind > 0
    /\ jpeg.own \/ behind > 0 \/ owed # <<>>

ChainInv == ChainTypeOK /\ SetUpOrNothing /\ OwnUnlessLate /\ WithinMaximum

\* An image within the configured size keeps a positive size that is no larger.
LEMMA ScaledFits ==
    ASSUME NEW size \in 1 .. MaxSize
    PROVE  Scaled(size) \in 1 .. MaxSize
BY DecoderAssumption DEF Scaled

\* Whatever was acquired before the call that failed, release() takes it all
\* back.
LEMMA ReleaseTakesAll ==
    ASSUME NEW held, held \subseteq Objects
    PROVE  Release(held) = {}
<1>1. DOMAIN Calls = 1 .. 11
  BY DEF Calls
<1>2. ASSUME NEW i \in 1 .. 11
      PROVE  Calls[i] \in {"packet", "frame", "context", "packet buffer", "frame buffer",
                          "packet group", "frame group", ""}
  <2>1. i \in {1, 2, 3, 4, 5, 6, 7, 8, 9, 10, 11}
    OBVIOUS
  <2>2. /\ Calls[1] = "context" /\ Calls[2] = "" /\ Calls[3] = "" /\ Calls[4] = ""
        /\ Calls[5] = "frame group" /\ Calls[6] = "packet group" /\ Calls[7] = "frame"
        /\ Calls[8] = "frame buffer" /\ Calls[9] = "packet buffer"
        /\ Calls[10] = "packet" /\ Calls[11] = ""
    BY DEF Calls
  <2> QED  BY <2>1, <2>2
<1> QED  BY <1>1, <1>2 DEF Release, Objects

\* An image has a size.
LEMMA SizesAreNumbers ==
    ASSUME NEW i \in Images
    PROVE  i.size \in Nat
<1>1. PICK size \in Sizes \cup 1 .. MaxSize : size = i.size
  BY DEF Images
<1>2. CASE size \in Sizes
  BY <1>1, <1>2, DecoderAssumption
<1>3. CASE size \in 1 .. MaxSize
  BY <1>1, <1>3, DecoderAssumption
<1> QED  BY <1>1, <1>2, <1>3

\* Init establishes the inductive invariant.
LEMMA ChainStarts == ChainInit => ChainInv
<1> SUFFICES ASSUME ChainInit PROVE ChainInv
  OBVIOUS
<1> USE DecoderAssumption
        DEF ChainInit, DecoderInit, Encoder!EncoderInit
<1>1. ChainTypeOK
  <2>1. watched \in BOOLEAN
    BY Zenon
  <2>2. DecoderTypeOK
    <3>1. subscribed \in BOOLEAN
      BY Zenon
    <3> QED  BY <3>1 DEF DecoderTypeOK
  <2>3. Encoder!EncoderTypeOK
    BY DEF Encoder!EncoderTypeOK
  <2> QED  BY <2>1, <2>2, <2>3 DEF ChainTypeOK
<1>2. SetUpOrNothing
  BY DEF SetUpOrNothing
<1>3. OwnUnlessLate /\ WithinMaximum
  BY DEF OwnUnlessLate, WithinMaximum, Nothing
<1> QED  BY <1>1, <1>2, <1>3 DEF ChainInv

\* What resize_frame() makes of a frame: the buffers keep sizes within the
\* maximum, and the picture comes out or none does.
LEMMA ResizeKeeps ==
    ASSUME DecoderTypeOK, NEW size \in 1 .. MaxSize,
           NEW picture \in Images \cup {Nothing}, Resize(size, picture)
    PROVE  /\ source' \in 0 .. MaxSize /\ destination' \in 0 .. MaxSize
           /\ process' \in {process, "dead"}
           /\ image' \in {Nothing, picture}
<1> USE DecoderAssumption DEF DecoderTypeOK
<1>1. Scaled(size) \in 1 .. MaxSize
  BY ScaledFits
<1> QED  BY <1>1 DEF Resize, Fails, NewBuffers

\* The decoding node's callback: what it publishes is an image of the right
\* kind, and not its header's picture only while MPP owes a result.
LEMMA DecodeKeeps ==
    ASSUME DecoderTypeOK, inbox.own, Decode
    PROVE  /\ DecoderTypeOK'
           /\ process' \in {"spinning", "blocked", "dead"} /\ objects' = objects
           /\ inbox' = Nothing /\ behind' >= behind
           /\ image'.size <= MaxSize
           /\ image'.own \/ behind' > 0
<1> USE DecoderAssumption
<1> DEFINE Outcome ==
      /\ source' \in 0 .. MaxSize /\ destination' \in 0 .. MaxSize
      /\ process' \in {"spinning", "blocked", "dead"}
      /\ slots' \in 0 .. Tasks
      /\ behind' \in 0 .. MaxBehind /\ behind' >= behind
      /\ image' \in Images \cup {Nothing} /\ image'.size <= MaxSize
      /\ image'.own \/ behind' > 0
<1>0. /\ process = "spinning" /\ inbox' = Nothing
      /\ objects' = objects /\ subscribed' = subscribed
      /\ count' = (count + 1) % Divider
  BY DEF Decode
<1>1. count' \in 0 .. Divider - 1
  BY <1>0 DEF DecoderTypeOK
<1>2. ASSUME Fails \/ Hangs,
             \/ UNCHANGED <<slots, behind>>
             \/ slots > 0 /\ slots' = slots - 1 /\ behind' = behind
             \/ behind < MaxBehind /\ behind' = behind + 1 /\ slots' = slots
      PROVE  Outcome
  BY <1>0, <1>2 DEF Fails, Hangs, DecoderTypeOK, Nothing
<1>3. ASSUME NEW picture \in Images \cup {Nothing}, Resize(inbox.size, picture),
             picture.own \/ behind > 0, inbox.size \in 1 .. MaxSize,
             picture.size <= MaxSize,
             \/ UNCHANGED <<slots, behind>>
             \/ slots > 0 /\ slots' = slots - 1 /\ behind' = behind
      PROVE  Outcome
  <2>1. /\ source' \in 0 .. MaxSize /\ destination' \in 0 .. MaxSize
        /\ process' \in {process, "dead"}
        /\ image' \in {Nothing, picture}
    BY <1>3, ResizeKeeps
  <2>2. image' \in Images \cup {Nothing} /\ image'.size <= MaxSize
    BY <2>1, <1>3 DEF Nothing
  <2>3. image'.own \/ behind' > 0
    BY <2>1, <1>3 DEF Nothing
  <2> QED  BY <2>1, <2>2, <2>3, <1>0, <1>3 DEF DecoderTypeOK
<1>4. SUFFICES Outcome
  BY <1>0, <1>1 DEF DecoderTypeOK
<1> HIDE DEF Outcome
<1>5. CASE Fails /\ UNCHANGED <<slots, behind>>
  BY <1>5, <1>2
<1>6. CASE inbox.size # 0 /\ slots > 0 /\ Submit(inbox)
  <2>1. inbox \in Images
    BY DEF Decode, DecoderTypeOK
  <2>2. inbox.size \in Nat \ {0}
    <3>1. inbox.size \in Nat
      BY <2>1, SizesAreNumbers
    <3> QED  BY <3>1, <1>6
  <2>3. CASE \/ Fails /\ UNCHANGED <<slots, behind>>
             \/ Fails /\ slots' = slots - 1 /\ UNCHANGED behind
             \/ Fails /\ behind < MaxBehind /\ behind' = behind + 1 /\ UNCHANGED slots
             \/ Hangs /\ UNCHANGED <<slots, behind>>
    BY <2>3, <1>2, <1>6
  <2>4. ASSUME NEW picture, Resize(inbox.size, picture), inbox.size > MaxSize,
               \/ UNCHANGED <<slots, behind>>
               \/ slots > 0 /\ slots' = slots - 1 /\ behind' = behind
        PROVE  Outcome
    BY <2>2, <2>4, <1>2 DEF Resize
  <2>5. ASSUME NEW own \in {inbox.own} \cup (IF behind > 0 THEN {FALSE} ELSE {}),
               Resize(inbox.size, [own |-> own, size |-> Scaled(inbox.size)]),
               UNCHANGED <<slots, behind>>
        PROVE  Outcome
    <3>1. CASE inbox.size <= MaxSize
      <4>1. Scaled(inbox.size) \in 1 .. MaxSize /\ inbox.size \in 1 .. MaxSize
        BY <3>1, <2>2, ScaledFits
      <4>2. own \in BOOLEAN
        <5>1. inbox.own \in BOOLEAN
          BY <2>1, Zenon DEF Images
        <5> QED  BY <5>1, <2>5, Zenon
      <4>3. own \/ behind > 0
        BY <2>5
      <4> DEFINE picture == [own |-> own, size |-> Scaled(inbox.size)]
      <4>4. /\ picture \in Images \cup {Nothing} /\ picture.size <= MaxSize
            /\ picture.own = own
        BY <4>1, <4>2 DEF Images
      <4>5. Resize(inbox.size, picture)
        BY <2>5
      <4>6. picture.own \/ behind > 0
        BY <4>3, <4>4
      <4> HIDE DEF picture
      <4> QED  BY <4>1, <4>4, <4>5, <4>6, <2>5, <1>3
    <3>2. CASE inbox.size > MaxSize
      BY <3>2, <2>4, <2>5
    <3> QED  BY <3>1, <3>2, <2>2
  <2>6. CASE Resize(inbox.size, Nothing) /\ slots' = slots - 1 /\ UNCHANGED behind
    <3>1. Nothing.own /\ Nothing.size <= MaxSize
      BY DEF Nothing
    <3>2. CASE inbox.size <= MaxSize
      <4>1. inbox.size \in 1 .. MaxSize
        BY <3>2, <2>2
      <4> QED  BY <4>1, <3>1, <2>6, <1>6, <1>3
    <3>3. CASE inbox.size > MaxSize
      BY <3>3, <2>4, <2>6, <1>6
    <3> QED  BY <3>2, <3>3, <2>2
  <2> QED  BY <2>3, <2>5, <2>6, <1>6 DEF Submit
<1>7. CASE Hangs /\ UNCHANGED <<slots, behind>>
  BY <1>7, <1>2
<1> QED  BY <1>5, <1>6, <1>7 DEF Decode, DecoderTypeOK

\* One packet in, one packet out.
LEMMA OneInOneOut ==
    ASSUME NEW Packet, NEW q \in Seq(Packet), NEW e \in Packet
    PROVE  LET all == Append(q, e)
           IN  /\ all \in Seq(Packet) /\ Len(all) = Len(q) + 1
               /\ Tail(all) \in Seq(Packet) /\ Len(Tail(all)) = Len(q)
               /\ Head(all) \in Packet
               /\ Len(all) = 1 \/ Tail(all) # <<>>
<1>1. Append(q, e) \in Seq(Packet) /\ Len(Append(q, e)) = Len(q) + 1
  OBVIOUS
<1>2. Append(q, e) # <<>>
  <2>1. Len(q) \in Nat /\ Len(<<>>) = 0
    OBVIOUS
  <2> QED  BY <1>1, <2>1
<1> QED  BY <1>1, <1>2

\* The encoding node's callback: the back end is set up completely or not at
\* all, and a picture is its header's unless MPP still owes one or the image
\* it was made of was late itself.
LEMMA EncodeKeeps ==
    ASSUME Encoder!EncoderTypeOK, parts \in {{}, Encoder!Parts}, surface # 0 <=> parts # {},
           Encoder!Encode
    PROVE  /\ Encoder!EncoderTypeOK' /\ parts' \in {{}, Encoder!Parts}
           /\ surface' # 0 <=> parts' # {}
           /\ surface' \in {0, surface, raw.size}
           /\ raw' = Nothing
           /\ jpeg'.own \/ ~raw.own \/ owed' # <<>>
<1> USE DecoderAssumption
<1>0. raw \in Images /\ raw' = Nothing
  BY DEF Encoder!Encode, Encoder!EncoderTypeOK
<1>1. CASE jpeg' = Nothing /\ UNCHANGED <<parts, surface, owed>>
  BY <1>0, <1>1 DEF Encoder!EncoderTypeOK, Nothing
<1>2. CASE raw.size > 0 /\ \E b \in Encoder!Prepare(raw.size) :
                /\ parts' = b.parts /\ surface' = b.surface
                /\ IF "context" \notin b.parts
                   THEN owed' = b.owed /\ jpeg' = Nothing
                   ELSE Encoder!EncodeFrame(b, raw)
  <2>1. PICK b \in Encoder!Prepare(raw.size) :
                /\ parts' = b.parts /\ surface' = b.surface
                /\ IF "context" \notin b.parts
                   THEN owed' = b.owed /\ jpeg' = Nothing
                   ELSE Encoder!EncodeFrame(b, raw)
    BY <1>2
  <2> DEFINE SetUp(c) ==
        /\ c.parts = Encoder!Parts /\ c.surface = raw.size
        /\ c.owed \in Seq(Encoder!Packets) /\ Len(c.owed) <= MaxBehind
  <2>2. /\ raw.size # 0
        /\ raw.size \in {i.size : i \in Images} \cup {0}
        /\ "context" \in Encoder!Parts
    BY <1>0, <1>2 DEF Encoder!Parts
  <2>3. \/ b = Encoder!Released
        \/ SetUp(b)
    <3>1. CASE b \in Encoder!Initialize(raw.size)
      <4>1. CASE b = Encoder!SetUpFor(raw.size)
        BY <4>1 DEF Encoder!SetUpFor
      <4>2. ASSUME NEW k \in DOMAIN Encoder!SetUpCalls,
                   b = [Encoder!Released EXCEPT
                          !.parts = ({Encoder!SetUpCalls[i] : i \in 1 .. k - 1} \ {""}) \ Encoder!Parts]
            PROVE  b = Encoder!Released
        <5>1. k \in 1 .. 6
          BY DEF Encoder!SetUpCalls
        <5>2. \A i \in 1 .. k - 1 : Encoder!SetUpCalls[i] \in Encoder!Parts \cup {""}
          <6> SUFFICES ASSUME NEW i \in 1 .. k - 1
                       PROVE  Encoder!SetUpCalls[i] \in Encoder!Parts \cup {""}
            OBVIOUS
          <6>1. i \in {1, 2, 3, 4, 5, 6}
            BY <5>1
          <6>2. /\ Encoder!SetUpCalls[1] = "buffer" /\ Encoder!SetUpCalls[2] = "context"
                /\ Encoder!SetUpCalls[3] = "" /\ Encoder!SetUpCalls[4] = ""
                /\ Encoder!SetUpCalls[5] = "" /\ Encoder!SetUpCalls[6] = "frame"
            BY DEF Encoder!SetUpCalls
          <6> QED  BY <6>1, <6>2 DEF Encoder!Parts
        <5>3. ({Encoder!SetUpCalls[i] : i \in 1 .. k - 1} \ {""}) \ Encoder!Parts = {}
          BY <5>2
        <5> QED  BY <4>2, <5>3 DEF Encoder!Released
      <4> QED  BY <3>1, <4>1, <4>2 DEF Encoder!Initialize
    <3>2. CASE /\ "context" \in parts /\ surface = raw.size
               /\ b = Encoder!Current
      <4>1. parts = Encoder!Parts
        BY <3>2
      <4> QED  BY <3>2, <4>1 DEF Encoder!Current, Encoder!EncoderTypeOK
    <3> QED  BY <3>1, <3>2 DEF Encoder!Prepare
  <2>4. CASE b = Encoder!Released
    <3>1. parts' = {} /\ surface' = 0 /\ owed' = <<>> /\ jpeg' = Nothing
      BY <2>1, <2>4 DEF Encoder!Released
    <3> QED  BY <3>1, <1>0 DEF Encoder!EncoderTypeOK, Nothing
  <2>5. CASE SetUp(b)
    <3>1. /\ parts' = Encoder!Parts /\ surface' = raw.size
          /\ Encoder!EncodeFrame(b, raw)
      BY <2>1, <2>2, <2>5
    <3>2. PICK e : e = [image |-> raw, surface |-> b.surface]
      OBVIOUS
    <3>3. PICK all : all = Append(b.owed, e)
      OBVIOUS
    <3>4. e \in Encoder!Packets
      <4>1. raw.size \in Int
        BY <1>0, SizesAreNumbers
      <4> QED  BY <3>2, <4>1, <1>0, <2>5 DEF Encoder!Packets
    <3>5. /\ all \in Seq(Encoder!Packets) /\ Len(all) = Len(b.owed) + 1
          /\ Tail(all) \in Seq(Encoder!Packets) /\ Len(Tail(all)) = Len(b.owed)
          /\ Head(all) \in Encoder!Packets
          /\ Len(all) = 1 \/ Tail(all) # <<>>
      BY <3>3, <3>4, <2>5, OneInOneOut
    <3>a. PICK own : own = (raw.own /\ Len(all) = 1 /\ b.surface = raw.size)
      OBVIOUS
    <3>b. own \in BOOLEAN
      BY <3>a, Zenon
    <3>c. own \/ ~raw.own \/ Len(all) # 1
      BY <3>a, <2>5
    <3>6. \/ owed' = b.owed /\ jpeg' = Nothing
          \/ Len(all) <= MaxBehind /\ owed' = all /\ jpeg' = Nothing
          \/ owed' = Tail(all) /\ jpeg' = Nothing
          \/ owed' = Tail(all) /\ jpeg' = [own |-> own, size |-> Head(all).image.size]
      BY <3>1, <3>2, <3>3, <3>a DEF Encoder!EncodeFrame
    <3>7. owed' \in Seq(Encoder!Packets) /\ Len(owed') <= MaxBehind
      BY <3>5, <3>6, <2>5
    <3>8. jpeg' \in Images \cup {Nothing}
      <4>1. Head(all).image.size \in Sizes \cup 1 .. MaxSize
        BY <3>5 DEF Encoder!Packets, Images
      <4> QED  BY <4>1, <3>6, <3>b DEF Images
    <3>9. jpeg'.own \/ ~raw.own \/ owed' # <<>>
      BY <3>5, <3>6, <3>c DEF Nothing
    <3> QED
      BY <3>1, <3>7, <3>8, <3>9, <1>0, <2>2 DEF Encoder!EncoderTypeOK
  <2> QED  BY <2>3, <2>4, <2>5
<1> QED  BY <1>1, <1>2 DEF Encoder!Encode, Encoder!WellFormed

\* Every step of the two nodes and their surroundings preserves the inductive
\* invariant.
LEMMA ChainSteps == ChainInv /\ [ChainNext]_chainVars => ChainInv'
<1> SUFFICES ASSUME ChainInv, [ChainNext]_chainVars PROVE ChainInv'
  OBVIOUS
<1> USE DecoderAssumption DEF ChainInv, encoder
<1>1. CASE Construct /\ UNCHANGED <<watched, encoder>>
  <2>1. /\ process' \in {"spinning", "dead"} /\ objects' \in {{}, Objects}
        /\ process' = "spinning" => objects' = Objects
    <3>1. ASSUME NEW failing \in DOMAIN Calls,
                 objects' = Release({Calls[i] : i \in 1 .. failing - 1} \ {""})
          PROVE  objects' = {}
      <4>1. {Calls[i] : i \in 1 .. failing - 1} \ {""} \subseteq Objects
        <5>1. DOMAIN Calls = 1 .. 11
          BY DEF Calls
        <5>2. 1 .. failing - 1 \subseteq DOMAIN Calls
          BY <5>1
        <5> QED  BY <5>2 DEF Objects
      <4> QED  BY <3>1, <4>1, ReleaseTakesAll
    <3> QED  BY <1>1, <3>1 DEF Construct
  <2>2. subscribed' \in BOOLEAN
    <3>1. subscribed' \in {~Lazy, subscribed}
      BY <1>1 DEF Construct
    <3>2. subscribed \in BOOLEAN
      BY DEF ChainTypeOK, DecoderTypeOK
    <3> QED  BY <3>1, <3>2, Zenon
  <2>3. /\ UNCHANGED <<source, destination, slots, behind, count, inbox, image>>
        /\ UNCHANGED <<watched, parts, surface, owed, raw, jpeg>>
    BY <1>1 DEF Construct
  <2>4. ChainTypeOK'
    <3>1. DecoderTypeOK'
      BY <2>1, <2>2, <2>3 DEF ChainTypeOK, DecoderTypeOK
    <3> QED  BY <2>3, <3>1 DEF ChainTypeOK, Encoder!EncoderTypeOK
  <2>5. SetUpOrNothing'
    BY <2>1, <2>3 DEF SetUpOrNothing
  <2> QED  BY <2>3, <2>4, <2>5 DEF OwnUnlessLate, WithinMaximum
<1>2. CASE CameraPublishes
  <2>1. inbox'.own /\ inbox' \in Images
    BY <1>2 DEF CameraPublishes, Images
  <2>2. UNCHANGED <<process, objects, source, destination, slots, behind, subscribed,
                    count, image, watched, parts, surface, owed, raw, jpeg>>
    BY <1>2 DEF CameraPublishes
  <2>3. ChainTypeOK'
    BY <2>1, <2>2 DEF ChainTypeOK, DecoderTypeOK, Encoder!EncoderTypeOK
  <2> QED
    BY <2>1, <2>2, <2>3 DEF SetUpOrNothing, OwnUnlessLate, WithinMaximum
<1>3. CASE DecodeImage
  <2>1. /\ DecoderTypeOK'
        /\ process' \in {"spinning", "blocked", "dead"} /\ objects' = objects
        /\ inbox' = Nothing /\ behind' >= behind
        /\ image'.size <= MaxSize
        /\ image'.own \/ behind' > 0
    BY <1>3, DecodeKeeps DEF DecodeImage, ChainTypeOK, OwnUnlessLate
  <2>2. UNCHANGED <<watched, parts, surface, owed, jpeg>> /\ process = "spinning"
    BY <1>3 DEF DecodeImage, Decode
  <2>3. raw' \in {raw, image'}
    BY <1>3 DEF DecodeImage
  <2>4. ChainTypeOK'
    BY <2>1, <2>2, <2>3 DEF ChainTypeOK, DecoderTypeOK, Encoder!EncoderTypeOK
  <2>5. SetUpOrNothing'
    BY <2>1, <2>2 DEF SetUpOrNothing
  <2>6. OwnUnlessLate'
    BY <2>1, <2>2, <2>3 DEF OwnUnlessLate, Nothing, ChainTypeOK, DecoderTypeOK
  <2>7. WithinMaximum'
    BY <2>1, <2>2, <2>3 DEF WithinMaximum
  <2> QED  BY <2>1, <2>4, <2>5, <2>6, <2>7
<1>4. CASE Timer
  <2>1. subscribed' \in BOOLEAN
    <3>1. subscribed' = (~Lazy \/ watched)
      BY <1>4 DEF Timer, UpdateSubscription
    <3> QED  BY <3>1, Zenon
  <2>2. /\ inbox' \in {inbox, Nothing}
        /\ UNCHANGED <<process, objects, source, destination, slots, behind, count, image,
                       watched, parts, surface, owed, raw, jpeg>>
    BY <1>4 DEF Timer, UpdateSubscription
  <2>3. ChainTypeOK'
    BY <2>1, <2>2 DEF ChainTypeOK, DecoderTypeOK, Encoder!EncoderTypeOK
  <2> QED
    BY <2>2, <2>3 DEF SetUpOrNothing, OwnUnlessLate, WithinMaximum, Nothing
<1>5. CASE EncodeImage
  <2>1. UNCHANGED <<process, objects, source, destination, slots, behind, subscribed,
                    count, inbox, image, watched>>
    BY <1>5 DEF EncodeImage, decoderVars
  <2>2. /\ Encoder!EncoderTypeOK' /\ parts' \in {{}, Encoder!Parts}
        /\ surface' # 0 <=> parts' # {}
        /\ surface' \in {0, surface, raw.size}
        /\ raw' = Nothing
        /\ jpeg'.own \/ ~raw.own \/ owed' # <<>>
    BY <1>5, EncodeKeeps DEF EncodeImage, ChainTypeOK, SetUpOrNothing
  <2>3. ChainTypeOK'
    BY <2>1, <2>2 DEF ChainTypeOK, DecoderTypeOK
  <2>4. SetUpOrNothing'
    BY <2>1, <2>2 DEF SetUpOrNothing
  <2> QED
    BY <2>1, <2>2, <2>3, <2>4 DEF OwnUnlessLate, WithinMaximum, Nothing
<1>6. CASE ViewersChange
  <2>1. watched' \in BOOLEAN
    <3>1. watched' = ~watched
      BY <1>6 DEF ViewersChange
    <3> QED  BY <3>1, Zenon
  <2>2. UNCHANGED <<process, objects, source, destination, slots, behind, subscribed,
                    count, inbox, image, parts, surface, owed, raw, jpeg>>
    BY <1>6 DEF ViewersChange, decoderVars
  <2>3. ChainTypeOK'
    BY <2>1, <2>2 DEF ChainTypeOK, DecoderTypeOK, Encoder!EncoderTypeOK
  <2> QED
    BY <2>2, <2>3 DEF SetUpOrNothing, OwnUnlessLate, WithinMaximum
<1>7. CASE UNCHANGED chainVars
  <2>1. UNCHANGED <<process, objects, source, destination, slots, behind, subscribed,
                    count, inbox, image, watched, parts, surface, owed, raw, jpeg>>
    BY <1>7 DEF chainVars, decoderVars
  <2>2. ChainTypeOK'
    BY <2>1 DEF ChainTypeOK, DecoderTypeOK, Encoder!EncoderTypeOK
  <2> QED
    BY <2>1, <2>2 DEF SetUpOrNothing, OwnUnlessLate, WithinMaximum
<1> QED
  BY <1>1, <1>2, <1>3, <1>4, <1>5, <1>6, <1>7 DEF ChainNext

\* The inductive invariant holds in every reachable state of the two nodes.
THEOREM ChainInvariance == ChainSpec => []ChainInv
BY ChainStarts, ChainSteps, PTL DEF ChainSpec

\* Type correctness of both nodes, for all sizes of arriving images: the tasks
\* of MPP never go below none, and the packets it owes are of images it took.
THEOREM ChainTypeCorrect == ChainSpec => []ChainTypeOK
<1>1. ChainInv => ChainTypeOK
  BY DEF ChainInv
<1> QED  BY <1>1, ChainInvariance, PTL

\* Through damaged images, failing calls and changes of resolution, in any
\* order and number, a picture leaves either node under its own header as long
\* as MPP has not withheld a result (RockchipImageProcessor::process,
\* encode_yuv_frame).
THEOREM HeadersAreKept == ChainSpec => []PictureIsOwn
<1>1. ChainInv => PictureIsOwn
  BY DEF ChainInv, OwnUnlessLate, PictureIsOwn
<1> QED  BY <1>1, ChainInvariance, PTL

\* Whichever call of initialize() fails, in the decoder's constructor or at any
\* change of resolution in the encoder, everything acquired before is released.
THEOREM FailedSetUpLeavesNothing == ChainSpec => []SetUpOrNothing
<1>1. ChainInv => SetUpOrNothing
  BY DEF ChainInv
<1> QED  BY <1>1, ChainInvariance, PTL

\* Whatever the camera sends, no image larger than the parameters width and
\* height is published by the decoding node, and the encoder is never set up
\* for one (process, resize_frame).
THEOREM NothingTooLarge == ChainSpec => []WithinMaximum
<1>1. ChainInv => WithinMaximum
  BY DEF ChainInv
<1> QED  BY <1>1, ChainInvariance, PTL
=============================================================================
