--------------------------- MODULE UsbCameraProofs ---------------------------
(***************************************************************************)
(* Proofs about UsbCamera for any number of candidates and buffers.        *)
(***************************************************************************)
EXTENDS UsbCamera, FiniteSetTheorems, TLAPS

\* The recorded buffers are an initial segment of the indices, as long as the
\* kernel's mappings; a buffer is the driver's or in capture()'s hands.
Holdings ==
  /\ mappings \in Nat
  /\ descriptors = IF IsOpen THEN 1 ELSE 0
  /\ buffers = 0 .. mappings - 1
  /\ queued \subseteq buffers
  /\ taken \in buffers \cup {NoBuffer}
  /\ taken # NoBuffer <=> worker \in {"copying", "returning"}
  /\ ~IsOpen => mappings = 0

\* What open_device() has reached.
Progress ==
  /\ worker \in Opening => IsOpen
  /\ worker \in {"negotiating", "requesting"} => mappings = 0
  /\ worker = "mapping" => mappings < granted
  /\ worker = "queueing" => mappings \in 1 .. granted

\* After the one late image the thread only waits for the switch.
Lateness ==
  /\ late \in {0, 1}
  /\ enabled => late = 0
  /\ late = 1 => worker \in {"looping", "gating", "ended"}

IInv == TypeOK /\ Holdings /\ Progress /\ Lateness

-----------------------------------------------------------------------------

\* The mapping loop is at the buffer after the last recorded one.
LEMMA BufferCount ==
  ASSUME Holdings
  PROVE  Cardinality(buffers) = mappings
<1>1. Cardinality(0 .. mappings - 1) = IF 0 > mappings - 1 THEN 0 ELSE (mappings - 1) - 0 + 1
  BY FS_Interval DEF Holdings
<1>2. QED
  BY <1>1 DEF Holdings

\* close_device() gives everything back, whatever open_device() had reached.
LEMMA CloseGivesBack ==
  ASSUME Holdings, CloseDevice
  PROVE  /\ mappings' = 0 /\ descriptors' = 0
         /\ buffers' = {} /\ queued' = {}
         /\ fd' = NoDevice /\ streaming' = FALSE /\ granted' = 0
BY BufferCount DEF Holdings, CloseDevice

\* A step that closes the device keeps the holdings in order if no buffer stays
\* in hand.
LEMMA CloseKeeps ==
  ASSUME CameraAssumption, IInv, CloseDevice, health' = health, valid' \in BOOLEAN,
         taken' = NoBuffer, worker' \in {"looping", "ended"},
         viewed' = viewed, enabled' \in BOOLEAN, enabled' = enabled, late' = late,
         node' \in {"alive", "leaving", "joining", "gone"},
         candidate' \in Candidates, count' = count
  PROVE  IInv'
<1>1. /\ mappings' = 0 /\ descriptors' = 0 /\ buffers' = {} /\ queued' = {}
      /\ fd' = NoDevice /\ streaming' = FALSE /\ granted' = 0
  BY CloseGivesBack DEF IInv
<1>2. CameraTypeOK'
  <2>1. streaming' \in BOOLEAN
    BY <1>1, Zenon
  <2>2. granted' \in 0 .. MaxBuffers
    BY <1>1, CameraAssumption
  <2>3. QED
    BY <1>1, <2>1, <2>2 DEF IInv, TypeOK, CameraTypeOK
<1>3. TypeOK'
  BY <1>2 DEF IInv, TypeOK
<1>4. Holdings'
  BY <1>1 DEF Holdings, IsOpen
<1>5. Progress'
  BY DEF Progress, Opening
<1>6. Lateness'
  BY DEF IInv, Lateness
<1>7. QED
  BY <1>3, <1>4, <1>5, <1>6 DEF IInv

\* Init establishes the inductive invariant.
LEMMA InitIInv == Init => IInv
<1> SUFFICES ASSUME Init PROVE IInv
  OBVIOUS
<1> USE CameraAssumption, NodeAssumption DEF Init, CameraInit
<1>0. CameraTypeOK
  <2>1. streaming \in BOOLEAN /\ valid \in BOOLEAN
    BY Zenon
  <2>2. QED
    BY <2>1 DEF CameraTypeOK
<1>1. TypeOK
  <2>1. enabled \in BOOLEAN
    BY Zenon
  <2>2. 0 \in Candidates /\ count \in 0 .. Divider - 1
    BY DEF Candidates
  <2>3. QED
    BY <1>0, <2>1, <2>2 DEF TypeOK
<1>2. Holdings
  BY DEF Holdings, IsOpen, NoBuffer
<1>3. Progress /\ Lateness
  BY DEF Progress, Lateness, Opening
<1>4. QED
  BY <1>1, <1>2, <1>3 DEF IInv

-----------------------------------------------------------------------------
\* A step of the thread outside open_device() that leaves the device alone.
LEMMA QuietStep ==
  ASSUME IInv, UNCHANGED <<health, object, kernel, viewed, enabled>>,
         taken' = taken, valid' \in BOOLEAN,
         worker \notin {"copying", "returning"} <=> worker' \notin {"copying", "returning"},
         worker' \in {"looping", "gating", "ready", "waiting", "copying", "returning",
                      "publishing", "ended"},
         node' \in {"alive", "leaving", "joining", "gone"},
         candidate' \in Candidates, count' \in 0 .. Divider - 1,
         late' \in {0, 1}, enabled => late' = 0,
         late' = 1 => worker' \in {"looping", "gating", "ended"}
  PROVE  IInv'
<1>1. TypeOK'
  BY DEF IInv, TypeOK, CameraTypeOK, object, kernel
<1>2. Holdings'
  BY DEF IInv, Holdings, IsOpen, object, kernel
<1>3. Progress'
  BY DEF Progress, Opening
<1>4. Lateness'
  BY DEF Lateness
<1>5. QED
  BY <1>1, <1>2, <1>3, <1>4 DEF IInv

\* The next call of open_device() succeeds.
LEMMA OpenStepKeeps == ASSUME IInv, OpenStep PROVE IInv'
<1> USE CameraAssumption
<1>0. /\ TypeOK /\ Holdings /\ Progress /\ Lateness /\ Cardinality(buffers) = mappings
      /\ mappings \in Nat /\ granted \in Nat /\ granted <= MaxBuffers /\ MaxBuffers \in Nat
  BY BufferCount DEF IInv, Holdings, TypeOK, CameraTypeOK
<1>u. /\ UNCHANGED <<taken, valid, candidate, count, late, health, viewed, enabled, node>>
      /\ late = 0
  BY <1>0 DEF OpenStep, WorkerUnchanged, frame, Lateness, Opening
<1>1. CASE worker = "negotiating" /\ Negotiate /\ worker' = "requesting"
  <2>1. TypeOK'
    BY <1>0, <1>1, <1>u DEF TypeOK, CameraTypeOK, Negotiate, object, kernel, Opening
  <2>2. Holdings'
    BY <1>0, <1>1, <1>u DEF Holdings, Negotiate, object, kernel, IsOpen
  <2>3. Progress' /\ Lateness'
    BY <1>0, <1>1, <1>u DEF Progress, Lateness, Negotiate, object, kernel, IsOpen, Opening
  <2>4. QED
    BY <2>1, <2>2, <2>3 DEF IInv
<1>2. CASE worker = "requesting" /\ RequestBuffers /\ worker' = "mapping"
  <2>1. TypeOK'
    BY <1>0, <1>2, <1>u DEF TypeOK, CameraTypeOK, RequestBuffers, kernel, Opening
  <2>2. Holdings'
    BY <1>0, <1>2, <1>u DEF Holdings, RequestBuffers, kernel, IsOpen
  <2>3. Progress' /\ Lateness'
    BY <1>0, <1>2, <1>u DEF Progress, Lateness, RequestBuffers, kernel, IsOpen, Opening
  <2>4. QED
    BY <2>1, <2>2, <2>3 DEF IInv
<1>3. CASE worker = "mapping" /\ MapBuffer /\ worker' = "queueing"
  <2>0. /\ mappings' = mappings + 1 /\ buffers' = buffers \cup {mappings}
        /\ mappings < granted /\ mappings' <= granted
        /\ UNCHANGED <<fd, streaming, granted, descriptors, queued>>
    BY <1>0, <1>3 DEF MapBuffer, NextBuffer, Progress
  <2>1. buffers' = 0 .. mappings' - 1
    BY <1>0, <2>0 DEF Holdings
  <2>2. mappings \in Indices
    BY <1>0, <2>0 DEF Indices
  <2>3. CameraTypeOK'
    BY <1>0, <1>u, <2>0, <2>2 DEF TypeOK, CameraTypeOK
  <2>4. TypeOK'
    BY <1>0, <1>3, <1>u, <2>3 DEF TypeOK, Opening
  <2>5. Holdings'
    BY <1>0, <1>3, <1>u, <2>0, <2>1 DEF Holdings, IsOpen, Progress, Opening
  <2>6. Progress' /\ Lateness'
    BY <1>0, <1>3, <1>u, <2>0 DEF Progress, Lateness, IsOpen, Opening
  <2>7. QED
    BY <2>4, <2>5, <2>6 DEF IInv
<1>4. CASE /\ worker = "queueing" /\ QueueBuffer
           /\ worker' = IF NextBuffer < granted THEN "mapping" ELSE "starting"
  <2>0. /\ UNCHANGED <<object, descriptors, mappings>>
        /\ queued' = queued \cup {mappings - 1}
        /\ mappings \in 1 .. granted
        /\ worker' = IF mappings < granted THEN "mapping" ELSE "starting"
    BY <1>0, <1>4 DEF QueueBuffer, NextBuffer, Progress
  <2>1. mappings - 1 \in buffers /\ mappings - 1 \in Indices
    BY <1>0, <2>0 DEF Holdings, Indices
  <2>2. CameraTypeOK'
    BY <1>0, <1>u, <2>0, <2>1 DEF TypeOK, CameraTypeOK, object
  <2>3. TypeOK'
    BY <1>0, <1>u, <2>0, <2>2 DEF TypeOK, Opening
  <2>4. Holdings'
    BY <1>0, <1>4, <1>u, <2>0, <2>1 DEF Holdings, IsOpen, object
  <2>5. Progress' /\ Lateness'
    BY <1>0, <1>4, <1>u, <2>0 DEF Progress, Lateness, IsOpen, Opening, object
  <2>6. QED
    BY <2>3, <2>4, <2>5 DEF IInv
<1>5. CASE worker = "starting" /\ ~MayFail /\ StartStream /\ worker' = "waiting"
  <2>1. TypeOK'
    BY <1>0, <1>5, <1>u DEF TypeOK, CameraTypeOK, StartStream, kernel
  <2>2. Holdings'
    BY <1>0, <1>5, <1>u DEF Holdings, StartStream, kernel, IsOpen
  <2>3. Progress' /\ Lateness'
    BY <1>0, <1>5, <1>u DEF Progress, Lateness, Opening
  <2>4. QED
    BY <2>1, <2>2, <2>3 DEF IInv
<1>6. QED
  BY <1>1, <1>2, <1>3, <1>4, <1>5 DEF OpenStep

\* capture() takes a frame, copies it, and gives its buffer back.
LEMMA TakeFrameKeeps == ASSUME IInv, TakeFrame PROVE IInv'
<1>0. /\ taken' \in queued /\ queued' = queued \ {taken'}
      /\ UNCHANGED <<object, descriptors, mappings, health, viewed, enabled, node,
                     candidate, count, late>>
      /\ worker = "waiting" /\ worker' = "copying"
  BY DEF TakeFrame, DequeueBuffer, WorkerUnchanged
<1>1. CameraTypeOK'
  <2>1. valid' \in BOOLEAN
    BY Zenon DEF TakeFrame, DequeueBuffer
  <2>2. QED
    BY <1>0, <2>1 DEF IInv, TypeOK, CameraTypeOK, object
<1>2. TypeOK'
  BY <1>0, <1>1 DEF IInv, TypeOK
<1>3. Holdings'
  BY <1>0 DEF IInv, Holdings, IsOpen, object, NoBuffer
<1>4. Progress' /\ Lateness'
  BY <1>0 DEF IInv, Progress, Lateness, IsOpen, Opening, object
<1>5. QED
  BY <1>2, <1>3, <1>4 DEF IInv

\* A buffer goes back to the driver.
LEMMA ReturnKeeps ==
  ASSUME IInv, worker = "returning", ReturnBuffer, WorkerUnchanged,
         count' \in 0 .. Divider - 1, worker' \in {"looping", "publishing"},
         UNCHANGED <<candidate, late>>
  PROVE  IInv'
<1>0. /\ queued' = queued \cup {taken} /\ taken' = NoBuffer /\ taken \in buffers
      /\ UNCHANGED <<valid, object, descriptors, mappings, health, viewed, enabled, node>>
  BY DEF ReturnBuffer, WorkerUnchanged, IInv, Holdings
<1>1. CameraTypeOK'
  BY <1>0 DEF IInv, TypeOK, CameraTypeOK, object
<1>2. TypeOK'
  BY <1>0, <1>1 DEF IInv, TypeOK
<1>3. Holdings'
  BY <1>0 DEF IInv, Holdings, IsOpen, object
<1>4. Progress' /\ Lateness'
  BY <1>0 DEF IInv, Progress, Lateness, IsOpen, Opening, object
<1>5. QED
  BY <1>2, <1>3, <1>4 DEF IInv

\* One step of the capture thread.
LEMMA WorkerKeeps == ASSUME IInv, Worker PROVE IInv'
<1> USE CameraAssumption, NodeAssumption
<1>t. /\ CameraTypeOK /\ viewed \in BOOLEAN /\ enabled \in BOOLEAN
      /\ node \in {"alive", "leaving", "joining", "gone"}
      /\ candidate \in Candidates /\ count \in 0 .. Divider - 1
      /\ taken # NoBuffer <=> worker \in {"copying", "returning"}
      /\ late \in {0, 1} /\ (enabled => late = 0)
      /\ late = 1 => worker \in {"looping", "gating", "ended"}
  BY DEF IInv, TypeOK, Holdings, Lateness
<1>n. NextCandidate => candidate' \in Candidates
  BY <1>t DEF NextCandidate, Candidates
<1>1. CASE Loop
  <2>1. CASE node # "alive" \/ ~(Lazy /\ ~viewed)
    BY <1>1, <1>t, <2>1, QuietStep DEF Loop, WorkerUnchanged, frame, object, kernel, CameraTypeOK
  <2>2. CASE node = "alive" /\ Lazy /\ ~viewed
    BY <1>1, <1>t, <2>2, CloseKeeps DEF Loop, WorkerUnchanged, frame, CameraTypeOK
  <2>3. QED
    BY <2>1, <2>2
<1>2. CASE Gate
  <2>1. CASE enabled
    BY <1>2, <1>t, <2>1, QuietStep DEF Gate, WorkerUnchanged, frame, object, kernel, CameraTypeOK
  <2>2. CASE ~enabled
    BY <1>2, <1>t, <2>2, CloseKeeps DEF Gate, WorkerUnchanged, frame, CameraTypeOK
  <2>3. QED
    BY <2>1, <2>2
<1>3. CASE BeginOpen
  <2>1. CASE IsOpen /\ worker' = "waiting" /\ UNCHANGED <<object, kernel, candidate>>
    BY <1>3, <1>t, <2>1, QuietStep DEF BeginOpen, WorkerUnchanged, frame, object, kernel, CameraTypeOK
  <2>2. CASE ~IsOpen /\ OpenFile(candidate) /\ worker' = "negotiating" /\ UNCHANGED candidate
    <3>0. /\ fd' = candidate /\ descriptors' = 1 /\ mappings = 0 /\ worker = "ready"
          /\ UNCHANGED <<streaming, granted, buffers, mappings, queued, frame, count, late,
                         health, viewed, enabled, node>>
      BY <1>3, <2>2 DEF BeginOpen, WorkerUnchanged, OpenFile, IInv, Holdings
    <3>1. CameraTypeOK'
      BY <1>t, <3>0 DEF CameraTypeOK, frame
    <3>2. TypeOK'
      BY <1>t, <2>2, <3>0, <3>1 DEF TypeOK, IInv, Opening
    <3>3. Holdings'
      BY <1>t, <2>2, <3>0 DEF Holdings, IInv, IsOpen, frame, Candidates, NoDevice
    <3>4. Progress' /\ Lateness'
      BY <1>t, <2>2, <3>0 DEF Progress, Lateness, IsOpen, Opening, Candidates, NoDevice
    <3>5. QED
      BY <3>2, <3>3, <3>4 DEF IInv
  <2>3. CASE ~IsOpen /\ CloseDevice /\ NextCandidate /\ worker' = "looping"
    BY <1>3, <1>t, <1>n, <2>3, CloseKeeps DEF BeginOpen, WorkerUnchanged, frame, CameraTypeOK
  <2>4. QED
    BY <1>3, <2>1, <2>2, <2>3 DEF BeginOpen
<1>4. CASE OpenStep
  BY <1>4, OpenStepKeeps
<1>5. CASE OpenFails
  BY <1>5, <1>t, <1>n, CloseKeeps DEF OpenFails, WorkerUnchanged, frame, CameraTypeOK, Opening
<1>6. CASE TakeFrame
  BY <1>6, TakeFrameKeeps
<1>7. CASE Copy
  <2>1. valid' \in BOOLEAN
    BY <1>7, Zenon DEF Copy, CopyFrame
  <2>2. QED
    BY <1>7, <1>t, <2>1, QuietStep DEF Copy, CopyFrame, WorkerUnchanged, object, kernel
<1>8. CASE EndCapture
  <2>1. CASE ReturnBuffer /\ count' = (count + 1) % Divider
              /\ worker' = IF count' = 0 THEN "publishing" ELSE "looping"
    <3>1. count' \in 0 .. Divider - 1
      BY <1>t, <2>1
    <3>2. QED
      BY <1>8, <2>1, <3>1, ReturnKeeps DEF EndCapture
  <2>2. CASE CloseDevice /\ taken' = NoBuffer /\ worker' = "looping" /\ UNCHANGED <<valid, count>>
    BY <1>8, <1>t, <2>2, CloseKeeps DEF EndCapture, WorkerUnchanged, CameraTypeOK
  <2>3. QED
    BY <1>8, <2>1, <2>2 DEF EndCapture
<1>9. CASE CaptureFails
  BY <1>9, <1>t, CloseKeeps DEF CaptureFails, WorkerUnchanged, frame, CameraTypeOK
<1>10. CASE Publish
  <2>1. late = 0
    BY <1>10, <1>t DEF Publish
  <2>2. late' \in {0, 1} /\ (enabled => late' = 0)
    BY <1>10, <2>1 DEF Publish
  <2>3. QED
    BY <1>10, <1>t, <2>2, QuietStep DEF Publish, WorkerUnchanged, frame, object, kernel, CameraTypeOK
<1>11. QED
  BY <1>1, <1>2, <1>3, <1>4, <1>5, <1>6, <1>7, <1>8, <1>9, <1>10 DEF Worker

-----------------------------------------------------------------------------

\* A step that leaves the camera and the thread alone.
LEMMA OutsideStep ==
  ASSUME IInv, UNCHANGED <<object, kernel, frame, worker, candidate, count>>,
         health' \in [Candidates -> {"works", "dumb", "refuses"}],
         viewed' \in BOOLEAN, enabled' \in BOOLEAN,
         node' \in {"alive", "leaving", "joining", "gone"},
         \/ UNCHANGED <<enabled, late>>
         \/ late' = 0
  PROVE  IInv'
<1>1. TypeOK'
  BY DEF IInv, TypeOK, CameraTypeOK, object, kernel, frame
<1>2. Holdings'
  BY DEF IInv, Holdings, IsOpen, object, kernel, frame
<1>3. Progress' /\ Lateness'
  BY DEF IInv, Progress, Lateness, IsOpen, object, kernel
<1>4. QED
  BY <1>1, <1>2, <1>3 DEF IInv

\* Every step of the camera node preserves the invariant.
LEMMA NextIInv == IInv /\ [Next]_vars => IInv'
<1> SUFFICES ASSUME IInv, [Next]_vars PROVE IInv'
  OBVIOUS
<1> USE CameraAssumption
<1>t. /\ health \in [Candidates -> {"works", "dumb", "refuses"}]
      /\ viewed \in BOOLEAN /\ enabled \in BOOLEAN /\ valid \in BOOLEAN
      /\ node \in {"alive", "leaving", "joining", "gone"} /\ candidate \in Candidates
      /\ taken # NoBuffer <=> worker \in {"copying", "returning"}
  BY DEF IInv, TypeOK, CameraTypeOK, Holdings
<1>1. CASE Worker
  BY <1>1, WorkerKeeps
<1>2. CASE BeginDestruct \/ Shutdown
  BY <1>2, <1>t, OutsideStep DEF BeginDestruct, Shutdown, OthersUnchanged, cameraVars
<1>3. CASE Join
  <2>1. /\ taken' = NoBuffer /\ worker' = "ended"
        /\ UNCHANGED <<health, valid, viewed, enabled, candidate, count, late>> /\ node' = "gone"
    BY <1>3, <1>t DEF Join, OthersUnchanged, frame
  <2>2. QED
    BY <1>3, <1>t, <2>1, CloseKeeps DEF Join
<1>4. CASE EnableCamera
  BY <1>4, <1>t, OutsideStep DEF EnableCamera, cameraVars
<1>5. CASE ViewersChange
  <2>1. viewed' \in BOOLEAN
    BY <1>5, Zenon DEF ViewersChange
  <2>2. QED
    BY <1>5, <1>t, <2>1, OutsideStep DEF ViewersChange, cameraVars
<1>6. CASE DeviceChanges /\ UNCHANGED node /\ OthersUnchanged
  <2>1. health' \in [Candidates -> {"works", "dumb", "refuses"}]
    BY <1>6, <1>t DEF DeviceChanges
  <2>2. QED
    BY <1>6, <1>t, <2>1, OutsideStep DEF DeviceChanges, OthersUnchanged
<1>7. CASE UNCHANGED vars
  BY <1>7, <1>t, OutsideStep DEF vars, cameraVars
<1>8. QED
  BY <1>1, <1>2, <1>3, <1>4, <1>5, <1>6, <1>7 DEF Next, Destructor

-----------------------------------------------------------------------------
(* Results.                                                                *)

\* The inductive invariant: what the object records, what the kernel holds and
\* where open_device() and capture() are fit together.
THEOREM Invariance == Spec => []IInv
<1>1. QED
  BY InitIInv, NextIInv, PTL DEF Spec

\* The camera node's state is well typed, however many devices and buffers.
THEOREM TypeCorrect == Spec => []TypeOK
<1>1. IInv => TypeOK
  BY DEF IInv
<1>2. QED
  BY Invariance, <1>1, PTL

\* No failing call of open_device() or capture() loses a descriptor, a mapping
\* or a buffer.
THEOREM CameraLeaksNothing == Spec => []NothingLeaks
<1>1. IInv => NothingLeaks
  <2> SUFFICES ASSUME IInv PROVE NothingLeaks
    OBVIOUS
  <2>1. mappings = Cardinality(buffers)
    BY BufferCount DEF IInv
  <2>2. QED
    BY <2>1 DEF IInv, Holdings, NothingLeaks
<1>2. QED
  BY Invariance, <1>1, PTL

\* At most one image comes out after the camera was disabled.
THEOREM DisableIsPrompt == Spec => []OneAfterDisable
<1>1. IInv => OneAfterDisable
  BY DEF IInv, Lateness, OneAfterDisable
<1>2. QED
  BY Invariance, <1>1, PTL
=============================================================================
