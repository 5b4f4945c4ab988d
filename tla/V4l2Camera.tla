---------------------------- MODULE V4l2Camera -----------------------------
(***************************************************************************)
(* The V4L2 handle of the camera node (v4l2_camera.cpp): open_device() in  *)
(* its system calls, capture() in three parts, and close_device().         *)
(*                                                                         *)
(* The object's own view (fd, streaming, granted, buffers) is kept apart   *)
(* from what the kernel really holds for the process (descriptors,         *)
(* mappings, queued), so that a leak is a difference between the two.      *)
(* Of a device the model knows whether it delivers frames:                 *)
(*   "works"    every call succeeds and valid frames come;                 *)
(*   "dumb"     it opens and streams, but no valid frame comes in time;    *)
(*   "refuses"  some call between open() and STREAMON fails.               *)
(* Sizes, the requested format and frame rate, and the JPEG bytes are left *)
(* out.                                                                    *)
(***************************************************************************)
EXTENDS Integers, FiniteSets

CONSTANTS
    NumCandidates, \* device_candidates_.size()
    MaxBuffers     \* bound: the most buffers a driver grants

ASSUME CameraAssumption ==
    /\ NumCandidates \in Nat \ {0}
    /\ MaxBuffers \in Nat \ {0, 1}

Candidates == 0 .. NumCandidates - 1
NoDevice == -1
NoBuffer == -1
Indices == 0 .. MaxBuffers - 1

VARIABLES
    health,      \* external: how each device behaves at present
    fd,          \* fd_: the device that is open, or NoDevice
    streaming,   \* streaming_
    granted,     \* buffers_.size()
    buffers,     \* the indices of buffers_ whose data is a mapping
    taken,       \* the buffer dequeued by capture(), or NoBuffer
    valid,       \* its frame is a JPEG that was copied
    descriptors, \* kernel: descriptors of this process on the devices
    mappings,    \* kernel: buffer mappings of this process
    queued       \* kernel: buffers owned by the driver

object == <<fd, streaming, granted, buffers>>
kernel == <<descriptors, mappings, queued>>
frame == <<taken, valid>>
cameraVars == <<health, object, kernel, frame>>

CameraTypeOK ==
    /\ health \in [Candidates -> {"works", "dumb", "refuses"}]
    /\ fd \in Candidates \cup {NoDevice}
    /\ streaming \in BOOLEAN
    /\ granted \in 0 .. MaxBuffers
    /\ buffers \in SUBSET Indices
    /\ taken \in Indices \cup {NoBuffer}
    /\ valid \in BOOLEAN
    /\ descriptors \in Nat
    /\ mappings \in Nat
    /\ queued \in SUBSET Indices

CameraInit ==
    /\ health \in [Candidates -> {"works", "dumb", "refuses"}]
    /\ fd = NoDevice /\ streaming = FALSE
    /\ granted = 0 /\ buffers = {}
    /\ taken = NoBuffer /\ valid = FALSE
    /\ descriptors = 0 /\ mappings = 0 /\ queued = {}

IsOpen == fd # NoDevice

\* Faulty variant (mutation only): the buffers are unmapped only along with
\* the stream that used them.
CloseUnmapsStreamOnly ==
    /\ mappings' = IF streaming THEN mappings - Cardinality(buffers) ELSE mappings
    /\ descriptors' = IF IsOpen THEN descriptors - 1 ELSE descriptors
    /\ queued' = {}
    /\ fd' = NoDevice /\ streaming' = FALSE
    /\ granted' = 0 /\ buffers' = {}

\* close_device(): the stream is stopped, which takes the buffers back from
\* the driver, every recorded mapping is undone, the descriptor is closed.
CloseDevice ==
    /\ mappings' = mappings - Cardinality(buffers)
    /\ descriptors' = IF IsOpen THEN descriptors - 1 ELSE descriptors
    /\ queued' = {}
    /\ fd' = NoDevice /\ streaming' = FALSE
    /\ granted' = 0 /\ buffers' = {}

-----------------------------------------------------------------------------
(* open_device(), call by call.  The caller has no device open, so the     *)
(* close_device() it begins with changes nothing.                          *)

MayFail == health[fd] = "refuses"

\* ::open() of candidate d
OpenFile(d) ==
    /\ fd' = d
    /\ descriptors' = descriptors + 1
    /\ UNCHANGED <<streaming, granted, buffers, mappings, queued>>

\* VIDIOC_QUERYCAP, VIDIOC_S_FMT; a failing VIDIOC_S_PARM is ignored.
Negotiate == UNCHANGED <<object, kernel>>

\* VIDIOC_REQBUFS: the driver grants as many buffers as it sees fit, which need
\* not be the four it is asked for; with fewer than two the call fails.
RequestBuffers ==
    /\ granted' \in 2 .. MaxBuffers
    /\ UNCHANGED <<fd, streaming, buffers, kernel>>

\* The buffer the mapping loop is at.
NextBuffer == Cardinality(buffers)

\* VIDIOC_QUERYBUF and mmap(): the mapping is recorded before anything else
\* can fail.
MapBuffer ==
    /\ mappings' = mappings + 1
    /\ buffers' = buffers \cup {NextBuffer}
    /\ UNCHANGED <<fd, streaming, granted, descriptors, queued>>

\* VIDIOC_QBUF of the buffer just mapped
QueueBuffer ==
    /\ queued' = queued \cup {NextBuffer - 1}
    /\ UNCHANGED <<object, descriptors, mappings>>

\* VIDIOC_STREAMON
StartStream ==
    /\ streaming' = TRUE
    /\ UNCHANGED <<fd, granted, buffers, kernel>>

-----------------------------------------------------------------------------
(* capture(): a buffer is taken from the driver, its frame is copied, the  *)
(* buffer is given back, whether the frame was valid or not.               *)

\* select() and VIDIOC_DQBUF
DequeueBuffer ==
    /\ health[fd] # "refuses" /\ streaming
    /\ taken' \in queued
    /\ queued' = queued \ {taken'}
    /\ valid' = FALSE
    /\ UNCHANGED <<object, descriptors, mappings>>

\* The index, the length and the JPEG marker are checked, the bytes copied.
CopyFrame ==
    /\ valid' = (taken \in buffers /\ health[fd] = "works")
    /\ UNCHANGED <<taken, object, kernel>>

\* VIDIOC_QBUF
ReturnBuffer ==
    /\ queued' = queued \cup {taken}
    /\ taken' = NoBuffer
    /\ UNCHANGED <<valid, object, descriptors, mappings>>

-----------------------------------------------------------------------------
\* External: a device is plugged in, taken away, seized by another program,
\* or begins to behave.
DeviceChanges ==
    /\ \E d \in Candidates, h \in {"works", "dumb", "refuses"} :
           health' = [health EXCEPT ![d] = h]
    /\ UNCHANGED <<object, kernel, frame>>
=============================================================================
