---------------------------- MODULE JpegDecoder -----------------------------
(***************************************************************************)
(* The decoding node with its Rockchip back end (image_decode_node.cpp,    *)
(* rockchip_image_processor.cpp).  One thread spins the node, so each      *)
(* callback is one action, with every call it makes to MPP and RGA.        *)
(*                                                                         *)
(* An image is a record: own tells whether its picture belongs to its      *)
(* header, size stands for width and height (0: no data).  MPP returns     *)
(* results in the order of the jobs; behind is the number of results it    *)
(* still owes for jobs the node has given up.  All jobs use one packet and *)
(* one frame, so a result that is behind shows an older picture or the     *)
(* newest one.                                                             *)
(***************************************************************************)
EXTENDS Integers, Sequences

CONSTANTS
    MaxSize,    \* the parameters width and height
    Half,       \* the parameter scale is 0.5 (otherwise 1.0)
    Lazy,       \* the parameter lazy
    Divider,    \* the parameter frame_divider
    Tasks,      \* external: tasks of an MPP port
    Sizes,      \* bound: the sizes of arriving images, 0: no data
    MaxBehind   \* bound: results owed by MPP

ASSUME DecoderAssumption ==
    /\ MaxSize \in Nat \ {0}
    /\ Half \in BOOLEAN /\ Lazy \in BOOLEAN
    /\ Divider \in Nat \ {0}
    /\ Tasks \in Nat \ {0} /\ MaxBehind \in Nat
    /\ Sizes \subseteq Nat

Nothing == [own |-> TRUE, size |-> -1]
Images == [own : BOOLEAN, size : Sizes \cup 1 .. MaxSize]

VARIABLES
    process,     \* "starting", "spinning", "blocked" in MPP, or "dead"
    objects,     \* the MPP objects the back end holds
    source,      \* size of source_buffer_, 0: none
    destination, \* size of destination_buffer_, 0: none
    slots,       \* MPP: tasks it still has
    behind,      \* MPP: results owed for jobs given up
    subscribed,  \* subscription_
    count,       \* input_count_ modulo Divider
    inbox,       \* the newest compressed image (KeepLast(1)), or Nothing
    image        \* what the last decode() published, or Nothing

decoderVars == <<process, objects, source, destination, slots, behind,
                 subscribed, count, inbox, image>>

\* What initialize() acquires, call by call; "" acquires nothing.
Calls == <<"context", "", "", "", "frame group", "packet group", "frame",
           "frame buffer", "packet buffer", "packet", "">>
Objects == {Calls[i] : i \in DOMAIN Calls} \ {""}

\* release(): what is left of the objects held
Release(held) ==
    held \ {"packet", "frame", "context", "packet buffer", "frame buffer",
            "packet group", "frame group"}

DecoderTypeOK ==
    /\ process \in {"starting", "spinning", "blocked", "dead"}
    /\ objects \subseteq Objects
    /\ source \in 0 .. MaxSize /\ destination \in 0 .. MaxSize
    /\ slots \in 0 .. Tasks
    /\ behind \in 0 .. MaxBehind
    /\ subscribed \in BOOLEAN
    /\ count \in 0 .. Divider - 1
    /\ inbox \in Images \cup {Nothing}
    /\ image \in Images \cup {Nothing}

DecoderInit ==
    /\ process = "starting"
    /\ objects = {}
    /\ source = 0 /\ destination = 0
    /\ slots = Tasks /\ behind = 0
    /\ subscribed = FALSE
    /\ count = 0
    /\ inbox = Nothing /\ image = Nothing

-----------------------------------------------------------------------------
\* The constructors: MPP is set up, or a call fails, everything acquired so
\* far is released and the exception ends the process.
Construct ==
    /\ process = "starting"
    /\ \/ /\ objects' = Objects
          /\ process' = "spinning"
          /\ subscribed' = ~Lazy
       \/ \E failing \in DOMAIN Calls :
              /\ objects' = Release({Calls[i] : i \in 1 .. failing - 1} \ {""})
              /\ process' = "dead"
              /\ UNCHANGED subscribed
    /\ UNCHANGED <<source, destination, slots, behind, count, inbox, image>>

\* update_subscription(), every 100 ms.  An image that waits in a
\* subscription goes with it.
UpdateSubscription(watched) ==
    /\ process = "spinning"
    /\ subscribed' = (~Lazy \/ watched)
    /\ inbox' = IF subscribed' THEN inbox ELSE Nothing
    /\ UNCHANGED <<process, objects, source, destination, slots, behind, count, image>>

-----------------------------------------------------------------------------
\* cvRound(size * scale), at least 1: halves are rounded to the even number.
Scaled(size) ==
    IF ~Half THEN size
    ELSE LET half == size \div 2
         IN  IF size <= 2 THEN 1
             ELSE IF size % 2 = 0 \/ half % 2 = 0 THEN half ELSE half + 1

\* The two DMA32 buffers RGA works on are checked and made anew one after the
\* other.  Running out of that memory is an exception that ends the process,
\* between the two as well.
NewBuffers(size) ==
    \/ source' = size /\ destination' = Scaled(size) /\ UNCHANGED process
    \/ /\ source # size
       /\ process' = "dead" /\ UNCHANGED <<source, destination>>
    \/ /\ destination # Scaled(size)
       /\ source' = size
       /\ process' = "dead" /\ UNCHANGED destination

Fails == image' = Nothing /\ UNCHANGED <<process, source, destination>>

\* MPP's blocking poll never returns.
Hangs == process' = "blocked" /\ image' = Nothing /\ UNCHANGED <<source, destination>>

\* Faulty variant (mutation only): the decoded frame is taken as it is.
ResizeUnchecked(size, picture) == NewBuffers(size) /\ image' \in {Nothing, picture}

\* resize_frame() and publish(): a frame of this size comes out as the scaled
\* picture, unless it is larger than configured, memory runs out, or RGA
\* refuses.
Resize(size, picture) ==
    \/ size > MaxSize /\ Fails
    \/ /\ size <= MaxSize /\ Scaled(size) = size
       /\ image' = picture
       /\ UNCHANGED <<source, destination, process>>
    \/ /\ size <= MaxSize /\ Scaled(size) # size
       /\ NewBuffers(size)
       /\ \/ image' = Nothing
          \/ process' = process /\ image' = picture

\* process(): the job is submitted and one result taken, if MPP lets it.
Submit(job) ==
    \/ \* no input task, or the decoded frame is missing or damaged
       Fails /\ UNCHANGED <<slots, behind>>
    \/ \* the input task is not accepted and not given back, or the task of a
       \* missing or damaged frame is not taken back
       Fails /\ slots' = slots - 1 /\ UNCHANGED behind
    \/ \* no output task: this result will come with a later job
       Fails /\ behind < MaxBehind /\ behind' = behind + 1 /\ UNCHANGED slots
    \/ \* the result never comes
       Hangs /\ UNCHANGED <<slots, behind>>
    \/ \* a frame, of this job or of an earlier one
       /\ \E own \in {job.own} \cup (IF behind > 0 THEN {FALSE} ELSE {}) :
              Resize(job.size, [own |-> own, size |-> Scaled(job.size)])
       /\ UNCHANGED <<slots, behind>>
    \/ \* a frame, resized for nothing: its task is not taken back
       Resize(job.size, Nothing) /\ slots' = slots - 1 /\ UNCHANGED behind

\* decode(): every Divider-th image is processed and published, unless it is
\* empty or has more bytes than the packet buffer, as a too large one may.
\* With no task left, the poll for one hangs.
Decode ==
    /\ process = "spinning" /\ subscribed
    /\ inbox # Nothing
    /\ inbox' = Nothing
    /\ count' = (count + 1) % Divider
    /\ \/ /\ count' # 0 \/ inbox.size \notin 1 .. MaxSize
          /\ Fails /\ UNCHANGED <<slots, behind>>
       \/ /\ count' = 0 /\ inbox.size # 0
          /\ IF slots > 0 THEN Submit(inbox)
             ELSE Hangs /\ UNCHANGED <<slots, behind>>
    /\ UNCHANGED <<objects, subscribed>>
=============================================================================
