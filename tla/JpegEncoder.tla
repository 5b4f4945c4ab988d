---------------------------- MODULE JpegEncoder -----------------------------
(***************************************************************************)
(* The encoding node with its MPP back end (image_encode_node.cpp,         *)
(* jpeg_encoder.cpp, mpp_jpeg_encoder_backend.cpp).  MPP is set up for one *)
(* resolution, at the first image and again whenever the resolution        *)
(* changes.  Images are those of JpegDecoder; a packet MPP has not         *)
(* delivered yet is the image it was made of.  A size is even when the     *)
(* number is.                                                              *)
(***************************************************************************)
EXTENDS Integers, Sequences

CONSTANTS
    Images,     \* what arrives: records of own and size
    Nothing,    \* no image
    MaxOwed     \* bound: packets MPP may owe

VARIABLES
    parts,      \* the MPP objects the back end holds
    surface,    \* width_ and height_ it is set up for, 0: none
    owed,       \* MPP: the packets it has not delivered, oldest first
    raw,        \* the newest raw image (KeepLast(1)), or Nothing
    jpeg        \* what the last encode_image() published, or Nothing

\* What initialize() acquires, call by call; "" acquires nothing.
SetUpCalls == <<"buffer", "context", "", "", "", "frame">>
Parts == {"buffer", "context", "frame"}

\* A picture under way through MPP: the image and the surface it lies on.
Packets == [image : Images, surface : Int]

EncoderTypeOK ==
    /\ parts \subseteq Parts
    /\ surface \in {i.size : i \in Images} \cup {0}
    /\ owed \in Seq(Packets) /\ Len(owed) <= MaxOwed
    /\ raw \in Images \cup {Nothing}
    /\ jpeg \in Images \cup {Nothing}

EncoderInit ==
    /\ parts = {} /\ surface = 0
    /\ owed = <<>>
    /\ raw = Nothing /\ jpeg = Nothing

\* release(), which also ends the context and what it still owes
Released == [parts |-> {}, surface |-> 0, owed |-> <<>>]
SetUpFor(size) == [parts |-> Parts, surface |-> size, owed |-> <<>>]
Current == [parts |-> parts, surface |-> surface, owed |-> owed]

\* Faulty variant (mutation only): what was acquired before the call that
\* failed is kept.
KeepPartial(size) ==
    {SetUpFor(size)} \cup
    {[parts |-> {SetUpCalls[i] : i \in 1 .. k - 1} \ {""}, surface |-> size, owed |-> <<>>] :
        k \in DOMAIN SetUpCalls}

\* initialize() after release(): set up, or nothing at all, whichever call
\* fails.
Initialize(size) ==
    {SetUpFor(size)} \cup
    {[Released EXCEPT !.parts = ({SetUpCalls[i] : i \in 1 .. k - 1} \ {""}) \ Parts] :
        k \in DOMAIN SetUpCalls}

\* Faulty variant (mutation only): set up once, for the first image.
PrepareOnce(size) ==
    IF "context" \notin parts THEN Initialize(size) ELSE {Current}

\* The outcomes of preparing the back end for an image of this size.
Prepare(size) ==
    IF "context" \notin parts \/ surface # size THEN Initialize(size) ELSE {Current}

\* convert_rgb_to_yuv() and encode_yuv_frame() on a back end b that is set
\* up: no packet comes out, an empty one is thrown away, or one is published
\* under the header of this image.
EncodeFrame(b, job) ==
    LET queue == Append(b.owed, [image |-> job, surface |-> b.surface])
        Fits == Len(queue) = 1 /\ b.surface = job.size
    IN  \/ \* the conversion or the frame is refused
           owed' = b.owed /\ jpeg' = Nothing
        \/ \* no packet yet
           Len(queue) <= MaxOwed /\ owed' = queue /\ jpeg' = Nothing
        \/ \* a packet, empty or published: it need not be the one of this image
           /\ owed' = Tail(queue)
           /\ jpeg' \in {Nothing, [own |-> job.own /\ Fits, size |-> Head(queue).image.size]}

\* to_rgb(): dimensions, encoding, step and length of the data agree; in the
\* model a malformed image has size 0.
WellFormed(i) == i.size > 0

Even(size) == size % 2 = 0

\* encode_image(): an image that is malformed or odd changes nothing.
Encode ==
    /\ raw # Nothing
    /\ raw' = Nothing
    /\ IF ~WellFormed(raw) \/ ~Even(raw.size)
       THEN jpeg' = Nothing /\ UNCHANGED <<parts, surface, owed>>
       ELSE \E b \in Prepare(raw.size) :
                /\ parts' = b.parts /\ surface' = b.surface
                /\ IF "context" \notin b.parts
                   THEN owed' = b.owed /\ jpeg' = Nothing
                   ELSE EncodeFrame(b, raw)
=============================================================================
