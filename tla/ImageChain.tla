----------------------------- MODULE ImageChain -----------------------------
(***************************************************************************)
(* The images' way from the compressed topic of the camera through the     *)
(* decoding node to the encoding node: JpegDecoder and JpegEncoder with    *)
(* the topic /camera/image_raw between them.  Both topics keep the newest  *)
(* image only and may lose any.                                            *)
(***************************************************************************)
EXTENDS JpegDecoder

VARIABLES
    watched,                          \* somebody subscribes to /camera/image_raw
    parts, surface, owed, raw, jpeg   \* the encoding node

encoder == <<parts, surface, owed, raw, jpeg>>

Encoder == INSTANCE JpegEncoder WITH MaxOwed <- MaxBehind

chainVars == <<decoderVars, watched, encoder>>

ChainTypeOK ==
    /\ DecoderTypeOK
    /\ watched \in BOOLEAN
    /\ Encoder!EncoderTypeOK

ChainInit ==
    /\ DecoderInit
    /\ watched \in BOOLEAN
    /\ Encoder!EncoderInit

\* External: the camera publishes an image.
CameraPublishes ==
    /\ subscribed
    /\ \E s \in Sizes : inbox' = [own |-> TRUE, size |-> s]
    /\ UNCHANGED <<process, objects, source, destination, slots, behind,
                   subscribed, count, image, watched, encoder>>

\* The decoding node's callback.  What it publishes replaces what waits at
\* the encoding node, or is lost on the way.
DecodeImage ==
    /\ Decode
    /\ raw' \in {raw, IF watched /\ image' # Nothing THEN image' ELSE raw}
    /\ UNCHANGED <<watched, parts, surface, owed, jpeg>>

Timer == UpdateSubscription(watched) /\ UNCHANGED <<watched, encoder>>

EncodeImage == Encoder!Encode /\ UNCHANGED <<decoderVars, watched>>

\* The encoding node, or another subscriber, comes or goes.
ViewersChange ==
    /\ watched' = ~watched
    /\ UNCHANGED <<decoderVars, encoder>>

ChainNext ==
    \/ Construct /\ UNCHANGED <<watched, encoder>>
    \/ CameraPublishes \/ DecodeImage \/ Timer
    \/ EncodeImage \/ ViewersChange

ChainSpec == ChainInit /\ [][ChainNext]_chainVars

-----------------------------------------------------------------------------
(* Properties.                                                             *)

\* Whatever the camera sends, no image larger than the parameters width and
\* height gets past the decoding node, and the encoder is not set up for one
\* (process, resize_frame).
WithinMaximum ==
    image.size <= MaxSize /\ raw.size <= MaxSize /\ surface <= MaxSize

\* Both nodes preserve the header of the input (img_decode/README.md,
\* img_encode/README.md): the picture under a header is the one that came
\* with it, through changes of resolution, damaged images and failing calls.
\* The one exception is a result MPP withheld from an earlier job
\* (RockchipImageProcessor::process, encode_yuv_frame): from then on results
\* come one job late, and nothing in either node notices.
PictureIsOwn ==
    \A i \in {image, raw, jpeg} :
        i = Nothing \/ i.own \/ behind > 0 \/ owed # <<>>

\* Whichever call of a set-up fails, everything acquired before it is given
\* back: an encoder that cannot be set up for a resolution starts from nothing
\* at the next image instead of using, or losing, half a context
\* (fail_initialization, initialize, release).
SetUpOrNothing ==
    /\ objects \in {{}, Objects}
    /\ process \in {"spinning", "blocked"} => objects = Objects
    /\ parts \in {{}, Encoder!Parts}
    /\ surface # 0 <=> parts # {}
=============================================================================
