---------------------------- MODULE MCImageChain ----------------------------
(* ImageChain with compressed images that are empty, too large, or come    *)
(* out with two even sizes and an odd one.                                 *)
EXTENDS ImageChain
=============================================================================
