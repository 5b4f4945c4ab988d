------------------------- MODULE MCDetectorPipeline -------------------------
(* The detector pipeline for TLC; the .cfg files give the constants.       *)
EXTENDS DetectorPipeline
=============================================================================
