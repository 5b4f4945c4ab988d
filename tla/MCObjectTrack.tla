---------------------------- MODULE MCObjectTrack ----------------------------
(* Two columns: targets and scans that meet, miss each other or cover both.  *)
EXTENDS ObjectTrack
===============================================================================
