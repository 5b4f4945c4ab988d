------------------------------ MODULE MCLiveSpeech ------------------------------
(***************************************************************************)
(* Model of LiveSpeech for TLC; its constants are given in MCLiveSpeech.cfg. *)
(***************************************************************************)
EXTENDS LiveSpeech
===============================================================================
