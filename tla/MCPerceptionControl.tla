-------------------------- MODULE MCPerceptionControl --------------------------
(* Every agent action against every web command.                             *)
EXTENDS PerceptionControl
===============================================================================
