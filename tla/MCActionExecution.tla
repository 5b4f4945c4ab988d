-------------------------- MODULE MCActionExecution --------------------------
(* A small instance of ActionExecution: turns and lists of a few commands.  *)
EXTENDS ActionExecution
===============================================================================
