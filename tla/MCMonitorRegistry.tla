-------------------------- MODULE MCMonitorRegistry --------------------------
(* One PID and two processes that run under it in turn.  The first registers *)
(* two nodes, one of them twice under the same name, and the second comes    *)
(* back under a name the first has used.                                     *)
EXTENDS MonitorRegistry

CONSTANTS a, b, p, x, y

MCIdentity ==
  { [name |-> a, pid |-> p, start |-> 1, id |-> x],
    [name |-> a, pid |-> p, start |-> 1, id |-> y],
    [name |-> b, pid |-> p, start |-> 1, id |-> x],
    [name |-> a, pid |-> p, start |-> 2, id |-> x] }
===============================================================================
