--------------------------- MODULE MCMonitorClient ---------------------------
(* The periods of the code in ticks of 100 ms; each wait may be two late.   *)
EXTENDS MonitorClient
===============================================================================
