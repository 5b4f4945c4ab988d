------------------------- MODULE MCOnlineInteraction -------------------------
(* A small instance of OnlineInteraction.                                    *)
EXTENDS OnlineInteraction
===============================================================================
