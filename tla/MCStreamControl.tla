--------------------------- MODULE MCStreamControl ---------------------------
(* The host's stream loop and the client's asking, with both loops running   *)
(* and a path that does not lose everything.                                 *)
EXTENDS StreamControl

ControlLive == ControlSpec /\ ControlFairness
==============================================================================
