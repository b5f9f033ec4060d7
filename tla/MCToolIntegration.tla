-------------------------- MODULE MCToolIntegration --------------------------
(* Two workers, one webhook request at a time, the sweep and one cancel.   *)
EXTENDS ToolIntegration

CONSTANTS w1, w2, h1
=============================================================================
