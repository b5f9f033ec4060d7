---------------------------- MODULE MCBrowserTask ----------------------------
(* Two worker processes that, as by default, share one identity.           *)
EXTENDS BrowserTask

CONSTANTS w1, w2, r1, shared

MCIdentity == [w \in Workers |-> shared]
=============================================================================
