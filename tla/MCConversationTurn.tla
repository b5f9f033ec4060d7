------------------------- MODULE MCConversationTurn -------------------------
(* Instances of ConversationTurn: two scenarios, the first with an end step. *)
EXTENDS ConversationTurn, TLC

CONSTANTS r1, r2, r3, k1, k2, k3, f1, f2, a, b, z

MCScenarioOf == (a :> 1) @@ (b :> 2) @@ (z :> 1)

MCSymmetry ==
    Permutations(Requests) \cup Permutations(Keys) \cup Permutations(Facts)
=============================================================================
