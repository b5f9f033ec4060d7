---------------------------- MODULE MCAtlasApply ----------------------------
(* Constants for TLC: one document delta and two binding deltas, which are *)
(* proposed, reviewed and applied together.                                *)
EXTENDS AtlasApply, TLC
CONSTANTS d1, b1, b2, v1, v2, t1, t2, a1, a2, p1

Groups == {{}, {d1}, {b1, b2}, {d1, b1, b2}}
MCProposals == UNION {{[d \in S |-> v] : v \in {v1, v2}} : S \in Groups}
MCBatches == {{d1}, {d1, b1, b2}}
MCSymmetry == Permutations(Turns) \cup Permutations(Appliers) \cup Permutations(Versions)
                  \cup Permutations(Bindings)
=============================================================================
