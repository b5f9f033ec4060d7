------------------------- MODULE MCTranscriptCommit -------------------------
(* Instances of TranscriptCommit. *)
EXTENDS TranscriptCommit

CONSTANTS d1, d2, d3
=============================================================================
