----------------------------- MODULE MCTtsStream -----------------------------
(* Instances of TtsStream for TLC. *)
EXTENDS TtsStream

\* The lengths at which the small configuration's plan (1, 2 and 3 frames) gains a
\* chunk, and the ones at which its last chunk is cut short or full.
ShortUtterances == {0, 1, 2, 3, 6, 7}
=============================================================================
