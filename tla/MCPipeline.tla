----------------------------- MODULE MCPipeline -----------------------------
(* Small instances of Pipeline for TLC. *)
EXTENDS Pipeline

CONSTANTS c1, c2

\* The first caller asks for two utterances, the second for one.
MCCallerOf == <<c1, c2, c1>>

\* Nothing to say; a text of one token, below the profile when it comes alone;
\* and one that is cut at MaxChars, and at MaxFrames if the engines are used.
MCTexts == {<<>>, <<1>>, <<1, 2, 1>>}
=============================================================================
