--------------------------- MODULE MCEngineBuild ----------------------------
(* Small instances of EngineBuild for TLC. *)
EXTENDS EngineBuild

\* The precision whose plans are loaded; the other one's are built the same way.
OneTag == <<"fp16">>
=============================================================================
