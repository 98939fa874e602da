--------------------------- MODULE MCBaselineLoad ---------------------------
(* Small instances of BaselineLoad for TLC. *)
EXTENDS BaselineLoad

\* The ramp of the instance.
Ramp == <<1, 2>>
=============================================================================
