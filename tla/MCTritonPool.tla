---------------------------- MODULE MCTritonPool ----------------------------
(* Small instances of TritonPool for TLC. *)
EXTENDS TritonPool
=============================================================================
