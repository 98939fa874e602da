--------------------------- MODULE MCQueuePoller ----------------------------
(* Small instances of QueuePoller for TLC. *)
EXTENDS QueuePoller
=============================================================================
