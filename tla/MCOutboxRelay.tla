--------------------------- MODULE MCOutboxRelay ---------------------------
(* OutboxRelay for TLC: rows are numbered as their ids are, ticks are model
   values that the configurations list. *)
EXTENDS OutboxRelay
=============================================================================
