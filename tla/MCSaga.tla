------------------------------- MODULE MCSaga -------------------------------
(* Saga for TLC.  A notify or a reply is not lost: nothing asks for it again. *)
EXTENDS Saga

RequestsAndOutcomes == {"requested", "outcome"}
=============================================================================
