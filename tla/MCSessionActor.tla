--------------------------- MODULE MCSessionActor ---------------------------
(* The instance of SessionActor for TLC; SessionActor.cfg names the calls. *)
EXTENDS SessionActor
=============================================================================
