------------------------- MODULE MCInitialEnrichment -------------------------
(* The instances of InitialEnrichment that TLC checks; their cfgs choose   *)
(* the events and which faults may happen.                                 *)
EXTENDS InitialEnrichment
=============================================================================
