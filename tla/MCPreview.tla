----------------------------- MODULE MCPreview -----------------------------
(* One process previews an unknown kind of file or a pipe, the other PDF   *)
(* files.                                                                  *)
EXTENDS PreviewRender

CONSTANTS p1, p2, k1, k2, k3

MCCandidates ==
    (p1 :> {[key |-> k2, category |-> "binary"], [key |-> k3, category |-> "text"]})
      @@ (p2 :> [key: {k1, k2}, category: {"pdf"}])
=============================================================================
