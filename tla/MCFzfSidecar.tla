---------------------------- MODULE MCFzfSidecar ----------------------------
(* The instance of FzfSidecar that TLC checks: fzf shows one or two rows.  *)
EXTENDS FzfSidecar

MCTotals == {1, 2}
=============================================================================
