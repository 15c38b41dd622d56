--------------------------- MODULE MCProcessChild ---------------------------
(* The instances of ProcessChild that TLC checks.                          *)
EXTENDS ProcessChild

AllContainments == {"own", "foreground", "inherit"}
=============================================================================
