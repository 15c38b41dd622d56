---------------------------- MODULE MCSessionIpc ----------------------------
(* The instance of SessionIpc that TLC checks; SessionIpc.cfg names the    *)
(* callbacks and the number of handlers.                                   *)
EXTENDS SessionIpc
=============================================================================
