--------------------------- MODULE MCPickerEvents ---------------------------
(* Two names of directories, the first of them there, one plain file and   *)
(* two calls in flight.  What is typed: nothing, a directory that is there,*)
(* one that is not with one in it, and the file.                           *)
EXTENDS PickerEvents

CONSTANTS a, b

MCQueries == {<<>>, <<a>>, <<b, a>>, <<FileName>>}
=============================================================================
