--------------------------- MODULE MCFileTransfer ---------------------------
(* Files for FileTransfer: an empty one, one of a whole chunk, one of more. *)
EXTENDS FileTransfer

MCSize == [empty |-> 0, whole |-> 2, more |-> 3]
===========================================================================
