--------------------------- MODULE MCFileTransfer ---------------------------
(* FileTransfer with interchangeable calls. *)
EXTENDS FileTransfer

CallSymmetry == Permutations(Calls)
=============================================================================
