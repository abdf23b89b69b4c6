-------------------------- MODULE MCFileTransfers --------------------------
(* FileTransfers with small files; the bounds are in the .cfg files.       *)
EXTENDS FileTransfers
=============================================================================
