---------------------------- MODULE MCFileIndex ----------------------------
(* Small instances of FileIndex for TLC.                                   *)
EXTENDS FileIndex, TLC

===========================================================================
