--------------------------- MODULE MCFileManager ---------------------------
(* Small instances of FileManager for TLC; no symmetry, since liveness is   *)
(* checked as well.                                                        *)
EXTENDS FileManager, TLC
=============================================================================
