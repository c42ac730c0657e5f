---------------------------- MODULE MCFileIndex ----------------------------
(***************************************************************************)
(* FileIndex on two folders with a file name each, a short and a long      *)
(* upload.                                                                 *)
(***************************************************************************)
EXTENDS FileIndex, TLC

CONSTANTS c1, c2, p1, p2

MCSize == [v \in Contents |-> IF v = "long" THEN 2 ELSE 1]
=============================================================================
