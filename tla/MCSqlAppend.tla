---------------------------- MODULE MCSqlAppend ----------------------------
(* Small instances of SqlAppend: statements of two rows, and batches that   *)
(* are empty, shorter than, equal to and longer than one statement, with    *)
(* and without a remainder.                                                 *)
EXTENDS SqlAppend

=============================================================================
