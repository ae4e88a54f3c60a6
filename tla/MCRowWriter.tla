---------------------------- MODULE MCRowWriter ----------------------------
(* Small instances of RowWriter: up to two columns, with and without a      *)
(* schema, and reservations smaller and larger than the minimal batch.      *)
EXTENDS RowWriter

=============================================================================
