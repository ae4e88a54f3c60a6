------------------------- MODULE MCPostgresAppend --------------------------
(* Small instances of PostgresAppend: a table of two columns and batches of *)
(* one or two columns, empty or of up to two rows.                          *)
EXTENDS PostgresAppend

=============================================================================
