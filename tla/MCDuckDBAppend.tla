-------------------------- MODULE MCDuckDBAppend ---------------------------
(* Small instances of DuckDBAppend: the buffer is flushed every third row,  *)
(* within, at and after the end of batches of up to three rows.             *)
EXTENDS DuckDBAppend

=============================================================================
