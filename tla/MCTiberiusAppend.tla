------------------------- MODULE MCTiberiusAppend --------------------------
(* A table of two columns; batches of one or two columns, empty or of up to *)
(* three rows, so that an error is before, between and after rows.          *)
EXTENDS TiberiusAppend

=============================================================================
