--------------------------- MODULE MCBatchStream ---------------------------
(* Small instances of BatchStream.  Results of up to four items, so that    *)
(* they fall short of, fill and overflow batches of one to three rows, with *)
(* every placing of driver errors, bad cells and further result sets.       *)
EXTENDS BatchStream

=============================================================================
