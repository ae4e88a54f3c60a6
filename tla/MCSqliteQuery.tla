--------------------------- MODULE MCSqliteQuery ---------------------------
(* Every table of up to three rows and two columns over nulls and values of *)
(* two kinds, one or two columns at a time, and a second call after an Err. *)
EXTENDS SqliteQuery

MCKinds == {"Integer", "Text"}
=============================================================================
