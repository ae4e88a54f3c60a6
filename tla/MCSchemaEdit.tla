---------------------------- MODULE MCSchemaEdit ---------------------------
(* A plain name, one that needs quotes for a capital letter, names made of  *)
(* quotes, one of each connector's, and a reserved word; every one and two  *)
(* of them at a time.                                                       *)
EXTENDS SchemaEdit

MCNames == { <<"t">>, <<"A">>, <<"quote">>, <<"quote", "quote">>, <<"backtick", "t">>, <<"o", "r">> }
MCReserved == { <<"o", "r">> }
=============================================================================
