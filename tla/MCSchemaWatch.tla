--------------------------- MODULE MCSchemaWatch ---------------------------
(* Instances of SchemaWatch for TLC.                                       *)
EXTENDS SchemaWatch, TLC

CONSTANTS a, b, ddl

SameChannel == (a :> ddl) @@ (b :> ddl)
=============================================================================
