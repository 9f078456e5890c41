------------------------- MODULE MCPersistedQueries -------------------------
(* Instances of PersistedQueries for TLC: hash hN names document dN.        *)
EXTENDS PersistedQueries, TLC

CONSTANTS h1, h2, h3, h4, d1, d2, d3, d4

MCDocOf == (h1 :> d1) @@ (h2 :> d2) @@ (h3 :> d3) @@ (h4 :> d4)
=============================================================================
