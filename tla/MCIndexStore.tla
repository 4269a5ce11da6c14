---------------------------- MODULE MCIndexStore ----------------------------
(* Values for the constants of IndexStore that a cfg cannot write.          *)
EXTENDS IndexStore, TLC

CONSTANTS c1, c2, g1, g2

\* Replacing c1 by c2 moves a document to another segment.
MCGroupOf == (c1 :> g1) @@ (c2 :> g2)
=============================================================================
