----------------------------- MODULE MCMcpIndex -----------------------------
(* Values for the constants of McpIndex that a cfg cannot write.           *)
EXTENDS McpIndex, TLC

CONSTANTS s1, r1, r2, i1, i2

\* The server and one recall command see the project's own ignored paths;
\* the other recall adds those it always ignores.
MCIgnoresOf == [p \in Procs |-> IF p = r2 THEN i2 ELSE i1]

\* The last edit is of a file that is already modified.
MCStatusOf == [w \in 0..MaxWorld |-> IF w = 0 THEN 0 ELSE 1]
=============================================================================
