--------------------------- MODULE MCMemoryServer ---------------------------
(* Values for the constants of MemoryServer that a cfg cannot write.        *)
EXTENDS MemoryServer, TLC

CONSTANTS k1, k2

Plain == [body |-> "a", supersedes |-> NoKey, expires |-> FALSE]
Expiring == [body |-> "b", supersedes |-> k1, expires |-> TRUE]

\* A memory that stays, and one that replaces k1 and expires.
ExpiringPayloads == {Plain, Expiring}

\* Two faults of each kind.
AnyFaults == [timeout |-> 2, io |-> 2, restart |-> 2]

Symmetry == Permutations(Handlers)
=============================================================================
