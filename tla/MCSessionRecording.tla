------------------------- MODULE MCSessionRecording -------------------------
(* Values for the constants of SessionRecording that a cfg cannot write.    *)
EXTENDS SessionRecording, TLC

OneOfEach == [crash |-> 1, io |-> 1]

Symmetry == Permutations(Hooks) \cup Permutations(Sessions)
=============================================================================
