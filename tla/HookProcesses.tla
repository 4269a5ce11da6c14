---------------------------- MODULE HookProcesses ----------------------------
(***************************************************************************)
(* The hook processes an agent starts for its events, in any number at a   *)
(* time.  Each may record the event in the log of its session              *)
(* (SessionRecording) and capture or retrieve memories (SharedMemory).     *)
(***************************************************************************)
CONSTANTS
    Hooks,     \* hook processes
    Nobody     \* the process that has a lock nobody has
=============================================================================
