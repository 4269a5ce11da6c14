---------------------------- MODULE SharedMemory ----------------------------
(***************************************************************************)
(* One project memory directory (.lint-ai/<provider>-memory) shared by     *)
(* several processes: hooks that capture a memory, hooks that retrieve     *)
(* context for a prompt, and recall servers, in any number at a time.      *)
(* Each opens the index store for itself, works on its own copy of the     *)
(* records and, if it has something to save, replaces records.json as a    *)
(* whole.  Only the writer lock of the lexical index makes processes take  *)
(* turns, and it is held while that index is written, not from the reading *)
(* of records.json to its replacement.                                     *)
(*                                                                         *)
(* A memory is a document whose id holds the hash of its content, so that  *)
(* a set of ids says what a copy holds.  The store is taken at the level   *)
(* of DurableStore: saving is one step, since the segment manifest written *)
(* after records.json is ignored when it does not fit (IndexStore).        *)
(***************************************************************************)
EXTENDS HookProcesses, FiniteSets

CONSTANTS
    Recalls,   \* recall server processes
    Docs,      \* memories that can be captured
    NoDoc      \* what a process captures that only retrieves

Procs == Hooks \cup Recalls

ASSUME SharedAssumption ==
    /\ Hooks \cap Recalls = {}
    /\ NoDoc \notin Docs
    /\ Nobody \notin Procs

VARIABLES
    step,      \* what each process is doing
    doc,       \* the memory it captures
    copy,      \* source_docs and records of its store
    file,      \* records.json
    writer,    \* the holder of the writer lock of the lexical index
    captured,  \* history: captures that ended with Ok
    crossed    \* history: memories saved while another process held a copy
               \* it was going to save

memoryVars == <<step, doc, copy, file, writer, captured, crossed>>

(***************************************************************************)
(* "loading": has read the records and sends them to the lexical index.    *)
(* "indexing": refreshing, sends the new memory to the lexical index.      *)
(* "saving": about to replace records.json.  "serving": answers from its   *)
(* copy.                                                                   *)
(***************************************************************************)
Steps == {"gone", "loading", "indexing", "saving", "serving"}

MemoryTypeOK ==
    /\ step \in [Procs -> Steps]
    /\ doc \in [Procs -> Docs \cup {NoDoc}]
    /\ copy \in [Procs -> SUBSET Docs]
    /\ file \subseteq Docs
    /\ writer \in Procs \cup {Nobody}
    /\ captured \subseteq Docs
    /\ crossed \subseteq Docs

MemoryInit ==
    /\ step = [p \in Procs |-> "gone"]
    /\ doc = [p \in Procs |-> NoDoc]
    /\ copy = [p \in Procs |-> {}]
    /\ file = {}
    /\ writer = Nobody
    /\ captured = {}
    /\ crossed = {}

\* Mutant: the copy starts without what is on disk.
ReadFile_StartsEmpty(p, d, s) ==
    /\ step[p] = "gone"
    /\ step' = [step EXCEPT ![p] = s]
    /\ doc' = [doc EXCEPT ![p] = d]
    /\ copy' = [copy EXCEPT ![p] = {d} \ {NoDoc}]
    /\ UNCHANGED <<file, writer, captured, crossed>>

\* The process reads the directory (IndexStore::at_path) and goes on to s,
\* with d in its copy if it captures d.
ReadFile(p, d, s) ==
    /\ step[p] = "gone"
    /\ step' = [step EXCEPT ![p] = s]
    /\ doc' = [doc EXCEPT ![p] = d]
    /\ copy' = [copy EXCEPT ![p] = file \cup ({d} \ {NoDoc})]
    /\ UNCHANGED <<file, writer, captured, crossed>>

\* capture: an empty store has nothing to send to the lexical index while
\* opening.
Capture(p, d) == ReadFile(p, d, IF file = {} THEN "indexing" ELSE "loading")

\* retrieve: an empty store is not queried.
Retrieve(p) ==
    /\ file # {}
    /\ ReadFile(p, NoDoc, "loading")

\* The first request of a recall server for this source.  The query
\* refreshes a store without a snapshot, which is one opened empty, and the
\* refresh saves it.
Recall(p) == ReadFile(p, NoDoc, IF file = {} THEN "saving" ELSE "loading")

\* LexicalState::writer
LockWriter(p) ==
    /\ step[p] \in {"loading", "indexing"}
    /\ writer = Nobody
    /\ writer' = p
    /\ UNCHANGED <<step, doc, copy, file, captured, crossed>>

\* Mutant: the wait has no end.
LockTimeout_Never(p) == step[p] = "gone" /\ step[p] # "gone" /\ UNCHANGED memoryVars

\* Another process has held the lock for WRITER_LOCK_WAIT.  The error ends
\* the process.
LockTimeout(p) ==
    /\ step[p] \in {"loading", "indexing"}
    /\ writer \notin {p, Nobody}
    /\ step' = [step EXCEPT ![p] = "gone"]
    /\ UNCHANGED <<doc, copy, file, writer, captured, crossed>>

\* commit_reload.  Opening is over, or the refresh goes on to save.
Commit(p) ==
    /\ writer = p
    /\ writer' = Nobody
    /\ step' = [step EXCEPT ![p] =
          CASE @ = "indexing" -> "saving"
            [] @ = "loading" /\ doc[p] # NoDoc -> "indexing"
            [] @ = "loading" /\ doc[p] = NoDoc ->
                  IF p \in Recalls THEN "serving" ELSE "gone"]
    /\ UNCHANGED <<doc, copy, file, captured, crossed>>

\* Does p hold a copy that it is going to save?
WillSave(p) ==
    \/ step[p] \in {"indexing", "saving"}
    \/ step[p] = "loading" /\ doc[p] # NoDoc

\* persist_compatibility_state
Save(p) ==
    /\ step[p] = "saving"
    /\ file' = copy[p]
    /\ step' = [step EXCEPT ![p] = IF p \in Recalls THEN "serving" ELSE "gone"]
    /\ captured' = captured \cup ({doc[p]} \ {NoDoc})
    /\ crossed' = IF \E q \in Procs \ {p} : WillSave(q)
                  THEN crossed \cup ({doc[p]} \ {NoDoc})
                  ELSE crossed \ {doc[p]}
    /\ UNCHANGED <<doc, copy, writer>>

\* The budget of a hook is used up (run_with_budget) and its main thread
\* ends the process with the worker in it; or a process is killed.  The
\* operating system releases the lock.
Die(p) ==
    /\ step[p] # "gone"
    /\ step' = [step EXCEPT ![p] = "gone"]
    /\ writer' = IF writer = p THEN Nobody ELSE writer
    /\ UNCHANGED <<doc, copy, file, captured, crossed>>

MemoryNext ==
    \/ \E p \in Hooks : Retrieve(p) \/ \E d \in Docs : Capture(p, d)
    \/ \E p \in Recalls : Recall(p)
    \/ \E p \in Procs :
          LockWriter(p) \/ LockTimeout(p) \/ Commit(p) \/ Save(p) \/ Die(p)

MemorySpec == MemoryInit /\ [][MemoryNext]_memoryVars

\* A running process runs on, and a wait for the lock ends one way or the
\* other.  Nothing says that the lock is ever granted to a given process.
MemoryFairness ==
    \A p \in Procs : WF_memoryVars(LockWriter(p) \/ LockTimeout(p) \/ Commit(p) \/ Save(p))

FairMemorySpec == MemorySpec /\ MemoryFairness

-----------------------------------------------------------------------------
(* Properties.                                                             *)

(* A captured memory survives everything that happens later, provided no    *)
(* other process was between reading and replacing records.json when it was *)
(* saved: captures and recalls that take turns lose nothing, however many   *)
(* of them die half way or give up waiting for the lock.                    *)
UncrossedCaptureSurvives == captured \ crossed \subseteq file

(* No hook waits for ever, whatever the other processes do with the lock:   *)
(* the user's prompt is behind it.                                          *)
EveryHookEnds == \A p \in Hooks : step[p] # "gone" ~> step[p] = "gone"
=============================================================================
