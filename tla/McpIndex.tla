------------------------------ MODULE McpIndex ------------------------------
(***************************************************************************)
(* The persistent project index (.lint-ai/<provider>-mcp-index) that MCP   *)
(* servers and recall commands share: open_persistent_store of             *)
(* src/src/integrations/mcp_index.rs.  An open takes a lock file, loads    *)
(* what was saved, and rebuilds it if the file workspace-state.json does   *)
(* not describe the workspace; it then copies in the memories captured by  *)
(* hooks.  A server goes on serving from its copy, without the lock, and   *)
(* saves the copy when it finds new memories.                              *)
(*                                                                         *)
(* A server lists the documents of the workspace before it asks for the    *)
(* lock (CodexMcp::store, ClaudeMcp::store); recall lists them when it has *)
(* to, under the lock.  The workspace is a number that grows with every    *)
(* edit; StatusOf gives what git says of it, which need not change when a  *)
(* file that is already modified is edited again.  The index store is      *)
(* taken at the level of DurableStore.                                     *)
(***************************************************************************)
EXTENDS Naturals

CONSTANTS
    Servers,    \* MCP server processes
    Recalls,    \* recall command processes
    Ignores,    \* sets of ignored paths
    IgnoresOf,  \* the ignored paths each process is started with
    MaxWorld,   \* bound: number of edits of the workspace
    StatusOf,   \* what HEAD and git status say of each workspace
    Memories,   \* memories that can be captured
    NoWorld,    \* nothing was listed
    NoRecords,  \* records.json does not exist
    NoState,    \* workspace-state.json does not exist, or cannot be parsed
    NoLock,     \* the lock file does not exist
    Orphan      \* the lock file of a process that was killed

Procs == Servers \cup Recalls
Worlds == 0..MaxWorld

\* Status never returns to what it was: the workspace is edited, and not
\* set back to an earlier commit.
ASSUME McpAssumption ==
    /\ Servers \cap Recalls = {}
    /\ IgnoresOf \in [Procs -> Ignores]
    /\ MaxWorld \in Nat
    /\ StatusOf \in [Worlds -> Nat]
    /\ \A v, w \in Worlds : v <= w => StatusOf[v] <= StatusOf[w]
    /\ NoWorld \notin Worlds
    /\ {NoLock, Orphan} \cap Procs = {} /\ NoLock # Orphan

\* Documents of a workspace, with the memories copied in.  History: sound
\* says that they were listed and saved by a process that held the lock all
\* the while, and that this process wrote the state it had read.
Index == [world : Worlds, ignores : Ignores, mems : SUBSET Memories, sound : BOOLEAN]
State == [status : {StatusOf[w] : w \in Worlds}, ignores : Ignores]

ASSUME SentinelAssumption == NoRecords \notin Index /\ NoState \notin State

VARIABLES
    workspace,  \* the workspace now
    memory,     \* the memories in the memory store
    step,       \* what each process is doing
    listed,     \* the workspace whose documents it has listed
    state,      \* the workspace state it has read
    copy,       \* the documents of its store
    dirty,      \* dirty of its store
    known,      \* history: the memories captured when it got the lock
    file,       \* records.json
    stateFile,  \* workspace-state.json
    lock        \* .initialization.lock

mcpVars == <<workspace, memory, step, listed, state, copy, dirty, known, file,
             stateFile, lock>>

(***************************************************************************)
(* "waiting": for the lock.  "loaded": has the lock and the saved index.   *)
(* "listing": will list documents.  "saving", "marking": about to save the *)
(* rebuilt index, to write the workspace state.  "syncing", "resaving":    *)
(* about to copy memories, to save them.  "serving": open_persistent_store *)
(* has returned.                                                           *)
(***************************************************************************)
Holding == {"loaded", "listing", "saving", "marking", "syncing", "resaving"}
Steps == {"gone", "waiting", "serving"} \cup Holding

McpTypeOK ==
    /\ workspace \in Worlds
    /\ memory \subseteq Memories
    /\ step \in [Procs -> Steps]
    /\ listed \in [Procs -> Worlds \cup {NoWorld}]
    /\ state \in [Procs -> State \cup {NoState}]
    /\ copy \in [Procs -> Index \cup {NoRecords}]
    /\ dirty \in [Procs -> BOOLEAN]
    /\ known \in [Procs -> SUBSET Memories]
    /\ file \in Index \cup {NoRecords}
    /\ stateFile \in State \cup {NoState}
    /\ lock \in Procs \cup {NoLock, Orphan}

McpInit ==
    /\ workspace = 0
    /\ memory = {}
    /\ step = [p \in Procs |-> "gone"]
    /\ listed = [p \in Procs |-> NoWorld]
    /\ state = [p \in Procs |-> NoState]
    /\ copy = [p \in Procs |-> NoRecords]
    /\ dirty = [p \in Procs |-> FALSE]
    /\ known = [p \in Procs |-> {}]
    /\ file = NoRecords
    /\ stateFile = NoState
    /\ lock = NoLock

-----------------------------------------------------------------------------
(* The world outside.                                                      *)

Edit ==
    /\ workspace < MaxWorld
    /\ workspace' = workspace + 1
    /\ UNCHANGED <<memory, step, listed, state, copy, dirty, known, file, stateFile, lock>>

\* A hook has saved a memory.
Capture(m) ==
    /\ memory' = memory \cup {m}
    /\ UNCHANGED <<workspace, step, listed, state, copy, dirty, known, file, stateFile, lock>>

-----------------------------------------------------------------------------
(* open_persistent_store.                                                  *)

Goto(p, s) == step' = [step EXCEPT ![p] = s]

\* The process ends, and with it everything it held in memory.
Gone(p) ==
    /\ Goto(p, "gone")
    /\ listed' = [listed EXCEPT ![p] = NoWorld]
    /\ state' = [state EXCEPT ![p] = NoState]
    /\ copy' = [copy EXCEPT ![p] = NoRecords]
    /\ dirty' = [dirty EXCEPT ![p] = FALSE]
    /\ known' = [known EXCEPT ![p] = {}]

Release(p) == lock' = IF lock = p THEN NoLock ELSE lock

Start(p) ==
    /\ step[p] = "gone"
    /\ Goto(p, "waiting")
    /\ listed' = [listed EXCEPT ![p] = IF p \in Servers THEN workspace ELSE NoWorld]
    /\ UNCHANGED <<workspace, memory, state, copy, dirty, known, file, stateFile, lock>>

\* StoreInitLock::acquire, IndexStore::at_path
Acquire(p) ==
    /\ step[p] = "waiting"
    /\ lock = NoLock
    /\ lock' = p
    /\ copy' = [copy EXCEPT ![p] = file]
    /\ known' = [known EXCEPT ![p] = memory]
    /\ Goto(p, "loaded")
    /\ UNCHANGED <<workspace, memory, listed, state, dirty, file, stateFile>>

\* Mutant: the wait has no end.
WaitTimeout_Never(p) == step[p] = "waiting" /\ step[p] # "waiting" /\ UNCHANGED mcpVars

\* The lock file has been there for STORE_INIT_LOCK_WAIT.
WaitTimeout(p) ==
    /\ step[p] = "waiting"
    /\ lock # NoLock
    /\ Gone(p)
    /\ UNCHANGED <<workspace, memory, file, stateFile, lock>>

\* workspace_state
WorkspaceState(p) == [status |-> StatusOf[workspace], ignores |-> IgnoresOf[p]]

\* Mutant: the ignored paths are not part of the state.
IsCurrent_AnyIgnores(p) ==
    copy[p] # NoRecords /\ stateFile # NoState /\ stateFile.status = StatusOf[workspace]

\* is_empty, index_is_current
IsCurrent(p) == copy[p] # NoRecords /\ stateFile = WorkspaceState(p)

\* Mutant: a current index is returned without the new memories.
Check_ReturnsCurrent(p) ==
    /\ step[p] = "loaded"
    /\ state' = [state EXCEPT ![p] = WorkspaceState(p)]
    /\ IF IsCurrent(p)
       THEN Goto(p, "serving") /\ Release(p)
       ELSE /\ Goto(p, IF p \in Servers THEN "saving" ELSE "listing")
            /\ UNCHANGED lock
    /\ UNCHANGED <<workspace, memory, listed, copy, dirty, known, file, stateFile>>

\* The list of a server that finds the index current is dropped.
Check(p) ==
    /\ step[p] = "loaded"
    /\ state' = [state EXCEPT ![p] = WorkspaceState(p)]
    /\ IF IsCurrent(p)
       THEN Goto(p, "syncing") /\ listed' = [listed EXCEPT ![p] = NoWorld]
       ELSE /\ Goto(p, IF p \in Servers THEN "saving" ELSE "listing")
            /\ UNCHANGED listed
    /\ UNCHANGED <<workspace, memory, copy, dirty, known, file, stateFile, lock>>

\* source_documents() of recall
List(p) ==
    /\ step[p] = "listing"
    /\ listed' = [listed EXCEPT ![p] = workspace]
    /\ Goto(p, "saving")
    /\ UNCHANGED <<workspace, memory, state, copy, dirty, known, file, stateFile, lock>>

\* Every document of the store is removed, memories too, and those listed
\* are inserted.
Rebuilt(p) ==
    [world |-> listed[p], ignores |-> IgnoresOf[p], mems |-> {}, sound |-> p \in Recalls]

Save(p) ==
    /\ step[p] = "saving"
    /\ copy' = [copy EXCEPT ![p] = Rebuilt(p)]
    /\ file' = Rebuilt(p)
    /\ listed' = [listed EXCEPT ![p] = NoWorld]
    /\ Goto(p, "marking")
    /\ UNCHANGED <<workspace, memory, state, dirty, known, stateFile, lock>>

Unsound(index) == [index EXCEPT !.sound = FALSE]

\* Loading, listing, synchronizing, or a refresh before records.json is
\* replaced: the error ends the process, and StoreInitLock is dropped.
OpenFails(p) ==
    /\ step[p] \in Holding \ {"marking"}
    /\ Gone(p)
    /\ Release(p)
    /\ UNCHANGED <<workspace, memory, file, stateFile>>

\* The refresh fails after records.json is replaced.
SaveFails(p) ==
    /\ step[p] = "saving"
    /\ file' = Unsound(Rebuilt(p))
    /\ Gone(p)
    /\ Release(p)
    /\ UNCHANGED <<workspace, memory, stateFile>>

\* Mutant: the state is read when it is written.
Mark_ReadsStateAgain(p) ==
    /\ step[p] = "marking"
    /\ stateFile' = WorkspaceState(p)
    /\ Goto(p, "syncing")
    /\ UNCHANGED <<workspace, memory, listed, state, copy, dirty, known, file, lock>>

\* write_index_state
Mark(p) ==
    /\ step[p] = "marking"
    /\ stateFile' = state[p]
    /\ Goto(p, "syncing")
    /\ UNCHANGED <<workspace, memory, listed, state, copy, dirty, known, file, lock>>

\* The write fails before the file is emptied or after it.
MarkFails(p) ==
    /\ step[p] = "marking"
    /\ stateFile' \in {stateFile, NoState}
    /\ file' = Unsound(file)
    /\ Gone(p)
    /\ Release(p)
    /\ UNCHANGED <<workspace, memory>>

Synced(p) == [copy[p] EXCEPT !.mems = @ \cup memory]

\* sync_memory_documents
Sync(p) ==
    /\ step[p] = "syncing"
    /\ copy' = [copy EXCEPT ![p] = Synced(p)]
    /\ IF Synced(p) = copy[p]
       THEN Goto(p, "serving") /\ Release(p)
       ELSE Goto(p, "resaving") /\ UNCHANGED lock
    /\ UNCHANGED <<workspace, memory, listed, state, dirty, known, file, stateFile>>

Resave(p) ==
    /\ step[p] = "resaving"
    /\ file' = copy[p]
    /\ Goto(p, "serving")
    /\ Release(p)
    /\ UNCHANGED <<workspace, memory, listed, state, copy, dirty, known, stateFile>>

ResaveFails(p) ==
    /\ step[p] = "resaving"
    /\ file' = copy[p]
    /\ Gone(p)
    /\ Release(p)
    /\ UNCHANGED <<workspace, memory, stateFile>>

-----------------------------------------------------------------------------
(* Serving.                                                                *)

\* The tool list_memories synchronizes and does not refresh.
ListMemories(p) ==
    /\ p \in Servers
    /\ step[p] = "serving"
    /\ copy' = [copy EXCEPT ![p] = Synced(p)]
    /\ dirty' = [dirty EXCEPT ![p] = @ \/ Synced(p) # copy[p]]
    /\ UNCHANGED <<workspace, memory, step, listed, state, known, file, stateFile, lock>>

\* The tool search synchronizes, and its query refreshes a dirty store,
\* which saves it.
Search(p) ==
    /\ p \in Servers
    /\ step[p] = "serving"
    /\ copy' = [copy EXCEPT ![p] = Synced(p)]
    /\ dirty' = [dirty EXCEPT ![p] = FALSE]
    /\ known' = [known EXCEPT ![p] = memory]
    /\ file' = IF dirty[p] \/ Synced(p) # copy[p] THEN Unsound(Synced(p)) ELSE file
    /\ UNCHANGED <<workspace, memory, step, listed, state, stateFile, lock>>

\* recall answers its query and ends.
Answer(p) ==
    /\ p \in Recalls
    /\ step[p] = "serving"
    /\ Gone(p)
    /\ UNCHANGED <<workspace, memory, file, stateFile, lock>>

\* The process is killed; nobody removes its lock file.
Killed(p) ==
    /\ step[p] # "gone"
    /\ Gone(p)
    /\ lock' = IF lock = p THEN Orphan ELSE lock
    /\ UNCHANGED <<workspace, memory, file, stateFile>>

\* What a process does when it runs on.
Run(p) ==
    \/ Acquire(p) \/ WaitTimeout(p) \/ Check(p) \/ List(p) \/ OpenFails(p)
    \/ Save(p) \/ SaveFails(p) \/ Mark(p) \/ MarkFails(p)
    \/ Sync(p) \/ Resave(p) \/ ResaveFails(p)

McpNext ==
    \/ Edit
    \/ \E m \in Memories : Capture(m)
    \/ \E p \in Procs :
          Start(p) \/ Run(p) \/ ListMemories(p) \/ Search(p) \/ Answer(p) \/ Killed(p)

McpSpec == McpInit /\ [][McpNext]_mcpVars

\* A process that opens the index runs on; its wait for the lock ends one
\* way or the other.
FairSpec == McpSpec /\ \A p \in Procs : WF_mcpVars(Run(p))

-----------------------------------------------------------------------------
(* Properties.                                                             *)

\* The next process with ignored paths i to open the index will take it as
\* it is.
Marked(i) == lock = NoLock /\ stateFile = [status |-> StatusOf[workspace], ignores |-> i]

Describes(i, index) ==
    /\ index.ignores = i
    /\ StatusOf[index.world] = StatusOf[workspace]

(* An index that the next open will not rebuild holds the documents of a    *)
(* workspace git cannot tell from the present one, listed under the same    *)
(* ignored paths, whatever was edited, killed or refused while it was       *)
(* built, provided it was listed and saved under the lock and the state     *)
(* file was written (open_persistent_store).                                *)
MarkedIsCurrent ==
    \A i \in Ignores :
        Marked(i) /\ file # NoRecords /\ file.sound => Describes(i, file)

(* What recall answers from was listed under its own ignored paths, at the  *)
(* workspace state it read or a later one, whatever other processes did to  *)
(* the files in the meantime (again provided the index was sound).          *)
RecallAnswersFresh ==
    \A p \in Recalls : step[p] = "serving" /\ copy[p].sound =>
        /\ copy[p].ignores = IgnoresOf[p]
        /\ StatusOf[copy[p].world] >= state[p].status

(* A process serves every memory that was captured before it got the lock,  *)
(* and a server every memory captured before its last search, although a    *)
(* rebuild throws away the memories that were in the index and any other    *)
(* process may save an index without them (sync_memory_documents).          *)
KnownMemoriesServed ==
    \A p \in Procs : step[p] = "serving" => known[p] \subseteq copy[p].mems

(* Every open of the index ends, with the index or with an error, even if   *)
(* the lock file was left behind by a process that was killed               *)
(* (StoreInitLock::acquire).                                                *)
EveryOpenEnds ==
    \A p \in Procs : step[p] \in {"waiting"} \cup Holding ~> step[p] \in {"serving", "gone"}
=============================================================================
