---------------------------- MODULE DurableStore ----------------------------
(***************************************************************************)
(* What the index store of src/src/pipeline.rs promises the programs that  *)
(* open it (hooks, MCP servers, the HTTP server): a map from document ids  *)
(* to contents, of which the last saved image survives a stop at any       *)
(* moment.  Nothing is said of files, indexes, revisions or threads.       *)
(***************************************************************************)
CONSTANTS
    Docs,       \* document ids
    Contents,   \* document contents
    NoDoc       \* the content of an id that holds no document

VARIABLES
    running,    \* is a process holding the store open?
    live,       \* the documents that process sees
    saved       \* the documents the next process will find

vars == <<running, live, saved>>

Image == [Docs -> Contents \cup {NoDoc}]
Empty == [d \in Docs |-> NoDoc]

TypeOK ==
    /\ running \in BOOLEAN
    /\ live \in Image
    /\ saved \in Image

Init ==
    /\ running = FALSE
    /\ live = Empty
    /\ saved = Empty

Start ==
    /\ ~running
    /\ running' = TRUE
    /\ live' = saved
    /\ UNCHANGED saved

Put(d, c) ==
    /\ running
    /\ live' = [live EXCEPT ![d] = c]
    /\ UNCHANGED <<running, saved>>

Delete(d) ==
    /\ running
    /\ live' = [live EXCEPT ![d] = NoDoc]
    /\ UNCHANGED <<running, saved>>

\* The whole image is saved at once: a stop finds the image of some Save,
\* never a mixture of two.
Save ==
    /\ running
    /\ saved' = live
    /\ UNCHANGED <<running, live>>

Stop ==
    /\ running
    /\ running' = FALSE
    /\ live' = Empty
    /\ UNCHANGED saved

Next ==
    \/ Start \/ Save \/ Stop
    \/ \E d \in Docs : Delete(d) \/ \E c \in Contents : Put(d, c)

Spec == Init /\ [][Next]_vars
=============================================================================
