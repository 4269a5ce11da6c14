---------------------------- MODULE MemoryServer ----------------------------
(***************************************************************************)
(* The HTTP memory server: the handlers of src/src/bin/server.rs, the      *)
(* MemoryService of src/src/memory_api.rs they mutate, and the immutable   *)
(* MemorySearchService they publish for searches.                          *)
(*                                                                         *)
(* A mutation takes the writer gate (or is refused with 429), hands the    *)
(* work to a blocking task and waits for it.  The task locks the service,  *)
(* mutates it, refreshes the index store, takes a view of the result,      *)
(* unlocks the service and only then replaces the published view.  A       *)
(* request that times out drops its handler, and with it the gate, but not *)
(* its task.                                                               *)
(*                                                                         *)
(* The index store is taken at the level of DurableStore: a refresh either *)
(* saves and indexes all documents or fails at one of its steps.  One user *)
(* is modelled (every map of the service is keyed by user) and one message *)
(* per request, so that a request id is also a memory id.                  *)
(***************************************************************************)
EXTENDS Naturals, Sequences, SequencesExt

CONSTANTS
    Handlers,     \* requests that can be in flight at once
    Keys,         \* request ids, and ids of the memories they add
    NoKey,
    Payloads,     \* what a request can carry: [body, supersedes, expires]
    Invalid,      \* a payload that fails validation
    NoDoc,        \* no memory, no fingerprint
    NoIndex,      \* no snapshot yet
    Nobody,       \* nobody holds the writer gate
    NoTask,
    MaxBatch,     \* bound: requests in one /add/batch
    Budget        \* bound: number of faults of each kind

ASSUME ServerAssumption ==
    /\ NoKey \notin Keys
    /\ \A p \in Payloads :
          p.supersedes \in Keys \cup {NoKey} /\ p.expires \in BOOLEAN
    /\ Invalid \notin Payloads
    /\ Nobody \notin Handlers
    /\ MaxBatch \in Nat \ {0}
    /\ Budget \in [{"timeout", "io", "restart"} -> Nat]

Memory == [payload : Payloads, supersedes : Keys \cup {NoKey}]
Image == [Keys -> Memory \cup {NoDoc}]
Empty == [k \in Keys |-> NoDoc]

\* MemoryService: store.source_docs, request_fingerprints, superseded_ids,
\* and the store's dirty flag and snapshot.
Service == [docs : Image, prints : [Keys -> Payloads \cup {NoDoc}],
            superseded : SUBSET Keys, dirty : BOOLEAN,
            index : Image \cup {NoIndex}]

\* MemorySearchService
View == [docs : Image, superseded : SUBSET Keys, index : Image \cup {NoIndex}]

Request == [key : Keys, payload : Payloads \cup {Invalid}]

Operation ==
    [op : {"add"}, requests : UNION {[1..n -> Request] : n \in 1..MaxBatch}]
    \cup [op : {"delete"}, key : Keys]
    \cup [op : {"supersede"}, key : Keys, old : Keys]
    \cup [op : {"expire"}]

\* A blocking task: about to run; about to swap the published view; ended,
\* with its reply.  claims are the keys a reply of success speaks for.
Task ==
    [state : {"queued"}, operation : Operation]
    \cup [state : {"swapping"}, op : {"add", "delete", "supersede", "expire"},
          claims : SUBSET Keys, next : View]
    \cup [state : {"done"}, op : {"add", "delete", "supersede", "expire"},
          claims : SUBSET Keys]

\* The values that stand for nothing are no value of what they stand in for.
ASSUME NothingAssumption ==
    /\ NoDoc \notin Memory \cup Payloads
    /\ NoIndex \notin Image
    /\ NoTask \notin Task

VARIABLES
    gate,       \* writer_gate
    task,       \* the blocking task each handler has spawned
    waiting,    \* handlers whose client has not had an answer
    service,    \* service
    published,  \* published_search
    disk,       \* what opening the index directory would load
    late,       \* has the deadline of the expiring memories passed?
    budget,     \* faults that may still happen
    acked       \* history: memories added with success and not removed since

vars == <<gate, task, waiting, service, published, disk, late, budget, acked>>

TypeOK ==
    /\ gate \in Handlers \cup {Nobody}
    /\ task \in [Handlers -> Task \cup {NoTask}]
    /\ waiting \subseteq Handlers
    /\ service \in Service
    /\ published \in View
    /\ disk \in Image
    /\ late \in BOOLEAN
    /\ budget \in [DOMAIN Budget -> Nat]
    /\ \A kind \in DOMAIN Budget : budget[kind] <= Budget[kind]
    /\ acked \subseteq Keys

-----------------------------------------------------------------------------
(* MemoryService.                                                          *)

\* published_search
ViewOf(s) == [docs |-> s.docs, superseded |-> s.superseded, index |-> s.index]

\* Mutant: the fingerprints are not rebuilt.
Restored_NoFingerprints(image) ==
    [docs |-> image,
     prints |-> [k \in Keys |-> NoDoc],
     superseded |-> {image[k].supersedes : k \in {x \in Keys : image[x] # NoDoc}} \ {NoKey},
     dirty |-> FALSE,
     index |-> IF image = Empty THEN NoIndex ELSE image]

\* Mutant: the store is opened without building its index.
Restored_Unindexed(image) ==
    [docs |-> image,
     prints |-> [k \in Keys |-> IF image[k] = NoDoc THEN NoDoc ELSE image[k].payload],
     superseded |-> {image[k].supersedes : k \in {x \in Keys : image[x] # NoDoc}} \ {NoKey},
     dirty |-> FALSE,
     index |-> NoIndex]

\* MemoryService::new over a store just opened.
Restored(image) ==
    [docs |-> image,
     prints |-> [k \in Keys |-> IF image[k] = NoDoc THEN NoDoc ELSE image[k].payload],
     superseded |-> {image[k].supersedes : k \in {x \in Keys : image[x] # NoDoc}} \ {NoKey},
     dirty |-> FALSE,
     index |-> IF image = Empty THEN NoIndex ELSE image]

Outcome(s, d, ok) == [service |-> s, disk |-> d, ok |-> ok, fault |-> FALSE]
Fault(s, d) == [service |-> s, disk |-> d, ok |-> FALSE, fault |-> TRUE]

\* Mutant: a refresh that fails leaves the store clean.
RefreshOutcomes_CleanOnError(s) ==
    LET indexed == [s EXCEPT !.index = s.docs, !.dirty = FALSE] IN
    IF ~s.dirty /\ s.index # NoIndex THEN {Outcome(s, disk, TRUE)}
    ELSE {Outcome(indexed, s.docs, TRUE)}
         \cup (IF budget["io"] > 0 THEN {Fault(indexed, disk)} ELSE {})

\* IndexStore::refresh: nothing to do, or index and save everything; or fail
\* before publishing, before records.json is replaced, or after.
RefreshOutcomes(s) ==
    LET indexed == [s EXCEPT !.index = s.docs] IN
    IF ~s.dirty /\ s.index # NoIndex THEN {Outcome(s, disk, TRUE)}
    ELSE {Outcome([indexed EXCEPT !.dirty = FALSE], s.docs, TRUE)}
         \cup (IF budget["io"] > 0
               THEN {Fault(s, disk), Fault(indexed, disk), Fault(indexed, s.docs)}
               ELSE {})

\* add_unpublished.  A request refused by validation or by its fingerprint
\* stops the batch; what the earlier requests did stays.
AddUnpublished(step, r) ==
    LET s == step.service IN
    CASE ~step.ok -> step
      [] step.ok /\ r.payload = Invalid -> [step EXCEPT !.ok = FALSE]
      [] step.ok /\ r.payload # Invalid /\ s.prints[r.key] # NoDoc ->
            [step EXCEPT !.ok = (s.prints[r.key] = r.payload)]
      [] OTHER ->
            [step EXCEPT !.service =
               [s EXCEPT
                  !.docs[r.key] = [payload |-> r.payload,
                                   supersedes |-> r.payload.supersedes],
                  !.prints[r.key] = r.payload,
                  !.superseded = @ \cup ({r.payload.supersedes} \ {NoKey}),
                  !.dirty = TRUE]]

\* add, and add_batch for more than one request.
AddOutcomes(requests) ==
    LET step == FoldLeft(AddUnpublished, [service |-> service, ok |-> TRUE], requests)
    IN  IF step.ok THEN RefreshOutcomes(step.service)
                   ELSE {Outcome(step.service, disk, FALSE)}

RemoveAll(keys) ==
    IF keys = {} THEN {Outcome(service, disk, TRUE)}
    ELSE RefreshOutcomes(
           [service EXCEPT
              !.docs = [k \in Keys |-> IF k \in keys THEN NoDoc ELSE @[k]],
              !.dirty = TRUE])

\* delete: a memory that is already absent is a success without a refresh.
DeleteOutcomes(key) == RemoveAll({k \in {key} : service.docs[k] # NoDoc})

Expired(image) ==
    {k \in Keys : late /\ image[k] # NoDoc /\ image[k].payload.expires}

ExpireOutcomes == RemoveAll(Expired(service.docs))

SupersedeOutcomes(key, old) ==
    IF service.docs[key] = NoDoc THEN {Outcome(service, disk, TRUE)}
    ELSE RefreshOutcomes([service EXCEPT !.docs[key].supersedes = old,
                                         !.superseded = @ \cup {old},
                                         !.dirty = TRUE])

Outcomes(operation) ==
    CASE operation.op = "add" -> AddOutcomes(operation.requests)
      [] operation.op = "delete" -> DeleteOutcomes(operation.key)
      [] operation.op = "supersede" -> SupersedeOutcomes(operation.key, operation.old)
      [] operation.op = "expire" -> ExpireOutcomes

\* MemorySearchService::search, for a query that matches every memory.
Visible(view) ==
    {k \in Keys :
        /\ view.index # NoIndex /\ view.index[k] # NoDoc
        /\ view.docs[k] # NoDoc
        /\ k \notin view.superseded
        /\ k \notin Expired(view.docs)}

-----------------------------------------------------------------------------
(* The handlers and their tasks.                                           *)

Init ==
    /\ gate = Nobody
    /\ task = [h \in Handlers |-> NoTask]
    /\ waiting = {}
    /\ service = Restored(Empty)
    /\ published = ViewOf(service)
    /\ disk = Empty
    /\ late = FALSE
    /\ budget = Budget
    /\ acked = {}

\* Mutant: no gate.
Admit_Ungated(h, operation) ==
    /\ h \notin waiting /\ task[h] = NoTask
    /\ gate' = h
    /\ waiting' = waiting \cup {h}
    /\ task' = [task EXCEPT ![h] = [state |-> "queued", operation |-> operation]]
    /\ UNCHANGED <<service, published, disk, late, budget, acked>>

\* writer_gate.try_lock succeeds and the blocking task is spawned.
Admit(h, operation) ==
    /\ gate = Nobody
    /\ h \notin waiting /\ task[h] = NoTask
    /\ gate' = h
    /\ waiting' = waiting \cup {h}
    /\ task' = [task EXCEPT ![h] = [state |-> "queued", operation |-> operation]]
    /\ UNCHANGED <<service, published, disk, late, budget, acked>>

\* What a reply of success tells the client about: memories now stored, or
\* memories now deleted.
Claims(operation, s) ==
    CASE operation.op = "add" ->
            {operation.requests[i].key : i \in 1..Len(operation.requests)}
              \cap {k \in Keys : s.docs[k] # NoDoc}
      [] operation.op = "delete" -> {operation.key}
      [] OTHER -> {}

\* A mutation voids the claims on the memories it adds or removes.
Voided(keys, s) == {k \in keys : (s.docs[k] = NoDoc) = (service.docs[k] = NoDoc)}

\* publish_mutation up to the release of the service lock.
Mutate(h) ==
    /\ task[h] # NoTask /\ task[h].state = "queued"
    /\ \E o \in Outcomes(task[h].operation) :
          LET op == task[h].operation.op
              claims == Claims(task[h].operation, o.service)
          IN  /\ service' = o.service
              /\ disk' = o.disk
              /\ budget' = IF o.fault THEN [budget EXCEPT !["io"] = @ - 1] ELSE budget
              /\ task' = [g \in Handlers |->
                    CASE g = h /\ o.ok -> [state |-> "swapping", op |-> op,
                                           claims |-> claims, next |-> ViewOf(o.service)]
                      [] g = h /\ ~o.ok -> [state |-> "done", op |-> op, claims |-> {}]
                      [] g # h /\ task[g] # NoTask /\ task[g].state # "queued" ->
                            [task[g] EXCEPT !.claims = Voided(@, o.service)]
                      [] OTHER -> task[g]]
              /\ acked' = Voided(acked, o.service)
    /\ UNCHANGED <<gate, waiting, published, late>>

\* publish_mutation after it: the swap of the published view.
Swap(h) ==
    /\ task[h] # NoTask /\ task[h].state = "swapping"
    /\ published' = task[h].next
    /\ task' = [task EXCEPT ![h] = [state |-> "done", op |-> task[h].op,
                                    claims |-> task[h].claims]]
    /\ UNCHANGED <<gate, waiting, service, disk, late, budget, acked>>

\* The handler answers and drops the gate.
Respond(h) ==
    /\ h \in waiting
    /\ task[h].state = "done"
    /\ gate' = Nobody
    /\ waiting' = waiting \ {h}
    /\ task' = [task EXCEPT ![h] = NoTask]
    /\ acked' = IF task[h].op = "add" THEN acked \cup task[h].claims ELSE acked
    /\ UNCHANGED <<service, published, disk, late, budget>>

\* TimeoutLayer drops the handler's future: the client gets 408, the gate is
\* free, the task goes on.
TimeOut(h) ==
    /\ budget["timeout"] > 0
    /\ h \in waiting
    /\ task[h].state # "done"
    /\ gate' = Nobody
    /\ waiting' = waiting \ {h}
    /\ budget' = [budget EXCEPT !["timeout"] = @ - 1]
    /\ UNCHANGED <<task, service, published, disk, late, acked>>

\* The result of a task nobody waits for is dropped.
Detached(h) ==
    /\ h \notin waiting
    /\ task[h] # NoTask /\ task[h].state = "done"
    /\ task' = [task EXCEPT ![h] = NoTask]
    /\ UNCHANGED <<gate, waiting, service, published, disk, late,
                   budget, acked>>

\* The process ends and is started again over the same directory.
Restart ==
    /\ budget["restart"] > 0
    /\ budget' = [budget EXCEPT !["restart"] = @ - 1]
    /\ gate' = Nobody
    /\ waiting' = {}
    /\ task' = [h \in Handlers |-> NoTask]
    /\ service' = Restored(disk)
    /\ published' = ViewOf(Restored(disk))
    /\ UNCHANGED <<disk, late, acked>>

\* The expires_at_ms of the expiring memories passes.
Deadline ==
    /\ ~late
    /\ \E p \in Payloads : p.expires
    /\ late' = TRUE
    /\ UNCHANGED <<gate, task, waiting, service, published, disk,
                   budget, acked>>

Next ==
    \/ \E h \in Handlers :
          \/ \E operation \in Operation : Admit(h, operation)
          \/ Mutate(h) \/ Swap(h) \/ Respond(h) \/ TimeOut(h) \/ Detached(h)
    \/ Restart
    \/ Deadline

Spec == Init /\ [][Next]_vars

-----------------------------------------------------------------------------
(* Properties.                                                             *)

Quiescent == gate = Nobody /\ \A h \in Handlers : task[h] = NoTask

(* A memory whose add was answered with success is on disk, whatever failed *)
(* or timed out around it, until a mutation removes it: a retry that finds  *)
(* the request's fingerprint must still save what the first try could not.  *)
AckedIsDurable == \A k \in acked : disk[k] # NoDoc

(* "Reusing a request ID with a different session or message payload is     *)
(* rejected" (docs/server.md): while a memory exists its payload never      *)
(* changes, restarts included, for which the fingerprints must be rebuilt   *)
(* from the stored memories.                                                *)
PayloadStable ==
    [][\A k \in Keys : service.docs[k] # NoDoc /\ service.docs[k]' # NoDoc
          => service.docs[k].payload' = service.docs[k].payload]_vars

(* "Search requests use the latest immutable MemorySearchService snapshot"  *)
(* (docs/server.md): with no mutation in progress and none half done, a     *)
(* search sees what the service holds.  It holds while no mutation outlives *)
(* its handler: one that does runs beside the next, and the older view may  *)
(* be swapped in last.                                                      *)
NoTimeout == budget["timeout"] = Budget["timeout"]

LatestIsPublished ==
    NoTimeout /\ Quiescent /\ ~service.dirty => published = ViewOf(service)

(* A memory whose add was answered with success is found by the next        *)
(* search, during later mutations, failed ones and restarts too, unless it  *)
(* is removed, replaced or expired; with the same exception.                *)
AckedIsSearchable ==
    NoTimeout =>
        acked \subseteq Visible(published) \cup published.superseded
                                          \cup Expired(published.docs)
=============================================================================
