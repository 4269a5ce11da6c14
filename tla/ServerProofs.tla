---------------------------- MODULE ServerProofs ----------------------------
(***************************************************************************)
(* Theorems about the two servers.  MemoryServer: for any number of        *)
(* handlers, memories and payloads, batches of any length, and any number  *)
(* of time-outs, failed refreshes and restarts.  McpIndex: for any number  *)
(* of servers, recall commands, edits and memories.                        *)
(***************************************************************************)
EXTENDS MemoryServer, McpIndex, FiniteSetTheorems, TLAPS

(***************************************************************************)
(* The inductive invariant.  What a client was told is in three places,    *)
(* the documents, their file and the index of the service, and a failed    *)
(* refresh leaves it in all of them; without a time-out there is one       *)
(* mutation at a time, so that the view it publishes is still the latest   *)
(* when it is swapped in.                                                  *)
(***************************************************************************)

HasRun(t) == t # NoTask /\ t.state # "queued"

\* The memories a reply of success has told a client about, or is about to.
Spoken == acked \cup UNION {task[h].claims : h \in {g \in Handlers : HasRun(task[g]) /\ task[g].op = "add"}}

\* The gate belongs to the one handler whose client is waiting.
GateIsWaiting ==
    /\ waiting = IF gate = Nobody THEN {} ELSE {gate}
    /\ \A h \in waiting : task[h] # NoTask

\* A store that is not dirty is on disk as it is.
SavedWhenClean == ~service.dirty => disk = service.docs

\* A store that is not dirty has the index of its documents, or has never
\* held one since it was opened.
IndexedFor(s) ==
    ~s.dirty =>
        IF s.index = NoIndex THEN s.docs = Empty /\ s.prints = [k \in Keys |-> NoDoc]
                             ELSE s.index = s.docs

\* Every memory that is stored, or comes back at a restart, has its fingerprint.
PrintsMatch ==
    \A k \in Keys :
        /\ service.docs[k] # NoDoc => service.prints[k] = service.docs[k].payload
        /\ disk[k] # NoDoc => service.prints[k] = disk[k].payload

\* Also where the store is dirty, because a later mutation has failed.
SpokenIsStored ==
    \A k \in Spoken :
        /\ service.docs[k] # NoDoc
        /\ disk[k] # NoDoc
        /\ service.index # NoIndex /\ service.index[k] # NoDoc

\* What one mutation at a time keeps true of the published view.
TasksAreAwaited == \A h \in Handlers : task[h] # NoTask => h \in waiting

Swapping(t) == t # NoTask /\ t.state = "swapping"

NextIsLatest == \A h \in Handlers : Swapping(task[h]) => task[h].next = ViewOf(service)

PublishedIsLatest ==
    ~service.dirty /\ (\A h \in Handlers : ~Swapping(task[h])) => published = ViewOf(service)

\* Answered with success, or done and about to be.
Announced == acked \cup UNION {task[h].claims : h \in {g \in Handlers :
                 HasRun(task[g]) /\ task[g].state = "done" /\ task[g].op = "add"}}

AnnouncedIsPublished ==
    \A k \in Announced :
        /\ published.docs[k] # NoDoc
        /\ published.index # NoIndex /\ published.index[k] # NoDoc

MutationInv ==
    /\ TypeOK
    /\ GateIsWaiting
    /\ SavedWhenClean
    /\ IndexedFor(service)
    /\ PrintsMatch
    /\ SpokenIsStored

-----------------------------------------------------------------------------
(* One batch of requests, folded into the service.                         *)

AddStep(requests, i, sofar) == AddUnpublished(sofar, requests[i])

LastOf(S) == Max(S)

\* After the requests T of a batch: the service is changed by additions only.
PartlyAdded(requests, T, sofar) ==
    /\ sofar \in [service : Service, ok : BOOLEAN]
    /\ sofar.service.index = service.index
    /\ sofar.service.dirty \/ sofar.service = service
    /\ \A k \in Keys :
          /\ sofar.service.docs[k] # NoDoc => sofar.service.prints[k] = sofar.service.docs[k].payload
          /\ service.prints[k] # NoDoc => sofar.service.prints[k] = service.prints[k]
          /\ service.docs[k] # NoDoc => sofar.service.docs[k] = service.docs[k]
    /\ T # {} /\ sofar.ok /\ service.prints = [k \in Keys |-> NoDoc] => sofar.service.dirty

Adding == INSTANCE FoldTheorems WITH Step <- AddStep, Choice <- LastOf, Inv <- PartlyAdded

Added(requests) == FoldLeft(AddUnpublished, [service |-> service, ok |-> TRUE], requests)

LEMMA AddedIsFold ==
    ASSUME NEW requests
    PROVE  Added(requests) =
              Adding!Fold(requests, [service |-> service, ok |-> TRUE], DOMAIN requests)
  BY DEF Added, FoldLeft, MapThenFoldSet, Adding!Fold, AddStep, LastOf

LEMMA AddStepKeeps ==
    ASSUME NEW requests, NEW i, requests[i] \in Request, NEW T, NEW U, NEW sofar,
           PartlyAdded(requests, T, sofar)
    PROVE  PartlyAdded(requests, U, AddStep(requests, i, sofar))
<1> DEFINE r == requests[i]
           s == sofar.service
<1>1. r \in Request /\ sofar \in [service : Service, ok : BOOLEAN] /\ s \in Service
  BY DEF PartlyAdded
<1>2. CASE ~sofar.ok
  <2>1. AddStep(requests, i, sofar) = sofar
    BY <1>2 DEF AddStep, AddUnpublished
  <2> QED BY <1>2, <2>1 DEF PartlyAdded
<1>3. CASE sofar.ok /\ r.payload = Invalid
  <2>1. AddStep(requests, i, sofar) = [sofar EXCEPT !.ok = FALSE]
    BY <1>3 DEF AddStep, AddUnpublished
  <2> QED BY <1>1, <2>1 DEF PartlyAdded
<1>4. CASE sofar.ok /\ r.payload # Invalid /\ s.prints[r.key] # NoDoc
  <2>1. AddStep(requests, i, sofar) = [sofar EXCEPT !.ok = (s.prints[r.key] = r.payload)]
    BY <1>4 DEF AddStep, AddUnpublished
  <2>2. service.prints = [k \in Keys |-> NoDoc] => s.dirty
    BY <1>1, <1>4 DEF PartlyAdded, Request
  <2> QED BY <1>1, <2>1, <2>2 DEF PartlyAdded
<1>5. CASE sofar.ok /\ r.payload # Invalid /\ s.prints[r.key] = NoDoc
  <2> DEFINE m == [payload |-> r.payload, supersedes |-> r.payload.supersedes]
             t == [s EXCEPT !.docs[r.key] = m,
                            !.prints[r.key] = r.payload,
                            !.superseded = @ \cup ({r.payload.supersedes} \ {NoKey}),
                            !.dirty = TRUE]
  <2>1. AddStep(requests, i, sofar) = [sofar EXCEPT !.service = t]
    BY <1>5 DEF AddStep, AddUnpublished
  <2>2. r.key \in Keys /\ r.payload \in Payloads /\ m \in Memory /\ m.payload = r.payload
    BY <1>1, <1>5, ServerAssumption DEF Request, Memory
  <2>3. t \in Service /\ t.dirty /\ t.index = s.index
    BY <1>1, <2>2, ServerAssumption DEF Service, Image
  <2>4. /\ t.docs[r.key] = m /\ t.prints[r.key] = r.payload
        /\ \A k \in Keys \ {r.key} : t.docs[k] = s.docs[k] /\ t.prints[k] = s.prints[k]
    BY <1>1, <2>2 DEF Service, Image
  <2>5. service.prints[r.key] = NoDoc /\ service.docs[r.key] = NoDoc
    <3>1. service.prints[r.key] = NoDoc
      BY <1>5, <2>2 DEF PartlyAdded
    <3>2. service.docs[r.key] = NoDoc \/ s.docs[r.key] # NoDoc
      BY <2>2 DEF PartlyAdded
    <3>3. s.docs[r.key] = NoDoc
      BY <1>1, <1>5, <2>2, NothingAssumption DEF PartlyAdded, Service, Image, Memory
    <3> QED BY <3>1, <3>2, <3>3
  <2> HIDE DEF t, m
  <2>6. [sofar EXCEPT !.service = t] \in [service : Service, ok : BOOLEAN]
        /\ [sofar EXCEPT !.service = t].service = t
    BY <1>1, <2>3
  <2>7. \A k \in Keys :
          /\ t.docs[k] # NoDoc => t.prints[k] = t.docs[k].payload
          /\ service.prints[k] # NoDoc => t.prints[k] = service.prints[k]
          /\ service.docs[k] # NoDoc => t.docs[k] = service.docs[k]
    BY <2>2, <2>4, <2>5 DEF PartlyAdded
  <2> QED BY <2>1, <2>3, <2>6, <2>7 DEF PartlyAdded
<1> QED BY <1>1, <1>2, <1>3, <1>4, <1>5

Batch == UNION {[1..n -> Request] : n \in 1..MaxBatch}

LEMMA BatchIsAdded ==
    ASSUME MutationInv, NEW requests \in Batch
    PROVE  PartlyAdded(requests, DOMAIN requests, Added(requests))
<1>1. PICK n \in 1..MaxBatch : requests \in [1..n -> Request]
  BY DEF Batch
<1>2. n \in Nat /\ DOMAIN requests = 1..n /\ IsFiniteSet(1..n)
  <2>1. n \in Nat /\ DOMAIN requests = 1..n
    BY <1>1, ServerAssumption
  <2>2. 1 \in Int /\ n \in Int
    BY <2>1
  <2> QED BY <2>1, <2>2, FS_Interval
<1>3. Adding!IsFiniteSet(1..n)
  BY <1>2 DEF IsFiniteSet, Adding!IsFiniteSet
<1>4. Adding!Chooses(1..n)
  <2> SUFFICES ASSUME NEW S \in SUBSET (1..n), S # {} PROVE LastOf(S) \in S
    BY DEF Adding!Chooses
  <2>1. \E x \in S : \A y \in S : x >= y
    BY <1>2, Adding!LastIndex
  <2> QED BY <2>1 DEF LastOf, Max
<1>5. PartlyAdded(requests, {}, [service |-> service, ok |-> TRUE])
  BY DEF MutationInv, TypeOK, PrintsMatch, PartlyAdded
<1>6. \A S \in SUBSET (1..n) : \A sofar :
         S # {} /\ PartlyAdded(requests, S \ {LastOf(S)}, sofar)
            => PartlyAdded(requests, S, AddStep(requests, LastOf(S), sofar))
  <2> SUFFICES ASSUME NEW S \in SUBSET (1..n), NEW sofar, S # {},
                      PartlyAdded(requests, S \ {LastOf(S)}, sofar)
               PROVE  PartlyAdded(requests, S, AddStep(requests, LastOf(S), sofar))
    OBVIOUS
  <2>1. requests[LastOf(S)] \in Request
    BY <1>1, <1>4 DEF Adding!Chooses
  <2> QED BY <2>1, AddStepKeeps
<1>7. PartlyAdded(requests, 1..n,
                  Adding!Fold(requests, [service |-> service, ok |-> TRUE], 1..n))
  BY <1>3, <1>4, <1>5, <1>6, Adding!FoldInduction
<1> QED BY <1>2, <1>7, AddedIsFold

-----------------------------------------------------------------------------
(* What one mutation may do.                                               *)

OutcomeType == [service : Service, disk : Image, ok : BOOLEAN, fault : BOOLEAN]

\* A refresh keeps the memories; whether it saved and indexed them is in the
\* dirty flag, and certain only after a success.
LEMMA RefreshDoes ==
    ASSUME TypeOK, NEW s \in Service, ~s.dirty => disk = s.docs, IndexedFor(s),
           NEW o \in RefreshOutcomes(s)
    PROVE  /\ o \in OutcomeType
           /\ o.service.docs = s.docs /\ o.service.prints = s.prints
           /\ o.service.superseded = s.superseded
           /\ o.disk \in {disk, s.docs} /\ o.service.index \in {s.index, s.docs}
           /\ ~o.service.dirty => o.disk = s.docs
           /\ IndexedFor(o.service)
           /\ o.ok => o.disk = s.docs /\ o.service.index = s.docs /\ s.docs # NoIndex
           /\ ~o.ok /\ ~o.service.dirty => ~s.dirty /\ s.index = NoIndex
           /\ o.fault => budget["io"] > 0
<1> DEFINE indexed == [s EXCEPT !.index = s.docs]
           saved == [indexed EXCEPT !.dirty = FALSE]
<1>1. s.docs \in Image /\ disk \in Image /\ s.docs # NoIndex
  BY NothingAssumption DEF TypeOK, Service
<1>2. /\ indexed \in Service /\ saved \in Service
      /\ indexed.docs = s.docs /\ indexed.prints = s.prints /\ indexed.superseded = s.superseded
      /\ indexed.index = s.docs /\ indexed.dirty = s.dirty
      /\ saved.docs = s.docs /\ saved.prints = s.prints /\ saved.superseded = s.superseded
      /\ saved.index = s.docs /\ saved.dirty = FALSE
  BY <1>1 DEF Service
<1>3. \/ ~s.dirty /\ s.index # NoIndex /\ o = Outcome(s, disk, TRUE)
      \/ ~(~s.dirty /\ s.index # NoIndex) /\ o = Outcome(saved, s.docs, TRUE)
      \/ ~(~s.dirty /\ s.index # NoIndex) /\ budget["io"] > 0
            /\ o \in {Fault(s, disk), Fault(indexed, disk), Fault(indexed, s.docs)}
  BY DEF RefreshOutcomes
<1> HIDE DEF indexed, saved
<1>4. CASE ~s.dirty /\ s.index # NoIndex /\ o = Outcome(s, disk, TRUE)
  BY <1>1, <1>4 DEF Outcome, OutcomeType, IndexedFor
<1>5. CASE o = Outcome(saved, s.docs, TRUE)
  BY <1>1, <1>2, <1>5 DEF Outcome, OutcomeType, IndexedFor
<1>6. CASE ~(~s.dirty /\ s.index # NoIndex) /\ budget["io"] > 0 /\ o = Fault(s, disk)
  BY <1>1, <1>6 DEF Fault, OutcomeType, Service
<1>7. ASSUME ~(~s.dirty /\ s.index # NoIndex), budget["io"] > 0, NEW d \in {disk, s.docs},
             o = Fault(indexed, d)
      PROVE  /\ o \in OutcomeType
             /\ o.service = indexed /\ o.disk = d /\ ~o.ok
             /\ IndexedFor(indexed)
             /\ ~s.dirty => d = s.docs /\ s.index = NoIndex
  BY <1>1, <1>2, <1>7 DEF Fault, OutcomeType, IndexedFor
<1>8. CASE ~(~s.dirty /\ s.index # NoIndex) /\ budget["io"] > 0
              /\ o \in {Fault(indexed, disk), Fault(indexed, s.docs)}
  BY <1>1, <1>2, <1>7, <1>8
<1> QED BY <1>3, <1>4, <1>5, <1>6, <1>8

\* What the proof needs of a mutation, whatever it is and however it ends.
MutationDoes(op, o) ==
    /\ o \in OutcomeType
    /\ o.disk \in {disk, o.service.docs}
    /\ o.service.index \in {service.index, o.service.docs}
    /\ ~o.service.dirty => o.disk = o.service.docs
    /\ IndexedFor(o.service)
    /\ \A k \in Keys :
          /\ o.service.docs[k] # NoDoc => o.service.prints[k] = o.service.docs[k].payload
          /\ service.prints[k] # NoDoc => o.service.prints[k] = service.prints[k]
          /\ service.docs[k] # NoDoc /\ o.service.docs[k] # NoDoc
                => o.service.docs[k].payload = service.docs[k].payload
    /\ op = "add" /\ o.ok => o.disk = o.service.docs /\ o.service.index = o.service.docs
                             /\ o.service.docs # NoIndex
    /\ ~o.ok /\ ~o.service.dirty => o.service = service
    /\ o.fault => budget["io"] > 0

\* A mutation that has marked the service dirty and refreshes it.
LEMMA DirtyRefresh ==
    ASSUME MutationInv, NEW s \in Service, s.dirty, s.index = service.index,
           s.prints = service.prints,
           \A k \in Keys : s.docs[k] # NoDoc =>
               service.docs[k] # NoDoc /\ s.docs[k].payload = service.docs[k].payload,
           NEW o \in RefreshOutcomes(s), NEW op \in {"delete", "supersede", "expire"}
    PROVE  MutationDoes(op, o)
<1>1. IndexedFor(s)
  BY DEF IndexedFor
<1> QED BY <1>1, RefreshDoes DEF MutationInv, MutationDoes, PrintsMatch

LEMMA RemoveDoes ==
    ASSUME MutationInv, NEW keys, NEW o \in RemoveAll(keys),
           NEW op \in {"delete", "supersede", "expire"}
    PROVE  MutationDoes(op, o)
<1>1. CASE keys = {}
  <2>1. o = Outcome(service, disk, TRUE)
    BY <1>1 DEF RemoveAll
  <2> QED BY <2>1 DEF MutationInv, TypeOK, SavedWhenClean, PrintsMatch, Outcome, OutcomeType, MutationDoes
<1>2. CASE keys # {}
  <2> DEFINE s == [service EXCEPT !.docs = [k \in Keys |-> IF k \in keys THEN NoDoc ELSE @[k]],
                                  !.dirty = TRUE]
  <2>1. o \in RefreshOutcomes(s)
    BY <1>2 DEF RemoveAll
  <2>2. /\ s \in Service /\ s.dirty /\ s.index = service.index /\ s.prints = service.prints
        /\ \A k \in Keys : s.docs[k] = IF k \in keys THEN NoDoc ELSE service.docs[k]
    BY DEF MutationInv, TypeOK, Service, Image
  <2> HIDE DEF s
  <2> QED BY <2>1, <2>2, DirtyRefresh
<1> QED BY <1>1, <1>2

LEMMA SupersedeDoes ==
    ASSUME MutationInv, NEW key \in Keys, NEW old \in Keys, NEW o \in SupersedeOutcomes(key, old)
    PROVE  MutationDoes("supersede", o)
<1>1. CASE service.docs[key] = NoDoc
  <2>1. o = Outcome(service, disk, TRUE)
    BY <1>1 DEF SupersedeOutcomes
  <2> QED BY <2>1 DEF MutationInv, TypeOK, SavedWhenClean, PrintsMatch, Outcome, OutcomeType, MutationDoes
<1>2. CASE service.docs[key] # NoDoc
  <2> DEFINE s == [service EXCEPT !.docs[key].supersedes = old,
                                  !.superseded = @ \cup {old},
                                  !.dirty = TRUE]
  <2>1. o \in RefreshOutcomes(s)
    BY <1>2 DEF SupersedeOutcomes
  <2>2. service.docs[key] \in Memory
    BY <1>2 DEF MutationInv, TypeOK, Service, Image
  <2>3. /\ [service.docs[key] EXCEPT !.supersedes = old] \in Memory
        /\ [service.docs[key] EXCEPT !.supersedes = old].payload = service.docs[key].payload
    BY <2>2 DEF Memory
  <2>4. /\ s \in Service /\ s.dirty /\ s.index = service.index /\ s.prints = service.prints
        /\ s.docs = [service.docs EXCEPT ![key] = [@ EXCEPT !.supersedes = old]]
    BY <2>3 DEF MutationInv, TypeOK, Service, Image
  <2> HIDE DEF s
  <2>5. \A k \in Keys : s.docs[k] # NoDoc =>
           service.docs[k] # NoDoc /\ s.docs[k].payload = service.docs[k].payload
    BY <1>2, <2>3, <2>4 DEF MutationInv, TypeOK, Service, Image
  <2> QED BY <2>1, <2>4, <2>5, DirtyRefresh
<1> QED BY <1>1, <1>2

LEMMA AddDoes ==
    ASSUME MutationInv, NEW requests \in Batch, NEW o \in AddOutcomes(requests)
    PROVE  MutationDoes("add", o)
<1> DEFINE sofar == Added(requests)
           s == sofar.service
<1>1. PartlyAdded(requests, DOMAIN requests, sofar) /\ DOMAIN requests # {}
  <2>1. DOMAIN requests # {}
    BY ServerAssumption DEF Batch
  <2> QED BY <2>1, BatchIsAdded
<1>2. o \in IF sofar.ok THEN RefreshOutcomes(s) ELSE {Outcome(s, disk, FALSE)}
  BY DEF AddOutcomes, Added
<1> HIDE DEF sofar
<1>3. /\ s \in Service /\ s.index = service.index /\ (s.dirty \/ s = service)
      /\ \A k \in Keys :
          /\ s.docs[k] # NoDoc => s.prints[k] = s.docs[k].payload
          /\ service.prints[k] # NoDoc => s.prints[k] = service.prints[k]
          /\ service.docs[k] # NoDoc => s.docs[k] = service.docs[k]
      /\ sofar.ok /\ service.prints = [k \in Keys |-> NoDoc] => s.dirty
  BY <1>1 DEF PartlyAdded
<1>4. IndexedFor(s) /\ (~s.dirty => disk = s.docs)
  BY <1>3 DEF MutationInv, IndexedFor, SavedWhenClean
<1>5. CASE sofar.ok
  <2>1. s.dirty \/ s.index # NoIndex
    BY <1>3, <1>5 DEF MutationInv, IndexedFor
  <2>2. o \in RefreshOutcomes(s)
    BY <1>2, <1>5
  <2> HIDE DEF s
  <2> QED BY <1>3, <1>4, <2>1, <2>2, RefreshDoes DEF MutationInv, MutationDoes
<1>6. CASE ~sofar.ok
  <2>1. o = Outcome(s, disk, FALSE)
    BY <1>2, <1>6
  <2> HIDE DEF s
  <2> QED BY <1>3, <1>4, <2>1 DEF MutationInv, TypeOK, Outcome, OutcomeType, MutationDoes
<1> QED BY <1>5, <1>6

LEMMA OutcomesDo ==
    ASSUME MutationInv, NEW operation \in Operation, NEW o \in Outcomes(operation)
    PROVE  MutationDoes(operation.op, o)
<1>1. CASE operation \in [op : {"add"}, requests : Batch]
  <2>1. operation.op = "add" /\ operation.requests \in Batch /\ o \in AddOutcomes(operation.requests)
    BY <1>1 DEF Outcomes
  <2> QED BY <2>1, AddDoes
<1>2. CASE operation \in [op : {"delete"}, key : Keys]
  <2>1. operation.op = "delete" /\ o \in DeleteOutcomes(operation.key)
    BY <1>2 DEF Outcomes
  <2> QED BY <2>1, RemoveDoes DEF DeleteOutcomes
<1>3. CASE operation \in [op : {"supersede"}, key : Keys, old : Keys]
  <2>1. /\ operation.op = "supersede" /\ operation.key \in Keys /\ operation.old \in Keys
        /\ o \in SupersedeOutcomes(operation.key, operation.old)
    BY <1>3 DEF Outcomes
  <2> QED BY <2>1, SupersedeDoes
<1>4. CASE operation \in [op : {"expire"}]
  <2>1. operation.op = "expire" /\ o \in ExpireOutcomes
    BY <1>4 DEF Outcomes
  <2> QED BY <2>1, RemoveDoes DEF ExpireOutcomes
<1> QED BY <1>1, <1>2, <1>3, <1>4 DEF Operation, Batch

-----------------------------------------------------------------------------
(* The steps.                                                              *)

\* What Mutate changes, without the operation that it runs.
Mutated(h, op, claims, o) ==
    /\ service' = o.service
    /\ disk' = o.disk
    /\ budget' = IF o.fault THEN [budget EXCEPT !["io"] = @ - 1] ELSE budget
    /\ task' = [g \in Handlers |->
          CASE g = h /\ o.ok -> [state |-> "swapping", op |-> op,
                                 claims |-> claims, next |-> ViewOf(o.service)]
            [] g = h /\ ~o.ok -> [state |-> "done", op |-> op, claims |-> {}]
            [] g # h /\ task[g] # NoTask /\ task[g].state # "queued" ->
                  [task[g] EXCEPT !.claims = Voided(@, o.service)]
            [] OTHER -> task[g]]
    /\ acked' = Voided(acked, o.service)

LEMMA MutateDoes ==
    ASSUME MutationInv, NEW h \in Handlers, Mutate(h)
    PROVE  /\ task[h] # NoTask /\ task[h].state = "queued"
           /\ UNCHANGED <<gate, waiting, published, late>>
           /\ \E o \in OutcomeType, op \in {"add", "delete", "supersede", "expire"},
                 claims \in SUBSET Keys :
                 /\ MutationDoes(op, o)
                 /\ op = "add" => \A k \in claims : o.service.docs[k] # NoDoc
                 /\ Mutated(h, op, claims, o)
<1>1. task[h] # NoTask /\ task[h].state = "queued" /\ UNCHANGED <<gate, waiting, published, late>>
  BY DEF Mutate
<1>2. task[h].operation \in Operation
  BY <1>1 DEF MutationInv, TypeOK, Task
<1> DEFINE operation == task[h].operation
<1>3. operation.op \in {"add", "delete", "supersede", "expire"}
  BY <1>2 DEF Operation
<1>4. PICK o \in Outcomes(operation) :
         Mutated(h, operation.op, Claims(operation, o.service), o)
  BY DEF Mutate, Mutated
<1>5. MutationDoes(operation.op, o) /\ o \in OutcomeType
  BY <1>2, OutcomesDo DEF MutationDoes
<1>6. /\ Claims(operation, o.service) \in SUBSET Keys
      /\ operation.op = "add" => \A k \in Claims(operation, o.service) : o.service.docs[k] # NoDoc
  BY <1>2 DEF Claims, Operation
<1> HIDE DEF operation
<1> QED BY <1>1, <1>3, <1>4, <1>5, <1>6

LEMMA TypeOKStep ==
    ASSUME MutationInv, [Next]_vars
    PROVE  TypeOK'
<1> USE ServerAssumption DEF MutationInv, TypeOK
<1>1. ASSUME NEW h \in Handlers, NEW operation \in Operation, Admit(h, operation) PROVE TypeOK'
  BY <1>1 DEF Admit, Task
<1>2. ASSUME NEW h \in Handlers, Mutate(h) PROVE TypeOK'
  <2>1. PICK o \in OutcomeType, op \in {"add", "delete", "supersede", "expire"},
             claims \in SUBSET Keys : MutationDoes(op, o) /\ Mutated(h, op, claims, o)
    BY <1>2, MutateDoes
  <2>2. service' \in Service /\ disk' \in Image /\ acked' \subseteq Keys
    BY <2>1 DEF Mutated, OutcomeType, Voided
  <2>3. /\ budget' \in [DOMAIN Budget -> Nat]
        /\ \A kind \in DOMAIN Budget : budget'[kind] <= Budget[kind]
    <3>1. o.fault => budget["io"] > 0
      BY <2>1 DEF MutationDoes
    <3> QED BY <2>1, <3>1 DEF Mutated
  <2>4. ViewOf(o.service) \in View
    BY <2>1 DEF OutcomeType, Service, View, ViewOf
  <2>5. \A g \in Handlers : task[g] \in Task /\ task[g].state # "queued" =>
           [task[g] EXCEPT !.claims = Voided(@, o.service)] \in Task
    BY DEF Task, Voided
  <2>6. [state |-> "swapping", op |-> op, claims |-> claims, next |-> ViewOf(o.service)] \in Task
    BY <2>1, <2>4 DEF Task
  <2>7. [state |-> "done", op |-> op, claims |-> {}] \in Task
    BY <2>1 DEF Task
  <2>8. task' \in [Handlers -> Task \cup {NoTask}]
    BY <2>1, <2>5, <2>6, <2>7 DEF Mutated
  <2> QED BY <1>2, <2>2, <2>3, <2>8, MutateDoes
<1>3. ASSUME NEW h \in Handlers, Swap(h) PROVE TypeOK'
  <2>1. /\ task[h].next \in View
        /\ [state |-> "done", op |-> task[h].op, claims |-> task[h].claims] \in Task
    BY <1>3 DEF Swap, Task
  <2> QED BY <1>3, <2>1 DEF Swap
<1>4. ASSUME NEW h \in Handlers, Respond(h) PROVE TypeOK'
  <2>1. task[h] # NoTask /\ task[h].claims \subseteq Keys
    BY <1>4 DEF Respond, Task, GateIsWaiting
  <2> QED BY <1>4, <2>1 DEF Respond
<1>5. ASSUME NEW h \in Handlers, TimeOut(h) PROVE TypeOK'
  BY <1>5 DEF TimeOut
<1>6. ASSUME NEW h \in Handlers, Detached(h) PROVE TypeOK'
  BY <1>6 DEF Detached
<1>7. CASE Restart
  <2>2. Restored(disk) \in Service
    BY DEF Restored, Service, Image, Memory
  <2>3. ViewOf(Restored(disk)) \in View
    BY <2>2 DEF ViewOf, Service, View
  <2> QED BY <1>7, <2>2, <2>3 DEF Restart
<1>8. CASE Deadline
  BY <1>8 DEF Deadline
<1>9. CASE UNCHANGED vars
  BY <1>9 DEF vars
<1> QED BY <1>1, <1>2, <1>3, <1>4, <1>5, <1>6, <1>7, <1>8, <1>9 DEF Next

\* The tasks after Mutate, one by one.
LEMMA MutatedTask ==
    ASSUME MutationInv, NEW h \in Handlers, NEW op, NEW claims, NEW o, Mutated(h, op, claims, o)
    PROVE  /\ o.ok => task'[h] = [state |-> "swapping", op |-> op, claims |-> claims,
                                  next |-> ViewOf(o.service)]
           /\ ~o.ok => task'[h] = [state |-> "done", op |-> op, claims |-> {}]
  BY DEF Mutated

LEMMA OtherTask ==
    ASSUME MutationInv, NEW h \in Handlers, NEW op, NEW claims, NEW o, Mutated(h, op, claims, o),
           NEW g \in Handlers, g # h
    PROVE  /\ ~HasRun(task[g]) => task'[g] = task[g]
           /\ HasRun(task[g]) =>
                /\ task'[g] \in Task /\ task'[g].state = task[g].state
                /\ task'[g].op = task[g].op
                /\ task'[g].claims = Voided(task[g].claims, o.service)
                /\ task[g].state = "swapping" => task'[g].next = task[g].next
<1>1. CASE ~HasRun(task[g])
  BY <1>1 DEF Mutated, HasRun
<1>2. CASE HasRun(task[g])
  <2>1. task'[g] = [task[g] EXCEPT !.claims = Voided(@, o.service)]
    BY <1>2 DEF Mutated, HasRun
  <2>2. task[g] \in Task /\ task[g].state # "queued"
    BY <1>2 DEF HasRun, MutationInv, TypeOK
  <2> QED BY <1>2, <2>1, <2>2 DEF Task, Voided
<1> QED BY <1>1, <1>2

LEMMA GateIsWaitingStep ==
    ASSUME MutationInv, [Next]_vars
    PROVE  GateIsWaiting'
<1> USE ServerAssumption, NothingAssumption DEF MutationInv, TypeOK, GateIsWaiting
<1>1. ASSUME NEW h \in Handlers, NEW operation \in Operation, Admit(h, operation)
      PROVE  GateIsWaiting'
  <2>1. [state |-> "queued", operation |-> operation] # NoTask
    BY DEF Task
  <2> QED BY <1>1, <2>1 DEF Admit
<1>2. ASSUME NEW h \in Handlers, Mutate(h) PROVE GateIsWaiting'
  <2>1. UNCHANGED <<gate, waiting>>
    BY <1>2 DEF Mutate
  <2>2. PICK o \in OutcomeType, op \in {"add", "delete", "supersede", "expire"},
             claims \in SUBSET Keys : Mutated(h, op, claims, o)
    BY <1>2, MutateDoes
  <2>3. task'[h] # NoTask
    <3>1. [state |-> "swapping", op |-> op, claims |-> claims, next |-> ViewOf(o.service)] \in Task
      BY <2>2 DEF Task, OutcomeType, Service, View, ViewOf
    <3>2. [state |-> "done", op |-> op, claims |-> {}] \in Task
      BY DEF Task
    <3> QED BY <2>2, <3>1, <3>2, MutatedTask
  <2>4. \A g \in Handlers \ {h} : task[g] # NoTask => task'[g] # NoTask
    BY <2>2, OtherTask
  <2> QED BY <2>1, <2>3, <2>4
<1>3. ASSUME NEW h \in Handlers, Swap(h) PROVE GateIsWaiting'
  <2>1. [state |-> "done", op |-> task[h].op, claims |-> task[h].claims] \in Task
    BY <1>3 DEF Swap, Task
  <2> QED BY <1>3, <2>1 DEF Swap
<1>4. ASSUME NEW h \in Handlers, Respond(h) PROVE GateIsWaiting'
  BY <1>4 DEF Respond
<1>5. ASSUME NEW h \in Handlers, TimeOut(h) PROVE GateIsWaiting'
  BY <1>5 DEF TimeOut
<1>6. ASSUME NEW h \in Handlers, Detached(h) PROVE GateIsWaiting'
  BY <1>6 DEF Detached
<1>7. CASE Restart
  BY <1>7 DEF Restart
<1>8. CASE Deadline \/ UNCHANGED vars
  BY <1>8 DEF Deadline, vars
<1> QED BY <1>1, <1>2, <1>3, <1>4, <1>5, <1>6, <1>7, <1>8 DEF Next

\* The service and the disk are changed by mutations and restarts only.
LEMMA StoreStep ==
    ASSUME MutationInv, [Next]_vars
    PROVE  SavedWhenClean' /\ IndexedFor(service)' /\ PrintsMatch'
<1>1. CASE UNCHANGED <<service, disk>>
  BY <1>1 DEF MutationInv, SavedWhenClean, IndexedFor, PrintsMatch
<1>2. ASSUME NEW h \in Handlers, Mutate(h)
      PROVE  SavedWhenClean' /\ IndexedFor(service)' /\ PrintsMatch'
  <2>1. PICK o \in OutcomeType, op \in {"add", "delete", "supersede", "expire"} :
           MutationDoes(op, o) /\ service' = o.service /\ disk' = o.disk
    BY <1>2, MutateDoes DEF Mutated
  <2>2. SavedWhenClean' /\ IndexedFor(service)'
    BY <2>1 DEF MutationDoes, SavedWhenClean, IndexedFor
  <2>3. ASSUME NEW k \in Keys, disk[k] # NoDoc
        PROVE  o.service.prints[k] = disk[k].payload
    <3>1. service.prints[k] = disk[k].payload /\ disk[k] \in Memory
      BY <2>3 DEF MutationInv, PrintsMatch, TypeOK, Image
    <3>2. service.prints[k] # NoDoc
      BY <3>1, NothingAssumption DEF Memory
    <3> QED BY <2>1, <3>1, <3>2 DEF MutationDoes
  <2>4. PrintsMatch'
    <3>1. \A k \in Keys : o.service.docs[k] # NoDoc => o.service.prints[k] = o.service.docs[k].payload
      BY <2>1 DEF MutationDoes
    <3>2. o.disk \in {disk, o.service.docs}
      BY <2>1 DEF MutationDoes
    <3> QED BY <2>1, <2>3, <3>1, <3>2 DEF PrintsMatch
  <2> QED BY <2>2, <2>4
<1>3. CASE Restart
  <2>1. service' = Restored(disk) /\ disk' = disk
    BY <1>3 DEF Restart
  <2>2. disk \in Image /\ disk # NoIndex
    BY NothingAssumption DEF MutationInv, TypeOK
  <2>3. disk = Empty => \A k \in Keys : disk[k] = NoDoc
    BY DEF Empty
  <2> QED BY <2>1, <2>2, <2>3 DEF Restored, SavedWhenClean, IndexedFor, PrintsMatch, Empty
<1> QED BY <1>1, <1>2, <1>3 DEF Next, vars, Admit, Swap, Respond, TimeOut, Detached, Deadline

LEMMA SpokenStep ==
    ASSUME MutationInv, [Next]_vars
    PROVE  SpokenIsStored'
<1> DEFINE Stored(k) == /\ service.docs[k] # NoDoc
                        /\ disk[k] # NoDoc
                        /\ service.index # NoIndex /\ service.index[k] # NoDoc
           Claimed(h) == IF HasRun(task[h]) /\ task[h].op = "add" THEN task[h].claims ELSE {}
<1>1. Spoken = acked \cup UNION {Claimed(h) : h \in Handlers}
  BY DEF Spoken
<1>2. /\ \A k \in acked : Stored(k)
      /\ \A h \in Handlers : \A k \in Claimed(h) : Stored(k)
  BY <1>1 DEF MutationInv, SpokenIsStored
<1> SUFFICES /\ \A k \in acked' : Stored(k)'
             /\ \A h \in Handlers : \A k \in Claimed(h)' : Stored(k)'
  BY DEF SpokenIsStored, Spoken
<1> USE DEF MutationInv, TypeOK
<1>3. ASSUME UNCHANGED <<service, disk>>,
             acked' \subseteq acked \cup UNION {Claimed(h) : h \in Handlers},
             \A h \in Handlers : Claimed(h)' \subseteq Claimed(h)
      PROVE  /\ \A k \in acked' : Stored(k)'
             /\ \A h \in Handlers : \A k \in Claimed(h)' : Stored(k)'
  BY <1>2, <1>3
<1>4. ASSUME NEW h \in Handlers, NEW operation \in Operation, Admit(h, operation)
      PROVE  \A g \in Handlers : Claimed(g)' \subseteq Claimed(g)
  BY <1>4 DEF Admit, HasRun
<1>5. ASSUME NEW h \in Handlers, Mutate(h)
      PROVE  /\ \A k \in acked' : Stored(k)'
             /\ \A g \in Handlers : \A k \in Claimed(g)' : Stored(k)'
  <2> HIDE DEF MutationInv, TypeOK
  <2>1. PICK o \in OutcomeType, op \in {"add", "delete", "supersede", "expire"},
             claims \in SUBSET Keys :
           /\ MutationDoes(op, o) /\ Mutated(h, op, claims, o)
           /\ op = "add" => \A k \in claims : o.service.docs[k] # NoDoc
    BY <1>5, MutateDoes
  <2> HIDE DEF Stored, Claimed
  <2>10. Mutated(h, op, claims, o)
    BY <2>1
  <2>11. /\ o.ok => task'[h] = [state |-> "swapping", op |-> op, claims |-> claims,
                             next |-> ViewOf(o.service)]
         /\ ~o.ok => task'[h] = [state |-> "done", op |-> op, claims |-> {}]
    BY <2>10, MutatedTask
  <2>12. \A g \in Handlers \ {h} :
            /\ ~HasRun(task[g]) => task'[g] = task[g]
            /\ HasRun(task[g]) =>
                 task'[g].op = task[g].op /\ task'[g].claims = Voided(task[g].claims, o.service)
    BY <2>10, OtherTask
  <2> USE DEF Stored, Claimed
  <2>2. ASSUME NEW k, Stored(k), o.service.docs[k] # NoDoc PROVE Stored(k)'
    <3>1. o.disk \in {disk, o.service.docs} /\ o.service.index \in {service.index, o.service.docs}
      BY <2>1 DEF MutationDoes
    <3>2. o.service.docs # NoIndex
      BY NothingAssumption DEF OutcomeType, Service
    <3> QED BY <2>1, <2>2, <3>1, <3>2 DEF Mutated
  <2>3. ASSUME NEW keys, NEW k \in Voided(keys, o.service), Stored(k)
        PROVE  Stored(k)' /\ k \in keys
    BY <2>2, <2>3 DEF Voided
  <2>4. \A k \in acked' : Stored(k)'
    BY <1>2, <2>1, <2>3 DEF Mutated, Voided
  <2>5. ASSUME NEW k \in Claimed(h)' PROVE Stored(k)'
    <3>1. o.ok /\ op = "add" /\ k \in claims
      <4>1. CASE o.ok
        <5>1. task'[h] = [state |-> "swapping", op |-> op, claims |-> claims,
                          next |-> ViewOf(o.service)]
          BY <2>11, <4>1
        <5> QED BY <2>5, <4>1, <5>1
      <4>2. CASE ~o.ok
        <5>1. task'[h] = [state |-> "done", op |-> op, claims |-> {}]
          BY <2>11, <4>2
        <5> QED BY <2>5, <5>1
      <4> QED BY <4>1, <4>2
    <3>2. /\ o.service.docs[k] # NoDoc /\ o.disk = o.service.docs
          /\ o.service.index = o.service.docs /\ o.service.docs # NoIndex
      BY <2>1, <3>1 DEF MutationDoes
    <3> QED BY <2>1, <3>2 DEF Mutated
  <2>6. ASSUME NEW g \in Handlers \ {h}, NEW k \in Claimed(g)' PROVE Stored(k)'
    <3>1. CASE HasRun(task[g])
      <4>1. task'[g].op = task[g].op /\ task'[g].claims = Voided(task[g].claims, o.service)
        BY <2>12, <3>1
      <4>2. k \in Voided(task[g].claims, o.service) /\ k \in task[g].claims /\ task[g].op = "add"
        BY <2>6, <4>1 DEF Voided
      <4> QED BY <1>2, <2>3, <3>1, <4>2
    <3>2. CASE ~HasRun(task[g])
      BY <2>12, <2>6, <3>2
    <3> QED BY <3>1, <3>2
  <2> QED BY <2>4, <2>5, <2>6
<1>6. ASSUME NEW h \in Handlers, Swap(h)
      PROVE  \A g \in Handlers : Claimed(g)' \subseteq Claimed(g)
  BY <1>6 DEF Swap, HasRun
<1>7. ASSUME NEW h \in Handlers, Respond(h)
      PROVE  /\ \A g \in Handlers : Claimed(g)' \subseteq Claimed(g)
             /\ acked' \subseteq acked \cup Claimed(h)
  BY <1>7 DEF Respond, HasRun, GateIsWaiting
<1>8. ASSUME NEW h \in Handlers, TimeOut(h)
      PROVE  \A g \in Handlers : Claimed(g)' \subseteq Claimed(g)
  BY <1>8 DEF TimeOut
<1>9. ASSUME NEW h \in Handlers, Detached(h)
      PROVE  \A g \in Handlers : Claimed(g)' \subseteq Claimed(g)
  BY <1>9 DEF Detached, HasRun
<1>10. CASE Restart
  <2>1. \A k \in acked : disk[k] # NoDoc /\ k \in Keys
    BY <1>2
  <2>2. service' = Restored(disk) /\ disk' = disk /\ acked' = acked
    BY <1>10 DEF Restart
  <2>3. \A g \in Handlers : Claimed(g)' = {}
    BY <1>10 DEF Restart, HasRun
  <2>4. ASSUME NEW k \in acked PROVE disk # Empty /\ disk # NoIndex
    BY <2>1, NothingAssumption DEF Empty
  <2> QED BY <2>1, <2>2, <2>3, <2>4 DEF Restored
<1>11. CASE Deadline \/ UNCHANGED vars
  BY <1>11, <1>2 DEF Deadline, vars
<1>12. ASSUME NEW h \in Handlers,
              \/ \E operation \in Operation : Admit(h, operation)
              \/ Swap(h) \/ Respond(h) \/ TimeOut(h) \/ Detached(h)
       PROVE  /\ \A k \in acked' : Stored(k)'
              /\ \A g \in Handlers : \A k \in Claimed(g)' : Stored(k)'
  <2>1. UNCHANGED <<service, disk>> /\ (acked' = acked \/ Respond(h))
    BY <1>12 DEF Admit, Swap, TimeOut, Respond, Detached
  <2>2. \A g \in Handlers : Claimed(g)' \subseteq Claimed(g)
    BY <1>4, <1>6, <1>7, <1>8, <1>9, <1>12
  <2>3. acked' \subseteq acked \cup UNION {Claimed(g) : g \in Handlers}
    BY <1>7, <2>1
  <2> HIDE DEF Claimed, Stored
  <2> QED BY <1>3, <2>1, <2>2, <2>3
<1> QED BY <1>5, <1>10, <1>11, <1>12 DEF Next

THEOREM MutationInvHolds == Spec => []MutationInv
<1>1. Init => MutationInv
  <2> SUFFICES ASSUME Init PROVE MutationInv
    OBVIOUS
  <2> USE ServerAssumption, NothingAssumption
  <2>1. Empty \in Image /\ \A k \in Keys : Empty[k] = NoDoc
    BY DEF Empty, Image
  <2>2. Restored(Empty) \in Service /\ Restored(Empty).docs = Empty
        /\ Restored(Empty).index = NoIndex /\ ~Restored(Empty).dirty
        /\ Restored(Empty).prints = [k \in Keys |-> NoDoc]
    BY <2>1 DEF Restored, Service, Image
  <2>3. ViewOf(Restored(Empty)) \in View
    BY <2>2 DEF ViewOf, View, Service
  <2>4. TypeOK
    <3>1. Budget \in [DOMAIN Budget -> Nat] /\ \A kind \in DOMAIN Budget : Budget[kind] <= Budget[kind]
      OBVIOUS
    <3>2. service \in Service /\ published \in View /\ disk \in Image
      BY <2>1, <2>2, <2>3 DEF Init
    <3> QED BY <3>1, <3>2 DEF Init, TypeOK
  <2>5. GateIsWaiting /\ SavedWhenClean /\ IndexedFor(service) /\ PrintsMatch
    BY <2>1, <2>2 DEF Init, GateIsWaiting, SavedWhenClean, IndexedFor, PrintsMatch
  <2>6. SpokenIsStored
    BY DEF Init, SpokenIsStored, Spoken, HasRun
  <2> QED BY <2>4, <2>5, <2>6 DEF MutationInv
<1>2. MutationInv /\ [Next]_vars => MutationInv'
  BY TypeOKStep, GateIsWaitingStep, StoreStep, SpokenStep DEF MutationInv
<1> QED BY <1>1, <1>2, PTL DEF Spec

-----------------------------------------------------------------------------
(* One mutation at a time.                                                 *)

AloneInv ==
    NoTimeout =>
        /\ TasksAreAwaited
        /\ NextIsLatest
        /\ PublishedIsLatest
        /\ AnnouncedIsPublished

LEMMA NothingTimedOut ==
    ASSUME MutationInv, [Next]_vars, NoTimeout'
    PROVE  NoTimeout /\ \A h \in Handlers : ~TimeOut(h)
<1>1. /\ budget \in [{"timeout", "io", "restart"} -> Nat]
      /\ budget["timeout"] <= Budget["timeout"] /\ Budget["timeout"] \in Nat
  BY ServerAssumption DEF MutationInv, TypeOK
<1>2. ASSUME NEW h \in Handlers, TimeOut(h) PROVE FALSE
  BY <1>1, <1>2 DEF TimeOut, NoTimeout
<1>3. ASSUME NEW h \in Handlers, Mutate(h) PROVE budget'["timeout"] = budget["timeout"]
  BY <1>1, <1>3, MutateDoes DEF Mutated
<1>4. budget'["timeout"] = budget["timeout"]
  BY <1>1, <1>2, <1>3 DEF Next, vars, Admit, Swap, Respond, Detached, Restart, Deadline
<1> QED BY <1>2, <1>4 DEF NoTimeout

\* A task that nobody has given up waiting for is the only one.
LEMMA OnlyTask ==
    ASSUME MutationInv, TasksAreAwaited, NEW h \in Handlers, task[h] # NoTask,
           NEW g \in Handlers, g # h
    PROVE  task[g] = NoTask
  BY DEF MutationInv, GateIsWaiting, TasksAreAwaited

LEMMA AloneStep ==
    ASSUME MutationInv, TasksAreAwaited, NextIsLatest, PublishedIsLatest, AnnouncedIsPublished,
           [Next]_vars, \A h \in Handlers : ~TimeOut(h)
    PROVE  TasksAreAwaited' /\ NextIsLatest' /\ PublishedIsLatest' /\ AnnouncedIsPublished'
<1> DEFINE Alone == TasksAreAwaited /\ NextIsLatest /\ PublishedIsLatest /\ AnnouncedIsPublished
           Done(h) == IF HasRun(task[h]) /\ task[h].state = "done" /\ task[h].op = "add"
                      THEN task[h].claims ELSE {}
<1>1. Announced = acked \cup UNION {Done(h) : h \in Handlers}
  BY DEF Announced
<1>2. task \in [Handlers -> Task \cup {NoTask}] /\ NoTask \notin Task
  BY NothingAssumption DEF MutationInv, TypeOK
<1>3. ASSUME published' = ViewOf(service') PROVE AnnouncedIsPublished'
  <2>1. SpokenIsStored'
    BY SpokenStep
  <2>2. Announced' \subseteq Spoken'
    BY DEF Announced, Spoken
  <2> QED BY <1>3, <2>1, <2>2 DEF SpokenIsStored, AnnouncedIsPublished, ViewOf
<1>4. ASSUME NEW h \in Handlers, NEW operation \in Operation, Admit(h, operation) PROVE Alone'
  <2>1. \A g \in Handlers : task[g] = NoTask
    BY <1>4 DEF Admit, MutationInv, GateIsWaiting, TasksAreAwaited
  <2>2. task' = [task EXCEPT ![h] = [state |-> "queued", operation |-> operation]]
        /\ waiting' = waiting \cup {h} /\ UNCHANGED <<service, published, acked>>
    BY <1>4 DEF Admit
  <2>3. \A g \in Handlers : ~HasRun(task'[g])
    BY <1>2, <2>1, <2>2 DEF HasRun
  <2>4. TasksAreAwaited'
    BY <1>2, <2>1, <2>2 DEF TasksAreAwaited
  <2>5. NextIsLatest'
    BY <2>3 DEF NextIsLatest, Swapping, HasRun
  <2>6. PublishedIsLatest'
    BY <2>1, <2>2 DEF PublishedIsLatest, Swapping
  <2>7. Announced' = acked'
    BY <2>3 DEF Announced
  <2>8. AnnouncedIsPublished'
    BY <2>2, <2>7, <1>1 DEF AnnouncedIsPublished
  <2> QED BY <2>4, <2>5, <2>6, <2>8
<1>5. ASSUME NEW h \in Handlers, Mutate(h) PROVE Alone'
  <2>1. PICK o \in OutcomeType, op \in {"add", "delete", "supersede", "expire"},
             claims \in SUBSET Keys : MutationDoes(op, o) /\ Mutated(h, op, claims, o)
    BY <1>5, MutateDoes
  <2>2. UNCHANGED <<waiting, published>> /\ task[h] # NoTask /\ task[h].state = "queued"
    BY <1>5, MutateDoes
  <2>3. Mutated(h, op, claims, o)
    BY <2>1
  <2>4. \A g \in Handlers : g # h => task[g] = NoTask /\ task'[g] = NoTask
    BY <2>2, <2>3, OnlyTask, OtherTask DEF HasRun
  <2>5. /\ o.ok => task'[h] = [state |-> "swapping", op |-> op, claims |-> claims,
                               next |-> ViewOf(o.service)]
        /\ ~o.ok => task'[h] = [state |-> "done", op |-> op, claims |-> {}]
    BY <2>3, MutatedTask
  <2>6. service' = o.service /\ acked' \subseteq acked
    BY <2>3 DEF Mutated, Voided
  <2>7. TasksAreAwaited'
    BY <2>2, <2>4 DEF TasksAreAwaited
  <2>8. NextIsLatest'
    BY <2>4, <2>5, <2>6 DEF NextIsLatest, Swapping, ViewOf
  <2>9. PublishedIsLatest'
    <3> SUFFICES ASSUME ~service'.dirty, ~Swapping(task'[h])
                 PROVE  published' = ViewOf(service')
      BY DEF PublishedIsLatest, ViewOf
    <3>1. ~o.ok
      <4> SUFFICES ASSUME o.ok PROVE FALSE
        OBVIOUS
      <4>1. [state |-> "swapping", op |-> op, claims |-> claims, next |-> ViewOf(o.service)] \in Task
        BY DEF Task, OutcomeType, Service, View, ViewOf
      <4> QED BY <1>2, <2>5, <4>1 DEF Swapping
    <3>2. o.service = service
      BY <2>1, <2>6, <3>1 DEF MutationDoes
    <3>3. \A g \in Handlers : ~Swapping(task[g])
      BY <2>2, <2>4 DEF Swapping
    <3> QED BY <2>2, <2>6, <3>2, <3>3 DEF PublishedIsLatest, ViewOf
  <2>10. Announced' \subseteq Announced
    <3>1. Done(h)' = {}
      BY <2>5
    <3>2. \A g \in Handlers : Done(g)' = {}
      BY <2>4, <3>1 DEF HasRun
    <3> QED BY <1>1, <2>6, <3>2 DEF Announced
  <2>11. AnnouncedIsPublished'
    BY <2>2, <2>10 DEF AnnouncedIsPublished
  <2> QED BY <2>7, <2>8, <2>9, <2>11
<1>6. ASSUME NEW h \in Handlers, Swap(h) PROVE Alone'
  <2>1. /\ task[h] # NoTask /\ Swapping(task[h])
        /\ task' = [task EXCEPT ![h] = [state |-> "done", op |-> task[h].op,
                                        claims |-> task[h].claims]]
        /\ published' = task[h].next /\ UNCHANGED <<waiting, service>>
    BY <1>6 DEF Swap, Swapping
  <2>2. published' = ViewOf(service')
    BY <2>1 DEF NextIsLatest, ViewOf
  <2>3. \A g \in Handlers : task'[g] # NoTask => g = h
    BY <1>2, <2>1, OnlyTask
  <2>4. TasksAreAwaited' /\ ~Swapping(task'[h])
    BY <1>2, <2>1, <2>3 DEF TasksAreAwaited, Swapping
  <2>5. NextIsLatest' /\ PublishedIsLatest'
    BY <2>2, <2>3, <2>4 DEF NextIsLatest, PublishedIsLatest, Swapping, ViewOf
  <2>6. AnnouncedIsPublished'
    BY <1>3, <2>2
  <2> QED BY <2>4, <2>5, <2>6
<1>7. ASSUME NEW h \in Handlers, Respond(h) PROVE Alone'
  <2>1. /\ task[h] # NoTask /\ task[h].state = "done"
        /\ task' = [task EXCEPT ![h] = NoTask] /\ UNCHANGED <<service, published>>
        /\ acked' \subseteq acked \cup Done(h)
    BY <1>7 DEF Respond, MutationInv, GateIsWaiting, HasRun
  <2>2. \A g \in Handlers : task'[g] = NoTask
    BY <1>2, <2>1, OnlyTask
  <2>3. \A g \in Handlers : ~Swapping(task[g])
    BY <2>1, OnlyTask DEF Swapping
  <2>4. Announced' \subseteq Announced
    BY <1>1, <2>1, <2>2 DEF Announced, HasRun
  <2> QED BY <2>1, <2>2, <2>3, <2>4
          DEF TasksAreAwaited, NextIsLatest, PublishedIsLatest, AnnouncedIsPublished, Swapping
<1>8. ASSUME NEW h \in Handlers, Detached(h) PROVE FALSE
  BY <1>8 DEF Detached, TasksAreAwaited
<1>9. CASE Restart
  <2>1. published' = ViewOf(service') /\ \A g \in Handlers : task'[g] = NoTask
    BY <1>9 DEF Restart
  <2>2. AnnouncedIsPublished'
    BY <1>3, <2>1
  <2> QED BY <2>1, <2>2 DEF TasksAreAwaited, NextIsLatest, PublishedIsLatest, Swapping, ViewOf
<1>10. CASE Deadline \/ UNCHANGED vars
  BY <1>10 DEF Deadline, vars, TasksAreAwaited, NextIsLatest, PublishedIsLatest,
     AnnouncedIsPublished, Announced, ViewOf
<1> QED BY <1>4, <1>5, <1>6, <1>7, <1>8, <1>9, <1>10 DEF Next

LEMMA AloneInvHolds == Spec => []AloneInv
<1>1. Init => AloneInv
  BY DEF Init, AloneInv, TasksAreAwaited, NextIsLatest, PublishedIsLatest, AnnouncedIsPublished,
     Announced, Swapping, HasRun
<1>2. MutationInv /\ AloneInv /\ [Next]_vars => AloneInv'
  BY NothingTimedOut, AloneStep DEF AloneInv
<1> QED BY <1>1, <1>2, MutationInvHolds, PTL DEF Spec

-----------------------------------------------------------------------------
(* What a client may rely on.                                              *)

(* A memory whose add was answered with success is on disk until a mutation *)
(* removes it, through failed refreshes, time-outs and restarts: a reply of *)
(* success has saved, or found nothing left to save.                        *)
THEOREM AckedIsDurableHolds == Spec => []AckedIsDurable
<1>1. MutationInv => AckedIsDurable
  BY DEF MutationInv, SpokenIsStored, Spoken, AckedIsDurable
<1> QED BY <1>1, MutationInvHolds, PTL

(* While a memory exists its payload never changes: every memory that is    *)
(* stored, or that a restart brings back, has its fingerprint.              *)
THEOREM PayloadStableHolds == Spec => PayloadStable
<1> DEFINE Same == \A k \in Keys : service.docs[k] # NoDoc /\ service.docs[k]' # NoDoc
                      => service.docs[k].payload' = service.docs[k].payload
<1>1. MutationInv /\ [Next]_vars => Same
  <2> SUFFICES ASSUME MutationInv, [Next]_vars PROVE Same
    OBVIOUS
  <2>1. CASE UNCHANGED service
    BY <2>1
  <2>2. ASSUME NEW h \in Handlers, Mutate(h) PROVE Same
    <3>1. PICK o \in OutcomeType, op \in {"add", "delete", "supersede", "expire"} :
             MutationDoes(op, o) /\ service' = o.service
      BY <2>2, MutateDoes DEF Mutated
    <3> QED BY <3>1 DEF MutationDoes
  <2>3. CASE Restart
    <3>1. service'.docs = disk
      BY <2>3 DEF Restart, Restored
    <3> QED BY <3>1 DEF MutationInv, PrintsMatch
  <2> QED BY <2>1, <2>2, <2>3 DEF Next, vars, Admit, Swap, Respond, TimeOut, Detached, Deadline
<1>2. MutationInv /\ [Next]_vars => [Same]_vars
  BY <1>1
<1> QED BY <1>2, MutationInvHolds, PTL DEF Spec, PayloadStable

(* With no mutation in progress and none half done, a search sees what the  *)
(* service holds, as long as no request has timed out.                      *)
THEOREM LatestIsPublishedHolds == Spec => []LatestIsPublished
<1>1. AloneInv => LatestIsPublished
  BY DEF AloneInv, PublishedIsLatest, LatestIsPublished, Quiescent, Swapping
<1> QED BY <1>1, AloneInvHolds, PTL

(* A memory whose add was answered with success is found by every later     *)
(* search, unless it is removed, replaced or expired, as long as no request *)
(* has timed out: also by one that runs during a mutation or after one that *)
(* failed.                                                                  *)
THEOREM AckedIsSearchableHolds == Spec => []AckedIsSearchable
<1>1. MutationInv /\ AloneInv => AckedIsSearchable
  <2> SUFFICES ASSUME MutationInv, AloneInv, NoTimeout, NEW k \in acked
               PROVE  k \in Visible(published) \cup published.superseded \cup Expired(published.docs)
    BY DEF AckedIsSearchable
  <2>1. k \in Keys
    BY DEF MutationInv, TypeOK
  <2>2. /\ published.docs[k] # NoDoc
        /\ published.index # NoIndex /\ published.index[k] # NoDoc
    BY DEF AloneInv, AnnouncedIsPublished, Announced
  <2> QED BY <2>1, <2>2 DEF Visible
<1> QED BY <1>1, MutationInvHolds, AloneInvHolds, PTL

-----------------------------------------------------------------------------
(***************************************************************************)
(* The index the MCP servers and recall commands of a project share.  One  *)
(* inductive invariant carries the three safety properties: it says which  *)
(* workspace state describes the index on disk and the copy of each        *)
(* process at every step of an open.                                       *)
(***************************************************************************)

\* Only the process that holds the lock is inside open_persistent_store.
Exclusive == \A p \in Procs : step[p] \in Holding => lock = p

\* What a process has read of the workspace: its own ignored paths, and a
\* status that may have been overtaken.
StateRead ==
    \A p \in Procs : step[p] \in Steps \ {"gone", "waiting", "loaded"} =>
        /\ state[p] \in State
        /\ state[p].ignores = IgnoresOf[p]
        /\ state[p].status <= StatusOf[workspace]

\* Documents come from the workspace as it is or was, and recall lists them
\* after it has read the state.
ListedInv ==
    /\ \A p \in Procs :
          /\ listed[p] # NoWorld => listed[p] <= workspace
          /\ copy[p] # NoRecords => copy[p].world <= workspace
          /\ step[p] = "saving" => listed[p] \in Worlds
          /\ p \in Servers /\ step[p] \in {"waiting", "loaded"} => listed[p] \in Worlds
          /\ p \in Recalls /\ step[p] = "saving" =>
                state[p].status <= StatusOf[listed[p]]
    /\ file # NoRecords => file.world <= workspace

\* A sound index is one of the workspace state s, or of a later one.
Fits(index, s) ==
    index # NoRecords /\ s # NoState /\ index.sound =>
        /\ index.ignores = s.ignores
        /\ s.status <= StatusOf[index.world]

\* Between saving an index and writing its state the file fits the state
\* the process has read; at any other time it fits the state file, unless a
\* process was killed in between, which leaves the lock behind.
FileFits ==
    /\ lock # Orphan /\ (\A p \in Procs : step[p] # "marking") => Fits(file, stateFile)
    /\ \A p \in Procs : step[p] = "marking" => file \in Index /\ Fits(file, state[p])

CopyFits ==
    \A p \in Procs :
        /\ step[p] \in {"loaded", "syncing", "resaving"} => Fits(copy[p], stateFile)
        /\ step[p] \in {"marking", "syncing", "resaving", "serving"} =>
              copy[p] \in Index /\ Fits(copy[p], state[p])

KnownInv ==
    \A p \in Procs :
        /\ known[p] \subseteq memory
        /\ step[p] \in {"resaving", "serving"} => known[p] \subseteq copy[p].mems

IndInv ==
    /\ McpTypeOK /\ Exclusive /\ StateRead /\ ListedInv /\ FileFits /\ CopyFits /\ KnownInv

-----------------------------------------------------------------------------

LEMMA SyncedKeeps ==
    ASSUME NEW p \in Procs, memory \subseteq Memories, copy[p] \in Index
    PROVE  /\ Synced(p) \in Index
           /\ Synced(p).world = copy[p].world
           /\ Synced(p).ignores = copy[p].ignores
           /\ Synced(p).sound = copy[p].sound
           /\ Synced(p).mems = copy[p].mems \cup memory
  BY DEF Synced, Index

LEMMA UnsoundKeeps ==
    ASSUME NEW index \in Index
    PROVE  /\ Unsound(index) \in Index
           /\ Unsound(index).world = index.world
           /\ ~Unsound(index).sound
  BY DEF Unsound, Index

LEMMA RebuiltType ==
    ASSUME IndInv, NEW p \in Procs, step[p] = "saving"
    PROVE  /\ Rebuilt(p) \in Index
           /\ Rebuilt(p).world = listed[p]
           /\ Rebuilt(p).ignores = IgnoresOf[p]
           /\ Rebuilt(p).sound <=> p \in Recalls
           /\ Rebuilt(p).mems = {}
<1>1. listed[p] \in Worlds /\ IgnoresOf[p] \in Ignores
  BY McpAssumption DEF IndInv, ListedInv
<1>2. \A b \in BOOLEAN :
         LET r == [world |-> listed[p], ignores |-> IgnoresOf[p], mems |-> {}, sound |-> b]
         IN  r \in Index /\ r.world = listed[p] /\ r.ignores = IgnoresOf[p]
             /\ r.mems = {} /\ r.sound = b
  BY <1>1 DEF Index
<1>3. (p \in Recalls) \in BOOLEAN
  OBVIOUS
<1> QED BY <1>2, <1>3 DEF Rebuilt

LEMMA InitInd == McpInit => IndInv
  BY McpAssumption, SentinelAssumption
     DEF McpInit, IndInv, McpTypeOK, Exclusive, StateRead, ListedInv, FileFits, CopyFits,
         Fits, KnownInv, Steps, Holding, Worlds, Procs

LEMMA EditInd ==
    ASSUME IndInv, Edit
    PROVE  IndInv'
<1> USE McpAssumption, SentinelAssumption DEF IndInv
<1>0. workspace' \in Worlds /\ StatusOf[workspace] <= StatusOf[workspace']
  BY DEF Edit, McpTypeOK, Worlds
<1>1. McpTypeOK'
  BY <1>0 DEF Edit, McpTypeOK, Index, State, Worlds, Steps, Holding
<1>2. Exclusive'
  BY <1>1, <1>0 DEF Edit, Exclusive, Holding, McpTypeOK
<1>3. StateRead'
  BY <1>1, <1>0 DEF Edit, StateRead, Steps, Holding, McpTypeOK, Worlds, State
<1>4. ListedInv'
  BY <1>1, <1>0 DEF Edit, ListedInv, McpTypeOK, Worlds, Index, Holding,
     StateRead, Steps
<1>5. FileFits'
  BY <1>1, <1>0 DEF Edit, FileFits, Fits, McpTypeOK, Exclusive, Holding
<1>6. CopyFits'
  BY <1>1, <1>0 DEF Edit, CopyFits, FileFits, Fits, McpTypeOK, Index, Exclusive,
     Holding
<1>7. KnownInv'
  BY <1>1, <1>0 DEF Edit, KnownInv, McpTypeOK, Index, CopyFits
<1> QED BY <1>1, <1>2, <1>3, <1>4, <1>5, <1>6, <1>7 DEF IndInv

LEMMA CaptureInd ==
    ASSUME IndInv, NEW m \in Memories, Capture(m)
    PROVE  IndInv'
<1> USE McpAssumption, SentinelAssumption DEF IndInv
<1>1. McpTypeOK'
  BY DEF Capture, McpTypeOK, Index, State, Worlds, Steps, Holding
<1>2. Exclusive'
  BY <1>1 DEF Capture, Exclusive, Holding, McpTypeOK
<1>3. StateRead'
  BY <1>1 DEF Capture, StateRead, Steps, Holding, McpTypeOK, Worlds, State
<1>4. ListedInv'
  BY <1>1 DEF Capture, ListedInv, McpTypeOK, Worlds, Index, Holding, StateRead,
     Steps
<1>5. FileFits'
  BY <1>1 DEF Capture, FileFits, Fits, McpTypeOK, Exclusive, Holding
<1>6. CopyFits'
  BY <1>1 DEF Capture, CopyFits, FileFits, Fits, McpTypeOK, Index, Exclusive,
     Holding
<1>7. KnownInv'
  BY <1>1 DEF Capture, KnownInv, McpTypeOK, Index, CopyFits
<1> QED BY <1>1, <1>2, <1>3, <1>4, <1>5, <1>6, <1>7 DEF IndInv

LEMMA StartInd ==
    ASSUME IndInv, NEW p \in Procs, Start(p)
    PROVE  IndInv'
<1> USE McpAssumption, SentinelAssumption DEF IndInv
<1>1. McpTypeOK'
  BY DEF Start, Goto, McpTypeOK, Index, State, Worlds, Steps, Holding
<1>2. Exclusive'
  BY <1>1 DEF Start, Goto, Exclusive, Holding, McpTypeOK
<1>3. StateRead'
  BY <1>1 DEF Start, Goto, StateRead, Steps, Holding, McpTypeOK, Worlds, State
<1>4. ListedInv'
  BY <1>1 DEF Start, Goto, ListedInv, McpTypeOK, Worlds, Index, Holding,
     StateRead, Steps
<1>5. FileFits'
  BY <1>1 DEF Start, Goto, FileFits, Fits, McpTypeOK, Exclusive, Holding
<1>6. CopyFits'
  BY <1>1 DEF Start, Goto, CopyFits, FileFits, Fits, McpTypeOK, Index, Exclusive,
     Holding
<1>7. KnownInv'
  BY <1>1 DEF Start, Goto, KnownInv, McpTypeOK, Index, CopyFits
<1> QED BY <1>1, <1>2, <1>3, <1>4, <1>5, <1>6, <1>7 DEF IndInv

LEMMA AcquireInd ==
    ASSUME IndInv, NEW p \in Procs, Acquire(p)
    PROVE  IndInv'
<1> USE McpAssumption, SentinelAssumption DEF IndInv
<1>1. McpTypeOK'
  BY DEF Acquire, Goto, McpTypeOK, Index, State, Worlds, Steps, Holding
<1>2. Exclusive'
  BY <1>1 DEF Acquire, Goto, Exclusive, Holding, McpTypeOK
<1>3. StateRead'
  BY <1>1 DEF Acquire, Goto, StateRead, Steps, Holding, McpTypeOK, Worlds, State
<1>4. ListedInv'
  BY <1>1 DEF Acquire, Goto, ListedInv, McpTypeOK, Worlds, Index, Holding,
     StateRead, Steps
<1>5. FileFits'
  BY <1>1 DEF Acquire, Goto, FileFits, Fits, McpTypeOK, Exclusive, Holding
<1>6. CopyFits'
  BY <1>1 DEF Acquire, Goto, CopyFits, FileFits, Fits, McpTypeOK, Index,
     Exclusive, Holding
<1>7. KnownInv'
  BY <1>1 DEF Acquire, Goto, KnownInv, McpTypeOK, Index, CopyFits
<1> QED BY <1>1, <1>2, <1>3, <1>4, <1>5, <1>6, <1>7 DEF IndInv

LEMMA WaitTimeoutInd ==
    ASSUME IndInv, NEW p \in Procs, WaitTimeout(p)
    PROVE  IndInv'
<1> USE McpAssumption, SentinelAssumption DEF IndInv
<1>1. McpTypeOK'
  BY DEF WaitTimeout, Goto, Gone, McpTypeOK, Index, State, Worlds, Steps, Holding
<1>2. Exclusive'
  BY <1>1 DEF WaitTimeout, Goto, Gone, Exclusive, Holding, McpTypeOK
<1>3. StateRead'
  BY <1>1 DEF WaitTimeout, Goto, Gone, StateRead, Steps, Holding, McpTypeOK,
     Worlds, State
<1>4. ListedInv'
  BY <1>1 DEF WaitTimeout, Goto, Gone, ListedInv, McpTypeOK, Worlds, Index,
     Holding, StateRead, Steps
<1>5. FileFits'
  BY <1>1 DEF WaitTimeout, Goto, Gone, FileFits, Fits, McpTypeOK, Exclusive,
     Holding
<1>6. CopyFits'
  BY <1>1 DEF WaitTimeout, Goto, Gone, CopyFits, FileFits, Fits, McpTypeOK,
     Index, Exclusive, Holding
<1>7. KnownInv'
  BY <1>1 DEF WaitTimeout, Goto, Gone, KnownInv, McpTypeOK, Index, CopyFits
<1> QED BY <1>1, <1>2, <1>3, <1>4, <1>5, <1>6, <1>7 DEF IndInv

LEMMA CheckInd ==
    ASSUME IndInv, NEW p \in Procs, Check(p)
    PROVE  IndInv'
<1> USE McpAssumption, SentinelAssumption DEF IndInv
<1>1. McpTypeOK'
  BY DEF Check, Goto, IsCurrent, WorkspaceState, McpTypeOK, Index, State, Worlds,
     Steps, Holding
<1>2. Exclusive'
  BY <1>1 DEF Check, Goto, IsCurrent, WorkspaceState, Exclusive, Holding,
     McpTypeOK
<1>3. StateRead'
  BY <1>1 DEF Check, Goto, IsCurrent, WorkspaceState, StateRead, Steps,
     Holding, McpTypeOK, Worlds, State
<1>4. ListedInv'
  BY <1>1 DEF Check, Goto, IsCurrent, WorkspaceState, ListedInv, McpTypeOK,
     Worlds, Index, Holding, StateRead, Steps
<1>5. FileFits'
  BY <1>1 DEF Check, Goto, IsCurrent, WorkspaceState, FileFits, Fits, McpTypeOK,
     Exclusive, Holding
<1>6. CopyFits'
  BY <1>1 DEF Check, Goto, IsCurrent, WorkspaceState, CopyFits, FileFits,
     Fits, McpTypeOK, Index, Exclusive, Holding
<1>7. KnownInv'
  BY <1>1 DEF Check, Goto, IsCurrent, WorkspaceState, KnownInv, McpTypeOK, Index,
     CopyFits
<1> QED BY <1>1, <1>2, <1>3, <1>4, <1>5, <1>6, <1>7 DEF IndInv

LEMMA ListInd ==
    ASSUME IndInv, NEW p \in Procs, List(p)
    PROVE  IndInv'
<1> USE McpAssumption, SentinelAssumption DEF IndInv
<1>1. McpTypeOK'
  BY DEF List, Goto, McpTypeOK, Index, State, Worlds, Steps, Holding
<1>2. Exclusive'
  BY <1>1 DEF List, Goto, Exclusive, Holding, McpTypeOK
<1>3. StateRead'
  BY <1>1 DEF List, Goto, StateRead, Steps, Holding, McpTypeOK, Worlds, State
<1>4. ListedInv'
  BY <1>1 DEF List, Goto, ListedInv, McpTypeOK, Worlds, Index, Holding,
     StateRead, Steps
<1>5. FileFits'
  BY <1>1 DEF List, Goto, FileFits, Fits, McpTypeOK, Exclusive, Holding
<1>6. CopyFits'
  BY <1>1 DEF List, Goto, CopyFits, FileFits, Fits, McpTypeOK, Index, Exclusive,
     Holding
<1>7. KnownInv'
  BY <1>1 DEF List, Goto, KnownInv, McpTypeOK, Index, CopyFits
<1> QED BY <1>1, <1>2, <1>3, <1>4, <1>5, <1>6, <1>7 DEF IndInv

LEMMA SaveInd ==
    ASSUME IndInv, NEW p \in Procs, Save(p)
    PROVE  IndInv'
<1> USE McpAssumption, SentinelAssumption DEF IndInv
<1>0. step[p] = "saving"
  BY DEF Save
<1>1. McpTypeOK'
  BY <1>0, RebuiltType DEF Save, Goto, McpTypeOK, Index, State, Worlds, Steps,
     Holding
<1>2. Exclusive'
  BY <1>1, <1>0, RebuiltType DEF Save, Goto, Exclusive, Holding, McpTypeOK
<1>3. StateRead'
  BY <1>1, <1>0, RebuiltType DEF Save, Goto, StateRead, Steps, Holding,
     McpTypeOK, Worlds, State
<1>4. ListedInv'
  BY <1>1, <1>0, RebuiltType DEF Save, Goto, ListedInv, McpTypeOK, Worlds, Index,
     Holding, StateRead, Steps
<1>5. FileFits'
  BY <1>1, <1>0, RebuiltType DEF Save, Goto, FileFits, Fits, McpTypeOK,
     Exclusive, Holding, ListedInv, StateRead, Steps, Procs
<1>6. CopyFits'
  BY <1>1, <1>0, RebuiltType DEF Save, Goto, CopyFits, FileFits, Fits, McpTypeOK,
     Index, Exclusive, Holding, ListedInv, StateRead, Steps, Procs
<1>7. KnownInv'
  BY <1>1, <1>0, RebuiltType DEF Save, Goto, KnownInv, McpTypeOK, Index, CopyFits
<1> QED BY <1>1, <1>2, <1>3, <1>4, <1>5, <1>6, <1>7 DEF IndInv

LEMMA OpenFailsInd ==
    ASSUME IndInv, NEW p \in Procs, OpenFails(p)
    PROVE  IndInv'
<1> USE McpAssumption, SentinelAssumption DEF IndInv
<1>1. McpTypeOK'
  BY DEF OpenFails, Goto, Gone, Release, McpTypeOK, Index, State, Worlds, Steps,
     Holding
<1>2. Exclusive'
  BY <1>1 DEF OpenFails, Goto, Gone, Release, Exclusive, Holding, McpTypeOK
<1>3. StateRead'
  BY <1>1 DEF OpenFails, Goto, Gone, Release, StateRead, Steps, Holding,
     McpTypeOK, Worlds, State
<1>4. ListedInv'
  BY <1>1 DEF OpenFails, Goto, Gone, Release, ListedInv, McpTypeOK, Worlds,
     Index, Holding, StateRead, Steps
<1>5. FileFits'
  BY <1>1 DEF OpenFails, Goto, Gone, Release, FileFits, Fits, McpTypeOK,
     Exclusive, Holding
<1>6. CopyFits'
  BY <1>1 DEF OpenFails, Goto, Gone, Release, CopyFits, FileFits, Fits,
     McpTypeOK, Index, Exclusive, Holding
<1>7. KnownInv'
  BY <1>1 DEF OpenFails, Goto, Gone, Release, KnownInv, McpTypeOK, Index,
     CopyFits
<1> QED BY <1>1, <1>2, <1>3, <1>4, <1>5, <1>6, <1>7 DEF IndInv

LEMMA SaveFailsInd ==
    ASSUME IndInv, NEW p \in Procs, SaveFails(p)
    PROVE  IndInv'
<1> USE McpAssumption, SentinelAssumption DEF IndInv
<1>0. Rebuilt(p) \in Index /\ step[p] = "saving"
  BY RebuiltType DEF SaveFails
<1>1. McpTypeOK'
  BY <1>0, RebuiltType, UnsoundKeeps DEF SaveFails, Goto, Gone, Release,
     McpTypeOK, Index, State, Worlds, Steps, Holding
<1>2. Exclusive'
  BY <1>1, <1>0, RebuiltType, UnsoundKeeps DEF SaveFails, Goto, Gone, Release,
     Exclusive, Holding, McpTypeOK
<1>3. StateRead'
  BY <1>1, <1>0, RebuiltType, UnsoundKeeps DEF SaveFails, Goto, Gone, Release,
     StateRead, Steps, Holding, McpTypeOK, Worlds, State
<1>4. ListedInv'
  BY <1>1, <1>0, RebuiltType, UnsoundKeeps DEF SaveFails, Goto, Gone, Release,
     ListedInv, McpTypeOK, Worlds, Index, Holding, StateRead, Steps
<1>5. FileFits'
  BY <1>1, <1>0, RebuiltType, UnsoundKeeps DEF SaveFails, Goto, Gone, Release,
     FileFits, Fits, McpTypeOK, Exclusive, Holding
<1>6. CopyFits'
  BY <1>1, <1>0, RebuiltType, UnsoundKeeps DEF SaveFails, Goto, Gone, Release,
     CopyFits, FileFits, Fits, McpTypeOK, Index, Exclusive, Holding
<1>7. KnownInv'
  BY <1>1, <1>0, RebuiltType, UnsoundKeeps DEF SaveFails, Goto, Gone, Release,
     KnownInv, McpTypeOK, Index, CopyFits
<1> QED BY <1>1, <1>2, <1>3, <1>4, <1>5, <1>6, <1>7 DEF IndInv

LEMMA MarkInd ==
    ASSUME IndInv, NEW p \in Procs, Mark(p)
    PROVE  IndInv'
<1> USE McpAssumption, SentinelAssumption DEF IndInv
<1>1. McpTypeOK'
  BY DEF Mark, Goto, McpTypeOK, Index, State, Worlds, Steps, Holding
<1>2. Exclusive'
  BY <1>1 DEF Mark, Goto, Exclusive, Holding, McpTypeOK
<1>3. StateRead'
  BY <1>1 DEF Mark, Goto, StateRead, Steps, Holding, McpTypeOK, Worlds, State
<1>4. ListedInv'
  BY <1>1 DEF Mark, Goto, ListedInv, McpTypeOK, Worlds, Index, Holding,
     StateRead, Steps
<1>5. FileFits'
  BY <1>1 DEF Mark, Goto, FileFits, Fits, McpTypeOK, Exclusive, Holding
<1>6. CopyFits'
  BY <1>1 DEF Mark, Goto, CopyFits, FileFits, Fits, McpTypeOK, Index, Exclusive,
     Holding
<1>7. KnownInv'
  BY <1>1 DEF Mark, Goto, KnownInv, McpTypeOK, Index, CopyFits
<1> QED BY <1>1, <1>2, <1>3, <1>4, <1>5, <1>6, <1>7 DEF IndInv

LEMMA MarkFailsInd ==
    ASSUME IndInv, NEW p \in Procs, MarkFails(p)
    PROVE  IndInv'
<1> USE McpAssumption, SentinelAssumption DEF IndInv
<1>0. file \in Index
  BY DEF MarkFails, FileFits
<1>1. McpTypeOK'
  BY <1>0, UnsoundKeeps DEF MarkFails, Goto, Gone, Release, McpTypeOK, Index,
     State, Worlds, Steps, Holding
<1>2. Exclusive'
  BY <1>1, <1>0, UnsoundKeeps DEF MarkFails, Goto, Gone, Release, Exclusive,
     Holding, McpTypeOK
<1>3. StateRead'
  BY <1>1, <1>0, UnsoundKeeps DEF MarkFails, Goto, Gone, Release, StateRead,
     Steps, Holding, McpTypeOK, Worlds, State
<1>4. ListedInv'
  BY <1>1, <1>0, UnsoundKeeps DEF MarkFails, Goto, Gone, Release, ListedInv,
     McpTypeOK, Worlds, Index, Holding, StateRead, Steps
<1>5. FileFits'
  BY <1>1, <1>0, UnsoundKeeps DEF MarkFails, Goto, Gone, Release, FileFits,
     Fits, McpTypeOK, Exclusive, Holding
<1>6. CopyFits'
  BY <1>1, <1>0, UnsoundKeeps DEF MarkFails, Goto, Gone, Release, CopyFits,
     FileFits, Fits, McpTypeOK, Index, Exclusive, Holding
<1>7. KnownInv'
  BY <1>1, <1>0, UnsoundKeeps DEF MarkFails, Goto, Gone, Release, KnownInv,
     McpTypeOK, Index, CopyFits
<1> QED BY <1>1, <1>2, <1>3, <1>4, <1>5, <1>6, <1>7 DEF IndInv

LEMMA SyncInd ==
    ASSUME IndInv, NEW p \in Procs, Sync(p)
    PROVE  IndInv'
<1> USE McpAssumption, SentinelAssumption DEF IndInv
<1>0. memory \subseteq Memories /\ copy[p] \in Index
  BY DEF Sync, CopyFits, McpTypeOK
<1>1. McpTypeOK'
  BY <1>0, SyncedKeeps DEF Sync, Goto, Release, McpTypeOK, Index, State, Worlds,
     Steps, Holding
<1>2. Exclusive'
  BY <1>1, <1>0, SyncedKeeps DEF Sync, Goto, Release, Exclusive, Holding,
     McpTypeOK
<1>3. StateRead'
  BY <1>1, <1>0, SyncedKeeps DEF Sync, Goto, Release, StateRead, Steps,
     Holding, McpTypeOK, Worlds, State
<1>4. ListedInv'
  BY <1>1, <1>0, SyncedKeeps DEF Sync, Goto, Release, ListedInv, McpTypeOK,
     Worlds, Index, Holding, StateRead, Steps
<1>5. FileFits'
  BY <1>1, <1>0, SyncedKeeps DEF Sync, Goto, Release, FileFits, Fits, McpTypeOK,
     Exclusive, Holding
<1>6. CopyFits'
  BY <1>1, <1>0, SyncedKeeps DEF Sync, Goto, Release, CopyFits, FileFits,
     Fits, McpTypeOK, Index, Exclusive, Holding
<1>7. KnownInv'
  BY <1>1, <1>0, SyncedKeeps DEF Sync, Goto, Release, KnownInv, McpTypeOK, Index,
     CopyFits
<1> QED BY <1>1, <1>2, <1>3, <1>4, <1>5, <1>6, <1>7 DEF IndInv

LEMMA ResaveInd ==
    ASSUME IndInv, NEW p \in Procs, Resave(p)
    PROVE  IndInv'
<1> USE McpAssumption, SentinelAssumption DEF IndInv
<1>0. copy[p] \in Index
  BY DEF Resave, CopyFits
<1>1. McpTypeOK'
  BY <1>0 DEF Resave, Goto, Release, McpTypeOK, Index, State, Worlds, Steps,
     Holding
<1>2. Exclusive'
  BY <1>1, <1>0 DEF Resave, Goto, Release, Exclusive, Holding, McpTypeOK
<1>3. StateRead'
  BY <1>1, <1>0 DEF Resave, Goto, Release, StateRead, Steps, Holding, McpTypeOK,
     Worlds, State
<1>4. ListedInv'
  BY <1>1, <1>0 DEF Resave, Goto, Release, ListedInv, McpTypeOK, Worlds, Index,
     Holding, StateRead, Steps
<1>5. FileFits'
  BY <1>1, <1>0 DEF Resave, Goto, Release, FileFits, Fits, McpTypeOK, Exclusive,
     Holding, CopyFits
<1>6. CopyFits'
  BY <1>1, <1>0 DEF Resave, Goto, Release, CopyFits, FileFits, Fits, McpTypeOK,
     Index, Exclusive, Holding
<1>7. KnownInv'
  BY <1>1, <1>0 DEF Resave, Goto, Release, KnownInv, McpTypeOK, Index, CopyFits
<1> QED BY <1>1, <1>2, <1>3, <1>4, <1>5, <1>6, <1>7 DEF IndInv

LEMMA ResaveFailsInd ==
    ASSUME IndInv, NEW p \in Procs, ResaveFails(p)
    PROVE  IndInv'
<1> USE McpAssumption, SentinelAssumption DEF IndInv
<1>0. copy[p] \in Index
  BY DEF ResaveFails, CopyFits
<1>1. McpTypeOK'
  BY <1>0 DEF ResaveFails, Goto, Gone, Release, McpTypeOK, Index, State, Worlds,
     Steps, Holding
<1>2. Exclusive'
  BY <1>1, <1>0 DEF ResaveFails, Goto, Gone, Release, Exclusive, Holding,
     McpTypeOK
<1>3. StateRead'
  BY <1>1, <1>0 DEF ResaveFails, Goto, Gone, Release, StateRead, Steps,
     Holding, McpTypeOK, Worlds, State
<1>4. ListedInv'
  BY <1>1, <1>0 DEF ResaveFails, Goto, Gone, Release, ListedInv, McpTypeOK,
     Worlds, Index, Holding, StateRead, Steps
<1>5. FileFits'
  BY <1>1, <1>0 DEF ResaveFails, Goto, Gone, Release, FileFits, Fits, McpTypeOK,
     Exclusive, Holding, CopyFits
<1>6. CopyFits'
  BY <1>1, <1>0 DEF ResaveFails, Goto, Gone, Release, CopyFits, FileFits,
     Fits, McpTypeOK, Index, Exclusive, Holding
<1>7. KnownInv'
  BY <1>1, <1>0 DEF ResaveFails, Goto, Gone, Release, KnownInv, McpTypeOK, Index,
     CopyFits
<1> QED BY <1>1, <1>2, <1>3, <1>4, <1>5, <1>6, <1>7 DEF IndInv

LEMMA ListMemoriesInd ==
    ASSUME IndInv, NEW p \in Procs, ListMemories(p)
    PROVE  IndInv'
<1> USE McpAssumption, SentinelAssumption DEF IndInv
<1>0. memory \subseteq Memories /\ copy[p] \in Index
  BY DEF ListMemories, CopyFits, McpTypeOK
<1>1. McpTypeOK'
  BY <1>0, SyncedKeeps DEF ListMemories, McpTypeOK, Index, State, Worlds, Steps,
     Holding
<1>2. Exclusive'
  BY <1>1, <1>0, SyncedKeeps DEF ListMemories, Exclusive, Holding, McpTypeOK
<1>3. StateRead'
  BY <1>1, <1>0, SyncedKeeps DEF ListMemories, StateRead, Steps, Holding,
     McpTypeOK, Worlds, State
<1>4. ListedInv'
  BY <1>1, <1>0, SyncedKeeps DEF ListMemories, ListedInv, McpTypeOK, Worlds,
     Index, Holding, StateRead, Steps
<1>5. FileFits'
  BY <1>1, <1>0, SyncedKeeps DEF ListMemories, FileFits, Fits, McpTypeOK,
     Exclusive, Holding
<1>6. CopyFits'
  BY <1>1, <1>0, SyncedKeeps DEF ListMemories, CopyFits, FileFits, Fits,
     McpTypeOK, Index, Exclusive, Holding
<1>7. KnownInv'
  BY <1>1, <1>0, SyncedKeeps DEF ListMemories, KnownInv, McpTypeOK, Index,
     CopyFits
<1> QED BY <1>1, <1>2, <1>3, <1>4, <1>5, <1>6, <1>7 DEF IndInv

LEMMA SearchInd ==
    ASSUME IndInv, NEW p \in Procs, Search(p)
    PROVE  IndInv'
<1> USE McpAssumption, SentinelAssumption DEF IndInv
<1>0. memory \subseteq Memories /\ copy[p] \in Index /\ Synced(p) \in Index
  BY SyncedKeeps DEF Search, CopyFits, McpTypeOK
<1>1. McpTypeOK'
  BY <1>0, SyncedKeeps, UnsoundKeeps DEF Search, McpTypeOK, Index, State, Worlds,
     Steps, Holding
<1>2. Exclusive'
  BY <1>1, <1>0, SyncedKeeps, UnsoundKeeps DEF Search, Exclusive, Holding,
     McpTypeOK
<1>3. StateRead'
  BY <1>1, <1>0, SyncedKeeps, UnsoundKeeps DEF Search, StateRead, Steps,
     Holding, McpTypeOK, Worlds, State
<1>4. ListedInv'
  BY <1>1, <1>0, SyncedKeeps, UnsoundKeeps DEF Search, ListedInv, McpTypeOK,
     Worlds, Index, Holding, StateRead, Steps
<1>5. FileFits'
  BY <1>1, <1>0, SyncedKeeps, UnsoundKeeps DEF Search, FileFits, Fits, McpTypeOK,
     Exclusive, Holding, Procs
<1>6. CopyFits'
  BY <1>1, <1>0, SyncedKeeps, UnsoundKeeps DEF Search, CopyFits, FileFits,
     Fits, McpTypeOK, Index, Exclusive, Holding
<1>7. KnownInv'
  BY <1>1, <1>0, SyncedKeeps, UnsoundKeeps DEF Search, KnownInv, McpTypeOK,
     Index, CopyFits
<1> QED BY <1>1, <1>2, <1>3, <1>4, <1>5, <1>6, <1>7 DEF IndInv

LEMMA AnswerInd ==
    ASSUME IndInv, NEW p \in Procs, Answer(p)
    PROVE  IndInv'
<1> USE McpAssumption, SentinelAssumption DEF IndInv
<1>1. McpTypeOK'
  BY DEF Answer, Goto, Gone, McpTypeOK, Index, State, Worlds, Steps, Holding
<1>2. Exclusive'
  BY <1>1 DEF Answer, Goto, Gone, Exclusive, Holding, McpTypeOK
<1>3. StateRead'
  BY <1>1 DEF Answer, Goto, Gone, StateRead, Steps, Holding, McpTypeOK, Worlds,
     State
<1>4. ListedInv'
  BY <1>1 DEF Answer, Goto, Gone, ListedInv, McpTypeOK, Worlds, Index, Holding,
     StateRead, Steps
<1>5. FileFits'
  BY <1>1 DEF Answer, Goto, Gone, FileFits, Fits, McpTypeOK, Exclusive, Holding
<1>6. CopyFits'
  BY <1>1 DEF Answer, Goto, Gone, CopyFits, FileFits, Fits, McpTypeOK, Index,
     Exclusive, Holding
<1>7. KnownInv'
  BY <1>1 DEF Answer, Goto, Gone, KnownInv, McpTypeOK, Index, CopyFits
<1> QED BY <1>1, <1>2, <1>3, <1>4, <1>5, <1>6, <1>7 DEF IndInv

LEMMA KilledInd ==
    ASSUME IndInv, NEW p \in Procs, Killed(p)
    PROVE  IndInv'
<1> USE McpAssumption, SentinelAssumption DEF IndInv
<1>1. McpTypeOK'
  BY DEF Killed, Goto, Gone, McpTypeOK, Index, State, Worlds, Steps, Holding
<1>2. Exclusive'
  BY <1>1 DEF Killed, Goto, Gone, Exclusive, Holding, McpTypeOK
<1>3. StateRead'
  BY <1>1 DEF Killed, Goto, Gone, StateRead, Steps, Holding, McpTypeOK, Worlds,
     State
<1>4. ListedInv'
  BY <1>1 DEF Killed, Goto, Gone, ListedInv, McpTypeOK, Worlds, Index, Holding,
     StateRead, Steps
<1>5. FileFits'
  BY <1>1 DEF Killed, Goto, Gone, FileFits, Fits, McpTypeOK, Exclusive, Holding
<1>6. CopyFits'
  BY <1>1 DEF Killed, Goto, Gone, CopyFits, FileFits, Fits, McpTypeOK, Index,
     Exclusive, Holding
<1>7. KnownInv'
  BY <1>1 DEF Killed, Goto, Gone, KnownInv, McpTypeOK, Index, CopyFits
<1> QED BY <1>1, <1>2, <1>3, <1>4, <1>5, <1>6, <1>7 DEF IndInv

LEMMA StutterInd ==
    ASSUME IndInv, UNCHANGED mcpVars
    PROVE  IndInv'
  BY DEF mcpVars, IndInv, McpTypeOK, Exclusive, StateRead, ListedInv, FileFits, CopyFits,
         Fits, KnownInv

LEMMA NextInd == IndInv /\ [McpNext]_mcpVars => IndInv'
<1> SUFFICES ASSUME IndInv, [McpNext]_mcpVars PROVE IndInv'
  OBVIOUS
<1>1. CASE Edit
  BY <1>1, EditInd
<1>2. ASSUME NEW m \in Memories, Capture(m) PROVE IndInv'
  BY <1>2, CaptureInd
<1>3. ASSUME NEW p \in Procs, Run(p) PROVE IndInv'
  BY <1>3, AcquireInd, WaitTimeoutInd, CheckInd, ListInd, OpenFailsInd, SaveInd,
     SaveFailsInd, MarkInd, MarkFailsInd, SyncInd, ResaveInd, ResaveFailsInd
     DEF Run
<1>4. ASSUME NEW p \in Procs,
             Start(p) \/ ListMemories(p) \/ Search(p) \/ Answer(p) \/ Killed(p)
      PROVE  IndInv'
  BY <1>4, StartInd, ListMemoriesInd, SearchInd, AnswerInd, KilledInd
<1>5. CASE UNCHANGED mcpVars
  BY <1>5, StutterInd
<1> QED BY <1>1, <1>2, <1>3, <1>4, <1>5 DEF McpNext

LEMMA IndInvHolds == McpSpec => []IndInv
  BY InitInd, NextInd, PTL DEF McpSpec

-----------------------------------------------------------------------------

(* Every variable keeps its type: in particular an index that is saved has  *)
(* been listed, and a state that is written has been read.                  *)
THEOREM TypeCorrect == McpSpec => []McpTypeOK
<1>1. IndInv => McpTypeOK
  BY DEF IndInv
<1> QED BY <1>1, IndInvHolds, PTL

(* An index the next open takes as it is describes the workspace, however   *)
(* many processes open, rebuild, serve and fail.                            *)
THEOREM MarkedIsCurrentHolds == McpSpec => []MarkedIsCurrent
<1>1. IndInv => MarkedIsCurrent
  <2> SUFFICES ASSUME IndInv, NEW i \in Ignores,
                      Marked(i), file # NoRecords, file.sound
               PROVE  Describes(i, file)
    BY DEF MarkedIsCurrent
  <2>1. lock = NoLock /\ lock # Orphan /\ \A p \in Procs : step[p] # "marking"
    BY McpAssumption DEF IndInv, Exclusive, Marked, Holding
  <2>2. stateFile # NoState
    BY McpAssumption, SentinelAssumption DEF Marked, State, IndInv, McpTypeOK
  <2>3. /\ file.ignores = i
        /\ StatusOf[workspace] <= StatusOf[file.world]
    BY <2>1, <2>2 DEF IndInv, FileFits, Fits, Marked
  <2>4. file.world \in Worlds /\ workspace \in Worlds /\ file.world <= workspace
    BY DEF IndInv, McpTypeOK, ListedInv, Index
  <2> QED BY <2>3, <2>4, McpAssumption DEF Describes, Worlds
<1> QED BY <1>1, IndInvHolds, PTL

(* What recall answers from is never older than the workspace state it      *)
(* read, nor listed under other ignored paths.                              *)
THEOREM RecallAnswersFreshHolds == McpSpec => []RecallAnswersFresh
<1>1. IndInv => RecallAnswersFresh
  BY SentinelAssumption
     DEF IndInv, RecallAnswersFresh, CopyFits, Fits, StateRead, Steps, Holding, Procs
<1> QED BY <1>1, IndInvHolds, PTL

(* No rebuild and no other process makes a process serve an index without   *)
(* the memories captured before it got the lock.                            *)
THEOREM KnownMemoriesServedHolds == McpSpec => []KnownMemoriesServed
<1>1. IndInv => KnownMemoriesServed
  BY DEF IndInv, KnownInv, KnownMemoriesServed
<1> QED BY <1>1, IndInvHolds, PTL
=============================================================================
