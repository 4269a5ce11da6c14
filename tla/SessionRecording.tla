-------------------------- MODULE SessionRecording --------------------------
(***************************************************************************)
(* Session recording (src/src/integrations/session_recording.rs): hook     *)
(* processes append the events of agent sessions to one events.jsonl per   *)
(* session and keep its manifest.json up to date.  A lock file serializes  *)
(* the hooks of one session; a hook that starts a session also rewrites,   *)
(* without their locks, the manifests of other sessions that have been     *)
(* silent for long.  A manifest is replaced by writing manifest.json.tmp,  *)
(* whose name all writers share, and renaming it.                          *)
(*                                                                         *)
(* A line of events.jsonl is its sequence number, or Bad if no event can   *)
(* be read from it.  Payloads, redaction and size limits are left out.     *)
(***************************************************************************)
EXTENDS HookProcesses, Naturals, Sequences, FiniteSets

CONSTANTS
    Sessions,    \* session ids
    NoSession,
    NoFile,      \* a manifest or a temporary file that does not exist
    Bad,         \* a line no event can be read from
    MaxLines,    \* bound: lines of an event log
    Budget       \* bound: number of faults of each kind

ASSUME RecordingAssumption ==
    /\ NoSession \notin Sessions
    /\ Nobody \notin Hooks
    /\ Bad \notin Nat
    /\ MaxLines \in Nat
    /\ Budget \in [{"crash", "io"} -> Nat]

Kinds == {"start", "event", "end"}

\* old: is last_event_at INTERRUPTED_SESSION_STALE_SECONDS ago?
Manifest == [count : Nat,
             status : {"active", "interrupted", "completed"},
             old : BOOLEAN]

ASSUME NoFileAssumption == NoFile \notin Manifest

VARIABLES
    at,        \* what each hook is doing
    session,   \* the session of its event
    kind,      \* the kind of its event
    others,    \* sessions mark_interrupted_sessions has still to look at
    target,    \* the session whose manifest it is rewriting
    sequence,  \* the sequence number of its event
    draft,     \* the manifest it has read
    lock,      \* who has created the .lock of each session, if anybody
    lines,     \* events.jsonl
    open,      \* is the last line without its newline?
    manifest,  \* manifest.json
    temporary, \* manifest.json.tmp
    budget,    \* faults that may still happen
    acked      \* history: lines of events whose recording ended with Ok

hookVars == <<at, session, kind, others, target, sequence, draft>>
logVars == <<lines, open>>
vars == <<hookVars, lock, logVars, manifest, temporary, budget, acked>>

(***************************************************************************)
(* "waiting": for the lock.  "scanning", "marking", "moving":              *)
(* mark_interrupted_sessions, between two sessions, with a manifest read,  *)
(* with its replacement in the temporary file.  "counting", "appending",   *)
(* "reading", "writing", "renaming": the steps of record_event after it.   *)
(***************************************************************************)
Places == {"idle", "waiting", "scanning", "marking", "moving", "counting",
           "appending", "reading", "writing", "renaming"}

TypeOK ==
    /\ at \in [Hooks -> Places]
    /\ session \in [Hooks -> Sessions \cup {NoSession}]
    /\ kind \in [Hooks -> Kinds]
    /\ others \in [Hooks -> SUBSET Sessions]
    /\ target \in [Hooks -> Sessions \cup {NoSession}]
    /\ sequence \in [Hooks -> Nat]
    /\ draft \in [Hooks -> Manifest \cup {NoFile}]
    /\ lock \in [Sessions -> Hooks \cup {Nobody}]
    /\ lines \in [Sessions -> Seq(Nat \cup {Bad})]
    /\ open \in [Sessions -> BOOLEAN]
    /\ manifest \in [Sessions -> Manifest \cup {NoFile}]
    /\ temporary \in [Sessions -> Manifest \cup {NoFile}]
    /\ budget \in [{"crash", "io"} -> Nat]
    /\ \A f \in {"crash", "io"} : budget[f] <= Budget[f]
    /\ acked \in [Sessions -> SUBSET Nat]

Init ==
    /\ at = [p \in Hooks |-> "idle"]
    /\ session = [p \in Hooks |-> NoSession]
    /\ kind = [p \in Hooks |-> "event"]
    /\ others = [p \in Hooks |-> {}]
    /\ target = [p \in Hooks |-> NoSession]
    /\ sequence = [p \in Hooks |-> 0]
    /\ draft = [p \in Hooks |-> NoFile]
    /\ lock = [s \in Sessions |-> Nobody]
    /\ lines = [s \in Sessions |-> << >>]
    /\ open = [s \in Sessions |-> FALSE]
    /\ manifest = [s \in Sessions |-> NoFile]
    /\ temporary = [s \in Sessions |-> NoFile]
    /\ budget = Budget
    /\ acked = [s \in Sessions |-> {}]

Go(p, place) == at' = [at EXCEPT ![p] = place]

Forget(p) ==
    /\ session' = [session EXCEPT ![p] = NoSession]
    /\ kind' = [kind EXCEPT ![p] = "event"]
    /\ others' = [others EXCEPT ![p] = {}]
    /\ target' = [target EXCEPT ![p] = NoSession]
    /\ sequence' = [sequence EXCEPT ![p] = 0]
    /\ draft' = [draft EXCEPT ![p] = NoFile]

\* record_event returns: the RecordingLock is dropped, which removes .lock.
Return(p) ==
    /\ Go(p, "idle")
    /\ Forget(p)
    /\ lock' = [lock EXCEPT ![session[p]] = Nobody]

-----------------------------------------------------------------------------
(* record_event, up to the scan.                                           *)

Begin(p, s, k) ==
    /\ at[p] = "idle"
    /\ Len(lines[s]) + Cardinality({q \in Hooks : session[q] = s}) < MaxLines
    /\ Go(p, "waiting")
    /\ session' = [session EXCEPT ![p] = s]
    /\ kind' = [kind EXCEPT ![p] = k]
    /\ UNCHANGED <<others, target, sequence, draft, lock, logVars, manifest,
                   temporary, budget, acked>>

\* Mutant: an existing lock file is taken over.
Acquire_TakesOver(p) ==
    /\ at[p] = "waiting"
    /\ lock' = [lock EXCEPT ![session[p]] = p]
    /\ others' = [others EXCEPT ![p] =
                    IF kind[p] = "start" THEN Sessions \ {session[p]} ELSE {}]
    /\ Go(p, "scanning")
    /\ UNCHANGED <<session, kind, target, sequence, draft, logVars, manifest,
                   temporary, budget, acked>>

\* acquire_lock: create_new succeeds.
Acquire(p) ==
    /\ at[p] = "waiting"
    /\ lock[session[p]] = Nobody
    /\ lock' = [lock EXCEPT ![session[p]] = p]
    /\ others' = [others EXCEPT ![p] =
                    IF kind[p] = "start" THEN Sessions \ {session[p]} ELSE {}]
    /\ Go(p, "scanning")
    /\ UNCHANGED <<session, kind, target, sequence, draft, logVars, manifest,
                   temporary, budget, acked>>

\* acquire_lock: the file has existed at every one of the 500 attempts.
GiveUp(p) ==
    /\ at[p] = "waiting"
    /\ lock[session[p]] # Nobody
    /\ Go(p, "idle")
    /\ Forget(p)
    /\ UNCHANGED <<lock, logVars, manifest, temporary, budget, acked>>

-----------------------------------------------------------------------------
(* mark_interrupted_sessions.                                              *)

Interruptible(m) == m # NoFile /\ m.status = "active" /\ m.old

\* The next directory entry: its manifest is read, and rewritten if it is
\* active and silent for long.
Look(p, s) ==
    /\ at[p] = "scanning"
    /\ s \in others[p]
    /\ others' = [others EXCEPT ![p] = @ \ {s}]
    /\ IF Interruptible(manifest[s])
       THEN /\ draft' = [draft EXCEPT ![p] = manifest[s]]
            /\ target' = [target EXCEPT ![p] = s]
            /\ Go(p, "marking")
       ELSE UNCHANGED <<draft, target, at>>
    /\ UNCHANGED <<session, kind, sequence, lock, logVars, manifest,
                   temporary, budget, acked>>

MarkWrite(p) ==
    /\ at[p] = "marking"
    /\ temporary' = [temporary EXCEPT ![target[p]] =
                       [draft[p] EXCEPT !.status = "interrupted"]]
    /\ draft' = [draft EXCEPT ![p] = NoFile]
    /\ Go(p, "moving")
    /\ UNCHANGED <<session, kind, others, target, sequence, lock, logVars,
                   manifest, budget, acked>>

\* The rename of write_manifest: whatever the temporary file holds by now.
MoveInto(s) ==
    /\ temporary[s] # NoFile
    /\ manifest' = [manifest EXCEPT ![s] = temporary[s]]
    /\ temporary' = [temporary EXCEPT ![s] = NoFile]

MarkRename(p) ==
    /\ at[p] = "moving"
    /\ MoveInto(target[p])
    /\ target' = [target EXCEPT ![p] = NoSession]
    /\ Go(p, "scanning")
    /\ UNCHANGED <<session, kind, others, sequence, draft, lock, logVars,
                   budget, acked>>

-----------------------------------------------------------------------------
(* record_event, after the scan.                                           *)

\* Mutant: a new manifest counts the event to come.
Count_CountsAhead(p) ==
    /\ at[p] = "scanning" /\ others[p] = {}
    /\ manifest' = [manifest EXCEPT ![session[p]] =
          IF @ = NoFile THEN [count |-> 1, status |-> "active", old |-> FALSE] ELSE @]
    /\ sequence' = [sequence EXCEPT ![p] = Len(lines[session[p]]) + 1]
    /\ Go(p, "appending")
    /\ UNCHANGED <<session, kind, others, target, draft, lock, logVars,
                   temporary, budget, acked>>

\* The manifest is created if there is none, and the lines are counted, the
\* one without a newline included.
Count(p) ==
    /\ at[p] = "scanning" /\ others[p] = {}
    /\ manifest' = [manifest EXCEPT ![session[p]] =
          IF @ = NoFile THEN [count |-> 0, status |-> "active", old |-> FALSE] ELSE @]
    /\ sequence' = [sequence EXCEPT ![p] = Len(lines[session[p]]) + 1]
    /\ Go(p, "appending")
    /\ UNCHANGED <<session, kind, others, target, draft, lock, logVars,
                   temporary, budget, acked>>

\* A line cut inside a character is not text, and the file cannot be read.
CountFails(p) ==
    /\ at[p] = "scanning" /\ others[p] = {}
    /\ \E i \in 1..Len(lines[session[p]]) : lines[session[p]][i] = Bad
    /\ Return(p)
    /\ UNCHANGED <<logVars, manifest, temporary, budget, acked>>

\* The lines after appending text that reads as event e by itself.
Appended(s, e) ==
    IF open[s] THEN [lines[s] EXCEPT ![Len(lines[s])] = Bad]
               ELSE Append(lines[s], e)

\* The event and its newline.
AppendEvent(p) ==
    /\ at[p] = "appending"
    /\ lines' = [lines EXCEPT ![session[p]] = Appended(session[p], sequence[p])]
    /\ open' = [open EXCEPT ![session[p]] = FALSE]
    /\ Go(p, "reading")
    /\ UNCHANGED <<session, kind, others, target, sequence, draft, lock,
                   manifest, temporary, budget, acked>>

\* A part of the event, or the event without its newline, and the end of
\* the hook by an error.
AppendFails(p) ==
    /\ budget["io"] > 0
    /\ at[p] = "appending"
    /\ \E e \in {sequence[p], Bad} :
          lines' = [lines EXCEPT ![session[p]] = Appended(session[p], e)]
    /\ open' = [open EXCEPT ![session[p]] = TRUE]
    /\ budget' = [budget EXCEPT !["io"] = @ - 1]
    /\ Return(p)
    /\ UNCHANGED <<manifest, temporary, acked>>

ReadManifest(p) ==
    /\ at[p] = "reading"
    /\ draft' = [draft EXCEPT ![p] = manifest[session[p]]]
    /\ Go(p, "writing")
    /\ UNCHANGED <<session, kind, others, target, sequence, lock, logVars,
                   manifest, temporary, budget, acked>>

WriteManifest(p) ==
    /\ at[p] = "writing"
    /\ temporary' = [temporary EXCEPT ![session[p]] =
          [count |-> sequence[p],
           status |-> IF kind[p] = "end" THEN "completed" ELSE draft[p].status,
           old |-> FALSE]]
    /\ draft' = [draft EXCEPT ![p] = NoFile]
    /\ Go(p, "renaming")
    /\ UNCHANGED <<session, kind, others, target, sequence, lock, logVars,
                   manifest, budget, acked>>

RenameManifest(p) ==
    /\ at[p] = "renaming"
    /\ MoveInto(session[p])
    /\ acked' = [acked EXCEPT ![session[p]] = @ \cup {Len(lines[session[p]])}]
    /\ Return(p)
    /\ UNCHANGED <<logVars, budget>>

\* Another writer has moved the temporary file away: an error.
RenameFails(p) ==
    /\ \/ at[p] = "moving" /\ temporary[target[p]] = NoFile
       \/ at[p] = "renaming" /\ temporary[session[p]] = NoFile
    /\ Return(p)
    /\ UNCHANGED <<logVars, manifest, temporary, budget, acked>>

-----------------------------------------------------------------------------
(* The environment.                                                        *)

\* Mutant: the lock goes with the process.
Crash_Unlocks(p) ==
    /\ budget["crash"] > 0
    /\ at[p] # "idle"
    /\ budget' = [budget EXCEPT !["crash"] = @ - 1]
    /\ \/ UNCHANGED logVars
       \/ /\ at[p] = "appending"
          /\ lines' = [lines EXCEPT ![session[p]] = Appended(session[p], Bad)]
          /\ open' = [open EXCEPT ![session[p]] = TRUE]
    /\ Return(p)
    /\ UNCHANGED <<manifest, temporary, acked>>

\* The hook process is killed.  Its lock file stays; an append may be cut.
Crash(p) ==
    /\ budget["crash"] > 0
    /\ at[p] # "idle"
    /\ budget' = [budget EXCEPT !["crash"] = @ - 1]
    /\ \/ UNCHANGED logVars
       \/ /\ at[p] = "appending"
          /\ \E e \in {sequence[p], Bad} :
                lines' = [lines EXCEPT ![session[p]] = Appended(session[p], e)]
          /\ open' = [open EXCEPT ![session[p]] = TRUE]
    /\ Go(p, "idle")
    /\ Forget(p)
    /\ UNCHANGED <<lock, manifest, temporary, acked>>

\* Half an hour passes without an event of the session.
Age(s) ==
    /\ \A p \in Hooks : session[p] # s
    /\ manifest[s] # NoFile
    /\ ~manifest[s].old
    /\ manifest' = [manifest EXCEPT ![s].old = TRUE]
    /\ UNCHANGED <<hookVars, lock, logVars, temporary, budget, acked>>

Progress(p) ==
    \/ Acquire(p) \/ GiveUp(p)
    \/ (\E s \in Sessions : Look(p, s)) \/ MarkWrite(p) \/ MarkRename(p)
    \/ Count(p) \/ CountFails(p) \/ AppendEvent(p) \/ AppendFails(p)
    \/ ReadManifest(p) \/ WriteManifest(p) \/ RenameManifest(p) \/ RenameFails(p)

Next ==
    \/ \E p \in Hooks :
          \/ \E s \in Sessions, k \in Kinds : Begin(p, s, k)
          \/ Progress(p)
          \/ Crash(p)
    \/ \E s \in Sessions : Age(s)

Spec == Init /\ [][Next]_vars

-----------------------------------------------------------------------------
(* Properties.                                                             *)

(* "Assign sequence numbers under the same lock as the append"              *)
(* (docs/session-recording-design.md): an event that can be read has the    *)
(* number of its line, so that numbers are unique and ascend, although      *)
(* numbers are counted from a file that may end in a torn line, and hooks   *)
(* die with the lock.                                                       *)
SequenceIsLine ==
    \A s \in Sessions : \A i \in 1..Len(lines[s]) : lines[s][i] \in {i, Bad}

NoTornLine == budget["io"] = Budget["io"]

(* The append is the durability boundary, the manifest follows it: no       *)
(* manifest counts an event that is not in the log, although manifests are  *)
(* also rewritten from old copies by hooks of other sessions.  (An append   *)
(* after a failed one ends on the torn line, and is counted as a new one.)  *)
ManifestNeverAhead ==
    NoTornLine =>
        \A s \in Sessions : manifest[s] # NoFile => manifest[s].count <= Len(lines[s])

(* "Recover by scanning valid JSONL lines and truncating only an incomplete *)
(* final line" (docs/session-recording-design.md): an event whose recording *)
(* ended with Ok stays readable.  Nothing truncates torn lines: it holds    *)
(* while no append fails, because a hook that dies keeps every other hook   *)
(* of its session out.                                                      *)
AckedReadable ==
    NoTornLine =>
        \A s \in Sessions : \A i \in acked[s] :
            i <= Len(lines[s]) /\ lines[s][i] = i
=============================================================================
