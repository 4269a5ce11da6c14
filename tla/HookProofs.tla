------------------------------- MODULE HookProofs -------------------------------
(***************************************************************************)
(* Theorems about what hook processes share on disk: session logs          *)
(* (SessionRecording), for any number of hooks and sessions, logs of any   *)
(* length, and any number of crashes and failed writes; and, at the end,   *)
(* the memory directory (SharedMemory), for any number of hooks, recall    *)
(* servers and memories.                                                   *)
(***************************************************************************)
EXTENDS SessionRecording, SharedMemory, SequenceTheorems, TLAPS

(***************************************************************************)
(* The inductive invariant.  The lock file makes the count of the lines    *)
(* and the append one step for the other hooks of a session, also where    *)
(* the hook that created it has died: then nobody appends any more.  What  *)
(* other hooks do without the lock is copy manifests, and a copy of a      *)
(* manifest that is not ahead is not ahead later.                          *)
(***************************************************************************)

Holds(p, s) == at[p] \notin {"idle", "waiting"} /\ session[p] = s

\* Who works on a session has its lock; a lock may have outlived its hook.
LockIsHeld ==
    \A p \in Hooks :
        /\ at[p] # "idle" => session[p] \in Sessions
        /\ at[p] \notin {"idle", "waiting"} => lock[session[p]] = p
        /\ at[p] \in {"marking", "moving"} => target[p] \in Sessions
        /\ at[p] = "marking" => draft[p] # NoFile

\* Nothing is appended between counting the lines and appending to them.
CountIsFresh ==
    \A p \in Hooks : at[p] = "appending" => sequence[p] = Len(lines[session[p]]) + 1

ManifestExists ==
    \A p \in Hooks :
        /\ at[p] \in {"appending", "reading"} => manifest[session[p]] # NoFile
        /\ at[p] = "writing" => draft[p] # NoFile

LastLineExists == \A s \in Sessions : open[s] => Len(lines[s]) > 0

\* A torn line that no failed append left is that of a hook that was killed,
\* and keeps its session locked for good.
TornIsLocked ==
    \A s \in Sessions : open[s] =>
        lock[s] # Nobody /\ \A p \in Hooks : ~Holds(p, s)

\* The line appended last is the one of the event being recorded.
EventIsWritten ==
    \A p \in Hooks : at[p] \in {"reading", "writing", "renaming"} =>
        LET s == session[p] IN
        sequence[p] = Len(lines[s]) /\ Len(lines[s]) > 0 /\ lines[s][Len(lines[s])] = Len(lines[s])

\* No copy of a manifest, in memory or in a file, is ahead of the log.
NotAhead(m, s) == m # NoFile => m.count <= Len(lines[s])

CopiesNotAhead ==
    /\ \A s \in Sessions : NotAhead(manifest[s], s) /\ NotAhead(temporary[s], s)
    /\ \A p \in Hooks : at[p] = "marking" => NotAhead(draft[p], target[p])

AckedIsWritten ==
    \A s \in Sessions : \A i \in acked[s] :
        i \in 1..Len(lines[s]) /\ lines[s][i] = i

LEMMA TypeOKInit == Init => TypeOK
  BY RecordingAssumption DEF Init, TypeOK, Places, Kinds

LEMMA AppendedType ==
    ASSUME TypeOK, LastLineExists, NEW s \in Sessions, NEW e \in Nat \cup {Bad}
    PROVE  /\ Appended(s, e) \in Seq(Nat \cup {Bad})
           /\ Len(Appended(s, e)) = IF open[s] THEN Len(lines[s]) ELSE Len(lines[s]) + 1
<1>1. lines[s] \in Seq(Nat \cup {Bad})
  BY DEF TypeOK
<1>2. CASE open[s]
  <2>1. Appended(s, e) = [lines[s] EXCEPT ![Len(lines[s])] = Bad]
    BY <1>2 DEF Appended
  <2>2. Len(lines[s]) \in 1..Len(lines[s])
    BY <1>1, <1>2 DEF LastLineExists
  <2> QED BY <1>1, <1>2, <2>1, <2>2, ExceptSeq
<1>3. CASE ~open[s]
  BY <1>1, <1>3 DEF Appended
<1> QED BY <1>2, <1>3

LEMMA TypeOKStep ==
    ASSUME TypeOK, LockIsHeld, ManifestExists, LastLineExists, [Next]_vars
    PROVE  TypeOK'
<1> USE RecordingAssumption
<1>1. ASSUME NEW p \in Hooks, NEW s \in Sessions, NEW k \in Kinds, Begin(p, s, k) PROVE TypeOK'
  BY <1>1 DEF Begin, Go, TypeOK, Places, logVars
<1>2. ASSUME NEW p \in Hooks, Acquire(p) PROVE TypeOK'
  BY <1>2 DEF Acquire, Go, TypeOK, Places, LockIsHeld, logVars
<1>3. ASSUME NEW p \in Hooks, GiveUp(p) PROVE TypeOK'
  BY <1>3 DEF GiveUp, Go, Forget, TypeOK, Places, Kinds, logVars
<1>4. ASSUME NEW p \in Hooks, NEW s \in Sessions, Look(p, s) PROVE TypeOK'
  BY <1>4 DEF Look, Interruptible, Go, TypeOK, Places, logVars
<1>5. ASSUME NEW p \in Hooks, MarkWrite(p) PROVE TypeOK'
  <2>1. draft[p] \in Manifest
    BY <1>5 DEF MarkWrite, LockIsHeld, TypeOK
  <2>2. [draft[p] EXCEPT !.status = "interrupted"] \in Manifest
    BY <2>1 DEF Manifest
  <2> QED BY <1>5, <2>2 DEF MarkWrite, Go, TypeOK, Places, logVars
<1>6. ASSUME NEW p \in Hooks, MarkRename(p) PROVE TypeOK'
  BY <1>6 DEF MarkRename, MoveInto, Go, TypeOK, Places, logVars
<1>7. ASSUME NEW p \in Hooks, Count(p) PROVE TypeOK'
  <2>1. [count |-> 0, status |-> "active", old |-> FALSE] \in Manifest
    BY DEF Manifest
  <2>2. session[p] \in Sessions
    BY <1>7 DEF Count, LockIsHeld
  <2>3. Len(lines[session[p]]) + 1 \in Nat
    BY <2>2 DEF TypeOK
  <2> QED BY <1>7, <2>1, <2>2, <2>3 DEF Count, Go, TypeOK, Places, logVars
<1>8. ASSUME NEW p \in Hooks, Return(p), UNCHANGED <<manifest, temporary, acked>>,
             UNCHANGED <<logVars, budget>>
      PROVE  TypeOK'
  BY <1>8 DEF Return, Go, Forget, TypeOK, Places, Kinds, logVars
<1>9. ASSUME NEW p \in Hooks, AppendEvent(p) PROVE TypeOK'
  <2>1. session[p] \in Sessions /\ sequence[p] \in Nat
    BY <1>9 DEF AppendEvent, LockIsHeld, TypeOK
  <2>2. Appended(session[p], sequence[p]) \in Seq(Nat \cup {Bad})
    BY <2>1, AppendedType
  <2> QED BY <1>9, <2>1, <2>2 DEF AppendEvent, Go, TypeOK, Places
<1>10. ASSUME NEW p \in Hooks, AppendFails(p) PROVE TypeOK'
  <2>1. session[p] \in Sessions /\ sequence[p] \in Nat
    BY <1>10 DEF AppendFails, LockIsHeld, TypeOK
  <2>2. PICK e \in {sequence[p], Bad} :
           lines' = [lines EXCEPT ![session[p]] = Appended(session[p], e)]
    BY <1>10 DEF AppendFails
  <2>3. Appended(session[p], e) \in Seq(Nat \cup {Bad})
    BY <2>1, <2>2, AppendedType
  <2>4. budget' \in [{"crash", "io"} -> Nat] /\ \A f \in {"crash", "io"} : budget'[f] <= Budget[f]
    BY <1>10 DEF AppendFails, TypeOK
  <2> QED BY <1>10, <2>1, <2>2, <2>3, <2>4
          DEF AppendFails, Return, Go, Forget, TypeOK, Places, Kinds
<1>11. ASSUME NEW p \in Hooks, ReadManifest(p) PROVE TypeOK'
  BY <1>11 DEF ReadManifest, LockIsHeld, Go, TypeOK, Places, logVars
<1>12. ASSUME NEW p \in Hooks, WriteManifest(p) PROVE TypeOK'
  <2>1. draft[p] \in Manifest
    BY <1>12 DEF WriteManifest, ManifestExists, TypeOK
  <2>2. [count |-> sequence[p],
         status |-> IF kind[p] = "end" THEN "completed" ELSE draft[p].status,
         old |-> FALSE] \in Manifest
    BY <2>1 DEF Manifest, TypeOK
  <2> QED BY <1>12, <2>2 DEF WriteManifest, Go, TypeOK, Places, logVars
<1>13. ASSUME NEW p \in Hooks, RenameManifest(p) PROVE TypeOK'
  <2>1. session[p] \in Sessions
    BY <1>13 DEF RenameManifest, LockIsHeld
  <2>2. Len(lines[session[p]]) \in Nat
    BY <2>1 DEF TypeOK
  <2> QED BY <1>13, <2>1, <2>2
          DEF RenameManifest, MoveInto, Return, Go, Forget, TypeOK, Places, Kinds, logVars
<1>14. ASSUME NEW p \in Hooks, Crash(p) PROVE TypeOK'
  <2>1. lines' \in [Sessions -> Seq(Nat \cup {Bad})] /\ open' \in [Sessions -> BOOLEAN]
    <3>1. CASE UNCHANGED logVars
      BY <3>1 DEF logVars, TypeOK
    <3>2. CASE at[p] = "appending" /\ ~UNCHANGED logVars
      <4>1. session[p] \in Sessions /\ sequence[p] \in Nat
        BY <3>2 DEF LockIsHeld, TypeOK
      <4>2. PICK e \in {sequence[p], Bad} :
               lines' = [lines EXCEPT ![session[p]] = Appended(session[p], e)]
        BY <1>14, <3>2 DEF Crash
      <4>3. open' = [open EXCEPT ![session[p]] = TRUE]
        BY <1>14, <3>2 DEF Crash
      <4>4. Appended(session[p], e) \in Seq(Nat \cup {Bad})
        BY <4>1, <4>2, AppendedType
      <4> QED BY <4>1, <4>2, <4>3, <4>4 DEF TypeOK
    <3> QED BY <1>14, <3>1, <3>2 DEF Crash
  <2>2. budget' \in [{"crash", "io"} -> Nat] /\ \A f \in {"crash", "io"} : budget'[f] <= Budget[f]
    BY <1>14 DEF Crash, TypeOK
  <2> QED BY <1>14, <2>1, <2>2 DEF Crash, Go, Forget, TypeOK, Places, Kinds
<1>15. ASSUME NEW s \in Sessions, Age(s) PROVE TypeOK'
  <2>1. [manifest[s] EXCEPT !.old = TRUE] \in Manifest
    BY <1>15 DEF Age, TypeOK, Manifest
  <2> QED BY <1>15, <2>1 DEF Age, TypeOK, hookVars, logVars
<1>16. CASE UNCHANGED vars
  BY <1>16 DEF vars, hookVars, logVars, TypeOK
<1> QED
  BY <1>1, <1>2, <1>3, <1>4, <1>5, <1>6, <1>7, <1>8, <1>9, <1>10, <1>11, <1>12, <1>13,
     <1>14, <1>15, <1>16 DEF Next, Progress, CountFails, RenameFails

\* The log changes by an append of the hook that holds the session, or not at all.
LEMMA LogStep ==
    ASSUME TypeOK, LockIsHeld, [Next]_vars
    PROVE  \/ UNCHANGED logVars
           \/ \E p \in Hooks, e \in Nat \cup {Bad}, torn \in BOOLEAN :
                 /\ at[p] = "appending" /\ session[p] \in Sessions
                 /\ e \in {sequence[p], Bad}
                 /\ lines' = [lines EXCEPT ![session[p]] = Appended(session[p], e)]
                 /\ open' = [open EXCEPT ![session[p]] = torn]
                 /\ \A q \in Hooks \ {p} : at'[q] = at[q] /\ session'[q] = session[q]
                                           /\ sequence'[q] = sequence[q]
                 /\ at'[p] \in {"reading", "idle"}
<1> SUFFICES ASSUME NEW p \in Hooks, at[p] = "appending",
                    AppendEvent(p) \/ AppendFails(p) \/ (Crash(p) /\ ~UNCHANGED logVars)
             PROVE  \E e \in Nat \cup {Bad}, torn \in BOOLEAN :
                 /\ session[p] \in Sessions
                 /\ e \in {sequence[p], Bad}
                 /\ lines' = [lines EXCEPT ![session[p]] = Appended(session[p], e)]
                 /\ open' = [open EXCEPT ![session[p]] = torn]
                 /\ \A q \in Hooks \ {p} : at'[q] = at[q] /\ session'[q] = session[q]
                                           /\ sequence'[q] = sequence[q]
                 /\ at'[p] \in {"reading", "idle"}
  <2>1. [Next]_vars =>
          \/ UNCHANGED logVars
          \/ \E p \in Hooks : /\ at[p] = "appending"
                              /\ AppendEvent(p) \/ AppendFails(p) \/ (Crash(p) /\ ~UNCHANGED logVars)
    BY DEF Next, Progress, vars, Begin, Acquire, GiveUp, Look, MarkWrite, MarkRename, Count,
       CountFails, AppendEvent, AppendFails, ReadManifest, WriteManifest, RenameManifest,
       RenameFails, Crash, Age
  <2> QED BY <2>1
<1>1. session[p] \in Sessions /\ sequence[p] \in Nat
  BY DEF LockIsHeld, TypeOK
<1>2. /\ \A q \in Hooks \ {p} : at'[q] = at[q] /\ session'[q] = session[q]
                                /\ sequence'[q] = sequence[q]
      /\ at'[p] \in {"reading", "idle"}
  BY DEF AppendEvent, AppendFails, Crash, Return, Go, Forget, TypeOK
<1>3. CASE AppendEvent(p)
  BY <1>1, <1>2, <1>3 DEF AppendEvent
<1>4. CASE AppendFails(p)
  <2>1. PICK e \in {sequence[p], Bad} :
           lines' = [lines EXCEPT ![session[p]] = Appended(session[p], e)]
    BY <1>4 DEF AppendFails
  <2> QED BY <1>1, <1>2, <1>4, <2>1 DEF AppendFails
<1>5. CASE Crash(p) /\ ~UNCHANGED logVars
  <2>1. PICK e \in {sequence[p], Bad} :
           lines' = [lines EXCEPT ![session[p]] = Appended(session[p], e)]
    BY <1>5 DEF Crash
  <2> QED BY <1>1, <1>2, <1>5, <2>1 DEF Crash
<1> QED BY <1>3, <1>4, <1>5

\* A step is one hook's, or leaves all hooks alone.
LEMMA OthersStay ==
    ASSUME TypeOK, [Next]_vars
    PROVE  \/ UNCHANGED hookVars
           \/ \E p \in Hooks : \A q \in Hooks \ {p} :
                 /\ at'[q] = at[q] /\ session'[q] = session[q] /\ kind'[q] = kind[q]
                 /\ target'[q] = target[q] /\ sequence'[q] = sequence[q]
                 /\ draft'[q] = draft[q]
<1> DEFINE Stay(p) == \A q \in Hooks \ {p} :
                 /\ at'[q] = at[q] /\ session'[q] = session[q] /\ kind'[q] = kind[q]
                 /\ target'[q] = target[q] /\ sequence'[q] = sequence[q]
                 /\ draft'[q] = draft[q]
<1>1. ASSUME NEW p \in Hooks, NEW s \in Sessions, NEW k \in Kinds, Begin(p, s, k) PROVE Stay(p)
  BY <1>1 DEF Begin, Go, TypeOK
<1>2. ASSUME NEW p \in Hooks, Progress(p) PROVE Stay(p)
  BY <1>2 DEF Progress, Acquire, GiveUp, Look, MarkWrite, MarkRename, Count, CountFails,
     AppendEvent, AppendFails, ReadManifest, WriteManifest, RenameManifest, RenameFails,
     Return, Forget, Go, TypeOK
<1>3. ASSUME NEW p \in Hooks, Crash(p) PROVE Stay(p)
  BY <1>3 DEF Crash, Forget, Go, TypeOK
<1> QED BY <1>1, <1>2, <1>3 DEF Next, Age, vars, hookVars

LEMMA LockIsHeldStep ==
    ASSUME TypeOK, LockIsHeld, [Next]_vars
    PROVE  LockIsHeld'
<1> USE RecordingAssumption DEF TypeOK, LockIsHeld, Go
<1>1. ASSUME NEW p \in Hooks, NEW s \in Sessions, NEW k \in Kinds, Begin(p, s, k)
      PROVE  LockIsHeld'
  BY <1>1 DEF Begin
<1>2. ASSUME NEW p \in Hooks, Acquire(p) PROVE LockIsHeld'
  BY <1>2 DEF Acquire
<1>3. ASSUME NEW p \in Hooks, GiveUp(p) PROVE LockIsHeld'
  BY <1>3 DEF GiveUp, Forget
<1>4. ASSUME NEW p \in Hooks, NEW s \in Sessions, Look(p, s) PROVE LockIsHeld'
  BY <1>4 DEF Look, Interruptible
<1>5. ASSUME NEW p \in Hooks, MarkWrite(p) PROVE LockIsHeld'
  BY <1>5 DEF MarkWrite
<1>6. ASSUME NEW p \in Hooks, MarkRename(p) PROVE LockIsHeld'
  BY <1>6 DEF MarkRename
<1>7. ASSUME NEW p \in Hooks, Count(p) PROVE LockIsHeld'
  BY <1>7 DEF Count
<1>8. ASSUME NEW p \in Hooks, at[p] \notin {"idle", "waiting"}, Return(p) PROVE LockIsHeld'
  BY <1>8 DEF Return, Forget
<1>9. ASSUME NEW p \in Hooks, AppendEvent(p) PROVE LockIsHeld'
  BY <1>9 DEF AppendEvent
<1>10. ASSUME NEW p \in Hooks, ReadManifest(p) PROVE LockIsHeld'
  BY <1>10 DEF ReadManifest
<1>11. ASSUME NEW p \in Hooks, WriteManifest(p) PROVE LockIsHeld'
  BY <1>11 DEF WriteManifest
<1>12. ASSUME NEW p \in Hooks, Crash(p) PROVE LockIsHeld'
  BY <1>12 DEF Crash, Forget
<1>13. ASSUME NEW s \in Sessions, Age(s) PROVE LockIsHeld'
  BY <1>13 DEF Age, hookVars
<1>14. CASE UNCHANGED vars
  BY <1>14 DEF vars, hookVars
<1> QED
  BY <1>1, <1>2, <1>3, <1>4, <1>5, <1>6, <1>7, <1>8, <1>9, <1>10, <1>11, <1>12, <1>13, <1>14
     DEF Next, Progress, CountFails, AppendFails, RenameManifest, RenameFails

\* Two hooks are never at work on one session.
LEMMA OneHookAtWork ==
    ASSUME LockIsHeld, NEW p \in Hooks, NEW q \in Hooks, session[p] = session[q],
           at[p] \notin {"idle", "waiting"}, at[q] \notin {"idle", "waiting"}
    PROVE  p = q
  BY DEF LockIsHeld

LEMMA OnlyCountLeadsToAppending ==
    ASSUME TypeOK, [Next]_vars, NEW q \in Hooks, at'[q] = "appending", ~Count(q)
    PROVE  at[q] = "appending" /\ session'[q] = session[q] /\ sequence'[q] = sequence[q]
<1> USE DEF TypeOK
<1>1. ASSUME NEW p \in Hooks, NEW s \in Sessions, NEW k \in Kinds, Begin(p, s, k)
      PROVE  at[q] = "appending" /\ session'[q] = session[q] /\ sequence'[q] = sequence[q]
  BY <1>1 DEF Begin, Go
<1>2. ASSUME NEW p \in Hooks, Progress(p)
      PROVE  at[q] = "appending" /\ session'[q] = session[q] /\ sequence'[q] = sequence[q]
  BY <1>2 DEF Progress, Acquire, GiveUp, Look, MarkWrite, MarkRename, Count, CountFails,
     AppendEvent, AppendFails, ReadManifest, WriteManifest, RenameManifest, RenameFails,
     Return, Forget, Go
<1>3. ASSUME NEW p \in Hooks, Crash(p)
      PROVE  at[q] = "appending" /\ session'[q] = session[q] /\ sequence'[q] = sequence[q]
  BY <1>3 DEF Crash, Forget, Go
<1> QED BY <1>1, <1>2, <1>3 DEF Next, Age, vars, hookVars

LEMMA CountIsFreshStep ==
    ASSUME TypeOK, LockIsHeld, CountIsFresh, [Next]_vars
    PROVE  CountIsFresh'
<1> SUFFICES ASSUME NEW q \in Hooks, at'[q] = "appending"
             PROVE  sequence'[q] = Len(lines'[session'[q]]) + 1
  BY DEF CountIsFresh
<1>1. CASE UNCHANGED logVars
  <2>1. CASE Count(q)
    BY <1>1, <2>1 DEF Count, Go, TypeOK, logVars
  <2>2. CASE ~Count(q)
    <3>1. at[q] = "appending" /\ session'[q] = session[q] /\ sequence'[q] = sequence[q]
      BY <2>2, OnlyCountLeadsToAppending
    <3> QED BY <1>1, <3>1 DEF CountIsFresh, logVars
  <2> QED BY <2>1, <2>2
<1>2. CASE ~UNCHANGED logVars
  <2>1. PICK p \in Hooks, e \in Nat \cup {Bad} :
           /\ at[p] = "appending" /\ session[p] \in Sessions
           /\ lines' = [lines EXCEPT ![session[p]] = Appended(session[p], e)]
           /\ \A h \in Hooks \ {p} : at'[h] = at[h] /\ session'[h] = session[h]
                                     /\ sequence'[h] = sequence[h]
           /\ at'[p] \in {"reading", "idle"}
    BY <1>2, LogStep
  <2>2. q # p
    BY <2>1
  <2>3. at[q] = "appending" /\ session[q] # session[p] /\ session[q] \in Sessions
    BY <2>1, <2>2, OneHookAtWork DEF LockIsHeld
  <2> QED BY <2>1, <2>2, <2>3 DEF CountIsFresh, TypeOK
<1> QED BY <1>1, <1>2

\* A manifest that exists stays: it is replaced and never removed.
LEMMA ManifestStays ==
    ASSUME TypeOK, [Next]_vars, NEW s \in Sessions, manifest[s] # NoFile
    PROVE  manifest'[s] # NoFile
<1> USE NoFileAssumption DEF TypeOK
<1>1. ASSUME NEW p \in Hooks, NEW t \in Sessions, NEW k \in Kinds, Begin(p, t, k)
      PROVE  manifest'[s] # NoFile
  BY <1>1 DEF Begin
<1>2. ASSUME NEW p \in Hooks, Progress(p) PROVE manifest'[s] # NoFile
  BY <1>2 DEF Progress, Acquire, GiveUp, Look, MarkWrite, MarkRename, MoveInto, Count,
     CountFails, AppendEvent, AppendFails, ReadManifest, WriteManifest, RenameManifest, RenameFails
<1>3. ASSUME NEW p \in Hooks, Crash(p) PROVE manifest'[s] # NoFile
  BY <1>3 DEF Crash
<1>4. ASSUME NEW t \in Sessions, Age(t) PROVE manifest'[s] # NoFile
  <2>1. [manifest[t] EXCEPT !.old = TRUE] \in Manifest
    BY <1>4 DEF Age, Manifest
  <2> QED BY <1>4, <2>1 DEF Age
<1> QED BY <1>1, <1>2, <1>3, <1>4 DEF Next, vars

LEMMA ManifestExistsStep ==
    ASSUME TypeOK, LockIsHeld, ManifestExists, [Next]_vars
    PROVE  ManifestExists'
<1> SUFFICES ASSUME NEW q \in Hooks
             PROVE  /\ at'[q] \in {"appending", "reading"} => manifest'[session'[q]] # NoFile
                    /\ at'[q] = "writing" => draft'[q] # NoFile
  BY DEF ManifestExists
<1>1. ASSUME at[q] \in {"appending", "reading"}, session'[q] = session[q],
             at'[q] \in {"appending", "reading"}
      PROVE  manifest'[session'[q]] # NoFile
  BY <1>1, ManifestStays DEF LockIsHeld, ManifestExists
<1>2. CASE Count(q)
  <2>1. session[q] \in Sessions
    BY <1>2 DEF Count, LockIsHeld
  <2>2. [count |-> 0, status |-> "active", old |-> FALSE] \in Manifest
    BY DEF Manifest
  <2> QED BY <1>2, <2>1, <2>2, NoFileAssumption DEF Count, Go, TypeOK
<1>3. CASE AppendEvent(q)
  BY <1>1, <1>3 DEF AppendEvent, Go, TypeOK
<1>4. CASE ReadManifest(q)
  <2>1. draft'[q] = manifest[session[q]] /\ at'[q] = "writing"
    BY <1>4 DEF ReadManifest, Go, TypeOK
  <2> QED BY <1>4, <2>1 DEF ReadManifest, ManifestExists
<1>5. CASE UNCHANGED <<at[q], session[q], draft[q]>>
  BY <1>1, <1>5 DEF ManifestExists
<1>6. CASE at'[q] \notin {"appending", "reading", "writing"}
  BY <1>6
<1>7. \/ Count(q) \/ AppendEvent(q) \/ ReadManifest(q)
      \/ UNCHANGED <<at[q], session[q], draft[q]>>
      \/ at'[q] \notin {"appending", "reading", "writing"}
  <2>1. ASSUME NEW p \in Hooks, NEW s \in Sessions, NEW k \in Kinds, Begin(p, s, k)
        PROVE  UNCHANGED <<at[q], session[q], draft[q]>> \/ at'[q] = "waiting"
    BY <2>1 DEF Begin, Go, TypeOK
  <2>2. ASSUME NEW p \in Hooks, p # q, Progress(p)
        PROVE  UNCHANGED <<at[q], session[q], draft[q]>>
    BY <2>2 DEF Progress, Acquire, GiveUp, Look, MarkWrite, MarkRename, Count, CountFails,
       AppendEvent, AppendFails, ReadManifest, WriteManifest, RenameManifest, RenameFails,
       Return, Forget, Go, TypeOK
  <2>3. ASSUME Progress(q)
        PROVE  \/ Count(q) \/ AppendEvent(q) \/ ReadManifest(q)
               \/ UNCHANGED <<at[q], session[q], draft[q]>>
               \/ at'[q] \notin {"appending", "reading", "writing"}
    BY <2>3 DEF Progress, Acquire, GiveUp, Look, MarkWrite, MarkRename, CountFails,
       AppendFails, WriteManifest, RenameManifest, RenameFails, Return, Forget, Go, TypeOK
  <2>4. ASSUME NEW p \in Hooks, Crash(p)
        PROVE  UNCHANGED <<at[q], session[q], draft[q]>> \/ at'[q] = "idle"
    BY <2>4 DEF Crash, Forget, Go, TypeOK
  <2> QED BY <2>1, <2>2, <2>3, <2>4 DEF Next, Age, vars, hookVars
<1> QED BY <1>2, <1>3, <1>4, <1>5, <1>6, <1>7

LEMMA SequenceStep ==
    ASSUME TypeOK, LockIsHeld, CountIsFresh, LastLineExists, SequenceIsLine, [Next]_vars
    PROVE  LastLineExists' /\ SequenceIsLine'
<1>1. CASE UNCHANGED logVars
  BY <1>1 DEF logVars, LastLineExists, SequenceIsLine
<1>2. CASE ~UNCHANGED logVars
  <2>1. PICK p \in Hooks, e \in Nat \cup {Bad}, torn \in BOOLEAN :
           /\ at[p] = "appending" /\ session[p] \in Sessions
           /\ e \in {sequence[p], Bad}
           /\ lines' = [lines EXCEPT ![session[p]] = Appended(session[p], e)]
           /\ open' = [open EXCEPT ![session[p]] = torn]
    BY <1>2, LogStep
  <2> DEFINE s == session[p]
  <2>2. lines[s] \in Seq(Nat \cup {Bad}) /\ sequence[p] = Len(lines[s]) + 1
    BY <2>1 DEF TypeOK, CountIsFresh
  <2>3. lines'[s] = Appended(s, e) /\ \A t \in Sessions \ {s} : lines'[t] = lines[t]
    BY <2>1 DEF TypeOK
  <2>4. /\ Len(Appended(s, e)) > 0
        /\ \A i \in 1..Len(Appended(s, e)) : Appended(s, e)[i] \in {i, Bad}
    <3>1. CASE open[s]
      <4>1. Len(lines[s]) \in 1..Len(lines[s])
        BY <2>1, <2>2, <3>1 DEF LastLineExists
      <4>2. Appended(s, e) = [lines[s] EXCEPT ![Len(lines[s])] = Bad]
        BY <3>1 DEF Appended
      <4>3. /\ Len(Appended(s, e)) = Len(lines[s])
            /\ \A i \in 1..Len(lines[s]) : Appended(s, e)[i] \in {lines[s][i], Bad}
        BY <2>2, <4>1, <4>2, ExceptSeq
      <4> QED BY <2>1, <2>2, <4>1, <4>3 DEF SequenceIsLine
    <3>2. CASE ~open[s]
      <4>1. Appended(s, e) = Append(lines[s], e)
        BY <3>2 DEF Appended
      <4>2. /\ Len(Appended(s, e)) = Len(lines[s]) + 1
            /\ \A i \in 1..Len(lines[s]) : Appended(s, e)[i] = lines[s][i]
            /\ Appended(s, e)[Len(lines[s]) + 1] = e
        BY <2>2, <4>1, AppendProperties
      <4> QED BY <2>1, <2>2, <4>2 DEF SequenceIsLine
    <3> QED BY <3>1, <3>2
  <2> HIDE DEF s
  <2>5. SequenceIsLine'
    <3> SUFFICES ASSUME NEW t \in Sessions, NEW i \in 1..Len(lines'[t])
                 PROVE  lines'[t][i] \in {i, Bad}
      BY DEF SequenceIsLine
    <3>1. CASE t = s
      BY <2>3, <2>4, <3>1
    <3>2. CASE t # s
      BY <2>3, <3>2 DEF SequenceIsLine
    <3> QED BY <3>1, <3>2
  <2>6. LastLineExists'
    <3> SUFFICES ASSUME NEW t \in Sessions, open'[t] PROVE Len(lines'[t]) > 0
      BY DEF LastLineExists
    <3>1. CASE t = s
      BY <2>3, <2>4, <3>1
    <3>2. CASE t # s
      BY <2>1, <2>3, <3>2 DEF LastLineExists, TypeOK, s
    <3> QED BY <3>1, <3>2
  <2> QED BY <2>5, <2>6
<1> QED BY <1>1, <1>2

LogInv ==
    /\ TypeOK
    /\ LockIsHeld
    /\ CountIsFresh
    /\ ManifestExists
    /\ LastLineExists
    /\ SequenceIsLine

THEOREM LogInvHolds == Spec => []LogInv
<1>1. Init => LogInv
  BY TypeOKInit, RecordingAssumption
     DEF Init, LogInv, LockIsHeld, CountIsFresh, ManifestExists, LastLineExists, SequenceIsLine
<1>2. LogInv /\ [Next]_vars => LogInv'
  BY TypeOKStep, LockIsHeldStep, CountIsFreshStep, ManifestExistsStep, SequenceStep DEF LogInv
<1> QED BY <1>1, <1>2, PTL DEF Spec

(* An event that can be read has the number of its line: numbers are unique *)
(* and ascend in every log, although they are counted from files that end   *)
(* in torn lines and the hooks that hold the lock may be killed.            *)
THEOREM SequenceIsLineHolds == Spec => []SequenceIsLine
<1>1. LogInv => SequenceIsLine
  BY DEF LogInv
<1> QED BY <1>1, LogInvHolds, PTL

-----------------------------------------------------------------------------
(***************************************************************************)
(* What holds while no append has failed.                                  *)
(***************************************************************************)

UntornInv ==
    NoTornLine =>
        /\ TornIsLocked
        /\ EventIsWritten
        /\ CopiesNotAhead
        /\ AckedIsWritten

\* A failed append is never forgiven.
LEMMA NothingFailed ==
    ASSUME TypeOK, [Next]_vars, NoTornLine'
    PROVE  NoTornLine /\ \A p \in Hooks : ~AppendFails(p)
<1>1. budget["io"] \in Nat /\ budget["io"] <= Budget["io"] /\ Budget["io"] \in Nat
  BY RecordingAssumption DEF TypeOK
<1>2. ASSUME NEW p \in Hooks, AppendFails(p) PROVE FALSE
  BY <1>1, <1>2 DEF AppendFails, NoTornLine, TypeOK
<1>3. \/ UNCHANGED budget
      \/ budget' = [budget EXCEPT !["crash"] = @ - 1]
  BY <1>2 DEF Next, Progress, vars, Begin, Acquire, GiveUp, Look, MarkWrite, MarkRename, Count,
     CountFails, AppendEvent, ReadManifest, WriteManifest, RenameManifest, RenameFails,
     Crash, Age
<1>4. budget'["io"] = budget["io"]
  BY <1>3 DEF TypeOK
<1> QED BY <1>2, <1>4 DEF NoTornLine

\* An append adds a line and leaves the others as they are.
LEMMA UntornAppend ==
    ASSUME LogInv, TornIsLocked, NEW p \in Hooks, at[p] = "appending",
           NEW e \in Nat \cup {Bad}
    PROVE  LET s == session[p] IN
           /\ s \in Sessions
           /\ ~open[s]
           /\ Appended(s, e) \in Seq(Nat \cup {Bad})
           /\ Len(Appended(s, e)) = Len(lines[s]) + 1
           /\ \A i \in 1..Len(lines[s]) : Appended(s, e)[i] = lines[s][i]
           /\ Appended(s, e)[Len(lines[s]) + 1] = e
<1>1. session[p] \in Sessions /\ ~open[session[p]]
  BY DEF LogInv, LockIsHeld, TornIsLocked, Holds
<1>2. Appended(session[p], e) = Append(lines[session[p]], e)
  BY <1>1 DEF Appended
<1>3. lines[session[p]] \in Seq(Nat \cup {Bad})
  BY <1>1 DEF LogInv, TypeOK
<1> QED BY <1>1, <1>2, <1>3, AppendProperties

LEMMA LinesStay ==
    ASSUME LogInv, TornIsLocked, [Next]_vars, NEW s \in Sessions
    PROVE  /\ Len(lines[s]) \in Nat /\ Len(lines'[s]) \in Nat
           /\ Len(lines[s]) <= Len(lines'[s])
           /\ \A i \in 1..Len(lines[s]) : lines'[s][i] = lines[s][i]
<1>1. lines[s] \in Seq(Nat \cup {Bad})
  BY DEF LogInv, TypeOK
<1>2. CASE UNCHANGED logVars
  BY <1>1, <1>2 DEF logVars
<1>3. CASE ~UNCHANGED logVars
  <2>1. PICK p \in Hooks, e \in Nat \cup {Bad} :
           /\ at[p] = "appending"
           /\ lines' = [lines EXCEPT ![session[p]] = Appended(session[p], e)]
    BY <1>3, LogStep DEF LogInv
  <2>2. CASE s = session[p]
    <3>1. lines'[s] = Appended(s, e)
      BY <2>1, <2>2 DEF LogInv, TypeOK
    <3> QED BY <1>1, <2>1, <2>2, <3>1, UntornAppend
  <2>3. CASE s # session[p]
    BY <1>1, <2>1, <2>3 DEF LogInv, TypeOK
  <2> QED BY <2>2, <2>3
<1> QED BY <1>2, <1>3

LEMMA TornIsLockedStep ==
    ASSUME LogInv, TornIsLocked, [Next]_vars, \A p \in Hooks : ~AppendFails(p)
    PROVE  TornIsLocked'
<1> USE RecordingAssumption DEF LogInv, TypeOK, TornIsLocked, Holds, Go
<1>1. ASSUME NEW p \in Hooks, NEW s \in Sessions, NEW k \in Kinds, Begin(p, s, k)
      PROVE  TornIsLocked'
  BY <1>1 DEF Begin, logVars
<1>2. ASSUME NEW p \in Hooks, Acquire(p) PROVE TornIsLocked'
  BY <1>2 DEF Acquire, LockIsHeld, logVars
<1>3. ASSUME NEW p \in Hooks, GiveUp(p) PROVE TornIsLocked'
  BY <1>3 DEF GiveUp, Forget, logVars
<1>4. ASSUME NEW p \in Hooks, NEW s \in Sessions, Look(p, s) PROVE TornIsLocked'
  BY <1>4 DEF Look, logVars
<1>5. ASSUME NEW p \in Hooks, MarkWrite(p) PROVE TornIsLocked'
  BY <1>5 DEF MarkWrite, logVars
<1>6. ASSUME NEW p \in Hooks, MarkRename(p) PROVE TornIsLocked'
  BY <1>6 DEF MarkRename, logVars
<1>7. ASSUME NEW p \in Hooks, Count(p) PROVE TornIsLocked'
  BY <1>7 DEF Count, logVars
<1>8. ASSUME NEW p \in Hooks, at[p] \notin {"idle", "waiting"}, Return(p), UNCHANGED logVars
      PROVE  TornIsLocked'
  <2>1. session[p] \in Sessions /\ ~open[session[p]]
    BY <1>8 DEF LockIsHeld
  <2> QED BY <1>8, <2>1 DEF Return, Forget, logVars
<1>9. ASSUME NEW p \in Hooks, AppendEvent(p) PROVE TornIsLocked'
  <2>1. session[p] \in Sessions /\ ~open[session[p]]
    BY <1>9 DEF AppendEvent, LockIsHeld
  <2> QED BY <1>9, <2>1 DEF AppendEvent
<1>10. ASSUME NEW p \in Hooks, ReadManifest(p) PROVE TornIsLocked'
  BY <1>10 DEF ReadManifest, logVars
<1>11. ASSUME NEW p \in Hooks, WriteManifest(p) PROVE TornIsLocked'
  BY <1>11 DEF WriteManifest, logVars
<1>12. ASSUME NEW p \in Hooks, Crash(p) PROVE TornIsLocked'
  <2>1. UNCHANGED lock /\ \A q \in Hooks, s \in Sessions : Holds(q, s)' => Holds(q, s) /\ q # p
    BY <1>12 DEF Crash, Forget
  <2>2. CASE UNCHANGED logVars
    BY <2>1, <2>2 DEF logVars
  <2>3. CASE at[p] = "appending" /\ open' = [open EXCEPT ![session[p]] = TRUE]
    <3>1. session[p] \in Sessions /\ lock[session[p]] = p
      BY <2>3 DEF LockIsHeld
    <3>2. \A q \in Hooks : Holds(q, session[p]) => q = p
      BY <2>3, OneHookAtWork DEF LockIsHeld
    <3> SUFFICES ASSUME NEW s \in Sessions, open'[s]
                 PROVE  lock'[s] # Nobody /\ \A q \in Hooks : ~Holds(q, s)'
      OBVIOUS
    <3>3. CASE s = session[p]
      <4>1. lock'[s] # Nobody
        BY <2>1, <3>1, <3>3
      <4>2. ASSUME NEW q \in Hooks, Holds(q, s)' PROVE FALSE
        <5>1. Holds(q, s) /\ q # p
          BY <2>1, <4>2
        <5> QED BY <3>2, <3>3, <5>1
      <4> QED BY <4>1, <4>2
    <3>4. CASE s # session[p]
      <4>1. open[s]
        BY <2>3, <3>4
      <4> QED BY <2>1, <4>1
    <3> QED BY <3>3, <3>4
  <2> QED BY <1>12, <2>2, <2>3 DEF Crash
<1>13. ASSUME NEW s \in Sessions, Age(s) PROVE TornIsLocked'
  BY <1>13 DEF Age, hookVars, logVars
<1>14. CASE UNCHANGED vars
  BY <1>14 DEF vars, hookVars, logVars
<1> QED
  BY <1>1, <1>2, <1>3, <1>4, <1>5, <1>6, <1>7, <1>8, <1>9, <1>10, <1>11, <1>12, <1>13, <1>14
     DEF Next, Progress, CountFails, RenameManifest, RenameFails

\* The lines of a session on which a hook works change by that hook's step only.
LEMMA LinesAreHeld ==
    ASSUME LogInv, [Next]_vars, NEW q \in Hooks,
           at[q] \notin {"idle", "waiting", "appending"}
    PROVE  lines'[session[q]] = lines[session[q]]
<1>1. CASE UNCHANGED logVars
  BY <1>1 DEF logVars
<1>2. CASE ~UNCHANGED logVars
  <2>1. PICK p \in Hooks, e \in Nat \cup {Bad} :
           /\ at[p] = "appending"
           /\ lines' = [lines EXCEPT ![session[p]] = Appended(session[p], e)]
    BY <1>2, LogStep DEF LogInv
  <2>2. session[q] # session[p] /\ session[q] \in Sessions
    BY <2>1, OneHookAtWork DEF LogInv, LockIsHeld
  <2> QED BY <2>1, <2>2 DEF LogInv, TypeOK
<1> QED BY <1>1, <1>2

LEMMA EventIsWrittenStep ==
    ASSUME LogInv, TornIsLocked, EventIsWritten, [Next]_vars
    PROVE  EventIsWritten'
<1> SUFFICES ASSUME NEW q \in Hooks, at'[q] \in {"reading", "writing", "renaming"}
             PROVE  LET s == session'[q] IN
                    /\ sequence'[q] = Len(lines'[s])
                    /\ Len(lines'[s]) > 0
                    /\ lines'[s][Len(lines'[s])] = Len(lines'[s])
  BY DEF EventIsWritten
<1>1. CASE AppendEvent(q)
  <2>1. at[q] = "appending" /\ session[q] \in Sessions /\ sequence[q] \in Nat
    BY <1>1 DEF AppendEvent, LogInv, LockIsHeld, TypeOK
  <2>2. /\ sequence[q] = Len(lines[session[q]]) + 1
        /\ Len(lines[session[q]]) \in Nat
    BY <2>1 DEF LogInv, CountIsFresh, TypeOK
  <2>3. /\ lines'[session[q]] = Appended(session[q], sequence[q])
        /\ session' = session /\ sequence' = sequence
    BY <1>1, <2>1 DEF AppendEvent, LogInv, TypeOK
  <2>4. /\ Len(Appended(session[q], sequence[q])) = sequence[q]
        /\ Appended(session[q], sequence[q])[sequence[q]] = sequence[q]
    BY <2>1, <2>2, UntornAppend
  <2> QED BY <2>2, <2>3, <2>4
<1>2. CASE /\ at[q] \in {"reading", "writing"}
           /\ UNCHANGED <<session[q], sequence[q]>>
  BY <1>2, LinesAreHeld DEF EventIsWritten
<1>3. CASE at[q] = at'[q] /\ UNCHANGED <<session[q], sequence[q]>>
  BY <1>3, LinesAreHeld DEF EventIsWritten
<1>4. \/ AppendEvent(q)
      \/ at[q] \in {"reading", "writing", at'[q]} /\ UNCHANGED <<session[q], sequence[q]>>
  <2>1. ASSUME NEW p \in Hooks, NEW s \in Sessions, NEW k \in Kinds, Begin(p, s, k)
        PROVE  at[q] = at'[q] /\ UNCHANGED <<session[q], sequence[q]>>
    BY <2>1 DEF Begin, Go, LogInv, TypeOK
  <2>2. ASSUME NEW p \in Hooks, p # q, Progress(p)
        PROVE  at[q] = at'[q] /\ UNCHANGED <<session[q], sequence[q]>>
    BY <2>2 DEF Progress, Acquire, GiveUp, Look, MarkWrite, MarkRename, Count, CountFails,
       AppendEvent, AppendFails, ReadManifest, WriteManifest, RenameManifest, RenameFails,
       Return, Forget, Go, LogInv, TypeOK
  <2>3. ASSUME Progress(q)
        PROVE  \/ AppendEvent(q)
               \/ at[q] \in {"reading", "writing", at'[q]} /\ UNCHANGED <<session[q], sequence[q]>>
    BY <2>3 DEF Progress, Acquire, GiveUp, Look, MarkWrite, MarkRename, Count, CountFails,
       AppendFails, ReadManifest, WriteManifest, RenameManifest, RenameFails,
       Return, Forget, Go, LogInv, TypeOK
  <2>4. ASSUME NEW p \in Hooks, Crash(p)
        PROVE  at[q] = at'[q] /\ UNCHANGED <<session[q], sequence[q]>>
    BY <2>4 DEF Crash, Forget, Go, LogInv, TypeOK
  <2> QED BY <2>1, <2>2, <2>3, <2>4 DEF Next, Age, vars, hookVars
<1> QED BY <1>1, <1>2, <1>3, <1>4

LEMMA CopiesNotAheadStep ==
    ASSUME LogInv, TornIsLocked, EventIsWritten, CopiesNotAhead, [Next]_vars
    PROVE  CopiesNotAhead'
<1> DEFINE Below(m, s) == m # NoFile => m.count <= Len(lines'[s])
<1>1. ASSUME NEW s \in Sessions, NEW m \in Manifest \cup {NoFile}, NotAhead(m, s)
      PROVE  Below(m, s)
  <2>1. Len(lines[s]) \in Nat /\ Len(lines'[s]) \in Nat /\ Len(lines[s]) <= Len(lines'[s])
    BY LinesStay
  <2> QED BY <1>1, <2>1 DEF NotAhead, Manifest
<1>2. /\ \A s \in Sessions : Below(manifest[s], s) /\ Below(temporary[s], s)
      /\ \A p \in Hooks : at[p] = "marking" => Below(draft[p], target[p])
  BY <1>1 DEF CopiesNotAhead, LogInv, TypeOK, LockIsHeld
<1> HIDE DEF Below
<1> DEFINE BelowAll ==
             /\ \A s \in Sessions : Below(manifest'[s], s) /\ Below(temporary'[s], s)
             /\ \A p \in Hooks : at'[p] = "marking" => Below(draft'[p], target'[p])
<1>3. \A s \in Sessions : Below(NoFile, s)
  BY DEF Below
<1> SUFFICES BelowAll
  BY DEF CopiesNotAhead, NotAhead, Below
<1> USE DEF LogInv, TypeOK, Go
<1>4. ASSUME NEW p \in Hooks, NEW s \in Sessions, NEW k \in Kinds, Begin(p, s, k) PROVE BelowAll
  BY <1>2, <1>4 DEF Begin
<1>5. ASSUME NEW p \in Hooks, Acquire(p) PROVE BelowAll
  BY <1>2, <1>5 DEF Acquire
<1>6. ASSUME NEW p \in Hooks, GiveUp(p) PROVE BelowAll
  BY <1>2, <1>6 DEF GiveUp, Forget
<1>7. ASSUME NEW p \in Hooks, NEW s \in Sessions, Look(p, s) PROVE BelowAll
  BY <1>2, <1>7 DEF Look
<1>8. ASSUME NEW p \in Hooks, MarkWrite(p) PROVE BelowAll
  <2>1. draft[p] \in Manifest /\ target[p] \in Sessions
    BY <1>8 DEF MarkWrite, LockIsHeld
  <2>2. Below([draft[p] EXCEPT !.status = "interrupted"], target[p])
    <3>1. draft[p] # NoFile /\ Below(draft[p], target[p])
      BY <1>2, <1>8 DEF MarkWrite, LockIsHeld
    <3>2. [draft[p] EXCEPT !.status = "interrupted"].count = draft[p].count
      BY <2>1 DEF Manifest
    <3> QED BY <3>1, <3>2 DEF Below
  <2> QED BY <1>2, <1>8, <2>1, <2>2 DEF MarkWrite
<1>9. ASSUME NEW p \in Hooks, MarkRename(p) PROVE BelowAll
  BY <1>2, <1>3, <1>9 DEF MarkRename, MoveInto, LockIsHeld
<1>10. ASSUME NEW p \in Hooks, Count(p) PROVE BelowAll
  <2>1. \A s \in Sessions : Below([count |-> 0, status |-> "active", old |-> FALSE], s)
    BY LinesStay DEF Below
  <2> QED BY <1>2, <1>10, <2>1 DEF Count
<1>11. ASSUME NEW p \in Hooks, Return(p), UNCHANGED <<manifest, temporary>> PROVE BelowAll
  BY <1>2, <1>11 DEF Return, Forget
<1>12. ASSUME NEW p \in Hooks, AppendEvent(p) PROVE BelowAll
  BY <1>2, <1>12 DEF AppendEvent
<1>13. ASSUME NEW p \in Hooks, ReadManifest(p) PROVE BelowAll
  BY <1>2, <1>13 DEF ReadManifest
<1>14. ASSUME NEW p \in Hooks, WriteManifest(p) PROVE BelowAll
  <2> DEFINE m == [count |-> sequence[p],
                   status |-> IF kind[p] = "end" THEN "completed" ELSE draft[p].status,
                   old |-> FALSE]
  <2>1. session[p] \in Sessions /\ sequence[p] = Len(lines[session[p]])
    BY <1>14 DEF WriteManifest, LockIsHeld, EventIsWritten
  <2>2. Below(m, session[p])
    BY <2>1, LinesStay DEF Below
  <2>3. temporary' = [temporary EXCEPT ![session[p]] = m]
    BY <1>14 DEF WriteManifest
  <2> HIDE DEF m
  <2> QED BY <1>2, <1>14, <2>1, <2>2, <2>3 DEF WriteManifest
<1>15. ASSUME NEW p \in Hooks, RenameManifest(p) PROVE BelowAll
  BY <1>2, <1>3, <1>15 DEF RenameManifest, MoveInto, Return, Forget, LockIsHeld
<1>16. ASSUME NEW p \in Hooks, Crash(p) PROVE BelowAll
  BY <1>2, <1>16 DEF Crash, Forget
<1>17. ASSUME NEW s \in Sessions, Age(s) PROVE BelowAll
  <2>1. Below([manifest[s] EXCEPT !.old = TRUE], s)
    BY <1>2, <1>17 DEF Age, Below, Manifest
  <2> QED BY <1>2, <1>17, <2>1 DEF Age, hookVars
<1>18. CASE UNCHANGED vars
  BY <1>2, <1>18 DEF vars, hookVars
<1> QED
  BY <1>4, <1>5, <1>6, <1>7, <1>8, <1>9, <1>10, <1>11, <1>12, <1>13, <1>14, <1>15, <1>16,
     <1>17, <1>18 DEF Next, Progress, CountFails, AppendFails, RenameFails

LEMMA AckedIsWrittenStep ==
    ASSUME LogInv, TornIsLocked, EventIsWritten, AckedIsWritten, [Next]_vars
    PROVE  AckedIsWritten'
<1> DEFINE Written(i, s) == i \in 1..Len(lines'[s]) /\ lines'[s][i] = i
<1>1. ASSUME NEW s \in Sessions, NEW i, i \in 1..Len(lines[s]), lines[s][i] = i
      PROVE  Written(i, s)
  BY <1>1, LinesStay
<1>2. \A s \in Sessions : \A i \in acked[s] : Written(i, s)
  BY <1>1 DEF AckedIsWritten
<1> HIDE DEF Written
<1> SUFFICES \A s \in Sessions : \A i \in acked'[s] : Written(i, s)
  BY DEF AckedIsWritten, Written
<1>3. CASE UNCHANGED acked
  BY <1>2, <1>3
<1>4. ASSUME NEW p \in Hooks, RenameManifest(p)
      PROVE  \A s \in Sessions : \A i \in acked'[s] : Written(i, s)
  <2>1. session[p] \in Sessions /\ lines[session[p]] \in Seq(Nat \cup {Bad})
    BY <1>4 DEF RenameManifest, LogInv, LockIsHeld, TypeOK
  <2>2. /\ Len(lines[session[p]]) \in 1..Len(lines[session[p]])
        /\ lines[session[p]][Len(lines[session[p]])] = Len(lines[session[p]])
    BY <1>4, <2>1 DEF RenameManifest, EventIsWritten
  <2>3. Written(Len(lines[session[p]]), session[p])
    BY <1>1, <2>1, <2>2
  <2>4. acked' = [acked EXCEPT ![session[p]] = @ \cup {Len(lines[session[p]])}]
    BY <1>4 DEF RenameManifest
  <2> QED BY <1>2, <2>1, <2>3, <2>4 DEF LogInv, TypeOK
<1>5. UNCHANGED acked \/ \E p \in Hooks : RenameManifest(p)
  BY DEF Next, Progress, vars, Begin, Acquire, GiveUp, Look, MarkWrite, MarkRename, Count,
     CountFails, AppendEvent, AppendFails, ReadManifest, WriteManifest, RenameFails, Crash, Age
<1> QED BY <1>3, <1>4, <1>5

LEMMA UntornInvHolds == Spec => []UntornInv
<1>1. Init => UntornInv
  BY NoFileAssumption
     DEF Init, UntornInv, TornIsLocked, EventIsWritten, CopiesNotAhead, NotAhead, AckedIsWritten
<1>2. LogInv /\ UntornInv /\ [Next]_vars => UntornInv'
  BY NothingFailed, TornIsLockedStep, EventIsWrittenStep, CopiesNotAheadStep, AckedIsWrittenStep
     DEF UntornInv, LogInv
<1> QED BY <1>1, <1>2, LogInvHolds, PTL DEF Spec

(* Every recorded field keeps its type, for logs of any length and counts   *)
(* of any size.                                                             *)
THEOREM TypeCorrect == Spec => []TypeOK
<1>1. LogInv => TypeOK
  BY DEF LogInv
<1> QED BY <1>1, LogInvHolds, PTL

(* No manifest counts an event that is not in the log, while no append has  *)
(* failed: although hooks of other sessions rewrite it, without the lock,   *)
(* from copies read before events were added.                               *)
THEOREM ManifestNeverAheadHolds == Spec => []ManifestNeverAhead
<1>1. UntornInv => ManifestNeverAhead
  BY DEF UntornInv, ManifestNeverAhead, CopiesNotAhead, NotAhead
<1> QED BY <1>1, UntornInvHolds, PTL

(* An event whose recording ended with Ok stays readable at its line, while *)
(* no append has failed: a hook that is killed in its append leaves a torn  *)
(* line that every later event of the session would run into, and with it   *)
(* the lock that keeps them out.                                            *)
THEOREM AckedReadableHolds == Spec => []AckedReadable
<1>1. LogInv /\ UntornInv => AckedReadable
  <2> SUFFICES ASSUME LogInv, UntornInv, NoTornLine, NEW s \in Sessions, NEW i \in acked[s]
               PROVE  i <= Len(lines[s]) /\ lines[s][i] = i
    BY DEF AckedReadable
  <2>1. Len(lines[s]) \in Nat
    BY DEF LogInv, TypeOK
  <2> QED BY <2>1 DEF UntornInv, AckedIsWritten
<1> QED BY <1>1, LogInvHolds, UntornInvHolds, PTL

-----------------------------------------------------------------------------
(***************************************************************************)
(* The memory directory.                                                   *)
(***************************************************************************)

(* What makes UncrossedCaptureSurvives inductive: every copy that is going  *)
(* to replace the file already holds the uncrossed captures, and the memory *)
(* its process captures.                                                    *)
Kept == captured \ crossed

CopiesKeep ==
    \A p \in Procs : WillSave(p) =>
        /\ Kept \subseteq copy[p]
        /\ doc[p] # NoDoc => doc[p] \in copy[p]

\* The holder of the writer lock is using it.
HolderIndexes == writer # Nobody => step[writer] \in {"loading", "indexing"}

SharedInv == MemoryTypeOK /\ HolderIndexes /\ UncrossedCaptureSurvives /\ CopiesKeep

(* A process that reads the file starts with a copy that holds what the     *)
(* file holds, and its own memory.                                          *)
LEMMA ReadFilePreserves ==
    ASSUME SharedInv, NEW p \in Procs, NEW d \in Docs \cup {NoDoc},
           NEW s \in Steps, ReadFile(p, d, s)
    PROVE  SharedInv'
<1> USE DEF SharedInv, ReadFile
<1>1. MemoryTypeOK'
  BY DEF MemoryTypeOK
<1>2. HolderIndexes' /\ UncrossedCaptureSurvives'
  BY DEF UncrossedCaptureSurvives, HolderIndexes, MemoryTypeOK
<1>3. ASSUME NEW q \in Procs, WillSave(q)'
      PROVE  Kept' \subseteq copy'[q] /\ (doc'[q] # NoDoc => doc'[q] \in copy'[q])
  <2>1. CASE q = p
    BY <2>1 DEF MemoryTypeOK, UncrossedCaptureSurvives, Kept
  <2>2. CASE q # p
    <3>1. WillSave(q) /\ copy'[q] = copy[q] /\ doc'[q] = doc[q]
      BY <1>3, <2>2 DEF WillSave, MemoryTypeOK
    <3> QED
      BY <3>1 DEF CopiesKeep, Kept
  <2> QED
    BY <2>1, <2>2
<1> QED
  BY <1>1, <1>2, <1>3 DEF CopiesKeep

(* A save replaces the file by a copy that holds every uncrossed capture;   *)
(* if another process holds a copy made before it, the memory it captures   *)
(* counts as crossed from then on.                                          *)
LEMMA SavePreserves ==
    ASSUME SharedInv, NEW p \in Procs, Save(p)
    PROVE  SharedInv'
<1> USE DEF SharedInv, Save
<1>1. MemoryTypeOK' /\ HolderIndexes'
  BY DEF MemoryTypeOK, Steps, HolderIndexes
<1>2. WillSave(p) /\ ~WillSave(p)'
  BY DEF WillSave, MemoryTypeOK
<1>3. ASSUME NEW q \in Procs, q # p
      PROVE  WillSave(q)' = WillSave(q) /\ copy'[q] = copy[q] /\ doc'[q] = doc[q]
  BY <1>3 DEF WillSave, MemoryTypeOK
<1>4. CASE \E q \in Procs \ {p} : WillSave(q)
  <2>1. Kept' \subseteq Kept
    BY <1>4 DEF Kept
  <2>2. UncrossedCaptureSurvives'
    BY <1>2, <2>1 DEF UncrossedCaptureSurvives, CopiesKeep, Kept
  <2>3. CopiesKeep'
    BY <1>2, <1>3, <2>1 DEF CopiesKeep
  <2> QED
    BY <1>1, <2>2, <2>3
<1>5. CASE ~\E q \in Procs \ {p} : WillSave(q)
  <2>1. Kept' \subseteq Kept \cup ({doc[p]} \ {NoDoc})
    BY <1>5, SharedAssumption DEF Kept, MemoryTypeOK, SharedAssumption
  <2>2. UncrossedCaptureSurvives'
    BY <1>2, <2>1 DEF UncrossedCaptureSurvives, CopiesKeep, Kept
  <2>3. CopiesKeep'
    BY <1>2, <1>3, <1>5 DEF CopiesKeep
  <2> QED
    BY <1>1, <2>2, <2>3
<1> QED
  BY <1>4, <1>5

(* The other steps change no file and no copy, and no process comes to hold *)
(* a copy to be saved that did not hold it before.                          *)
LEMMA QuietPreserves ==
    ASSUME SharedInv, MemoryTypeOK', HolderIndexes',
           UNCHANGED <<doc, copy, file, captured, crossed>>,
           \A q \in Procs : WillSave(q)' => WillSave(q)
    PROVE  SharedInv'
BY DEF SharedInv, UncrossedCaptureSurvives, CopiesKeep, Kept

LEMMA SharedInvInit == ASSUME MemoryInit PROVE SharedInv
BY DEF MemoryInit, SharedInv, MemoryTypeOK, Steps, HolderIndexes,
       UncrossedCaptureSurvives, CopiesKeep, WillSave, Kept

LEMMA SharedInvStep == ASSUME SharedInv, [MemoryNext]_memoryVars PROVE SharedInv'
<1> USE DEF SharedInv
<1>1. ASSUME NEW p \in Hooks, Retrieve(p) PROVE SharedInv'
  BY <1>1, ReadFilePreserves DEF Retrieve, Procs, Steps
<1>2. ASSUME NEW p \in Hooks, NEW d \in Docs, Capture(p, d) PROVE SharedInv'
  BY <1>2, ReadFilePreserves DEF Capture, Procs, Steps
<1>3. ASSUME NEW p \in Recalls, Recall(p) PROVE SharedInv'
  BY <1>3, ReadFilePreserves DEF Recall, Procs, Steps
<1>4. ASSUME NEW p \in Procs, LockWriter(p) PROVE SharedInv'
  BY <1>4, QuietPreserves DEF LockWriter, MemoryTypeOK, HolderIndexes, WillSave
<1>5. ASSUME NEW p \in Procs, LockTimeout(p) PROVE SharedInv'
  BY <1>5, QuietPreserves DEF LockTimeout, MemoryTypeOK, HolderIndexes, WillSave, Steps
<1>6. ASSUME NEW p \in Procs, Commit(p) PROVE SharedInv'
  <2>1. MemoryTypeOK' /\ HolderIndexes'
    BY <1>6, SharedAssumption DEF Commit, MemoryTypeOK, Steps, HolderIndexes, SharedAssumption
  <2>2. \A q \in Procs : WillSave(q)' => WillSave(q)
    BY <1>6, SharedAssumption DEF Commit, MemoryTypeOK, WillSave, Steps, HolderIndexes, SharedAssumption
  <2> QED
    BY <1>6, <2>1, <2>2, QuietPreserves DEF Commit
<1>7. ASSUME NEW p \in Procs, Save(p) PROVE SharedInv'
  BY <1>7, SavePreserves
<1>8. ASSUME NEW p \in Procs, Die(p) PROVE SharedInv'
  BY <1>8, QuietPreserves DEF Die, MemoryTypeOK, HolderIndexes, WillSave, Steps
<1>9. CASE UNCHANGED memoryVars
  BY <1>9, QuietPreserves DEF memoryVars, MemoryTypeOK, HolderIndexes, WillSave
<1> QED
  BY <1>1, <1>2, <1>3, <1>4, <1>5, <1>6, <1>7, <1>8, <1>9 DEF MemoryNext

(* However many processes share a memory directory, die or give up waiting, *)
(* a capture no other process crossed stays on disk.                        *)
THEOREM UncrossedCaptureSurvivesHolds == MemorySpec => [](MemoryTypeOK /\ UncrossedCaptureSurvives)
<1>1. MemoryInit => SharedInv
  BY SharedInvInit
<1>2. SharedInv /\ [MemoryNext]_memoryVars => SharedInv'
  BY SharedInvStep
<1>3. SharedInv => MemoryTypeOK /\ UncrossedCaptureSurvives
  BY DEF SharedInv
<1> QED
  BY <1>1, <1>2, <1>3, PTL DEF MemorySpec
=================================================================================
