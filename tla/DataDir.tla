------------------------------- MODULE DataDir -------------------------------
(***************************************************************************)
(* The processes that share a data directory, the interface (`yolo`) and   *)
(* the server (`yolo serve`): their boot (buildDeps), which opens the log  *)
(* and brings the database to the newest schema, their drain, and the      *)
(* interface's key-value file, written by a goroutine of its own.  Any of  *)
(* them may be killed at any step, and what they write may fail: the log   *)
(* ignores it and the key-value store warns and goes on.                   *)
(***************************************************************************)
EXTENDS Naturals, FiniteSets, Sequences, SequencesExt

CONSTANTS Proc, None,
          Newest,    \* number of the last migration
          Repeatable,\* migrations that may be applied twice (IF NOT EXISTS)
          Starts,    \* how it may begin: the schema version, whether processes run
                     \* together, and which files may fail to be written
          MaxSets,   \* bound: values set in the key-value store
          MaxLines,  \* bound: lines logged
          MaxBoots,  \* bound: boots
          LogLimit,  \* maxSize, in lines
          QueueCap   \* capacity of the flush queue

ASSUME DataAssumption ==
  /\ Newest \in Nat /\ MaxSets \in Nat /\ QueueCap \in Nat
  /\ LogLimit \in Nat \ {0}
  /\ None \notin 0 .. MaxSets
  /\ Starts \subseteq [version : 0 .. Newest, together : BOOLEAN, fails : SUBSET {"log", "store"}]

VARIABLES start, boots,
          pc, mode,          \* per process: how far it is, and "tui" or "serve"
          forced,            \* whether a second signal or the budget ended its drain
          turns,             \* whether a turn runs in it
          cur,               \* the schema version it read
          version, applied,  \* the database: its recorded version, the migrations applied
          store, queue,      \* key-value store in memory, and its flush triggers
          kv,                \* the writer: "off", "run", "done"
          writing,           \* the snapshot being written, or None
          file, sets, flushes, \* the key-value file; the values set; calls of Flush left
          missed,            \* per process: whether the last write of its store failed
          active, backup,    \* the log's files, as the number of lines they hold
          handle, size,      \* per process: the file it writes to, and the size it believes
          overdue            \* whether the last rotation failed
db == <<cur, version, applied>>
kvs == <<store, queue, kv, writing, file, sets, flushes, missed>>
logs == <<active, backup, handle, size, overdue>>
life == <<boots, pc, mode, forced, turns>>
vars == <<start, life, db, kvs, logs>>

Stages == {"off", "log", "read", "migrate", "built", "listening", "running",
           "draining", "server", "closed"}
Handles == {"none", "active", "backup", "lost"}

TypeOK ==
    /\ pc \in [Proc -> Stages] /\ mode \in [Proc -> {"tui", "serve"}]
    /\ {forced, turns, missed} \subseteq [Proc -> BOOLEAN] /\ overdue \in BOOLEAN
    /\ cur \in [Proc -> 0..Newest] /\ version \in 0..Newest /\ applied \subseteq 1..Newest
    /\ store \in [Proc -> 0..MaxSets] /\ queue \in [Proc -> 0..QueueCap]
    /\ kv \in [Proc -> {"off", "run", "done"}] /\ writing \in [Proc -> {None} \union (0..MaxSets)]
    /\ file \in 0..MaxSets
    /\ handle \in [Proc -> Handles]

Init ==
    /\ start \in Starts /\ boots = 0
    /\ pc = [p \in Proc |-> "off"] /\ mode = [p \in Proc |-> "serve"]
    /\ forced = [p \in Proc |-> FALSE] /\ turns = forced /\ missed = forced /\ overdue = FALSE
    /\ cur = [p \in Proc |-> 0] /\ version = start.version /\ applied = 1..start.version
    /\ store = [p \in Proc |-> 0] /\ queue = store /\ kv = [p \in Proc |-> "off"]
    /\ writing = [p \in Proc |-> None] /\ file = 0 /\ sets = 0 /\ flushes = 1
    /\ active = 0 /\ backup = 0 /\ handle = [p \in Proc |-> "none"] /\ size = store

Goto(p, stage) == pc' = [pc EXCEPT ![p] = stage]
Alone(p) == \A q \in Proc \ {p} : pc[q] = "off"

-----------------------------------------------------------------------------
(* The log: one file, and one older generation.  Every process counts the bytes it writes *)
(* itself, from the size it found; a handle stays on its file when that is renamed.       *)

LogMayFail == "log" \in start.fails

\* The file is appended to, from the size it has.
OpenLog(p) == handle' = [handle EXCEPT ![p] = "active"] /\ size' = [size EXCEPT ![p] = active]
CloseLog(p) == handle' = [handle EXCEPT ![p] = "none"]

\* The renamed file takes with it the handles on it, and the generation before is gone.
Renames(p, to) ==
    /\ backup' = active /\ overdue' = FALSE
    /\ handle' = [q \in Proc |-> IF q = p THEN to
                                 ELSE CASE handle[q] = "active" -> "backup"
                                        [] handle[q] = "backup" -> "lost"
                                        [] OTHER -> handle[q]]
Rotated(p) == Renames(p, "active") /\ active' = 1 /\ size' = [size EXCEPT ![p] = 1]

\* The file that was renamed away cannot be opened anew: the line is dropped.
RotatedAway(p) == LogMayFail /\ Renames(p, "none") /\ active' = 0 /\ UNCHANGED size

\* The rename failed: the file is opened again, full as it is, and takes the line.
NotRotated(p) ==
    /\ LogMayFail
    /\ active' = active + 1 /\ overdue' = TRUE
    /\ handle' = [handle EXCEPT ![p] = "active"] /\ size' = [size EXCEPT ![p] = active + 1]
    /\ UNCHANGED backup

Appended(p) ==
    /\ active' = IF handle[p] \in {"active", "none"} THEN active + 1 ELSE active
    /\ backup' = IF handle[p] = "backup" THEN backup + 1 ELSE backup
    /\ handle' = [handle EXCEPT ![p] = IF @ = "none" THEN "active" ELSE @]
    /\ size' = [size EXCEPT ![p] = (IF handle[p] = "none" THEN active ELSE @) + 1]
    /\ UNCHANGED overdue

Logs(p) == pc[p] \in {"log", "built", "running", "draining"}

\* A write opens the file again when there is none, and rotates before the limit.
LogLine(p) ==
    /\ Logs(p) /\ active + backup < MaxLines
    /\ IF (IF handle[p] = "none" THEN active ELSE size[p]) + 1 > LogLimit
       THEN Rotated(p) \/ RotatedAway(p) \/ NotRotated(p)
       ELSE Appended(p)
    /\ UNCHANGED <<start, life, db, kvs>>

\* The file cannot be written, or opened again unrenamed: the line is dropped, and the next
\* one opens the file.
LogFails(p) ==
    /\ LogMayFail /\ Logs(p) /\ handle[p] # "none" /\ CloseLog(p)
    /\ UNCHANGED <<start, life, db, kvs, active, backup, size, overdue>>

-----------------------------------------------------------------------------
(* Boot. *)

Boot(p, m) ==
    /\ pc[p] = "off" /\ boots < MaxBoots
    /\ start.together \/ Alone(p)
    /\ boots' = boots + 1 /\ mode' = [mode EXCEPT ![p] = m] /\ forced' = [forced EXCEPT ![p] = FALSE]
    /\ Goto(p, "log") /\ (OpenLog(p) \/ (LogMayFail /\ UNCHANGED <<handle, size>>))
    /\ UNCHANGED <<start, turns, db, kvs, active, backup, overdue>>

\* migrate reads the recorded version once.
ReadVersion(p) ==
    /\ pc[p] = "log" /\ Goto(p, "migrate")
    /\ cur' = [cur EXCEPT ![p] = version]
    /\ UNCHANGED <<start, boots, mode, forced, turns, version, applied, kvs, logs>>

\* One that records the version in a transaction of its own.
ApplyThenRecord(p) ==
    /\ pc[p] = "migrate" /\ cur[p] < Newest
    /\ LET v == cur[p] + 1
       IN IF v \notin applied THEN applied' = applied \union {v} /\ UNCHANGED <<version, cur>>
          ELSE version' = v /\ cur' = [cur EXCEPT ![p] = v] /\ UNCHANGED applied
    /\ UNCHANGED <<start, life, kvs, logs>>

\* A migration and the version it leads to are one transaction; one that was applied already
\* fails, unless it checks, and the boot with it.
ApplyMigration(p) ==
    /\ pc[p] = "migrate" /\ cur[p] < Newest
    /\ cur[p] + 1 \notin applied \ Repeatable
    /\ applied' = applied \union {cur[p] + 1}
    /\ version' = cur[p] + 1
    /\ cur' = [cur EXCEPT ![p] = @ + 1]
    /\ UNCHANGED <<start, life, kvs, logs>>

Migrated(p) ==
    /\ pc[p] = "migrate" /\ cur[p] = Newest /\ Goto(p, "built")
    /\ UNCHANGED <<start, boots, mode, forced, turns, db, kvs, logs>>

\* Any step of the boot may fail: what was opened is closed.
BootFails(p) ==
    /\ pc[p] \in {"log", "migrate", "built"}
    /\ Goto(p, "off") /\ CloseLog(p)
    /\ UNCHANGED <<start, boots, mode, forced, turns, db, kvs, active, backup, size, overdue>>

\* The listener comes up, or the drain runs at once.
Listen(p, ok) ==
    /\ pc[p] = "built" /\ Goto(p, IF ok THEN "listening" ELSE "draining")
    /\ UNCHANGED <<start, boots, mode, forced, turns, db, kvs, logs>>

\* The interface opens its key-value file; what can fail between drains the process.
Run(p, ok) ==
    /\ pc[p] = "listening" /\ Goto(p, IF ok THEN "running" ELSE "draining")
    /\ IF ok /\ mode[p] = "tui"
       THEN /\ kv' = [kv EXCEPT ![p] = "run"] /\ store' = [store EXCEPT ![p] = file]
            /\ queue' = [queue EXCEPT ![p] = 0] /\ UNCHANGED <<writing, file, sets, flushes, missed>>
       ELSE UNCHANGED kvs
    /\ UNCHANGED <<start, boots, mode, forced, turns, db, logs>>

TurnStarts(p) ==
    /\ pc[p] = "running" /\ ~turns[p] /\ turns' = [turns EXCEPT ![p] = TRUE]
    /\ UNCHANGED <<start, boots, pc, mode, forced, db, kvs, logs>>

-----------------------------------------------------------------------------
(* Drain: turns, then the listener, then the log and the database, within one budget that *)
(* a second signal ends at once when serving.  The key-value store closes after the drain. *)

Stop(p) ==
    /\ pc[p] = "running" /\ Goto(p, "draining")
    /\ UNCHANGED <<start, boots, mode, forced, turns, db, kvs, logs>>

BudgetEnds(p) ==
    /\ pc[p] = "draining" /\ ~forced[p] /\ forced' = [forced EXCEPT ![p] = TRUE]
    /\ UNCHANGED <<start, boots, pc, mode, turns, db, kvs, logs>>

TurnEnds(p) ==
    /\ turns[p] /\ turns' = [turns EXCEPT ![p] = FALSE]
    /\ UNCHANGED <<start, boots, pc, mode, forced, db, kvs, logs>>

EngineDown(p) ==
    /\ pc[p] = "draining" /\ (forced[p] \/ ~turns[p])
    /\ Goto(p, "server")
    /\ UNCHANGED <<start, boots, mode, forced, turns, db, kvs, logs>>

ServerDown(p) ==
    /\ pc[p] = "server" /\ Goto(p, "closed") /\ CloseLog(p)
    /\ UNCHANGED <<start, boots, mode, forced, turns, db, kvs, active, backup, size, overdue>>

Exit(p) ==
    /\ pc[p] = "closed" /\ kv[p] \in {"off", "done"} /\ writing[p] = None /\ Goto(p, "off")
    /\ turns' = [turns EXCEPT ![p] = FALSE]
    /\ kv' = [kv EXCEPT ![p] = "off"]
    /\ UNCHANGED <<start, boots, mode, forced, db, store, queue, writing, file, sets, flushes, missed, logs>>

\* The process is killed: its handles and its memory are gone, the files stay.
Kill(p) ==
    /\ pc[p] # "off" /\ Goto(p, "off") /\ CloseLog(p)
    /\ turns' = [turns EXCEPT ![p] = FALSE] /\ kv' = [kv EXCEPT ![p] = "off"]
    /\ writing' = [writing EXCEPT ![p] = None] /\ queue' = [queue EXCEPT ![p] = 0]
    /\ UNCHANGED <<start, boots, mode, forced, db, store, file, sets, flushes, missed, active, backup, size, overdue>>

-----------------------------------------------------------------------------
(* The key-value store.  Its mutex is held for as long as a write takes. *)

Set(p) ==
    /\ pc[p] = "running" /\ kv[p] = "run" /\ writing[p] = None /\ sets < MaxSets
    /\ sets' = sets + 1 /\ store' = [store EXCEPT ![p] = sets + 1]
    /\ queue' = [queue EXCEPT ![p] = IF @ < QueueCap THEN @ + 1 ELSE @]
    /\ UNCHANGED <<start, life, db, kv, writing, file, flushes, missed, logs>>

\* The writer takes a trigger, or a caller flushes.
Snapshot(p) ==
    /\ kv[p] = "run" /\ writing[p] = None
    /\ \/ /\ pc[p] \in {"running", "draining", "server", "closed"} /\ queue[p] > 0
          /\ queue' = [queue EXCEPT ![p] = @ - 1] /\ UNCHANGED flushes
       \/ pc[p] = "running" /\ flushes > 0 /\ flushes' = flushes - 1 /\ UNCHANGED queue
    /\ writing' = [writing EXCEPT ![p] = store[p]]
    /\ UNCHANGED <<start, life, db, store, kv, file, sets, missed, logs>>

\* The temporary file takes the old one's place, or one of the calls up to there fails: the
\* file stays as it was, and nothing will write again but the next trigger or the close.
Written(p, ok) ==
    /\ writing[p] # None /\ writing' = [writing EXCEPT ![p] = None]
    /\ ok \/ "store" \in start.fails
    /\ missed' = [missed EXCEPT ![p] = ~ok]
    /\ file' = IF ok THEN writing[p] ELSE file
    /\ UNCHANGED <<start, life, db, store, queue, kv, sets, flushes, logs>>

\* One that ends with the triggers still queued.
CloseKVAtOnce(p) ==
    /\ pc[p] = "closed" /\ kv[p] = "run" /\ writing[p] = None
    /\ kv' = [kv EXCEPT ![p] = "done"]
    /\ UNCHANGED <<start, life, db, store, queue, writing, file, sets, flushes, missed, logs>>

\* Close: the writer throws the triggers away and writes once more.
CloseKV(p) ==
    /\ pc[p] = "closed" /\ kv[p] = "run" /\ writing[p] = None
    /\ queue' = [queue EXCEPT ![p] = 0] /\ writing' = [writing EXCEPT ![p] = store[p]]
    /\ kv' = [kv EXCEPT ![p] = "done"]
    /\ UNCHANGED <<start, life, db, store, file, sets, flushes, missed, logs>>

Next == \E p \in Proc :
    \/ \E m \in {"tui", "serve"} : Boot(p, m)
    \/ ReadVersion(p) \/ ApplyMigration(p) \/ Migrated(p) \/ BootFails(p)
    \/ \E ok \in BOOLEAN : Listen(p, ok) \/ Run(p, ok) \/ Written(p, ok)
    \/ TurnStarts(p) \/ TurnEnds(p)
    \/ Stop(p) \/ BudgetEnds(p) \/ EngineDown(p) \/ ServerDown(p) \/ Exit(p) \/ Kill(p)
    \/ LogLine(p) \/ LogFails(p) \/ Set(p) \/ Snapshot(p) \/ CloseKV(p)

Spec == Init /\ [][Next]_vars

-----------------------------------------------------------------------------
(* Properties. *)

\* Wherever a boot is cut off, the recorded version names the migrations that were applied:
\* the next boot applies the others and each of them once.  It is what lets a killed upgrade
\* be taken up again (migrate: "applies any unapplied migrations in ascending version
\* order").
SchemaMatchesVersion == applied = 1..version

\* With one process at a time, across boots, kills and writes that fail: what an interface set
\* last before it left in order is in its file if the write of its close succeeded, so that
\* no trigger dropped at a full queue, thrown away by Close or spent on a write that failed
\* loses a value ("captures every Set that offered before Close returned"); and the log is
\* past its limit only after a rotation that failed and until one succeeds, whatever size a
\* boot finds it at.
FilesHold ==
    ~start.together =>
        /\ \A p \in Proc : kv[p] = "done" /\ writing[p] = None => missed[p] \/ file = store[p]
        /\ overdue \/ active <= LogLimit

\* Not properties of this code (see the findings): a store that closed has saved what was set
\* (run: "so nothing offered before Close is lost") ...
ClosedIsSaved ==
    ~start.together => \A p \in Proc : kv[p] = "done" /\ writing[p] = None => file = store[p]

\* ... and the log stays within its limit ("rotating ... when a write would push it past
\* maxSize").
LogStaysSmall == ~start.together => active <= LogLimit
=============================================================================
