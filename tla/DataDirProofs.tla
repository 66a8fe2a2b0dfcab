----------------------------- MODULE DataDirProofs -----------------------------
(***************************************************************************)
(* What files keep, for every value of the constants: the types,           *)
(* SchemaMatchesVersion and FilesHold of module DataDir,                   *)
(* CatalogueOutlivesOutage of Catalogue, MarkerUsable of Profiles, what    *)
(* EditsAreKept of FileTools and PatchesShow of Settings.                  *)
(*                                                                         *)
(* Data directory: with one process at a time a process that is not off is *)
(* the only one, and what it read of the database, and the size it         *)
(* believes of the log, are true still when it acts on them.  Without      *)
(* that, a version that was read is a lower bound, which is enough where   *)
(* no migration can be repeated.                                           *)
(*                                                                         *)
(* Catalogue: as long as every text that was fetched was a catalogue and   *)
(* could be stored, the file holds the last one a start found, so that     *)
(* whichever of the two CatalogPolicy.Load takes is that one.              *)
(*                                                                         *)
(* Profiles: a command that has run alone since it began, on a marker that *)
(* was right or as the start that repairs it, finds at each of its steps   *)
(* what it read when it began.                                             *)
(*                                                                         *)
(* Edits: the disk between the read of an edit and its write changes under *)
(* other names only, and so in other files.  The edits that succeeded, in  *)
(* the order they did, make of the first disk one that differs from the    *)
(* disk only in the files that are cut.                                    *)
(*                                                                         *)
(* Patches: who holds the lock has in hand everything that was answered of *)
(* its layer, but for the field it sets; merging loses no entry, and no    *)
(* field but to a higher layer.                                            *)
(***************************************************************************)
EXTENDS ServerParts, FiniteSetTheorems, WellFoundedInduction, TLAPS

TypesInv ==
  /\ TypeOK
  /\ start \in [version : 0 .. Newest, together : BOOLEAN, fails : SUBSET {"log", "store"}]
  /\ active \in Nat
  /\ size \in [Proc -> Nat]
  /\ sets \in 0 .. MaxSets

\* Who may run at all.
AloneInv ==
  ~start.together => \A p, q \in Proc : p # q => pc[p] = "off" \/ pc[q] = "off"

\* A process that is off, or boots, has no store; one whose log is closed holds none.
RestInv ==
  \A p \in Proc :
    /\ pc[p] \in {"off", "log", "migrate", "built", "listening"} =>
         kv[p] = "off" /\ writing[p] = None
    /\ pc[p] \in {"closed", "off"} => handle[p] = "none"

\* The version a process read is that of the database, or an older one.
VersionInv ==
  /\ applied = 1 .. version
  /\ \A p \in Proc : pc[p] = "migrate" => cur[p] =< version
  /\ ~start.together => \A p \in Proc : pc[p] = "migrate" => cur[p] = version

\* The store that is closing is the one whose last write is under way, done or failed.
StoreInv ==
  \A p \in Proc : kv[p] = "done" =>
    IF writing[p] = None THEN missed[p] \/ file = store[p] ELSE writing[p] = store[p]

\* The one process that logs knows the size of the file it appends to, and past the limit a
\* rotation has failed.
LogInv ==
  /\ \A p \in Proc : handle[p] \in {"none", "active"}
  /\ \A p \in Proc : handle[p] = "active" => size[p] = active
  /\ overdue \/ active =< LogLimit

DataInv ==
  /\ TypesInv /\ AloneInv /\ RestInv
  /\ ~start.together \/ Repeatable = {} => VersionInv
  /\ ~start.together => StoreInv /\ LogInv

-----------------------------------------------------------------------------
(* The types. *)

LEMMA TypedInit ==
  Init => TypesInv
<1>. SUFFICES ASSUME Init PROVE TypesInv
  OBVIOUS
<1>1. start \in [version : 0 .. Newest, together : BOOLEAN, fails : SUBSET {"log", "store"}]
  BY DataAssumption DEF Init
<1>2. start.version \in 0 .. Newest
  BY <1>1
<1>3. 0 \in 0 .. Newest /\ 0 \in 0 .. MaxSets /\ 0 \in 0 .. QueueCap
  BY DataAssumption
<1>4. applied \subseteq 1 .. Newest /\ version \in 0 .. Newest
  BY <1>2, DataAssumption DEF Init
<1>5. TypeOK
  BY <1>3, <1>4 DEF Init, TypeOK, Stages, Handles
<1>. QED BY <1>1, <1>3, <1>5 DEF Init, TypesInv

LEMMA TypedNext ==
  TypesInv /\ [Next]_vars => TypesInv'
<1>. SUFFICES ASSUME TypesInv, [Next]_vars PROVE TypesInv'
  OBVIOUS
<1>. USE DataAssumption DEF TypesInv, TypeOK, Stages, Handles, Goto, CloseLog, OpenLog
<1>1. ASSUME NEW p \in Proc, NEW m \in {"tui", "serve"}, Boot(p, m) PROVE TypesInv'
  BY <1>1 DEF Boot, db, kvs
<1>2. ASSUME NEW p \in Proc, ReadVersion(p) PROVE TypesInv'
  BY <1>2 DEF ReadVersion, kvs, logs
<1>3. ASSUME NEW p \in Proc, ApplyMigration(p) PROVE TypesInv'
  <2>1. cur[p] + 1 \in 1 .. Newest
    BY <1>3 DEF ApplyMigration
  <2>2. applied' \subseteq 1 .. Newest
    BY <1>3, <2>1 DEF ApplyMigration
  <2>3. cur[p] + 1 \in 0 .. Newest
    BY <2>1
  <2>4. /\ version' \in 0 .. Newest
        /\ cur' \in [Proc -> 0 .. Newest]
    BY <1>3, <2>3 DEF ApplyMigration
  <2>. QED BY <1>3, <2>2, <2>4 DEF ApplyMigration, life, kvs, logs
<1>4. ASSUME NEW p \in Proc, Migrated(p) PROVE TypesInv'
  BY <1>4 DEF Migrated, db, kvs, logs
<1>5. ASSUME NEW p \in Proc, BootFails(p) PROVE TypesInv'
  BY <1>5 DEF BootFails, db, kvs
<1>6. ASSUME NEW p \in Proc, NEW ok \in BOOLEAN, Listen(p, ok) PROVE TypesInv'
  BY <1>6 DEF Listen, db, kvs, logs
<1>7. ASSUME NEW p \in Proc, NEW ok \in BOOLEAN, Run(p, ok) PROVE TypesInv'
  BY <1>7 DEF Run, db, kvs, logs
<1>8. ASSUME NEW p \in Proc, TurnStarts(p) PROVE TypesInv'
  BY <1>8 DEF TurnStarts, db, kvs, logs
<1>9. ASSUME NEW p \in Proc, TurnEnds(p) PROVE TypesInv'
  BY <1>9 DEF TurnEnds, db, kvs, logs
<1>10. ASSUME NEW p \in Proc, Stop(p) PROVE TypesInv'
  BY <1>10 DEF Stop, db, kvs, logs
<1>11. ASSUME NEW p \in Proc, BudgetEnds(p) PROVE TypesInv'
  BY <1>11 DEF BudgetEnds, db, kvs, logs
<1>12. ASSUME NEW p \in Proc, EngineDown(p) PROVE TypesInv'
  BY <1>12 DEF EngineDown, db, kvs, logs
<1>13. ASSUME NEW p \in Proc, ServerDown(p) PROVE TypesInv'
  BY <1>13 DEF ServerDown, db, kvs
<1>14. ASSUME NEW p \in Proc, Exit(p) PROVE TypesInv'
  BY <1>14 DEF Exit, db, logs
<1>15. ASSUME NEW p \in Proc, Kill(p) PROVE TypesInv'
  BY <1>15 DEF Kill, db
<1>16. ASSUME NEW p \in Proc, LogLine(p) PROVE TypesInv'
  <2>1. CASE Rotated(p)
    BY <1>16, <2>1 DEF LogLine, Rotated, Renames, life, db, kvs
  <2>2. CASE RotatedAway(p)
    BY <1>16, <2>2 DEF LogLine, RotatedAway, Renames, life, db, kvs
  <2>3. CASE NotRotated(p)
    BY <1>16, <2>3 DEF LogLine, NotRotated, life, db, kvs
  <2>4. CASE Appended(p)
    BY <1>16, <2>4 DEF LogLine, Appended, life, db, kvs
  <2>. QED BY <1>16, <2>1, <2>2, <2>3, <2>4 DEF LogLine
<1>17. ASSUME NEW p \in Proc, Set(p) PROVE TypesInv'
  BY <1>17 DEF Set, life, db, logs
<1>18. ASSUME NEW p \in Proc, Snapshot(p) PROVE TypesInv'
  BY <1>18 DEF Snapshot, life, db, logs
<1>19. ASSUME NEW p \in Proc, NEW ok \in BOOLEAN, Written(p, ok) PROVE TypesInv'
  BY <1>19 DEF Written, life, db, logs
<1>20. ASSUME NEW p \in Proc, CloseKV(p) PROVE TypesInv'
  BY <1>20 DEF CloseKV, life, db, logs
<1>21. ASSUME NEW p \in Proc, LogFails(p) PROVE TypesInv'
  BY <1>21 DEF LogFails, life, db, kvs
<1>22. CASE UNCHANGED vars
  BY <1>22 DEF vars, life, db, kvs, logs
<1>. QED
  BY <1>1, <1>2, <1>3, <1>4, <1>5, <1>6, <1>7, <1>8, <1>9, <1>10, <1>11, <1>12, <1>13, <1>14, <1>15, <1>16, <1>17, <1>18, <1>19, <1>20, <1>21, <1>22 DEF Next

-----------------------------------------------------------------------------
(* One process at a time. *)

LEMMA AloneNext ==
  TypesInv /\ AloneInv /\ [Next]_vars => AloneInv'
<1>. SUFFICES ASSUME TypesInv, AloneInv, [Next]_vars PROVE AloneInv'
  OBVIOUS
<1>1. start' = start /\ pc \in [Proc -> Stages]
  BY DEF TypesInv, TypeOK, Next, vars, Boot, ReadVersion, ApplyMigration, Migrated, BootFails, Listen,
         Run, TurnStarts, TurnEnds, Stop, BudgetEnds, EngineDown, ServerDown, Exit, Kill, LogLine,
         LogFails, Set, Snapshot, Written, CloseKV
<1>2. CASE \E p \in Proc, m \in {"tui", "serve"} : Boot(p, m)
  <2>1. PICK p \in Proc : (start.together \/ Alone(p)) /\ pc' = [pc EXCEPT ![p] = "log"]
    BY <1>2 DEF Boot, Goto
  <2>. QED BY <1>1, <2>1 DEF AloneInv, Alone
<1>3. CASE \A p \in Proc : pc[p] = "off" => pc'[p] = "off"
  BY <1>1, <1>3 DEF AloneInv
<1>4. CASE UNCHANGED vars
  BY <1>1, <1>4 DEF AloneInv, vars, life
<1>5. CASE \E p \in Proc : \/ ReadVersion(p) \/ ApplyMigration(p) \/ Migrated(p) \/ BootFails(p)
                           \/ TurnStarts(p) \/ TurnEnds(p) \/ Stop(p) \/ BudgetEnds(p)
                           \/ EngineDown(p) \/ ServerDown(p) \/ Exit(p) \/ Kill(p) \/ LogLine(p)
                           \/ LogFails(p) \/ Set(p) \/ Snapshot(p) \/ CloseKV(p)
                           \/ \E ok \in BOOLEAN : Written(p, ok)
  <2>1. \A p \in Proc : pc[p] = "off" => pc'[p] = "off"
    BY <1>1, <1>5 DEF ReadVersion, ApplyMigration, Migrated, BootFails, TurnStarts, TurnEnds, Stop,
         BudgetEnds, EngineDown, ServerDown, Exit, Kill, LogLine, LogFails, Set, Snapshot, Written, CloseKV,
         Goto, life
  <2>. QED BY <1>3, <2>1
<1>6. CASE \E p \in Proc, ok \in BOOLEAN : Listen(p, ok) \/ Run(p, ok)
  <2>1. \A p \in Proc : pc[p] = "off" => pc'[p] = "off"
    BY <1>1, <1>6 DEF Listen, Run, Goto
  <2>. QED BY <1>3, <2>1
<1>. QED BY <1>2, <1>4, <1>5, <1>6 DEF Next

-----------------------------------------------------------------------------
(* The database.  Only a migration changes it, and only ReadVersion leads to one. *)

\* What every other step leaves of it.
LEMMA DatabaseStays ==
  ASSUME VersionInv, TypesInv, start' = start, UNCHANGED db,
         \A q \in Proc : pc'[q] = "migrate" => pc[q] = "migrate"
  PROVE  VersionInv'
  BY DEF VersionInv, db

LEMMA VersionNext ==
  TypesInv /\ AloneInv /\ VersionInv /\ (~start.together \/ Repeatable = {}) /\ [Next]_vars
    => VersionInv'
<1>. SUFFICES ASSUME TypesInv, AloneInv, VersionInv, ~start.together \/ Repeatable = {}, [Next]_vars
              PROVE  VersionInv'
  OBVIOUS
<1>1. /\ pc \in [Proc -> Stages] /\ cur \in [Proc -> 0 .. Newest]
      /\ version \in Nat /\ \A q \in Proc : cur[q] \in Nat
  BY DataAssumption DEF TypesInv, TypeOK
<1>2. ASSUME NEW p \in Proc, ReadVersion(p) PROVE VersionInv'
  <2>1. /\ UNCHANGED <<start, version, applied>>
        /\ pc' = [pc EXCEPT ![p] = "migrate"] /\ cur' = [cur EXCEPT ![p] = version]
    BY <1>2 DEF ReadVersion, Goto
  <2>. QED BY <1>1, <2>1 DEF VersionInv
<1>3. ASSUME NEW p \in Proc, ApplyMigration(p) PROVE VersionInv'
  <2>1. /\ UNCHANGED <<start, pc>>
        /\ pc[p] = "migrate" /\ cur[p] + 1 \notin applied \ Repeatable
        /\ applied' = applied \cup {cur[p] + 1}
        /\ version' = cur[p] + 1
        /\ cur' = [cur EXCEPT ![p] = cur[p] + 1]
    BY <1>3 DEF ApplyMigration, life
  <2>2. cur[p] = version
    <3>1. CASE ~start.together
      BY <2>1, <3>1 DEF VersionInv
    <3>2. CASE Repeatable = {}
      <4>1. cur[p] + 1 \notin 1 .. version /\ cur[p] =< version
        BY <2>1, <3>2 DEF VersionInv
      <4>. QED BY <1>1, <4>1
    <3>. QED BY <3>1, <3>2
  <2>3. applied' = 1 .. version'
    <3>1. applied' = (1 .. version) \cup {version + 1} /\ version' = version + 1
      BY <2>1, <2>2 DEF VersionInv
    <3>. QED BY <1>1, <3>1
  <2>4. \A q \in Proc : pc'[q] = "migrate" => cur'[q] =< version'
    BY <1>1, <2>1, <2>2 DEF VersionInv
  <2>5. ~start.together => \A q \in Proc : pc'[q] = "migrate" => cur'[q] = version'
    <3>1. ~start.together => \A q \in Proc : pc'[q] = "migrate" => q = p
      BY <2>1 DEF AloneInv
    <3>. QED BY <1>1, <2>1, <3>1
  <2>. QED BY <2>1, <2>3, <2>4, <2>5 DEF VersionInv
<1>4. CASE \E p \in Proc : \/ Migrated(p) \/ BootFails(p)
                           \/ TurnStarts(p) \/ TurnEnds(p) \/ Stop(p) \/ BudgetEnds(p)
                           \/ EngineDown(p) \/ ServerDown(p) \/ Exit(p) \/ Kill(p) \/ LogLine(p)
                           \/ LogFails(p) \/ Set(p) \/ Snapshot(p) \/ CloseKV(p)
                           \/ \E ok \in BOOLEAN : Written(p, ok)
  <2>1. /\ start' = start /\ UNCHANGED db
        /\ \A q \in Proc : pc'[q] = "migrate" => pc[q] = "migrate"
    BY <1>1, <1>4 DEF Migrated, BootFails, TurnStarts, TurnEnds, Stop, BudgetEnds, EngineDown,
         ServerDown, Exit, Kill, LogLine, LogFails, Set, Snapshot, Written, CloseKV, Goto, life
  <2>. QED BY <2>1, DatabaseStays
<1>5. CASE \E p \in Proc : \/ \E m \in {"tui", "serve"} : Boot(p, m)
                           \/ \E ok \in BOOLEAN : Listen(p, ok) \/ Run(p, ok)
  <2>1. /\ start' = start /\ UNCHANGED db
        /\ \A q \in Proc : pc'[q] = "migrate" => pc[q] = "migrate"
    BY <1>1, <1>5 DEF Boot, Listen, Run, Goto
  <2>. QED BY <2>1, DatabaseStays
<1>6. CASE UNCHANGED vars
  BY <1>6, DatabaseStays DEF vars, life
<1>. QED BY <1>2, <1>3, <1>4, <1>5, <1>6 DEF Next

-----------------------------------------------------------------------------
(* The key-value store and the log. *)

LEMMA RestNext ==
  TypesInv /\ RestInv /\ [Next]_vars => RestInv'
<1>. SUFFICES ASSUME TypesInv, RestInv, [Next]_vars PROVE RestInv'
  OBVIOUS
<1>1. /\ pc \in [Proc -> Stages] /\ kv \in [Proc -> {"off", "run", "done"}]
      /\ writing \in [Proc -> {None} \cup (0 .. MaxSets)]
      /\ handle \in [Proc -> Handles]
  BY DEF TypesInv, TypeOK
<1>2. CASE \E p \in Proc : \/ \E m \in {"tui", "serve"} : Boot(p, m)
                           \/ \E ok \in BOOLEAN : Listen(p, ok)
                           \/ ReadVersion(p) \/ ApplyMigration(p) \/ Migrated(p)
  BY <1>1, <1>2 DEF RestInv, Boot, Listen, ReadVersion, ApplyMigration, Migrated, OpenLog, Goto,
     kvs, logs, life
<1>3. CASE \E p \in Proc, ok \in BOOLEAN : Run(p, ok)
  BY <1>1, <1>3 DEF RestInv, Run, Goto, kvs, logs
<1>4. CASE \E p \in Proc : BootFails(p) \/ ServerDown(p) \/ Exit(p) \/ Kill(p)
  <2>1. PICK p \in Proc : BootFails(p) \/ ServerDown(p) \/ Exit(p) \/ Kill(p)
    BY <1>4
  <2>2. CASE BootFails(p) \/ ServerDown(p)
    BY <1>1, <2>2 DEF RestInv, BootFails, ServerDown, Goto, CloseLog, kvs
  <2>3. CASE Exit(p)
    BY <1>1, <2>3 DEF RestInv, Exit, Goto, logs
  <2>4. CASE Kill(p)
    BY <1>1, <2>4 DEF RestInv, Kill, Goto, CloseLog
  <2>. QED BY <2>1, <2>2, <2>3, <2>4
<1>5. CASE \E p \in Proc : TurnStarts(p) \/ TurnEnds(p) \/ Stop(p) \/ BudgetEnds(p) \/ EngineDown(p)
  BY <1>1, <1>5 DEF RestInv, TurnStarts, TurnEnds, Stop, BudgetEnds, EngineDown, Goto, kvs, logs
<1>6. CASE \E p \in Proc : LogLine(p)
  <2>1. PICK p \in Proc : LogLine(p)
    BY <1>6
  <2>2. pc' = pc /\ kv' = kv /\ writing' = writing /\ pc[p] \notin {"closed", "off"}
    BY <2>1 DEF LogLine, Logs, life, kvs
  <2>3. \A q \in Proc : pc[q] \in {"closed", "off"} => handle'[q] = handle[q]
    BY <1>1, <2>1, <2>2 DEF LogLine, Rotated, RotatedAway, NotRotated, Renames, Appended, RestInv
  <2>. QED BY <2>2, <2>3 DEF RestInv
<1>7. CASE \E p \in Proc : Set(p) \/ Snapshot(p) \/ CloseKV(p)
  BY <1>1, <1>7 DEF RestInv, Set, Snapshot, CloseKV, life, logs
<1>8. CASE \E p \in Proc, ok \in BOOLEAN : Written(p, ok)
  BY <1>1, <1>8 DEF RestInv, Written, life, logs
<1>9. CASE \E p \in Proc : LogFails(p)
  BY <1>1, <1>9 DEF RestInv, LogFails, CloseLog, life, kvs
<1>10. CASE UNCHANGED vars
  BY <1>10 DEF RestInv, vars, life, kvs, logs
<1>. QED BY <1>2, <1>3, <1>4, <1>5, <1>6, <1>7, <1>8, <1>9, <1>10 DEF Next

LEMMA KeptNext ==
  TypesInv /\ AloneInv /\ RestInv /\ StoreInv /\ ~start.together /\ [Next]_vars => StoreInv'
<1>. SUFFICES ASSUME TypesInv, AloneInv, RestInv, StoreInv, ~start.together, [Next]_vars
              PROVE  StoreInv'
  OBVIOUS
<1>1. /\ kv \in [Proc -> {"off", "run", "done"}] /\ store \in [Proc -> 0 .. MaxSets]
      /\ writing \in [Proc -> {None} \cup (0 .. MaxSets)]
      /\ None \notin 0 .. MaxSets
      /\ missed \in [Proc -> BOOLEAN]
  BY DataAssumption DEF TypesInv, TypeOK
<1>2. CASE UNCHANGED <<store, kv, writing, file, missed>>
  BY <1>2 DEF StoreInv
<1>3. ASSUME NEW p \in Proc, NEW ok \in BOOLEAN, Run(p, ok) PROVE StoreInv'
  BY <1>1, <1>2, <1>3 DEF StoreInv, Run, kvs
<1>4. ASSUME NEW p \in Proc, Exit(p) \/ Kill(p) PROVE StoreInv'
  <2>1. /\ UNCHANGED <<store, file, missed>> /\ kv' = [kv EXCEPT ![p] = "off"]
        /\ \A q \in Proc : q # p => writing'[q] = writing[q]
    BY <1>1, <1>4 DEF Exit, Kill
  <2>. QED BY <1>1, <2>1 DEF StoreInv
<1>5. ASSUME NEW p \in Proc, Set(p) PROVE StoreInv'
  BY <1>1, <1>5 DEF StoreInv, Set
<1>6. ASSUME NEW p \in Proc, Snapshot(p) PROVE StoreInv'
  BY <1>1, <1>6 DEF StoreInv, Snapshot
<1>7. ASSUME NEW p \in Proc, NEW ok \in BOOLEAN, Written(p, ok) PROVE StoreInv'
  <2>1. \A q \in Proc : q # p => kv[q] = "off"
    BY <1>7 DEF Written, AloneInv, RestInv
  <2>2. UNCHANGED <<kv, store>> /\ writing'[p] = None /\ missed'[p] = ~ok
        /\ (ok => file' = writing[p])
    BY <1>1, <1>7 DEF Written
  <2>3. kv[p] = "done" => writing[p] = store[p]
    BY <1>7 DEF StoreInv, Written
  <2>. QED BY <1>1, <2>1, <2>2, <2>3 DEF StoreInv
<1>8. ASSUME NEW p \in Proc, CloseKV(p) PROVE StoreInv'
  BY <1>1, <1>8 DEF StoreInv, CloseKV
<1>9. CASE \E p \in Proc : \/ \E m \in {"tui", "serve"} : Boot(p, m)
                           \/ \E ok \in BOOLEAN : Listen(p, ok)
                           \/ ReadVersion(p) \/ ApplyMigration(p) \/ Migrated(p) \/ BootFails(p)
                           \/ TurnStarts(p) \/ TurnEnds(p) \/ Stop(p) \/ BudgetEnds(p)
                           \/ EngineDown(p) \/ ServerDown(p) \/ LogLine(p) \/ LogFails(p)
  <2>1. UNCHANGED kvs
    BY <1>9 DEF Boot, Listen, ReadVersion, ApplyMigration, Migrated, BootFails, TurnStarts,
       TurnEnds, Stop, BudgetEnds, EngineDown, ServerDown, LogLine, LogFails
  <2>. QED BY <1>2, <2>1 DEF kvs
<1>10. CASE UNCHANGED vars
  BY <1>2, <1>10 DEF vars, kvs
<1>. QED BY <1>3, <1>4, <1>5, <1>6, <1>7, <1>8, <1>9, <1>10 DEF Next

LEMMA LogNext ==
  TypesInv /\ AloneInv /\ RestInv /\ LogInv /\ ~start.together /\ [Next]_vars => LogInv'
<1>. SUFFICES ASSUME TypesInv, AloneInv, RestInv, LogInv, ~start.together, [Next]_vars
              PROVE  LogInv'
  OBVIOUS
<1>1. /\ handle \in [Proc -> Handles] /\ size \in [Proc -> Nat] /\ active \in Nat
      /\ LogLimit \in Nat \ {0}
  BY DataAssumption DEF TypesInv, TypeOK
<1>2. CASE UNCHANGED <<active, handle, size, overdue>>
  BY <1>2 DEF LogInv
<1>3. CASE \E p \in Proc, m \in {"tui", "serve"} : Boot(p, m)
  BY <1>1, <1>3 DEF LogInv, Boot, OpenLog
<1>4. CASE \E p \in Proc : BootFails(p) \/ ServerDown(p) \/ Kill(p) \/ LogFails(p)
  BY <1>1, <1>4 DEF LogInv, BootFails, ServerDown, Kill, LogFails, CloseLog
<1>5. ASSUME NEW p \in Proc, LogLine(p) PROVE LogInv'
  <2>1. \A q \in Proc : q # p => handle[q] = "none"
    BY <1>5 DEF LogLine, Logs, AloneInv, RestInv
  <2>2. CASE Rotated(p) \/ RotatedAway(p) \/ NotRotated(p)
    <3>1. CASE Rotated(p)
      BY <1>1, <2>1, <3>1 DEF LogInv, Rotated, Renames
    <3>2. CASE RotatedAway(p)
      BY <1>1, <2>1, <3>2 DEF LogInv, RotatedAway, Renames
    <3>3. CASE NotRotated(p)
      BY <1>1, <2>1, <3>3 DEF LogInv, NotRotated
    <3>. QED BY <2>2, <3>1, <3>2, <3>3
  <2>3. CASE Appended(p) /\ (IF handle[p] = "none" THEN active ELSE size[p]) + 1 =< LogLimit
    <3>1. handle[p] = "active" => size[p] = active
      BY DEF LogInv
    <3>2. handle[p] \in {"none", "active"}
      BY DEF LogInv
    <3>3. active' = active + 1 /\ handle' = [handle EXCEPT ![p] = "active"]
      BY <1>1, <2>3, <3>2 DEF Appended
    <3>4. size' = [size EXCEPT ![p] = active + 1]
      BY <1>1, <2>3, <3>1, <3>2 DEF Appended
    <3>5. active + 1 =< LogLimit
      BY <2>3, <3>1, <3>2
    <3>. QED BY <1>1, <2>1, <3>3, <3>4, <3>5 DEF LogInv
  <2>. QED
    <3>1. (IF handle[p] = "none" THEN active ELSE size[p]) + 1 \in Nat
      BY <1>1
    <3>. QED BY <1>1, <1>5, <2>2, <2>3, <3>1 DEF LogLine
<1>6. CASE \E p \in Proc : \/ \E ok \in BOOLEAN : Listen(p, ok) \/ Run(p, ok)
                           \/ ReadVersion(p) \/ ApplyMigration(p) \/ Migrated(p)
                           \/ TurnStarts(p) \/ TurnEnds(p) \/ Stop(p) \/ BudgetEnds(p)
                           \/ EngineDown(p) \/ Exit(p)
                           \/ Set(p) \/ Snapshot(p) \/ CloseKV(p)
                           \/ \E ok \in BOOLEAN : Written(p, ok)
  <2>1. UNCHANGED logs
    BY <1>6 DEF Listen, Run, ReadVersion, ApplyMigration, Migrated, TurnStarts, TurnEnds, Stop,
       BudgetEnds, EngineDown, Exit, Set, Snapshot, Written, CloseKV
  <2>. QED BY <1>2, <2>1 DEF logs
<1>7. CASE UNCHANGED vars
  BY <1>2, <1>7 DEF vars, logs
<1>. QED BY <1>3, <1>4, <1>5, <1>6, <1>7 DEF Next

-----------------------------------------------------------------------------
(* The theorems. *)

LEMMA DataInit ==
  Init => DataInv
<1>. SUFFICES ASSUME Init PROVE DataInv
  OBVIOUS
<1>1. TypesInv
  BY TypedInit
<1>2. AloneInv /\ RestInv
  BY DEF Init, AloneInv, RestInv
<1>3. VersionInv
  BY DEF Init, VersionInv
<1>4. StoreInv /\ LogInv
  BY DataAssumption DEF Init, StoreInv, LogInv
<1>. QED BY <1>1, <1>2, <1>3, <1>4 DEF DataInv

LEMMA DataNext ==
  DataInv /\ [Next]_vars => DataInv'
<1>. SUFFICES ASSUME DataInv, [Next]_vars PROVE DataInv'
  OBVIOUS
<1>1. start' = start
  BY DEF Next, vars, Boot, ReadVersion, ApplyMigration, Migrated, BootFails, Listen,
         Run, TurnStarts, TurnEnds, Stop, BudgetEnds, EngineDown, ServerDown, Exit, Kill, LogLine,
         LogFails, Set, Snapshot, Written, CloseKV
<1>. QED
  BY <1>1, TypedNext, AloneNext, RestNext, VersionNext, KeptNext, LogNext DEF DataInv

\* For any processes, migrations and limits the variables keep their types, and what a
\* process that boots, logs or closes knows of the shared files is true (see DataInv).
THEOREM DataSafety ==
  Spec => []DataInv
<1>1. Init => DataInv
  BY DataInit
<1>2. DataInv /\ [Next]_vars => DataInv'
  BY DataNext
<1>. QED BY <1>1, <1>2, PTL DEF Spec

\* Killed wherever it is, an upgrade leaves a version that names what was applied, if the
\* processes run one at a time, or if no migration may be applied twice: then a second process
\* that read an older version fails (migrate).
THEOREM SchemaMatchesVersionSafety ==
  Spec => [](~start.together \/ Repeatable = {} => SchemaMatchesVersion)
<1>1. DataInv => (~start.together \/ Repeatable = {} => SchemaMatchesVersion)
  BY DEF DataInv, VersionInv, SchemaMatchesVersion
<1>. QED BY <1>1, DataSafety, PTL

\* One process at a time, killed or not: what was set last is in the file once the store has
\* closed, unless the write of its close failed, and the log keeps within its limit but after
\* a rotation that failed (KV.Close, theme/kv.go; rotatingWriter, log/log.go).
THEOREM FilesHoldSafety ==
  Spec => []FilesHold
<1>1. DataInv => FilesHold
  BY DEF DataInv, StoreInv, LogInv, FilesHold
<1>. QED BY <1>1, DataSafety, PTL

-----------------------------------------------------------------------------
(* The catalogue. *)

\* A file that was never written is Nothing; one that was has an age.
CacheInv ==
  \/ cache = Ct!Nothing
  \/ cache = [kind |-> cache.kind, models |-> cache.models, fresh |-> cache.fresh]

LatestInv == latest = Ct!Nothing \/ latest.kind = "catalogue"

\* What the file holds when nothing else was ever fetched, and every fetch stored.
PureInv == pure => cache.kind \in {"none", "catalogue"}
KnownInv ==
  stored /\ pure /\ latest # Ct!Nothing => cache.kind = "catalogue" /\ cache.models = latest.models

OutageInv == CacheInv /\ LatestInv /\ PureInv /\ KnownInv /\ Ct!CatalogueOutlivesOutage

-----------------------------------------------------------------------------
\* The fields a file and a text keep.
LEMMA TextFields ==
  ASSUME NEW a
  PROVE  Ct!Text(a).kind = a.kind /\ Ct!Text(a).models = a.models
  BY DEF Ct!Text

\* A registry gathered from a catalogue offers its models.
LEMMA GatheredOffers ==
  ASSUME NEW kido, NEW text, text.kind = "catalogue"
  PROVE  "opencode" \in DOMAIN Ct!Gathered(kido, text)
           /\ Ct!Gathered(kido, text)["opencode"] = text.models
  BY DEF Ct!Gathered, Ct!Parses

-----------------------------------------------------------------------------
LEMMA OutageInit == Ct!Init => OutageInv
  BY DEF Ct!Init, OutageInv, CacheInv, LatestInv, PureInv, KnownInv,
         Ct!CatalogueOutlivesOutage, Ct!Nothing

\* The two ways a start goes: with the text it fetched, or with the file alone.
LEMMA FetchingStart ==
  ASSUME OutageInv, NEW kido \in Probes, NEW zen \in Answers,
         Ct!Fetches, Ct!Fetched(zen),
         info' = Ct!Gathered(kido, Ct!Load(zen)),
         Ct!WriteAtomic(zen),
         pure' = (pure /\ (Ct!Fetches /\ Ct!Fetched(zen) => zen.kind = "catalogue")),
         latest' = (IF Ct!Fetches /\ zen.kind = "catalogue" THEN Ct!Text(zen) ELSE latest)
  PROVE  OutageInv'
<1>1. CASE zen.kind # "catalogue"
  <2>1. ~pure' /\ latest' = latest
    BY <1>1
  <2>2. CacheInv'
    BY DEF Ct!WriteAtomic, OutageInv, CacheInv
  <2>. QED
    BY <2>1, <2>2 DEF OutageInv, LatestInv, PureInv, KnownInv, Ct!CatalogueOutlivesOutage
<1>2. CASE zen.kind = "catalogue"
  <2>1. /\ latest' = Ct!Text(zen) /\ (pure' => pure)
        /\ Ct!Text(zen).kind = "catalogue" /\ Ct!Text(zen).models = zen.models
    BY <1>2, TextFields DEF OutageInv, PureInv
  <2>2. latest'.models = zen.models /\ latest'.kind = "catalogue"
    BY <2>1
  <2>3. Ct!Load(zen) = Ct!Text(zen)
    BY DEF Ct!Load
  <2>4. "opencode" \in DOMAIN info' /\ info'["opencode"] = latest'.models
    BY <2>1, <2>3, GatheredOffers
  <2>5. CASE cache' = [kind |-> zen.kind, models |-> zen.models, fresh |-> TRUE]
    <3>1. cache'.kind = "catalogue" /\ cache'.models = zen.models /\ CacheInv'
      BY <1>2, <2>5 DEF CacheInv
    <3>. QED
      BY <2>2, <2>4, <3>1 DEF OutageInv, LatestInv, PureInv, KnownInv, Ct!CatalogueOutlivesOutage
  <2>6. CASE stored' = FALSE /\ cache' = cache
    BY <2>1, <2>2, <2>6 DEF OutageInv, CacheInv, LatestInv, PureInv, KnownInv, Ct!CatalogueOutlivesOutage
  <2>. QED BY <2>5, <2>6 DEF Ct!WriteAtomic
<1>. QED BY <1>1, <1>2

LEMMA StartFromFile ==
  ASSUME OutageInv, NEW kido \in Probes, NEW zen \in Answers,
         ~(Ct!Fetches /\ Ct!Fetched(zen)),
         info' = Ct!Gathered(kido, Ct!Load(zen)),
         UNCHANGED <<cache, stored>>,
         pure' = (pure /\ (Ct!Fetches /\ Ct!Fetched(zen) => zen.kind = "catalogue")),
         latest' = (IF Ct!Fetches /\ zen.kind = "catalogue" THEN Ct!Text(zen) ELSE latest)
  PROVE  OutageInv'
<1>1. latest' = latest /\ (pure' => pure)
  BY DEF Ct!Fetched
<1>2. CacheInv' /\ LatestInv' /\ PureInv' /\ KnownInv'
  BY <1>1 DEF OutageInv, CacheInv, LatestInv, PureInv, KnownInv
<1>3. ASSUME stored', pure', latest' # Ct!Nothing
      PROVE  "opencode" \in DOMAIN info' /\ info'["opencode"] = latest'.models
  <2>1. cache.kind = "catalogue" /\ cache.models = latest.models
    BY <1>1, <1>3 DEF OutageInv, KnownInv
  <2>2. Ct!Load(zen) = Ct!Text(cache)
    BY <2>1 DEF Ct!Load, Ct!Readable
  <2>. QED BY <1>1, <2>1, <2>2, TextFields, GatheredOffers
<1>. QED BY <1>2, <1>3 DEF OutageInv, Ct!CatalogueOutlivesOutage

LEMMA OutageNext == OutageInv /\ [Ct!Next]_(Ct!vars) => OutageInv'
<1>. SUFFICES ASSUME OutageInv, [Ct!Next]_(Ct!vars) PROVE OutageInv'
  OBVIOUS
<1>1. CASE Ct!Start
  <2>1. PICK kido \in Probes, zen \in Answers :
          /\ info' = Ct!Gathered(kido, Ct!Load(zen))
          /\ IF Ct!Fetches /\ Ct!Fetched(zen) THEN Ct!WriteAtomic(zen) ELSE UNCHANGED <<cache, stored>>
          /\ pure' = (pure /\ (Ct!Fetches /\ Ct!Fetched(zen) => zen.kind = "catalogue"))
          /\ latest' = IF Ct!Fetches /\ zen.kind = "catalogue" THEN Ct!Text(zen) ELSE latest
    BY <1>1 DEF Ct!Start
  <2>2. CASE Ct!Fetches /\ Ct!Fetched(zen)
    <3>1. Ct!WriteAtomic(zen)
      BY <2>1, <2>2
    <3>. QED BY <2>1, <2>2, <3>1, FetchingStart
  <2>3. CASE ~(Ct!Fetches /\ Ct!Fetched(zen))
    <3>1. UNCHANGED <<cache, stored>>
      BY <2>1, <2>3
    <3>. QED BY <2>1, <2>3, <3>1, StartFromFile
  <2>. QED BY <2>2, <2>3
<1>2. CASE Ct!Stop
  BY <1>2 DEF Ct!Stop, OutageInv, CacheInv, LatestInv, PureInv, KnownInv, Ct!CatalogueOutlivesOutage
<1>3. CASE Ct!Ages
  <2>1. cache = [kind |-> cache.kind, models |-> cache.models, fresh |-> cache.fresh]
    BY <1>3 DEF Ct!Ages, Ct!Readable, OutageInv, CacheInv, Ct!Nothing
  <2>2. cache' = [kind |-> cache.kind, models |-> cache.models, fresh |-> FALSE]
    BY <1>3, <2>1 DEF Ct!Ages
  <2>. QED
    BY <1>3, <2>2
       DEF Ct!Ages, OutageInv, CacheInv, LatestInv, PureInv, KnownInv, Ct!CatalogueOutlivesOutage
<1>4. CASE Ct!ConfigChanges
  BY <1>4
     DEF Ct!ConfigChanges, OutageInv, CacheInv, LatestInv, PureInv, KnownInv, Ct!CatalogueOutlivesOutage
<1>5. CASE UNCHANGED Ct!vars
  BY <1>5 DEF Ct!vars, OutageInv, CacheInv, LatestInv, PureInv, KnownInv, Ct!CatalogueOutlivesOutage
<1>. QED BY <1>1, <1>2, <1>3, <1>4, <1>5 DEF Ct!Next

\* A server that starts while the catalogue cannot be fetched offers the last one any start
\* has found, whatever the network answered before, as long as each fetch was a catalogue and
\* could be stored (CatalogPolicy.Load, provider/zen.go).
THEOREM OutageSafety == Ct!Spec => []CatalogueOutlivesOutage
<1>1. OutageInv => CatalogueOutlivesOutage
  BY DEF OutageInv, CatalogueOutlivesOutage
<1>. QED BY <1>1, OutageInit, OutageNext, PTL DEF Ct!Spec

-----------------------------------------------------------------------------
(* The profiles. *)

StartStages == {"default", "check", "mark", "marked"}
ProfileStages ==
  StartStages \cup {"idle", "mkdir", "truncate", "write", "remove", "remove active", "fall back"}
Jobs == [id : Id, name : Name \cup {NoName}, start : BOOLEAN]

ProfileTypes ==
  /\ profile \in [Id -> {"none", "bare", "torn", "named"}]
  /\ called \in [Id -> Name \cup {NoName}]
  /\ step \in [Process -> ProfileStages]
  /\ job \in [Process -> Jobs]

\* A command that has run alone runs alone still; only such commands leave things undisturbed.
LoneInv ==
  /\ \A p \in Process : p \in lone /\ step[p] # "idle" =>
       \A q \in Process \ {p} : step[q] = "idle"
  /\ ~disturbed => \A p \in Process : step[p] # "idle" => p \in lone

\* Only a start repairs, and it takes the path to the marker only.
RepairInv ==
  \A p \in Process : /\ job[p].start => step[p] \in StartStages
                     /\ step[p] = "default" => job[p].id = Default

\* What a command can count on that runs alone, on files that are right or that it repairs.
Clean(p) == p \in lone /\ (~disturbed \/ job[p].start)
Usable == marker \in Pf!There \cup {"missing"}
Ready(where, id) ==
  /\ where \in {"mkdir", "truncate", "write", "remove"} => Usable
  /\ where = "remove" => marker # id
  /\ where \in {"check", "mark", "marked"} => id \in Pf!There
ReadyInv == \A p \in Process : Clean(p) /\ step[p] # "idle" => Ready(step[p], job[p].id)

UsableInv == (\A p \in Process : step[p] = "idle") /\ ~disturbed => Usable
CommandInv == LoneInv /\ RepairInv /\ ReadyInv /\ UsableInv
MarkerInv == ProfileTypes /\ CommandInv

LEMMA MarkerInit ==
  Pf!Init => MarkerInv
<1> SUFFICES ASSUME Pf!Init PROVE MarkerInv
  OBVIOUS
<1>1. Pf!NoJob \in Jobs /\ ~Pf!NoJob.start
  BY ProfileAssumption DEF Pf!NoJob, Jobs
<1>2. ProfileTypes
  BY <1>1 DEF Pf!Init, ProfileTypes, ProfileStages
<1>3. CommandInv
  BY <1>1 DEF Pf!Init, CommandInv, LoneInv, RepairInv, ReadyInv, UsableInv, Usable
<1> QED BY <1>2, <1>3 DEF MarkerInv

-----------------------------------------------------------------------------
(* How the bookkeeping of a command moves. *)

\* A command that begins is ready for its first step if it begins alone on files that are
\* right, or is a start.
LEMMA BeginKeeps ==
  ASSUME MarkerInv, NEW p \in Process, NEW where \in ProfileStages \ {"idle"}, NEW id \in Id,
         NEW name \in Name \cup {NoName}, NEW repairs \in BOOLEAN,
         repairs => where \in StartStages, where = "default" => id = Default,
         Usable \/ repairs => Ready(where, id),
         Pf!Begin(p, where, id, name, repairs)
  PROVE  MarkerInv'
<1> DEFINE alone == \A q \in Process \ {p} : step[q] = "idle"
           new == [id |-> id, name |-> name, start |-> repairs]
<1>1. /\ step[p] = "idle" /\ step' = [step EXCEPT ![p] = where]
      /\ job' = [job EXCEPT ![p] = new]
      /\ lone' = (IF alone THEN {p} ELSE {})
      /\ disturbed' = (disturbed \/ ~alone)
      /\ UNCHANGED <<profile, called, marker>>
  BY DEF Pf!Begin, Pf!Idle, Pf!Goes, Pf!files
<1>2. new \in Jobs /\ new.id = id /\ new.start = repairs
  BY DEF Jobs
<1> HIDE DEF new
<1>3. ProfileTypes'
  BY <1>1, <1>2 DEF MarkerInv, ProfileTypes
<1>4. /\ step'[p] = where /\ job'[p] = new
      /\ \A q \in Process \ {p} : step'[q] = step[q] /\ job'[q] = job[q]
  BY <1>1 DEF MarkerInv, ProfileTypes
<1>5. LoneInv'
  BY <1>1, <1>4 DEF MarkerInv, CommandInv, LoneInv
<1>6. RepairInv'
  BY <1>2, <1>4 DEF MarkerInv, CommandInv, RepairInv
<1>7. Ready(where, id) => Ready(where, id)'
  BY <1>1 DEF Ready, Usable, Pf!There
<1>8. ASSUME NEW q \in Process, Clean(q)' PROVE Ready(step[q], job[q].id)'
  <2>1. alone /\ q = p /\ (~disturbed \/ repairs)
    BY <1>1, <1>2, <1>4, <1>8 DEF Clean
  <2>2. Usable \/ repairs
    BY <1>1, <2>1 DEF MarkerInv, CommandInv, UsableInv
  <2>3. Ready(where, id)'
    BY <1>7, <2>2
  <2> QED BY <1>2, <1>4, <2>1, <2>3 DEF Ready
<1>9. ReadyInv'
  BY <1>8 DEF ReadyInv
<1>10. UsableInv'
  BY <1>4 DEF UsableInv
<1> QED BY <1>3, <1>5, <1>6, <1>9, <1>10 DEF MarkerInv, CommandInv

\* A command that goes on is alone still if it was, and no other is ready for anything.
LEMMA StepKeeps ==
  ASSUME MarkerInv, NEW p \in Process, NEW where \in ProfileStages \ {"idle", "default"},
         step[p] # "idle", step' = [step EXCEPT ![p] = where],
         ProfileTypes', UNCHANGED <<lone, disturbed>>,
         job'[p].start = job[p].start,
         \A q \in Process \ {p} : job'[q] = job[q],
         job[p].start => where \in StartStages,
         Clean(p) => Ready(where, job[p].id)'
  PROVE  MarkerInv'
<1>1. step'[p] = where /\ \A q \in Process \ {p} : step'[q] = step[q]
  BY DEF MarkerInv, ProfileTypes
<1>2. LoneInv'
  BY <1>1 DEF MarkerInv, CommandInv, LoneInv
<1>3. RepairInv'
  BY <1>1 DEF MarkerInv, CommandInv, RepairInv
<1>4. ASSUME NEW q \in Process, Clean(q)', step'[q] # "idle" PROVE Ready(step[q], job[q].id)'
  <2>1. CASE q = p
    <3>1. Ready(where, job[p].id)'
      BY <1>4, <2>1 DEF Clean
    <3> QED BY <1>1, <2>1, <3>1 DEF Ready
  <2>2. CASE q # p
    <3>1. q \in lone /\ step[q] # "idle"
      BY <1>1, <1>4, <2>2 DEF Clean
    <3> QED BY <2>2, <3>1 DEF MarkerInv, CommandInv, LoneInv
  <2> QED BY <2>1, <2>2
<1>5. ReadyInv'
  BY <1>4 DEF ReadyInv
<1>6. UsableInv'
  BY <1>1 DEF UsableInv
<1> QED BY <1>2, <1>3, <1>5, <1>6 DEF MarkerInv, CommandInv

\* A command that is done leaves the marker right if it was ready to.
LEMMA FinishKeeps ==
  ASSUME MarkerInv, NEW p \in Process, step[p] # "idle", Pf!Finish(p),
         profile' \in [Id -> {"none", "bare", "torn", "named"}],
         called' \in [Id -> Name \cup {NoName}],
         Clean(p) => Usable'
  PROVE  MarkerInv'
<1>1. /\ step' = [step EXCEPT ![p] = "idle"]
      /\ job' = [job EXCEPT ![p] = Pf!NoJob]
      /\ disturbed' = (disturbed /\ ~(job[p].start /\ p \in lone))
      /\ lone' = lone
  BY DEF Pf!Finish, Pf!Goes
<1>2. Pf!NoJob \in Jobs /\ ~Pf!NoJob.start
  BY ProfileAssumption DEF Pf!NoJob, Jobs
<1>3. ProfileTypes'
  BY <1>1, <1>2 DEF MarkerInv, ProfileTypes, ProfileStages
<1>4. /\ step'[p] = "idle" /\ job'[p] = Pf!NoJob
      /\ \A q \in Process \ {p} : step'[q] = step[q] /\ job'[q] = job[q]
  BY <1>1 DEF MarkerInv, ProfileTypes
<1>5. ~disturbed' => Clean(p)
  BY <1>1 DEF Clean, MarkerInv, CommandInv, LoneInv
<1>6. Clean(p) => \A q \in Process : step'[q] = "idle"
  BY <1>4 DEF Clean, MarkerInv, CommandInv, LoneInv
<1>7. LoneInv'
  BY <1>1, <1>4, <1>5, <1>6 DEF MarkerInv, CommandInv, LoneInv
<1>8. RepairInv'
  BY <1>2, <1>4 DEF MarkerInv, CommandInv, RepairInv
<1>9. ASSUME NEW q \in Process, Clean(q)', step'[q] # "idle" PROVE FALSE
  <2>1. q # p /\ q \in lone /\ step[q] # "idle"
    BY <1>1, <1>4, <1>9 DEF Clean
  <2> QED BY <2>1 DEF MarkerInv, CommandInv, LoneInv
<1>10. ReadyInv'
  BY <1>9 DEF ReadyInv
<1>11. UsableInv'
  BY <1>5 DEF UsableInv
<1> QED BY <1>3, <1>7, <1>8, <1>10, <1>11 DEF MarkerInv, CommandInv

-----------------------------------------------------------------------------
(* The first of the profiles. *)

LEMMA Least ==
  ASSUME NEW T \in SUBSET Nat, T # {}
  PROVE  \E x \in T : \A y \in T : x =< y
<1>1. PICK x \in T : \A y \in T : <<y, x>> \notin OpToRel(<, Nat)
  BY NatLessThanWellFounded, WFMin
<1>2. \A y \in T : ~(y < x)
  BY <1>1 DEF OpToRel
<1> QED BY <1>2

\* Names are ordered, and so are the profiles that go by one: there is a first.
LEMMA FirstIsThere ==
  ASSUME ProfileTypes, Pf!There # {}
  PROVE  Pf!First \in Pf!There
<1>1. \A i \in Pf!There : i \in Id /\ Pf!Effective(i) \in Id \cup Name
  BY DEF ProfileTypes, Pf!There, Pf!Effective
<1> DEFINE known(i) == NameRank[Pf!Effective(i)]
<1>2. \A i \in Pf!There : known(i) \in Nat /\ NameRank[i] \in Nat
  BY <1>1, ProfileAssumption
<1>3. PICK n \in {known(i) : i \in Pf!There} : \A m \in {known(i) : i \in Pf!There} : n =< m
  <2>1. {known(i) : i \in Pf!There} \in SUBSET Nat /\ {known(i) : i \in Pf!There} # {}
    BY <1>2
  <2> QED BY <2>1, Least
<1> DEFINE ties == {i \in Pf!There : known(i) = n}
<1>4. PICK r \in {NameRank[i] : i \in ties} : \A s \in {NameRank[i] : i \in ties} : r =< s
  <2>1. {NameRank[i] : i \in ties} \in SUBSET Nat /\ {NameRank[i] : i \in ties} # {}
    BY <1>2, <1>3
  <2> QED BY <2>1, Least
<1>5. PICK i \in ties : NameRank[i] = r
  BY <1>4
<1>6. \A j \in Pf!There : \/ NameRank[Pf!Effective(i)] < NameRank[Pf!Effective(j)]
                          \/ Pf!Effective(i) = Pf!Effective(j) /\ NameRank[i] =< NameRank[j]
  <2> TAKE j \in Pf!There
  <2>1. known(i) = n /\ known(i) =< known(j) /\ known(i) \in Nat /\ known(j) \in Nat
    BY <1>2, <1>3, <1>5
  <2>2. CASE known(i) = known(j)
    <3>1. Pf!Effective(i) = Pf!Effective(j)
      BY <1>1, <1>5, <2>2, ProfileAssumption
    <3>2. NameRank[i] =< NameRank[j]
      BY <1>4, <1>5, <2>1, <2>2
    <3> QED BY <3>1, <3>2
  <2>3. CASE known(i) # known(j)
    BY <2>1, <2>3
  <2> QED BY <2>2, <2>3
<1>7. i \in Pf!There
  OBVIOUS
<1> QED BY <1>6, <1>7 DEF Pf!First

-----------------------------------------------------------------------------
(* The commands, step by step. *)

LEMMA CommandsKeep ==
  ASSUME MarkerInv, NEW p \in Process, Pf!Commands(p)
  PROVE  MarkerInv'
<1> USE DEF ProfileStages, StartStages
<1>1. ASSUME NEW id \in Id, NEW name \in Name \cup {NoName},
             Pf!Begin(p, "mkdir", id, name, FALSE) \/ Pf!Begin(p, "truncate", id, name, FALSE)
      PROVE  MarkerInv'
  <2>1. \A where \in {"mkdir", "truncate"} : Usable => Ready(where, id)
    BY DEF Ready
  <2> QED BY <1>1, <2>1, BeginKeeps
<1>2. CASE Pf!AddCommand(p)
  BY <1>1, <1>2 DEF Pf!AddCommand, Pf!Add
<1>3. CASE Pf!CopyCommand(p)
  BY <1>1, <1>3 DEF Pf!CopyCommand, Pf!Copy, Pf!Add
<1>4. ASSUME NEW ref, NEW id \in Pf!Resolved(ref)
      PROVE  id \in Id /\ id \in Pf!There
  BY DEF Pf!Resolved, Pf!There
<1>5. CASE Pf!EditCommand(p)
  <2>1. PICK ref \in Pf!Reference, name \in Name \cup {NoName} :
          \E id \in Pf!Resolved(ref) : Pf!Edit(p, id, name)
    BY <1>5 DEF Pf!EditCommand
  <2>2. PICK id \in Pf!Resolved(ref) : Pf!Edit(p, id, name)
    BY <2>1
  <2> QED BY <1>1, <1>4, <2>2 DEF Pf!Edit
<1>6. CASE Pf!UseCommand(p)
  <2>1. PICK ref \in Pf!Reference : \E id \in Pf!Resolved(ref) : Pf!Use(p, id)
    BY <1>6 DEF Pf!UseCommand
  <2>2. PICK id \in Pf!Resolved(ref) : Pf!Use(p, id)
    BY <2>1
  <2>3. id \in Id /\ Ready("mark", id)
    BY <1>4 DEF Ready
  <2>4. Pf!Begin(p, "mark", id, NoName, FALSE)
    BY <2>2 DEF Pf!Use
  <2> QED BY <2>3, <2>4, BeginKeeps
<1>7. CASE Pf!RemoveCommand(p)
  <2>1. PICK ref \in Pf!Reference : \E id \in Pf!Resolved(ref) : Pf!Remove(p, id)
    BY <1>7 DEF Pf!RemoveCommand
  <2>2. PICK id \in Pf!Resolved(ref) : Pf!Remove(p, id)
    BY <2>1
  <2>3. id \in Id
    BY <1>4
  <2>4. CASE marker = id
    <3>1. Pf!Begin(p, "remove active", id, NoName, FALSE) /\ Ready("remove active", id)
      BY <2>2, <2>4 DEF Pf!Remove, Ready
    <3> QED BY <2>3, <3>1, BeginKeeps
  <2>5. CASE marker # id
    <3>1. Pf!Begin(p, "remove", id, NoName, FALSE) /\ (Usable => Ready("remove", id))
      BY <2>2, <2>5 DEF Pf!Remove, Ready
    <3> QED BY <2>3, <3>1, BeginKeeps
  <2> QED BY <2>4, <2>5
<1>8. CASE Pf!Start(p)
  <2>1. Pf!Begin(p, "default", Default, NoName, TRUE) /\ Ready("default", Default)
    BY <1>8 DEF Pf!Start, Ready
  <2> QED BY <2>1, BeginKeeps, ProfileAssumption
<1> QED BY <1>2, <1>3, <1>5, <1>6, <1>7, <1>8 DEF Pf!Commands

\* The steps that leave the marker alone, up to the last of them.
LEMMA FileStepsKeep ==
  ASSUME MarkerInv, NEW p \in Process,
         Pf!MakeDir(p) \/ Pf!Truncate(p) \/ Pf!Write(p) \/ Pf!RemoveAll(p)
  PROVE  MarkerInv'
<1> DEFINE id == job[p].id
<1>1. /\ id \in Id /\ job[p].name \in Name \cup {NoName} /\ step[p] # "idle" /\ marker' = marker
      /\ step[p] \in {"mkdir", "truncate", "write", "remove", "remove active"}
      /\ ~job[p].start
  <2>1. job[p] \in Jobs
    BY DEF MarkerInv, ProfileTypes
  <2>2. step[p] \in {"mkdir", "truncate", "write", "remove", "remove active"} /\ marker' = marker
    BY DEF Pf!MakeDir, Pf!Truncate, Pf!Write, Pf!RemoveAll
  <2> QED BY <2>1, <2>2 DEF Jobs, MarkerInv, CommandInv, RepairInv, StartStages
<1>2. /\ Pf!There \ {id} \subseteq Pf!There' /\ (step[p] \notin {"remove", "remove active"} => Pf!There \subseteq Pf!There')
      /\ profile' \in [Id -> {"none", "bare", "torn", "named"}]
      /\ called' \in [Id -> Name \cup {NoName}]
  BY <1>1 DEF Pf!MakeDir, Pf!Truncate, Pf!Write, Pf!RemoveAll, Pf!There, MarkerInv, ProfileTypes
<1>3. Clean(p) /\ step[p] # "remove active" => Usable'
  <2>1. Clean(p) => Ready(step[p], id)
    BY <1>1 DEF MarkerInv, CommandInv, ReadyInv
  <2> QED BY <1>1, <1>2, <2>1 DEF Ready, Usable
<1>4. CASE Pf!Finish(p) /\ step[p] # "remove active"
  BY <1>1, <1>2, <1>3, <1>4, FinishKeeps
<1>5. ASSUME NEW where \in {"truncate", "write", "fall back"}, Pf!Step(p, where),
             where = "fall back" \/ step[p] # "remove active"
      PROVE  MarkerInv'
  <2>1. step' = [step EXCEPT ![p] = where] /\ UNCHANGED <<job, lone, disturbed>>
    BY <1>5 DEF Pf!Step, Pf!Goes
  <2>2. ProfileTypes'
    BY <1>2, <2>1 DEF MarkerInv, ProfileTypes, ProfileStages
  <2>3. Clean(p) => Ready(where, job[p].id)'
    BY <1>3, <1>5, <2>1 DEF Ready
  <2>4. where \in ProfileStages \ {"idle", "default"}
    BY DEF ProfileStages
  <2> QED BY <1>1, <2>1, <2>2, <2>3, <2>4, StepKeeps
<1>6. \/ Pf!Finish(p) /\ step[p] # "remove active"
      \/ Pf!Step(p, "truncate") /\ step[p] # "remove active"
      \/ Pf!Step(p, "write") /\ step[p] # "remove active"
      \/ Pf!Step(p, "fall back")
  BY DEF Pf!MakeDir, Pf!Truncate, Pf!Write, Pf!RemoveAll
<1> QED BY <1>4, <1>5, <1>6

\* The steps on the way to the marker.
LEMMA MarkerStepsKeep ==
  ASSUME MarkerInv, NEW p \in Process,
         \/ Pf!TruncateMarker(p) \/ Pf!WriteMarker(p) \/ Pf!FallBack(p) \/ Pf!Check(p)
         \/ Pf!MakeDefault(p)
  PROVE  MarkerInv'
<1> DEFINE id == job[p].id
<1>1. /\ id \in Id /\ job[p] = [id |-> id, name |-> job[p].name, start |-> job[p].start]
      /\ job[p].name \in Name \cup {NoName} /\ job[p].start \in BOOLEAN
  <2>1. job[p] \in Jobs
    BY DEF MarkerInv, ProfileTypes
  <2> QED BY <2>1 DEF Jobs
<1>2. Clean(p) /\ step[p] \in {"mark", "marked"} => id \in Pf!There
  BY DEF MarkerInv, CommandInv, ReadyInv, Ready
<1>3. ASSUME NEW where \in {"check", "mark", "marked"}, Pf!Step(p, where), step[p] # "idle",
             profile' \in [Id -> {"none", "bare", "torn", "named"}], called' = called,
             Clean(p) => (id \in Pf!There)'
      PROVE  MarkerInv'
  <2>1. step' = [step EXCEPT ![p] = where] /\ UNCHANGED <<job, lone, disturbed>>
    BY <1>3 DEF Pf!Step, Pf!Goes
  <2>2. where \in ProfileStages \ {"idle", "default"}
    BY DEF ProfileStages, StartStages
  <2>3. ProfileTypes'
    BY <1>3, <2>1, <2>2 DEF MarkerInv, ProfileTypes
  <2>4. Clean(p) => Ready(where, job[p].id)'
    BY <1>3, <2>1 DEF Ready
  <2>5. where \in StartStages
    BY DEF StartStages
  <2> QED BY <1>3, <2>1, <2>2, <2>3, <2>4, <2>5, StepKeeps
<1>4. CASE Pf!TruncateMarker(p)
  <2>1. UNCHANGED <<profile, called, job>> /\ step[p] = "mark" /\ Pf!Step(p, "marked")
    BY <1>4 DEF Pf!TruncateMarker, Pf!Step
  <2>2. Clean(p) => (id \in Pf!There)'
    BY <1>2, <2>1 DEF Pf!There
  <2> QED BY <1>3, <2>1, <2>2 DEF MarkerInv, ProfileTypes, StartStages
<1>5. CASE Pf!WriteMarker(p)
  <2>1. UNCHANGED <<profile, called>> /\ marker' = id /\ step[p] = "marked" /\ Pf!Finish(p)
    BY <1>5 DEF Pf!WriteMarker
  <2>2. Clean(p) => Usable'
    BY <1>2, <2>1 DEF Usable, Pf!There
  <2> QED BY <2>1, <2>2, FinishKeeps DEF MarkerInv, ProfileTypes
<1>6. CASE Pf!FallBack(p)
  <2> DEFINE next == IF Pf!There = {} THEN Default ELSE Pf!First
             resumed == [id |-> next, name |-> job[p].name, start |-> job[p].start]
  <2>1. /\ step[p] = "fall back" /\ step' = [step EXCEPT ![p] = "check"]
        /\ profile' = IF Pf!There = {} THEN [profile EXCEPT ![Default] = "bare"] ELSE profile
        /\ job' = [job EXCEPT ![p] = [@ EXCEPT !.id = next]]
        /\ UNCHANGED <<called, marker, lone, disturbed>>
    BY <1>6 DEF Pf!FallBack, Pf!Goes
  <2>2. next \in Id /\ (Pf!There # {} => next \in Pf!There)
    BY FirstIsThere, ProfileAssumption DEF MarkerInv, Pf!There
  <2>3. next \in Pf!There'
    BY <2>1, <2>2, ProfileAssumption DEF Pf!There, MarkerInv, ProfileTypes
  <2>4. [job[p] EXCEPT !.id = next] = resumed
    BY <1>1
  <2>5. job' = [job EXCEPT ![p] = resumed]
    BY <2>1, <2>4
  <2>6. resumed \in Jobs /\ resumed.id = next /\ resumed.start = job[p].start
    BY <1>1, <2>2 DEF Jobs
  <2> HIDE DEF resumed, next
  <2>7. job'[p] = resumed /\ (\A q \in Process \ {p} : job'[q] = job[q]) /\ job' \in [Process -> Jobs]
    BY <2>5, <2>6 DEF MarkerInv, ProfileTypes
  <2>8. profile' \in [Id -> {"none", "bare", "torn", "named"}]
    BY <2>1 DEF MarkerInv, ProfileTypes
  <2>9. ProfileTypes'
    BY <2>1, <2>7, <2>8 DEF MarkerInv, ProfileTypes, ProfileStages, StartStages
  <2>10. Ready("check", job[p].id)'
    BY <2>3, <2>6, <2>7 DEF Ready
  <2>11. "check" \in StartStages /\ "check" \in ProfileStages \ {"idle", "default"}
    BY DEF ProfileStages, StartStages
  <2> QED BY <2>1, <2>6, <2>7, <2>9, <2>10, <2>11, StepKeeps
<1>7. CASE Pf!Check(p)
  <2>1. UNCHANGED <<profile, called, marker>> /\ step[p] = "check"
    BY <1>7 DEF Pf!Check, Pf!files
  <2>2. CASE id \in Pf!There
    <3>1. Pf!Step(p, "mark") /\ UNCHANGED job
      BY <1>7, <2>2 DEF Pf!Check, Pf!Step
    <3>2. (id \in Pf!There)'
      BY <2>1, <2>2, <3>1 DEF Pf!There
    <3> QED BY <1>3, <2>1, <3>1, <3>2 DEF MarkerInv, ProfileTypes, StartStages
  <2>3. CASE id \notin Pf!There
    <3>1. Pf!Finish(p) /\ ~Clean(p)
      BY <1>7, <2>1, <2>3 DEF Pf!Check, MarkerInv, CommandInv, ReadyInv, Ready
    <3> QED BY <2>1, <3>1, FinishKeeps DEF MarkerInv, ProfileTypes
  <2> QED BY <2>2, <2>3
<1>8. CASE Pf!MakeDefault(p)
  <2>1. /\ step[p] = "default" /\ Pf!Step(p, "check") /\ UNCHANGED <<called, job>>
        /\ profile' = [profile EXCEPT ![Default] = IF @ = "none" THEN "bare" ELSE @]
    BY <1>8 DEF Pf!MakeDefault, Pf!Step
  <2>2. id = Default
    BY <2>1 DEF MarkerInv, CommandInv, RepairInv
  <2>3. profile' \in [Id -> {"none", "bare", "torn", "named"}] /\ (id \in Pf!There)'
    BY <1>1, <2>1, <2>2 DEF MarkerInv, ProfileTypes, Pf!There
  <2> QED BY <1>1, <1>3, <2>1, <2>3
<1> QED BY <1>4, <1>5, <1>6, <1>7, <1>8

LEMMA CrashKeeps ==
  ASSUME MarkerInv, NEW p \in Process, Pf!Crash(p)
  PROVE  MarkerInv'
<1>1. /\ step' = [step EXCEPT ![p] = "idle"] /\ job' = [job EXCEPT ![p] = Pf!NoJob]
      /\ disturbed' /\ step[p] # "idle" /\ UNCHANGED <<profile, called, marker, lone>>
  BY DEF Pf!Crash, Pf!Goes, Pf!Idle, Pf!files
<1>2. Pf!NoJob \in Jobs /\ ~Pf!NoJob.start
  BY ProfileAssumption DEF Pf!NoJob, Jobs
<1>3. ProfileTypes'
  BY <1>1, <1>2 DEF MarkerInv, ProfileTypes, ProfileStages
<1>4. /\ step'[p] = "idle" /\ job'[p] = Pf!NoJob
      /\ \A q \in Process \ {p} : step'[q] = step[q] /\ job'[q] = job[q]
  BY <1>1 DEF MarkerInv, ProfileTypes
<1>5. LoneInv' /\ RepairInv' /\ UsableInv'
  BY <1>1, <1>2, <1>4 DEF MarkerInv, CommandInv, LoneInv, RepairInv, UsableInv
<1>6. ASSUME NEW q \in Process, Clean(q)', step'[q] # "idle" PROVE FALSE
  <2>1. q # p /\ q \in lone /\ step[q] # "idle"
    BY <1>1, <1>4, <1>6 DEF Clean
  <2> QED BY <1>1, <2>1 DEF MarkerInv, CommandInv, LoneInv
<1>7. ReadyInv'
  BY <1>6 DEF ReadyInv
<1> QED BY <1>3, <1>5, <1>7 DEF MarkerInv, CommandInv

LEMMA MarkerNext ==
  MarkerInv /\ [Pf!Next]_(Pf!vars) => MarkerInv'
<1> SUFFICES ASSUME MarkerInv, [Pf!Next]_(Pf!vars) PROVE MarkerInv'
  OBVIOUS
<1>1. ASSUME NEW p \in Process, Pf!Steps(p) PROVE MarkerInv'
  BY <1>1, FileStepsKeep, MarkerStepsKeep DEF Pf!Steps
<1>2. CASE Pf!StartFinds
  <2>1. /\ UNCHANGED <<profile, called, marker, step, job, lone>>
        /\ marker \in Pf!There /\ \A p \in Process : step[p] = "idle"
    BY <1>2 DEF Pf!StartFinds, Pf!Idle, Pf!files
  <2> QED BY <2>1 DEF MarkerInv, ProfileTypes, CommandInv, LoneInv, RepairInv, ReadyInv, UsableInv,
                      Usable, Pf!There
<1>3. CASE UNCHANGED Pf!vars
  <2>1. UNCHANGED <<profile, called, marker, step, job, lone, disturbed>>
    BY <1>3 DEF Pf!vars
  <2> QED BY <2>1 DEF MarkerInv, ProfileTypes, CommandInv, LoneInv, RepairInv, ReadyInv, UsableInv,
                      Ready, Clean, Usable, Pf!There
<1> QED BY <1>1, <1>2, <1>3, CommandsKeep, CrashKeeps DEF Pf!Next

\* Whatever profiles and names there are and however many processes: commands one after the
\* other leave a marker that names a profile, and a start that runs alone repairs what a
\* command that died or raced with another has left (Remove and EnsureActive,
\* config/profile.go).
THEOREM MarkerSafety ==
  Pf!Spec => []MarkerUsable
<1>1. MarkerInv => MarkerUsable
  BY DEF MarkerUsable, MarkerInv, CommandInv, UsableInv, Usable, Pf!MarkerUsable, Pf!Idle
<1> QED BY <1>1, MarkerInit, MarkerNext, PTL DEF Pf!Spec

-----------------------------------------------------------------------------
(* The edits of shared files. *)

\* Induction up to a number, for a set.
LEMMA Induct ==
  ASSUME NEW n \in Nat, NEW Good, 0 \in Good, \A m \in 1 .. n : m - 1 \in Good => m \in Good
  PROVE  \A m \in 0 .. n : m \in Good
<1> DEFINE bad == {m \in Nat : m =< n /\ m \notin Good}
<1> SUFFICES ASSUME bad # {} PROVE FALSE
  OBVIOUS
<1>1. PICK m \in bad : \A j \in bad : m =< j
  BY Least
<1>2. m \in 1 .. n /\ m - 1 \in Nat /\ m - 1 < m
  OBVIOUS
<1>3. m - 1 \in Good
  BY <1>1, <1>2
<1> QED BY <1>2, <1>3

\* All the calls are edits, and no file is edited under two names or by two processes.
Alike ==
  \A c, d \in Call :
    given[c].tool = "edit" /\ (Ft!Target(c) = Ft!Target(d) => Ft!LockOf(c) = Ft!LockOf(d))

FileTypes ==
  /\ given \in Arguments
  /\ stage \in [Call -> {"asked", "locked", "read", "cut", "ok", "refused", "failed"}]
  /\ \A f \in DOMAIN disk : disk[f] \in Seq(Word)
  /\ made \in [Call -> Seq(Word)]

\* fileLock: a process makes one edit at a time under each name.
OneHolds ==
  \A c, d \in Call :
    /\ c # d /\ given[c].tool = "edit" /\ given[d].tool = "edit"
    /\ stage[c] \in Ft!Holding /\ stage[d] \in Ft!Holding
    => Ft!LockOf(c) # Ft!LockOf(d)

\* What an edit has read is what the file holds still when it is cut: the edit would be
\* accepted, and would make the same of it.
ReadsAreFresh ==
  Alike => \A c \in Call : stage[c] = "read" =>
    ~Ft!Refuses(disk, given[c]) /\ made[c] = Ft!Makes(disk, given[c])

\* A file that is cut is there, and nobody fills it that an edit has cut.
CutsExist == \A c \in Call : stage[c] = "cut" => Ft!Target(c) \in DOMAIN disk
CutsAreBare == Alike => \A c \in Call : stage[c] = "cut" => disk[Ft!Target(c)] = <<>>

LockInv == FileTypes /\ OneHolds /\ ReadsAreFresh /\ CutsExist /\ CutsAreBare

LEMMA LockInit ==
  Ft!Init => LockInv
<1> SUFFICES ASSUME Ft!Init PROVE LockInv
  OBVIOUS
<1>1. \A c \in Call : stage[c] = "asked"
  BY DEF Ft!Init
<1>2. FileTypes
  BY TextAssumption DEF Ft!Init, FileTypes
<1> QED BY <1>1, <1>2 DEF LockInv, OneHolds, ReadsAreFresh, CutsExist, CutsAreBare, Ft!Holding

\* An edit looks at its own file only.
LEMMA OwnFile ==
  ASSUME NEW d, NEW e, NEW a,
         FileOf[a.name] \in DOMAIN d <=> FileOf[a.name] \in DOMAIN e,
         FileOf[a.name] \in DOMAIN d => d[FileOf[a.name]] = e[FileOf[a.name]]
  PROVE  /\ Ft!Refuses(d, a) <=> Ft!Refuses(e, a)
         /\ ~Ft!Refuses(d, a) => Ft!Makes(d, a) = Ft!Makes(e, a)
<1>1. CASE FileOf[a.name] \in DOMAIN d
  <2>1. d[FileOf[a.name]] = e[FileOf[a.name]]
    BY <1>1
  <2> QED BY <1>1, <2>1 DEF Ft!Refuses, Ft!Makes
<1>2. CASE FileOf[a.name] \notin DOMAIN d
  BY <1>2 DEF Ft!Refuses, Ft!Makes
<1> QED BY <1>1, <1>2

\* What an edit that is accepted makes is a text.
LEMMA MakesText ==
  ASSUME FileTypes, NEW c \in Call,
         ~Ft!Refuses(disk, given[c]) \/ given[c].tool = "write"
  PROVE  Ft!Makes(disk, given[c]) \in Seq(Word)
<1> DEFINE a == given[c] f == FileOf[given[c].name]
<1>1. a.new \in Word
  BY TextAssumption DEF FileTypes
<1>2. CASE a.tool = "write" \/ a.old = ""
  <2>1. Ft!Makes(disk, a) = <<a.new>>
    BY <1>2 DEF Ft!Makes
  <2> QED BY <1>1, <2>1
<1>3. CASE ~(a.tool = "write" \/ a.old = "")
  <2>1. f \in DOMAIN disk
    BY <1>3 DEF Ft!Refuses
  <2>2. disk[f] \in Seq(Word)
    BY <2>1 DEF FileTypes
  <2>3. Len(disk[f]) \in Nat /\ DOMAIN disk[f] = 1 .. Len(disk[f])
        /\ \A i \in 1 .. Len(disk[f]) : disk[f][i] \in Word
    BY <2>2
  <2>4. Ft!Makes(disk, a) = [i \in DOMAIN disk[f] |-> IF disk[f][i] = a.old THEN a.new ELSE disk[f][i]]
    BY <1>3 DEF Ft!Makes
  <2>5. Ft!Makes(disk, a) \in [1 .. Len(disk[f]) -> Word]
    BY <1>1, <2>3, <2>4
  <2> QED BY <2>3, <2>5
<1> QED BY <1>2, <1>3

\* A step of one call that leaves the disk alone, or changes the file of its target alone.
LEMMA CallKeeps ==
  ASSUME LockInv, NEW c \in Call, NEW to, UNCHANGED given,
         stage[c] # to, stage' = [stage EXCEPT ![c] = to], FileTypes',
         \A d \in Call \ {c} : made'[d] = made[d],
         \/ UNCHANGED disk
         \/ \E text : disk' = Ft!Set(disk, Ft!Target(c), text) /\ stage[c] \in Ft!Holding,
         to \in Ft!Holding /\ given[c].tool = "edit" => stage[c] \in Ft!Holding \/ ~Ft!Locked(c),
         Alike /\ to = "read" => ~Ft!Refuses(disk', given[c]) /\ made'[c] = Ft!Makes(disk', given[c]),
         to = "cut" => Ft!Target(c) \in DOMAIN disk' /\ disk'[Ft!Target(c)] = <<>>
  PROVE  LockInv'
<1>1. stage'[c] = to /\ \A d \in Call \ {c} : stage'[d] = stage[d]
  BY DEF LockInv, FileTypes
<1>2. OneHolds'
  <2> SUFFICES ASSUME NEW a \in Call, NEW b \in Call, a # b,
                      given[a].tool = "edit", given[b].tool = "edit",
                      stage'[a] \in Ft!Holding, stage'[b] \in Ft!Holding
               PROVE  Ft!LockOf(a) # Ft!LockOf(b)
    BY DEF OneHolds, Ft!Holding, Ft!LockOf
  <2>1. ASSUME NEW d \in Call \ {c}, to \in Ft!Holding, stage[d] \in Ft!Holding,
               given[c].tool = "edit", given[d].tool = "edit"
        PROVE  Ft!LockOf(c) # Ft!LockOf(d)
    BY <2>1 DEF LockInv, OneHolds, Ft!Locked
  <2>2. CASE a = c
    BY <1>1, <2>1, <2>2
  <2>3. CASE b = c
    BY <1>1, <2>1, <2>3
  <2>4. CASE a # c /\ b # c
    BY <1>1, <2>4 DEF LockInv, OneHolds
  <2> QED BY <2>2, <2>3, <2>4
<1>3. Alike' <=> Alike
  BY DEF Alike, Ft!Target, Ft!LockOf
<1>4. ASSUME Alike, NEW d \in Call \ {c}, stage[d] \in Ft!Holding
      PROVE  /\ Ft!Target(d) \in DOMAIN disk <=> Ft!Target(d) \in DOMAIN disk'
             /\ Ft!Target(d) \in DOMAIN disk => disk'[Ft!Target(d)] = disk[Ft!Target(d)]
  <2>1. CASE UNCHANGED disk
    BY <2>1
  <2>2. ASSUME NEW text, disk' = Ft!Set(disk, Ft!Target(c), text), stage[c] \in Ft!Holding
        PROVE  /\ Ft!Target(d) \in DOMAIN disk <=> Ft!Target(d) \in DOMAIN disk'
               /\ Ft!Target(d) \in DOMAIN disk => disk'[Ft!Target(d)] = disk[Ft!Target(d)]
    <3>1. Ft!Target(d) # Ft!Target(c)
      BY <1>4, <2>2 DEF Alike, LockInv, OneHolds
    <3> QED BY <2>2, <3>1 DEF Ft!Set
  <2> QED BY <2>1, <2>2
<1>5. ReadsAreFresh'
  <2> SUFFICES ASSUME Alike, NEW d \in Call, stage'[d] = "read"
               PROVE  ~Ft!Refuses(disk', given[d]) /\ made'[d] = Ft!Makes(disk', given[d])
    BY <1>3 DEF ReadsAreFresh
  <2>1. CASE d = c
    BY <1>1, <2>1
  <2>2. CASE d # c
    <3>1. ~Ft!Refuses(disk, given[d]) /\ made'[d] = Ft!Makes(disk, given[d])
      BY <1>1, <2>2 DEF LockInv, ReadsAreFresh
    <3>2. stage[d] \in Ft!Holding
      BY <1>1, <2>2 DEF Ft!Holding
    <3> QED BY <1>4, <2>2, <3>1, <3>2, OwnFile DEF Ft!Target
  <2> QED BY <2>1, <2>2
<1>6. CutsAreBare'
  <2> SUFFICES ASSUME Alike, NEW d \in Call, stage'[d] = "cut"
               PROVE  disk'[Ft!Target(d)] = <<>>
    BY <1>3 DEF CutsAreBare, Ft!Target
  <2>1. CASE d = c
    BY <1>1, <2>1
  <2>2. CASE d # c
    <3>1. Ft!Target(d) \in DOMAIN disk /\ disk[Ft!Target(d)] = <<>>
      BY <1>1, <2>2 DEF LockInv, CutsExist, CutsAreBare
    <3>2. stage[d] \in Ft!Holding
      BY <1>1, <2>2 DEF Ft!Holding
    <3> QED BY <1>4, <2>2, <3>1, <3>2
  <2> QED BY <2>1, <2>2
<1>7. CutsExist'
  <2>1. DOMAIN disk \subseteq DOMAIN disk'
    BY DEF Ft!Set
  <2> QED BY <1>1, <2>1 DEF LockInv, CutsExist, Ft!Target
<1> QED BY <1>2, <1>5, <1>6, <1>7 DEF LockInv

\* A text over another is a text, and over a file that was cut is itself.
LEMMA OverNothing ==
  ASSUME NEW text \in Seq(Word)
  PROVE  /\ Ft!Over(text, <<>>) = text
         /\ \A old \in Seq(Word) : Ft!Over(text, old) \in Seq(Word)
<1>1. Len(text) \in Nat
  OBVIOUS
<1>2. SubSeq(<<>>, Len(text) + 1, Len(<<>>)) = <<>>
  BY <1>1
<1>3. text \o <<>> = text
  OBVIOUS
<1>4. ASSUME NEW old \in Seq(Word) PROVE Ft!Over(text, old) \in Seq(Word)
  <2>1. SubSeq(old, Len(text) + 1, Len(old)) \in Seq(Word)
    BY <1>1
  <2> QED BY <2>1 DEF Ft!Over
<1> QED BY <1>2, <1>3, <1>4 DEF Ft!Over

\* A disk on which one file is set holds texts still.
LEMMA SetTypes ==
  ASSUME FileTypes, NEW f, NEW text \in Seq(Word)
  PROVE  /\ \A g \in DOMAIN Ft!Set(disk, f, text) : Ft!Set(disk, f, text)[g] \in Seq(Word)
         /\ f \in DOMAIN Ft!Set(disk, f, text) /\ Ft!Set(disk, f, text)[f] = text
         /\ DOMAIN disk \subseteq DOMAIN Ft!Set(disk, f, text)
  BY DEF FileTypes, Ft!Set

LEMMA LockNext ==
  LockInv /\ [Ft!Next]_(Ft!vars) => LockInv'
<1> SUFFICES ASSUME LockInv, [Ft!Next]_(Ft!vars) PROVE LockInv'
  OBVIOUS
<1>0. FileTypes
  BY DEF LockInv
<1> USE DEF Ft!Move
<1>1. ASSUME NEW c \in Call, Ft!Lock(c) PROVE LockInv'
  <2>1. /\ stage[c] = "asked" /\ stage' = [stage EXCEPT ![c] = "locked"] /\ ~Ft!Locked(c)
        /\ UNCHANGED <<given, disk, made>>
    BY <1>1 DEF Ft!Lock
  <2>2. FileTypes'
    BY <1>0, <2>1 DEF FileTypes
  <2> QED BY <2>1, <2>2, CallKeeps
<1>2. ASSUME NEW c \in Call, Ft!Read(c) PROVE LockInv'
  <2>1. stage[c] = "locked" /\ UNCHANGED <<given, disk>>
    BY <1>2 DEF Ft!Read
  <2>2. CASE Ft!Refuses(disk, given[c])
    <3>1. stage' = [stage EXCEPT ![c] = "refused"] /\ UNCHANGED made
      BY <1>2, <2>2 DEF Ft!Read
    <3>2. FileTypes'
      BY <1>0, <2>1, <3>1 DEF FileTypes
    <3> QED BY <2>1, <3>1, <3>2, CallKeeps DEF Ft!Holding
  <2>3. CASE ~Ft!Refuses(disk, given[c])
    <3>1. /\ stage' = [stage EXCEPT ![c] = "read"]
          /\ made' = [made EXCEPT ![c] = Ft!Makes(disk, given[c])]
      BY <1>2, <2>3 DEF Ft!Read
    <3>2. Ft!Makes(disk, given[c]) \in Seq(Word)
      BY <1>0, <2>3, MakesText
    <3>3. FileTypes'
      BY <1>0, <2>1, <3>1, <3>2 DEF FileTypes
    <3>4. /\ made'[c] = Ft!Makes(disk', given[c]) /\ ~Ft!Refuses(disk', given[c])
          /\ \A d \in Call \ {c} : made'[d] = made[d]
      BY <1>0, <2>1, <2>3, <3>1 DEF FileTypes
    <3>5. stage[c] \in Ft!Holding /\ stage[c] # "read"
      BY <2>1 DEF Ft!Holding
    <3> QED BY <2>1, <3>1, <3>3, <3>4, <3>5, CallKeeps
  <2> QED BY <2>2, <2>3
<1>3. ASSUME NEW c \in Call, Ft!ReadForDiff(c) PROVE LockInv'
  <2>1. /\ stage[c] = "asked" /\ stage' = [stage EXCEPT ![c] = "read"]
        /\ made' = [made EXCEPT ![c] = Ft!Makes(disk, given[c])]
        /\ given[c].tool = "write" /\ UNCHANGED <<given, disk>>
    BY <1>3 DEF Ft!ReadForDiff
  <2>2. Ft!Makes(disk, given[c]) \in Seq(Word)
    BY <1>0, <2>1, MakesText
  <2>3. FileTypes'
    BY <1>0, <2>1, <2>2 DEF FileTypes
  <2>4. ~Alike /\ given[c].tool # "edit" /\ \A d \in Call \ {c} : made'[d] = made[d]
    BY <1>0, <2>1 DEF Alike, FileTypes
  <2> QED BY <2>1, <2>3, <2>4, CallKeeps
<1>4. ASSUME NEW c \in Call, Ft!Truncate(c) PROVE LockInv'
  <2>1. /\ stage[c] = "read" /\ stage' = [stage EXCEPT ![c] = "cut"]
        /\ disk' = Ft!Set(disk, Ft!Target(c), <<>>) /\ UNCHANGED <<given, made>>
    BY <1>4 DEF Ft!Truncate
  <2>2. <<>> \in Seq(Word)
    OBVIOUS
  <2>3. FileTypes' /\ Ft!Target(c) \in DOMAIN disk' /\ disk'[Ft!Target(c)] = <<>>
    BY <1>0, <2>1, <2>2, SetTypes DEF FileTypes
  <2>4. stage[c] \in Ft!Holding
    BY <2>1 DEF Ft!Holding
  <2> QED BY <2>1, <2>3, <2>4, CallKeeps
<1>5. ASSUME NEW c \in Call, Ft!FillFails(c) PROVE LockInv'
  <2>1. /\ stage[c] = "cut" /\ stage' = [stage EXCEPT ![c] = "failed"]
        /\ UNCHANGED <<given, disk, made>>
    BY <1>5 DEF Ft!FillFails
  <2>2. FileTypes'
    BY <1>0, <2>1 DEF FileTypes
  <2> QED BY <2>1, <2>2, CallKeeps DEF Ft!Holding
<1>6. ASSUME NEW c \in Call, Ft!Fill(c) PROVE LockInv'
  <2>1. /\ stage[c] = "cut" /\ stage' = [stage EXCEPT ![c] = "ok"]
        /\ disk' = Ft!Set(disk, Ft!Target(c), Ft!Over(made[c], disk[Ft!Target(c)]))
        /\ UNCHANGED <<given, made>>
    BY <1>6 DEF Ft!Fill
  <2>2. Ft!Over(made[c], disk[Ft!Target(c)]) \in Seq(Word)
    <3>1. made[c] \in Seq(Word) /\ disk[Ft!Target(c)] \in Seq(Word)
      BY <1>0, <2>1 DEF FileTypes, LockInv, CutsExist
    <3> QED BY <3>1, OverNothing
  <2>3. FileTypes'
    BY <1>0, <2>1, <2>2, SetTypes DEF FileTypes
  <2>4. stage[c] \in Ft!Holding
    BY <2>1 DEF Ft!Holding
  <2> QED BY <2>1, <2>3, <2>4, CallKeeps DEF Ft!Holding
<1>7. CASE UNCHANGED Ft!vars
  BY <1>7 DEF Ft!vars, LockInv, FileTypes, OneHolds, Alike, ReadsAreFresh, CutsExist, CutsAreBare,
               Ft!Target, Ft!LockOf
<1> QED BY <1>1, <1>2, <1>3, <1>4, <1>5, <1>6, <1>7 DEF Ft!Next

\* An edit that fills the file it has cut leaves what it made there, and nothing else.
EditsFill ==
  [][Alike => \A c \in Call :
       Ft!Fill(c) => disk' = Ft!Set(disk, Ft!Target(c), made[c])]_(Ft!vars)

\* For any calls and files: one edit of a process at a time holds the lock of a name; as long
\* as all the calls are edits and no file goes by two names or is shared by two processes,
\* what an edit has read is what the file holds still when it is cut, and the file then holds
\* what the edit has made of that (fileLock around editApply, tool/edit.go).
THEOREM EditsAreAlone ==
  Ft!Spec => [](OneHolds /\ ReadsAreFresh) /\ EditsFill
<1>1. LockInv => OneHolds /\ ReadsAreFresh
  BY DEF LockInv
<1>2. LockInv => [Alike => \A c \in Call :
        Ft!Fill(c) => disk' = Ft!Set(disk, Ft!Target(c), made[c])]_(Ft!vars)
  <2> SUFFICES ASSUME LockInv, Alike, NEW c \in Call, Ft!Fill(c)
               PROVE  disk' = Ft!Set(disk, Ft!Target(c), made[c])
    OBVIOUS
  <2>1. stage[c] = "cut" /\ disk' = Ft!Set(disk, Ft!Target(c), Ft!Over(made[c], disk[Ft!Target(c)]))
    BY DEF Ft!Fill, Ft!Move
  <2>2. disk[Ft!Target(c)] = <<>> /\ made[c] \in Seq(Word)
    BY <2>1 DEF LockInv, CutsAreBare, FileTypes
  <2> QED BY <2>1, <2>2, OverNothing
<1> QED BY <1>1, <1>2, LockInit, LockNext, PTL DEF Ft!Spec, EditsFill

\* Two disks have the same in a file, or both no such file.
Same(d, e, f) ==
  /\ f \in DOMAIN d <=> f \in DOMAIN e
  /\ f \in DOMAIN d => d[f] = e[f]

\* An order of the edits that succeeded.
Ordered(n, order) ==
  /\ n \in Nat /\ IsFiniteSet(Ft!Successes) /\ Cardinality(Ft!Successes) = n
  /\ order \in [1 .. n -> Ft!Successes]
  /\ \A i, j \in 1 .. n : i # j => order[i] # order[j]

\* The disks they make of the first one, each accepted by the one before it.
Chained(n, order, after) ==
  /\ after = [i \in 0 .. n |-> IF i = 0 THEN before ELSE
                Ft!Set(after[i - 1], Ft!Target(order[i]), Ft!Makes(after[i - 1], given[order[i]]))]
  /\ \A i \in 1 .. n : ~Ft!Refuses(after[i - 1], given[order[i]])

SerialSoFar(n, order, after) == Ordered(n, order) /\ Chained(n, order, after)

\* The last disk is the real one but for the files that are cut, and there each edit finds what it
\* was made for.
AgreesWith(d) ==
  /\ \A f : (\A c \in Call : stage[c] = "cut" => Ft!Target(c) # f) => Same(d, disk, f)
  /\ \A c \in Call : stage[c] = "cut" =>
       ~Ft!Refuses(d, given[c]) /\ Ft!Makes(d, given[c]) = made[c]

Whole == Alike /\ \A c \in Call : stage[c] # "failed"

SerialInv ==
  /\ disk = [f \in DOMAIN disk |-> disk[f]] /\ before \in Texts
  /\ Whole => \E n, order, after : SerialSoFar(n, order, after) /\ AgreesWith(after[n])

LEMMA SerialInit == Ft!Init => SerialInv
<1> SUFFICES ASSUME Ft!Init PROVE SerialInv
  OBVIOUS
<1>1. disk = before /\ before \in Texts /\ \A c \in Call : stage[c] = "asked"
  BY DEF Ft!Init
<1>2. disk = [f \in DOMAIN disk |-> disk[f]]
  BY <1>1, TextAssumption
<1>3. Ft!Successes = {}
  BY <1>1 DEF Ft!Successes
<1> DEFINE none == [i \in 1 .. 0 |-> 0]
           zero == [i \in 0 .. 0 |-> before]
<1>4. SerialSoFar(0, none, zero)
  <2>1. IsFiniteSet(Ft!Successes) /\ Cardinality(Ft!Successes) = 0
    BY <1>3, FS_EmptySet
  <2>2. none \in [1 .. 0 -> Ft!Successes]
    OBVIOUS
  <2>3. zero = [i \in 0 .. 0 |-> IF i = 0 THEN before ELSE
                  Ft!Set(zero[i - 1], Ft!Target(none[i]), Ft!Makes(zero[i - 1], given[none[i]]))]
    OBVIOUS
  <2> QED BY <2>1, <2>2, <2>3 DEF SerialSoFar, Ordered, Chained
<1>5. AgreesWith(zero[0])
  BY <1>1 DEF AgreesWith, Same
<1> QED BY <1>1, <1>2, <1>4, <1>5 DEF SerialInv

\* A step before the cut is of no consequence.
LEMMA NoCut ==
  ASSUME LockInv, SerialInv, NEW c \in Call, NEW to, UNCHANGED <<given, before, disk>>,
         stage' = [stage EXCEPT ![c] = to], stage[c] \in {"asked", "locked"},
         to \in {"locked", "read", "refused"}, \A d \in Call \ {c} : made'[d] = made[d]
  PROVE  SerialInv'
<1>1. stage'[c] = to /\ \A d \in Call \ {c} : stage'[d] = stage[d]
  BY DEF LockInv, FileTypes
<1>2. Ft!Successes' = Ft!Successes
  BY <1>1 DEF Ft!Successes
<1>3. Whole' => Whole
  BY <1>1 DEF Whole, Alike, Ft!Target, Ft!LockOf
<1>4. \A n, order, after : SerialSoFar(n, order, after)' <=> SerialSoFar(n, order, after)
  BY <1>2 DEF SerialSoFar, Ordered, Chained, Ft!Target
<1>5. \A d : AgreesWith(d) => AgreesWith(d)'
  <2>1. \A d \in Call : stage'[d] = "cut" <=> stage[d] = "cut"
    BY <1>1
  <2>2. \A d \in Call : stage[d] = "cut" => made'[d] = made[d]
    OBVIOUS
  <2> QED BY <2>1, <2>2 DEF AgreesWith, Ft!Target
<1> QED BY <1>3, <1>4, <1>5 DEF SerialInv

\* Nobody else has cut the file of an edit that holds its lock.
LEMMA OwnTarget ==
  ASSUME LockInv, Alike, NEW c \in Call, NEW d \in Call \ {c},
         stage[c] \in {"read", "cut"}, stage[d] = "cut"
  PROVE  Ft!Target(d) # Ft!Target(c)
  BY DEF LockInv, OneHolds, Alike, Ft!Holding

\* An edit makes the same of disks that have the same in its file.
LEMMA SameMakes ==
  ASSUME NEW d, NEW e, NEW c \in Call, Same(d, e, Ft!Target(c))
  PROVE  /\ Ft!Refuses(d, given[c]) <=> Ft!Refuses(e, given[c])
         /\ ~Ft!Refuses(d, given[c]) => Ft!Makes(d, given[c]) = Ft!Makes(e, given[c])
  BY OwnFile DEF Same, Ft!Target

\* Setting a file leaves the others as they are.
LEMMA SetSame ==
  ASSUME NEW d, NEW e, NEW f, NEW text
  PROVE  /\ \A g : g # f => Same(d, Ft!Set(d, f, text), g)
         /\ \A g : Same(d, e, g) => Same(Ft!Set(d, f, text), Ft!Set(e, f, text), g)
         /\ Same(Ft!Set(d, f, text), Ft!Set(e, f, text), f)
         /\ Ft!Set(d, f, text) = [g \in DOMAIN Ft!Set(d, f, text) |-> Ft!Set(d, f, text)[g]]
  BY DEF Same, Ft!Set

LEMMA SameTransfers ==
  ASSUME NEW d, NEW e, NEW f
  PROVE  /\ Same(d, e, f) => Same(e, d, f)
         /\ \A g : Same(d, e, f) /\ Same(e, g, f) => Same(d, g, f)
  BY DEF Same

\* The cut: what was read is what the edits so far have left.
LEMMA TruncateSerial ==
  ASSUME LockInv, SerialInv, NEW c \in Call, Ft!Truncate(c)
  PROVE  SerialInv'
<1> DEFINE f == Ft!Target(c)
<1>1. /\ stage[c] = "read" /\ stage' = [stage EXCEPT ![c] = "cut"]
      /\ disk' = Ft!Set(disk, f, <<>>) /\ UNCHANGED <<given, before, made>>
  BY DEF Ft!Truncate, Ft!Move
<1>2. stage'[c] = "cut" /\ \A d \in Call \ {c} : stage'[d] = stage[d]
  BY <1>1 DEF LockInv, FileTypes
<1>3. Ft!Successes' = Ft!Successes
  BY <1>1, <1>2 DEF Ft!Successes
<1>4. Whole' => Whole
  BY <1>1, <1>2 DEF Whole, Alike, Ft!Target, Ft!LockOf
<1>5. \A n, order, after : SerialSoFar(n, order, after)' <=> SerialSoFar(n, order, after)
  BY <1>1, <1>3 DEF SerialSoFar, Ordered, Chained, Ft!Target
<1>6. ASSUME Whole, NEW d, AgreesWith(d) PROVE AgreesWith(d)'
  <2>1. Same(d, disk, f)
    BY <1>1, <1>6, OwnTarget DEF AgreesWith, Whole
  <2>2. ~Ft!Refuses(disk, given[c]) /\ made[c] = Ft!Makes(disk, given[c])
    BY <1>1, <1>6 DEF LockInv, ReadsAreFresh, Whole
  <2>3. ~Ft!Refuses(d, given[c]) /\ Ft!Makes(d, given[c]) = made[c]
    BY <2>1, <2>2, SameMakes
  <2>4. \A e \in Call : stage'[e] = "cut" =>
          ~Ft!Refuses(d, given[e]) /\ Ft!Makes(d, given[e]) = made[e]
    BY <1>2, <1>6, <2>3 DEF AgreesWith
  <2>5. ASSUME NEW g, \A e \in Call : stage'[e] = "cut" => Ft!Target(e) # g PROVE Same(d, disk', g)
    <3>1. g # f
      BY <1>2, <2>5
    <3>2. \A e \in Call : stage[e] = "cut" => Ft!Target(e) # g
      BY <1>1, <1>2, <2>5
    <3>3. Same(d, disk, g)
      BY <1>6, <3>2 DEF AgreesWith
    <3>4. Same(disk, disk', g)
      BY <1>1, <3>1, SetSame
    <3> QED BY <3>3, <3>4, SameTransfers
  <2> QED BY <1>1, <2>4, <2>5 DEF AgreesWith, Ft!Target
<1>7. disk' = [g \in DOMAIN disk' |-> disk'[g]]
  BY <1>1, SetSame
<1> QED BY <1>1, <1>4, <1>5, <1>6, <1>7 DEF SerialInv

\* The file is filled: the edit is the last of those that succeeded.
LEMMA FillSerial ==
  ASSUME LockInv, SerialInv, NEW c \in Call, Ft!Fill(c)
  PROVE  SerialInv'
<1> DEFINE f == Ft!Target(c)
<1>1. /\ stage[c] = "cut" /\ stage' = [stage EXCEPT ![c] = "ok"]
      /\ disk' = Ft!Set(disk, f, Ft!Over(made[c], disk[f])) /\ UNCHANGED <<given, before, made>>
  BY DEF Ft!Fill, Ft!Move
<1>2. stage'[c] = "ok" /\ \A d \in Call \ {c} : stage'[d] = stage[d]
  BY <1>1 DEF LockInv, FileTypes
<1>3. disk' = [g \in DOMAIN disk' |-> disk'[g]] /\ before' \in Texts
  BY <1>1, SetSame DEF SerialInv
<1> SUFFICES ASSUME Whole'
             PROVE  \E n, order, after : (SerialSoFar(n, order, after) /\ AgreesWith(after[n]))'
  BY <1>3 DEF SerialInv
<1>4. Whole
  BY <1>1, <1>2 DEF Whole, Alike, Ft!Target, Ft!LockOf
<1>5. disk' = Ft!Set(disk, f, made[c])
  <2>1. disk[f] = <<>> /\ made[c] \in Seq(Word)
    BY <1>1, <1>4 DEF LockInv, CutsAreBare, FileTypes, Whole
  <2> QED BY <1>1, <2>1, OverNothing
<1>6. Ft!Successes' = Ft!Successes \cup {c} /\ c \notin Ft!Successes
  BY <1>1, <1>2 DEF Ft!Successes
<1>7. PICK n, order, after : SerialSoFar(n, order, after) /\ AgreesWith(after[n])
  BY <1>4 DEF SerialInv
<1> DEFINE d == after[n]
<1>13. PICK e : e = Ft!Set(d, f, made[c])
  OBVIOUS
<1>14. PICK orders : orders = [i \in 1 .. n + 1 |-> IF i = n + 1 THEN c ELSE order[i]]
  OBVIOUS
<1>15. PICK afters : afters = [i \in 0 .. n + 1 |-> IF i = n + 1 THEN e ELSE after[i]]
  OBVIOUS
<1>8. ~Ft!Refuses(d, given[c]) /\ Ft!Makes(d, given[c]) = made[c]
  BY <1>1, <1>7 DEF AgreesWith
<1>9. n \in Nat
  BY <1>7 DEF SerialSoFar, Ordered, Chained
<1>10. SerialSoFar(n + 1, orders, afters)'
  <2>1. /\ IsFiniteSet(Ft!Successes') /\ Cardinality(Ft!Successes') = n + 1
    BY <1>6, <1>7, FS_AddElement DEF SerialSoFar, Ordered, Chained
  <2>2. orders \in [1 .. n + 1 -> Ft!Successes']
    BY <1>6, <1>7, <1>9, <1>14 DEF SerialSoFar, Ordered, Chained
  <2>3. ASSUME NEW i \in 1 .. n + 1, NEW j \in 1 .. n + 1, i # j PROVE orders[i] # orders[j]
    <3>1. \A k \in 1 .. n : order[k] \in Ft!Successes /\ orders[k] = order[k] /\ order[k] # c
      BY <1>6, <1>7, <1>9, <1>14 DEF SerialSoFar, Ordered, Chained
    <3>2. orders[n + 1] = c
      BY <1>9, <1>14
    <3>3. \A k \in 1 .. n + 1 : k \in 1 .. n \/ k = n + 1
      BY <1>9
    <3> QED BY <1>7, <2>3, <3>1, <3>2, <3>3 DEF SerialSoFar, Ordered, Chained
  <2>4. /\ afters[n + 1] = e /\ orders[n + 1] = c
        /\ \A i \in 0 .. n : afters[i] = after[i]
        /\ \A i \in 1 .. n : orders[i] = order[i]
    BY <1>9, <1>14, <1>15
  <2>5. /\ \A i \in 0 .. n : after[i] = IF i = 0 THEN before ELSE
              Ft!Set(after[i - 1], Ft!Target(order[i]), Ft!Makes(after[i - 1], given[order[i]]))
        /\ \A i \in 1 .. n : ~Ft!Refuses(after[i - 1], given[order[i]])
    BY <1>7 DEF SerialSoFar, Ordered, Chained
  <2>6. afters = [i \in 0 .. n + 1 |-> afters[i]]
    BY <1>15
  <2>7. ASSUME NEW i \in 0 .. n + 1
        PROVE  afters[i] = IF i = 0 THEN before ELSE
                 Ft!Set(afters[i - 1], Ft!Target(orders[i]), Ft!Makes(afters[i - 1], given[orders[i]]))
    <3>1. CASE i = n + 1
      <4>1. i - 1 = n /\ afters[i - 1] = d /\ orders[i] = c /\ afters[i] = e /\ i # 0
        BY <1>9, <2>4, <3>1
      <4> HIDE DEF d
      <4> QED BY <1>8, <1>13, <4>1
    <3>2. CASE i = 0
      BY <1>9, <2>4, <2>5, <3>2
    <3>3. CASE i \in 1 .. n
      <4>1. i - 1 \in 0 .. n /\ i \in 0 .. n /\ i # 0
        BY <1>9, <3>3
      <4> QED BY <2>4, <2>5, <3>3, <4>1
    <3> QED BY <1>9, <3>1, <3>2, <3>3
  <2>8. afters = [i \in 0 .. n + 1 |-> IF i = 0 THEN before ELSE
          Ft!Set(afters[i - 1], Ft!Target(orders[i]), Ft!Makes(afters[i - 1], given[orders[i]]))]
    BY <2>6, <2>7
  <2>9. ASSUME NEW i \in 1 .. n + 1 PROVE ~Ft!Refuses(afters[i - 1], given[orders[i]])
    <3>1. CASE i = n + 1
      <4>1. i - 1 = n /\ afters[i - 1] = d /\ orders[i] = c
        BY <1>9, <2>4, <3>1
      <4> QED BY <1>8, <4>1
    <3>2. CASE i \in 1 .. n
      <4>1. i - 1 \in 0 .. n
        BY <1>9, <3>2
      <4> QED BY <2>4, <2>5, <3>2, <4>1
    <3> QED BY <1>9, <3>1, <3>2
  <2>10. Ordered(n + 1, orders)'
    BY <1>9, <2>1, <2>2, <2>3 DEF Ordered
  <2>11. Chained(n + 1, orders, afters)
    BY <2>8, <2>9 DEF Chained
  <2>12. Chained(n + 1, orders, afters)' <=> Chained(n + 1, orders, afters)
    BY <1>1 DEF Chained, Ft!Target
  <2> QED BY <2>10, <2>11, <2>12 DEF SerialSoFar
<1>11. AgreesWith(e)'
  <2>1. ASSUME NEW b \in Call, stage'[b] = "cut"
        PROVE  ~Ft!Refuses(e, given[b]) /\ Ft!Makes(e, given[b]) = made[b]
    <3>1. b # c /\ stage[b] = "cut"
      BY <1>2, <2>1
    <3>2. Ft!Target(b) # f
      BY <1>1, <1>4, <3>1, OwnTarget DEF Whole
    <3>3. Same(d, e, Ft!Target(b))
      BY <1>13, <3>2, SetSame
    <3>4. ~Ft!Refuses(d, given[b]) /\ Ft!Makes(d, given[b]) = made[b]
      BY <1>7, <3>1 DEF AgreesWith
    <3> HIDE DEF d
    <3> QED BY <3>3, <3>4, SameMakes
  <2>2. ASSUME NEW g, \A b \in Call : stage'[b] = "cut" => Ft!Target(b) # g
        PROVE  Same(e, disk', g)
    <3>1. CASE g = f
      BY <1>5, <1>13, <3>1, SetSame
    <3>2. CASE g # f
      <4>1. \A b \in Call : stage[b] = "cut" => Ft!Target(b) # g
        BY <1>2, <2>2, <3>2
      <4>2. Same(d, disk, g)
        BY <1>7, <4>1 DEF AgreesWith
      <4> HIDE DEF d
      <4> QED BY <1>5, <1>13, <4>2, SetSame
    <3> QED BY <3>1, <3>2
  <2> QED BY <1>1, <2>1, <2>2 DEF AgreesWith, Ft!Target
<1>12. afters[n + 1] = e
  BY <1>9, <1>15
<1> QED BY <1>10, <1>11, <1>12

LEMMA SerialNext ==
  LockInv /\ SerialInv /\ [Ft!Next]_(Ft!vars) => SerialInv'
<1> SUFFICES ASSUME LockInv, SerialInv, [Ft!Next]_(Ft!vars) PROVE SerialInv'
  OBVIOUS
<1>1. ASSUME NEW c \in Call, Ft!Lock(c) PROVE SerialInv'
  <2>1. /\ stage[c] = "asked" /\ stage' = [stage EXCEPT ![c] = "locked"]
        /\ UNCHANGED <<given, before, disk, made>>
    BY <1>1 DEF Ft!Lock, Ft!Move
  <2> QED BY <2>1, NoCut
<1>2. ASSUME NEW c \in Call, Ft!Read(c) PROVE SerialInv'
  <2>1. /\ stage[c] = "locked" /\ UNCHANGED <<given, before, disk>>
        /\ \E to \in {"refused", "read"} : stage' = [stage EXCEPT ![c] = to]
        /\ \A d \in Call \ {c} : made'[d] = made[d]
    BY <1>2 DEF Ft!Read, Ft!Move, LockInv, FileTypes
  <2> QED BY <2>1, NoCut
<1>3. ASSUME NEW c \in Call, Ft!ReadForDiff(c) PROVE SerialInv'
  <2>1. given[c].tool = "write" /\ UNCHANGED <<given, before, disk>>
    BY <1>3 DEF Ft!ReadForDiff
  <2>2. ~Whole'
    BY <2>1 DEF Whole, Alike
  <2> QED BY <2>1, <2>2 DEF SerialInv
<1>4. ASSUME NEW c \in Call, Ft!FillFails(c) PROVE SerialInv'
  <2>1. stage'[c] = "failed" /\ UNCHANGED <<given, before, disk>>
    BY <1>4 DEF Ft!FillFails, Ft!Move, LockInv, FileTypes
  <2>2. ~Whole'
    BY <2>1 DEF Whole
  <2> QED BY <2>1, <2>2 DEF SerialInv
<1>5. CASE UNCHANGED Ft!vars
  <2>1. UNCHANGED <<given, before, disk, stage, made>>
    BY <1>5 DEF Ft!vars
  <2>2. Whole' <=> Whole
    BY <2>1 DEF Whole, Alike, Ft!Target, Ft!LockOf
  <2>3. \A n, order, after : SerialSoFar(n, order, after)' <=> SerialSoFar(n, order, after)
    BY <2>1 DEF SerialSoFar, Ordered, Chained, Ft!Successes, Ft!Target
  <2>4. \A d : AgreesWith(d)' <=> AgreesWith(d)
    BY <2>1 DEF AgreesWith, Ft!Target
  <2> QED BY <2>1, <2>2, <2>3, <2>4 DEF SerialInv
<1> QED BY <1>1, <1>2, <1>3, <1>4, <1>5, TruncateSerial, FillSerial DEF Ft!Next

\* When all is done, the disk is the last of them.
LEMMA SerialKeeps ==
  ASSUME SerialInv PROVE Ft!EditsAreKept
<1> SUFFICES ASSUME Ft!Settled, Alike PROVE Ft!Serial
  BY DEF Ft!EditsAreKept, Alike
<1>1. Whole /\ \A c \in Call : stage[c] # "cut"
  BY DEF Whole, Ft!Settled
<1>2. PICK n, order, after : SerialSoFar(n, order, after) /\ AgreesWith(after[n])
  BY <1>1 DEF SerialInv
<1>3. n \in Nat /\ Cardinality(Ft!Successes) = n /\ order \in [1 .. n -> Ft!Successes]
      /\ \A i, j \in 1 .. n : i # j => order[i] # order[j]
  BY <1>2 DEF SerialSoFar, Ordered, Chained
<1>4. order \in Ft!SetToSeqs(Ft!Successes) /\ Len(order) = n
  <2>1. Ft!Cardinality(Ft!Successes) = Cardinality(Ft!Successes)
    BY DEF Cardinality, Ft!Cardinality
  <2> QED BY <1>3, <2>1 DEF Ft!SetToSeqs
<1> DEFINE next(a, i) == Ft!Set(a[i - 1], Ft!Target(order[i]), Ft!Makes(a[i - 1], given[order[i]]))
           chosen == CHOOSE a : a = [i \in 0 .. Len(order) |-> IF i = 0 THEN before ELSE next(a, i)]
<1>5. after = [i \in 0 .. Len(order) |-> IF i = 0 THEN before ELSE next(after, i)]
  BY <1>2, <1>4 DEF SerialSoFar, Ordered, Chained
<1>6. chosen = [i \in 0 .. Len(order) |-> IF i = 0 THEN before ELSE next(chosen, i)]
  BY <1>5, Zenon
<1> HIDE DEF chosen
<1>7. \A i \in 0 .. n : chosen[i] = after[i]
  <2> DEFINE Good == {i \in 0 .. n : chosen[i] = after[i]}
  <2>1. 0 \in Good
    BY <1>3, <1>4, <1>5, <1>6
  <2>2. \A i \in 1 .. n : i - 1 \in Good => i \in Good
    BY <1>3, <1>4, <1>5, <1>6
  <2> HIDE DEF Good
  <2>3. \A i \in 0 .. n : i \in Good
    BY <1>3, <2>1, <2>2, Induct
  <2> QED BY <2>3 DEF Good
<1>8. after[n] = disk
  <2>1. \A f : Same(after[n], disk, f)
    BY <1>1, <1>2 DEF AgreesWith
  <2>2. DOMAIN after[n] = DOMAIN disk /\ \A f \in DOMAIN disk : after[n][f] = disk[f]
    BY <2>1 DEF Same
  <2>3. after[n] = [f \in DOMAIN after[n] |-> after[n][f]]
    <3>1. CASE n = 0
      <4>1. after[n] = before
        BY <1>3, <1>5, <3>1
      <4> QED BY <4>1, TextAssumption DEF SerialInv
    <3>2. CASE n # 0
      <4>1. after[n] = next(after, n)
        BY <1>3, <1>4, <1>5, <3>2
      <4> QED BY <4>1, SetSame
    <3> QED BY <3>1, <3>2
  <2>4. disk = [f \in DOMAIN disk |-> disk[f]]
    BY DEF SerialInv
  <2> QED BY <2>2, <2>3, <2>4
<1>9. \A i \in 1 .. n : ~Ft!Refuses(chosen[i - 1], given[order[i]])
  <2>1. Chained(n, order, after)
    BY <1>2 DEF SerialSoFar
  <2>2. \A i \in 1 .. n : ~Ft!Refuses(after[i - 1], given[order[i]])
    BY <2>1, Zenon DEF Chained
  <2>3. \A i \in 1 .. n : i - 1 \in 0 .. n
    BY <1>3
  <2> QED BY <1>7, <2>2, <2>3
<1>10. chosen[n] = disk
  BY <1>3, <1>7, <1>8
<1> QED BY <1>4, <1>9, <1>10 DEF Ft!Serial, chosen

\* For any calls and files: once every call is done, if all of them are edits and no file goes
\* by two names, what they left is what they make one after the other, each accepted
\* (fileLock around editApply, tool/edit.go).
THEOREM EditsAreSerial == Ft!Spec => []EditsAreKept
  BY LockInit, LockNext, SerialInit, SerialNext, SerialKeeps, PTL DEF Ft!Spec, EditsAreKept

-----------------------------------------------------------------------------
(* The patches of the configuration. *)

\* f starts with base, and its m-th value is what g[m] makes of the one before.
Folds(g, n, S) == n \in Nat /\ g \in [1 .. n -> [S -> S]]
Folded(f, base, g, n, S) ==
  f \in [0 .. n -> S] /\ f[0] = base /\ \A m \in 1 .. n : f[m] = g[m][f[m - 1]]

\* There is such an f, although a recursive function is defined as a choice of one.
LEMMA Recursion ==
  ASSUME NEW S, NEW base \in S, NEW n, NEW g, Folds(g, n, S)
  PROVE  \E f : Folded(f, base, g, n, S)
<1> USE DEF Folds
<1> DEFINE upTo(k) ==
      \E f \in [0 .. k -> S] : f[0] = base /\ \A m \in 1 .. k : f[m] = g[m][f[m - 1]]
<1>1. upTo(0)
  <2> WITNESS [m \in 0 .. 0 |-> base] \in [0 .. 0 -> S]
  <2> QED OBVIOUS
<1>2. ASSUME NEW k \in Nat, k < n, upTo(k) PROVE upTo(k + 1)
  <2>1. PICK f \in [0 .. k -> S] : f[0] = base /\ \A m \in 1 .. k : f[m] = g[m][f[m - 1]]
    BY <1>2
  <2> DEFINE next == [m \in 0 .. k + 1 |-> IF m = k + 1 THEN g[k + 1][f[k]] ELSE f[m]]
  <2>2. f[k] \in S /\ k + 1 \in 1 .. n
    BY <1>2
  <2>3. g[k + 1][f[k]] \in S
    BY <2>2
  <2>4. next \in [0 .. k + 1 -> S]
    BY <2>3
  <2>5. ASSUME NEW m \in 1 .. k + 1 PROVE next[m] = g[m][next[m - 1]]
    <3>1. CASE m = k + 1
      <4>1. next[k + 1] = g[k + 1][f[k]] /\ next[k] = f[k] /\ k + 1 - 1 = k
        OBVIOUS
      <4> HIDE DEF next
      <4> QED BY <3>1, <4>1
    <3>2. CASE m # k + 1
      <4>1. m \in 1 .. k /\ m \in 0 .. k + 1 /\ m - 1 \in 0 .. k + 1 /\ m - 1 # k + 1
        BY <3>2
      <4> QED BY <2>1, <3>2, <4>1
    <3> QED BY <3>1, <3>2
  <2>6. next[0] = base
    BY <2>1
  <2> QED BY <2>4, <2>5, <2>6
<1> HIDE DEF upTo
<1>3. upTo(n)
  <2> DEFINE Good == {k \in 0 .. n : upTo(k)}
  <2>1. 0 \in Good
    BY <1>1
  <2>2. \A k \in 1 .. n : k - 1 \in Good => k \in Good
    <3> SUFFICES ASSUME NEW k \in 1 .. n, upTo(k - 1) PROVE upTo(k)
      OBVIOUS
    <3>1. k - 1 \in Nat /\ k - 1 < n /\ k - 1 + 1 = k
      OBVIOUS
    <3>2. upTo(k - 1 + 1)
      BY <1>2, <3>1
    <3> QED BY <3>1, <3>2
  <2> HIDE DEF Good
  <2>3. \A k \in 0 .. n : k \in Good
    BY <2>1, <2>2, Induct
  <2> QED BY <2>3 DEF Good
<1> QED BY <1>3 DEF upTo, Folded

\* concatDedupe keeps every entry of either list.
LEMMA Deduped ==
  ASSUME NEW S, NEW a \in Seq(S), NEW b \in Seq(S)
  PROVE  /\ St!ConcatDedupe(a, b) \in Seq(S)
         /\ \A x : St!Contains(a, x) \/ St!Contains(b, x) => St!Contains(St!ConcatDedupe(a, b), x)
<1> DEFINE all == a \o b
           n == Len(all)
           T == Seq(S)
           join(s, m) == IF St!Contains(s, all[m]) THEN s ELSE Append(s, all[m])
           kept == CHOOSE h : h = [m \in 0 .. n |-> IF m = 0 THEN <<>> ELSE join(h[m - 1], m)]
           g == [m \in 1 .. n |-> [s \in T |-> join(s, m)]]
           has(s, m) == \A j \in 1 .. m : St!Contains(s, all[j])
<1>1. n \in Nat /\ (\A m \in 1 .. n : all[m] \in S) /\ <<>> \in T
  OBVIOUS
<1>2. g \in [1 .. n -> [T -> T]]
  BY <1>1
<1>3. \A s \in T, m \in 1 .. n : g[m][s] = join(s, m)
  OBVIOUS
<1>4. St!ConcatDedupe(a, b) = kept[n]
  BY DEF St!ConcatDedupe
<1>5. \A s \in T : \A x : St!Contains(s, x) <=> \E i \in 1 .. Len(s) : s[i] = x
  BY DEF St!Contains
<1>6. \A s \in T, x \in S : /\ St!Contains(Append(s, x), x)
                           /\ \A y : St!Contains(s, y) => St!Contains(Append(s, x), y)
  <2> SUFFICES ASSUME NEW s \in T, NEW x \in S
               PROVE  /\ St!Contains(Append(s, x), x)
                      /\ \A y : St!Contains(s, y) => St!Contains(Append(s, x), y)
    OBVIOUS
  <2> DEFINE t == Append(s, x)
  <2>1. t \in T /\ Len(t) = Len(s) + 1 /\ Len(s) \in Nat /\ t[Len(s) + 1] = x
    OBVIOUS
  <2>2. \A i \in 1 .. Len(s) : t[i] = s[i]
    OBVIOUS
  <2> HIDE DEF t, T
  <2>3. St!Contains(t, x)
    BY <1>5, <2>1
  <2>4. ASSUME NEW y, St!Contains(s, y) PROVE St!Contains(t, y)
    <3>1. PICK i \in 1 .. Len(s) : s[i] = y
      BY <1>5, <2>4
    <3>2. i \in 1 .. Len(t) /\ t[i] = y
      BY <2>1, <2>2, <3>1
    <3> QED BY <1>5, <2>1, <3>2
  <2> QED BY <2>3, <2>4 DEF t
<1> HIDE DEF g, n, T, all
<1>7. \A s \in T, m \in 1 .. n : has(s, m - 1) => has(join(s, m), m)
  <2> SUFFICES ASSUME NEW s \in T, NEW m \in 1 .. n, has(s, m - 1), NEW j \in 1 .. m
               PROVE  St!Contains(join(s, m), all[j])
    OBVIOUS
  <2>1. CASE j = m
    BY <1>1, <1>6, <2>1
  <2>2. CASE j # m
    <3>1. j \in 1 .. m - 1
      BY <1>1, <2>2
    <3>2. St!Contains(s, all[j])
      BY <3>1
    <3> QED BY <1>1, <1>6, <3>2
  <2> QED BY <2>1, <2>2
<1> HIDE DEF join, has
<1> HIDE DEF kept
<1>8. PICK f : Folded(f, <<>>, g, n, T)
  <2>1. Folds(g, n, T) /\ <<>> \in T
    BY <1>1, <1>2 DEF Folds
  <2> QED BY <2>1, Recursion, Zenon
<1> USE DEF kept
<1>9. f = [m \in 0 .. n |-> IF m = 0 THEN <<>> ELSE join(f[m - 1], m)]
  <2>1. \A m \in 0 .. n : m # 0 => m \in 1 .. n /\ m - 1 \in 0 .. n
    BY <1>1
  <2>2. \A m \in 0 .. n : m # 0 => f[m] = join(f[m - 1], m)
    BY <1>3, <1>8, <2>1 DEF Folded
  <2> QED BY <1>8, <2>2 DEF Folded
<1>10. kept = [m \in 0 .. n |-> IF m = 0 THEN <<>> ELSE join(kept[m - 1], m)]
  BY <1>9, Zenon
<1> HIDE DEF kept
<1> DEFINE Good == {m \in 0 .. n : kept[m] \in T /\ has(kept[m], m)}
<1>11. 0 \in Good
  <2>1. kept[0] = <<>> /\ 0 \in 0 .. n
    BY <1>1, <1>10
  <2>2. has(<<>>, 0)
    BY DEF has
  <2> QED BY <1>1, <2>1, <2>2
<1>12. ASSUME NEW m \in 1 .. n, m - 1 \in Good PROVE m \in Good
  <2>1. m \in 0 .. n /\ kept[m] = join(kept[m - 1], m)
    BY <1>1, <1>10
  <2>2. kept[m - 1] \in T /\ has(kept[m - 1], m - 1)
    BY <1>12
  <2>3. join(kept[m - 1], m) = g[m][kept[m - 1]]
    BY <1>3, <2>2
  <2>4. g[m] \in [T -> T]
    BY <1>2
  <2>6. join(kept[m - 1], m) \in T
    BY <2>2, <2>3, <2>4
  <2>5. has(join(kept[m - 1], m), m)
    BY <1>7, <2>2
  <2> QED BY <2>1, <2>5, <2>6
<1> HIDE DEF Good
<1>13. n \in Good
  <2>1. \A m \in 0 .. n : m \in Good
    BY <1>1, <1>11, <1>12, Induct
  <2> QED BY <1>1, <2>1
<1>14. kept[n] \in T /\ has(kept[n], n)
  BY <1>13 DEF Good
<1>15. ASSUME NEW x, St!Contains(a, x) \/ St!Contains(b, x)
       PROVE  St!Contains(kept[n], x)
  <2>1. \E j \in 1 .. n : all[j] = x
    <3>1. CASE St!Contains(a, x)
      <4>1. PICK j \in 1 .. Len(a) : a[j] = x
        BY <3>1 DEF St!Contains
      <4>2. j \in 1 .. n /\ all[j] = x
        BY <4>1 DEF n, all
      <4> QED BY <4>2
    <3>2. CASE St!Contains(b, x)
      <4>1. PICK j \in 1 .. Len(b) : b[j] = x
        BY <3>2 DEF St!Contains
      <4>2. Len(a) + j \in 1 .. n /\ all[Len(a) + j] = x
        BY <4>1 DEF n, all
      <4> QED BY <4>2
    <3> QED BY <1>15, <3>1, <3>2
  <2> QED BY <1>14, <2>1 DEF has
<1> QED BY <1>4, <1>14, <1>15 DEF T

\* A later patch of the field of the i-th was answered.
Later(i) ==
  \E j \in DOMAIN acked :
    j > i /\ acked[j].file = acked[i].file /\ acked[j].field = acked[i].field

\* Whatever is answered is in its layer, until a later patch takes its place or a crash
\* leaves the file torn.
AckedStays ==
  \A l \in St!Layer : files[l].whole =>
    \A i \in DOMAIN acked : acked[i].file = l =>
      files[l].set[acked[i].field] = acked[i].value \/ Later(i)

PatchShapes ==
  /\ acked \in Seq(Patch)
  /\ files = [l \in St!Layer |-> [whole |-> files[l].whole, set |-> files[l].set,
                                  paths |-> files[l].paths]]
  /\ patcher = [p \in Patch |-> [at |-> patcher[p].at, holds |-> patcher[p].holds]]

\* Who holds configWriteMu.
HoldsLock(p) == patcher[p].at \in {"holding", "truncated"}
OnePatches == \A p, q \in Patch : HoldsLock(p) /\ HoldsLock(q) => p = q

\* What the holder is to write has all that was answered, but for the field it sets.
HeldInv ==
  \A p \in Patch : HoldsLock(p) =>
    /\ patcher[p].holds.set[p.field] = p.value
    /\ \A i \in DOMAIN acked : acked[i].file = p.file /\ acked[i].field # p.field =>
         patcher[p].holds.set[acked[i].field] = acked[i].value \/ Later(i)
    /\ patcher[p].holds = [whole |-> patcher[p].holds.whole, set |-> patcher[p].holds.set,
                           paths |-> patcher[p].holds.paths]

PatchInv == PatchShapes /\ OnePatches /\ HeldInv /\ AckedStays

LEMMA PatchInit == St!Init => PatchInv
<1> DEFINE full(r) == r = [whole |-> r.whole, set |-> r.set, paths |-> r.paths]
<1> SUFFICES ASSUME St!Init PROVE PatchInv
  OBVIOUS
<1>1. /\ St!InitFiles /\ acked = <<>>
      /\ patcher \in [Patch -> [at: {"asked", "never"}, holds: {St!Empty}]]
  BY DEF St!Init
<1>2. patcher = [p \in Patch |-> [at |-> patcher[p].at, holds |-> patcher[p].holds]]
  BY <1>1
<1>3. \A p \in Patch : ~HoldsLock(p)
  BY <1>1 DEF HoldsLock
<1>4. full(St!Empty) /\ \A f, v, x : full(St!SetOnce(f, v, x))
  BY DEF St!Empty, St!SetOnce
<1>5. files = [l \in St!Layer |-> files[l]] /\ \A l \in St!Layer : full(files[l])
  <2> HIDE DEF full
  <2> QED BY <1>1, <1>4 DEF St!InitFiles
<1>6. PatchShapes
  BY <1>1, <1>2, <1>5 DEF PatchShapes
<1> QED BY <1>1, <1>3, <1>6 DEF PatchInv, OnePatches, HeldInv, AckedStays

\* Who takes the lock reads all that was answered of the layer.
LEMMA ReadKeeps ==
  ASSUME PatchInv, NEW p \in Patch, St!ReadLayer(p)
  PROVE  PatchInv'
<1>1. /\ patcher[p].at = "asked" /\ \A q \in Patch : ~HoldsLock(q)
      /\ UNCHANGED <<files, acked>>
  BY DEF St!ReadLayer, St!LockFree, St!At, HoldsLock
<1> DEFINE merged == St!Merge(files[p.file], St!Partial(p))
           new == IF files[p.file].whole THEN [at |-> "holding", holds |-> merged]
                  ELSE [at |-> "failed", holds |-> St!Empty]
<1>2. patcher' = [patcher EXCEPT ![p] = new]
  BY DEF St!ReadLayer
<1>3. /\ new = [at |-> new.at, holds |-> new.holds]
      /\ new.at \in {"holding", "truncated"} => files[p.file].whole /\ new.holds = merged
  OBVIOUS
<1>4. /\ merged = [whole |-> merged.whole, set |-> merged.set, paths |-> merged.paths]
      /\ merged.set[p.field] = p.value
      /\ \A f \in Field \ {p.field} : merged.set[f] = files[p.file].set[f]
  BY PatchAssumption DEF St!Merge, St!Partial, St!NoFields
<1> HIDE DEF merged, new
<1>5. /\ DOMAIN patcher = Patch /\ patcher'[p] = new
      /\ \A q \in Patch \ {p} : patcher'[q] = patcher[q]
  BY <1>2 DEF PatchInv, PatchShapes
<1>6. PatchShapes'
  BY <1>1, <1>2, <1>3, <1>5 DEF PatchInv, PatchShapes
<1>7. OnePatches' /\ \A q \in Patch : HoldsLock(q)' => q = p
  BY <1>1, <1>5 DEF OnePatches, HoldsLock
<1>9. \A i : Later(i)' <=> Later(i)
  BY <1>1 DEF Later
<1>10. AckedStays'
  BY <1>1, <1>9 DEF PatchInv, AckedStays
<1>11. HeldInv'
  <2> SUFFICES ASSUME HoldsLock(p)'
               PROVE  /\ patcher'[p].holds.set[p.field] = p.value
                      /\ \A i \in DOMAIN acked : acked[i].file = p.file /\ acked[i].field # p.field =>
                           patcher'[p].holds.set[acked[i].field] = acked[i].value \/ Later(i)
                      /\ patcher'[p].holds = [whole |-> patcher'[p].holds.whole,
                                              set |-> patcher'[p].holds.set,
                                              paths |-> patcher'[p].holds.paths]
    BY <1>1, <1>7, <1>9 DEF HeldInv
  <2>1. patcher'[p].holds = merged /\ files[p.file].whole
    BY <1>3, <1>5 DEF HoldsLock
  <2>2. \A i \in DOMAIN acked : acked[i].field \in Field
    BY PatchAssumption DEF PatchInv, PatchShapes
  <2>3. \A i \in DOMAIN acked : acked[i].file = p.file =>
          files[p.file].set[acked[i].field] = acked[i].value \/ Later(i)
    BY <2>1, PatchAssumption DEF PatchInv, AckedStays
  <2> QED BY <1>4, <2>1, <2>2, <2>3
<1> QED BY <1>6, <1>7, <1>10, <1>11 DEF PatchInv

\* What a step makes of the patch it takes.
LEMMA MarksPatch ==
  ASSUME PatchShapes, NEW p \in Patch, NEW now, patcher' = [patcher EXCEPT ![p].at = now]
  PROVE  /\ patcher'[p] = [at |-> now, holds |-> patcher[p].holds]
         /\ \A q \in Patch \ {p} : patcher'[q] = patcher[q]
<1> DEFINE r == patcher[p]
<1>1. r = [at |-> r.at, holds |-> r.holds] /\ DOMAIN patcher = Patch
  BY DEF PatchShapes
<1>2. [r EXCEPT !.at = now] = [at |-> now, holds |-> r.holds]
  BY <1>1
<1>3. patcher'[p] = [r EXCEPT !.at = now] /\ \A q \in Patch \ {p} : patcher'[q] = patcher[q]
  BY <1>1
<1> QED BY <1>2, <1>3

\* The holder truncates the layer it writes.
LEMMA TruncateKeeps ==
  ASSUME PatchInv, NEW p \in Patch, St!TruncateLayer(p)
  PROVE  PatchInv'
<1>1. /\ patcher[p].at = "holding" /\ UNCHANGED acked
      /\ files' = [files EXCEPT ![p.file].whole = FALSE]
      /\ patcher' = [patcher EXCEPT ![p].at = "truncated"]
  BY DEF St!TruncateLayer, St!At
<1>2. p.file \in St!Layer
  BY PatchAssumption
<1>3. /\ files'[p.file].whole = FALSE
      /\ files'[p.file] = [whole |-> FALSE, set |-> files[p.file].set, paths |-> files[p.file].paths]
      /\ \A l \in St!Layer \ {p.file} : files'[l] = files[l]
  <2> DEFINE r == files[p.file]
  <2>1. r = [whole |-> r.whole, set |-> r.set, paths |-> r.paths] /\ DOMAIN files = St!Layer
    BY <1>2 DEF PatchInv, PatchShapes
  <2> HIDE DEF r
  <2>2. \A b : [r EXCEPT !.whole = b] = [whole |-> b, set |-> r.set, paths |-> r.paths]
    BY <2>1
  <2>3. files'[p.file] = [r EXCEPT !.whole = FALSE] /\ \A l \in St!Layer \ {p.file} : files'[l] = files[l]
    BY <1>1, <1>2, <2>1 DEF r
  <2>4. files'[p.file] = [whole |-> FALSE, set |-> r.set, paths |-> r.paths]
    BY <2>2, <2>3
  <2> QED BY <2>3, <2>4 DEF r
<1>4. /\ patcher'[p] = [at |-> "truncated", holds |-> patcher[p].holds]
      /\ \A q \in Patch \ {p} : patcher'[q] = patcher[q]
  BY <1>1, MarksPatch DEF PatchInv
<1>5. files' = [l \in St!Layer |-> files'[l]] /\ patcher' = [q \in Patch |-> patcher'[q]]
  BY <1>1 DEF PatchInv, PatchShapes
<1>6. \A l \in St!Layer : files[l] = [whole |-> files[l].whole, set |-> files[l].set,
                                      paths |-> files[l].paths]
  BY DEF PatchInv, PatchShapes
<1>7. \A q \in Patch : patcher[q] = [at |-> patcher[q].at, holds |-> patcher[q].holds]
  BY DEF PatchInv, PatchShapes
<1>8. PatchShapes'
  <2>1. \A l \in St!Layer : files'[l] = [whole |-> files'[l].whole, set |-> files'[l].set,
                                         paths |-> files'[l].paths]
    BY <1>3, <1>6
  <2>2. \A q \in Patch : patcher'[q] = [at |-> patcher'[q].at, holds |-> patcher'[q].holds]
    BY <1>4, <1>7
  <2> QED BY <1>1, <1>5, <2>1, <2>2 DEF PatchInv, PatchShapes
<1>9. \A q \in Patch : HoldsLock(q)' => HoldsLock(q) /\ patcher'[q].holds = patcher[q].holds
  BY <1>1, <1>4 DEF HoldsLock
<1>10. \A i : Later(i)' <=> Later(i)
  BY <1>1 DEF Later
<1>11. OnePatches' /\ HeldInv'
  BY <1>1, <1>9, <1>10 DEF PatchInv, OnePatches, HeldInv
<1>12. AckedStays'
  BY <1>1, <1>3, <1>10 DEF PatchInv, AckedStays
<1> QED BY <1>8, <1>11, <1>12 DEF PatchInv

\* The holder writes what it holds, and the patch is answered.
LEMMA WriteKeeps ==
  ASSUME PatchInv, NEW p \in Patch, St!WriteLayer(p)
  PROVE  PatchInv'
<1>1. /\ patcher[p].at = "truncated" /\ acked' = Append(acked, p)
      /\ files' = [files EXCEPT ![p.file] = patcher[p].holds]
      /\ patcher' = [patcher EXCEPT ![p].at = "written"]
  BY DEF St!WriteLayer, St!At
<1>2. p.file \in St!Layer /\ HoldsLock(p) /\ acked \in Seq(Patch)
  BY <1>1, PatchAssumption DEF HoldsLock, PatchInv, PatchShapes
<1>3. /\ files' = [l \in St!Layer |-> files'[l]] /\ files'[p.file] = patcher[p].holds
      /\ \A l \in St!Layer \ {p.file} : files'[l] = files[l]
  BY <1>1, <1>2 DEF PatchInv, PatchShapes
<1>4. /\ patcher' = [q \in Patch |-> patcher'[q]]
      /\ patcher'[p] = [at |-> "written", holds |-> patcher[p].holds]
      /\ \A q \in Patch \ {p} : patcher'[q] = patcher[q]
  <2>1. patcher' = [q \in Patch |-> patcher'[q]]
    BY <1>1 DEF PatchInv, PatchShapes
  <2> QED BY <1>1, <2>1, MarksPatch DEF PatchInv
<1>5. /\ \A l \in St!Layer : files[l] = [whole |-> files[l].whole, set |-> files[l].set,
                                         paths |-> files[l].paths]
      /\ \A q \in Patch : patcher[q] = [at |-> patcher[q].at, holds |-> patcher[q].holds]
  BY DEF PatchInv, PatchShapes
<1>6. patcher[p].holds = [whole |-> patcher[p].holds.whole, set |-> patcher[p].holds.set,
                          paths |-> patcher[p].holds.paths]
  BY <1>2 DEF PatchInv, HeldInv
<1>7. acked' \in Seq(Patch)
  BY <1>1, <1>2
<1>8. PatchShapes'
  <2>1. \A l \in St!Layer : files'[l] = [whole |-> files'[l].whole, set |-> files'[l].set,
                                         paths |-> files'[l].paths]
    BY <1>3, <1>5, <1>6
  <2>2. \A q \in Patch : patcher'[q] = [at |-> patcher'[q].at, holds |-> patcher'[q].holds]
    BY <1>4, <1>5
  <2> QED BY <1>3, <1>4, <1>7, <2>1, <2>2 DEF PatchShapes
<1>9. \A q \in Patch : ~HoldsLock(q)'
  BY <1>2, <1>4 DEF HoldsLock, PatchInv, OnePatches
<1>10. /\ Len(acked) \in Nat /\ DOMAIN acked = 1 .. Len(acked)
       /\ DOMAIN acked' = 1 .. Len(acked) + 1
       /\ acked'[Len(acked) + 1] = p
       /\ \A i \in DOMAIN acked : acked'[i] = acked[i]
  BY <1>1, <1>2
<1>11. \A i \in DOMAIN acked : Later(i) => Later(i)'
  BY <1>10 DEF Later
<1>12. ASSUME NEW i \in DOMAIN acked, acked[i].file = p.file, acked[i].field = p.field
       PROVE  Later(i)'
  BY <1>10, <1>12 DEF Later
<1>13. AckedStays'
  <2> SUFFICES ASSUME NEW l \in St!Layer, files'[l].whole, NEW i \in DOMAIN acked',
                      acked'[i].file = l
               PROVE  files'[l].set[acked'[i].field] = acked'[i].value \/ Later(i)'
    BY DEF AckedStays
  <2>1. CASE i = Len(acked) + 1
    <3>1. acked'[i] = p /\ files'[l] = patcher[p].holds
      BY <2>1, <1>3, <1>10
    <3> QED BY <3>1, <1>2 DEF PatchInv, HeldInv
  <2>2. CASE i \in DOMAIN acked /\ l = p.file
    <3>1. acked'[i] = acked[i] /\ files'[l] = patcher[p].holds
      BY <2>2, <1>3, <1>10
    <3>2. CASE acked[i].field = p.field
      BY <2>2, <3>1, <3>2, <1>12
    <3>3. CASE acked[i].field # p.field
      <4>1. acked[i].file = p.file
        BY <2>2, <3>1
      <4>2. patcher[p].holds.set[acked[i].field] = acked[i].value \/ Later(i)
        BY <2>2, <3>3, <4>1, <1>2 DEF PatchInv, HeldInv
      <4> QED BY <2>2, <3>1, <4>2, <1>11
    <3> QED BY <3>2, <3>3
  <2>3. CASE i \in DOMAIN acked /\ l # p.file
    <3>1. acked'[i] = acked[i] /\ files'[l] = files[l]
      BY <2>3, <1>3, <1>10
    <3> QED BY <2>3, <3>1, <1>11 DEF PatchInv, AckedStays
  <2> QED BY <2>1, <2>2, <2>3, <1>10
<1> QED BY <1>8, <1>9, <1>13 DEF PatchInv, OnePatches, HeldInv

\* A crash takes the lock from its holder.
LEMMA RestartKeeps ==
  ASSUME PatchInv, St!Restart
  PROVE  PatchInv'
<1>1. /\ UNCHANGED <<files, acked>>
      /\ patcher' = [p \in Patch |-> [patcher[p] EXCEPT !.at = St!Stops(@)]]
  BY DEF St!Restart
<1>2. \A p \in Patch : patcher[p] = [at |-> patcher[p].at, holds |-> patcher[p].holds]
  BY DEF PatchInv, PatchShapes
<1>3. ASSUME NEW p \in Patch
      PROVE  /\ patcher'[p] = [at |-> patcher'[p].at, holds |-> patcher'[p].holds]
             /\ patcher'[p].at \notin {"holding", "truncated"}
  <2> DEFINE r == patcher[p]
             now == St!Stops(r.at)
  <2>1. r = [at |-> r.at, holds |-> r.holds] /\ now \notin {"holding", "truncated"}
    BY <1>2 DEF St!Stops
  <2>2. patcher'[p] = [r EXCEPT !.at = now]
    BY <1>1
  <2> HIDE DEF r, now
  <2>3. [r EXCEPT !.at = now] = [at |-> now, holds |-> r.holds]
    BY <2>1
  <2> QED BY <2>1, <2>2, <2>3
<1>4. \A p \in Patch : ~HoldsLock(p)'
  BY <1>3 DEF HoldsLock
<1>5. PatchShapes'
  BY <1>1, <1>3 DEF PatchInv, PatchShapes
<1>6. AckedStays'
  BY <1>1 DEF PatchInv, AckedStays, Later
<1> QED BY <1>4, <1>5, <1>6 DEF PatchInv, OnePatches, HeldInv

\* For any layers, fields and patches, in any order, and whatever a crash interrupts: what a
\* patch was answered for is in its layer until a later patch sets that field or a crash leaves
\* the file torn, and one patch at a time is between its read and its write
\* (configWriteMu in patchConfigFile, server/handlers_config.go).
THEOREM AckedPatchesStay ==
  St!Spec => [](AckedStays /\ OnePatches)
<1>1. PatchInv /\ [St!Next]_(St!vars) => PatchInv'
  <2> SUFFICES ASSUME PatchInv, [St!Next]_(St!vars) PROVE PatchInv'
    OBVIOUS
  <2>1. ASSUME UNCHANGED <<files, patcher, acked>> PROVE PatchInv'
    BY <2>1 DEF PatchInv, PatchShapes, OnePatches, HeldInv, AckedStays, Later, HoldsLock
  <2>2. ASSUME NEW q \in AuthRequest \cup Tool,
               St!Snapshot(q) \/ St!LoadStore(q) \/ St!TruncateStore(q) \/ St!WriteStore(q)
        PROVE  UNCHANGED <<files, patcher, acked>>
    BY <2>2 DEF St!Snapshot, St!LoadStore, St!TruncateStore, St!WriteStore
  <2>3. CASE UNCHANGED St!vars
    BY <2>1, <2>3 DEF St!vars
  <2> QED BY <2>1, <2>2, <2>3, ReadKeeps, TruncateKeeps, WriteKeeps, RestartKeeps DEF St!Next
<1> QED BY <1>1, PatchInit, PTL DEF St!Spec, PatchInv

\* The entries a layer may list.
Entries == Path \cup {p.path : p \in Patch}

\* Of the i-th patch that was answered, the path is in the list.
Lists(paths, i) == acked[i].path = Unset \/ St!Contains(paths, acked[i].path)

\* Entries of "instructions" only ever join a layer.
PathInv ==
  /\ \A l \in St!Layer : files[l].paths \in Seq(Entries)
  /\ \A p \in Patch : patcher[p].holds.paths \in Seq(Entries)
  /\ \A i \in DOMAIN acked :
       files[acked[i].file].whole => Lists(files[acked[i].file].paths, i)
  /\ \A p \in Patch : HoldsLock(p) =>
       /\ p.path = Unset \/ St!Contains(patcher[p].holds.paths, p.path)
       /\ \A i \in DOMAIN acked : acked[i].file = p.file => Lists(patcher[p].holds.paths, i)

LEMMA PathInit == St!Init => PathInv
<1> SUFFICES ASSUME St!Init PROVE PathInv
  OBVIOUS
<1>1. /\ St!InitFiles /\ acked = <<>>
      /\ patcher \in [Patch -> [at: {"asked", "never"}, holds: {St!Empty}]]
  BY DEF St!Init
<1>2. St!Empty.paths \in Seq(Entries)
  BY DEF St!Empty
<1>3. \A f, v : \A x \in Path : St!SetOnce(f, v, x).paths \in Seq(Entries)
  BY DEF St!SetOnce, Entries
<1>4. \A l \in St!Layer : files[l].paths \in Seq(Entries)
  BY <1>1, <1>2, <1>3 DEF St!InitFiles
<1>5. \A p \in Patch : ~HoldsLock(p) /\ patcher[p].holds = St!Empty
  BY <1>1 DEF HoldsLock
<1> QED BY <1>1, <1>2, <1>4, <1>5 DEF PathInv

\* Who takes the lock reads the entries and adds its own.
LEMMA ReadLists ==
  ASSUME PatchInv, PathInv, NEW p \in Patch, St!ReadLayer(p)
  PROVE  PathInv'
<1>1. /\ \A q \in Patch : ~HoldsLock(q)
      /\ UNCHANGED <<files, acked>> /\ p.file \in St!Layer
  BY PatchAssumption DEF St!ReadLayer, St!LockFree, St!At, HoldsLock
<1> DEFINE merged == St!Merge(files[p.file], St!Partial(p))
           new == IF files[p.file].whole THEN [at |-> "holding", holds |-> merged]
                  ELSE [at |-> "failed", holds |-> St!Empty]
           own == IF p.path = Unset THEN <<>> ELSE <<p.path>>
<1>2. merged.paths = St!ConcatDedupe(files[p.file].paths, own)
  BY DEF St!Merge, St!Partial
<1>3. own \in Seq(Entries) /\ (p.path = Unset \/ St!Contains(own, p.path))
  <2>1. p.path \in Entries
    BY DEF Entries
  <2>2. CASE p.path = Unset
    BY <2>2
  <2>3. CASE p.path # Unset
    <3>1. own = <<p.path>>
      BY <2>3
    <3> HIDE DEF own
    <3>2. own \in Seq(Entries) /\ Len(own) = 1 /\ own[1] = p.path
      BY <2>1, <3>1
    <3> QED BY <3>2 DEF St!Contains
  <2> QED BY <2>2, <2>3
<1>4. files[p.file].paths \in Seq(Entries)
  BY <1>1 DEF PathInv
<1>5. /\ merged.paths \in Seq(Entries) /\ (p.path = Unset \/ St!Contains(merged.paths, p.path))
      /\ \A x : St!Contains(files[p.file].paths, x) => St!Contains(merged.paths, x)
  <2> HIDE DEF own, merged
  <2> QED BY <1>2, <1>3, <1>4, Deduped
<1>6. patcher' = [patcher EXCEPT ![p] = new] /\ DOMAIN patcher = Patch
  BY DEF St!ReadLayer, PatchInv, PatchShapes
<1>7. /\ new.holds.paths \in Seq(Entries)
      /\ new.at \in {"holding", "truncated"} => files[p.file].whole /\ new.holds.paths = merged.paths
  <2>1. St!Empty.paths \in Seq(Entries)
    BY DEF St!Empty
  <2> HIDE DEF merged
  <2> QED BY <1>5, <2>1
<1> HIDE DEF new, merged
<1>8. patcher'[p] = new /\ \A q \in Patch \ {p} : patcher'[q] = patcher[q]
  BY <1>6
<1>9. \A q \in Patch : HoldsLock(q)' => q = p
  BY <1>1, <1>8 DEF HoldsLock
<1>10. \A paths, i : Lists(paths, i)' <=> Lists(paths, i)
  BY <1>1 DEF Lists
<1>11. ASSUME HoldsLock(p)'
       PROVE  /\ p.path = Unset \/ St!Contains(patcher'[p].holds.paths, p.path)
              /\ \A i \in DOMAIN acked : acked[i].file = p.file => Lists(patcher'[p].holds.paths, i)
  <2>1. patcher'[p].holds.paths = merged.paths /\ files[p.file].whole
    BY <1>7, <1>8, <1>11 DEF HoldsLock
  <2> QED BY <1>5, <2>1 DEF PathInv, Lists
<1>12. \A q \in Patch : patcher'[q].holds.paths \in Seq(Entries)
  BY <1>7, <1>8 DEF PathInv
<1> QED BY <1>1, <1>9, <1>10, <1>11, <1>12 DEF PathInv

LEMMA TruncateLists ==
  ASSUME PatchInv, PathInv, NEW p \in Patch, St!TruncateLayer(p)
  PROVE  PathInv'
<1>1. /\ patcher[p].at = "holding" /\ UNCHANGED acked
      /\ files' = [files EXCEPT ![p.file].whole = FALSE]
      /\ patcher' = [patcher EXCEPT ![p].at = "truncated"]
  BY DEF St!TruncateLayer, St!At
<1>2. /\ ~files'[p.file].whole /\ files'[p.file].paths = files[p.file].paths
      /\ \A l \in St!Layer \ {p.file} : files'[l] = files[l]
  <2> DEFINE r == files[p.file]
  <2>4. p.file \in St!Layer
    BY PatchAssumption
  <2>1. r = [whole |-> r.whole, set |-> r.set, paths |-> r.paths] /\ DOMAIN files = St!Layer
    BY <2>4 DEF PatchInv, PatchShapes
  <2> HIDE DEF r
  <2>2. \A b : [r EXCEPT !.whole = b] = [whole |-> b, set |-> r.set, paths |-> r.paths]
    BY <2>1
  <2>3. files'[p.file] = [r EXCEPT !.whole = FALSE] /\ \A l \in St!Layer \ {p.file} : files'[l] = files[l]
    BY <1>1, <2>1, <2>4 DEF r
  <2>5. files'[p.file] = [whole |-> FALSE, set |-> r.set, paths |-> r.paths]
    BY <2>2, <2>3
  <2> QED BY <2>3, <2>5 DEF r
<1>3. /\ patcher'[p] = [at |-> "truncated", holds |-> patcher[p].holds]
      /\ \A q \in Patch \ {p} : patcher'[q] = patcher[q]
  BY <1>1, MarksPatch DEF PatchInv
<1>4. \A q \in Patch : HoldsLock(q)' => HoldsLock(q)
  BY <1>1, <1>3 DEF HoldsLock
<1>5. \A q \in Patch : patcher'[q].holds = patcher[q].holds
  BY <1>3
<1>6. \A l \in St!Layer : files'[l].paths = files[l].paths /\ (files'[l].whole => files[l].whole)
  BY <1>2
<1>7. \A paths, i : Lists(paths, i)' <=> Lists(paths, i)
  BY <1>1 DEF Lists
<1>8. \A i \in DOMAIN acked : acked[i].file \in St!Layer
  BY PatchAssumption DEF PatchInv, PatchShapes
<1> QED BY <1>1, <1>4, <1>5, <1>6, <1>7, <1>8 DEF PathInv

LEMMA WriteLists ==
  ASSUME PatchInv, PathInv, NEW p \in Patch, St!WriteLayer(p)
  PROVE  PathInv'
<1>1. /\ patcher[p].at = "truncated" /\ acked' = Append(acked, p)
      /\ files' = [files EXCEPT ![p.file] = patcher[p].holds]
      /\ patcher' = [patcher EXCEPT ![p].at = "written"]
  BY DEF St!WriteLayer, St!At
<1>2. HoldsLock(p) /\ acked \in Seq(Patch) /\ p.file \in St!Layer
  BY <1>1, PatchAssumption DEF HoldsLock, PatchInv, PatchShapes
<1>3. /\ files'[p.file] = patcher[p].holds
      /\ \A l \in St!Layer \ {p.file} : files'[l] = files[l]
  BY <1>1, <1>2 DEF PatchInv, PatchShapes
<1>4. /\ patcher'[p] = [at |-> "written", holds |-> patcher[p].holds]
      /\ \A q \in Patch \ {p} : patcher'[q] = patcher[q]
  BY <1>1, MarksPatch DEF PatchInv
<1>5. \A q \in Patch : ~HoldsLock(q)' /\ patcher'[q].holds = patcher[q].holds
  BY <1>2, <1>4 DEF HoldsLock, PatchInv, OnePatches
<1>6. /\ Len(acked) \in Nat /\ DOMAIN acked = 1 .. Len(acked)
      /\ DOMAIN acked' = 1 .. Len(acked) + 1
      /\ acked'[Len(acked) + 1] = p
      /\ \A i \in DOMAIN acked : acked'[i] = acked[i]
  BY <1>1, <1>2
<1>7. \A l \in St!Layer : files'[l].paths \in Seq(Entries)
  BY <1>3 DEF PathInv
<1>8. ASSUME NEW i \in DOMAIN acked', files'[acked'[i].file].whole
      PROVE  acked'[i].path = Unset \/ St!Contains(files'[acked'[i].file].paths, acked'[i].path)
  <2>1. CASE i = Len(acked) + 1
    <3>1. acked'[i] = p /\ files'[p.file] = patcher[p].holds
      BY <1>3, <1>6, <2>1
    <3> QED BY <1>2, <3>1 DEF PathInv, Lists
  <2>2. CASE i \in DOMAIN acked
    <3>1. acked'[i] = acked[i] /\ acked[i].file \in St!Layer
      BY <1>2, <1>6, <2>2, PatchAssumption
    <3>2. CASE acked[i].file = p.file
      <4>1. Lists(patcher[p].holds.paths, i)
        BY <1>2, <2>2, <3>2 DEF PathInv
      <4> QED BY <1>3, <3>1, <3>2, <4>1 DEF Lists
    <3>3. CASE acked[i].file # p.file
      <4>1. files'[acked[i].file] = files[acked[i].file]
        BY <1>3, <3>1, <3>3
      <4>2. Lists(files[acked[i].file].paths, i)
        BY <1>8, <2>2, <3>1, <4>1 DEF PathInv
      <4> QED BY <3>1, <4>1, <4>2 DEF Lists
    <3> QED BY <3>2, <3>3
  <2> QED BY <1>6, <2>1, <2>2
<1>9. \A q \in Patch : patcher'[q].holds.paths \in Seq(Entries)
  BY <1>5 DEF PathInv
<1> QED BY <1>5, <1>7, <1>8, <1>9 DEF PathInv, Lists

LEMMA RestartLists ==
  ASSUME PatchInv, PathInv, St!Restart
  PROVE  PathInv'
<1>1. /\ UNCHANGED <<files, acked>>
      /\ patcher' = [p \in Patch |-> [patcher[p] EXCEPT !.at = St!Stops(@)]]
  BY DEF St!Restart
<1>2. ASSUME NEW p \in Patch PROVE ~HoldsLock(p)' /\ patcher'[p].holds = patcher[p].holds
  <2> DEFINE r == patcher[p]
             now == St!Stops(r.at)
  <2>1. r = [at |-> r.at, holds |-> r.holds]
    BY DEF PatchInv, PatchShapes
  <2>5. now \notin {"holding", "truncated"}
    BY DEF St!Stops
  <2>2. patcher'[p] = [r EXCEPT !.at = now]
    BY <1>1
  <2> HIDE DEF r, now
  <2>3. [r EXCEPT !.at = now] = [at |-> now, holds |-> r.holds]
    BY <2>1
  <2>4. patcher'[p].at = now /\ patcher'[p].holds = r.holds
    BY <2>2, <2>3
  <2> QED BY <2>5, <2>4 DEF HoldsLock, r
<1>3. \A paths, i : Lists(paths, i)' <=> Lists(paths, i)
  BY <1>1 DEF Lists
<1> QED BY <1>1, <1>2, <1>3 DEF PathInv

\* Of the layers, which is above which.
LEMMA Ranks ==
  /\ Len(St!Layers) = 5
  /\ \A l \in St!Layer : St!Rank(l) \in 1 .. 5 /\ St!Layers[St!Rank(l)] = l
  /\ \A n \in 1 .. 5 : St!Layers[n] \in St!Layer /\ St!Rank(St!Layers[n]) = n
<1>1. /\ Len(St!Layers) = 5 /\ DOMAIN St!Layers = 1 .. 5
      /\ \A n, m \in 1 .. 5 : St!Layers[n] = St!Layers[m] => n = m
  BY DEF St!Layers
<1>2. St!Layer = {St!Layers[n] : n \in 1 .. 5}
  BY <1>1 DEF St!Layer, St!Range
<1> QED BY <1>1, <1>2 DEF St!Rank

\* LoadAt takes the layers one after the other.
LEMMA Loading ==
  \E m : /\ m[0] = St!Empty
         /\ \A n \in 1 .. 5 : m[n] = St!Merge(m[n - 1], files[St!Layers[n]])
         /\ St!LoadAt = [m[5] EXCEPT !.set = [f \in Field |-> St!Substitute(m[5].set[f])]]
<1> DEFINE next(r, n) == St!Merge(r, files[St!Layers[n]])
           one == next(St!Empty, 1)
           two == next(one, 2)
           three == next(two, 3)
           four == next(three, 4)
           five == next(four, 5)
           m == CHOOSE h : h = [n \in 0 .. Len(St!Layers) |->
                                  IF n = 0 THEN St!Empty ELSE next(h[n - 1], n)]
           g == [n \in 0 .. 5 |-> IF n = 0 THEN St!Empty ELSE IF n = 1 THEN one ELSE
                                  IF n = 2 THEN two ELSE IF n = 3 THEN three ELSE
                                  IF n = 4 THEN four ELSE five]
<1>1. Len(St!Layers) = 5
  BY Ranks
<1>2. St!LoadAt = [m[5] EXCEPT !.set = [f \in Field |-> St!Substitute(m[5].set[f])]]
  BY <1>1 DEF St!LoadAt
<1>3. /\ one = next(St!Empty, 1) /\ two = next(one, 2) /\ three = next(two, 3)
      /\ four = next(three, 4) /\ five = next(four, 5)
  OBVIOUS
<1> HIDE DEF next, one, two, three, four, five
<1>4. g = [n \in 0 .. 5 |-> IF n = 0 THEN St!Empty ELSE next(g[n - 1], n)]
  <2>1. ASSUME NEW n \in 0 .. 5 PROVE g[n] = IF n = 0 THEN St!Empty ELSE next(g[n - 1], n)
    <3>1. /\ g[0] = St!Empty /\ g[1] = one /\ g[2] = two /\ g[3] = three /\ g[4] = four
          /\ g[5] = five
      OBVIOUS
    <3> HIDE DEF g
    <3>2. n \in {0, 1, 2, 3, 4, 5}
      OBVIOUS
    <3>3. \A k \in 1 .. 5 : n = k => next(g[n - 1], n) = next(g[k - 1], k)
      OBVIOUS
    <3> QED BY <1>3, <3>1, <3>2, <3>3
  <2> QED BY <2>1
<1> HIDE DEF g
<1>5. m = [n \in 0 .. Len(St!Layers) |-> IF n = 0 THEN St!Empty ELSE next(m[n - 1], n)]
  <2>1. g = [n \in 0 .. Len(St!Layers) |-> IF n = 0 THEN St!Empty ELSE next(g[n - 1], n)]
    BY <1>1, <1>4
  <2> QED BY <2>1, Zenon
<1> HIDE DEF m
<1>6. \A n \in 0 .. 5 : m[n] = IF n = 0 THEN St!Empty ELSE next(m[n - 1], n)
  BY <1>1, <1>5
<1>7. m[0] = St!Empty /\ \A n \in 1 .. 5 : m[n] = next(m[n - 1], n)
  BY <1>6
<1> QED BY <1>2, <1>7 DEF next

\* What is in a layer shows: a field unless a higher layer sets it, an entry always.
LEMMA LayerShows ==
  ASSUME PatchInv, PathInv, NEW l \in St!Layer
  PROVE  /\ \A f \in Field :
              \/ files[l].set[f] = Unset
              \/ St!LoadAt.set[f] = St!Substitute(files[l].set[f])
              \/ \E h \in St!Layer : St!Rank(h) > St!Rank(l) /\ files[h].set[f] # Unset
         /\ \A x : St!Contains(files[l].paths, x) => St!Contains(St!LoadAt.paths, x)
<1>1. PICK m : /\ m[0] = St!Empty
               /\ \A n \in 1 .. 5 : m[n] = St!Merge(m[n - 1], files[St!Layers[n]])
               /\ St!LoadAt = [m[5] EXCEPT !.set = [f \in Field |-> St!Substitute(m[5].set[f])]]
  BY Loading
<1> DEFINE k == St!Rank(l)
<1>2. k \in 1 .. 5 /\ St!Layers[k] = l
  BY Ranks
<1>3. /\ \A n \in 1 .. 5 : \A f \in Field :
           m[n].set[f] = IF files[St!Layers[n]].set[f] = Unset THEN m[n - 1].set[f]
                         ELSE files[St!Layers[n]].set[f]
      /\ \A n \in 1 .. 5 :
           m[n].paths = St!ConcatDedupe(m[n - 1].paths, files[St!Layers[n]].paths)
  <2>1. \A a, b : /\ St!Merge(a, b).paths = St!ConcatDedupe(a.paths, b.paths)
                  /\ \A f \in Field : St!Merge(a, b).set[f] =
                                       IF b.set[f] = Unset THEN a.set[f] ELSE b.set[f]
    BY DEF St!Merge
  <2> QED BY <1>1, <2>1
<1>4. /\ \A f \in Field : St!LoadAt.set[f] = St!Substitute(m[5].set[f])
      /\ St!LoadAt.paths = m[5].paths
  <2> DEFINE r == m[5]
  <2>5. \A a, b : St!Merge(a, b) = [whole |-> St!Merge(a, b).whole, set |-> St!Merge(a, b).set,
                                     paths |-> St!Merge(a, b).paths]
    BY DEF St!Merge
  <2>1. r = [whole |-> r.whole, set |-> r.set, paths |-> r.paths]
    BY <1>1, <2>5
  <2>2. St!LoadAt = [r EXCEPT !.set = [f \in Field |-> St!Substitute(r.set[f])]]
    BY <1>1
  <2> HIDE DEF r
  <2>3. St!LoadAt = [whole |-> r.whole, set |-> [f \in Field |-> St!Substitute(r.set[f])],
                     paths |-> r.paths]
    BY <2>1, <2>2
  <2>4. St!LoadAt.set = [f \in Field |-> St!Substitute(r.set[f])] /\ St!LoadAt.paths = r.paths
    BY <2>3
  <2> QED BY <2>4 DEF r
<1> HIDE DEF k
<1>5. ASSUME NEW f \in Field, files[l].set[f] # Unset,
             \A h \in St!Layer : St!Rank(h) > k => files[h].set[f] = Unset
      PROVE  St!LoadAt.set[f] = St!Substitute(files[l].set[f])
  <2> DEFINE Good == {n \in 0 .. 5 : n >= k => m[n].set[f] = files[l].set[f]}
  <2>1. 0 \in Good
    BY <1>2
  <2>2. \A n \in 1 .. 5 : n - 1 \in Good => n \in Good
    <3> SUFFICES ASSUME NEW n \in 1 .. 5, n - 1 \in Good, n >= k
                 PROVE  m[n].set[f] = files[l].set[f]
      OBVIOUS
    <3>1. CASE n = k
      BY <1>2, <1>3, <1>5, <3>1
    <3>2. CASE n # k
      <4>1. n - 1 >= k /\ m[n - 1].set[f] = files[l].set[f]
        BY <1>2, <3>2
      <4>2. files[St!Layers[n]].set[f] = Unset
        BY <1>2, <1>5, <3>2, Ranks
      <4> QED BY <1>3, <4>1, <4>2
    <3> QED BY <3>1, <3>2
  <2> HIDE DEF Good
  <2>3. \A n \in 0 .. 5 : n \in Good
    BY <2>1, <2>2, Induct
  <2>4. m[5].set[f] = files[l].set[f]
    BY <1>2, <2>3 DEF Good
  <2> QED BY <1>4, <2>4
<1>6. ASSUME NEW x, St!Contains(files[l].paths, x) PROVE St!Contains(St!LoadAt.paths, x)
  <2> DEFINE Good == {n \in 0 .. 5 : /\ m[n].paths \in Seq(Entries)
                                     /\ n >= k => St!Contains(m[n].paths, x)}
  <2>5. m[0].paths = <<>> /\ <<>> \in Seq(Entries)
    BY <1>1 DEF St!Empty
  <2>6. m[0].paths \in Seq(Entries)
    BY <2>5, Zenon
  <2>7. ~(0 >= k) /\ 0 \in 0 .. 5
    BY <1>2
  <2>1. 0 \in Good
    BY <2>6, <2>7, Zenon
  <2>2. \A n \in 1 .. 5 : n - 1 \in Good => n \in Good
    <3> SUFFICES ASSUME NEW n \in 1 .. 5, n - 1 \in Good PROVE n \in Good
      OBVIOUS
    <3>1. m[n - 1].paths \in Seq(Entries) /\ (n - 1 >= k => St!Contains(m[n - 1].paths, x))
      OBVIOUS
    <3>2. files[St!Layers[n]].paths \in Seq(Entries)
      BY Ranks DEF PathInv
    <3>3. /\ m[n].paths \in Seq(Entries)
          /\ \A y : St!Contains(m[n - 1].paths, y) \/ St!Contains(files[St!Layers[n]].paths, y)
                     => St!Contains(m[n].paths, y)
      <4> DEFINE a == m[n - 1].paths
                 b == files[St!Layers[n]].paths
      <4>1. a \in Seq(Entries) /\ b \in Seq(Entries) /\ m[n].paths = St!ConcatDedupe(a, b)
        BY <1>3, <3>1, <3>2
      <4> HIDE DEF a, b
      <4>2. /\ St!ConcatDedupe(a, b) \in Seq(Entries)
            /\ \A y : St!Contains(a, y) \/ St!Contains(b, y) => St!Contains(St!ConcatDedupe(a, b), y)
        BY <4>1, Deduped
      <4> QED BY <4>1, <4>2 DEF a, b
    <3>4. n >= k => n = k \/ n - 1 >= k
      BY <1>2
    <3> QED BY <1>2, <1>6, <3>1, <3>3, <3>4
  <2> HIDE DEF Good
  <2>3. \A n \in 0 .. 5 : n \in Good
    BY <2>1, <2>2, Induct
  <2>4. St!Contains(m[5].paths, x)
    BY <1>2, <2>3 DEF Good
  <2> QED BY <1>4, <2>4
<1> QED BY <1>5, <1>6 DEF k

\* What all steps keep.
LEMMA PatchStep ==
  PatchInv /\ PathInv /\ [St!Next]_(St!vars) => PatchInv' /\ PathInv'
<1> SUFFICES ASSUME PatchInv, PathInv, [St!Next]_(St!vars) PROVE PatchInv' /\ PathInv'
  OBVIOUS
<1>1. ASSUME UNCHANGED <<files, patcher, acked>> PROVE PatchInv' /\ PathInv'
  BY <1>1 DEF PatchInv, PatchShapes, OnePatches, HeldInv, AckedStays, Later, HoldsLock,
              PathInv, Lists
<1>2. ASSUME NEW q \in AuthRequest \cup Tool,
             St!Snapshot(q) \/ St!LoadStore(q) \/ St!TruncateStore(q) \/ St!WriteStore(q)
      PROVE  UNCHANGED <<files, patcher, acked>>
  BY <1>2 DEF St!Snapshot, St!LoadStore, St!TruncateStore, St!WriteStore
<1>3. CASE UNCHANGED St!vars
  BY <1>1, <1>3 DEF St!vars
<1> QED BY <1>1, <1>2, <1>3, ReadKeeps, TruncateKeeps, WriteKeeps, RestartKeeps,
          ReadLists, TruncateLists, WriteLists, RestartLists DEF St!Next

\* For any layers, fields, entries and patches, whatever a crash interrupts: what a patch was
\* answered for is in the configuration that LoadAt merges, unless a later patch or a higher
\* layer sets its field (patchConfigFile in server/handlers_config.go, Loader.LoadAt).
THEOREM PatchesAreShown == St!Spec => []PatchesShow
<1>1. ASSUME PatchInv, PathInv PROVE St!PatchesShow
  <2> SUFFICES ASSUME \A l \in St!Layer : files[l].whole, NEW i \in DOMAIN acked
               PROVE  LET p == acked[i] IN
                      /\ \/ St!LoadAt.set[p.field] = St!Substitute(p.value)
                         \/ Later(i)
                         \/ \E l \in St!Layer : St!Rank(l) > St!Rank(p.file) /\ files[l].set[p.field] # Unset
                      /\ p.path = Unset \/ St!Contains(St!LoadAt.paths, p.path)
    BY DEF St!PatchesShow, St!Loads, Later
  <2> DEFINE p == acked[i]
  <2>5. p \in Patch
    BY <1>1 DEF PatchInv, PatchShapes
  <2>1. p.file \in St!Layer /\ p.field \in Field /\ p.value # Unset
    BY <2>5, PatchAssumption
  <2>2. files[p.file].set[p.field] = p.value \/ Later(i)
    BY <1>1, <2>1 DEF PatchInv, AckedStays
  <2>3. p.path = Unset \/ St!Contains(files[p.file].paths, p.path)
    BY <1>1, <2>1 DEF PathInv, Lists
  <2> HIDE DEF p
  <2>4. /\ \/ St!LoadAt.set[p.field] = St!Substitute(p.value)
           \/ Later(i)
           \/ \E l \in St!Layer : St!Rank(l) > St!Rank(p.file) /\ files[l].set[p.field] # Unset
        /\ p.path = Unset \/ St!Contains(St!LoadAt.paths, p.path)
    BY <1>1, <2>1, <2>2, <2>3, LayerShows
  <2> QED BY <2>4 DEF p
<1> QED BY <1>1, PatchInit, PathInit, PatchStep, PTL DEF St!Spec, PatchesShow

=============================================================================
