------------------------------- MODULE Profiles -------------------------------
(***************************************************************************)
(* Profiles on disk (internal/config/profile.go): a directory per profile, *)
(* whose config file may name it, and the marker of the active one.        *)
(* Processes of the command line (yolo profile add, use, edit, remove,     *)
(* copy) and starting servers (EnsureActive) change them with plain file   *)
(* operations and no lock; a process may die between any two.              *)
(*                                                                         *)
(* os.WriteFile truncates before it writes: a file in between is Torn, and *)
(* a profile whose file is torn does not load.  Of a profile's config only *)
(* its name is kept.                                                       *)
(***************************************************************************)
EXTENDS Naturals, FiniteSets

CONSTANTS
  Process,
  Id, Default,   \* directory names, the one called default
  Name, NoName,  \* display names
  Rank,          \* [Id \cup Name -> order in which List sorts]
  MaxCommands    \* bound: commands begun

VARIABLES
  profile,   \* [Id -> "none", "bare", "torn" or "named"]: directory and config file
  called,    \* [Id -> name its config gives]
  marker,    \* contents of <root>/active: an Id, "missing" or "torn"
  pc,        \* [Process -> what it does next]
  job,       \* [Process -> the command's arguments and what it has read]
  begun,     \* commands begun so far
  lone,      \* processes that have run alone since they began
  overlapped,\* two commands have run at once
  disturbed  \* a command died or ran beside another since the last clean start

vars == <<profile, called, marker, pc, job, begun, lone, overlapped, disturbed>>
files == <<profile, called, marker>>

NoJob == [id |-> Default, name |-> NoName, start |-> FALSE]
Idle(p) == pc[p] = "idle"
There == {i \in Id : profile[i] # "none"}

\* List: the effective name; a profile that does not load goes by its id.
Effective(i) == IF profile[i] = "named" /\ called[i] # NoName THEN called[i] ELSE i
First == CHOOSE i \in There :
           \A j \in There : \/ Rank[Effective(i)] < Rank[Effective(j)]
                            \/ Effective(i) = Effective(j) /\ Rank[i] <= Rank[j]

\* Resolve: an id, or else the name of one profile only.
Resolved(ref) ==
  LET named == {i \in There : profile[i] = "named" /\ called[i] = ref}
  IN IF ref \in There THEN {ref} ELSE IF Cardinality(named) = 1 THEN named ELSE {}

\* checkNameFreeFor, with the profile itself left out.
NameFree(name, self) == name = NoName \/ \A i \in There \ {self} : Effective(i) # name

Goes(p, where) == pc' = [pc EXCEPT ![p] = where]

\* A command begins, alone or not, and finds its way from what it reads.
Begin(p, where, id, name, start) ==
  LET alone == \A q \in Process \ {p} : Idle(q) IN
  /\ Idle(p)
  /\ begun < MaxCommands
  /\ begun' = begun + 1
  /\ Goes(p, where)
  /\ job' = [job EXCEPT ![p] = [id |-> id, name |-> name, start |-> start]]
  /\ lone' = IF alone THEN {p} ELSE {}
  /\ overlapped' = (overlapped \/ ~alone)
  /\ disturbed' = (disturbed \/ ~alone)
  /\ UNCHANGED files

Step(p, where) == Goes(p, where) /\ UNCHANGED <<job, begun, lone, overlapped, disturbed>>

\* The command is done; a start that ran alone has put the marker right.
Finish(p) ==
  /\ Goes(p, "idle")
  /\ job' = [job EXCEPT ![p] = NoJob]
  /\ disturbed' = (disturbed /\ ~(job[p].start /\ p \in lone))
  /\ UNCHANGED <<begun, lone, overlapped>>

-----------------------------------------------------------------------------
(* Commands.                                                               *)

\* Add, and Copy of a profile that loads: the name is free, the id (8 random hex
\* digits) new.
Add(p, id, name) ==
  /\ id \in Id \ (There \cup {Default})
  /\ NameFree(name, id)
  /\ Begin(p, "mkdir", id, name, FALSE)
Copy(p, src, id, name) ==
  /\ profile[src] \in {"bare", "named"}
  /\ name # NoName
  /\ Add(p, id, name)
MakeDir(p) ==
  /\ pc[p] = "mkdir"
  /\ profile' = [profile EXCEPT ![job[p].id] = IF @ = "none" THEN "bare" ELSE @]
  /\ UNCHANGED <<called, marker>>
  /\ IF job[p].name = NoName THEN Finish(p) ELSE Step(p, "truncate")

\* Edit: the config is loaded and rewritten with the new name, or none.
EditUnchecked(p, id, name) ==
  /\ profile[id] \in {"bare", "named"}
  /\ Begin(p, "truncate", id, name, FALSE)
Edit(p, id, name) ==
  /\ profile[id] \in {"bare", "named"}
  /\ NameFree(name, id)
  /\ Begin(p, "truncate", id, name, FALSE)

\* os.WriteFile of the config; its directory may be gone by now.
Truncate(p) ==
  /\ pc[p] = "truncate"
  /\ \/ /\ profile[job[p].id] # "none"
        /\ profile' = [profile EXCEPT ![job[p].id] = "torn"]
        /\ Step(p, "write")
     \/ /\ profile[job[p].id] = "none"
        /\ Finish(p)
        /\ UNCHANGED profile
  /\ UNCHANGED <<called, marker>>
Write(p) ==
  /\ pc[p] = "write"
  /\ \/ /\ profile[job[p].id] # "none"
        /\ profile' = [profile EXCEPT ![job[p].id] = "named"]
        /\ called' = [called EXCEPT ![job[p].id] = job[p].name]
     \/ /\ profile[job[p].id] = "none"
        /\ UNCHANGED <<profile, called>>
  /\ Finish(p)
  /\ UNCHANGED marker

\* SetActive: the directory is checked, the marker written.
Use(p, id) ==
  /\ id \in There
  /\ Begin(p, "mark", id, NoName, FALSE)
TruncateMarker(p) ==
  /\ pc[p] = "mark"
  /\ marker' = "torn"
  /\ Step(p, "marked")
  /\ UNCHANGED <<profile, called>>
WriteMarker(p) ==
  /\ pc[p] = "marked"
  /\ marker' = job[p].id
  /\ Finish(p)
  /\ UNCHANGED <<profile, called>>

\* Remove: the marker is read before the directory goes, and moved afterwards.
RemoveKeepsMarker(p, id) ==
  /\ id \in There
  /\ Begin(p, "remove", id, NoName, FALSE)
Remove(p, id) ==
  /\ id \in There
  /\ Begin(p, IF marker = id THEN "remove active" ELSE "remove", id, NoName, FALSE)
RemoveAll(p) ==
  /\ pc[p] \in {"remove", "remove active"}
  /\ profile' = [profile EXCEPT ![job[p].id] = "none"]
  /\ called' = [called EXCEPT ![job[p].id] = NoName]
  /\ IF pc[p] = "remove" THEN Finish(p) ELSE Step(p, "fall back")
  /\ UNCHANGED marker

\* The first that remains, or a new default; SetActive checks that it is there.
FallBack(p) ==
  /\ pc[p] = "fall back"
  /\ LET next == IF There = {} THEN Default ELSE First IN
       /\ profile' = IF There = {} THEN [profile EXCEPT ![Default] = "bare"] ELSE profile
       /\ job' = [job EXCEPT ![p].id = next]
  /\ Goes(p, "check")
  /\ UNCHANGED <<called, marker, begun, lone, overlapped, disturbed>>
Check(p) ==
  /\ pc[p] = "check"
  /\ IF job[p].id \in There THEN Step(p, "mark") ELSE Finish(p)
  /\ UNCHANGED files

\* EnsureActive of a starting server: a marker that names no profile is replaced.
Start(p) ==
  /\ marker \notin There
  /\ Begin(p, "default", Default, NoName, TRUE)
MakeDefault(p) ==
  /\ pc[p] = "default"
  /\ profile' = [profile EXCEPT ![Default] = IF @ = "none" THEN "bare" ELSE @]
  /\ Step(p, "check")
  /\ UNCHANGED <<called, marker>>
\* A start that finds its profile changes nothing.
StartFinds ==
  /\ marker \in There
  /\ \A p \in Process : Idle(p)
  /\ disturbed' = FALSE
  /\ UNCHANGED <<files, pc, job, begun, lone, overlapped>>

Crash(p) ==
  /\ ~Idle(p)
  /\ Goes(p, "idle")
  /\ job' = [job EXCEPT ![p] = NoJob]
  /\ disturbed' = TRUE
  /\ UNCHANGED <<files, begun, lone, overlapped>>

-----------------------------------------------------------------------------
Init ==
  /\ profile = [i \in Id |-> "none"] /\ called = [i \in Id |-> NoName] /\ marker = "missing"
  /\ pc = [p \in Process |-> "idle"] /\ job = [p \in Process |-> NoJob]
  /\ begun = 0 /\ lone = {} /\ overlapped = FALSE /\ disturbed = FALSE

\* The command line: references are resolved, ids are generated.
Reference == Id \cup Name
AddCommand(p) == \E id \in Id, name \in Name \cup {NoName} : Add(p, id, name)
UseCommand(p) == \E ref \in Reference : \E id \in Resolved(ref) : Use(p, id)
EditCommand(p) ==
  \E ref \in Reference, name \in Name \cup {NoName} : \E id \in Resolved(ref) : Edit(p, id, name)
RemoveCommand(p) == \E ref \in Reference : \E id \in Resolved(ref) : Remove(p, id)
CopyCommand(p) ==
  \E ref \in Reference, id \in Id, name \in Name : \E src \in Resolved(ref) : Copy(p, src, id, name)
Commands(p) ==
  AddCommand(p) \/ UseCommand(p) \/ EditCommand(p) \/ RemoveCommand(p) \/ CopyCommand(p) \/ Start(p)
Steps(p) ==
  \/ MakeDir(p) \/ Truncate(p) \/ Write(p) \/ TruncateMarker(p) \/ WriteMarker(p)
  \/ RemoveAll(p) \/ FallBack(p) \/ Check(p) \/ MakeDefault(p)
Next == (\E p \in Process : Commands(p) \/ Steps(p) \/ Crash(p)) \/ StartFinds

Spec == Init /\ [][Next]_vars

-----------------------------------------------------------------------------
\* Commands one after the other leave a marker that names a profile, and a start
\* repairs what a command that died or raced with another has left.
MarkerUsable ==
  (\A p \in Process : Idle(p)) /\ ~disturbed => marker \in There \cup {"missing"}

\* Not a property of this code (see the findings): as long as no two commands run
\* at once, no two profiles go by one name (ErrNameTaken), whichever of them die.
NamesDiffer ==
  ~overlapped => \A i, j \in There : Effective(i) = Effective(j) => i = j
=============================================================================
