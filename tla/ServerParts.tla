----------------------------- MODULE ServerParts ------------------------------
(* What the server's processes keep in files: the data directory, the       *)
(* profiles, the files that tools edit, the catalogue of providers and the  *)
(* settings.  They share no state; their names are brought together here,   *)
(* with what is assumed of their constants, for the run and the proofs.     *)
EXTENDS DataDir

CONSTANTS Process, Id, Default, Name, NoName, NameRank, MaxCommands,             \* Profiles
          Call, Arguments, FileOf, Texts,                                    \* FileTools
          Word,          \* what the texts of files are made of
          Fallback, Probes, Answers, Configs, MaxStarts,                     \* Catalogue
          Field, Value, Path, Unset, EnvOf, Patch,                           \* Settings
          Provider, Keys, EnvKey, ConfigKey, AuthRequest, Tool

VARIABLES profile, called, marker, step, job, begun, lone, overlapped, disturbed,  \* Profiles
          given, before, disk, stage, made,                                  \* FileTools
          config, cache, info, running, starts, latest, stored, pure,        \* Catalogue
          files, patcher, acked, memory, auth, writer, cut                   \* Settings

Pf == INSTANCE Profiles WITH Rank <- NameRank, pc <- step
Ft == INSTANCE FileTools WITH at <- stage
Ct == INSTANCE Catalogue
St == INSTANCE Settings WITH Key <- Keys

\* There is a default profile, and names are ordered.
ASSUME ProfileAssumption ==
  /\ Default \in Id
  /\ NameRank \in [Id \cup Name -> Nat]
  /\ \A x, y \in Id \cup Name : NameRank[x] = NameRank[y] => x = y

\* Texts and what replaces them are words.
ASSUME TextAssumption ==
  /\ \A t \in Texts : t \in [DOMAIN t -> Seq(Word)]
  /\ \A a \in Arguments : \A c \in Call : a[c].new \in Word

\* A patch sets a field of a layer.
ASSUME PatchAssumption ==
  \A p \in Patch : p.file \in St!Layer /\ p.field \in Field /\ p.value # Unset

-----------------------------------------------------------------------------
(* Their properties, under the names they have there. *)

\* The active marker names a profile that can be used (Profiles).
MarkerUsable == Pf!MarkerUsable
\* No two profiles go by the same name (Profiles).
NamesDiffer == Pf!NamesDiffer
\* Edits of a file by one process under one name are as if one came after the other (FileTools).
EditsAreKept == Ft!EditsAreKept
\* So are edits and writes under any of its names (FileTools).
CallsAreKept == Ft!CallsAreKept
\* So are edits of several processes under one name (FileTools).
NamedEditsAreKept == Ft!NamedEditsAreKept
\* The last catalogue that was found is offered through an outage (Catalogue).
CatalogueOutlivesOutage == Ct!CatalogueOutlivesOutage
\* A catalogue that is known stays in use, whatever is fetched (Catalogue).
GarbageIsNoAnswer == Ct!GarbageIsNoAnswer
\* A model that is offered can be used (Catalogue).
ListedResolves == Ct!ListedResolves
\* An acknowledged patch shows in the configuration that is read (Settings).
PatchesShow == St!PatchesShow
\* A key that is said to be removed is no longer used (Settings).
KeysPersist == St!KeysPersist
=============================================================================
