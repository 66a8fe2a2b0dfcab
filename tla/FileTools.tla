------------------------------ MODULE FileTools ------------------------------
(* tool/edit.go and tool/write.go: what edit and write calls of different     *)
(* sessions make of the files they share.  A session runs its calls one by    *)
(* one, but sessions run at once, and so do the processes they belong to.  An *)
(* edit holds a lock of its process that belongs to the name it was given,    *)
(* made absolute and nothing more: edits of two processes, or under two       *)
(* names, do not exclude each other, and a write holds no lock.  os.WriteFile *)
(* truncates the file, then fills it from its first byte.  A text is a        *)
(* sequence of words of one length.                                           *)
EXTENDS Naturals, Sequences, FiniteSets, SequencesExt

CONSTANTS
    Call,           \* tool calls that may run at once
    Arguments,      \* what to check: [Call -> [process, tool, name, old, new, all]]; a write
                    \* has neither old nor all
    FileOf,         \* absolute name -> the file it leads to, links followed
    Texts           \* what the files may hold in the beginning: [file -> text]

VARIABLES
    given,           \* one of Arguments
    before,         \* one of Texts
    disk,           \* file that exists -> its text
    at,             \* call -> "asked" -> "locked" -> "read" -> "cut" -> "ok", "refused" or "failed"
    made            \* call -> the text it is to store

vars == <<given, before, disk, at, made>>

File == Range(FileOf)
Target(c) == FileOf[given[c].name]
Set(d, f, text) == [g \in DOMAIN d \cup {f} |-> IF g = f THEN text ELSE d[g]]

Init ==
    /\ given \in Arguments /\ before \in Texts
    /\ disk = before
    /\ at = [c \in Call |-> "asked"]
    /\ made = [c \in Call |-> <<>>]

(* --------------------------- what an edit makes -------------------------- *)

Places(text, old) == {i \in 1..Len(text) : text[i] = old}

\* editApply: an empty oldString creates a file; any other must stand in the
\* file, and once only unless replaceAll is given.
Refuses(d, a) ==
    LET f == FileOf[a.name] IN
    IF a.old = ""
    THEN f \in DOMAIN d
    ELSE \/ f \notin DOMAIN d
         \/ Places(d[f], a.old) = {}
         \/ Cardinality(Places(d[f], a.old)) > 1 /\ ~a.all
Makes(d, a) ==
    IF a.tool = "write" \/ a.old = ""
    THEN <<a.new>>
    ELSE [i \in DOMAIN d[FileOf[a.name]] |->
            IF d[FileOf[a.name]][i] = a.old THEN a.new ELSE d[FileOf[a.name]][i]]

(* -------------------------------- the calls ------------------------------ *)

Move(c, from, to) == at[c] = from /\ at' = [at EXCEPT ![c] = to]
Holding == {"locked", "read", "cut"}

\* fileLock: a process has one mutex for each name, which it keeps for its life.
LockOf(c) == <<given[c].process, given[c].name>>
NeverLocked(c) == FALSE
Locked(c) ==
    \E d \in Call \ {c} :
        given[d].tool = "edit" /\ at[d] \in Holding /\ LockOf(d) = LockOf(c)

Lock(c) ==
    /\ given[c].tool = "edit" /\ ~Locked(c)
    /\ Move(c, "asked", "locked")
    /\ UNCHANGED <<given, before, disk, made>>

\* editApply up to its result, which it makes of the text it has read.
Read(c) ==
    /\ at[c] = "locked"
    /\ IF Refuses(disk, given[c])
       THEN Move(c, "locked", "refused") /\ UNCHANGED made
       ELSE Move(c, "locked", "read") /\ made' = [made EXCEPT ![c] = Makes(disk, given[c])]
    /\ UNCHANGED <<given, before, disk>>

\* writeTool.Run goes there at once: the old text is for its diff alone.
ReadForDiff(c) ==
    /\ given[c].tool = "write"
    /\ Move(c, "asked", "read")
    /\ made' = [made EXCEPT ![c] = Makes(disk, given[c])]
    /\ UNCHANGED <<given, before, disk>>

Truncate(c) ==
    /\ Move(c, "read", "cut")
    /\ disk' = Set(disk, Target(c), <<>>)
    /\ UNCHANGED <<given, before, made>>

\* Another call may have filled the file since: what is longer stays behind.
Over(text, old) == text \o SubSeq(old, Len(text) + 1, Len(old))
Fill(c) ==
    /\ Move(c, "cut", "ok")
    /\ disk' = Set(disk, Target(c), Over(made[c], disk[Target(c)]))
    /\ UNCHANGED <<given, before, made>>

\* The disk is full: the call reports it, the file stays cut.
FillFails(c) ==
    /\ Move(c, "cut", "failed")
    /\ UNCHANGED <<given, before, disk, made>>

Next == \E c \in Call :
    Lock(c) \/ Read(c) \/ ReadForDiff(c) \/ Truncate(c) \/ Fill(c) \/ FillFails(c)

Spec == Init /\ [][Next]_vars

(* ------------------------------- properties ------------------------------ *)

Successes == {c \in Call : at[c] = "ok"}
Settled == \A c \in Call : at[c] \in {"ok", "refused"}

\* What calls make of the files one after the other; each must be accepted.
Serial ==
    \E order \in SetToSeqs(Successes) :
        LET after[n \in 0 .. Len(order)] ==
                IF n = 0 THEN before
                ELSE Set(after[n - 1], Target(order[n]), Makes(after[n - 1], given[order[n]]))
        IN  /\ \A n \in 1 .. Len(order) :
                  given[order[n]].tool = "write" \/ ~Refuses(after[n - 1], given[order[n]])
            /\ after[Len(order)] = disk

\* Edits of a file that one process makes under one name are as if one came
\* after the other: none that reported success is lost, and each found its
\* text once in what the others had left (fileLock around editApply).  Edits
\* of two processes share no lock, and nothing is said of a file they share.
EditsAreKept ==
    (Settled /\ \A c, d \in Call :
        given[c].tool = "edit" /\ (Target(c) = Target(d) => LockOf(c) = LockOf(d)))
      => Serial

\* Not a property of this code (see the findings): calls that all reported
\* success are as if one came after the other, whatever tool made them, in
\* whichever process and under whichever name of the file.
CallsAreKept == Settled => Serial

\* Nor is this one: edits alone, of a file that goes by one name, are as if
\* one came after the other whichever processes make them.
NamedEditsAreKept ==
    (Settled /\ \A c, d \in Call :
        given[c].tool = "edit" /\ (Target(c) = Target(d) => given[c].name = given[d].name))
      => Serial
=============================================================================
