------------------------------ MODULE Settings ------------------------------
(* What one server keeps in files that others write too: the configuration   *)
(* layers, patched over HTTP and edited by the profile command, and the keys  *)
(* of auth.json, held in memory from the start of the server and written by   *)
(* the auth handlers and the auth command.  os.WriteFile truncates a file,    *)
(* then writes it: a crash or a reader may come between.                      *)
EXTENDS Naturals, Sequences, SequencesExt

CONSTANTS
    Field,          \* top-level keys of the configuration
    Value,          \* their values
    Path,           \* entries of "instructions"
    Unset,          \* a field, a key or an environment variable that is not set
    EnvOf,          \* the environment: what Substitute makes of a value
    Patch,          \* PATCH requests: [file, field, value, path]
    Provider, Key,  \* credentials
    EnvKey,         \* provider -> the key its environment variable holds, or Unset
    ConfigKey,      \* provider -> the key its configuration holds, or Unset
    AuthRequest,    \* PUT (key set) and DELETE (key Unset): [provider, key]
    Tool            \* runs of yolo auth add and remove, requests of the same shape

\* The layers of Loader.LoadAt, lowest first.  The two that PATCH writes are
\* yolo.jsonc of the profile and of the project.
Layers == <<"config.json", "yolo.json", "yolo.jsonc", "project", ".yolo">>
Layer == Range(Layers)

VARIABLES
    files,          \* layer -> [whole, set, paths]
    patcher,        \* patch -> [at, holds]
    acked,          \* patches answered 200, in the order of their writes
    memory,         \* server.authStore
    auth,           \* auth.json: [whole, keys]
    writer,         \* auth request or tool run -> [at, holds]
    cut             \* a crash came between a truncation and its write

vars == <<files, patcher, acked, memory, auth, writer, cut>>

NoFields == [f \in Field |-> Unset]
NoKeys == [p \in Provider |-> Unset]
Empty == [whole |-> TRUE, set |-> NoFields, paths |-> <<>>]

(* ---------------------------- merging layers ----------------------------- *)

\* concatDedupe keeps the first occurrence of each entry.
ConcatDedupe(a, b) ==
    LET all == a \o b
        kept[n \in 0 .. Len(all)] ==
            IF n = 0 THEN <<>>
            ELSE LET before == kept[n - 1]
                 IN  IF Contains(before, all[n]) THEN before ELSE Append(before, all[n])
    IN  kept[Len(all)]

\* Merge: what the second map sets wins, "instructions" of both are kept.
MergeKeepsFirst(a, b) ==
    [whole |-> TRUE,
     set |-> [f \in Field |-> IF a.set[f] = Unset THEN b.set[f] ELSE a.set[f]],
     paths |-> ConcatDedupe(a.paths, b.paths)]
Merge(a, b) ==
    [whole |-> TRUE,
     set |-> [f \in Field |-> IF b.set[f] = Unset THEN a.set[f] ELSE b.set[f]],
     paths |-> ConcatDedupe(a.paths, b.paths)]

Substitute(v) == IF v \in DOMAIN EnvOf THEN EnvOf[v] ELSE v

\* LoadAt fails on a layer that does not parse, and else folds all of them.
Loads == \A l \in Layer : files[l].whole
LoadAt ==
    LET merged[n \in 0 .. Len(Layers)] ==
            IF n = 0 THEN Empty ELSE Merge(merged[n - 1], files[Layers[n]])
        raw == merged[Len(Layers)]
    IN  [raw EXCEPT !.set = [f \in Field |-> Substitute(raw.set[f])]]

(* ------------------------- PATCH of the configuration -------------------- *)

Partial(p) == [whole |-> TRUE, set |-> [NoFields EXCEPT ![p.field] = p.value],
               paths |-> IF p.path = Unset THEN <<>> ELSE <<p.path>>]
At(p) == patcher[p].at
\* configWriteMu is held from the read to the end of the write.
LockAroundWrite == \A p \in Patch : At(p) # "truncated"
LockFree == \A p \in Patch : At(p) \notin {"holding", "truncated"}

ReadLayer(p) ==
    /\ At(p) = "asked" /\ LockFree
    /\ patcher' = [patcher EXCEPT ![p] =
          IF files[p.file].whole
          THEN [at |-> "holding", holds |-> Merge(files[p.file], Partial(p))]
          ELSE [at |-> "failed", holds |-> Empty]]
    /\ UNCHANGED <<files, acked, memory, auth, writer, cut>>

TruncateLayer(p) ==
    /\ At(p) = "holding"
    /\ files' = [files EXCEPT ![p.file].whole = FALSE]
    /\ patcher' = [patcher EXCEPT ![p].at = "truncated"]
    /\ UNCHANGED <<acked, memory, auth, writer, cut>>

WriteLayer(p) ==
    /\ At(p) = "truncated"
    /\ files' = [files EXCEPT ![p.file] = patcher[p].holds]
    /\ patcher' = [patcher EXCEPT ![p].at = "written"]
    /\ acked' = Append(acked, p)
    /\ UNCHANGED <<memory, auth, writer, cut>>

(* ------------------------------ credentials ------------------------------ *)

Writing(q) == writer[q].at
\* The handlers change memory and copy it under authMu, and write the copy
\* outside it.
Snapshot(q) ==
    /\ q \in AuthRequest /\ Writing(q) = "asked"
    /\ memory' = [memory EXCEPT ![q.provider] = q.key]
    /\ writer' = [writer EXCEPT ![q] = [at |-> "holding", holds |-> memory']]
    /\ UNCHANGED <<files, patcher, acked, auth, cut>>

\* The command reads the file, gives up when it does not parse, changes it.
LoadStore(q) ==
    /\ q \in Tool /\ Writing(q) = "asked"
    /\ writer' = [writer EXCEPT ![q] =
          IF auth.whole
          THEN [at |-> "holding", holds |-> [auth.keys EXCEPT ![q.provider] = q.key]]
          ELSE [at |-> "failed", holds |-> NoKeys]]
    /\ UNCHANGED <<files, patcher, acked, memory, auth, cut>>

TruncateStore(q) ==
    /\ Writing(q) = "holding"
    /\ auth' = [auth EXCEPT !.whole = FALSE]
    /\ writer' = [writer EXCEPT ![q].at = "truncated"]
    /\ UNCHANGED <<files, patcher, acked, memory, cut>>

\* Of two overlapping writes the later may leave the longer one's tail behind.
WriteStore(q) ==
    /\ Writing(q) = "truncated"
    /\ \E whole \in IF auth.whole THEN BOOLEAN ELSE {TRUE} :
          auth' = [whole |-> whole, keys |-> writer[q].holds]
    /\ writer' = [writer EXCEPT ![q].at = "written"]
    /\ UNCHANGED <<files, patcher, acked, memory, cut>>

\* What a turn resolves: environment, file, configuration; a file that does not
\* parse counts as an empty one.
ResolveKey(p) ==
    CASE EnvKey[p] # Unset -> EnvKey[p]
      [] auth.whole /\ auth.keys[p] # Unset -> auth.keys[p]
      [] OTHER -> ConfigKey[p]
\* What GET /provider reports, from memory.
AuthState(p) ==
    CASE EnvKey[p] # Unset -> EnvKey[p]
      [] memory[p] # Unset -> memory[p]
      [] OTHER -> ConfigKey[p]

(* ---------------------------- start and crash ---------------------------- *)

Stops(at) == IF at \in {"holding", "truncated"} THEN "failed" ELSE at

\* initAuth: a file that does not parse makes an empty store.
InitAuth == IF auth.whole THEN auth.keys ELSE NoKeys

\* The server process dies and is started again; the tools are processes of
\* their own.
Restart ==
    /\ \/ \E p \in Patch : At(p) \in {"holding", "truncated"}
       \/ \E q \in AuthRequest : Writing(q) \in {"holding", "truncated"}
    /\ patcher' = [p \in Patch |-> [patcher[p] EXCEPT !.at = Stops(@)]]
    /\ writer' = [q \in DOMAIN writer |->
          IF q \in AuthRequest THEN [writer[q] EXCEPT !.at = Stops(@)] ELSE writer[q]]
    /\ cut' = (cut \/ \E p \in Patch : At(p) = "truncated")
    /\ memory' = InitAuth
    /\ UNCHANGED <<files, acked, auth>>

\* No layer sets anything, or one of them a field and a path.
SetOnce(f, v, x) ==
    [whole |-> TRUE, set |-> [NoFields EXCEPT ![f] = v], paths |-> <<x>>]
InitFiles ==
    \/ files = [l \in Layer |-> Empty]
    \/ \E at \in Layer, f \in Field, v \in Value, x \in Path :
          files = [l \in Layer |-> IF l = at THEN SetOnce(f, v, x) ELSE Empty]

Init ==
    /\ InitFiles
    /\ patcher \in [Patch -> [at: {"asked", "never"}, holds: {Empty}]]
    /\ acked = <<>>
    /\ auth \in [whole: {TRUE}, keys: [Provider -> {Unset} \cup Key]]
    /\ memory = auth.keys
    /\ writer \in [AuthRequest \cup Tool -> [at: {"asked", "never"}, holds: {NoKeys}]]
    /\ cut = FALSE

Next ==
    \/ \E p \in Patch : ReadLayer(p) \/ TruncateLayer(p) \/ WriteLayer(p)
    \/ \E q \in AuthRequest \cup Tool :
          Snapshot(q) \/ LoadStore(q) \/ TruncateStore(q) \/ WriteStore(q)
    \/ Restart

Spec == Init /\ [][Next]_vars

(* ------------------------------ properties ------------------------------- *)

Rank(l) == CHOOSE i \in DOMAIN Layers : Layers[i] = l

\* A patch that was answered shows in the configuration the next session loads,
\* unless a later patch of that field was answered or a higher layer sets it:
\* "concurrent PATCHes to the same file cannot lose an update"
\* (handlers_config.go:67).
PatchesShow ==
    ~cut /\ Loads =>
      \A i \in DOMAIN acked :
        LET p == acked[i] IN
        /\ \/ LoadAt.set[p.field] = Substitute(p.value)
           \/ \E j \in DOMAIN acked : j > i /\ acked[j].file = p.file /\ acked[j].field = p.field
           \/ \E l \in Layer : Rank(l) > Rank(p.file) /\ files[l].set[p.field] # Unset
        /\ p.path = Unset \/ Contains(LoadAt.paths, p.path)

\* Once every request is done, what a turn resolves is what the server reports:
\* a handler "upserts the key in the boot-lifetime store and persists it"
\* (handlers_provider.go:146).
KeysPersist ==
    (\A q \in DOMAIN writer : Writing(q) \in {"never", "written", "failed"}) =>
        \A p \in Provider : ResolveKey(p) = AuthState(p)
=============================================================================
