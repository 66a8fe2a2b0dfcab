------------------------------ MODULE Catalogue ------------------------------
(* provider/provider.go, kido.go and zen.go: the providers a server knows.     *)
(* They are gathered once, at its start: kido's models by a probe or from a    *)
(* fixed list, the opencode catalogue through a file that is fetched anew once *)
(* it is too old, and the providers of the configuration.  GET /provider       *)
(* (server/handlers_provider.go) adds what the configuration says by then.     *)
EXTENDS Naturals, FiniteSets

CONSTANTS
    Fallback,       \* kidoFallback: the models when the probe fails
    Probes,         \* what {base}/models may answer: models with a context size; {} when it fails
    Answers,        \* what the catalogue's address may answer: [kind, models]
    Configs,        \* configurations: provider -> [base, models]
    MaxStarts       \* bound: starts of the server

VARIABLES
    config,         \* the configuration now
    cache,          \* models.json: [kind, models, fresh]
    info,           \* Registry.info of the server that runs: provider -> models
    running, starts,
    latest,         \* the last catalogue a start found when its file was too old
    stored, pure    \* every fetched text could be stored; all of them were catalogues

vars == <<config, cache, info, running, starts, latest, stored, pure>>

Nothing == [kind |-> "none", models |-> {}]

Init ==
    /\ config \in Configs
    /\ cache = Nothing /\ latest = Nothing
    /\ info = <<>> /\ running = FALSE /\ starts = 0 /\ stored = TRUE /\ pure = TRUE

(* --------------------------------- the file ------------------------------ *)

\* "failed": no answer, another status than 200, or 10 s are over.  A 200 is
\* taken as it is: without a body, no JSON, JSON of something else, a catalogue.
Fetched(zen) == zen.kind # "failed"

\* readCache: an empty file is none.  freshCache asks for its age too.
Readable == cache.kind \notin {"none", "empty"}

Fetches == ~(Readable /\ cache.fresh)
Text(answer) == [kind |-> answer.kind, models |-> answer.models]

\* CatalogPolicy.Load: the file while it is fresh, else what is fetched, else
\* the file as old as it is.
LoadOrNothing(zen) ==
    IF ~Fetches THEN Text(cache) ELSE IF Fetched(zen) THEN Text(zen) ELSE Nothing
LoadOldFirst(zen) ==
    IF Readable THEN Text(cache) ELSE IF Fetched(zen) THEN Text(zen) ELSE Nothing
Load(zen) ==
    IF ~Fetches THEN Text(cache)
    ELSE IF Fetched(zen) THEN Text(zen)
    ELSE IF Readable THEN Text(cache) ELSE Nothing

(* -------------------------------- the start ------------------------------ *)

\* FetchKido probes the fixed address, whatever the configuration names.
FetchKido(kido) == IF kido = {} THEN Fallback ELSE kido

\* ParseZenCatalog reads any JSON, so what has no models is a provider without.
Parses(text) == text.kind \in {"other", "catalogue"}

\* A provider of the configuration needs an address and a model.
Complete(c, p) == p \notin {"kido", "opencode"} /\ c[p].base /\ c[p].models # {}

\* New.
Gathered(kido, text) ==
    LET builtin == {"kido"} \cup (IF Parses(text) THEN {"opencode"} ELSE {})
        own == {p \in DOMAIN config : Complete(config, p)}
    IN  [p \in builtin \cup own |->
            CASE p = "kido" -> FetchKido(kido) [] p = "opencode" -> text.models [] OTHER -> config[p].models]

\* To a temporary file that takes the name: the file is whole, old or new.  Load
\* ignores the error.
WriteAtomic(zen) ==
    \/ cache' = [kind |-> zen.kind, models |-> zen.models, fresh |-> TRUE] /\ UNCHANGED stored
    \/ stored' = FALSE /\ UNCHANGED cache

\* With what the network answers: kido is one of Probes, zen one of Answers.
Start ==
    /\ ~running /\ starts < MaxStarts
    /\ running' = TRUE /\ starts' = starts + 1
    /\ \E kido \in Probes, zen \in Answers :
         /\ info' = Gathered(kido, Load(zen))
         /\ IF Fetches /\ Fetched(zen) THEN WriteAtomic(zen) ELSE UNCHANGED <<cache, stored>>
         /\ pure' = (pure /\ (Fetches /\ Fetched(zen) => zen.kind = "catalogue"))
         /\ latest' = IF Fetches /\ zen.kind = "catalogue" THEN Text(zen) ELSE latest
    /\ UNCHANGED config

Stop ==
    /\ running /\ running' = FALSE /\ info' = <<>>
    /\ UNCHANGED <<config, cache, starts, latest, stored, pure>>

(* ----------------------------- what else happens ------------------------- *)

\* Five minutes pass.
Ages ==
    /\ Readable /\ cache.fresh /\ cache' = [cache EXCEPT !.fresh = FALSE]
    /\ UNCHANGED <<config, info, running, starts, latest, stored, pure>>

\* PATCH /config, or an editor.
ConfigChanges ==
    /\ config' \in Configs
    /\ UNCHANGED <<cache, info, running, starts, latest, stored, pure>>

Next == Start \/ Stop \/ Ages \/ ConfigChanges

Spec == Init /\ [][Next]_vars

(* ------------------------------ what clients get ------------------------- *)

\* providerEntries: the registry, then what else the configuration names.
Listed ==
    UNION {{p} \X info[p] : p \in DOMAIN info}
        \cup UNION {{p} \X config[p].models : p \in DOMAIN config \ DOMAIN info}

\* Registry.Resolve, which the engine asks for each turn.
Resolves(p, m) == p \in DOMAIN info /\ m \in info[p]

(* ------------------------------- properties ------------------------------ *)

\* A server that starts while the catalogue cannot be fetched offers the last
\* one any start has found, and one that starts with an old file and a network
\* offers the new one, as long as each fetch could be
\* stored and was a catalogue (CatalogPolicy.Load).
CatalogueOutlivesOutage ==
    running /\ stored /\ pure /\ latest # Nothing =>
        "opencode" \in DOMAIN info /\ info["opencode"] = latest.models

\* Not a property of this code (see the findings): an answer that is no
\* catalogue is a failed fetch, so a catalogue that is known stays in use.
GarbageIsNoAnswer ==
    running /\ stored /\ latest # Nothing => "opencode" \in DOMAIN info

\* Not a property of this code (see the findings): a model that clients are
\* offered is one that a turn can use.
ListedResolves == running => \A l \in Listed : Resolves(l[1], l[2])
=============================================================================
