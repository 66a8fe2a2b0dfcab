-------------------------------- MODULE Prompt --------------------------------
(***************************************************************************)
(* The interface's input line: typing, the slash menu and the mention      *)
(* picker that open over it, soft-entered lines, the shell mode, the       *)
(* history the up and down keys walk, and the sends whose answers come     *)
(* back later and clear the line.  A line is a sequence of tokens; the     *)
(* cursor stays at its end.  The input is a single line: what is put in it *)
(* loses its newlines (textinput, external).                               *)
(***************************************************************************)
EXTENDS Naturals, Integers, Sequences, FiniteSets, SequencesExt

CONSTANTS Typed,      \* lines a user types, each with its prefixes
          Commands,   \* sequence of the commands' names
          Files,      \* sequence of the paths walked: path and dir
          MaxHistory, \* maxHistoryEntries
          DraftRetentionMin, \* draftRetentionMin
          MaxKeys,    \* bound: keys that change nothing but the line or a selection
          MaxSends    \* bound: sends, uses of the menus and soft-entered lines

VARIABLES route, mode, input, draft, sel, slashDone, lastAcQuery,
          hist, histIdx, histOrig,
          cmdFreq,  \* uses of the commands
          flight,   \* the texts sent whose answers are awaited
          keys, sends,
          mine,     \* the line its user left at the present end of the history
          lost,     \* whether a walk was ended since with another line at the present
          edited    \* whether the line was typed in since it was last recalled
menu == <<sel, slashDone, lastAcQuery>>
past == <<hist, histIdx, histOrig>>
vars == <<route, mode, input, draft, menu, past, cmdFreq, flight, keys, sends, mine, lost, edited>>

Blank == {"sp", "nl"}
Line == Seq({"/", "@", "a", "f", "d", "n", "q", "\\"} \union Blank)

TypeOK ==
    /\ route \in {"home", "session"} /\ mode \in {"normal", "shell"}
    /\ {input, draft, histOrig, mine, lastAcQuery} \subseteq Line
    /\ hist \in Seq(Line) /\ Len(hist) <= MaxHistory /\ histIdx \in (-Len(hist))..0
    /\ sel \in Nat /\ {slashDone, lost, edited} \subseteq BOOLEAN
    /\ flight \in Seq(Line)

-----------------------------------------------------------------------------
(* Reading the line. *)

Sanitized(l) == [i \in DOMAIN l |-> IF l[i] = "nl" THEN "sp" ELSE l[i]]
Trim(l) == LET shown == {i \in DOMAIN l : l[i] \notin Blank}
           IN IF shown = {} THEN <<>> ELSE SubSeq(l, Min(shown), Max(shown))

\* The last "@", at the start or after a blank, with no blank behind it.
MentionTriggerIndex(l) ==
    LET at == SelectLastInSeq(l, LAMBDA c : c = "@")
    IN IF at = 0 \/ (at > 1 /\ l[at - 1] \notin Blank)
          \/ \E i \in at..Len(l) : l[i] \in Blank THEN 0 ELSE at
MentionActive(l) == MentionTriggerIndex(l) # 0
AcQuery(l) == LET at == MentionTriggerIndex(l)
              IN IF at = 0 THEN <<>> ELSE SubSeq(l, at + 1, Len(l))
SlashActive(l, done) == ~done /\ l # <<>> /\ Head(l) = "/" /\ ~MentionActive(l)
Slash == SlashActive(input, slashDone)
Mention == MentionActive(input)

\* The letters of the query, in order, among those of the name.
Matches(q, name) ==
    \E f \in [DOMAIN q -> DOMAIN name] :
       /\ \A i \in DOMAIN q : name[f[i]] = q[i]
       /\ \A i, j \in DOMAIN q : i < j => f[i] < f[j]

\* Those that match, each with its place from 0: the highest score first and otherwise in
\* their order; a prefix counts twice, and so does a use.
Ranked(names, q, uses) ==
    LET fit == {i \in DOMAIN names : Matches(q, names[i])}
        score(i) == (IF IsPrefix(q, names[i]) THEN 2 ELSE 1) * (1 + uses[i])
        before(i) == {j \in fit : score(j) > score(i) \/ (score(j) = score(i) /\ j < i)}
    IN [i \in fit |-> Cardinality(before(i))]

MenuItems == Ranked([i \in DOMAIN Commands |-> Tail(Commands[i])], Tail(input),
                    [i \in DOMAIN Commands |-> cmdFreq[Commands[i]]])
MentionOptions ==
    Ranked([i \in DOMAIN Files |-> Files[i].path], AcQuery(input), [i \in DOMAIN Files |-> 0])
\* The one that is selected, if it is among them.
Chosen(items) == {i \in DOMAIN items : items[i] = sel}

-----------------------------------------------------------------------------
(* Steps the handlers share. *)

Press == keys < MaxKeys /\ keys' = keys + 1 /\ UNCHANGED sends
Use == sends < MaxSends /\ sends' = sends + 1 /\ UNCHANGED keys

\* A change of the line that leaves a walk where it is: at the present end of the history it
\* is the line a walk has to bring back.
TypedNow(l) ==
    /\ input' = l
    /\ mine' = IF histIdx = 0 THEN l ELSE mine
    /\ lost' = (lost /\ histIdx # 0)
    /\ edited' = TRUE

\* One that ends it, with this line at the present and the saved draft forgotten.
EndWalk(l) ==
    /\ input' = l /\ histIdx' = 0
    /\ mine' = IF histIdx = 0 THEN l ELSE mine
    /\ lost' = (histIdx # 0)

InputUpdate(l) ==
    /\ TypedNow(l)
    /\ slashDone' = FALSE
    /\ LET reset == SlashActive(l, FALSE) \/ (Mention /\ MentionActive(l) /\ AcQuery(l) # lastAcQuery)
       IN sel' = IF reset THEN 0 ELSE sel
    /\ lastAcQuery' = IF Mention THEN AcQuery(l) ELSE lastAcQuery

Cleared == EndWalk(<<>>) /\ edited' = FALSE

\* A repeat of the newest is not added, and the cap drops the oldest.
AppendHistory(h, text) ==
    IF Trim(text) = <<>> \/ (h # <<>> /\ Last(h) = text) THEN h
    ELSE LET all == Append(h, text)
         IN SubSeq(all, IF Len(all) > MaxHistory THEN 2 ELSE 1, Len(all))

\* A line that is long enough is kept in the history when it is cleared.
ClearPrompt ==
    /\ Cleared /\ UNCHANGED histOrig
    /\ hist' = IF Len(Trim(input)) >= DraftRetentionMin THEN AppendHistory(hist, Trim(input))
               ELSE hist

HistoryTextAt(i) == IF i = 0 THEN histOrig ELSE hist[Len(hist) + i + 1]

\* One that takes the line for the draft wherever the walk is.
RecallHistorySavesAlways(dir) ==
    LET orig == IF dir < 0 THEN input ELSE histOrig
        shown == IF histIdx = 0 THEN orig ELSE HistoryTextAt(histIdx)
        next == histIdx + dir
    IN /\ histOrig' = orig
       /\ UNCHANGED <<hist, mine, lost, route, mode, draft, sel, lastAcQuery, cmdFreq, flight>>
       /\ IF hist = <<>> \/ (shown # input /\ input # <<>>) \/ next \notin (-Len(hist))..0
          THEN UNCHANGED <<histIdx, input, slashDone, edited>>
          ELSE /\ histIdx' = next
               /\ input' = Sanitized(IF next = 0 THEN orig ELSE HistoryTextAt(next))
               /\ slashDone' = FALSE /\ edited' = FALSE

\* Up and down: the draft is saved as the walk leaves the present, and a line edited away
\* from the entry it came from holds the walk where it is.
RecallHistory(dir) ==
    LET orig == IF hist # <<>> /\ histIdx = 0 /\ dir < 0 THEN input ELSE histOrig
        shown == IF histIdx = 0 THEN orig ELSE HistoryTextAt(histIdx)
        next == histIdx + dir
    IN /\ histOrig' = orig
       /\ UNCHANGED <<hist, mine, lost, route, mode, draft, sel, lastAcQuery, cmdFreq, flight>>
       /\ IF hist = <<>> \/ (shown # input /\ input # <<>>) \/ next \notin (-Len(hist))..0
          THEN UNCHANGED <<histIdx, input, slashDone, edited>>
          ELSE /\ histIdx' = next
               /\ input' = Sanitized(IF next = 0 THEN orig ELSE HistoryTextAt(next))
               /\ slashDone' = FALSE /\ edited' = FALSE

-----------------------------------------------------------------------------
(* The keys. *)

Char(c) ==
    /\ Press /\ Append(input, c) \in Typed
    /\ InputUpdate(Append(input, c))
    /\ UNCHANGED <<route, mode, draft, past, cmdFreq, flight>>

Backspace ==
    /\ Press
    /\ IF input # <<>> THEN InputUpdate(Front(input)) /\ UNCHANGED mode
       ELSE mode' = "normal" /\ UNCHANGED <<input, menu, mine, lost, edited>>
    /\ UNCHANGED <<route, draft, past, cmdFreq, flight>>

\* "!" at the start of the line.
Bang ==
    /\ Press /\ mode = "normal" /\ input = <<>>
    /\ mode' = "shell"
    /\ UNCHANGED <<route, input, draft, menu, past, cmdFreq, flight, mine, lost, edited>>

Arrow(dir) ==
    /\ Press
    /\ IF Slash \/ Mention
       THEN LET n == Cardinality(DOMAIN IF Slash THEN MenuItems ELSE MentionOptions)
            IN /\ sel' = IF n = 0 THEN 0 ELSE (sel + dir) % n
               /\ UNCHANGED <<route, mode, input, draft, slashDone, lastAcQuery, past, cmdFreq,
                              flight, mine, lost, edited>>
       ELSE RecallHistory(dir)

\* The picked path replaces the mention's query: a file closes the picker with a blank, a
\* directory keeps it open on what it holds.
AcApply(insert) ==
    LET at == MentionTriggerIndex(input) line == SubSeq(input, 1, at) \o insert
    IN /\ EndWalk(line) /\ edited' = TRUE /\ sel' = 0
       /\ UNCHANGED <<route, mode, draft, slashDone, lastAcQuery, hist, histOrig, cmdFreq, flight>>

SlashTab ==
    /\ Use /\ Slash
    /\ \E i \in Chosen(MenuItems) : TypedNow(Append(Commands[i], "sp"))
    /\ slashDone' = TRUE
    /\ UNCHANGED <<route, mode, draft, sel, lastAcQuery, past, cmdFreq, flight>>

AcTab ==
    /\ Use /\ Mention
    /\ \E i \in Chosen(MentionOptions) :
          AcApply(Append(Files[i].path, IF Files[i].dir THEN "/" ELSE "sp"))

Touch(c) == cmdFreq' = [cmdFreq EXCEPT ![c] = @ + 1]

\* Enter over the menu runs the selected command, and over no match clears the line.
MenuEnter ==
    /\ Use /\ Slash
    /\ UNCHANGED <<route, mode, draft, menu, flight>>
    /\ IF Chosen(MenuItems) # {}
       THEN /\ \E i \in Chosen(MenuItems) : Touch(Commands[i])
            /\ TypedNow(<<>>) /\ UNCHANGED past
       ELSE ClearPrompt /\ UNCHANGED cmdFreq

AcEnter ==
    /\ Use /\ Mention
    /\ \E i \in Chosen(MentionOptions) : AcApply(Append(Files[i].path, "sp"))

\* Enter on the line: a trailing backslash keeps it and starts another; otherwise the lines
\* kept and this one are sent, and stay until the answer.  On the session route a busy
\* session refuses the send, a shell command never.
Enter ==
    /\ Use /\ ~Slash /\ ~Mention
    /\ UNCHANGED <<route, mode, menu, past, cmdFreq>>
    /\ IF input # <<>> /\ Last(input) = "\\"
       THEN /\ draft' = draft \o Front(input) \o <<"nl">>
            /\ TypedNow(<<>>) /\ UNCHANGED flight
       ELSE LET text == draft \o Trim(input)
            IN /\ Trim(text) # <<>>
               /\ flight' = Append(flight, text)
               /\ UNCHANGED <<input, draft, mine, lost, edited>>

\* Escape ends the shell mode before anything else.
EscSession == mode' = "normal" /\ UNCHANGED <<route, input, sel, past, mine, lost, edited>>

\* A busy session is aborted, an idle one left for home.
Leave == route' \in {"home", "session"} /\ UNCHANGED <<mode, input, sel, past, mine, lost, edited>>

Esc ==
    /\ Press
    /\ UNCHANGED <<draft, slashDone, lastAcQuery, cmdFreq, flight>>
    /\ CASE Slash -> ClearPrompt /\ UNCHANGED <<route, mode, sel>>
         [] ~Slash /\ Mention ->
              /\ TypedNow(SubSeq(input, 1, MentionTriggerIndex(input) - 1)) /\ sel' = 0
              /\ UNCHANGED <<route, mode, past>>
         [] ~Slash /\ ~Mention /\ mode = "shell" -> EscSession
         [] ~Slash /\ ~Mention /\ mode = "normal" /\ route = "home" ->
              ClearPrompt /\ UNCHANGED <<route, mode, sel>>
         [] OTHER -> Leave

-----------------------------------------------------------------------------
(* The answer to a send. *)

\* On success the line and the lines kept with it are cleared and the text joins the
\* history; on an error nothing changes.
Answered(ok) ==
    /\ flight # <<>>
    /\ flight' = Tail(flight)
    /\ UNCHANGED <<mode, menu, histOrig, cmdFreq, keys, sends>>
    /\ IF ok
       THEN /\ hist' = AppendHistory(hist, Head(flight))
            /\ draft' = <<>> /\ route' = "session"
            /\ Cleared
       ELSE UNCHANGED <<route, input, draft, hist, histIdx, mine, lost, edited>>

Init ==
    /\ route \in {"home", "session"} /\ mode = "normal" /\ draft = <<>>
    /\ input = <<>> /\ sel = 0 /\ slashDone = FALSE /\ lastAcQuery = <<>>
    /\ hist = <<>> /\ histIdx = 0 /\ histOrig = <<>>
    /\ cmdFreq = [c \in ToSet(Commands) |-> 0]
    /\ flight = <<>> /\ keys = 0 /\ sends = 0 /\ mine = <<>> /\ lost = FALSE /\ edited = FALSE

Next ==
    \/ \E c \in UNION {ToSet(l) : l \in Typed} : Char(c)
    \/ Backspace \/ Bang \/ SlashTab \/ AcTab \/ MenuEnter \/ AcEnter \/ Enter \/ Esc
    \/ \E dir \in {-1, 1} : Arrow(dir)
    \/ \E ok \in BOOLEAN : Answered(ok)

Spec == Init /\ [][Next]_vars

-----------------------------------------------------------------------------
(* Properties. *)

\* A walk through the history that goes back to its end brings back the line it started from:
\* away from the present the draft it will bring back is the line the user left there,
\* whatever was typed over the entries meanwhile, and at the present the input is that line.
\* A walk that ends otherwise forgets it: an entry is cleared, a send is answered, or a
\* mention is picked over an entry.
WalkKeepsDraft == lost \/ (IF histIdx = 0 THEN input = mine ELSE histOrig = mine)

\* Not a property of this code (see the findings): only clearing the line costs the line the
\* walk started from.
PickKeepsDraft == lost => input = <<>> \/ histIdx # 0

\* A walk is held only by an edit (recallHistory: "a recall is aborted when the input was
\* edited away from the recall text"): an entry shown and not typed in lets it go on.
OnlyEditsHold == (histIdx < 0 /\ ~edited /\ input # <<>>) => HistoryTextAt(histIdx) = input
=============================================================================
