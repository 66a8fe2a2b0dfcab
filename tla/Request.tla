------------------------------- MODULE Request -------------------------------
(***************************************************************************)
(* What a round sends to a provider: the stored history of a session       *)
(* (loadHistory, which leaves the engine's own notes out), mapped onto the *)
(* driver-neutral messages (mapHistory, with the plan reminders and the    *)
(* inlined attachments) and put on the wire by the two drivers (oaRequest  *)
(* and anRequest).  The history grows the way turns write it: prompts,     *)
(* answers part by part, tools that finish, fail or are left running by a  *)
(* cancelled turn, notes.                                                  *)
(*                                                                         *)
(* A text is its identity: the number of the part that holds it.           *)
(***************************************************************************)
EXTENDS Naturals, Sequences, SequencesExt

CONSTANTS MaxMessages,   \* bound: messages of the session
          MaxParts,      \* bound: parts of a message
          Models         \* names of the models a turn may run with

VARIABLES hist,    \* the stored messages: role, agent and parts
          agent,   \* the agent of the turn that sends the request
          model,   \* the model it runs with
          agentsMD \* levels of the project path that hold an AGENTS.md, the root being 0
vars == <<hist, agent, model, agentsMD>>

Agents == {"build", "plan"}
UserKinds == {"text", "blank", "file", "image", "broken"}
ReplyKinds == {"text", "reasoning", "running", "note"}
Finished == {"completed", "error"}
Depth == 1
PartKinds == UserKinds \union ReplyKinds \union Finished
StoredPart == [kind : PartKinds, id : Nat]

TypeOK ==
    /\ hist \in Seq([role : {"user", "assistant"}, agent : Agents, parts : Seq(StoredPart)])
    /\ agent \in Agents /\ model \in Models /\ agentsMD \subseteq 0..Depth

-----------------------------------------------------------------------------
(* The system texts. *)

\* The prompt of the model's family: the first rule that names it, or the default.
Rules == <<"muse", "gpt-4", "gpt", "gemini-", "claude", "trinity", "kimi">>
Family(m) ==
    LET named == {i \in DOMAIN Rules : Rules[i] \in m}
    IN IF named = {} THEN "default" ELSE Rules[CHOOSE i \in named : \A j \in named : i <= j]

\* The nearest AGENTS.md, walking up from the project directory.
Nearest(levels) ==
    IF levels = {} THEN <<>> ELSE <<CHOOSE d \in levels : \A e \in levels : e <= d>>

SystemTexts == <<Family(model), "env">> \o Nearest(agentsMD)

\* The plan agent is reminded of its mode; build is told once any plan answer is stored.
PlanReminders(h) ==
    CASE agent = "plan" -> <<"plan">>
      [] agent = "build" /\ \E i \in DOMAIN h : h[i].role = "assistant" /\ h[i].agent = "plan"
           -> <<"build-switch">>
      [] OTHER -> <<>>

-----------------------------------------------------------------------------
(* From the stored history to the messages of a request. *)

OfKind(ps, kinds) ==
    LET kept[n \in 0..Len(ps)] ==
          IF n = 0 THEN <<>>
          ELSE kept[n - 1] \o (IF ps[n].kind \in kinds THEN <<ps[n]>> ELSE <<>>)
    IN kept[Len(ps)]
Ids(ps, kinds) == LET kept == OfKind(ps, kinds) IN [i \in DOMAIN kept |-> kept[i].id]

LoadHistory ==
    [i \in DOMAIN hist |-> [hist[i] EXCEPT !.parts = OfKind(@, PartKinds \ {"note"})]]

Message(role, content, media, calls, answers) ==
    [role |-> role, content |-> content, media |-> media, calls |-> calls, answers |-> answers]

\* Attachments come first, inlined or as a placeholder; an image that decodes goes beside
\* the text, and the reminders close the last prompt.
UserMessage(m, reminders) ==
    Message("user", Ids(m.parts, {"file", "broken"}) \o Ids(m.parts, {"text"}) \o reminders,
            Ids(m.parts, {"image"}), <<>>, <<>>)

\* One that answers the calls left running as well, with nothing.
ReplyMessagesOfAllCalls(m) ==
    LET texts == Ids(m.parts, {"text"})
        calls == Ids(m.parts, Finished)
        all == Ids(m.parts, Finished \union {"running"})
    IN IF texts = <<>> /\ all = <<>> THEN <<>>
       ELSE <<Message("assistant", texts, <<>>, all, <<>>)>>
            \o [i \in DOMAIN calls |-> Message("tool", <<calls[i]>>, <<>>, <<>>, <<calls[i]>>)]

\* An answer's texts and its finished calls; every finished call is answered by a message
\* of its own right after, and an answer with neither is skipped.
ReplyMessages(m) ==
    LET texts == Ids(m.parts, {"text"})
        calls == Ids(m.parts, Finished)
    IN IF texts = <<>> /\ calls = <<>> THEN <<>>
       ELSE <<Message("assistant", texts, <<>>, calls, <<>>)>>
            \o [i \in DOMAIN calls |-> Message("tool", <<calls[i]>>, <<>>, <<>>, <<calls[i]>>)]

MapHistory(h) ==
    LET last == SelectLastInSeq(h, LAMBDA m : m.role = "user")
        one(i) == IF h[i].role = "assistant" THEN ReplyMessages(h[i])
                  ELSE <<UserMessage(h[i], IF i = last THEN PlanReminders(h) ELSE <<>>)>>
    IN [i \in DOMAIN SystemTexts |-> Message("system", <<SystemTexts[i]>>, <<>>, <<>>, <<>>)]
       \o FlattenSeq([i \in DOMAIN h |-> one(i)])

-----------------------------------------------------------------------------
(* On the wire.  A block is what the provider reads: its speaker, its kind and its text. *)

Blocks(who, kind, ids) == [i \in DOMAIN ids |-> <<who, kind, ids[i]>>]

\* The OpenAI form keeps a message per message: content, images, calls, and the answered id.
OpenAI(m) ==
    Blocks(m.role, IF m.role = "tool" THEN "result" ELSE "text", m.content)
    \o Blocks(m.role, "image", m.media) \o Blocks(m.role, "call", m.calls)
OARequest(ms) == FlattenSeq([i \in DOMAIN ms |-> OpenAI(ms[i])])

\* The Anthropic form: a tool's answer is a block the user speaks, and an answer with
\* calls is its text followed by them.
ToAnMsg(m) ==
    CASE m.role = "tool" -> Blocks("user", "result", m.answers)
      [] m.role = "assistant" /\ m.calls # <<>> ->
           Blocks("assistant", "text", m.content) \o Blocks("assistant", "call", m.calls)
      [] OTHER -> Blocks(m.role, "text", m.content) \o Blocks(m.role, "image", m.media)
AnRequest(ms) ==
    LET put[n \in 0..Len(ms)] ==
          IF n = 0 THEN [system |-> <<>>, messages |-> <<>>]
          ELSE IF ms[n].role = "system" THEN [put[n - 1] EXCEPT !.system = @ \o ms[n].content]
          ELSE [put[n - 1] EXCEPT !.messages = @ \o ToAnMsg(ms[n])]
    IN put[Len(ms)]

-----------------------------------------------------------------------------
(* How a session's history grows. *)

Init ==
    /\ hist = <<>>
    /\ agent \in Agents /\ model \in Models /\ agentsMD \in SUBSET (0..Depth)

NextId == Len(FlattenSeq([i \in DOMAIN hist |-> hist[i].parts])) + 1
Number(kinds, from) == [i \in DOMAIN kinds |-> [kind |-> kinds[i], id |-> from + i - 1]]
Grow == Len(hist) < MaxMessages

\* A prompt: attachments and a text, stored whole.
Prompt(a, kinds) ==
    /\ Grow
    /\ agent' = a
    /\ hist' = Append(hist, [role |-> "user", agent |-> a, parts |-> Number(kinds, NextId)])
    /\ UNCHANGED <<model, agentsMD>>

\* A round starts its answer; its parts follow.
Answer ==
    /\ Grow /\ hist # <<>>
    /\ hist' = Append(hist, [role |-> "assistant", agent |-> agent, parts |-> <<>>])
    /\ UNCHANGED <<agent, model, agentsMD>>

Open == hist # <<>> /\ Last(hist).role = "assistant"

AddPart(kind) ==
    /\ Open /\ Len(Last(hist).parts) < MaxParts
    /\ hist' = [hist EXCEPT ![Len(hist)].parts = @ \o Number(<<kind>>, NextId)]
    /\ UNCHANGED <<agent, model, agentsMD>>

\* A tool ends; one whose turn dies with it stays running for good.
ToolEnds(i, status) ==
    /\ Open /\ i \in DOMAIN Last(hist).parts /\ Last(hist).parts[i].kind = "running"
    /\ hist' = [hist EXCEPT ![Len(hist)].parts[i].kind = status]
    /\ UNCHANGED <<agent, model, agentsMD>>

Next ==
    \/ \E a \in Agents, kinds \in {<<"text">>, <<"image", "text">>, <<"file", "broken", "blank">>} :
          Prompt(a, kinds)
    \/ Answer
    \/ \E kind \in ReplyKinds : AddPart(kind)
    \/ \E i \in 1..MaxParts, status \in Finished : ToolEnds(i, status)

Spec == Init /\ [][Next]_vars

-----------------------------------------------------------------------------
(* Properties. *)

Spoken == MapHistory(LoadHistory)
Voice(b) == IF b[2] = "result" THEN <<"tool", "result", b[3]>> ELSE b

\* Whatever a history went through (cancelled rounds, tools left running, notes), both
\* drivers put the same conversation on the wire, and in it every call is answered once
\* before anyone else speaks and nothing is answered that was not called: a provider
\* refuses a request that breaks this, and with it every later turn of the session.
RequestsAreSendable ==
    LET wire == OARequest(Spoken)
        an == AnRequest(Spoken)
        at(kind) == {i \in DOMAIN wire : wire[i][2] = kind}
    IN /\ wire = [i \in DOMAIN an.system |-> <<"system", "text", an.system[i]>>]
                 \o [i \in DOMAIN an.messages |-> Voice(an.messages[i])]
       /\ \A c \in at("call") :
             \E r \in at("result") :
                /\ wire[r][3] = wire[c][3] /\ r > c
                /\ \A k \in (c + 1)..(r - 1) : wire[k][2] \in {"call", "result"}
       /\ \A r \in at("result") : \E c \in at("call") : wire[c][3] = wire[r][3]
       /\ \A r, s \in at("result") : wire[r][3] = wire[s][3] => r = s
=============================================================================
