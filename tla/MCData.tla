-------------------------------- MODULE MCData --------------------------------
(* Instances of the components that share no state.  Each behaviour is one  *)
(* of them, the others standing still in one of their initial states.       *)
EXTENDS ServerParts, ModelParts, StoreFold, ClientParts, TLC

CONSTANTS Parts,                           \* the components to check
          m1, m2, p1, p2, p3,
          s1, s2, s3

VARIABLES part
driverVars == <<api, seen, phase, acc, finish, failed, usage, out, cancelled>>
requestVars == <<history, agent, model, agentsMD>>
profileVars == <<profile, called, marker, step, job, begun, lone, overlapped, disturbed>>
toolVars == <<given, before, disk, stage, made>>
catalogueVars == <<config, cache, info, running, starts, latest, stored, pure>>
settingVars == <<files, patcher, acked, memory, auth, writer, cut>>
promptVars == <<route, typing, input, draft, item, slashDone, lastAcQuery, past, histIdx, histOrig,
                cmdFreq, flight, keys, sends, mine, lost, edited>>
pickerVars == <<server, wire, late, sessions, changes, open, current, options, marked, row, needle,
                toDelete, top, lastSel, visible, presses>>
keyVars == <<bindings, pendingLeader, leaderGen, ticks, modal, ran, clock, lastLeader>>

-----------------------------------------------------------------------------
\* Frames of the two wire formats: texts, calls in fragments that overlap, ends.
Chunk(text, reasoning, calls, end) ==
  [type |-> "chunk", text |-> text, reasoning |-> reasoning, calls |-> calls, finish |-> end]
Fragment(index, id, name, args) == [index |-> index, id |-> id, name |-> name, args |-> args]
Block(index, kind, id, name) ==
  [type |-> "block_start", index |-> index, kind |-> kind, id |-> id, name |-> name]
MCFrames ==
  [openai |->
     {[type |-> "done"], [type |-> "usage"],
      Chunk(TRUE, TRUE, <<>>, ""), Chunk(FALSE, FALSE, <<>>, "stop"),
      Chunk(FALSE, FALSE, <<Fragment(0, "a", "bash", FALSE)>>, ""),
      Chunk(FALSE, FALSE, <<Fragment(1, "b", "read", TRUE)>>, ""),
      Chunk(FALSE, FALSE, <<Fragment(1, "", "", TRUE), Fragment(0, "", "", TRUE)>>, "tool_calls")},
   anthropic |->
     {Block(0, "text", "", ""), Block(1, "tool_use", "a", "bash"),
      [type |-> "text_delta"], [type |-> "input_delta", index |-> 1],
      [type |-> "block_stop", index |-> 0], [type |-> "block_stop", index |-> 1],
      [type |-> "message_delta", finish |-> "tool_use"], [type |-> "message_stop"],
      [type |-> "error"]}]

\* A data directory of three ages, one process at a time, and one file or none that fails.
Begin(v, shared, broken) == [version |-> v, together |-> shared, fails |-> broken]
Usual ==
  {Begin(0, FALSE, {}), Begin(1, FALSE, {"store"}), Begin(3, FALSE, {"log"})}
\* Two processes start after an upgrade of the program.
Upgrade == {Begin(1, TRUE, {})}
MCRank == "default" :> 1 @@ "a" :> 2 @@ "b" :> 3 @@ "n" :> 4

\* Calls that replace, create, replace everywhere or overwrite, under one name or two, of one
\* process or two.
Edit(name, old, new, all) ==
  [process |-> "p", tool |-> "edit", name |-> name, old |-> old, new |-> new, all |-> all]
Write(name, new) == [process |-> "p", tool |-> "write", name |-> name, new |-> new]
ByAnother(call) == [call EXCEPT !.process = "q"]
MCFileOf == "f" :> "f" @@ "link" :> "f" @@ "g" :> "g"
MCTexts == {<<>>, "f" :> <<"x", "y">>, "f" :> <<"x", "y", "x">>}
MCArguments ==
  {<<Edit("f", "x", "y", TRUE), Edit("f", "y", "z", FALSE), Edit("f", "", "x", FALSE)>>,
   <<Edit("f", "x", "z", FALSE), Edit("f", "y", "x", TRUE), Edit("g", "", "x", FALSE)>>,
   <<Edit("f", "x", "z", FALSE), Edit("link", "y", "w", FALSE), Write("g", "x")>>,
   <<Edit("f", "x", "z", TRUE), Write("f", "w"), Write("g", "y")>>,
   <<Edit("f", "x", "z", FALSE), Edit("f", "y", "w", FALSE), ByAnother(Edit("g", "", "x", FALSE))>>,
   <<Edit("f", "x", "z", FALSE), ByAnother(Edit("f", "y", "w", FALSE)), Edit("g", "", "x", FALSE)>>}

\* Every kind of answer, two catalogues, providers that are whole, in part and none.
Answer(kind, models) == [kind |-> kind, models |-> models]
MCAnswers ==
  {Answer("failed", {}), Answer("empty", {}), Answer("html", {}), Answer("other", {}),
   Answer("catalogue", {"z"}), Answer("catalogue", {"z", "x"})}
MCConfigs ==
  {<<>>, "own" :> [base |-> TRUE, models |-> {"x"}], "own" :> [base |-> FALSE, models |-> {"x"}]}

\* Patches of two layers, one by way of the environment; keys in memory, in a file or in both.
MCEnvOf == [v \in {"m2"} |-> "HOME"]
MCPatch ==
  {[file |-> "project", field |-> "model", value |-> "m1", path |-> Unset],
   [file |-> "project", field |-> "agent", value |-> "m2", path |-> "a.md"],
   [file |-> "yolo.jsonc", field |-> "model", value |-> "m2", path |-> "b.md"]}
MCEnvKey == [p \in {"p", "q"} |-> Unset]
MCConfigKey == [p \in {"p", "q"} |-> IF p = "q" THEN "k3" ELSE Unset]
MCAuthRequest == {[provider |-> "p", key |-> "k1"], [provider |-> "p", key |-> Unset]}
MCTool == {[provider |-> "q", key |-> "k2"]}

\* Two messages, of two parts and of one; hydrations that find none, both or the first.
MCOwner == p1 :> m1 @@ p2 :> m1 @@ p3 :> m2
MCFieldsOf == p1 :> {"text", "reasoning"} @@ p2 :> {"text"} @@ p3 :> {"input"}
HeldPart(p, text, args) == [id |-> p, content |-> [text |-> text, input |-> args]]
HeldMessage(m, held) == [id |-> m, parts |-> held]
MCListings ==
  {<<>>,
   <<HeldMessage(m2, <<HeldPart(p3, <<>>, <<"s">>)>>),
     HeldMessage(m1, <<HeldPart(p2, <<"s">>, <<>>), HeldPart(p1, <<"s">>, <<>>)>>)>>,
   <<HeldMessage(m1, <<HeldPart(p1, <<"s">>, <<>>)>>)>>}

\* Lines with a command, a plain and a continued text, and a mention.
MCTypedLines == {<<>>, <<"/">>, <<"/", "q">>, <<"a">>, <<"a", "\\">>, <<"@">>, <<"@", "f">>}
MCLetters == {"/", "@", "a", "f", "d", "n", "q", "\\", "sp"}
MCCommands == <<<<"/", "n">>, <<"/", "q">>>>
MCFiles == <<[path |-> <<"d">>, dir |-> TRUE], [path |-> <<"f">>, dir |-> FALSE]>>

\* Two sessions of two days and one still to come.
MCUpdated == s1 :> 3 @@ s2 :> 1 @@ s3 :> 0

\* The defaults, no way to leave, and a leader that is also the escape key.
Plain(mods, base) == [leader |-> FALSE, mods |-> mods, base |-> base]
After(base) == [leader |-> TRUE, mods |-> {}, base |-> base]
MCOverrides ==
  {<<>>, "app_exit" :> {},
   "leader" :> {Plain({}, "esc")} @@ "session_new" :> {After("q"), Plain({"ctrl"}, "p")}}

-----------------------------------------------------------------------------
\* The configuration is patched, or the credentials are, or nothing is.
Asked(requests) == \E r \in DOMAIN requests : requests[r].at = "asked"
AllAsked(requests) == \A r \in DOMAIN requests : requests[r].at = "asked"
SettingsWork == IF Asked(patcher) THEN AllAsked(patcher) /\ ~Asked(writer) ELSE AllAsked(writer)
SettingsRest ==
  /\ files = [l \in St!Layer |-> St!Empty] /\ auth.keys = St!NoKeys
  /\ ~Asked(patcher) /\ ~Asked(writer)
Unless(name, fixed) == IF part = name THEN TRUE ELSE fixed

MCInit ==
  /\ part \in Parts /\ Pf!Init /\ StoreInit
  /\ Unless("driver", api = "openai") /\ Dr!Init
  /\ Unless("request", agent = "build" /\ agentsMD = {}) /\ Rq!Init
  /\ Unless("directory", start = Begin(3, FALSE, {"log"})) /\ Init
  /\ St!Init /\ (IF part = "settings" THEN SettingsWork ELSE SettingsRest)
  /\ Ft!Init /\ Unless("tools", before = <<>> /\ given[3] = Write("g", "x"))
  /\ Unless("catalogue", config = <<>>) /\ Ct!Init
  /\ Unless("prompt", route = "home") /\ Pr!Init
  /\ Unless("picker", current = Nil /\ visible = 1) /\ Pk!Init
  /\ Unless("keymap", bindings = Ky!Definitions) /\ Ky!Init

\* Where one of the two files may fail, the other is left alone.
OneFile ==
  /\ "log" \in start.fails => UNCHANGED sets
  /\ "store" \in start.fails => UNCHANGED <<active, backup>>

Is(name) == part = name /\ UNCHANGED part
MCNext ==
  \/ /\ Is("driver") /\ Dr!Next
     /\ UNCHANGED <<requestVars, vars, profileVars, toolVars, catalogueVars, settingVars, storeVars, promptVars, pickerVars, keyVars>>
  \/ /\ Is("request") /\ Rq!Next
     /\ UNCHANGED <<driverVars, vars, profileVars, toolVars, catalogueVars, settingVars, storeVars, promptVars, pickerVars, keyVars>>
  \/ /\ Is("directory") /\ Next /\ OneFile
     /\ UNCHANGED <<driverVars, requestVars, profileVars, toolVars, catalogueVars, settingVars, storeVars, promptVars, pickerVars, keyVars>>
  \/ /\ Is("profiles") /\ Pf!Next
     /\ UNCHANGED <<driverVars, requestVars, vars, toolVars, catalogueVars, settingVars, storeVars, promptVars, pickerVars, keyVars>>
  \/ /\ Is("tools") /\ Ft!Next
     /\ UNCHANGED <<driverVars, requestVars, vars, profileVars, catalogueVars, settingVars, storeVars, promptVars, pickerVars, keyVars>>
  \/ /\ Is("catalogue") /\ Ct!Next
     /\ UNCHANGED <<driverVars, requestVars, vars, profileVars, toolVars, settingVars, storeVars, promptVars, pickerVars, keyVars>>
  \/ /\ Is("settings") /\ St!Next
     /\ UNCHANGED <<driverVars, requestVars, vars, profileVars, toolVars, catalogueVars, storeVars, promptVars, pickerVars, keyVars>>
  \/ /\ Is("store") /\ StoreNext
     /\ UNCHANGED <<driverVars, requestVars, vars, profileVars, toolVars, catalogueVars, settingVars, promptVars, pickerVars, keyVars>>
  \/ /\ Is("prompt") /\ Pr!Next
     /\ UNCHANGED <<driverVars, requestVars, vars, profileVars, toolVars, catalogueVars, settingVars, storeVars, pickerVars, keyVars>>
  \/ /\ Is("picker") /\ Pk!Next
     /\ UNCHANGED <<driverVars, requestVars, vars, profileVars, toolVars, catalogueVars, settingVars, storeVars, promptVars, keyVars>>
  \/ /\ Is("keymap") /\ Ky!Next
     /\ UNCHANGED <<driverVars, requestVars, vars, profileVars, toolVars, catalogueVars, settingVars, storeVars, promptVars, pickerVars>>

MCVars == <<part, driverVars, requestVars, vars, profileVars, toolVars, catalogueVars, settingVars, storeVars, promptVars,
          pickerVars, keyVars>>
MCSpec == MCInit /\ [][MCNext]_MCVars
=============================================================================
