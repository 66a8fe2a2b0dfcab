-------------------------------- MODULE Driver --------------------------------
(***************************************************************************)
(* One streamed completion (internal/llm): the request, the frames of the  *)
(* response as sseLoop hands them to a driver, and the parts the driver    *)
(* sends the engine.  The OpenAI driver accumulates tool calls and sends   *)
(* them at the end; the Anthropic driver sends each when its block stops.  *)
(*                                                                         *)
(* Pieces of text and of arguments are named by the number of their frame. *)
(* Token counts are left out but for their presence.  Once the engine's    *)
(* context is cancelled a send may or may not be dropped, one by one.      *)
(***************************************************************************)
EXTENDS Naturals, Sequences, SequencesExt

CONSTANTS
  Frames,      \* [api -> the frames its server may write]
  Statuses,    \* answers to the request: HTTP statuses, 0 for a network error, 1 for
               \* a cancelled context
  MaxFrames    \* bound: frames of one response

VARIABLES
  api,         \* "openai" or "anthropic"
  seen,        \* frames processed so far
  at,          \* "new", "reading", "closed", "transient", "refused"
  acc,         \* OpenAI: accumulated calls, a sequence of [index, id, name, args];
               \* Anthropic: [index -> block], of the blocks begun
  finish,      \* pendingFinish
  failed,      \* streamErr or readErr: "none", "stream", "read"
  usage,       \* the usage chunk came
  out,         \* parts sent to the engine
  cancelled    \* the engine's context

vars == <<api, seen, at, acc, finish, failed, usage, out, cancelled>>

-----------------------------------------------------------------------------
(* The request.                                                            *)

\* IsTransient: what streamWithRetry tries again.
Transient(status) == status = 0 \/ status = 429 \/ status >= 500
Open(status) ==
  /\ at = "new"
  /\ at' = IF status = 200 THEN "reading" ELSE IF Transient(status) THEN "transient" ELSE "refused"
  /\ UNCHANGED <<api, seen, acc, finish, failed, usage, out, cancelled>>

-----------------------------------------------------------------------------
(* Frames.                                                                 *)

TextPart(kind, n) == [kind |-> kind, piece |-> n]
ToolPart(a) == [kind |-> "tool", id |-> a.id, name |-> a.name, args |-> a.args]
If(b, part) == IF b THEN <<part>> ELSE <<>>

\* A fragment joins the call of its index, or begins it; an id or a name counts when it
\* is given.
Joined(call, frag, n) ==
  [index |-> call.index,
   id |-> IF frag.id = "" THEN call.id ELSE frag.id,
   name |-> IF frag.name = "" THEN call.name ELSE frag.name,
   args |-> call.args \o If(frag.args, n)]
NewCall(index) == [index |-> index, id |-> "", name |-> "", args |-> <<>>]
AddFragment(calls, frag, n) ==
  IF \E i \in DOMAIN calls : calls[i].index = frag.index
  THEN [i \in DOMAIN calls |->
          IF calls[i].index = frag.index THEN Joined(calls[i], frag, n) ELSE calls[i]]
  ELSE Append(calls, Joined(NewCall(frag.index), frag, n))
AccumulatedByFrame(f, n) ==
  LET told[i \in 0 .. Len(f.calls)] ==
        IF i = 0 THEN acc ELSE AddFragment(<<>>, f.calls[i], n)
  IN told[Len(f.calls)]
Accumulated(f, n) ==
  LET told[i \in 0 .. Len(f.calls)] ==
        IF i = 0 THEN acc ELSE AddFragment(told[i - 1], f.calls[i], n)
  IN told[Len(f.calls)]

\* What a frame makes of the driver: calls, finish, error, usage, parts to send,
\* and whether it ends the stream.
Nothing == [acc |-> acc, finish |-> finish, failed |-> failed, usage |-> usage,
            send |-> <<>>, ends |-> FALSE]

OpenAIFrame(f, n) ==
  CASE f.type = "done" -> [Nothing EXCEPT !.ends = TRUE]
    [] f.type = "usage" -> [Nothing EXCEPT !.usage = TRUE]
    [] f.type = "chunk" ->
         [Nothing EXCEPT
           !.send = If(f.text, TextPart("text", n)) \o If(f.reasoning, TextPart("reasoning", n)),
           !.acc = Accumulated(f, n),
           !.finish = IF f.finish = "" THEN @ ELSE f.finish]
    [] OTHER -> Nothing

\* A block replaces an earlier one of its index; a call without arguments gets "{}".
NewBlock(f) ==
  [i \in DOMAIN acc \union {f.index} |->
     IF i = f.index THEN [kind |-> f.kind, id |-> f.id, name |-> f.name, args |-> <<>>] ELSE acc[i]]
AnFinish(reason) ==
  CASE reason = "end_turn" -> "stop" [] reason = "tool_use" -> "tool_calls"
    [] reason = "max_tokens" -> "length" [] OTHER -> reason
AnthropicFrame(f, n) ==
  CASE f.type = "block_start" -> [Nothing EXCEPT !.acc = NewBlock(f)]
    [] f.type = "text_delta" -> [Nothing EXCEPT !.send = <<TextPart("text", n)>>]
    [] f.type = "thinking_delta" -> [Nothing EXCEPT !.send = <<TextPart("reasoning", n)>>]
    [] f.type = "input_delta" /\ f.index \in DOMAIN acc ->
         [Nothing EXCEPT !.acc[f.index].args = Append(@, n)]
    [] f.type = "block_stop" /\ f.index \in DOMAIN acc ->
         LET a == acc[f.index]
         IN [Nothing EXCEPT !.send = If(a.kind = "tool_use", ToolPart(a))]
    [] f.type = "message_delta" ->
         [Nothing EXCEPT !.finish = IF f.finish = "" THEN @ ELSE AnFinish(f.finish)]
    [] f.type = "message_stop" -> [Nothing EXCEPT !.ends = TRUE]
    [] f.type = "error" -> [Nothing EXCEPT !.failed = "stream"]
    [] OTHER -> Nothing

Processed(f) ==
  IF api = "openai" THEN OpenAIFrame(f, Len(seen) + 1) ELSE AnthropicFrame(f, Len(seen) + 1)

\* The driver's finish: the accumulated calls (OpenAI), then one final part.
FinishParts(s) ==
  LET error == [kind |-> "final", finish |-> "error", usage |-> FALSE]
      fine == [kind |-> "final", finish |-> s.finish,
               usage |-> IF api = "openai" THEN s.usage ELSE TRUE]
      calls == [i \in DOMAIN s.acc |-> ToolPart(s.acc[i])]
  IN CASE api = "openai" -> Append(calls, IF s.finish # "" THEN fine ELSE error)
       [] api = "anthropic" -> <<IF s.failed # "stream" /\ s.finish # "" THEN fine ELSE error>>

\* Sends are dropped one by one once the context is cancelled.
Kept(parts) ==
  IF ~cancelled THEN {parts}
  ELSE {FlattenSeq([i \in DOMAIN parts |-> If(i \in kept, parts[i])]) : kept \in SUBSET DOMAIN parts}
Send(parts) == \E kept \in Kept(parts) : out' = out \o kept

Becomes(s) == acc' = s.acc /\ finish' = s.finish /\ failed' = s.failed /\ usage' = s.usage

\* A frame with its blank line.  sseLoop reads on until the driver has finished.
Frame(f) ==
  /\ at = "reading"
  /\ Len(seen) < MaxFrames
  /\ LET s == Processed(f) IN
       /\ Becomes(s)
       /\ Send(IF s.ends THEN s.send \o FinishParts(s) ELSE s.send)
       /\ at' = IF s.ends THEN "closed" ELSE at
  /\ seen' = Append(seen, f)
  /\ UNCHANGED <<api, cancelled>>

\* The body ends or breaks: finish runs.
Broken(s, how) == [s EXCEPT !.failed = IF how = "read" /\ @ = "none" THEN "read" ELSE @]
BodyEnds(how) ==
  /\ at = "reading"
  /\ LET s == Broken(Nothing, how) IN Becomes(s) /\ Send(FinishParts(s))
  /\ at' = "closed"
  /\ UNCHANGED <<api, seen, cancelled>>

\* It ends in a frame without its blank line: the OpenAI driver takes it (flushTail).
BodyEndsIn(f, how) ==
  /\ at = "reading"
  /\ api = "openai"
  /\ Len(seen) < MaxFrames
  /\ LET s == Broken(Processed(f), how) IN Becomes(s) /\ Send(s.send \o FinishParts(s))
  /\ seen' = Append(seen, f)
  /\ at' = "closed"
  /\ UNCHANGED <<api, cancelled>>

Cancel ==
  /\ at = "reading"
  /\ cancelled' = TRUE
  /\ UNCHANGED <<api, seen, at, acc, finish, failed, usage, out>>

-----------------------------------------------------------------------------
Init ==
  /\ api \in DOMAIN Frames /\ seen = <<>> /\ at = "new" /\ acc = <<>> /\ finish = ""
  /\ failed = "none" /\ usage = FALSE /\ out = <<>> /\ cancelled = FALSE

Next ==
  \/ \E status \in Statuses : Open(status)
  \/ \E f \in Frames[api] : Frame(f) \/ \E how \in {"eof", "read"} : BodyEndsIn(f, how)
  \/ \E how \in {"eof", "read"} : BodyEnds(how)
  \/ Cancel

Spec == Init /\ [][Next]_vars

-----------------------------------------------------------------------------
(* What a response means, read off its frames alone.                       *)

\* OpenAI: a call per index, in the order they first appear, with its latest id and
\* name and all of its argument pieces.
Fragments(frames) == FlattenSeq([n \in DOMAIN frames |->
  IF frames[n].type # "chunk" THEN <<>>
  ELSE [i \in DOMAIN frames[n].calls |-> [frag |-> frames[n].calls[i], at |-> n]]])
Order(xs) == FlattenSeq([i \in DOMAIN xs |->
  If(\A j \in 1 .. i - 1 : xs[j].frag.index # xs[i].frag.index, xs[i].frag.index)])
Pieces(xs, index) == FlattenSeq([i \in DOMAIN xs |->
  If(xs[i].frag.index = index /\ xs[i].frag.args, xs[i].at)])
Latest(given) == CHOOSE i \in given : \A j \in given : j <= i
LatestId(xs, index) ==
  LET given == {i \in DOMAIN xs : xs[i].frag.index = index /\ xs[i].frag.id # ""}
  IN IF given = {} THEN "" ELSE xs[Latest(given)].frag.id
LatestName(xs, index) ==
  LET given == {i \in DOMAIN xs : xs[i].frag.index = index /\ xs[i].frag.name # ""}
  IN IF given = {} THEN "" ELSE xs[Latest(given)].frag.name
OpenAICalls(xs) ==
  [k \in DOMAIN Order(xs) |->
     LET index == Order(xs)[k]
     IN [kind |-> "tool", id |-> LatestId(xs, index), name |-> LatestName(xs, index),
         args |-> Pieces(xs, index)]]

\* Anthropic: a call at each stop of a tool block, from the start of that block on.
BlockStarts(frames, n, index) ==
  {i \in 1 .. n : frames[i].type = "block_start" /\ frames[i].index = index}
BlockPieces(frames, n, index) == FlattenSeq([i \in 1 .. n |->
  If(/\ frames[i].type = "input_delta" /\ frames[i].index = index
     /\ i > Latest(BlockStarts(frames, n, index)), i)])
AnthropicCall(frames, n) ==
  LET index == frames[n].index
      start == Latest(BlockStarts(frames, n, index))
  IN IF BlockStarts(frames, n, index) = {} THEN <<>>
     ELSE If(frames[start].kind = "tool_use",
             [kind |-> "tool", id |-> frames[start].id, name |-> frames[start].name,
              args |-> BlockPieces(frames, n, index)])

Spoken(frames, n) ==
  LET f == frames[n] IN
  CASE f.type = "chunk" -> If(f.text, TextPart("text", n)) \o If(f.reasoning, TextPart("reasoning", n))
    [] f.type = "text_delta" -> <<TextPart("text", n)>>
    [] f.type = "thinking_delta" -> <<TextPart("reasoning", n)>>
    [] f.type = "block_stop" -> AnthropicCall(frames, n)
    [] OTHER -> <<>>
Spoke(frames) == FlattenSeq([n \in DOMAIN frames |-> Spoken(frames, n)])

Reasons(frames) ==
  {n \in DOMAIN frames : frames[n].type \in {"chunk", "message_delta"} /\ frames[n].finish # ""}
Reason(frames) ==
  LET latest == frames[Latest(Reasons(frames))]
  IN IF Reasons(frames) = {} \/ (\E n \in DOMAIN frames : frames[n].type = "error") THEN "error"
     ELSE IF latest.type = "chunk" THEN latest.finish ELSE AnFinish(latest.finish)

\* Whatever is dropped after an abort, what the engine got is in order, and nothing
\* comes after the final part.
DroppedInOrder ==
  \A i, j \in DOMAIN out : i < j =>
    /\ out[i].kind # "final"
    /\ out[i].kind \in {"text", "reasoning"} /\ out[j].kind = out[i].kind => out[i].piece < out[j].piece

\* A response whose stream the engine has followed to the end is what its frames
\* say: every piece once and in order, every call with all of its arguments, and
\* one final part, an error if the server gave no reason to stop.  One that was
\* aborted keeps what it has in order.
StreamAgrees ==
  /\ at = "closed" /\ ~cancelled =>
       /\ out # <<>>
       /\ Front(out) = Spoke(seen)
                         \o (IF api = "openai" THEN OpenAICalls(Fragments(seen)) ELSE <<>>)
       /\ Last(out).kind = "final" /\ Last(out).finish = Reason(seen)
  /\ DroppedInOrder
=============================================================================
