------------------------------ MODULE ModelParts ------------------------------
(* How a round talks to a model: the driver that reads a response and the   *)
(* request that is sent for it, which share no state here.                  *)
EXTENDS Integers, Sequences

CONSTANTS Frames, Statuses, MaxFrames,                                       \* Driver
          MaxMessages, MaxParts, Models                                      \* Request

VARIABLES api, seen, phase, acc, finish, failed, usage, out, cancelled,      \* Driver
          history, agent, model, agentsMD                                    \* Request

Dr == INSTANCE Driver WITH at <- phase
Rq == INSTANCE Request WITH hist <- history

\* The frames a driver tells apart, with what it reads of them; one that is none of these
\* is ignored.
ASSUME FrameAssumption ==
  /\ DOMAIN Frames = {"openai", "anthropic"}
  /\ \A f \in Frames["openai"] :
       /\ f.type \in {"chunk", "usage", "done", "other"}
       /\ f.type = "chunk" =>
            /\ f.text \in BOOLEAN /\ f.reasoning \in BOOLEAN /\ f.finish \in STRING
            /\ f.calls \in Seq([index : Int, id : STRING, name : STRING, args : BOOLEAN])
  /\ \A f \in Frames["anthropic"] :
       /\ f.type \in {"block_start", "text_delta", "thinking_delta", "input_delta", "block_stop",
                       "message_delta", "message_stop", "error", "other"}
       /\ f.type = "block_start" =>
            f.index \in Int /\ f.kind \in STRING /\ f.id \in STRING /\ f.name \in STRING
       /\ f.type = "message_delta" => f.finish \in STRING

-----------------------------------------------------------------------------
(* Their properties, under the names they have there. *)

\* What a driver hands on is what its frames say, however they are cut (Driver).
StreamAgrees == Dr!StreamAgrees
\* Both drivers send a conversation in which every call is answered (Request).
RequestsAreSendable == Rq!RequestsAreSendable
=============================================================================
