----------------------------- MODULE EventStream -----------------------------
(***************************************************************************)
(* How an event gets from the engine to a client: the bus with its bounded *)
(* subscribers (internal/bus/bus.go), the handler of GET /event that       *)
(* subscribes and writes frames (internal/server/sse.go), and the reader   *)
(* goroutine of the client with its reconnects and resync pings            *)
(* (internal/client/event.go).  One client.  A component: the module that  *)
(* extends it publishes and consumes.                                      *)
(*                                                                         *)
(* Processes: the handler of the current connection and the reader.        *)
(* Between them the network may break.  Everything is FIFO; an event that  *)
(* is nowhere any more is lost, the bus replays nothing.                   *)
(*                                                                         *)
(* Definitions that stand just before the one they vary, and that no other *)
(* definition uses, are plausible bugs.                                    *)
(***************************************************************************)
EXTENDS Naturals, Sequences

CONSTANTS
  Backlog,    \* subscriberBuffer
  Wire,       \* frames under way between handler and reader
  Channel,    \* capacity of the event channel
  PingSlots,  \* capacity of the resync channel
  MaxBreaks   \* bound: connections the network breaks

ASSUME StreamAssumption ==
  /\ {Backlog, Wire, Channel, PingSlots} \subseteq Nat \ {0}
  /\ MaxBreaks \in Nat

VARIABLES
  link,    \* the connection, as far as either side has got
  sub,     \* its bus subscription: on, while the bus has it, and its buffer
  wire,    \* frames written and not read
  ch,      \* the event channel the consumer reads
  pings,   \* filled slots of the resync channel
  drops,   \* connections that were lost
  breaks   \* of these, by the network

streamVars == <<link, sub, wire, ch, pings, drops, breaks>>

Links == {"none", "dialling", "headers", "open", "ended", "backoff"}
NoSub == [on |-> FALSE, buffer |-> <<>>]

\* bus.Publish: a full subscriber is dropped and misses the event.
Publish(e) ==
  sub' = IF ~sub.on THEN sub
         ELSE IF Len(sub.buffer) < Backlog
              THEN [sub EXCEPT !.buffer = Append(@, e)]
              ELSE [sub EXCEPT !.on = FALSE]

-----------------------------------------------------------------------------
(* The handler.                                                            *)

\* The headers are flushed before the handler subscribes.
Accept ==
  /\ link = "dialling"
  /\ link' = "headers"
  /\ UNCHANGED <<sub, wire, ch, pings, drops, breaks>>

Subscribe ==
  /\ link = "headers"
  /\ link' = "open"
  /\ sub' = [on |-> TRUE, buffer |-> <<>>]
  /\ UNCHANGED <<wire, ch, pings, drops, breaks>>

WriteFrameUnflushed ==
  /\ link = "open"
  /\ Len(sub.buffer) > 1
  /\ Len(wire) < Wire
  /\ sub' = [sub EXCEPT !.buffer = Tail(@)]
  /\ wire' = Append(wire, Head(sub.buffer))
  /\ UNCHANGED <<link, ch, pings, drops, breaks>>
\* A frame is written and flushed.
WriteFrame ==
  /\ link = "open"
  /\ sub.buffer # <<>>
  /\ Len(wire) < Wire
  /\ sub' = [sub EXCEPT !.buffer = Tail(@)]
  /\ wire' = Append(wire, Head(sub.buffer))
  /\ UNCHANGED <<link, ch, pings, drops, breaks>>

\* The bus closed the channel; what was in it has been written.
HangUp ==
  /\ link = "open"
  /\ ~sub.on
  /\ sub.buffer = <<>>
  /\ link' = "ended"
  /\ UNCHANGED <<sub, wire, ch, pings, drops, breaks>>

-----------------------------------------------------------------------------
(* The reader.                                                             *)

\* It blocks while the consumer is slow.
ReadFrame ==
  /\ link \in {"open", "ended"}
  /\ wire # <<>>
  /\ Len(ch) < Channel
  /\ wire' = Tail(wire)
  /\ ch' = Append(ch, Head(wire))
  /\ UNCHANGED <<link, sub, pings, drops, breaks>>

\* A ping per drop; a full resync channel loses it.
Pinged == IF pings < PingSlots THEN pings + 1 ELSE pings

Drop ==
  /\ link' = "backoff"
  /\ sub' = NoSub
  /\ wire' = <<>>
  /\ pings' = Pinged
  /\ drops' = drops + 1
  /\ UNCHANGED ch

ReadEnd ==
  /\ link = "ended"
  /\ wire = <<>>
  /\ Drop
  /\ UNCHANGED breaks

\* The network fails, or the dial did; what was under way is lost.
Break ==
  /\ link \in {"dialling", "headers", "open", "ended"}
  /\ breaks < MaxBreaks
  /\ breaks' = breaks + 1
  /\ Drop

\* The backoff is over.
Redial ==
  /\ link = "backoff"
  /\ link' = "dialling"
  /\ UNCHANGED <<sub, wire, ch, pings, drops, breaks>>

\* Service.Events: the reader goroutine starts.
Connect ==
  /\ link = "none"
  /\ link' = "dialling"
  /\ UNCHANGED <<sub, wire, ch, pings, drops, breaks>>

-----------------------------------------------------------------------------
StreamInit ==
  /\ link = "none" /\ sub = NoSub /\ wire = <<>>
  /\ ch = <<>> /\ pings = 0 /\ drops = 0 /\ breaks = 0

\* Handler and reader, by themselves.
StreamStep ==
  Accept \/ Subscribe \/ WriteFrame \/ HangUp \/ ReadFrame \/ ReadEnd \/ Redial

StreamTypeOK(Event) ==
  /\ link \in Links
  /\ sub \in [on : BOOLEAN, buffer : Seq(Event)]
  /\ wire \in Seq(Event) /\ ch \in Seq(Event)
  /\ Len(sub.buffer) <= Backlog /\ Len(wire) <= Wire /\ Len(ch) <= Channel
  /\ pings \in 0 .. PingSlots
  /\ drops \in Nat /\ breaks \in 0 .. MaxBreaks

=============================================================================
