-------------------------------- MODULE Keymap --------------------------------
(***************************************************************************)
(* The interface's key bindings: the registry (defaults and the overrides  *)
(* of the configuration), the matching of a key against a sequence, and    *)
(* the leader key, whose pending state a second key or a timer ends.  A    *)
(* timer cannot be cancelled: every press of the leader starts another.    *)
(* A sequence is its modifiers, its base key and whether it follows the    *)
(* leader; modal dialogs take keys before this dispatcher does.            *)
(***************************************************************************)
EXTENDS Naturals, Sequences, FiniteSets, SequencesExt

CONSTANTS Overrides,     \* keybinds of the configuration: sets of functions from names to values
          LeaderTimeout, \* in ticks of the clock
          MaxClock,      \* bound: time modelled
          MaxLeaders     \* bound: presses of the leader

VARIABLES bindings,      \* the sequences of every binding
          pendingLeader, leaderGen,
          ticks,         \* timers in flight: generation and due time
          modal,         \* whether a dialog or an ask owns the keys
          ran,           \* the command the last key ran, or "none"
          clock,
          lastLeader     \* when the leader was pressed, if no key came here since; otherwise 0
vars == <<bindings, pendingLeader, leaderGen, ticks, modal, ran, clock, lastLeader>>

Key(mods, base) == [mods |-> mods, base |-> base]
Seqn(leader, mods, base) == [leader |-> leader, mods |-> mods, base |-> base]
Plain(mods, base) == Seqn(FALSE, mods, base)
After(base) == Seqn(TRUE, {}, base)

\* The bindings the dispatcher serves, in the order it tries them, and their defaults.
Definitions ==
    [leader |-> {Plain({"ctrl"}, "x")},
     which_key_toggle |-> {Plain({"ctrl", "alt"}, "k")},
     command_list |-> {Plain({"ctrl"}, "p")},
     app_exit |-> {Plain({"ctrl"}, "c"), Plain({"ctrl"}, "d"), After("q")},
     model_list |-> {After("m")}, agent_list |-> {After("a")}, status_view |-> {After("s")},
     theme_list |-> {After("t")}, session_new |-> {After("n")}, session_list |-> {After("l")},
     tips_toggle |-> {After("h")}, sidebar_toggle |-> {After("b")},
     agent_cycle |-> {Plain({}, "tab")}, agent_cycle_reverse |-> {Plain({"shift"}, "tab")}]
ContextGroup ==
    <<"which_key_toggle", "command_list", "app_exit", "model_list", "agent_list", "status_view",
      "theme_list", "session_new", "session_list", "tips_toggle", "sidebar_toggle",
      "agent_cycle", "agent_cycle_reverse">>

\* An override takes the place of the default; "none" is no sequence, and a name nobody
\* defines is refused.
NewKeymap(overrides) ==
    [n \in DOMAIN Definitions |-> IF n \in DOMAIN overrides THEN overrides[n] ELSE Definitions[n]]
Recognized(overrides) == DOMAIN overrides \subseteq DOMAIN Definitions

\* A leader sequence matches nothing by itself; the others match their key and exactly
\* their modifiers, under the aliases of its name.
Aliases == [enter |-> "return", esc |-> "escape", pgup |-> "pageup", pgdown |-> "pagedown"]
NormalizeKeyName(base) == IF base \in DOMAIN Aliases THEN Aliases[base] ELSE base
KeyMatches(k, s) == NormalizeKeyName(k.base) = NormalizeKeyName(s.base) /\ k.mods = s.mods
Match(name, k) == \E s \in bindings[name] : ~s.leader /\ KeyMatches(k, s)
MatchPending(name, k) == \E s \in bindings[name] : s.leader /\ KeyMatches(k, s)

\* The prompt owns ctrl+d.
MatchBase(name, k) ==
    \E s \in bindings[name] :
       /\ ~s.leader /\ KeyMatches(k, s)
       /\ ~(name = "app_exit" /\ s = Plain({"ctrl"}, "d"))

First(names) == LET i == SelectInSeq(ContextGroup, LAMBDA n : n \in names)
                IN IF i = 0 THEN "none" ELSE ContextGroup[i]

Init ==
    /\ \E o \in Overrides : Recognized(o) /\ bindings = NewKeymap(o)
    /\ pendingLeader = FALSE /\ leaderGen = 0 /\ ticks = {} /\ modal = FALSE
    /\ ran = "none" /\ clock = 1 /\ lastLeader = 0

\* One that starts its timer without a generation of its own.
PressLeaderSameGen(k) ==
    /\ ~modal /\ Match("leader", k) /\ leaderGen < MaxLeaders
    /\ pendingLeader' = TRUE /\ leaderGen' = 1
    /\ ticks' = ticks \union {[gen |-> 1, due |-> clock + LeaderTimeout]}
    /\ lastLeader' = clock /\ ran' = "none"
    /\ UNCHANGED <<bindings, modal, clock>>

\* The leader arms the pending state, or arms it again.
PressLeader(k) ==
    /\ ~modal /\ Match("leader", k) /\ leaderGen < MaxLeaders
    /\ pendingLeader' = TRUE /\ leaderGen' = leaderGen + 1
    /\ ticks' = ticks \union {[gen |-> leaderGen + 1, due |-> clock + LeaderTimeout]}
    /\ lastLeader' = clock /\ ran' = "none"
    /\ UNCHANGED <<bindings, modal, clock>>

\* Any other key ends it: it runs a continuation, or else what it is bound to by itself.
Press(k) ==
    /\ ~modal /\ ~Match("leader", k)
    /\ LET next == IF pendingLeader THEN First({n \in ToSet(ContextGroup) : MatchPending(n, k)}) ELSE "none"
       IN ran' = IF next # "none" THEN next ELSE First({n \in ToSet(ContextGroup) : MatchBase(n, k)})
    /\ pendingLeader' = FALSE /\ lastLeader' = 0
    /\ modal' = (ran' \in {"command_list", "model_list", "agent_list", "status_view", "theme_list",
                           "session_list"})
    /\ UNCHANGED <<bindings, leaderGen, ticks, clock>>

\* An ask arrives, or a dialog closes; keys meanwhile are not seen here.
Modal == modal' = ~modal /\ UNCHANGED <<bindings, pendingLeader, leaderGen, ticks, ran, clock, lastLeader>>

LeaderTimeoutMsg(t) ==
    /\ t \in ticks /\ t.due <= clock /\ ticks' = ticks \ {t}
    /\ pendingLeader' = IF t.gen = leaderGen THEN FALSE ELSE pendingLeader
    /\ UNCHANGED <<bindings, leaderGen, modal, ran, clock, lastLeader>>

\* Time passes; a timer that is due is delivered first.
Tick ==
    /\ clock < MaxClock /\ \A t \in ticks : t.due > clock
    /\ clock' = clock + 1
    /\ UNCHANGED <<bindings, pendingLeader, leaderGen, ticks, modal, ran, lastLeader>>

Pressed ==
    {Key({"ctrl"}, "x"), Key({"ctrl"}, "p"), Key({"ctrl"}, "d"), Key({}, "q"), Key({}, "n"),
     Key({}, "tab"), Key({"shift"}, "tab"), Key({}, "esc")}

Next ==
    \/ \E k \in Pressed : PressLeader(k) \/ Press(k)
    \/ Modal \/ Tick
    \/ \E t \in ticks : LeaderTimeoutMsg(t)

Spec == Init /\ [][Next]_vars

\* After its last press the leader waits for a key for the whole of its time, and no longer,
\* whichever timers of earlier presses run out meanwhile and whoever owns the keys.
LeaderWindow ==
    /\ pendingLeader => lastLeader # 0 /\ clock <= lastLeader + LeaderTimeout
    /\ (lastLeader # 0 /\ clock < lastLeader + LeaderTimeout) => pendingLeader
=============================================================================
