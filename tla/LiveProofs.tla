------------------------------- MODULE LiveProofs -------------------------------
(***************************************************************************)
(* The safety of the two modules whose processes wait for one another:     *)
(* KilledStaysSilent of ShellSessions for every set of commands, and       *)
(* AsksAreParked of TuiApp for every set of sessions and asks.             *)
(*                                                                         *)
(* Shell: whoever may still be read in the bash process (the command it    *)
(* runs, its background jobs, the authors of its unread lines) is the      *)
(* command that holds the mutex or one that ended well; a command that is  *)
(* killed takes the process, and all of them, with it.  And a command      *)
(* returns once, so one that ended well stays so.                          *)
(*                                                                         *)
(* Asks: as long as the stream has not broken, an ask whose event is still *)
(* under way is held too or replied to, and the event that removes it      *)
(* comes after the one that shows it, unless the reply was published first *)
(* of the two.  An ask nobody has published yet is nowhere.                *)
(***************************************************************************)
EXTENDS ShellSessions, TuiApp, TLAPS


EndedWell == {"completed", "failed"}

Lines == [kind : {"line", "marker", "eof"}, by : Cmd \cup {NoCmd}]
Process ==
  [id : Nat, up : BOOLEAN, runs : Cmd \cup {NoCmd}, jobs : SUBSET Cmd, lines : Nat,
   out : Seq(Lines)]

\* The types the proof needs.
Shape ==
  /\ cmd \in [Cmd -> {"new", "taken", "stored", "waiting", "running", "executed",
                      "leaving", "done", "refused"}]
  /\ outcome \in [Cmd -> {"none", "completed", "failed", "timeout", "aborted"}]
  /\ heard \in [Cmd -> SUBSET (Cmd \cup {NoCmd})]
  /\ lock \in Cmd \cup {NoCmd}
  /\ bash \in Process
  /\ spawned \in Nat

\* The mutex is held by the command that runs, and a result is for good.
MutexInv ==
  /\ \A c \in Cmd : cmd[c] = "running" <=> lock = c
  /\ \A c \in Cmd : outcome[c] # "none" => cmd[c] \in {"executed", "leaving", "done"}

\* Who may be read in the output of the process from now on.
Audible(d) ==
  \/ bash.runs = d \/ d \in bash.jobs
  \/ \E i \in 1 .. Len(bash.out) : bash.out[i].by = d

AudibleInv == \A d \in Cmd : Audible(d) /\ d # lock => outcome[d] \in EndedWell
HeardInv == \A c, d \in Cmd : d \in heard[c] /\ d # c => outcome[d] \in EndedWell

SilenceInv == Shape /\ MutexInv /\ AudibleInv /\ HeardInv

-----------------------------------------------------------------------------
LEMMA NoCmdIsNone == NoCmd \notin Cmd
  BY ShellAssumption DEF Cmd

LEMMA NoBashIsProcess == NoBash \in Process
  BY DEF NoBash, Process

\* An empty process is heard of nobody.
LEMMA NobodyInNoBash ==
  ASSUME bash' = NoBash
  PROVE  \A d \in Cmd : ~Audible(d)'
  BY NoCmdIsNone DEF NoBash, Audible

\* Steps that change neither process, mutex nor results.
LEMMA Elsewhere ==
  ASSUME SilenceInv, NEW c \in Cmd, NEW where, Goto(c, where),
         cmd[c] # "running", where # "running",
         where \in {"new", "taken", "stored", "waiting", "running", "executed",
                    "leaving", "done", "refused"},
         outcome[c] = "none" \/ where \in {"leaving", "done"},
         UNCHANGED <<outcome, heard, lock, bash, spawned>>
  PROVE  SilenceInv'
<1>1. Shape'
  BY DEF SilenceInv, Shape, Goto
<1>2. MutexInv'
  BY DEF SilenceInv, Shape, MutexInv, Goto
<1>3. AudibleInv' /\ HeardInv'
  BY DEF SilenceInv, AudibleInv, Audible, HeardInv
<1> QED BY <1>1, <1>2, <1>3 DEF SilenceInv

\* The holder returns: what it leaves behind ended well, or the process is gone.
LEMMA Returns ==
  ASSUME SilenceInv, NEW c \in Cmd, cmd[c] = "running",
         NEW what \in {"completed", "failed", "timeout", "aborted"}, Return(c, what),
         bash' \in Process,
         \A d \in Cmd : Audible(d)' => what \in EndedWell /\ (d = c \/ Audible(d)),
         UNCHANGED <<heard, spawned>>
  PROVE  SilenceInv'
<1>1. /\ cmd' = [cmd EXCEPT ![c] = "executed"]
      /\ outcome' = [outcome EXCEPT ![c] = what] /\ lock' = NoCmd
  BY DEF Return, Goto
<1>2. lock = c /\ outcome[c] = "none"
  BY DEF SilenceInv, MutexInv
<1>3. Shape'
  BY <1>1 DEF SilenceInv, Shape
<1>4. MutexInv'
  BY <1>1, <1>2, NoCmdIsNone DEF SilenceInv, Shape, MutexInv
<1>5. \A d \in Cmd : outcome[d] \in EndedWell => outcome'[d] = outcome[d]
  BY <1>1, <1>2 DEF SilenceInv, Shape, EndedWell
<1>6. AudibleInv'
  <2> SUFFICES ASSUME NEW d \in Cmd, Audible(d)'
               PROVE  outcome'[d] \in EndedWell
    BY DEF AudibleInv
  <2>1. CASE d = c
    BY <1>1, <2>1 DEF SilenceInv, Shape
  <2>2. CASE d # c
    <3>1. outcome[d] \in EndedWell
      BY <1>2, <2>2 DEF SilenceInv, AudibleInv
    <3> QED BY <1>5, <3>1
  <2> QED BY <2>1, <2>2
<1>7. HeardInv'
  BY <1>5 DEF SilenceInv, HeardInv
<1> QED BY <1>3, <1>4, <1>6, <1>7 DEF SilenceInv

\* The process goes on by itself: nobody new is to be heard.
LEMMA BashSteps ==
  ASSUME SilenceInv,
         bash' \in Process,
         \A d \in Cmd : Audible(d)' => Audible(d),
         UNCHANGED <<cmd, outcome, heard, lock, spawned>>
  PROVE  SilenceInv'
<1>1. Shape'
  BY DEF SilenceInv, Shape
<1>2. MutexInv'
  BY DEF SilenceInv, MutexInv
<1>3. AudibleInv' /\ HeardInv'
  BY DEF SilenceInv, AudibleInv, HeardInv
<1> QED BY <1>1, <1>2, <1>3 DEF SilenceInv

LEMMA AppendedLine ==
  ASSUME NEW S, NEW q \in Seq(S), NEW line \in S
  PROVE  /\ Append(q, line) \in Seq(S) /\ Len(Append(q, line)) = Len(q) + 1
         /\ \A i \in 1 .. Len(q) : Append(q, line)[i] = q[i]
         /\ Append(q, line)[Len(q) + 1] = line
  OBVIOUS

LEMMA TailLines ==
  ASSUME NEW S, NEW q \in Seq(S), q # <<>>
  PROVE  /\ Tail(q) \in Seq(S) /\ Head(q) = q[1] /\ 1 \in 1 .. Len(q)
         /\ \A i \in 1 .. Len(Tail(q)) : i + 1 \in 1 .. Len(q) /\ Tail(q)[i] = q[i + 1]
  OBVIOUS

LEMMA BeginNext ==
  ASSUME SilenceInv, NEW c \in Cmd, Begin(c)
  PROVE  SilenceInv'
<1>1. /\ cmd[c] = "waiting" /\ lock = NoCmd /\ heard' = heard
      /\ outcome[c] = "none"
  BY DEF Begin, SilenceInv, MutexInv
<1>2. \A d \in Cmd : Audible(d) => outcome[d] \in EndedWell
  BY <1>1, NoCmdIsNone DEF SilenceInv, AudibleInv
<1>3. CASE /\ lock' = c /\ cmd' = [cmd EXCEPT ![c] = "running"] /\ outcome' = outcome
           /\ bash.id = 0
           /\ spawned' = spawned + 1
           /\ bash' = [NoBash EXCEPT !.id = spawned + 1, !.up = TRUE, !.runs = c]
  <2>1. /\ bash' \in Process
        /\ bash'.runs = c /\ bash'.jobs = {} /\ bash'.out = <<>>
    <3>1. bash' = [id |-> spawned + 1, up |-> TRUE, runs |-> c, jobs |-> {}, lines |-> 0,
                   out |-> <<>>]
      BY <1>3 DEF NoBash
    <3>2. spawned + 1 \in Nat /\ <<>> \in Seq(Lines)
      BY DEF SilenceInv, Shape
    <3> QED BY <3>1, <3>2 DEF Process
  <2>2. \A d \in Cmd : Audible(d)' => d = c
    BY <2>1 DEF Audible
  <2>3. Shape'
    BY <1>1, <1>3, <2>1 DEF SilenceInv, Shape
  <2>4. MutexInv'
    BY <1>1, <1>3, NoCmdIsNone DEF SilenceInv, Shape, MutexInv
  <2>5. AudibleInv' /\ HeardInv'
    BY <1>1, <1>3, <2>2 DEF SilenceInv, AudibleInv, HeardInv
  <2> QED BY <2>3, <2>4, <2>5 DEF SilenceInv
<1>4. CASE /\ lock' = c /\ cmd' = [cmd EXCEPT ![c] = "running"] /\ outcome' = outcome
           /\ spawned' = spawned
           /\ bash' = [bash EXCEPT !.runs = IF bash.up THEN c ELSE NoCmd, !.lines = 0]
  <2>1. /\ bash' \in Process
        /\ bash'.runs \in {c, NoCmd} /\ bash'.jobs = bash.jobs /\ bash'.out = bash.out
    BY <1>4 DEF SilenceInv, Shape, Process
  <2>2. \A d \in Cmd : Audible(d)' => d = c \/ Audible(d)
    BY <2>1, NoCmdIsNone DEF Audible
  <2>3. Shape'
    BY <1>1, <1>4, <2>1 DEF SilenceInv, Shape
  <2>4. MutexInv'
    BY <1>1, <1>4, NoCmdIsNone DEF SilenceInv, Shape, MutexInv
  <2>5. AudibleInv' /\ HeardInv'
    BY <1>1, <1>2, <1>4, <2>2 DEF SilenceInv, AudibleInv, HeardInv
  <2> QED BY <2>3, <2>4, <2>5 DEF SilenceInv
<1>5. CASE /\ cmd' = [cmd EXCEPT ![c] = "executed"] /\ bash' = NoBash
           /\ outcome' = [outcome EXCEPT ![c] = "failed"]
           /\ UNCHANGED <<lock, spawned>>
  <2>1. Shape'
    BY <1>1, <1>5, NoBashIsProcess DEF SilenceInv, Shape
  <2>2. MutexInv'
    BY <1>1, <1>5, NoCmdIsNone DEF SilenceInv, Shape, MutexInv
  <2>3. AudibleInv'
    BY <1>5, NobodyInNoBash DEF AudibleInv
  <2>4. HeardInv'
    BY <1>1, <1>5 DEF SilenceInv, Shape, HeardInv, EndedWell
  <2> QED BY <2>1, <2>2, <2>3, <2>4 DEF SilenceInv
<1> QED BY <1>3, <1>4, <1>5 DEF Begin, Goto

LEMMA ReadNext ==
  ASSUME SilenceInv, NEW c \in Cmd, Read(c)
  PROVE  SilenceInv'
<1> DEFINE q == bash.out
<1>1. /\ cmd[c] = "running" /\ q # <<>> /\ spawned' = spawned
      /\ q \in Seq(Lines) /\ lock = c
  BY DEF Read, SilenceInv, Shape, MutexInv, Process
<1>2. /\ Tail(q) \in Seq(Lines) /\ Head(q) = q[1] /\ 1 \in 1 .. Len(q)
      /\ \A i \in 1 .. Len(Tail(q)) : i + 1 \in 1 .. Len(q) /\ Tail(q)[i] = q[i + 1]
  BY <1>1, TailLines
<1>3. ASSUME bash' = [bash EXCEPT !.out = Tail(q)]
      PROVE  /\ bash' \in Process
             /\ \A d \in Cmd : Audible(d)' => Audible(d)
  <2>1. /\ bash' \in Process
        /\ bash'.runs = bash.runs /\ bash'.jobs = bash.jobs /\ bash'.out = Tail(q)
    BY <1>2, <1>3 DEF SilenceInv, Shape, Process
  <2>2. \A d \in Cmd : Audible(d)' => Audible(d)
    BY <1>2, <2>1 DEF Audible
  <2> QED BY <2>1, <2>2
<1>4. CASE Return(c, "completed") /\ bash' = [bash EXCEPT !.out = Tail(q)] /\ heard' = heard
  BY <1>1, <1>3, <1>4, Returns DEF EndedWell
<1>5. CASE (\E what \in {"completed", "failed"} : Return(c, what)) /\ Reap /\ heard' = heard
  <2>1. bash' = NoBash
    BY <1>5 DEF Reap
  <2> QED BY <1>1, <1>5, <2>1, NoBashIsProcess, NobodyInNoBash, Returns
<1>6. CASE /\ heard' = [heard EXCEPT ![c] = @ \cup {Head(q).by}]
           /\ bash' = [bash EXCEPT !.out = Tail(q)]
           /\ UNCHANGED <<cmd, outcome, lock>>
  <2>1. Head(q).by \in Cmd \cup {NoCmd}
    <3>1. Head(q) \in Lines
      BY <1>1, <1>2
    <3> QED BY <3>1 DEF Lines
  <2>2. Shape'
    BY <1>1, <1>3, <1>6, <2>1 DEF SilenceInv, Shape
  <2>3. MutexInv'
    BY <1>6 DEF SilenceInv, MutexInv
  <2>4. AudibleInv'
    BY <1>3, <1>6 DEF SilenceInv, AudibleInv
  <2>5. HeardInv'
    <3> SUFFICES ASSUME NEW a \in Cmd, NEW d \in Cmd, d \in heard'[a], d # a
                 PROVE  outcome[d] \in EndedWell
      BY <1>6 DEF HeardInv
    <3>1. CASE d \in heard[a]
      BY <3>1 DEF SilenceInv, HeardInv
    <3>2. CASE a = c /\ d = Head(q).by
      <4>1. Audible(d)
        BY <1>2, <3>2 DEF Audible
      <4> QED BY <1>1, <3>2, <4>1 DEF SilenceInv, AudibleInv
    <3> QED BY <1>6, <3>1, <3>2 DEF SilenceInv, Shape
  <2> QED BY <2>2, <2>3, <2>4, <2>5 DEF SilenceInv
<1> QED BY <1>4, <1>5, <1>6 DEF Read

\* bash's own steps.
LEMMA BashNext ==
  ASSUME SilenceInv, Prints \/ CommandEnds \/ BashDies \/ JobsEnd
  PROVE  SilenceInv'
<1> DEFINE q == bash.out
<1>1. /\ UNCHANGED <<cmd, outcome, heard, lock, spawned>>
      /\ q \in Seq(Lines) /\ bash.runs \in Cmd \cup {NoCmd} /\ bash.jobs \subseteq Cmd
  BY DEF Prints, CommandEnds, BashDies, JobsEnd, cmdVars, SilenceInv, Shape, Process
<1>2. ASSUME NEW up \in BOOLEAN, NEW runs \in {bash.runs, NoCmd},
             NEW jobs \in SUBSET (bash.jobs \cup ({bash.runs} \ {NoCmd})), NEW n \in Nat,
             NEW line \in Lines, line.by = NoCmd \/ Audible(line.by),
             NEW out \in {q, Append(q, line)},
             bash' = [id |-> bash.id, up |-> up, runs |-> runs, jobs |-> jobs,
                      lines |-> n, out |-> out]
      PROVE  SilenceInv'
  <2>1. /\ out \in Seq(Lines)
        /\ \A i \in 1 .. Len(out) : out[i] = line \/ (i \in 1 .. Len(q) /\ out[i] = q[i])
    <3>1. CASE out = q
      BY <1>1, <3>1
    <3>2. CASE out = Append(q, line)
      <4>1. q \in Seq(Lines)
        BY <1>1
      <4>2. /\ Append(q, line) \in Seq(Lines) /\ Len(Append(q, line)) = Len(q) + 1
            /\ \A i \in 1 .. Len(q) : Append(q, line)[i] = q[i]
            /\ Append(q, line)[Len(q) + 1] = line
        BY <4>1, AppendedLine
      <4>3. \A i \in 1 .. Len(q) + 1 : i \in 1 .. Len(q) \/ i = Len(q) + 1
        BY <4>1
      <4>. QED BY <3>2, <4>2, <4>3
    <3>. QED BY <3>1, <3>2
  <2>2. /\ bash' \in Process
        /\ bash'.runs = runs /\ bash'.jobs = jobs /\ bash'.out = out
    BY <1>1, <1>2, <2>1 DEF SilenceInv, Shape, Process
  <2>3. ASSUME NEW d \in Cmd, Audible(d)'
        PROVE  Audible(d)
    BY <1>1, <1>2, <2>1, <2>2, <2>3, NoCmdIsNone DEF Audible
  <2> QED BY <1>1, <2>2, <2>3, BashSteps
<1>3. bash = [id |-> bash.id, up |-> bash.up, runs |-> bash.runs, jobs |-> bash.jobs,
              lines |-> bash.lines, out |-> bash.out]
      /\ bash.up \in BOOLEAN /\ bash.lines \in Nat
  BY DEF SilenceInv, Shape, Process
<1>4. \A by \in Cmd \cup {NoCmd} : /\ Line(by) \in Lines /\ Line(by).by = by
                                   /\ Marker(by) \in Lines /\ Marker(by).by = by
                                   /\ Eof \in Lines /\ Eof.by = NoCmd
  BY DEF Line, Marker, Eof, Lines
<1>5. CASE Prints
  <2>1. PICK by \in ({bash.runs} \ {NoCmd}) \cup bash.jobs :
          bash' = [bash EXCEPT !.lines = @ + 1, !.out = Append(@, Line(by))]
    BY <1>5 DEF Prints, Says
  <2>2. bash' = [id |-> bash.id, up |-> bash.up, runs |-> bash.runs, jobs |-> bash.jobs,
                 lines |-> bash.lines + 1, out |-> Append(q, Line(by))]
    BY <1>3, <2>1
  <2>3. Audible(by) /\ by \in Cmd
    BY <1>1, <2>1 DEF Audible
  <2>4. bash.lines + 1 \in Nat
    BY <1>3
  <2>5. Line(by) \in Lines /\ Audible(Line(by).by)
    BY <1>4, <2>3
  <2> QED BY <1>2, <1>3, <2>2, <2>4, <2>5
<1>6. CASE CommandEnds
  <2>1. PICK how \in Endings, jobs \in {bash.jobs, bash.jobs \cup ({bash.runs} \cap Forks)} :
          bash' = [bash EXCEPT !.runs = NoCmd, !.jobs = jobs, !.up = (how # "exits"),
                     !.out = CASE how = "line" -> Append(@, Marker(bash.runs))
                               [] how = "partial" -> Append(@, Line(bash.runs))
                               [] how = "eats" -> @
                               [] how = "exits" -> IF jobs = {} THEN Append(@, Eof) ELSE @]
    BY <1>6 DEF CommandEnds
  <2>2. bash.runs # NoCmd /\ bash.runs \in Cmd /\ Audible(bash.runs)
    BY <1>1, <1>6 DEF CommandEnds, Audible
  <2>3. how \in {"line", "partial", "eats", "exits"}
    BY ShellAssumption
  <2>4. PICK line \in {Marker(bash.runs), Line(bash.runs), Eof} :
          \E out \in {q, Append(q, line)} :
            bash' = [bash EXCEPT !.runs = NoCmd, !.jobs = jobs, !.up = (how # "exits"),
                       !.out = out]
    <3>1. CASE how = "line"
      BY <2>1, <3>1
    <3>2. CASE how = "partial"
      BY <2>1, <3>2
    <3>3. CASE how = "eats"
      BY <2>1, <3>3
    <3>4. CASE how = "exits"
      BY <2>1, <3>4
    <3> QED BY <2>3, <3>1, <3>2, <3>3, <3>4
  <2>5. PICK out \in {q, Append(q, line)} :
          bash' = [bash EXCEPT !.runs = NoCmd, !.jobs = jobs, !.up = (how # "exits"),
                     !.out = out]
    BY <2>4
  <2>6. bash' = [id |-> bash.id, up |-> (how # "exits"), runs |-> NoCmd, jobs |-> jobs,
                 lines |-> bash.lines, out |-> out]
    BY <1>3, <2>5
  <2>7. line \in Lines /\ (line.by = NoCmd \/ Audible(line.by))
    BY <1>4, <2>2
  <2>8. jobs \in SUBSET (bash.jobs \cup ({bash.runs} \ {NoCmd}))
    BY <2>2
  <2> QED BY <1>2, <1>3, <2>6, <2>7, <2>8
<1>7. CASE BashDies \/ JobsEnd
  <2>1. PICK up \in BOOLEAN, jobs \in {bash.jobs, {}}, out \in {q, Append(q, Eof)} :
          bash' = [id |-> bash.id, up |-> up, runs |-> bash.runs, jobs |-> jobs,
                   lines |-> bash.lines, out |-> out]
    <3>1. CASE BashDies
      BY <1>3, <3>1 DEF BashDies
    <3>2. CASE JobsEnd
      BY <1>3, <3>2 DEF JobsEnd
    <3> QED BY <1>7, <3>1, <3>2
  <2>2. Eof \in Lines /\ Eof.by = NoCmd
    BY <1>4
  <2>3. bash.runs \in {bash.runs, NoCmd} /\ bash.lines \in Nat
        /\ jobs \in SUBSET (bash.jobs \cup ({bash.runs} \ {NoCmd}))
    BY <1>3
  <2> HIDE DEF q
  <2> QED BY <1>2, <2>1, <2>2, <2>3
<1> QED BY <1>5, <1>6, <1>7

LEMMA SilenceInit == Init => SilenceInv
<1> SUFFICES ASSUME Init PROVE SilenceInv
  OBVIOUS
<1>1. Shape
  BY NoBashIsProcess DEF Init, Shape
<1>2. MutexInv /\ HeardInv
  BY NoCmdIsNone DEF Init, MutexInv, HeardInv
<1>3. AudibleInv
  BY NoCmdIsNone DEF Init, NoBash, AudibleInv, Audible
<1> QED BY <1>1, <1>2, <1>3 DEF SilenceInv

LEMMA SilenceNext == SilenceInv /\ [Next]_vars => SilenceInv'
<1> SUFFICES ASSUME SilenceInv, [Next]_vars PROVE SilenceInv'
  OBVIOUS
<1>1. ASSUME UNCHANGED <<cmd, outcome, heard, lock, bash, spawned>>
      PROVE  SilenceInv'
  BY <1>1 DEF SilenceInv, Shape, MutexInv, AudibleInv, Audible, HeardInv
<1>2. ASSUME NEW c \in Cmd, outcome[c] # "none"
      PROVE  cmd[c] \in {"executed", "leaving", "done"}
  BY <1>2 DEF SilenceInv, MutexInv
<1>3. ASSUME NEW c \in Cmd, Post(c) \/ Persist(c) \/ Track(c) \/ Call(c)
      PROVE  SilenceInv'
  <2>1. /\ UNCHANGED <<outcome, heard, lock, bash, spawned>>
        /\ cmd[c] \in {"new", "taken", "stored"}
        /\ \E where \in {"taken", "refused", "stored", "waiting"} : Goto(c, where)
    BY <1>3 DEF Post, Persist, Track, Call, ShellFor, shellVars
  <2> QED BY <1>2, <2>1, Elsewhere
<1>4. ASSUME NEW c \in Cmd, Finalize(c) \/ Untrack(c)
      PROVE  SilenceInv'
  <2>1. /\ UNCHANGED <<outcome, heard, lock, bash, spawned>>
        /\ cmd[c] \in {"executed", "leaving"}
        /\ \E where \in {"leaving", "done"} : Goto(c, where)
    BY <1>4 DEF Finalize, Untrack, shellVars
  <2> QED BY <2>1, Elsewhere
<1>5. ASSUME NEW c \in Cmd, Timeout(c) \/ Aborted(c)
      PROVE  SilenceInv'
  <2>1. /\ cmd[c] = "running" /\ UNCHANGED <<heard, spawned>> /\ bash' = NoBash
        /\ \E what \in {"timeout", "aborted"} : Return(c, what)
    BY <1>5 DEF Timeout, Aborted, Reap
  <2> QED BY <2>1, NoBashIsProcess, NobodyInNoBash, Returns
<1>6. CASE CloseShell
  <2>1. UNCHANGED <<cmd, outcome, heard, lock, spawned>> /\ bash' = NoBash
    BY <1>6 DEF CloseShell, Reap, cmdVars
  <2> QED BY <2>1, NoBashIsProcess, NobodyInNoBash, BashSteps
<1>7. CASE AbortTurn \/ DeleteRows \/ StopCollects \/ CloseMarks \/ CloserCancels
           \/ StopSwapsShells \/ UNCHANGED vars
  BY <1>1, <1>7 DEF AbortTurn, DeleteRows, StopCollects, CloseMarks, CloserCancels,
                    StopSwapsShells, vars, cmdVars, shellVars
<1> QED
  BY <1>3, <1>4, <1>5, <1>6, <1>7, BeginNext, ReadNext, BashNext DEF Next, Goes, Closes

\* The invariant holds of every behaviour of a session's shell.
THEOREM SilenceSafety == Spec => []SilenceInv
  BY SilenceInit, SilenceNext, PTL DEF Spec

LEMMA SilenceFollows == SilenceInv => KilledStaysSilent
  BY DEF SilenceInv, HeardInv, EndedWell, KilledStaysSilent

\* A killed command is never heard in the output of a later one (Shell.Exec
\* kills the process group with it, internal/tool/shell.go).
THEOREM KilledStaysSilentSafety == Spec => []KilledStaysSilent
  BY SilenceSafety, SilenceFollows, PTL

-----------------------------------------------------------------------------
(* The asks on the screen. *)

Types == {"idle", "busy", "retry", "updated", "deleted", "asked", "replied"}
Events == [type : Types, of : Session \cup NoSession \cup Ask]

\* The types the proof needs; an ask is in the queue once.
Queues ==
  /\ events \in Seq(Events)
  /\ pending \in Seq(Session \cup NoSession \cup Ask)
  /\ \A i, j \in DOMAIN pending : pending[i] = pending[j] => i = j

\* A break takes the subscription away, and nothing else does.
StreamInv == ~lapsed => connected

Held == parked \cup claimed \cup crossed
Fresh == unsaid \cup unasked

\* What is asked is held, or its reply comes later.
OrderInv ==
  ~lapsed => \A i \in DOMAIN events :
    events[i].type = "asked" =>
      \/ events[i].of \in Held
      \/ \E j \in DOMAIN events : i < j /\ events[j] = Event("replied", events[i].of)

\* Nobody has heard of an ask before its event was published.
FreshInv ==
  /\ unsaid \cap unasked = {}
  /\ unsaid \subseteq Held
  /\ \A i \in DOMAIN events : events[i].type = "asked" => events[i].of \notin Fresh
  /\ \A i \in DOMAIN pending : pending[i] \notin Fresh

ParkedInv == Queues /\ StreamInv /\ OrderInv /\ AsksAreParked /\ FreshInv

-----------------------------------------------------------------------------
(* Queues that grow at one end and lose what is in them. *)

LEMMA Joined ==
  ASSUME NEW S, NEW q \in Seq(S), NEW es \in Seq(S)
  PROVE  /\ q \o es \in Seq(S) /\ Len(q \o es) = Len(q) + Len(es)
         /\ DOMAIN (q \o es) = 1 .. Len(q) + Len(es)
         /\ \A i \in 1 .. Len(q) : (q \o es)[i] = q[i]
         /\ \A i \in 1 .. Len(es) : (q \o es)[Len(q) + i] = es[i]
  OBVIOUS

LEMMA Tailed ==
  ASSUME NEW S, NEW q \in Seq(S), q # <<>>
  PROVE  /\ Tail(q) \in Seq(S) /\ Head(q) = q[1] /\ Len(Tail(q)) = Len(q) - 1
         /\ Len(q) \in Nat /\ 1 \in DOMAIN q /\ DOMAIN q = 1 .. Len(q)
         /\ DOMAIN Tail(q) = 1 .. Len(q) - 1
         /\ \A i \in 1 .. Len(q) - 1 : Tail(q)[i] = q[i + 1]
  OBVIOUS

\* What is left without one of them, and where it was.
Skip(i, k) == IF i < k THEN i ELSE i + 1

LEMMA Removed ==
  ASSUME NEW S, NEW q \in Seq(S), NEW k \in 1 .. Len(q)
  PROVE  /\ RemoveAt(q, k) \in Seq(S)
         /\ DOMAIN RemoveAt(q, k) = 1 .. Len(q) - 1
         /\ \A i \in 1 .. Len(q) - 1 : RemoveAt(q, k)[i] = q[Skip(i, k)]
<1> DEFINE front == SubSeq(q, 1, k - 1)
           back == SubSeq(q, k + 1, Len(q))
<1>1. /\ front \in Seq(S) /\ Len(front) = k - 1
      /\ \A i \in 1 .. k - 1 : front[i] = q[i]
  OBVIOUS
<1>2. /\ back \in Seq(S) /\ Len(back) = Len(q) - k
      /\ \A i \in 1 .. Len(q) - k : back[i] = q[k + i]
  OBVIOUS
<1>3. RemoveAt(q, k) = front \o back
  BY DEF RemoveAt
<1> HIDE DEF front, back
<1>0. front \in Seq(S) /\ back \in Seq(S)
  BY <1>1, <1>2
<1>4. /\ front \o back \in Seq(S) /\ DOMAIN (front \o back) = 1 .. Len(front) + Len(back)
      /\ \A i \in 1 .. Len(front) : (front \o back)[i] = front[i]
      /\ \A i \in 1 .. Len(back) : (front \o back)[Len(front) + i] = back[i]
  BY <1>0, Joined
<1>5. Len(front) + Len(back) = Len(q) - 1
  BY <1>1, <1>2
<1>6. ASSUME NEW i \in 1 .. Len(q) - 1
      PROVE  (front \o back)[i] = q[Skip(i, k)]
  <2>1. CASE i < k
    BY <1>1, <1>4, <2>1 DEF Skip
  <2>2. CASE ~(i < k)
    <3>1. PICK j \in 1 .. Len(back) : i = Len(front) + j /\ i + 1 = k + j
      <4>1. i - (k - 1) \in 1 .. Len(back)
        BY <1>1, <1>2, <2>2
      <4> QED BY <1>1, <2>2, <4>1
    <3>2. (front \o back)[Len(front) + j] = back[j]
      BY <1>4
    <3>3. back[j] = q[k + j]
      BY <1>2
    <3> QED BY <2>2, <3>1, <3>2, <3>3 DEF Skip
  <2> QED BY <2>1, <2>2
<1> QED BY <1>3, <1>4, <1>5, <1>6

\* An ask taken out is gone, the others stay.
LEMMA Withdrawn ==
  ASSUME NEW S, NEW q \in Seq(S), NEW a,
         \A i, j \in DOMAIN q : q[i] = q[j] => i = j
  PROVE  /\ Without(q, a) \in Seq(S)
         /\ \A i, j \in DOMAIN Without(q, a) : Without(q, a)[i] = Without(q, a)[j] => i = j
         /\ \A i \in DOMAIN Without(q, a) :
              Without(q, a)[i] # a /\ \E j \in DOMAIN q : q[j] = Without(q, a)[i]
<1>1. DOMAIN q = 1 .. Len(q) /\ Len(q) \in Nat
  OBVIOUS
<1>2. CASE Contains(q, a)
  <2> DEFINE k == Place(q, a)
  <2>1. k \in 1 .. Len(q) /\ q[k] = a
    BY <1>1, <1>2 DEF Place, Contains
  <2>2. Without(q, a) = RemoveAt(q, k)
    BY <1>2 DEF Without
  <2> HIDE DEF k
  <2>3. /\ Without(q, a) \in Seq(S) /\ DOMAIN Without(q, a) = 1 .. Len(q) - 1
        /\ \A i \in 1 .. Len(q) - 1 : Without(q, a)[i] = q[Skip(i, k)]
    BY <2>1, <2>2, Removed
  <2>4. \A i \in 1 .. Len(q) - 1 : Skip(i, k) \in DOMAIN q /\ Skip(i, k) # k
    BY <1>1, <2>1 DEF Skip
  <2>5. \A i, j \in 1 .. Len(q) - 1 : Skip(i, k) = Skip(j, k) => i = j
    BY <1>1, <2>1 DEF Skip
  <2>6. \A i, j \in DOMAIN Without(q, a) : Without(q, a)[i] = Without(q, a)[j] => i = j
    BY <2>3, <2>4, <2>5
  <2>7. ASSUME NEW i \in DOMAIN Without(q, a)
        PROVE  Without(q, a)[i] # a /\ \E j \in DOMAIN q : q[j] = Without(q, a)[i]
    <3>1. Skip(i, k) \in DOMAIN q /\ Skip(i, k) # k /\ Without(q, a)[i] = q[Skip(i, k)]
      BY <2>3, <2>4
    <3>2. k \in DOMAIN q
      BY <1>1, <2>1
    <3> QED BY <2>1, <3>1, <3>2
  <2> QED BY <2>3, <2>6, <2>7
<1>3. CASE ~Contains(q, a)
  BY <1>1, <1>3 DEF Without, Contains
<1> QED BY <1>2, <1>3

-----------------------------------------------------------------------------
(* The steps of the server, of the stream and of the loop. *)

\* How the sets of asks move: forward.
AsksMove ==
  /\ Fresh' \subseteq Fresh
  /\ unsaid' \cap unasked' = {}
  /\ unsaid' \subseteq Held'

LEMMA FreshPublished ==
  ASSUME ParkedInv, NEW es \in Seq(Events), events' = Published(es), pending' = pending, AsksMove,
         \A k \in 1 .. Len(es) : es[k].type = "asked" => es[k].of \notin Fresh'
  PROVE  FreshInv'
<1>1. events \in Seq(Events)
  BY DEF ParkedInv, Queues
<1>2. \A i \in DOMAIN events' : events'[i].type = "asked" => events'[i].of \notin Fresh'
  <2>1. CASE events' = events
    BY <2>1 DEF ParkedInv, FreshInv, AsksMove
  <2>2. CASE events' = events \o es
    <3>1. /\ DOMAIN events' = 1 .. Len(events) + Len(es) /\ Len(events) \in Nat /\ Len(es) \in Nat
          /\ \A i \in 1 .. Len(events) : events'[i] = events[i]
          /\ \A i \in 1 .. Len(es) : events'[Len(events) + i] = es[i]
      BY <1>1, <2>2, Joined
    <3>2. ASSUME NEW i \in DOMAIN events', events'[i].type = "asked"
          PROVE  events'[i].of \notin Fresh'
      <4>1. CASE i \in 1 .. Len(events)
        <5>1. i \in DOMAIN events /\ events'[i] = events[i]
          BY <1>1, <3>1, <4>1
        <5> QED BY <3>2, <5>1 DEF ParkedInv, FreshInv, AsksMove
      <4>2. CASE i \notin 1 .. Len(events)
        <5>1. PICK k \in 1 .. Len(es) : i = Len(events) + k
          <6>1. i - Len(events) \in 1 .. Len(es) /\ i = Len(events) + (i - Len(events))
            BY <3>1, <4>2
          <6> QED BY <6>1, Zenon
        <5> QED BY <3>1, <3>2, <5>1
      <4> QED BY <4>1, <4>2
    <3> QED BY <3>2
  <2> QED BY <2>1, <2>2 DEF Published
<1>3. \A i \in DOMAIN pending' : pending'[i] \notin Fresh'
  BY DEF ParkedInv, FreshInv, AsksMove
<1> QED BY <1>2, <1>3 DEF FreshInv, AsksMove

\* Whatever the server publishes: what is no longer held is replied to, what is asked is held.
LEMMA Publishes ==
  ASSUME ParkedInv, NEW es \in Seq(Events), events' = Published(es),
         UNCHANGED <<pending, connected, lapsed>>, AsksMove,
         \A a \in Held \ Held' : Contains(es, Event("replied", a)),
         \A k \in 1 .. Len(es) : es[k].type = "asked" => es[k].of \in Held' /\ es[k].of \notin Fresh'
  PROVE  ParkedInv'
<1>1. events \in Seq(Events) /\ DOMAIN events = 1 .. Len(events) /\ Len(events) \in Nat
      /\ DOMAIN es = 1 .. Len(es) /\ Len(es) \in Nat
  BY DEF ParkedInv, Queues
<1>2. events' \in Seq(Events)
  BY <1>1, Joined DEF Published
<1>5. FreshInv'
  BY FreshPublished
<1>3. CASE lapsed
  BY <1>2, <1>3, <1>5 DEF ParkedInv, Queues, StreamInv, OrderInv, AsksAreParked
<1>4. CASE ~lapsed
  <2>1. events' = events \o es
    BY <1>4 DEF ParkedInv, StreamInv, Published
  <2>2. /\ DOMAIN events' = 1 .. Len(events) + Len(es) /\ Len(events') = Len(events) + Len(es)
        /\ \A i \in 1 .. Len(events) : events'[i] = events[i]
        /\ \A i \in 1 .. Len(es) : events'[Len(events) + i] = es[i]
    BY <1>1, <2>1, Joined
  <2>3. ASSUME NEW a \in Held \ Held'
        PROVE  \E j \in 1 .. Len(es) :
                 /\ Len(events) + j \in DOMAIN events'
                 /\ events'[Len(events) + j] = Event("replied", a)
    <3>1. PICK j \in 1 .. Len(es) : es[j] = Event("replied", a)
      BY <2>3 DEF Contains
    <3>2. Len(events) + j \in DOMAIN events' /\ events'[Len(events) + j] = es[j]
      BY <1>1, <2>2
    <3> QED BY <3>1, <3>2
  <2>4. ASSUME NEW i \in DOMAIN events', events'[i].type = "asked", events'[i].of \notin Held'
        PROVE  \E j \in DOMAIN events' : i < j /\ events'[j] = Event("replied", events'[i].of)
    <3>1. i \in 1 .. Len(events)
      <4>1. CASE i \notin 1 .. Len(events)
        <5>1. PICK k \in 1 .. Len(es) : i = Len(events) + k
          <6>1. i - Len(events) \in 1 .. Len(es)
            BY <1>1, <2>2, <4>1
          <6> QED BY <1>1, <2>2, <6>1
        <5> QED BY <2>2, <2>4, <5>1
      <4> QED BY <4>1
    <3>2. events'[i] = events[i] /\ i \in DOMAIN events
      BY <1>1, <2>2, <3>1
    <3>3. CASE events[i].of \in Held
      <4>1. PICK j \in 1 .. Len(es) :
              /\ Len(events) + j \in DOMAIN events'
              /\ events'[Len(events) + j] = Event("replied", events[i].of)
        BY <2>3, <2>4, <3>2, <3>3
      <4>2. i < Len(events) + j
        BY <1>1, <3>1
      <4> QED BY <3>2, <4>1, <4>2
    <3>4. CASE events[i].of \notin Held
      <4>1. PICK j \in DOMAIN events : i < j /\ events[j] = Event("replied", events[i].of)
        BY <1>4, <2>4, <3>2, <3>4 DEF ParkedInv, OrderInv
      <4>2. j \in DOMAIN events' /\ events'[j] = events[j]
        BY <1>1, <2>2
      <4> QED BY <3>2, <4>1, <4>2
    <3> QED BY <3>3, <3>4
  <2>5. ASSUME NEW i \in DOMAIN pending, pending[i] \notin Held'
        PROVE  \E j \in 1 .. Len(events') : events'[j] = Event("replied", pending[i])
    <3>1. CASE pending[i] \in Held
      <4>1. PICK j \in 1 .. Len(es) :
              /\ Len(events) + j \in DOMAIN events'
              /\ events'[Len(events) + j] = Event("replied", pending[i])
        BY <2>3, <2>5, <3>1
      <4> QED BY <2>2, <4>1
    <3>2. CASE pending[i] \notin Held
      <4>1. PICK j \in 1 .. Len(events) : events[j] = Event("replied", pending[i])
        BY <1>4, <3>2 DEF ParkedInv, AsksAreParked, TakenAway, Held, Contains
      <4>2. j \in 1 .. Len(events') /\ events'[j] = events[j]
        BY <1>1, <2>2
      <4> QED BY <4>1, <4>2
    <3> QED BY <3>1, <3>2
  <2>6. OrderInv'
    BY <2>4 DEF OrderInv
  <2>7. AsksAreParked'
    BY <2>5 DEF AsksAreParked, TakenAway, Held, Contains
  <2> QED BY <1>2, <1>5, <2>6, <2>7 DEF ParkedInv, Queues, StreamInv
<1> QED BY <1>3, <1>4

\* The event of one ask or one session.
LEMMA OneEvent ==
  ASSUME NEW type \in Types, NEW of \in Targets
  PROVE  /\ <<Event(type, of)>> \in Seq(Events) /\ Len(<<Event(type, of)>>) = 1
         /\ <<Event(type, of)>>[1] = Event(type, of)
         /\ Event(type, of).type = type /\ Event(type, of).of = of
  BY DEF Event, Events, Targets

\* Nothing is published.
LEMMA Silent ==
  ASSUME ParkedInv, UNCHANGED <<events, pending, connected, lapsed>>, AsksMove,
         Held \ Held' \subseteq unsaid
  PROVE  ParkedInv'
<1>1. Queues' /\ StreamInv'
  BY DEF ParkedInv, Queues, StreamInv
<1>2. FreshInv'
  BY DEF ParkedInv, FreshInv, AsksMove
<1>3. ASSUME NEW i \in DOMAIN events', events'[i].type = "asked", ~lapsed'
      PROVE  \/ events'[i].of \in Held'
             \/ \E j \in DOMAIN events' : i < j /\ events'[j] = Event("replied", events'[i].of)
  <2>1. events[i].of \notin unsaid
    BY <1>3 DEF ParkedInv, FreshInv, Fresh
  <2> QED BY <1>3, <2>1 DEF ParkedInv, OrderInv
<1>4. ASSUME NEW i \in DOMAIN pending', ~lapsed'
      PROVE  pending'[i] \in Held' \/ TakenAway(pending[i])
  <2>1. pending[i] \notin unsaid
    BY <1>4 DEF ParkedInv, FreshInv, Fresh
  <2> QED BY <1>4, <2>1 DEF ParkedInv, AsksAreParked, Held
<1>5. OrderInv'
  BY <1>3 DEF OrderInv
<1>6. AsksAreParked'
  BY <1>4 DEF AsksAreParked, TakenAway, Held
<1> QED BY <1>1, <1>2, <1>5, <1>6 DEF ParkedInv

LEMMA Standing ==
  ASSUME ParkedInv, UNCHANGED askVars
  PROVE  AsksMove /\ Held' = Held
  BY DEF askVars, ParkedInv, FreshInv, AsksMove, Held, Fresh

LEMMA RegistersNext ==
  ASSUME ParkedInv, NEW a, Registers(a), UNCHANGED <<pending, connected, lapsed>>
  PROVE  ParkedInv'
<1>1. /\ unasked' = unasked \ {a} /\ parked' = parked \cup {a} /\ unsaid' = unsaid \cup {a}
      /\ UNCHANGED <<claimed, crossed, events>> /\ a \in unasked
  BY DEF Registers
<1>2. AsksMove /\ Held \ Held' \subseteq unsaid
  BY <1>1 DEF ParkedInv, FreshInv, AsksMove, Held, Fresh
<1> QED BY <1>1, <1>2, Silent

LEMMA WithdrawsNext ==
  ASSUME ParkedInv, NEW a, Withdraws(a), UNCHANGED <<pending, connected, lapsed>>
  PROVE  ParkedInv'
<1>1. /\ unsaid' = unsaid \ {a} /\ parked' = parked \ {a} /\ a \in unsaid
      /\ UNCHANGED <<unasked, claimed, crossed, events>>
  BY DEF Withdraws
<1>2. AsksMove /\ Held \ Held' \subseteq unsaid
  BY <1>1 DEF ParkedInv, FreshInv, AsksMove, Held, Fresh
<1> QED BY <1>1, <1>2, Silent

LEMMA ClaimsNext ==
  ASSUME ParkedInv, NEW a, Claims(a), UNCHANGED <<pending, connected, lapsed>>
  PROVE  ParkedInv'
<1>1. /\ parked' = parked \ {a} /\ claimed' = claimed \cup {a}
      /\ UNCHANGED <<unasked, unsaid, crossed, events>>
  BY DEF Claims
<1>2. AsksMove /\ Held \ Held' \subseteq unsaid
  BY <1>1 DEF ParkedInv, FreshInv, AsksMove, Held, Fresh
<1> QED BY <1>1, <1>2, Silent

LEMMA SaysAskedNext ==
  ASSUME ParkedInv, NEW a \in Targets, SaysAsked(a), UNCHANGED <<pending, connected, lapsed>>
  PROVE  ParkedInv'
<1> DEFINE es == <<Event("asked", a)>>
<1>1. es \in Seq(Events) /\ Len(es) = 1 /\ es[1] = Event("asked", a) /\ Event("asked", a).of = a
  <2>1. "asked" \in Types
    BY DEF Types
  <2> QED BY <2>1, OneEvent
<1>2. /\ unsaid' = unsaid \ {a} /\ a \in unsaid /\ events' = Published(es)
      /\ UNCHANGED <<unasked, parked, claimed, crossed>>
  BY DEF SaysAsked
<1>3. AsksMove /\ Held' = Held /\ a \in Held' /\ a \notin Fresh'
  BY <1>2 DEF ParkedInv, FreshInv, AsksMove, Held, Fresh
<1> HIDE DEF es
<1>4. \A k \in 1 .. Len(es) : es[k].of \in Held' /\ es[k].of \notin Fresh'
  BY <1>1, <1>3
<1>5. \A b \in Held \ Held' : Contains(es, Event("replied", b))
  BY <1>3
<1> QED BY <1>1, <1>2, <1>3, <1>4, <1>5, Publishes

\* A reply published before its ask leaves the ask crossed.
LEMMA SaysRepliedNext ==
  ASSUME ParkedInv, NEW a \in Targets, SaysReplied(a), UNCHANGED <<pending, connected, lapsed>>
  PROVE  ParkedInv'
<1> DEFINE es == <<Event("replied", a)>>
<1>1. "replied" \in Types
  BY DEF Types
<1>2. /\ es \in Seq(Events) /\ Len(es) = 1 /\ es[1] = Event("replied", a)
      /\ Event("replied", a).type = "replied"
  BY <1>1, OneEvent
<1>3. /\ events' = Published(es) /\ claimed' = claimed \ {a}
      /\ crossed' = crossed \cup ({a} \cap unsaid)
      /\ UNCHANGED <<parked, unasked, unsaid>>
  BY DEF SaysReplied
<1>4. AsksMove /\ Held \ Held' \subseteq {a}
  BY <1>3 DEF ParkedInv, FreshInv, AsksMove, Held, Fresh
<1> HIDE DEF es
<1>5. \A b \in Held \ Held' : Contains(es, Event("replied", b))
  BY <1>4, <1>2 DEF Contains
<1>6. \A k \in 1 .. Len(es) : es[k].type # "asked"
  BY <1>2
<1> QED BY <1>3, <1>4, <1>5, <1>6, <1>2, Publishes

\* Events of sessions, and none, say nothing of asks.
LEMMA OthersNext ==
  ASSUME ParkedInv, NEW es \in Seq(Events), events' = Published(es), UNCHANGED askVars,
         UNCHANGED <<pending, connected, lapsed>>,
         \A k \in 1 .. Len(es) : es[k].type # "asked"
  PROVE  ParkedInv'
<1>1. AsksMove /\ Held' = Held
  BY Standing
<1>2. \A a \in Held \ Held' : Contains(es, Event("replied", a))
  BY <1>1
<1> QED BY <1>1, <1>2, Publishes

LEMMA OneOther ==
  ASSUME ParkedInv, NEW type \in Types \ {"asked"}, NEW of \in Targets,
         events' = Published(<<Event(type, of)>>), UNCHANGED askVars,
         UNCHANGED <<pending, connected, lapsed>>
  PROVE  ParkedInv'
<1> DEFINE es == <<Event(type, of)>>
<1>1. es \in Seq(Events) /\ Len(es) = 1 /\ es[1] = Event(type, of) /\ Event(type, of).type = type
  BY OneEvent
<1>2. \A k \in 1 .. Len(es) : es[k].type # "asked"
  BY <1>1
<1>3. events' = Published(es)
  OBVIOUS
<1> HIDE DEF es
<1> QED BY <1>1, <1>2, <1>3, OthersNext

LEMMA NothingSaid ==
  ASSUME ParkedInv, UNCHANGED <<events, askVars, pending, connected, lapsed>>
  PROVE  ParkedInv'
<1>1. AsksMove /\ Held' = Held
  BY Standing
<1> QED BY <1>1, Silent

LEMMA QuietJoined ==
  ASSUME NEW q \in Seq(Events), NEW es \in Seq(Events),
         \A k \in 1 .. Len(q) : q[k].type # "asked",
         \A k \in 1 .. Len(es) : es[k].type # "asked"
  PROVE  q \o es \in Seq(Events) /\ \A k \in 1 .. Len(q \o es) : (q \o es)[k].type # "asked"
<1>1. /\ q \o es \in Seq(Events) /\ Len(q \o es) = Len(q) + Len(es)
      /\ \A i \in 1 .. Len(q) : (q \o es)[i] = q[i]
      /\ \A i \in 1 .. Len(es) : (q \o es)[Len(q) + i] = es[i]
  BY Joined
<1>2. ASSUME NEW k \in 1 .. Len(q \o es) PROVE (q \o es)[k].type # "asked"
  <2>1. CASE k \in 1 .. Len(q)
    BY <1>1, <2>1
  <2>2. CASE k \notin 1 .. Len(q)
    <3>1. PICK j \in 1 .. Len(es) : k = Len(q) + j
      <4>1. k - Len(q) \in 1 .. Len(es) /\ k = Len(q) + (k - Len(q))
        BY <1>1, <2>2
      <4> QED BY <4>1, Zenon
    <3> QED BY <1>1, <3>1
  <2> QED BY <2>1, <2>2
<1> QED BY <1>1, <1>2

\* What an accepted request does.
LEMMA EffectNext ==
  ASSUME ParkedInv, NEW c, NEW of \in Targets, Effect(c, of),
         UNCHANGED <<pending, connected, lapsed>>
  PROVE  ParkedInv'
<1>1. \/ \E busy \in BOOLEAN : Creates(of, busy)
      \/ \E st \in {"busy", "idle"} : SetsStatus(of, st)
      \/ Claims(of)
      \/ UNCHANGED askVars /\ events' = Published(<<Event("updated", of)>>)
      \/ UNCHANGED askVars /\ events' = events
  BY DEF Effect, server
<1>0. "updated" \in Types \ {"asked"} /\ "deleted" \in Types \ {"asked"} /\ {"busy", "idle"} \subseteq Types \ {"asked"}
  BY DEF Types
<1>2. CASE \E busy \in BOOLEAN : Creates(of, busy)
  <2>1. PICK busy \in BOOLEAN : Creates(of, busy)
    BY <1>2
  <2> DEFINE one == <<Event("updated", of)>>
             more == IF busy THEN <<Event("busy", of)>> ELSE <<>>
  <2>2. UNCHANGED askVars /\ events' = Published(one \o more)
    BY <2>1 DEF Creates
  <2>3. /\ one \in Seq(Events) /\ Len(one) = 1 /\ one[1] = Event("updated", of)
        /\ Event("updated", of).type = "updated"
        /\ <<Event("busy", of)>> \in Seq(Events) /\ Len(<<Event("busy", of)>>) = 1
        /\ <<Event("busy", of)>>[1] = Event("busy", of) /\ Event("busy", of).type = "busy"
    BY <1>0, OneEvent
  <2>4. more \in Seq(Events) /\ \A k \in 1 .. Len(more) : more[k].type # "asked"
    <3>1. CASE busy
      BY <2>3, <3>1
    <3>2. CASE ~busy
      BY <3>2
    <3> QED BY <3>1, <3>2
  <2>5. one \in Seq(Events) /\ \A k \in 1 .. Len(one) : one[k].type # "asked"
    BY <2>3
  <2> HIDE DEF one, more
  <2>6. /\ one \o more \in Seq(Events)
        /\ \A k \in 1 .. Len(one \o more) : (one \o more)[k].type # "asked"
    BY <2>4, <2>5, QuietJoined
  <2> QED BY <2>2, <2>6, OthersNext
<1>3. CASE \E st \in {"busy", "idle"} : SetsStatus(of, st)
  <2>1. PICK st \in {"busy", "idle"} : SetsStatus(of, st)
    BY <1>3
  <2>2. st \in Types \ {"asked"} /\ UNCHANGED askVars /\ events' = Published(<<Event(st, of)>>)
    BY <1>0, <2>1 DEF SetsStatus
  <2> QED BY <2>2, OneOther
<1>4. CASE Claims(of)
  BY <1>4, ClaimsNext
<1>5. CASE UNCHANGED askVars /\ events' = Published(<<Event("updated", of)>>)
  BY <1>0, <1>5, OneOther
<1>6. CASE UNCHANGED askVars /\ events' = events
  BY <1>6, NothingSaid
<1> QED BY <1>1, <1>2, <1>3, <1>4, <1>5, <1>6

LEMMA WorldNext ==
  ASSUME ParkedInv, World
  PROVE  ParkedInv'
<1>1. UNCHANGED <<pending, connected, lapsed>>
  BY DEF World, view
<1>2. ASSUME NEW s \in Session, Turns(s) PROVE ParkedInv'
  <2>1. PICK st \in {"idle", "busy", "retry"} :
          UNCHANGED askVars /\ events' = Published(<<Event(st, s)>>)
    BY <1>2 DEF Turns
  <2>2. st \in Types \ {"asked"} /\ s \in Targets
    BY DEF Targets, Types
  <2> QED BY <1>1, <2>1, <2>2, OneOther
<1>3. ASSUME NEW s \in Session, Deletes(s) PROVE ParkedInv'
  <2>1. UNCHANGED askVars /\ events' = Published(<<Event("deleted", s)>>) /\ s \in Targets
        /\ "deleted" \in Types \ {"asked"}
    BY <1>3 DEF Deletes, Targets, Types
  <2> QED BY <1>1, <2>1, OneOther
<1>4. ASSUME NEW a \in Ask, Registers(a) PROVE ParkedInv'
  BY <1>1, <1>4, RegistersNext
<1>5. ASSUME NEW a \in Ask, Claims(a) PROVE ParkedInv'
  BY <1>1, <1>5, ClaimsNext
<1> QED BY <1>2, <1>3, <1>4, <1>5 DEF World

LEMMA AskProgressNext ==
  ASSUME ParkedInv, AskProgress
  PROVE  ParkedInv'
<1>1. UNCHANGED <<pending, connected, lapsed>>
  BY DEF AskProgress, view, bounds
<1>2. PICK a \in Ask : SaysAsked(a) \/ Withdraws(a) \/ SaysReplied(a)
  BY DEF AskProgress
<1>3. a \in Targets
  BY DEF Targets
<1> QED BY <1>1, <1>2, <1>3, SaysAskedNext, WithdrawsNext, SaysRepliedNext

\* A stream that breaks loses events; from then on nothing is promised.
LEMMA LapseNext ==
  ASSUME ParkedInv, Lapse
  PROVE  ParkedInv'
<1>1. lapsed' /\ pending' = pending /\ UNCHANGED askVars
  BY DEF Lapse, view, server
<1>2. /\ events' \in Seq(Events)
      /\ \A i \in DOMAIN events' : i \in DOMAIN events /\ events'[i] = events[i]
  <2>1. PICK n \in 0 .. Len(events) : events' = SubSeq(events, 1, n)
    BY DEF Lapse
  <2> QED BY <2>1 DEF ParkedInv, Queues
<1>3. FreshInv'
  BY <1>1, <1>2, Standing DEF ParkedInv, FreshInv, AsksMove
<1> QED BY <1>1, <1>2, <1>3 DEF ParkedInv, Queues, StreamInv, OrderInv, AsksAreParked

-----------------------------------------------------------------------------
(* What the loop makes of an event. *)

LEMMA Folded ==
  ASSUME Queues, NEW e \in Events
  PROVE  /\ PendingAfter(e) \in Seq(Session \cup NoSession \cup Ask)
         /\ \A i, j \in DOMAIN PendingAfter(e) : PendingAfter(e)[i] = PendingAfter(e)[j] => i = j
         /\ \A i \in DOMAIN PendingAfter(e) :
              \/ /\ \E j \in DOMAIN pending : pending[j] = PendingAfter(e)[i]
                 /\ ~(e.type = "replied" /\ e.of = PendingAfter(e)[i])
              \/ e.type = "asked" /\ e.of = PendingAfter(e)[i]
<1>1. /\ pending \in Seq(Session \cup NoSession \cup Ask) /\ e.of \in Session \cup NoSession \cup Ask
      /\ \A i, j \in DOMAIN pending : pending[i] = pending[j] => i = j
      /\ DOMAIN pending = 1 .. Len(pending) /\ Len(pending) \in Nat
  BY DEF Queues, Events
<1>2. CASE e.type = "replied"
  <2>1. PendingAfter(e) = Without(pending, e.of)
    BY <1>2 DEF PendingAfter
  <2> QED BY <1>1, <2>1, Withdrawn
<1>3. CASE e.type = "asked" /\ ~Contains(pending, e.of)
  <2> DEFINE longer == Append(pending, e.of)
  <2>1. PendingAfter(e) = longer
    BY <1>3 DEF PendingAfter
  <2>2. /\ longer \in Seq(Session \cup NoSession \cup Ask)
        /\ DOMAIN longer = 1 .. Len(pending) + 1
        /\ \A i \in 1 .. Len(pending) : longer[i] = pending[i]
        /\ longer[Len(pending) + 1] = e.of
    BY <1>1
  <2> HIDE DEF longer
  <2>3. \A i \in DOMAIN longer : i \in 1 .. Len(pending) \/ i = Len(pending) + 1
    BY <1>1, <2>2
  <2>4. \A i \in DOMAIN pending : pending[i] # e.of
    BY <1>1, <1>3 DEF Contains
  <2>5. \A i, j \in DOMAIN longer : longer[i] = longer[j] => i = j
    BY <1>1, <2>2, <2>3, <2>4
  <2>6. \A i \in DOMAIN longer : (\E j \in DOMAIN pending : pending[j] = longer[i]) \/ e.of = longer[i]
    BY <1>1, <2>2, <2>3
  <2> QED BY <1>3, <2>1, <2>2, <2>5, <2>6
<1>4. CASE e.type # "replied" /\ ~(e.type = "asked" /\ ~Contains(pending, e.of))
  <2>1. PendingAfter(e) = pending
    BY <1>4 DEF PendingAfter
  <2> QED BY <1>1, <1>4, <2>1
<1> QED BY <1>2, <1>3, <1>4

LEMMA EventArrivesNext ==
  ASSUME ParkedInv, EventArrives
  PROVE  ParkedInv'
<1> DEFINE e == Head(events)
<1>1. /\ events \in Seq(Events) /\ events # <<>> /\ events' = Tail(events)
      /\ pending' = PendingAfter(e)
      /\ UNCHANGED <<askVars, connected, lapsed>>
  BY DEF EventArrives, ParkedInv, Queues, server, bounds
<1>2. /\ events' \in Seq(Events) /\ e = events[1] /\ 1 \in DOMAIN events
      /\ Len(events) \in Nat /\ DOMAIN events = 1 .. Len(events)
      /\ DOMAIN events' = 1 .. Len(events) - 1 /\ Len(events') = Len(events) - 1
      /\ \A i \in 1 .. Len(events) - 1 : events'[i] = events[i + 1]
  BY <1>1, Tailed
<1>3. e \in Events
  BY <1>1, <1>2
<1> HIDE DEF e
<1>4. /\ pending' \in Seq(Session \cup NoSession \cup Ask)
      /\ \A i, j \in DOMAIN pending' : pending'[i] = pending'[j] => i = j
      /\ \A i \in DOMAIN pending' :
           \/ /\ \E j \in DOMAIN pending : pending[j] = pending'[i]
              /\ ~(e.type = "replied" /\ e.of = pending'[i])
           \/ e.type = "asked" /\ e.of = pending'[i]
  BY <1>1, <1>3, Folded DEF ParkedInv
<1>5. Queues' /\ StreamInv'
  BY <1>1, <1>2, <1>4 DEF ParkedInv, Queues, StreamInv
<1>8. FreshInv'
  <2>1. \A i \in DOMAIN events' : events'[i].type = "asked" => events'[i].of \notin Fresh
    <3>1. ASSUME NEW i \in DOMAIN events'
          PROVE  i + 1 \in DOMAIN events /\ events'[i] = events[i + 1]
      BY <1>2
    <3> QED BY <3>1 DEF ParkedInv, FreshInv
  <2>2. e.type = "asked" => e.of \notin Fresh
    BY <1>2 DEF ParkedInv, FreshInv
  <2>3. \A i \in DOMAIN pending' : pending'[i] \notin Fresh
    BY <1>4, <2>2 DEF ParkedInv, FreshInv
  <2>4. AsksMove /\ Fresh' = Fresh
    BY <1>1, Standing DEF askVars, Fresh
  <2> QED BY <2>1, <2>3, <2>4 DEF FreshInv, AsksMove
<1>9. Held' = Held
  BY <1>1, Standing
<1>6. CASE lapsed
  BY <1>1, <1>5, <1>6, <1>8 DEF ParkedInv, OrderInv, AsksAreParked
<1>7. CASE ~lapsed
  \* A later event is there still.
  <2>1. ASSUME NEW k \in DOMAIN events, 1 < k
        PROVE  k - 1 \in DOMAIN events' /\ events'[k - 1] = events[k]
    <3>1. k - 1 \in 1 .. Len(events) - 1 /\ (k - 1) + 1 = k
      BY <1>2, <2>1
    <3> QED BY <1>2, <3>1
  <2>2. OrderInv'
    <3>1. SUFFICES ASSUME NEW i \in DOMAIN events', events'[i].type = "asked",
                          events'[i].of \notin Held
                   PROVE  \E j \in DOMAIN events' :
                            i < j /\ events'[j] = Event("replied", events'[i].of)
      BY <1>1, <1>9 DEF OrderInv
    <3>2. i + 1 \in DOMAIN events /\ events'[i] = events[i + 1] /\ i \in Nat
      BY <1>2
    <3>3. PICK k \in DOMAIN events : i + 1 < k /\ events[k] = Event("replied", events[i + 1].of)
      BY <1>7, <3>1, <3>2 DEF ParkedInv, OrderInv
    <3>4. 1 < k /\ i < k - 1
      BY <1>2, <3>2, <3>3
    <3> QED BY <2>1, <3>2, <3>3, <3>4
  <2>3. AsksAreParked'
    <3>1. SUFFICES ASSUME NEW i \in DOMAIN pending', pending'[i] \notin Held
                   PROVE  \E k \in DOMAIN events : 1 < k /\ events[k] = Event("replied", pending'[i])
      <4>1. ASSUME NEW x, NEW k \in DOMAIN events, 1 < k, events[k] = Event("replied", x)
            PROVE  Contains(events', Event("replied", x))
        BY <1>2, <2>1, <4>1 DEF Contains
      <4> QED BY <1>1, <1>9, <4>1 DEF AsksAreParked, TakenAway, Held
    <3>2. CASE e.type = "asked" /\ e.of = pending'[i]
      BY <1>2, <1>7, <3>1, <3>2 DEF ParkedInv, OrderInv
    <3>3. CASE /\ \E j \in DOMAIN pending : pending[j] = pending'[i]
               /\ ~(e.type = "replied" /\ e.of = pending'[i])
      <4>1. PICK k \in DOMAIN events : events[k] = Event("replied", pending'[i])
        BY <1>2, <1>7, <3>1, <3>3 DEF ParkedInv, AsksAreParked, TakenAway, Held, Contains
      <4>2. k # 1
        BY <1>2, <3>3, <4>1 DEF Event
      <4>3. 1 < k
        BY <1>2, <4>2
      <4> QED BY <4>1, <4>3
    <3> QED BY <1>4, <3>2, <3>3
  <2> QED BY <1>5, <1>8, <2>2, <2>3 DEF ParkedInv
<1> QED BY <1>6, <1>7

\* The answer to a reply takes the ask out before its event does.
LEMMA RepliedNext ==
  ASSUME ParkedInv, NEW c, pending' = pending \/ pending' = Without(pending, c),
         UNCHANGED <<events, askVars, connected, lapsed>>
  PROVE  ParkedInv'
<1>1. CASE pending' = pending
  BY <1>1, NothingSaid
<1>2. CASE pending' = Without(pending, c)
  <2>1. /\ pending' \in Seq(Session \cup NoSession \cup Ask)
        /\ \A i, j \in DOMAIN pending' : pending'[i] = pending'[j] => i = j
        /\ \A i \in DOMAIN pending' : \E j \in DOMAIN pending : pending[j] = pending'[i]
    BY <1>2, Withdrawn DEF ParkedInv, Queues
  <2>4. AsksMove /\ Held' = Held
    BY Standing
  <2>2. Queues' /\ StreamInv' /\ OrderInv'
    BY <2>1, <2>4 DEF ParkedInv, Queues, StreamInv, OrderInv
  <2>3. AsksAreParked'
    BY <2>1, <2>4 DEF ParkedInv, AsksAreParked, TakenAway, Held
  <2>5. FreshInv'
    BY <2>1, <2>4 DEF ParkedInv, FreshInv, AsksMove
  <2> QED BY <2>2, <2>3, <2>5 DEF ParkedInv
<1> QED BY <1>1, <1>2

-----------------------------------------------------------------------------
(* The theorem. *)

LEMMA ParkedInit == AppInit => ParkedInv
<1> SUFFICES ASSUME AppInit PROVE ParkedInv
  OBVIOUS
<1>1. events = <<>> /\ pending = <<>> /\ connected = TRUE /\ unsaid = {}
  BY DEF AppInit
<1>2. DOMAIN events = {} /\ DOMAIN pending = {}
  BY <1>1
<1>3. Queues
  BY <1>1, <1>2 DEF Queues
<1> QED BY <1>1, <1>2, <1>3 DEF ParkedInv, StreamInv, OrderInv, AsksAreParked, FreshInv

LEMMA AnswerNext ==
  ASSUME ParkedInv, NEW i \in DOMAIN flight, Answer(i)
  PROVE  ParkedInv'
<1>1. UNCHANGED <<events, askVars, connected, lapsed>>
  BY DEF Answer, server, wire, bounds
<1>2. pending' = pending \/ pending' = Without(pending, flight[i].of)
  BY DEF Answer, Hydrated, Created, Patched, Replied, Landed
<1> QED BY <1>1, <1>2, RepliedNext

LEMMA ParkedNext == ParkedInv /\ [AppNext]_appVars => ParkedInv'
<1> SUFFICES ASSUME ParkedInv, [AppNext]_appVars PROVE ParkedInv'
  OBVIOUS
<1>1. ASSUME NEW i \in DOMAIN flight, Serve(i) PROVE ParkedInv'
  <2>1. UNCHANGED <<pending, connected, lapsed>>
    BY <1>1 DEF Serve, view, bounds
  <2>2. CASE \E of \in Targets : Effect(flight[i], of)
    BY <2>1, <2>2, EffectNext
  <2>3. CASE UNCHANGED <<server, events>>
    BY <2>1, <2>3, NothingSaid DEF server
  <2> QED BY <1>1, <2>2, <2>3 DEF Serve
<1>2. ASSUME NEW i \in DOMAIN flight, Fail(i) PROVE ParkedInv'
  <2>1. UNCHANGED <<pending, connected, lapsed>>
    BY <1>2 DEF Fail, view
  <2>2. CASE \E of \in Targets : Effect(flight[i], of)
    BY <2>1, <2>2, EffectNext
  <2>3. CASE UNCHANGED <<server, events>>
    BY <2>1, <2>3, NothingSaid DEF server
  <2> QED BY <1>2, <2>2, <2>3 DEF Fail
<1>3. CASE Redial
  <2>1. UNCHANGED <<events, askVars, pending, lapsed>> /\ connected'
    BY <1>3 DEF Redial, server, view, bounds
  <2>2. AsksMove /\ Held' = Held
    BY <2>1, Standing
  <2> QED BY <2>1, <2>2 DEF ParkedInv, Queues, StreamInv, OrderInv, AsksAreParked, TakenAway, Held,
          FreshInv, AsksMove
<1>4. CASE Resync
  BY <1>4, NothingSaid DEF Resync, server, bounds
<1>5. CASE Key
  <2>1. UNCHANGED <<events, askVars, connected, lapsed>>
    BY <1>5 DEF Key, server, wire
  <2>2. pending' = pending
    BY <1>5 DEF Key, HandleKey, PermKey, DialogKey, PickerKey, SessionsKey, FormKey, ThemesKey,
         RetryKey, PaletteKey, ViewKey, AppKey, OpenKey, NewKey, QuitKey, EnterKey, InterruptKey,
         SessionKey, view
  <2> QED BY <2>1, <2>2, NothingSaid
<1>6. CASE UNCHANGED appVars
  BY <1>6, NothingSaid DEF appVars, server, wire, view, bounds
<1> QED
  BY <1>1, <1>2, <1>3, <1>4, <1>5, <1>6, WorldNext, AskProgressNext, LapseNext, EventArrivesNext, AnswerNext DEF AppNext

\* For any sessions and asks, and whatever is under way: an ask on screen is one the server
\* still holds, or the event that takes it away is still to come, or its reply was published
\* before it was, as long as the stream has not broken (Service.Ask and resolve,
\* permission/service.go; State.applyPermissionAsked, tui/store/store.go).
THEOREM AsksAreParkedSafety == AppSpec => []AsksAreParked
<1>1. ParkedInv => AsksAreParked
  BY DEF ParkedInv
<1> QED BY <1>1, ParkedInit, ParkedNext, PTL DEF AppSpec

=================================================================================
