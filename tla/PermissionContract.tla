------------------------- MODULE PermissionContract -------------------------
(***************************************************************************)
(* What the permission service promises to the engine, without map, lock,  *)
(* table or bus: a request gets one answer at most, it never changes, and  *)
(* Ask returns it.  Two exceptions: the asker of an aborted turn is denied *)
(* whatever the answer, and an asker may get an error.  No asker is ever   *)
(* allowed without an answer that allows.                                  *)
(***************************************************************************)
CONSTANTS Req, Thread, ThreadOf

VARIABLES
  status,   \* [Req -> what its asker sees]
  answer,   \* [Req -> the answer it was given]
  aborted   \* turns that were aborted

vars == <<status, answer, aborted>>

\* A request is asked; the rules may answer it at once.
Ask(r, a) ==
  /\ status[r] = "unasked"
  /\ status' = [status EXCEPT ![r] = "waiting"]
  /\ answer' = [answer EXCEPT ![r] = a]
  /\ UNCHANGED aborted

\* Somebody answers a waiting request: a user, a sweep, or the abort.
Answer(r, a) ==
  /\ status[r] = "waiting"
  /\ answer[r] = "none"
  /\ answer' = [answer EXCEPT ![r] = a]
  /\ UNCHANGED <<status, aborted>>

Conclude(r) ==
  /\ status[r] = "waiting"
  /\ \/ answer[r] = "allow" /\ status' = [status EXCEPT ![r] = "allowed"]
     \/ answer[r] = "denied" /\ status' = [status EXCEPT ![r] = "refused"]
     \/ /\ answer[r] = "allow"
        /\ ThreadOf[r] \in aborted
        /\ status' = [status EXCEPT ![r] = "refused"]
     \/ status' = [status EXCEPT ![r] = "failed"]
  /\ UNCHANGED <<answer, aborted>>

Abort(t) ==
  /\ aborted' = aborted \cup {t}
  /\ UNCHANGED <<status, answer>>

Init ==
  /\ status = [r \in Req |-> "unasked"]
  /\ answer = [r \in Req |-> "none"]
  /\ aborted = {}

Next ==
  \/ \E r \in Req, a \in {"none", "allow", "denied"} : Ask(r, a)
  \/ \E r \in Req, a \in {"allow", "denied"} : Answer(r, a)
  \/ \E r \in Req : Conclude(r)
  \/ \E t \in Thread : Abort(t)

Spec == Init /\ [][Next]_vars
=============================================================================
