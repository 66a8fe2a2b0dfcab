---------------------------- MODULE MCPermission ----------------------------
(* Instances of Permission for TLC.                                        *)
EXTENDS Permission, TLC

CONSTANTS r1, r2, t1, t2, s1, edit, fileA, fileB, p1, p2

\* Two asks of one session that may be parked at once (what the service's own
\* tests drive, TestRejectCascade).  What r2 suggests to always allow covers
\* r1; what r1 suggests covers r2 only in part.
TwoAsks == {r1, r2}
OwnThreads == (r1 :> t1) @@ (r2 :> t2)
OneThread == [r \in TwoAsks |-> t1]
OneSession == [t \in Thread |-> s1]
EditBoth == [r \in TwoAsks |-> edit]
Files == {fileA, fileB}
AskedFiles == (r1 :> {fileA}) @@ (r2 :> {fileA, fileB})
AskRules == [r \in TwoAsks |-> [f \in Files |-> "ask"]]

\* Handlers are interchangeable; only safety is checked with it.
Handlers == Permutations({p1, p2})
=============================================================================
