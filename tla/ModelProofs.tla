----------------------------- MODULE ModelProofs -----------------------------
(***************************************************************************)
(* How a round talks to a model, for every value of the constants.         *)
(*                                                                         *)
(* RequestsAreSendable of module Request.  The parts of a history are      *)
(* numbered in the order they were written, so no two calls are the same.  *)
(* Every stored message becomes a turn whose calls are answered in it, and *)
(* turns put one after the other are a dialogue.  A driver makes blocks of *)
(* each message and puts those one after the other; heard by the provider, *)
(* the blocks of a message are the same in both forms.                     *)
(*                                                                         *)
(* StreamAgrees of module Driver.  What a driver keeps of a response is,   *)
(* after every frame, what the frames so far say: the OpenAI driver's      *)
(* calls are those of the fragments read so far, the Anthropic driver's    *)
(* blocks those begun, each as it was begun last.  What a frame says       *)
(* depends on no later one, so what has been sent is what was said.        *)
(***************************************************************************)
EXTENDS ModelParts, FiniteSetTheorems, WellFoundedInduction, TLAPS

-----------------------------------------------------------------------------
(* Numbers and functions on them. *)

\* A nonempty set of numbers has a least one.
LEMMA Least ==
  ASSUME NEW T \in SUBSET Nat, T # {}
  PROVE  \E x \in T : \A y \in T : x =< y
<1>1. PICK x \in T : \A y \in T : <<y, x>> \notin OpToRel(<, Nat)
  BY NatLessThanWellFounded, WFMin
<1>2. \A y \in T : ~(y < x)
  BY <1>1 DEF OpToRel
<1> QED BY <1>2

\* Induction up to a number, for a set.
LEMMA Induct ==
  ASSUME NEW n \in Nat, NEW Good, 0 \in Good, \A m \in 1 .. n : m - 1 \in Good => m \in Good
  PROVE  \A m \in 0 .. n : m \in Good
<1> DEFINE bad == {m \in Nat : m =< n /\ m \notin Good}
<1> SUFFICES ASSUME bad # {} PROVE FALSE
  OBVIOUS
<1>1. PICK m \in bad : \A j \in bad : m =< j
  BY Least
<1>2. m \in 1 .. n /\ m - 1 \in Nat /\ m - 1 < m
  OBVIOUS
<1>3. m - 1 \in Good
  BY <1>1, <1>2
<1> QED BY <1>2, <1>3

\* The function that begins with base and takes the m-th step by g[m].
Folds(g, n, S) == n \in Nat /\ g \in [1 .. n -> [S -> S]]
Folded(f, base, g, n, S) ==
  f \in [0 .. n -> S] /\ f[0] = base /\ \A m \in 1 .. n : f[m] = g[m][f[m - 1]]

\* It exists.
LEMMA Recursion ==
  ASSUME NEW S, NEW base \in S, NEW n, NEW g, Folds(g, n, S)
  PROVE  \E f : Folded(f, base, g, n, S)
<1> USE DEF Folds
<1> DEFINE upTo(k) ==
      \E f \in [0 .. k -> S] : f[0] = base /\ \A m \in 1 .. k : f[m] = g[m][f[m - 1]]
<1>1. upTo(0)
  <2> WITNESS [m \in 0 .. 0 |-> base] \in [0 .. 0 -> S]
  <2> QED OBVIOUS
<1>2. ASSUME NEW k \in Nat, k < n, upTo(k) PROVE upTo(k + 1)
  <2>1. PICK f \in [0 .. k -> S] : f[0] = base /\ \A m \in 1 .. k : f[m] = g[m][f[m - 1]]
    BY <1>2
  <2> DEFINE next == [m \in 0 .. k + 1 |-> IF m = k + 1 THEN g[k + 1][f[k]] ELSE f[m]]
  <2>2. f[k] \in S /\ k + 1 \in 1 .. n
    BY <1>2
  <2>3. g[k + 1][f[k]] \in S
    BY <2>2
  <2>4. next \in [0 .. k + 1 -> S]
    BY <2>3
  <2>5. ASSUME NEW m \in 1 .. k + 1 PROVE next[m] = g[m][next[m - 1]]
    <3>1. CASE m = k + 1
      <4>1. next[k + 1] = g[k + 1][f[k]] /\ next[k] = f[k] /\ k + 1 - 1 = k
        OBVIOUS
      <4> HIDE DEF next
      <4> QED BY <3>1, <4>1
    <3>2. CASE m # k + 1
      <4>1. m \in 1 .. k /\ m \in 0 .. k + 1 /\ m - 1 \in 0 .. k + 1 /\ m - 1 # k + 1
        BY <3>2
      <4> QED BY <2>1, <3>2, <4>1
    <3> QED BY <3>1, <3>2
  <2>6. next[0] = base
    BY <2>1
  <2> QED BY <2>4, <2>5, <2>6
<1> HIDE DEF upTo
<1>3. upTo(n)
  <2> DEFINE Good == {k \in 0 .. n : upTo(k)}
  <2>1. 0 \in Good
    BY <1>1
  <2>2. \A k \in 1 .. n : k - 1 \in Good => k \in Good
    <3> SUFFICES ASSUME NEW k \in 1 .. n, upTo(k - 1) PROVE upTo(k)
      OBVIOUS
    <3>1. k - 1 \in Nat /\ k - 1 < n /\ k - 1 + 1 = k
      OBVIOUS
    <3>2. upTo(k - 1 + 1)
      BY <1>2, <3>1
    <3> QED BY <3>1, <3>2
  <2> HIDE DEF Good
  <2>3. \A k \in 0 .. n : k \in Good
    BY <2>1, <2>2, Induct
  <2> QED BY <2>3 DEF Good
<1> QED BY <1>3 DEF upTo, Folded

-----------------------------------------------------------------------------
(* Sequences put one after the other. *)

\* w is the first n sequences of ss, the m-th of which ends at off[m].
Placed(off, ss, n, w) ==
  /\ off \in [0 .. n -> Nat] /\ off[0] = 0 /\ Len(w) = off[n]
  /\ \A m \in 1 .. n : off[m] = off[m - 1] + Len(ss[m])
  /\ \A i, j \in 0 .. n : i =< j => off[i] =< off[j]
  /\ \A i \in 1 .. n : \A j \in 1 .. Len(ss[i]) : w[off[i - 1] + j] = ss[i][j]
  /\ \A p \in 1 .. Len(w) : \E i \in 1 .. n : \E j \in 1 .. Len(ss[i]) : p = off[i - 1] + j

\* f joins the sequences of ss from the first on, f[m] being the first m of them.
Joins(f, ss, n) == f = [m \in 0 .. n |-> IF m = 0 THEN <<>> ELSE f[m - 1] \o ss[m]]

SeqsOf(ss, n, S) == n \in Nat /\ ss \in [1 .. n -> Seq(S)]

\* What stands where in two sequences put together.
LEMMA Concat ==
  ASSUME NEW S, NEW w \in Seq(S), NEW x \in Seq(S)
  PROVE  /\ w \o x \in Seq(S) /\ Len(w) \in Nat /\ Len(x) \in Nat /\ Len(w \o x) = Len(w) + Len(x)
         /\ \A i \in 1 .. Len(w) : (w \o x)[i] = w[i]
         /\ \A i \in 1 .. Len(x) : (w \o x)[Len(w) + i] = x[i]
OBVIOUS

\* One more sequence comes to stand where the others end.
LEMMA JoinStep ==
  ASSUME NEW S, NEW n, NEW m \in Nat, m + 1 =< n, NEW ss, SeqsOf(ss, n, S),
         NEW off, NEW w \in Seq(S), Placed(off, ss, m, w)
  PROVE  \E new : Placed(new, ss, m + 1, w \o ss[m + 1])
<1>1. PICK x \in Seq(S) : x = ss[m + 1]
  BY DEF SeqsOf
<1>2. PICK lens \in [1 .. m + 1 -> Nat] : \A i \in 1 .. m + 1 : lens[i] = Len(ss[i])
  <2>1. \A i \in 1 .. m + 1 : Len(ss[i]) \in Nat
    BY DEF SeqsOf
  <2>2. [i \in 1 .. m + 1 |-> Len(ss[i])] \in [1 .. m + 1 -> Nat]
    BY <2>1
  <2> QED BY <2>2
<1>3. PICK v : v = w \o x
  OBVIOUS
<1>4. /\ Len(w) \in Nat /\ Len(v) = Len(w) + lens[m + 1]
      /\ \A i \in 1 .. Len(w) : v[i] = w[i]
      /\ \A i \in 1 .. lens[m + 1] : v[Len(w) + i] = ss[m + 1][i]
  <2>1. m + 1 \in 1 .. m + 1
    OBVIOUS
  <2>2. lens[m + 1] = Len(x)
    BY <1>1, <1>2, <2>1
  <2> QED BY <1>1, <1>3, <2>2, Concat
<1>5. /\ off \in [0 .. m -> Nat] /\ off[0] = 0 /\ Len(w) = off[m]
      /\ \A i \in 1 .. m : off[i] = off[i - 1] + lens[i]
      /\ \A i, j \in 0 .. m : i =< j => off[i] =< off[j]
      /\ \A i \in 1 .. m : \A j \in 1 .. lens[i] : w[off[i - 1] + j] = ss[i][j]
      /\ \A p \in 1 .. Len(w) : \E i \in 1 .. m : \E j \in 1 .. lens[i] : p = off[i - 1] + j
  <2>1. \A i \in 1 .. m : i \in 1 .. m + 1
    OBVIOUS
  <2>2. \A i \in 1 .. m : lens[i] = Len(ss[i])
    BY <1>2, <2>1
  <2>3. off \in [0 .. m -> Nat] /\ off[0] = 0 /\ Len(w) = off[m]
    BY Zenon DEF Placed
  <2>4. \A i \in 1 .. m : off[i] = off[i - 1] + lens[i]
    BY <2>2 DEF Placed
  <2>5. \A i, j \in 0 .. m : i =< j => off[i] =< off[j]
    BY Zenon DEF Placed
  <2>6. \A i \in 1 .. m : \A j \in 1 .. Len(ss[i]) : w[off[i - 1] + j] = ss[i][j]
    BY Zenon DEF Placed
  <2>7. \A p \in 1 .. Len(w) : \E i \in 1 .. m : \E j \in 1 .. Len(ss[i]) : p = off[i - 1] + j
    BY Zenon DEF Placed
  <2>8. \A i \in 1 .. m : \A j \in 1 .. lens[i] : w[off[i - 1] + j] = ss[i][j]
    BY <2>2, <2>6, Zenon
  <2>9. \A p \in 1 .. Len(w) : \E i \in 1 .. m : \E j \in 1 .. lens[i] : p = off[i - 1] + j
    BY <2>2, <2>7, Zenon
  <2> QED BY <2>3, <2>4, <2>5, <2>8, <2>9
<1>6. PICK new : new = [i \in 0 .. m + 1 |-> IF i = m + 1 THEN off[m] + lens[m + 1] ELSE off[i]]
  OBVIOUS
<1>7. /\ new \in [0 .. m + 1 -> Nat] /\ new[m + 1] = off[m] + lens[m + 1]
      /\ \A i \in 0 .. m : new[i] = off[i]
  BY <1>5, <1>6
<1>8. \A i \in 1 .. m + 1 : new[i] = new[i - 1] + lens[i]
  <2> SUFFICES ASSUME NEW i \in 1 .. m + 1 PROVE new[i] = new[i - 1] + lens[i]
    OBVIOUS
  <2>1. CASE i = m + 1
    BY <1>5, <1>7, <2>1
  <2>2. CASE i # m + 1
    <3>1. i \in 1 .. m /\ i \in 0 .. m /\ i - 1 \in 0 .. m
      BY <2>2
    <3> QED BY <1>5, <1>7, <3>1
  <2> QED BY <2>1, <2>2
<1>9. \A i, j \in 0 .. m + 1 : i =< j => new[i] =< new[j]
  <2> SUFFICES ASSUME NEW i \in 0 .. m + 1, NEW j \in 0 .. m + 1, i =< j PROVE new[i] =< new[j]
    OBVIOUS
  <2>1. CASE j # m + 1
    <3>1. i \in 0 .. m /\ j \in 0 .. m
      BY <2>1
    <3> QED BY <1>5, <1>7, <3>1
  <2>2. CASE j = m + 1 /\ i # m + 1
    <3>1. i \in 0 .. m /\ m \in 0 .. m /\ i =< m /\ m + 1 \in 1 .. m + 1
      BY <2>2
    <3>2. off[i] =< off[m] /\ off[i] \in Nat /\ off[m] \in Nat /\ lens[m + 1] \in Nat
      BY <1>2, <1>5, <3>1
    <3> QED BY <1>7, <2>2, <3>1, <3>2
  <2>3. CASE j = m + 1 /\ i = m + 1
    BY <1>7, <2>3
  <2> QED BY <2>1, <2>2, <2>3
<1>10. \A i \in 1 .. m + 1 : \A j \in 1 .. lens[i] : v[new[i - 1] + j] = ss[i][j]
  <2> SUFFICES ASSUME NEW i \in 1 .. m + 1, NEW j \in 1 .. lens[i]
               PROVE  v[new[i - 1] + j] = ss[i][j]
    OBVIOUS
  <2>1. CASE i = m + 1
    <3>1. new[i - 1] = Len(w) /\ j \in 1 .. lens[m + 1]
      BY <1>5, <1>7, <2>1
    <3> QED BY <1>4, <2>1, <3>1
  <2>2. CASE i # m + 1
    <3>1. i \in 1 .. m /\ i \in 0 .. m /\ i - 1 \in 0 .. m /\ m \in 0 .. m /\ i =< m
      BY <2>2
    <3>2. /\ new[i - 1] = off[i - 1] /\ off[i] = off[i - 1] + lens[i] /\ off[i] =< off[m]
          /\ off[i - 1] \in Nat /\ lens[i] \in Nat
      <4>1. i \in 1 .. m + 1
        OBVIOUS
      <4>2. off[i - 1] \in Nat /\ lens[i] \in Nat
        BY <1>2, <1>5, <3>1, <4>1
      <4>3. new[i - 1] = off[i - 1]
        BY <1>7, <3>1
      <4>4. off[i] = off[i - 1] + lens[i] /\ off[i] =< off[m]
        BY <1>5, <3>1
      <4> QED BY <4>2, <4>3, <4>4, Zenon
    <3>3. off[i - 1] + j \in 1 .. Len(w)
      <4>1. Len(w) = off[m] /\ Len(w) \in Nat
        BY <1>4, <1>5
      <4>2. j \in Nat /\ 1 =< j /\ j =< lens[i]
        BY <3>2
      <4> QED BY <3>2, <4>1, <4>2
    <3>4. v[off[i - 1] + j] = w[off[i - 1] + j]
      BY <1>4, <3>3
    <3>5. w[off[i - 1] + j] = ss[i][j]
      BY <1>5, <3>1
    <3> QED BY <3>2, <3>4, <3>5
  <2> QED BY <2>1, <2>2
<1>11. \A p \in 1 .. Len(v) : \E i \in 1 .. m + 1 : \E j \in 1 .. lens[i] : p = new[i - 1] + j
  <2> SUFFICES ASSUME NEW p \in 1 .. Len(v)
               PROVE  \E i \in 1 .. m + 1 : \E j \in 1 .. lens[i] : p = new[i - 1] + j
    OBVIOUS
  <2>1. CASE p \in 1 .. Len(w)
    <3>1. PICK i \in 1 .. m : \E j \in 1 .. lens[i] : p = off[i - 1] + j
      BY <1>5, <2>1
    <3>2. i \in 1 .. m + 1 /\ i - 1 \in 0 .. m
      OBVIOUS
    <3> QED BY <1>7, <3>1, <3>2
  <2>2. CASE p \notin 1 .. Len(w)
    <3>1. p - Len(w) \in 1 .. lens[m + 1]
      BY <1>2, <1>4, <2>2
    <3>2. m + 1 \in 1 .. m + 1 /\ m + 1 - 1 = m /\ m \in 0 .. m /\ p = Len(w) + (p - Len(w))
      BY <1>4
    <3> QED BY <1>5, <1>7, <3>1, <3>2
  <2> QED BY <2>1, <2>2
<1>12. Placed(new, ss, m + 1, v)
  <2>1. new[0] = 0 /\ Len(v) = new[m + 1]
    BY <1>4, <1>5, <1>7
  <2>2. \A i \in 1 .. m + 1 : new[i] = new[i - 1] + Len(ss[i])
    BY <1>2, <1>8
  <2>3. \A i \in 1 .. m + 1 : \A j \in 1 .. Len(ss[i]) : v[new[i - 1] + j] = ss[i][j]
    BY <1>2, <1>10, Zenon
  <2>4. \A p \in 1 .. Len(v) : \E i \in 1 .. m + 1 : \E j \in 1 .. Len(ss[i]) : p = new[i - 1] + j
    BY <1>2, <1>11, Zenon
  <2> QED BY <1>7, <1>9, <2>1, <2>2, <2>3, <2>4, Zenon DEF Placed
<1> QED BY <1>1, <1>3, <1>12

\* The recursive function that joins them exists, and places them.
LEMMA Joining ==
  ASSUME NEW S, NEW n, NEW ss, SeqsOf(ss, n, S)
  PROVE  \E f : Joins(f, ss, n)
<1>1. n \in Nat
  BY DEF SeqsOf
<1> DEFINE g == [m \in 1 .. n |-> [w \in Seq(S) |-> w \o ss[m]]]
<1>2. \A m \in 1 .. n : [w \in Seq(S) |-> w \o ss[m]] \in [Seq(S) -> Seq(S)]
  BY DEF SeqsOf
<1>3. Folds(g, n, Seq(S))
  BY <1>1, <1>2 DEF Folds
<1>4. \A m \in 1 .. n, w \in Seq(S) : g[m][w] = w \o ss[m]
  OBVIOUS
<1> HIDE DEF g
<1>5. <<>> \in Seq(S)
  OBVIOUS
<1>6. PICK f : Folded(f, <<>>, g, n, Seq(S))
  BY <1>3, <1>5, Recursion
<1>7. f \in [0 .. n -> Seq(S)] /\ f[0] = <<>> /\ \A m \in 1 .. n : f[m] = g[m][f[m - 1]]
  BY <1>6 DEF Folded
<1>8. \A m \in 1 .. n : f[m] = f[m - 1] \o ss[m]
  <2> SUFFICES ASSUME NEW m \in 1 .. n PROVE f[m] = f[m - 1] \o ss[m]
    OBVIOUS
  <2>1. m - 1 \in 0 .. n
    BY <1>1
  <2>2. f[m - 1] \in Seq(S)
    BY <1>7, <2>1
  <2> QED BY <1>4, <1>7, <2>2
<1>9. \A m \in 0 .. n : f[m] = IF m = 0 THEN <<>> ELSE f[m - 1] \o ss[m]
  <2> SUFFICES ASSUME NEW m \in 0 .. n PROVE f[m] = IF m = 0 THEN <<>> ELSE f[m - 1] \o ss[m]
    OBVIOUS
  <2>1. CASE m = 0
    BY <1>7, <2>1
  <2>2. CASE m # 0
    <3>1. m \in 1 .. n
      BY <1>1, <2>2
    <3> QED BY <1>8, <2>2, <3>1
  <2> QED BY <2>1, <2>2
<1>10. f = [m \in 0 .. n |-> f[m]]
  BY <1>7
<1>11. f = [m \in 0 .. n |-> IF m = 0 THEN <<>> ELSE f[m - 1] \o ss[m]]
  BY <1>9, <1>10, Zenon
<1> QED BY <1>11 DEF Joins

\* What is joined is placed, at every length.
LEMMA Joined ==
  ASSUME NEW S, NEW n, NEW ss, SeqsOf(ss, n, S), NEW f, Joins(f, ss, n)
  PROVE  \A m \in 0 .. n : f[m] \in Seq(S) /\ \E off : Placed(off, ss, m, f[m])
<1>1. n \in Nat
  BY DEF SeqsOf
<1>2. f = [m \in 0 .. n |-> IF m = 0 THEN <<>> ELSE f[m - 1] \o ss[m]]
  BY Zenon DEF Joins
<1>3. f[0] = <<>>
  <2>1. 0 \in 0 .. n
    BY <1>1
  <2> QED BY <1>2, <2>1
<1>4. \A m \in 1 .. n : f[m] = f[m - 1] \o ss[m]
  <2> SUFFICES ASSUME NEW m \in 1 .. n PROVE f[m] = f[m - 1] \o ss[m]
    OBVIOUS
  <2>1. m \in 0 .. n /\ m # 0
    BY <1>1
  <2> QED BY <1>2, <2>1
<1> DEFINE Good == {m \in 0 .. n : f[m] \in Seq(S) /\ \E off : Placed(off, ss, m, f[m])}
<1>5. 0 \in Good
  <2>1. Placed([i \in 0 .. 0 |-> 0], ss, 0, <<>>)
    BY DEF Placed
  <2>2. <<>> \in Seq(S) /\ 0 \in 0 .. n
    BY <1>1
  <2> QED BY <1>3, <2>1, <2>2
<1>6. \A m \in 1 .. n : m - 1 \in Good => m \in Good
  <2> SUFFICES ASSUME NEW m \in 1 .. n, m - 1 \in Good PROVE m \in Good
    OBVIOUS
  <2>1. PICK off : f[m - 1] \in Seq(S) /\ Placed(off, ss, m - 1, f[m - 1])
    OBVIOUS
  <2> HIDE DEF Good
  <2>2. m - 1 \in Nat /\ m - 1 + 1 = m /\ m - 1 + 1 =< n /\ m \in 0 .. n
    BY <1>1
  <2>3. \E new : Placed(new, ss, m - 1 + 1, f[m - 1] \o ss[m - 1 + 1])
    BY <2>1, <2>2, JoinStep
  <2>4. \E new : Placed(new, ss, m, f[m])
    BY <1>4, <2>2, <2>3
  <2>5. f[m] \in Seq(S)
    <3>1. ss[m] \in Seq(S)
      BY DEF SeqsOf
    <3> QED BY <1>4, <2>1, <3>1, Concat
  <2> QED BY <2>2, <2>4, <2>5 DEF Good
<1> HIDE DEF Good
<1>7. \A m \in 0 .. n : m \in Good
  BY <1>1, <1>5, <1>6, Induct
<1> QED BY <1>7 DEF Good

\* A function that joins them appends them one by one.
LEMMA JoinsSteps ==
  ASSUME NEW n \in Nat, NEW ss, NEW f, Joins(f, ss, n)
  PROVE  f[0] = <<>> /\ \A m \in 1 .. n : f[m] = f[m - 1] \o ss[m]
<1>1. f = [m \in 0 .. n |-> IF m = 0 THEN <<>> ELSE f[m - 1] \o ss[m]]
  BY Zenon DEF Joins
<1>2. f[0] = <<>>
  <2>1. 0 \in 0 .. n
    OBVIOUS
  <2> QED BY <1>1, <2>1
<1>3. ASSUME NEW m \in 1 .. n PROVE f[m] = f[m - 1] \o ss[m]
  <2>1. m \in 0 .. n /\ m # 0
    OBVIOUS
  <2> QED BY <1>1, <2>1
<1> QED BY <1>2, <1>3

\* Their first n sequences are the same.
Extends(ss, tt, n) == \A m \in 1 .. n : ss[m] = tt[m]

\* Two of them agree as long as what they join does.
LEMMA JoinsAgree ==
  ASSUME NEW n \in Nat, NEW k \in 0 .. n, NEW ss, NEW tt, NEW f, NEW g,
         Joins(f, ss, n), Joins(g, tt, k), Extends(ss, tt, k)
  PROVE  \A m \in 0 .. k : f[m] = g[m]
<1>0. k \in Nat
  OBVIOUS
<1>1. f[0] = <<>> /\ \A m \in 1 .. n : f[m] = f[m - 1] \o ss[m]
  BY JoinsSteps, Zenon
<1>2. g[0] = <<>> /\ \A m \in 1 .. k : g[m] = g[m - 1] \o tt[m]
  BY <1>0, JoinsSteps, Zenon
<1> DEFINE Good == {m \in 0 .. k : f[m] = g[m]}
<1>3. 0 \in Good
  BY <1>1, <1>2
<1>4. \A m \in 1 .. k : m - 1 \in Good => m \in Good
  <2> SUFFICES ASSUME NEW m \in 1 .. k, f[m - 1] = g[m - 1] PROVE f[m] = g[m]
    OBVIOUS
  <2>1. m \in 1 .. n
    OBVIOUS
  <2> QED BY <1>1, <1>2, <2>1 DEF Extends
<1> HIDE DEF Good
<1>5. \A m \in 0 .. k : m \in Good
  BY <1>3, <1>4, Induct
<1> QED BY <1>5 DEF Good

\* ss has n sequences and no more.
Joinable(ss, n, S) == SeqsOf(ss, n, S) /\ Len(ss) = n /\ (n = 0 => ss = <<>>)

\* FlattenSeq joins its sequences.
LEMMA FlatIs ==
  ASSUME NEW S, NEW n, NEW ss, Joinable(ss, n, S), NEW f, Joins(f, ss, n)
  PROVE  Rq!FlattenSeq(ss) = f[n]
<1>1. n \in Nat
  BY DEF SeqsOf, Joinable
<1>2. f[0] = <<>> /\ \A m \in 1 .. n : f[m] = f[m - 1] \o ss[m]
  BY <1>1, JoinsSteps, Zenon
<1>3. CASE n = 0
  BY <1>2, <1>3 DEF Rq!FlattenSeq, Joinable
<1>4. CASE n # 0
  <2> DEFINE formed(g) == [i \in 1 .. n |-> IF i = 1 THEN ss[i] ELSE g[i - 1] \o ss[i]]
             flat == CHOOSE g : g = formed(g)
  <2>1. n \in 1 .. n /\ 1 \in 1 .. n
    BY <1>1, <1>4
  <2>2. f[1] = ss[1]
    <3>1. ss[1] \in Seq(S)
      BY <2>1 DEF SeqsOf, Joinable
    <3>2. f[1] = f[1 - 1] \o ss[1] /\ 1 - 1 = 0
      <4>1. f[1] = f[1 - 1] \o ss[1]
        BY <1>2, <2>1, Zenon
      <4> QED BY <4>1
    <3>3. <<>> \o ss[1] = ss[1]
      BY <3>1
    <3> QED BY <1>2, <3>2, <3>3
  <2>3. PICK g : g = [i \in 1 .. n |-> f[i]]
    OBVIOUS
  <2>4. g = formed(g)
    <3>1. \A i \in 1 .. n : f[i] = IF i = 1 THEN ss[i] ELSE g[i - 1] \o ss[i]
      <4> SUFFICES ASSUME NEW i \in 1 .. n, i # 1 PROVE f[i] = g[i - 1] \o ss[i]
        BY <2>2
      <4>1. i - 1 \in 1 .. n
        BY <1>1
      <4>2. g[i - 1] = f[i - 1]
        BY <2>3, <4>1
      <4> QED BY <1>2, <4>2
    <3> QED BY <2>3, <3>1, Zenon
  <2>5. flat = formed(flat)
    BY <2>4, Zenon
  <2> HIDE DEF flat
  <2> DEFINE Good == {m \in 0 .. n : m # 0 => flat[m] = f[m]}
  <2>6. 0 \in Good
    BY <1>1
  <2>7. \A m \in 1 .. n : m - 1 \in Good => m \in Good
    <3> SUFFICES ASSUME NEW m \in 1 .. n, m - 1 # 0 => flat[m - 1] = f[m - 1]
                 PROVE  flat[m] = f[m]
      OBVIOUS
    <3>1. flat[m] = IF m = 1 THEN ss[m] ELSE flat[m - 1] \o ss[m]
      BY <2>5, Zenon
    <3>2. m # 1 => m - 1 # 0
      BY <1>1
    <3> QED BY <1>2, <2>2, <3>1, <3>2
  <2> HIDE DEF Good
  <2>8. \A m \in 0 .. n : m \in Good
    BY <1>1, <2>6, <2>7, Induct
  <2>9. flat[n] = f[n]
    BY <1>1, <1>4, <2>8 DEF Good
  <2>10. Rq!FlattenSeq(ss) = flat[n]
    <3>1. Len(ss) = n
      BY DEF Joinable
    <3> QED BY <1>4, <3>1, Zenon DEF Rq!FlattenSeq, flat
  <2> QED BY <2>9, <2>10
<1> QED BY <1>3, <1>4

\* So what FlattenSeq makes of them is placed.
LEMMA Flat ==
  ASSUME NEW S, NEW n, NEW ss, Joinable(ss, n, S)
  PROVE  Rq!FlattenSeq(ss) \in Seq(S) /\ \E off : Placed(off, ss, n, Rq!FlattenSeq(ss))
<1>0. SeqsOf(ss, n, S)
  BY DEF Joinable
<1>1. PICK f : Joins(f, ss, n)
  BY <1>0, Joining
<1>2. n \in 0 .. n
  BY <1>0 DEF SeqsOf
<1>3. f[n] \in Seq(S) /\ \E off : Placed(off, ss, n, f[n])
  BY <1>0, <1>1, <1>2, Joined
<1>4. Rq!FlattenSeq(ss) = f[n]
  BY <1>1, FlatIs
<1> QED BY <1>3, <1>4

\* With one more at the end, it is appended.
LEMMA FlatLast ==
  ASSUME NEW S, NEW n \in Nat, NEW ss, Joinable(ss, n + 1, S), NEW tt, Joinable(tt, n, S), Extends(ss, tt, n)
  PROVE  Rq!FlattenSeq(ss) = Rq!FlattenSeq(tt) \o ss[n + 1]
<1>0. SeqsOf(ss, n + 1, S) /\ SeqsOf(tt, n, S)
  BY DEF Joinable
<1>1. PICK f : Joins(f, ss, n + 1)
  BY <1>0, Joining
<1>2. PICK g : Joins(g, tt, n)
  BY <1>0, Joining
<1>3. PICK k \in Nat : k = n + 1
  OBVIOUS
<1>4. n \in 0 .. k /\ n \in 0 .. n /\ k \in 1 .. k /\ k - 1 = n
  BY <1>3
<1>5. Joins(f, ss, k) /\ Joinable(ss, k, S)
  <2>1. Joins(f, ss, n + 1) /\ Joinable(ss, n + 1, S)
    BY <1>1
  <2> QED BY <1>3, <2>1
<1>6. \A m \in 0 .. n : f[m] = g[m]
  <2>1. n \in 0 .. k
    BY <1>4
  <2>2. Joins(g, tt, n) /\ Joins(f, ss, k) /\ Extends(ss, tt, n) /\ n \in 0 .. k /\ k \in Nat
    BY <1>2, <1>5, <2>1
  <2> QED BY <2>2, JoinsAgree
<1>7. f[k] = f[n] \o ss[k]
  <2>1. f[k] = f[k - 1] \o ss[k]
    BY <1>4, <1>5, JoinsSteps, Zenon
  <2> QED BY <1>4, <2>1, Zenon
<1>8. Rq!FlattenSeq(ss) = f[k]
  BY <1>5, FlatIs, Zenon
<1>9. Rq!FlattenSeq(tt) = g[n]
  BY <1>2, FlatIs, Zenon
<1> QED BY <1>3, <1>4, <1>6, <1>7, <1>8, <1>9, Zenon

\* A place is that of one element.
LEMMA OnePlace ==
  ASSUME NEW off, NEW ss, NEW n \in Nat, NEW w, Placed(off, ss, n, w), NEW S, SeqsOf(ss, n, S),
         NEW i \in 1 .. n, NEW k \in 1 .. n, NEW j \in 1 .. Len(ss[i]), NEW l \in 1 .. Len(ss[k]),
         off[i - 1] + j = off[k - 1] + l
  PROVE  i = k /\ j = l
<1>1. /\ off \in [0 .. n -> Nat] /\ \A m \in 1 .. n : off[m] = off[m - 1] + Len(ss[m])
      /\ \A a, b \in 0 .. n : a =< b => off[a] =< off[b]
  BY Zenon DEF Placed
<1>2. i - 1 \in 0 .. n /\ k - 1 \in 0 .. n /\ i \in 0 .. n /\ k \in 0 .. n
  OBVIOUS
<1>3. off[i - 1] \in Nat /\ off[k - 1] \in Nat /\ off[i] = off[i - 1] + Len(ss[i])
      /\ off[k] = off[k - 1] + Len(ss[k])
  BY <1>1, <1>2
<1>4. Len(ss[i]) \in Nat /\ Len(ss[k]) \in Nat
  BY DEF SeqsOf
<1>5. /\ ~(off[i - 1] + Len(ss[i]) =< off[k - 1]) /\ ~(off[k - 1] + Len(ss[k]) =< off[i - 1])
      /\ off[i - 1] = off[k - 1] => j = l
  <2>1. PICK x \in Nat : x = off[i - 1]
    BY <1>3
  <2>2. PICK y \in Nat : y = off[k - 1]
    BY <1>3
  <2>3. PICK a \in Nat : a = Len(ss[i])
    BY <1>4
  <2>4. PICK b \in Nat : b = Len(ss[k])
    BY <1>4
  <2>5. j \in 1 .. a /\ l \in 1 .. b /\ x + j = y + l
    BY <2>1, <2>2, <2>3, <2>4
  <2>6. ~(x + a =< y) /\ ~(y + b =< x) /\ (x = y => j = l)
    BY <2>5
  <2> QED BY <2>1, <2>2, <2>3, <2>4, <2>6
<1>6. ~(i < k)
  <2> SUFFICES ASSUME i < k PROVE FALSE
    OBVIOUS
  <2>1. i =< k - 1
    OBVIOUS
  <2>2. off[i] =< off[k - 1]
    BY <1>1, <1>2, <2>1, Zenon
  <2> QED BY <1>3, <1>5, <2>2, Zenon
<1>7. ~(k < i)
  <2> SUFFICES ASSUME k < i PROVE FALSE
    OBVIOUS
  <2>1. k =< i - 1
    OBVIOUS
  <2>2. off[k] =< off[i - 1]
    BY <1>1, <1>2, <2>1, Zenon
  <2> QED BY <1>3, <1>5, <2>2, Zenon
<1>8. i = k
  BY <1>6, <1>7
<1> QED BY <1>5, <1>8

-----------------------------------------------------------------------------
(* The parts of a history are numbered in the order they were written. *)

Message == [role : {"user", "assistant"}, agent : Rq!Agents, parts : Seq(Rq!StoredPart)]
PartsOf(h) == [i \in DOMAIN h |-> h[i].parts]

\* w's parts are numbered from `from` on.
Numbered(w, from) == \A j \in 1 .. Len(w) : w[j].id = from + j

\* Part numbers are those of their places in the history, and so no two are the same.
HistoryInv == Rq!TypeOK /\ Numbered(Rq!FlattenSeq(PartsOf(history)), 0)

LEMMA PartLists ==
  ASSUME NEW h \in Seq(Message)
  PROVE  Joinable(PartsOf(h), Len(h), Rq!StoredPart)
<1>1. Len(h) \in Nat /\ DOMAIN h = 1 .. Len(h)
  OBVIOUS
<1>2. \A i \in 1 .. Len(h) : h[i] \in Message
  OBVIOUS
<1>3. \A i \in 1 .. Len(h) : h[i].parts \in Seq(Rq!StoredPart)
  BY <1>2 DEF Message
<1>4. PartsOf(h) = [i \in 1 .. Len(h) |-> h[i].parts]
  BY <1>1 DEF PartsOf
<1>5. PartsOf(h) \in [1 .. Len(h) -> Seq(Rq!StoredPart)]
  BY <1>3, <1>4
<1>6. Len(PartsOf(h)) = Len(h)
  BY <1>1, <1>4
<1>7. Len(h) = 0 => PartsOf(h) = <<>>
  BY <1>4
<1> QED BY <1>1, <1>5, <1>6, <1>7 DEF Joinable, SeqsOf

\* Numbers that go on where the first ones end.
LEMMA NumberedConcat ==
  ASSUME NEW S, NEW w \in Seq(S), NEW x \in Seq(S)
  PROVE  Numbered(w \o x, 0) <=> Numbered(w, 0) /\ Numbered(x, Len(w))
<1>1. /\ Len(w) \in Nat /\ Len(x) \in Nat /\ Len(w \o x) = Len(w) + Len(x)
      /\ \A i \in 1 .. Len(w) : (w \o x)[i] = w[i]
      /\ \A i \in 1 .. Len(x) : (w \o x)[Len(w) + i] = x[i]
  BY Concat
<1>2. PICK v : v = w \o x
  OBVIOUS
<1>3. PICK a \in Nat, b \in Nat : a = Len(w) /\ b = Len(x) /\ Len(v) = a + b
  BY <1>1, <1>2
<1>4. \A i \in 1 .. a : v[i] = w[i]
  BY <1>1, <1>2, <1>3
<1>5. \A i \in 1 .. b : v[a + i] = x[i]
  BY <1>1, <1>2, <1>3
<1>6. ASSUME \A j \in 1 .. a + b : v[j].id = 0 + j
      PROVE  (\A j \in 1 .. a : w[j].id = 0 + j) /\ \A j \in 1 .. b : x[j].id = a + j
  <2>1. ASSUME NEW j \in 1 .. a PROVE w[j].id = 0 + j
    <3>1. j \in 1 .. a + b
      OBVIOUS
    <3> QED BY <1>4, <1>6, <3>1
  <2>2. ASSUME NEW j \in 1 .. b PROVE x[j].id = a + j
    <3>1. a + j \in 1 .. a + b /\ 0 + (a + j) = a + j
      OBVIOUS
    <3>2. v[a + j].id = 0 + (a + j)
      BY <1>6, <3>1
    <3> QED BY <1>5, <3>1, <3>2
  <2> QED BY <2>1, <2>2
<1>7. ASSUME \A j \in 1 .. a : w[j].id = 0 + j, \A j \in 1 .. b : x[j].id = a + j,
             NEW j \in 1 .. a + b
      PROVE  v[j].id = 0 + j
  <2>1. CASE j =< a
    <3>1. j \in 1 .. a
      BY <2>1
    <3> QED BY <1>4, <1>7, <3>1
  <2>2. CASE ~(j =< a)
    <3>1. PICK i \in 1 .. b : j = a + i
      <4>1. j - a \in 1 .. b /\ j = a + (j - a)
        BY <2>2
      <4> QED BY <4>1
    <3>2. v[j] = x[i] /\ x[i].id = a + i
      BY <1>5, <1>7, <3>1
    <3> QED BY <3>1, <3>2
  <2> QED BY <2>1, <2>2
<1>8. Numbered(v, 0) <=> \A j \in 1 .. a + b : v[j].id = 0 + j
  BY <1>3 DEF Numbered
<1>9. Numbered(w, 0) <=> \A j \in 1 .. a : w[j].id = 0 + j
  BY <1>3 DEF Numbered
<1>10. Numbered(x, Len(w)) <=> \A j \in 1 .. b : x[j].id = a + j
  BY <1>3 DEF Numbered
<1> QED BY <1>2, <1>6, <1>7, <1>8, <1>9, <1>10

\* A history that differs from an older one by its last message, which is numbered on.
LEMMA LastNumbered ==
  ASSUME NEW n \in Nat, NEW h \in Seq(Message), Len(h) = n + 1, NEW g \in Seq(Message), Len(g) = n,
         \A i \in 1 .. n : h[i] = g[i]
  PROVE  Numbered(Rq!FlattenSeq(PartsOf(h)), 0) <=>
           /\ Numbered(Rq!FlattenSeq(PartsOf(g)), 0)
           /\ Numbered(h[n + 1].parts, Len(Rq!FlattenSeq(PartsOf(g))))
<1>1. Joinable(PartsOf(h), n + 1, Rq!StoredPart)
  <2>1. Joinable(PartsOf(h), Len(h), Rq!StoredPart)
    BY PartLists, Zenon
  <2> QED BY <2>1
<1>2. Joinable(PartsOf(g), n, Rq!StoredPart)
  <2>1. Joinable(PartsOf(g), Len(g), Rq!StoredPart)
    BY PartLists, Zenon
  <2> QED BY <2>1
<1>3. \A i \in 1 .. n : i \in DOMAIN h /\ i \in DOMAIN g
  OBVIOUS
<1>4. Extends(PartsOf(h), PartsOf(g), n)
  BY <1>3 DEF Extends, PartsOf
<1>5. PartsOf(h)[n + 1] = h[n + 1].parts
  <2>1. n + 1 \in DOMAIN h
    OBVIOUS
  <2> QED BY <2>1 DEF PartsOf
<1>6. Rq!FlattenSeq(PartsOf(h)) = Rq!FlattenSeq(PartsOf(g)) \o h[n + 1].parts
  <2>1. Rq!FlattenSeq(PartsOf(h)) = Rq!FlattenSeq(PartsOf(g)) \o PartsOf(h)[n + 1]
    BY <1>1, <1>2, <1>4, FlatLast
  <2> QED BY <1>5, <2>1
<1>7. Rq!FlattenSeq(PartsOf(g)) \in Seq(Rq!StoredPart)
  BY <1>2, Flat
<1>8. h[n + 1].parts \in Seq(Rq!StoredPart)
  <2>1. h[n + 1] \in Message
    OBVIOUS
  <2> QED BY <2>1 DEF Message
<1> QED BY <1>6, <1>7, <1>8, NumberedConcat

LEMMA HistoryInit == Rq!Init => HistoryInv
<1> SUFFICES ASSUME Rq!Init PROVE HistoryInv
  OBVIOUS
<1>1. history = <<>> /\ agent \in Rq!Agents /\ model \in Models /\ agentsMD \in SUBSET (0 .. Rq!Depth)
  BY DEF Rq!Init
<1>2. history \in Seq(Message) /\ Len(history) = 0
  BY <1>1
<1>3. PartsOf(history) = <<>>
  BY <1>1 DEF PartsOf
<1>4. Numbered(Rq!FlattenSeq(PartsOf(history)), 0)
  BY <1>3 DEF Numbered, Rq!FlattenSeq
<1> QED BY <1>1, <1>2, <1>4 DEF HistoryInv, Rq!TypeOK, Message

\* A message at the end.
LEMMA MessageKeeps ==
  ASSUME HistoryInv, NEW m \in Message, history' = Append(history, m),
         Numbered(m.parts, Rq!NextId - 1)
  PROVE  history' \in Seq(Message) /\ Numbered(Rq!FlattenSeq(PartsOf(history')), 0)
<1>1. history \in Seq(Message) /\ Numbered(Rq!FlattenSeq(PartsOf(history)), 0)
  BY DEF HistoryInv, Rq!TypeOK, Message
<1>2. PICK n \in Nat : n = Len(history)
  BY <1>1
<1>3. PICK h : h = Append(history, m)
  OBVIOUS
<1>4. h \in Seq(Message) /\ Len(h) = n + 1 /\ h[n + 1] = m /\ \A i \in 1 .. n : h[i] = history[i]
  BY <1>1, <1>2, <1>3
<1>5. Len(Rq!FlattenSeq(PartsOf(history))) = Rq!NextId - 1
  <2>1. Joinable(PartsOf(history), Len(history), Rq!StoredPart)
    BY <1>1, PartLists, Zenon
  <2>2. Rq!FlattenSeq(PartsOf(history)) \in Seq(Rq!StoredPart)
    BY <2>1, Flat
  <2>3. Len(Rq!FlattenSeq(PartsOf(history))) \in Nat
    BY <2>2
  <2>4. Rq!NextId = Len(Rq!FlattenSeq(PartsOf(history))) + 1
    BY Zenon DEF Rq!NextId, PartsOf
  <2> QED BY <2>3, <2>4
<1>6. Numbered(h[n + 1].parts, Len(Rq!FlattenSeq(PartsOf(history))))
  BY <1>4, <1>5
<1>7. Numbered(Rq!FlattenSeq(PartsOf(h)), 0)
  BY <1>1, <1>2, <1>4, <1>6, LastNumbered
<1> QED BY <1>3, <1>4, <1>7

\* Other parts in the last message.
LEMMA PartsKeep ==
  ASSUME HistoryInv, Rq!Open, NEW ps \in Seq(Rq!StoredPart),
         history' = [history EXCEPT ![Len(history)].parts = ps],
         NEW old, old = history[Len(history)].parts,
         \A from \in Nat : Numbered(old, from) /\ Rq!NextId = from + Len(old) + 1 => Numbered(ps, from)
  PROVE  history' \in Seq(Message) /\ Numbered(Rq!FlattenSeq(PartsOf(history')), 0)
<1>1. history \in Seq(Message) /\ Numbered(Rq!FlattenSeq(PartsOf(history)), 0) /\ history # <<>>
  BY DEF HistoryInv, Rq!TypeOK, Message, Rq!Open
<1>2. PICK k \in Nat : k = Len(history) /\ k # 0
  BY <1>1
<1>3. PICK n \in Nat : k = n + 1
  <2>1. k - 1 \in Nat /\ k = k - 1 + 1
    BY <1>2
  <2> QED BY <2>1
<1>4. PICK h : h = [history EXCEPT ![k].parts = ps]
  OBVIOUS
<1>5. PICK g : g = [i \in 1 .. n |-> history[i]]
  OBVIOUS
<1>6. history[k] \in Message
  BY <1>1, <1>2
<1>7. PICK q : q = [history[k] EXCEPT !.parts = ps]
  OBVIOUS
<1>8. q \in Message /\ q.parts = ps
  BY <1>6, <1>7 DEF Message
<1>9. h \in Seq(Message) /\ Len(h) = n + 1 /\ h[n + 1].parts = ps /\ \A i \in 1 .. n : h[i] = history[i]
  <2>1. [history EXCEPT ![k].parts = ps] = [history EXCEPT ![k] = [history[k] EXCEPT !.parts = ps]]
    OBVIOUS
  <2>2. h = [history EXCEPT ![k] = q]
    BY <1>4, <1>7, <2>1
  <2>3. h \in Seq(Message) /\ Len(h) = Len(history) /\ k \in DOMAIN history
    BY <1>1, <1>2, <1>8, <2>2
  <2>4. h[k] = q /\ \A i \in 1 .. n : h[i] = history[i]
    BY <1>1, <1>2, <1>3, <2>2, <2>3
  <2> QED BY <1>2, <1>3, <1>8, <2>3, <2>4
<1>10. g \in Seq(Message) /\ Len(g) = n /\ \A i \in 1 .. n : g[i] = history[i]
  <2>1. \A i \in 1 .. n : history[i] \in Message
    <3>1. history \in [1 .. k -> Message]
      BY <1>1, <1>2
    <3>2. \A i \in 1 .. n : i \in 1 .. k
      BY <1>3
    <3> QED BY <3>1, <3>2, Zenon
  <2>2. g \in [1 .. n -> Message]
    BY <1>5, <2>1
  <2>3. g \in Seq(Message) /\ Len(g) = n
    BY <2>2
  <2> QED BY <1>5, <2>3
<1>11. history[n + 1].parts = old /\ Len(history) = n + 1
  BY <1>2, <1>3
<1>12. Numbered(Rq!FlattenSeq(PartsOf(g)), 0) /\ Numbered(old, Len(Rq!FlattenSeq(PartsOf(g))))
  <2>1. \A i \in 1 .. n : history[i] = g[i]
    BY <1>10
  <2> QED BY <1>1, <1>10, <1>11, <2>1, LastNumbered
<1>13. PICK from \in Nat : from = Len(Rq!FlattenSeq(PartsOf(g)))
  <2>1. Joinable(PartsOf(g), Len(g), Rq!StoredPart)
    BY <1>10, PartLists, Zenon
  <2>2. Rq!FlattenSeq(PartsOf(g)) \in Seq(Rq!StoredPart)
    BY <2>1, Flat
  <2> QED BY <2>2
<1>14. Rq!NextId = from + Len(old) + 1
  <2>1. Rq!FlattenSeq(PartsOf(history)) = Rq!FlattenSeq(PartsOf(g)) \o old
    <3>1. Joinable(PartsOf(history), n + 1, Rq!StoredPart)
      <4>1. Joinable(PartsOf(history), Len(history), Rq!StoredPart)
        BY <1>1, PartLists, Zenon
      <4> QED BY <1>11, <4>1
    <3>2. Joinable(PartsOf(g), n, Rq!StoredPart)
      <4>1. Joinable(PartsOf(g), Len(g), Rq!StoredPart)
        BY <1>10, PartLists, Zenon
      <4> QED BY <1>10, <4>1
    <3>3. Extends(PartsOf(history), PartsOf(g), n)
      <4>1. \A i \in 1 .. n : i \in DOMAIN history /\ i \in DOMAIN g
        BY <1>1, <1>10, <1>11
      <4> QED BY <1>10, <4>1 DEF Extends, PartsOf
    <3>4. Rq!FlattenSeq(PartsOf(history)) = Rq!FlattenSeq(PartsOf(g)) \o PartsOf(history)[n + 1]
      BY <3>1, <3>2, <3>3, FlatLast
    <3>5. n + 1 \in DOMAIN history
      BY <1>1, <1>11
    <3>6. PartsOf(history)[n + 1] = old
      BY <1>11, <3>5 DEF PartsOf
    <3> QED BY <3>4, <3>6
  <2>2. old \in Seq(Rq!StoredPart)
    BY <1>6, <1>2, <1>3, <1>11 DEF Message
  <2>3. Rq!FlattenSeq(PartsOf(g)) \in Seq(Rq!StoredPart)
    <3>1. Joinable(PartsOf(g), Len(g), Rq!StoredPart)
      BY <1>10, PartLists, Zenon
    <3> QED BY <3>1, Flat
  <2>4. Len(Rq!FlattenSeq(PartsOf(history))) = from + Len(old)
    BY <1>13, <2>1, <2>2, <2>3, Concat
  <2>5. Rq!NextId = Len(Rq!FlattenSeq(PartsOf(history))) + 1
    BY Zenon DEF Rq!NextId, PartsOf
  <2> QED BY <2>4, <2>5
<1>15. Numbered(ps, from)
  BY <1>12, <1>13, <1>14
<1>16. Numbered(Rq!FlattenSeq(PartsOf(h)), 0)
  <2>1. \A i \in 1 .. n : h[i] = g[i]
    BY <1>9, <1>10
  <2> QED BY <1>9, <1>10, <1>12, <1>13, <1>15, <2>1, LastNumbered
<1>17. history' = h
  BY <1>2, <1>4
<1> QED BY <1>9, <1>16, <1>17

\* Prompts, answers, parts and tools that end keep the numbers.
LEMMA HistoryNext == HistoryInv /\ [Rq!Next]_(Rq!vars) => HistoryInv'
<1> SUFFICES ASSUME HistoryInv, [Rq!Next]_(Rq!vars) PROVE HistoryInv'
  OBVIOUS
<1>1. /\ history \in Seq(Message) /\ agent \in Rq!Agents /\ model \in Models
      /\ agentsMD \subseteq 0 .. Rq!Depth
  BY DEF HistoryInv, Rq!TypeOK, Message
<1>2. ASSUME history' \in Seq(Message), Numbered(Rq!FlattenSeq(PartsOf(history')), 0),
             agent' \in Rq!Agents, UNCHANGED <<model, agentsMD>>
      PROVE  HistoryInv'
  <2>1. Rq!TypeOK'
    BY <1>1, <1>2 DEF Rq!TypeOK, Message
  <2> QED BY <1>2, <2>1 DEF HistoryInv, PartsOf
<1>3. Rq!NextId - 1 \in Nat /\ Rq!NextId \in Nat
  <2>1. Joinable(PartsOf(history), Len(history), Rq!StoredPart)
    BY <1>1, PartLists, Zenon
  <2>2. Rq!FlattenSeq(PartsOf(history)) \in Seq(Rq!StoredPart)
    BY <2>1, Flat
  <2>3. Rq!NextId = Len(Rq!FlattenSeq(PartsOf(history))) + 1
    BY Zenon DEF Rq!NextId, PartsOf
  <2> QED BY <2>2, <2>3
<1>4. ASSUME NEW kinds \in Seq(Rq!PartKinds)
      PROVE  Rq!Number(kinds, Rq!NextId) \in Seq(Rq!StoredPart)
             /\ Numbered(Rq!Number(kinds, Rq!NextId), Rq!NextId - 1)
             /\ Len(Rq!Number(kinds, Rq!NextId)) = Len(kinds)
  <2>1. PICK from \in Nat : Rq!NextId = from + 1
    BY <1>3
  <2>2. PICK ps : ps = [i \in 1 .. Len(kinds) |-> [kind |-> kinds[i], id |-> from + 1 + i - 1]]
    OBVIOUS
  <2>3. Rq!Number(kinds, Rq!NextId) = ps
    BY <2>1, <2>2 DEF Rq!Number
  <2>4. \A i \in 1 .. Len(kinds) : from + 1 + i - 1 = from + i /\ from + i \in Nat /\ kinds[i] \in Rq!PartKinds
    BY <2>1
  <2>5. ps \in Seq(Rq!StoredPart) /\ Len(ps) = Len(kinds)
    BY <2>2, <2>4 DEF Rq!StoredPart
  <2>6. \A i \in 1 .. Len(kinds) : ps[i].id = from + i
    BY <2>2, <2>4
  <2>7. Rq!NextId - 1 = from
    BY <2>1
  <2> QED BY <2>3, <2>5, <2>6, <2>7 DEF Numbered
<1>5. ASSUME NEW a \in Rq!Agents, NEW kinds, Rq!Prompt(a, kinds),
             kinds \in {<<"text">>, <<"image", "text">>, <<"file", "broken", "blank">>}
      PROVE  HistoryInv'
  <2>1. kinds \in Seq(Rq!PartKinds)
    <3>1. <<"text">> \in Seq(Rq!PartKinds)
      BY DEF Rq!PartKinds, Rq!UserKinds
    <3>2. <<"image", "text">> \in Seq(Rq!PartKinds)
      BY DEF Rq!PartKinds, Rq!UserKinds
    <3>3. <<"file", "broken", "blank">> \in Seq(Rq!PartKinds)
      BY DEF Rq!PartKinds, Rq!UserKinds
    <3> QED BY <1>5, <3>1, <3>2, <3>3
  <2>2. PICK ps \in Seq(Rq!StoredPart) : ps = Rq!Number(kinds, Rq!NextId) /\ Numbered(ps, Rq!NextId - 1)
    BY <1>4, <2>1
  <2>3. PICK m : m = [role |-> "user", agent |-> a, parts |-> ps]
    OBVIOUS
  <2>4. m \in Message /\ m.parts = ps
    BY <2>3 DEF Message
  <2>5. history' = Append(history, m) /\ agent' = a /\ UNCHANGED <<model, agentsMD>>
    BY <1>5, <2>2, <2>3 DEF Rq!Prompt
  <2>6. history' \in Seq(Message) /\ Numbered(Rq!FlattenSeq(PartsOf(history')), 0)
    BY <2>2, <2>4, <2>5, MessageKeeps
  <2> QED BY <1>2, <2>5, <2>6
<1>6. CASE Rq!Answer
  <2>1. PICK m : m = [role |-> "assistant", agent |-> agent, parts |-> <<>>]
    OBVIOUS
  <2>2. m \in Message /\ m.parts = <<>>
    BY <1>1, <2>1 DEF Message
  <2>3. Numbered(m.parts, Rq!NextId - 1)
    BY <2>2 DEF Numbered
  <2>4. history' = Append(history, m) /\ UNCHANGED <<agent, model, agentsMD>>
    BY <1>6, <2>1 DEF Rq!Answer
  <2>5. history' \in Seq(Message) /\ Numbered(Rq!FlattenSeq(PartsOf(history')), 0)
    BY <2>2, <2>3, <2>4, MessageKeeps
  <2> QED BY <1>1, <1>2, <2>4, <2>5
<1>7. ASSUME Rq!Open
      PROVE  /\ history[Len(history)] \in Message
             /\ history[Len(history)].parts \in Seq(Rq!StoredPart)
             /\ Rq!Last(history) = history[Len(history)]
  <2>1. history # <<>> /\ Len(history) \in 1 .. Len(history)
    BY <1>1, <1>7 DEF Rq!Open
  <2>2. history[Len(history)] \in Message
    BY <1>1, <2>1
  <2> QED BY <2>2 DEF Message, Rq!Last
<1>8. ASSUME NEW kind \in Rq!ReplyKinds, Rq!AddPart(kind) PROVE HistoryInv'
  <2>1. Rq!Open
    BY <1>8 DEF Rq!AddPart
  <2>2. PICK old \in Seq(Rq!StoredPart) : old = history[Len(history)].parts
    BY <1>7, <2>1
  <2>3. <<kind>> \in Seq(Rq!PartKinds) /\ Len(<<kind>>) = 1
    BY DEF Rq!PartKinds
  <2>4. PICK new \in Seq(Rq!StoredPart) :
          new = Rq!Number(<<kind>>, Rq!NextId) /\ Numbered(new, Rq!NextId - 1) /\ Len(new) = 1
    <3>1. /\ Rq!Number(<<kind>>, Rq!NextId) \in Seq(Rq!StoredPart)
          /\ Numbered(Rq!Number(<<kind>>, Rq!NextId), Rq!NextId - 1)
          /\ Len(Rq!Number(<<kind>>, Rq!NextId)) = Len(<<kind>>)
      BY <1>4, <2>3, Zenon
    <3> QED BY <2>3, <3>1, Zenon
  <2>5. PICK ps \in Seq(Rq!StoredPart) : ps = old \o new
    <3>1. old \o new \in Seq(Rq!StoredPart)
      OBVIOUS
    <3> QED BY <3>1
  <2>6. history' = [history EXCEPT ![Len(history)].parts = ps] /\ UNCHANGED <<agent, model, agentsMD>>
    BY <1>8, <2>2, <2>4, <2>5 DEF Rq!AddPart
  <2>7. ASSUME NEW from \in Nat, Numbered(old, from), Rq!NextId = from + Len(old) + 1
        PROVE  Numbered(ps, from)
    <3>1. PICK k \in Nat : k = Len(old) /\ Rq!NextId - 1 = from + k
      BY <2>7
    <3>2. Len(ps) = k + 1 /\ ps[k + 1] = new[1] /\ \A j \in 1 .. k : ps[j] = old[j]
      <4>1. Len(new) = 1 /\ new \in Seq(Rq!StoredPart) /\ 1 \in 1 .. 1
        BY <2>4
      <4>2. /\ Len(ps) = Len(old) + Len(new) /\ \A j \in 1 .. Len(old) : ps[j] = old[j]
            /\ \A j \in 1 .. Len(new) : ps[Len(old) + j] = new[j]
        BY <2>2, <2>5, <4>1, Concat
      <4> QED BY <3>1, <4>1, <4>2
    <3>3. new[1].id = from + k + 1
      BY <2>4, <3>1 DEF Numbered
    <3>4. \A j \in 1 .. k : old[j].id = from + j
      BY <2>7, <3>1 DEF Numbered
    <3>5. \A j \in 1 .. k + 1 : ps[j].id = from + j
      <4> SUFFICES ASSUME NEW j \in 1 .. k + 1 PROVE ps[j].id = from + j
        OBVIOUS
      <4>1. CASE j = k + 1
        <5>1. from + k + 1 = from + j
          BY <4>1
        <5> QED BY <3>2, <3>3, <4>1, <5>1
      <4>2. CASE j # k + 1
        <5>1. j \in 1 .. k
          BY <4>2
        <5> QED BY <3>2, <3>4, <5>1
      <4> QED BY <4>1, <4>2
    <3> QED BY <3>2, <3>5 DEF Numbered
  <2>8. history' \in Seq(Message) /\ Numbered(Rq!FlattenSeq(PartsOf(history')), 0)
    BY <2>1, <2>2, <2>6, <2>7, PartsKeep
  <2> QED BY <1>1, <1>2, <2>6, <2>8
<1>9. ASSUME NEW i \in 1 .. MaxParts, NEW status \in Rq!Finished, Rq!ToolEnds(i, status)
      PROVE  HistoryInv'
  <2>1. Rq!Open
    BY <1>9 DEF Rq!ToolEnds
  <2>2. PICK old \in Seq(Rq!StoredPart) : old = history[Len(history)].parts
    BY <1>7, <2>1
  <2>3. i \in DOMAIN old
    BY <1>7, <1>9, <2>1, <2>2 DEF Rq!ToolEnds
  <2>4. PICK ps : ps = [old EXCEPT ![i].kind = status]
    OBVIOUS
  <2>5. ps \in Seq(Rq!StoredPart) /\ Len(ps) = Len(old) /\ \A j \in 1 .. Len(old) : ps[j].id = old[j].id
    <3>1. old[i] \in Rq!StoredPart
      BY <2>2, <2>3
    <3>2. PICK p : p = [old[i] EXCEPT !.kind = status]
      OBVIOUS
    <3>3. p \in Rq!StoredPart /\ p.id = old[i].id
      BY <3>1, <3>2 DEF Rq!StoredPart, Rq!PartKinds
    <3>4. ps = [old EXCEPT ![i] = p]
      BY <2>4, <3>2
    <3> QED BY <2>2, <2>3, <3>3, <3>4
  <2>6. history' = [history EXCEPT ![Len(history)].parts = ps] /\ UNCHANGED <<agent, model, agentsMD>>
    <3>1. history' = [history EXCEPT ![Len(history)].parts[i].kind = status]
          /\ UNCHANGED <<agent, model, agentsMD>>
      BY <1>9 DEF Rq!ToolEnds
    <3>2. [history EXCEPT ![Len(history)].parts[i].kind = status]
            = [history EXCEPT ![Len(history)].parts = [history[Len(history)].parts EXCEPT ![i].kind = status]]
      OBVIOUS
    <3> QED BY <2>2, <2>4, <3>1, <3>2
  <2>7. \A from \in Nat : Numbered(old, from) /\ Rq!NextId = from + Len(old) + 1 => Numbered(ps, from)
    BY <2>5 DEF Numbered
  <2>8. history' \in Seq(Message) /\ Numbered(Rq!FlattenSeq(PartsOf(history')), 0)
    BY <2>1, <2>2, <2>5, <2>6, <2>7, PartsKeep
  <2> QED BY <1>1, <1>2, <2>6, <2>8
<1>10. CASE UNCHANGED Rq!vars
  BY <1>10 DEF HistoryInv, Rq!TypeOK, PartsOf, Rq!vars
<1> QED BY <1>5, <1>6, <1>8, <1>9, <1>10 DEF Rq!Next

-----------------------------------------------------------------------------
(* The messages of a request. *)

\* w is some of ps, the x-th of them at e[x].
KeptAs(w, ps, e) ==
  /\ w \in Seq(Rq!StoredPart)
  /\ \A x \in 1 .. Len(w) : e[x] \in 1 .. Len(ps) /\ w[x] = ps[e[x]]
  /\ \A x, y \in 1 .. Len(w) : e[x] = e[y] => x = y

\* OfKind keeps some of the parts, at different places and in their order.
LEMMA Kept ==
  ASSUME NEW ps \in Seq(Rq!StoredPart), NEW kinds
  PROVE  \E w, e : w = Rq!OfKind(ps, kinds) /\ KeptAs(w, ps, e)
<1>1. PICK n \in Nat : n = Len(ps)
  OBVIOUS
<1>2. \A i \in 1 .. n : ps[i] \in Rq!StoredPart
  BY <1>1
<1>3. PICK ss : ss = [i \in 1 .. n |-> IF ps[i].kind \in kinds THEN <<ps[i]>> ELSE <<>>]
  OBVIOUS
<1>4. SeqsOf(ss, n, Rq!StoredPart)
  BY <1>2, <1>3 DEF SeqsOf
<1> DEFINE formed(f) == [i \in 0 .. n |-> IF i = 0 THEN <<>> ELSE
                         f[i - 1] \o (IF ps[i].kind \in kinds THEN <<ps[i]>> ELSE <<>>)]
           kept == CHOOSE f : f = formed(f)
<1>5. ASSUME NEW f PROVE Joins(f, ss, n) <=> f = formed(f)
  <2>1. \A i \in 0 .. n : i # 0 =>
          ss[i] = IF ps[i].kind \in kinds THEN <<ps[i]>> ELSE <<>>
    BY <1>3
  <2>2. formed(f) = [i \in 0 .. n |-> IF i = 0 THEN <<>> ELSE f[i - 1] \o ss[i]]
    <3>1. \A i \in 0 .. n : (IF i = 0 THEN <<>> ELSE
                         f[i - 1] \o (IF ps[i].kind \in kinds THEN <<ps[i]>> ELSE <<>>))
             = IF i = 0 THEN <<>> ELSE f[i - 1] \o ss[i]
      BY <2>1, Zenon
    <3> QED BY <3>1, Zenon
  <2> QED BY <2>2, Zenon DEF Joins
<1>6. kept = formed(kept)
  <2>1. \E f : f = formed(f)
    BY <1>4, <1>5, Joining, Zenon
  <2> QED BY <2>1, Zenon
<1>7. Rq!OfKind(ps, kinds) = kept[n]
  BY <1>1, Zenon DEF Rq!OfKind
<1> HIDE DEF kept, formed
<1>8. PICK w, off : w = kept[n] /\ w \in Seq(Rq!StoredPart) /\ Placed(off, ss, n, w)
  <2>1. Joins(kept, ss, n)
    BY <1>5, <1>6, Zenon
  <2>2. n \in 0 .. n
    OBVIOUS
  <2> QED BY <1>4, <2>1, <2>2, Joined, Zenon
<1>9. \A x \in 1 .. Len(w) : \E i \in 1 .. n : x = off[i - 1] + 1 /\ w[x] = ps[i]
  <2> SUFFICES ASSUME NEW x \in 1 .. Len(w)
               PROVE  \E i \in 1 .. n : x = off[i - 1] + 1 /\ w[x] = ps[i]
    OBVIOUS
  <2>1. PICK i \in 1 .. n : \E j \in 1 .. Len(ss[i]) : x = off[i - 1] + j
    BY <1>8, Zenon DEF Placed
  <2>0. PICK j \in 1 .. Len(ss[i]) : x = off[i - 1] + j
    BY <2>1
  <2>2. w[off[i - 1] + j] = ss[i][j]
    BY <1>8, Zenon DEF Placed
  <2>3. ss[i] = IF ps[i].kind \in kinds THEN <<ps[i]>> ELSE <<>>
    BY <1>3
  <2>4. j = 1 /\ ss[i][1] = ps[i]
    BY <2>3
  <2> QED BY <2>0, <2>2, <2>4
<1>10. PICK e : e = [x \in 1 .. Len(w) |-> CHOOSE i \in 1 .. n : x = off[i - 1] + 1 /\ w[x] = ps[i]]
  OBVIOUS
<1>11. \A x \in 1 .. Len(w) : e[x] \in 1 .. n /\ x = off[e[x] - 1] + 1 /\ w[x] = ps[e[x]]
  BY <1>9, <1>10, Zenon
<1>13. \A x, y \in 1 .. Len(w) : e[x] = e[y] => x = y
  BY <1>11, Zenon
<1>14. KeptAs(w, ps, e)
  BY <1>1, <1>8, <1>11, <1>13, Zenon DEF KeptAs
<1> QED BY <1>7, <1>8, <1>14, Zenon

\* The identities of some of a message's parts are those of different parts of it.
IdsAs(ids, ps, e) ==
  /\ ids \in Seq(Nat)
  /\ \A x \in 1 .. Len(ids) : e[x] \in 1 .. Len(ps) /\ ids[x] = ps[e[x]].id
  /\ \A x, y \in 1 .. Len(ids) : e[x] = e[y] => x = y

LEMMA IdsOfParts ==
  ASSUME NEW ps \in Seq(Rq!StoredPart), NEW kinds
  PROVE  \E ids, e : ids = Rq!Ids(ps, kinds) /\ IdsAs(ids, ps, e)
<1>1. PICK w, e : w = Rq!OfKind(ps, kinds) /\ KeptAs(w, ps, e)
  BY Kept
<1>2. /\ w \in Seq(Rq!StoredPart)
      /\ \A x \in 1 .. Len(w) : e[x] \in 1 .. Len(ps) /\ w[x] = ps[e[x]]
      /\ \A x, y \in 1 .. Len(w) : e[x] = e[y] => x = y
  BY <1>1, Zenon DEF KeptAs
<1>3. PICK n \in Nat : n = Len(w) /\ DOMAIN w = 1 .. n
  BY <1>2
<1>4. PICK ids : ids = [i \in 1 .. n |-> w[i].id]
  OBVIOUS
<1>5. Rq!Ids(ps, kinds) = ids
  <2>1. Rq!Ids(ps, kinds) = [i \in DOMAIN Rq!OfKind(ps, kinds) |-> Rq!OfKind(ps, kinds)[i].id]
    BY Zenon DEF Rq!Ids
  <2>2. Rq!Ids(ps, kinds) = [i \in DOMAIN w |-> w[i].id]
    BY <1>1, <2>1
  <2>3. DOMAIN w = 1 .. n
    BY <1>3
  <2>4. [i \in DOMAIN w |-> w[i].id] = [i \in 1 .. n |-> w[i].id]
    BY <2>3, Zenon
  <2> QED BY <1>4, <2>2, <2>4, Zenon
<1>6. \A i \in 1 .. n : w[i].id \in Nat
  <2>1. \A i \in 1 .. Len(w) : w[i] \in Rq!StoredPart
    <3>1. w \in Seq(Rq!StoredPart)
      BY <1>2
    <3> QED BY <3>1
  <2>2. \A p \in Rq!StoredPart : p.id \in Nat
    BY DEF Rq!StoredPart
  <2> QED BY <1>3, <2>1, <2>2, Zenon
<1>7. ids \in [1 .. n -> Nat]
  BY <1>4, <1>6, Zenon
<1>8. ids \in Seq(Nat) /\ Len(ids) = n
  BY <1>7
<1>9. \A x \in 1 .. n : ids[x] = ps[e[x]].id
  BY <1>2, <1>3, <1>4
<1>10. IdsAs(ids, ps, e)
  BY <1>2, <1>3, <1>8, <1>9, Zenon DEF IdsAs
<1> QED BY <1>5, <1>10, Zenon

\* The calls the i-th message answers.
Calls(i) == Rq!Ids(Rq!LoadHistory[i].parts, Rq!Finished)

\* loadHistory leaves well-formed messages, and no call is in it twice.
LEMMA Loaded ==
  ASSUME HistoryInv
  PROVE  /\ Rq!LoadHistory \in Seq(Message) /\ Len(Rq!LoadHistory) = Len(history)
         /\ \A i, k \in 1 .. Len(history) : \A x \in 1 .. Len(Calls(i)), y \in 1 .. Len(Calls(k)) :
              Calls(i)[x] = Calls(k)[y] => i = k /\ x = y
<1>1. history \in Seq(Message) /\ Numbered(Rq!FlattenSeq(PartsOf(history)), 0)
  BY DEF HistoryInv, Rq!TypeOK, Message
<1>2. PICK n \in Nat : n = Len(history) /\ DOMAIN history = 1 .. n
  BY <1>1
<1>3. PICK kinds : kinds = Rq!PartKinds \ {"note"}
  OBVIOUS
<1>4. PICK h : h = [i \in 1 .. n |-> [history[i] EXCEPT !.parts = Rq!OfKind(history[i].parts, kinds)]]
  OBVIOUS
<1>5. Rq!LoadHistory = h
  BY <1>2, <1>3, <1>4 DEF Rq!LoadHistory
<1>6. ASSUME NEW i \in 1 .. n
      PROVE  /\ history[i].parts \in Seq(Rq!StoredPart) /\ h[i] \in Message
             /\ h[i].parts = Rq!OfKind(history[i].parts, kinds)
  <2>1. history[i] \in Message
    BY <1>1, <1>2
  <2>2. history[i].parts \in Seq(Rq!StoredPart)
    BY <2>1 DEF Message
  <2>3. PICK ps \in Seq(Rq!StoredPart) : ps = Rq!OfKind(history[i].parts, kinds)
    BY <2>2, Kept DEF KeptAs
  <2>4. h[i] = [history[i] EXCEPT !.parts = ps]
    BY <1>4, <2>3
  <2> QED BY <2>1, <2>2, <2>3, <2>4 DEF Message
<1>7. h \in Seq(Message) /\ Len(h) = n
  BY <1>4, <1>6
<1>8. Joinable(PartsOf(history), n, Rq!StoredPart)
  BY <1>1, <1>2, PartLists
<1>9. SeqsOf(PartsOf(history), n, Rq!StoredPart)
  BY <1>8 DEF Joinable
<1>10. PICK off : Placed(off, PartsOf(history), n, Rq!FlattenSeq(PartsOf(history)))
  BY <1>8, Flat
<1>11. ASSUME NEW i \in 1 .. n, NEW j \in 1 .. Len(history[i].parts)
       PROVE  history[i].parts[j].id = off[i - 1] + j /\ PartsOf(history)[i] = history[i].parts
  <2>1. PartsOf(history)[i] = history[i].parts
    BY <1>2 DEF PartsOf
  <2>2. PICK w : w = Rq!FlattenSeq(PartsOf(history))
    OBVIOUS
  <2>3. w[off[i - 1] + j] = history[i].parts[j]
    <3>1. j \in 1 .. Len(PartsOf(history)[i])
      BY <2>1
    <3>2. w[off[i - 1] + j] = PartsOf(history)[i][j]
      BY <1>10, <2>2, <3>1, Zenon DEF Placed
    <3> QED BY <2>1, <3>2
  <2>4. off[i - 1] + j \in 1 .. Len(w)
    <3>1. /\ off \in [0 .. n -> Nat] /\ off[i] = off[i - 1] + Len(PartsOf(history)[i])
          /\ Len(w) = off[n] /\ \A a, b \in 0 .. n : a =< b => off[a] =< off[b]
      BY <1>10, <2>2, Zenon DEF Placed
    <3>2. i \in 0 .. n /\ i - 1 \in 0 .. n /\ n \in 0 .. n /\ i =< n
      OBVIOUS
    <3>3. PICK x \in Nat, y \in Nat, z \in Nat : x = off[i - 1] /\ y = off[i] /\ z = off[n]
      BY <3>1, <3>2
    <3>4. y =< z
      BY <3>1, <3>2, <3>3, Zenon
    <3>5. PICK a \in Nat : a = Len(history[i].parts)
      BY <1>6
    <3>6. y = x + a /\ Len(w) = z /\ j \in 1 .. a
      BY <2>1, <3>1, <3>3, <3>5
    <3>7. x + j \in 1 .. z
      BY <3>4, <3>6
    <3> QED BY <3>3, <3>6, <3>7
  <2>5. \A p \in 1 .. Len(w) : w[p].id = 0 + p
    BY <1>1, <2>2 DEF Numbered
  <2>6. w[off[i - 1] + j].id = 0 + (off[i - 1] + j)
    BY <2>4, <2>5, Zenon
  <2>7. 0 + (off[i - 1] + j) = off[i - 1] + j
    BY <2>4
  <2> QED BY <2>1, <2>3, <2>6, <2>7
\* Each call is that of a part, another for each call.
<1>12. ASSUME NEW i \in 1 .. n PROVE \E e : IdsAs(Calls(i), history[i].parts, e)
  <2>1. PICK ps \in Seq(Rq!StoredPart) : ps = history[i].parts
    BY <1>6
  <2>2. PICK qs, d : qs = Rq!OfKind(ps, kinds) /\ KeptAs(qs, ps, d)
    BY Kept
  <2>3. qs \in Seq(Rq!StoredPart) /\ h[i].parts = qs
    BY <1>6, <2>1, <2>2 DEF KeptAs
  <2>4. PICK cs, c : cs = Rq!Ids(qs, Rq!Finished) /\ IdsAs(cs, qs, c)
    BY <2>3, IdsOfParts
  <2>5. cs = Calls(i)
    BY <1>5, <2>3, <2>4, Zenon DEF Calls
  <2>6. PICK e : e = [x \in 1 .. Len(cs) |-> d[c[x]]]
    OBVIOUS
  <2>7. \A x \in 1 .. Len(cs) : c[x] \in 1 .. Len(qs) /\ e[x] = d[c[x]] /\ cs[x] = qs[c[x]].id
    <3>1. \A x \in 1 .. Len(cs) : c[x] \in 1 .. Len(qs) /\ cs[x] = qs[c[x]].id
      BY <2>4, Zenon DEF IdsAs
    <3>2. \A x \in 1 .. Len(cs) : e[x] = d[c[x]]
      BY <2>6
    <3> QED BY <3>1, <3>2, Zenon
  <2>8. \A x \in 1 .. Len(cs) : e[x] \in 1 .. Len(ps) /\ cs[x] = ps[e[x]].id
    <3>1. \A x \in 1 .. Len(qs) : d[x] \in 1 .. Len(ps) /\ qs[x] = ps[d[x]]
      BY <2>2, Zenon DEF KeptAs
    <3>2. ASSUME NEW x \in 1 .. Len(cs) PROVE e[x] \in 1 .. Len(ps) /\ cs[x] = ps[e[x]].id
      <4>1. c[x] \in 1 .. Len(qs) /\ e[x] = d[c[x]] /\ cs[x] = qs[c[x]].id
        BY <2>7
      <4>2. d[c[x]] \in 1 .. Len(ps) /\ qs[c[x]] = ps[d[c[x]]]
        BY <3>1, <4>1, Zenon
      <4> QED BY <4>1, <4>2, Zenon
    <3> QED BY <3>2, Zenon
  <2>9. \A x, y \in 1 .. Len(cs) : e[x] = e[y] => x = y
    <3>1. \A x, y \in 1 .. Len(qs) : d[x] = d[y] => x = y
      BY <2>2, Zenon DEF KeptAs
    <3>2. \A x, y \in 1 .. Len(cs) : c[x] = c[y] => x = y
      BY <2>4, Zenon DEF IdsAs
    <3>3. ASSUME NEW x \in 1 .. Len(cs), NEW y \in 1 .. Len(cs), e[x] = e[y] PROVE x = y
      <4>1. c[x] \in 1 .. Len(qs) /\ c[y] \in 1 .. Len(qs) /\ d[c[x]] = d[c[y]]
        BY <2>7, <3>3
      <4>2. c[x] = c[y]
        BY <3>1, <4>1, Zenon
      <4> QED BY <3>2, <4>2, Zenon
    <3> QED BY <3>3, Zenon
  <2>10. cs \in Seq(Nat)
    BY <2>4, Zenon DEF IdsAs
  <2>11. IdsAs(cs, ps, e)
    BY <2>8, <2>9, <2>10, Zenon DEF IdsAs
  <2> QED BY <2>1, <2>5, <2>11, Zenon
<1>14. ASSUME NEW i \in 1 .. n, NEW k \in 1 .. n, NEW j \in 1 .. Len(PartsOf(history)[i]),
              NEW l \in 1 .. Len(PartsOf(history)[k]), off[i - 1] + j = off[k - 1] + l
       PROVE  i = k /\ j = l
  BY <1>9, <1>10, <1>14, OnePlace
<1>13. ASSUME NEW i \in 1 .. n, NEW k \in 1 .. n,
              NEW x \in 1 .. Len(Calls(i)), NEW y \in 1 .. Len(Calls(k)), Calls(i)[x] = Calls(k)[y]
       PROVE  i = k /\ x = y
  <2>0. PICK e : IdsAs(Calls(i), history[i].parts, e)
    BY <1>12
  <2>1. /\ \A z \in 1 .. Len(Calls(i)) :
             e[z] \in 1 .. Len(history[i].parts) /\ Calls(i)[z] = history[i].parts[e[z]].id
        /\ \A a, b \in 1 .. Len(Calls(i)) : e[a] = e[b] => a = b
    BY <2>0, Zenon DEF IdsAs
  <2>12. PICK g : IdsAs(Calls(k), history[k].parts, g)
    BY <1>12
  <2>2. \A z \in 1 .. Len(Calls(k)) :
          g[z] \in 1 .. Len(history[k].parts) /\ Calls(k)[z] = history[k].parts[g[z]].id
    BY <2>12, Zenon DEF IdsAs
  <2>3. PICK j \in 1 .. Len(history[i].parts) : j = e[x] /\ Calls(i)[x] = off[i - 1] + j
                                                /\ PartsOf(history)[i] = history[i].parts
    BY <1>11, <2>1, Zenon
  <2>4. PICK l \in 1 .. Len(history[k].parts) : l = g[y] /\ Calls(k)[y] = off[k - 1] + l
                                                /\ PartsOf(history)[k] = history[k].parts
    BY <1>11, <2>2, Zenon
  <2>5. j \in 1 .. Len(PartsOf(history)[i]) /\ l \in 1 .. Len(PartsOf(history)[k])
        /\ off[i - 1] + j = off[k - 1] + l
    <3>1. j \in 1 .. Len(PartsOf(history)[i])
      BY <2>3, Zenon
    <3>2. l \in 1 .. Len(PartsOf(history)[k])
      BY <2>4, Zenon
    <3>3. off[i - 1] + j = Calls(i)[x] /\ Calls(i)[x] = Calls(k)[y] /\ Calls(k)[y] = off[k - 1] + l
      BY <1>13, <2>3, <2>4, Zenon
    <3> QED BY <3>1, <3>2, <3>3, Zenon
  <2>6. i = k /\ j = l
    BY <1>14, <2>5
  <2>7. y \in 1 .. Len(Calls(i)) /\ Calls(i)[x] = Calls(i)[y]
    BY <1>13, <2>6
  <2>8. PICK m \in 1 .. Len(history[i].parts) : m = e[y] /\ Calls(i)[y] = off[i - 1] + m
    BY <1>11, <2>1, <2>7, Zenon
  <2>9. m \in 1 .. Len(PartsOf(history)[i]) /\ off[i - 1] + j = off[i - 1] + m
    BY <2>3, <2>7, <2>8, Zenon
  <2>10. j = m
    BY <1>14, <2>5, <2>9
  <2> QED BY <2>1, <2>3, <2>6, <2>7, <2>8, <2>10, Zenon
<1> QED BY <1>2, <1>5, <1>7, <1>13

\* The texts of a request: parts by their number, the system prompts and reminders by name.
Words == {"muse", "gpt-4", "gpt", "gemini-", "claude", "trinity", "kimi", "default", "env",
          "plan", "build-switch"}
Text == Nat \union Words
Sent == [role : {"system", "user", "assistant", "tool"}, content : Seq(Text), media : Seq(Text),
         calls : Seq(Text), answers : Seq(Text)]

\* What a message of each role holds.
Shaped(m) ==
  /\ m \in Sent
  /\ m.role = "system" => Len(m.content) = 1 /\ m.media = <<>> /\ m.calls = <<>> /\ m.answers = <<>>
  /\ m.role = "user" => m.calls = <<>> /\ m.answers = <<>>
  /\ m.role = "assistant" => m.media = <<>> /\ m.answers = <<>>
  /\ m.role = "tool" =>
       Len(m.answers) = 1 /\ m.content = m.answers /\ m.media = <<>> /\ m.calls = <<>>

\* The messages of one that is stored: a prompt, or an answer and what answers its calls.
Turned(c, ids) ==
  /\ c \in Seq(Sent)
  /\ \A j \in 1 .. Len(c) : Shaped(c[j])
  /\ c # <<>> => c[1].role \in {"user", "assistant"} /\ Len(c) = Len(c[1].calls) + 1
  /\ c # <<>> => c[1].calls = <<>> \/ c[1].calls = ids
  /\ \A j \in 2 .. Len(c) : c[j].role = "tool" /\ c[j].answers = <<c[1].calls[j - 1]>>

\* Every call is answered at its place after the one that calls, and nothing else is.
Talk(ms, is) ==
  /\ \A m \in is : Shaped(ms[m])
  /\ \A m \in is : \A t \in 1 .. Len(ms[m].calls) :
       m + t \in is /\ ms[m + t].role = "tool" /\ ms[m + t].answers = <<ms[m].calls[t]>>
  /\ \A m \in is : ms[m].role = "tool" => \E a \in is : \E t \in 1 .. Len(ms[a].calls) : m = a + t
  /\ \A l, m \in is :
       ms[l].role = "tool" /\ ms[m].role = "tool" /\ ms[l].answers = ms[m].answers => l = m
Dialogue(ms) == ms \in Seq(Sent) /\ Talk(ms, 1 .. Len(ms))

LEMMA Numbers == ASSUME NEW s \in Seq(Nat) PROVE s \in Seq(Text)
BY DEF Text

LEMMA IdsAreTexts ==
  ASSUME NEW m \in Message, NEW kinds
  PROVE  Rq!Ids(m.parts, kinds) \in Seq(Text)
<1>1. m.parts \in Seq(Rq!StoredPart)
  BY DEF Message
<1>2. Rq!Ids(m.parts, kinds) \in Seq(Nat)
  BY <1>1, IdsOfParts DEF IdsAs
<1> QED BY <1>2, Numbers

\* A prompt becomes a message that calls nothing.
LEMMA UserTurned ==
  ASSUME NEW m \in Message, NEW reminders \in Seq(Text), NEW ids
  PROVE  Turned(<<Rq!UserMessage(m, reminders)>>, ids)
<1>1. PICK content \in Seq(Text) :
        content = Rq!Ids(m.parts, {"file", "broken"}) \o Rq!Ids(m.parts, {"text"}) \o reminders
  <2>1. PICK a \in Seq(Text) : a = Rq!Ids(m.parts, {"file", "broken"})
    BY IdsAreTexts
  <2>2. PICK b \in Seq(Text) : b = Rq!Ids(m.parts, {"text"})
    BY IdsAreTexts
  <2>3. a \o b \o reminders \in Seq(Text)
    OBVIOUS
  <2> QED BY <2>1, <2>2, <2>3
<1>2. PICK media \in Seq(Text) : media = Rq!Ids(m.parts, {"image"})
  BY IdsAreTexts
<1>3. PICK x : x = [role |-> "user", content |-> content, media |-> media, calls |-> <<>>, answers |-> <<>>]
  OBVIOUS
<1>4. Rq!UserMessage(m, reminders) = x
  BY <1>1, <1>2, <1>3 DEF Rq!UserMessage, Rq!Message
<1>5. x \in Sent /\ x.role = "user" /\ x.calls = <<>> /\ x.answers = <<>>
  BY <1>3 DEF Sent
<1>6. Shaped(x)
  BY <1>5 DEF Shaped
<1>7. <<x>> \in Seq(Sent) /\ Len(<<x>>) = 1 /\ <<x>>[1] = x /\ Len(<<>>) = 0
  BY <1>5
<1> HIDE DEF Turned
<1>8. PICK c : c = <<x>>
  OBVIOUS
<1>9. c \in Seq(Sent) /\ Len(c) = 1 /\ c[1] = x
  BY <1>7, <1>8
<1>10. Turned(c, ids)
  BY <1>5, <1>6, <1>9 DEF Turned
<1> QED BY <1>4, <1>8, <1>10

\* An answer becomes nothing, or one message followed by an answer to each of its calls.
LEMMA ReplyTurned ==
  ASSUME NEW m \in Message
  PROVE  Turned(Rq!ReplyMessages(m), Rq!Ids(m.parts, Rq!Finished))
<1>1. PICK texts \in Seq(Text) : texts = Rq!Ids(m.parts, {"text"})
  BY IdsAreTexts
<1>2. PICK calls \in Seq(Text) : calls = Rq!Ids(m.parts, Rq!Finished)
  BY IdsAreTexts
<1>3. CASE texts = <<>> /\ calls = <<>>
  <2>1. Rq!ReplyMessages(m) = <<>>
    BY <1>1, <1>2, <1>3 DEF Rq!ReplyMessages
  <2>2. Turned(<<>>, calls)
    BY DEF Turned
  <2> QED BY <1>2, <2>1, <2>2
<1>4. CASE ~(texts = <<>> /\ calls = <<>>)
  <2>1. PICK n \in Nat : n = Len(calls)
    OBVIOUS
  <2>2. PICK x : x = [role |-> "assistant", content |-> texts, media |-> <<>>, calls |-> calls, answers |-> <<>>]
    OBVIOUS
  <2>3. PICK tools : tools = [i \in 1 .. n |-> [role |-> "tool", content |-> <<calls[i]>>, media |-> <<>>,
                                                calls |-> <<>>, answers |-> <<calls[i]>>]]
    OBVIOUS
  <2>4. PICK c : c = <<x>> \o tools
    OBVIOUS
  <2>5. Rq!ReplyMessages(m) = c
    <3>1. DOMAIN calls = 1 .. n
      BY <2>1
    <3> QED BY <1>1, <1>2, <1>4, <2>2, <2>3, <2>4, <3>1 DEF Rq!ReplyMessages, Rq!Message
  <2>6. x \in Sent /\ x.role = "assistant" /\ x.calls = calls /\ Shaped(x)
    BY <2>2 DEF Sent, Shaped
  <2>7. ASSUME NEW i \in 1 .. n
        PROVE  tools[i] \in Sent /\ tools[i].role = "tool" /\ tools[i].answers = <<calls[i]>> /\ Shaped(tools[i])
    <3>1. PICK t \in Text : t = calls[i]
      BY <2>1
    <3>2. tools[i] = [role |-> "tool", content |-> <<t>>, media |-> <<>>, calls |-> <<>>, answers |-> <<t>>]
      BY <2>3, <3>1
    <3>3. <<t>> \in Seq(Text) /\ Len(<<t>>) = 1 /\ <<>> \in Seq(Text)
      OBVIOUS
    <3> QED BY <3>1, <3>2, <3>3 DEF Sent, Shaped
  <2>8. tools \in Seq(Sent) /\ Len(tools) = n
    <3>1. tools \in [1 .. n -> Sent]
      BY <2>3, <2>7, Zenon
    <3> QED BY <3>1
  <2>9. <<x>> \in Seq(Sent) /\ Len(<<x>>) = 1 /\ <<x>>[1] = x
    BY <2>6
  <2>10. /\ c \in Seq(Sent) /\ Len(c) = n + 1 /\ c[1] = x
         /\ \A i \in 1 .. n : c[i + 1] = tools[i]
    <3>1. PICK y \in Seq(Sent) : y = <<x>> /\ Len(y) = 1 /\ y[1] = x
      BY <2>9
    <3>2. /\ y \o tools \in Seq(Sent) /\ Len(y \o tools) = 1 + n
          /\ \A i \in 1 .. 1 : (y \o tools)[i] = y[i]
          /\ \A i \in 1 .. n : (y \o tools)[1 + i] = tools[i]
      BY <2>8, <3>1, Concat
    <3>3. c = y \o tools
      BY <2>4, <3>1
    <3> QED BY <3>1, <3>2, <3>3
  <2>11. \A j \in 2 .. n + 1 : j - 1 \in 1 .. n /\ c[j] = tools[j - 1]
    <3> SUFFICES ASSUME NEW j \in 2 .. n + 1 PROVE j - 1 \in 1 .. n /\ c[j] = tools[j - 1]
      OBVIOUS
    <3>1. j - 1 \in 1 .. n /\ j - 1 + 1 = j
      OBVIOUS
    <3> QED BY <2>10, <3>1
  <2>12. Turned(c, calls)
    <3>1. \A j \in 1 .. n + 1 : j = 1 \/ j \in 2 .. n + 1
      OBVIOUS
    <3>2. \A j \in 1 .. Len(c) : Shaped(c[j])
      BY <2>6, <2>7, <2>10, <2>11, <3>1
    <3>3. c[1].role \in {"user", "assistant"} /\ Len(c) = Len(c[1].calls) + 1 /\ c[1].calls = calls
      BY <2>1, <2>6, <2>10
    <3>4. \A j \in 2 .. Len(c) : c[j].role = "tool" /\ c[j].answers = <<c[1].calls[j - 1]>>
      <4> SUFFICES ASSUME NEW j \in 2 .. n + 1
                   PROVE  c[j].role = "tool" /\ c[j].answers = <<c[1].calls[j - 1]>>
        BY <2>10
      <4>1. j - 1 \in 1 .. n /\ c[j] = tools[j - 1]
        BY <2>11
      <4>2. tools[j - 1].role = "tool" /\ tools[j - 1].answers = <<calls[j - 1]>>
        BY <2>7, <4>1, Zenon
      <4> QED BY <2>6, <2>10, <4>1, <4>2
    <3> QED BY <2>10, <3>2, <3>3, <3>4, Zenon DEF Turned
  <2> QED BY <1>2, <2>5, <2>12
<1> QED BY <1>3, <1>4

\* The turns of a history, and that no call is in two of them.
AllTurned(cs, ids, n) == \A i \in 1 .. n : Turned(cs[i], ids[i])
OtherCalls(ids, n) ==
  \A i, k \in 1 .. n : \A x \in 1 .. Len(ids[i]), y \in 1 .. Len(ids[k]) :
    ids[i][x] = ids[k][y] => i = k /\ x = y

\* What stands at the j-th place of a turn: who calls is first, and the rest answer.
InTurn(c, ids, j) ==
  /\ Shaped(c[j]) /\ c[j] \in Sent /\ c[j].role # "system"
  /\ c[j].role = "tool" <=> j # 1
  /\ j # 1 => j - 1 \in 1 .. Len(c[1].calls) /\ c[j].answers = <<c[1].calls[j - 1]>> /\ c[1].calls = ids
  /\ c[j].calls # <<>> => j = 1
  /\ 1 \in 1 .. Len(c) /\ Len(c) = Len(c[1].calls) + 1 /\ Len(c[1].calls) \in Nat /\ c[1] \in Sent

LEMMA TurnPart ==
  ASSUME NEW c, NEW ids, Turned(c, ids), NEW j \in 1 .. Len(c)
  PROVE  InTurn(c, ids, j)
<1>1. /\ c \in Seq(Sent)
      /\ \A i \in 1 .. Len(c) : Shaped(c[i])
      /\ c # <<>> => c[1].role \in {"user", "assistant"} /\ Len(c) = Len(c[1].calls) + 1
      /\ c # <<>> => c[1].calls = <<>> \/ c[1].calls = ids
      /\ \A i \in 2 .. Len(c) : c[i].role = "tool" /\ c[i].answers = <<c[1].calls[i - 1]>>
  BY Zenon DEF Turned
<1>2. PICK l \in Nat : l = Len(c) /\ j \in 1 .. l /\ 1 \in 1 .. l /\ c # <<>>
  BY <1>1
<1>3. c[1] \in Sent /\ c[j] \in Sent
  BY <1>1, <1>2
<1>4. PICK k \in Nat : k = Len(c[1].calls)
  BY <1>3 DEF Sent
<1>5. c[1].role \in {"user", "assistant"} /\ l = k + 1 /\ (c[1].calls = <<>> \/ c[1].calls = ids)
  BY <1>1, <1>2, <1>4, Zenon
<1>6. Shaped(c[j])
  BY <1>1, Zenon
<1>7. ASSUME j # 1
      PROVE  /\ j - 1 \in 1 .. k /\ c[j].role = "tool" /\ c[j].answers = <<c[1].calls[j - 1]>>
             /\ c[1].calls = ids /\ c[j].calls = <<>>
  <2>1. j - 1 \in 1 .. k /\ j \in 2 .. l
    BY <1>2, <1>5, <1>7
  <2>2. c[j].role = "tool" /\ c[j].answers = <<c[1].calls[j - 1]>>
    BY <1>1, <1>2, <2>1, Zenon
  <2>3. c[1].calls # <<>>
    BY <1>4, <2>1
  <2>4. c[j].calls = <<>>
    BY <1>6, <2>2 DEF Shaped
  <2> QED BY <1>5, <2>1, <2>2, <2>3, <2>4
<1>8. c[j].role # "system" /\ (c[j].role = "tool" <=> j # 1)
  BY <1>5, <1>7
<1>9. j # 1 => j - 1 \in 1 .. Len(c[1].calls) /\ c[j].answers = <<c[1].calls[j - 1]>> /\ c[1].calls = ids
  BY <1>4, <1>7
<1>10. c[j].calls # <<>> => j = 1
  BY <1>7
<1>11. 1 \in 1 .. Len(c) /\ Len(c) = Len(c[1].calls) + 1 /\ Len(c[1].calls) \in Nat
  BY <1>2, <1>4, <1>5
<1> QED BY <1>3, <1>6, <1>8, <1>9, <1>10, <1>11, Zenon DEF InTurn

\* Where the j-th of the i-th sequence comes to stand.
Spots(off, ss, n, w) ==
  /\ \A i \in 1 .. n : \A j \in 1 .. Len(ss[i]) :
       off[i - 1] \in Nat /\ off[i - 1] + j \in 1 .. Len(w) /\ w[off[i - 1] + j] = ss[i][j]
  /\ \A p \in 1 .. Len(w) : \E i \in 1 .. n : \E j \in 1 .. Len(ss[i]) :
       p = off[i - 1] + j /\ w[p] = ss[i][j]

\* Placed sequences have such places.
LEMMA Spotted ==
  ASSUME NEW S, NEW n, NEW ss, SeqsOf(ss, n, S), NEW off, NEW w, Placed(off, ss, n, w)
  PROVE  Spots(off, ss, n, w)
<1>1. n \in Nat /\ \A i \in 1 .. n : Len(ss[i]) \in Nat
  BY DEF SeqsOf
<1>2. ASSUME NEW i \in 1 .. n, NEW j \in 1 .. Len(ss[i])
      PROVE  off[i - 1] \in Nat /\ off[i - 1] + j \in 1 .. Len(w) /\ w[off[i - 1] + j] = ss[i][j]
  <2>1. /\ off \in [0 .. n -> Nat] /\ off[i] = off[i - 1] + Len(ss[i])
        /\ Len(w) = off[n] /\ \A a, b \in 0 .. n : a =< b => off[a] =< off[b]
        /\ w[off[i - 1] + j] = ss[i][j]
    BY Zenon DEF Placed
  <2>2. i \in 0 .. n /\ i - 1 \in 0 .. n /\ n \in 0 .. n /\ i =< n
    BY <1>1
  <2>3. PICK x \in Nat, y \in Nat, z \in Nat : x = off[i - 1] /\ y = off[i] /\ z = off[n]
    BY <2>1, <2>2
  <2>4. y =< z
    BY <2>1, <2>2, <2>3, Zenon
  <2>5. PICK a \in Nat : a = Len(ss[i])
    BY <1>1
  <2>6. y = x + a /\ Len(w) = z /\ j \in 1 .. a
    BY <2>1, <2>3, <2>5
  <2>7. x + j \in 1 .. z
    BY <2>4, <2>6
  <2> QED BY <2>1, <2>3, <2>6, <2>7
<1>3. \A p \in 1 .. Len(w) : \E i \in 1 .. n : \E j \in 1 .. Len(ss[i]) : p = off[i - 1] + j
  BY Zenon DEF Placed
<1>4. \A p \in 1 .. Len(w) : \E i \in 1 .. n : \E j \in 1 .. Len(ss[i]) :
        p = off[i - 1] + j /\ w[p] = ss[i][j]
  <2> SUFFICES ASSUME NEW p \in 1 .. Len(w)
               PROVE  \E i \in 1 .. n : \E j \in 1 .. Len(ss[i]) : p = off[i - 1] + j /\ w[p] = ss[i][j]
    OBVIOUS
  <2>1. PICK i \in 1 .. n : \E j \in 1 .. Len(ss[i]) : p = off[i - 1] + j
    BY <1>3, Zenon
  <2>2. PICK j \in 1 .. Len(ss[i]) : p = off[i - 1] + j
    BY <2>1, Zenon
  <2>3. w[off[i - 1] + j] = ss[i][j]
    BY <1>2, Zenon
  <2>4. w[p] = ss[i][j]
    BY <2>2, <2>3, Zenon
  <2> QED BY <2>2, <2>4, Zenon
<1> QED BY <1>2, <1>4, Zenon DEF Spots

\* A turn's answer and its call, in what the turns make together.
AnswerOf(m, i, t, off, cs, ids, ms) ==
  /\ m = off[i - 1] + 1 + t /\ ms[m].answers = <<cs[i][1].calls[t]>> /\ cs[i][1].calls = ids[i]
  /\ off[i - 1] + 1 \in 1 .. Len(ms) /\ ms[off[i - 1] + 1] = cs[i][1]

\* Every tool message is the answer to a call of its own turn.
LEMMA Answering ==
  ASSUME NEW n, NEW cs, NEW ids, NEW off, NEW ms, AllTurned(cs, ids, n), Spots(off, cs, n, ms),
         NEW m \in 1 .. Len(ms), ms[m].role = "tool"
  PROVE  \E i \in 1 .. n : \E t \in 1 .. Len(cs[i][1].calls) : AnswerOf(m, i, t, off, cs, ids, ms)
<1>1. PICK i \in 1 .. n : \E j \in 1 .. Len(cs[i]) : m = off[i - 1] + j /\ ms[m] = cs[i][j]
  BY Zenon DEF Spots
<1>2. PICK j \in 1 .. Len(cs[i]) : m = off[i - 1] + j /\ ms[m] = cs[i][j]
  BY <1>1, Zenon
<1>3. InTurn(cs[i], ids[i], j)
  <2>1. Turned(cs[i], ids[i])
    BY Zenon DEF AllTurned
  <2> QED BY <2>1, TurnPart, Zenon
<1>4. j # 1
  <2>1. cs[i][j].role = "tool"
    BY <1>2, Zenon
  <2> QED BY <1>3, <2>1, Zenon DEF InTurn
<1>5. /\ j - 1 \in 1 .. Len(cs[i][1].calls) /\ cs[i][j].answers = <<cs[i][1].calls[j - 1]>>
      /\ cs[i][1].calls = ids[i] /\ 1 \in 1 .. Len(cs[i])
  BY <1>3, <1>4, Zenon DEF InTurn
<1>6. off[i - 1] + 1 \in 1 .. Len(ms) /\ ms[off[i - 1] + 1] = cs[i][1] /\ off[i - 1] \in Nat
  BY <1>5, Zenon DEF Spots
<1>7. off[i - 1] + j = off[i - 1] + 1 + (j - 1)
  <2>1. PICK x \in Nat : x = off[i - 1]
    BY <1>6, Zenon
  <2>2. x + j = x + 1 + (j - 1)
    OBVIOUS
  <2> QED BY <2>1, <2>2, Zenon
<1>8. AnswerOf(m, i, j - 1, off, cs, ids, ms)
  <2>1. ms[m].answers = <<cs[i][1].calls[j - 1]>>
    BY <1>2, <1>5, Zenon
  <2>2. m = off[i - 1] + 1 + (j - 1)
    BY <1>2, <1>7, Zenon
  <2> QED BY <1>5, <1>6, <2>1, <2>2, Zenon DEF AnswerOf
<1> QED BY <1>5, <1>8, Zenon

\* Every call is answered in its turn, at its place.
LEMMA Called ==
  ASSUME NEW n, NEW cs, NEW ids, NEW off, NEW ms, AllTurned(cs, ids, n), Spots(off, cs, n, ms),
         NEW m \in 1 .. Len(ms), NEW t \in 1 .. Len(ms[m].calls)
  PROVE  m + t \in 1 .. Len(ms) /\ ms[m + t].role = "tool" /\ ms[m + t].answers = <<ms[m].calls[t]>>
<1>1. PICK i \in 1 .. n : \E j \in 1 .. Len(cs[i]) : m = off[i - 1] + j /\ ms[m] = cs[i][j]
  BY Zenon DEF Spots
<1>2. PICK j \in 1 .. Len(cs[i]) : m = off[i - 1] + j /\ ms[m] = cs[i][j]
  BY <1>1, Zenon
<1>0. Turned(cs[i], ids[i])
  BY Zenon DEF AllTurned
<1>3. InTurn(cs[i], ids[i], j)
  BY <1>0, TurnPart, Zenon
<1>4. ms[m].calls # <<>>
  <2>1. ASSUME NEW s, s = <<>> PROVE t \notin 1 .. Len(s) \/ s # ms[m].calls
    <3>1. Len(s) = 0
      BY <2>1
    <3>2. t \notin 1 .. 0
      OBVIOUS
    <3> QED BY <3>1, <3>2
  <2> QED BY <2>1, Zenon
<1>5. j = 1
  <2>1. cs[i][j].calls # <<>>
    BY <1>2, <1>4, Zenon
  <2> QED BY <1>3, <2>1, Zenon DEF InTurn
<1>6. /\ 1 \in 1 .. Len(cs[i]) /\ Len(cs[i]) = Len(cs[i][1].calls) + 1 /\ Len(cs[i][1].calls) \in Nat
      /\ ms[m] = cs[i][1] /\ m = off[i - 1] + 1
  BY <1>2, <1>3, <1>5, Zenon DEF InTurn
<1>7. PICK k \in Nat : k = Len(cs[i][1].calls) /\ t \in 1 .. k
  BY <1>6, Zenon
<1>8. PICK u \in 1 .. Len(cs[i]) : u = t + 1 /\ u # 1 /\ u - 1 = t
  <2>1. t + 1 \in 1 .. k + 1 /\ t + 1 # 1 /\ t + 1 - 1 = t
    BY <1>7
  <2>2. Len(cs[i]) = k + 1
    BY <1>6, <1>7, Zenon
  <2> QED BY <2>1, <2>2
<1>9. InTurn(cs[i], ids[i], u)
  BY <1>0, TurnPart, Zenon
<1>10. cs[i][u].role = "tool" /\ cs[i][u].answers = <<cs[i][1].calls[t]>>
  <2>1. cs[i][u].role = "tool" /\ cs[i][u].answers = <<cs[i][1].calls[u - 1]>>
    <3>1. u # 1
      BY <1>8, Zenon
    <3> QED BY <1>9, <3>1, Zenon DEF InTurn
  <2>2. u - 1 = t
    BY <1>8, Zenon
  <2> QED BY <2>1, <2>2, Zenon
<1>11. off[i - 1] \in Nat /\ off[i - 1] + u \in 1 .. Len(ms) /\ ms[off[i - 1] + u] = cs[i][u]
  BY Zenon DEF Spots
<1>12. off[i - 1] + u = m + t
  <2>1. PICK x \in Nat : x = off[i - 1]
    BY <1>11, Zenon
  <2>2. x + u = x + 1 + t
    BY <1>7, <1>8
  <2> QED BY <1>6, <2>1, <2>2, Zenon
<1>13. m + t \in 1 .. Len(ms) /\ ms[m + t] = cs[i][u]
  BY <1>11, <1>12, Zenon
<1> QED BY <1>6, <1>10, <1>13, Zenon

\* Put one after the other, they are a dialogue if no two of them make the same call.
LEMMA TurnsTalk ==
  ASSUME NEW n, NEW cs, NEW ids, Joinable(cs, n, Sent), AllTurned(cs, ids, n), OtherCalls(ids, n)
  PROVE  /\ Dialogue(Rq!FlattenSeq(cs))
         /\ \A m \in 1 .. Len(Rq!FlattenSeq(cs)) : Rq!FlattenSeq(cs)[m].role # "system"
<1>1. SeqsOf(cs, n, Sent) /\ Rq!FlattenSeq(cs) \in Seq(Sent)
  BY Flat DEF Joinable
<1>2. PICK ms \in Seq(Sent) : ms = Rq!FlattenSeq(cs)
  BY <1>1
<1>3. PICK off : Placed(off, cs, n, ms)
  BY <1>2, Flat
<1>4. Spots(off, cs, n, ms)
  BY <1>1, <1>3, Spotted, Zenon
<1>5. ASSUME NEW m \in 1 .. Len(ms) PROVE Shaped(ms[m]) /\ ms[m].role # "system"
  <2>1. PICK i \in 1 .. n : \E j \in 1 .. Len(cs[i]) : m = off[i - 1] + j /\ ms[m] = cs[i][j]
    BY <1>4, Zenon DEF Spots
  <2>2. PICK j \in 1 .. Len(cs[i]) : m = off[i - 1] + j /\ ms[m] = cs[i][j]
    BY <2>1, Zenon
  <2>3. InTurn(cs[i], ids[i], j)
    <3>1. Turned(cs[i], ids[i])
      BY Zenon DEF AllTurned
    <3> QED BY <3>1, TurnPart, Zenon
  <2>4. Shaped(cs[i][j]) /\ cs[i][j].role # "system"
    BY <2>3, Zenon DEF InTurn
  <2> QED BY <2>2, <2>4
<1>6. ASSUME NEW m \in 1 .. Len(ms), NEW t \in 1 .. Len(ms[m].calls)
      PROVE  m + t \in 1 .. Len(ms) /\ ms[m + t].role = "tool" /\ ms[m + t].answers = <<ms[m].calls[t]>>
  BY <1>4, <1>6, Called
<1>7. ASSUME NEW m \in 1 .. Len(ms), ms[m].role = "tool"
      PROVE  \E a \in 1 .. Len(ms) : \E t \in 1 .. Len(ms[a].calls) : m = a + t
  <2>1. PICK i \in 1 .. n : \E t \in 1 .. Len(cs[i][1].calls) : AnswerOf(m, i, t, off, cs, ids, ms)
    BY <1>4, <1>7, Answering, Zenon
  <2>2. PICK t \in 1 .. Len(cs[i][1].calls) : AnswerOf(m, i, t, off, cs, ids, ms)
    BY <2>1, Zenon
  <2>3. m = off[i - 1] + 1 + t /\ off[i - 1] + 1 \in 1 .. Len(ms) /\ ms[off[i - 1] + 1] = cs[i][1]
    BY <2>2, Zenon DEF AnswerOf
  <2>4. t \in 1 .. Len(ms[off[i - 1] + 1].calls)
    BY <2>3, Zenon
  <2> QED BY <2>3, <2>4, Zenon
<1>8. ASSUME NEW l \in 1 .. Len(ms), NEW m \in 1 .. Len(ms), ms[l].role = "tool", ms[m].role = "tool",
             ms[l].answers = ms[m].answers
      PROVE  l = m
  <2>1. PICK i \in 1 .. n : \E t \in 1 .. Len(cs[i][1].calls) : AnswerOf(l, i, t, off, cs, ids, ms)
    BY <1>4, <1>8, Answering, Zenon
  <2>2. PICK t \in 1 .. Len(cs[i][1].calls) : AnswerOf(l, i, t, off, cs, ids, ms)
    BY <2>1, Zenon
  <2>3. PICK k \in 1 .. n : \E u \in 1 .. Len(cs[k][1].calls) : AnswerOf(m, k, u, off, cs, ids, ms)
    BY <1>4, <1>8, Answering, Zenon
  <2>4. PICK u \in 1 .. Len(cs[k][1].calls) : AnswerOf(m, k, u, off, cs, ids, ms)
    BY <2>3, Zenon
  <2>5. t \in 1 .. Len(ids[i]) /\ l = off[i - 1] + 1 + t /\ ms[l].answers = <<ids[i][t]>>
    BY <2>2, Zenon DEF AnswerOf
  <2>6. u \in 1 .. Len(ids[k]) /\ m = off[k - 1] + 1 + u /\ ms[m].answers = <<ids[k][u]>>
    BY <2>4, Zenon DEF AnswerOf
  <2>7. ids[i][t] = ids[k][u]
    <3>1. ASSUME NEW x, NEW y, <<x>> = <<y>> PROVE x = y
      BY <3>1
    <3>2. <<ids[i][t]>> = <<ids[k][u]>>
      BY <1>8, <2>5, <2>6, Zenon
    <3> QED BY <3>1, <3>2, Zenon
  <2>8. i = k /\ t = u
    BY <2>5, <2>6, <2>7, Zenon DEF OtherCalls
  <2> QED BY <2>5, <2>6, <2>8, Zenon
<1>9. Dialogue(ms)
  BY <1>5, <1>6, <1>7, <1>8, Zenon DEF Dialogue, Talk
<1> QED BY <1>2, <1>5, <1>9, Zenon

\* The messages of a request: those of the system, and then a dialogue.
Conversation(ms, k) ==
  /\ Dialogue(ms) /\ k \in 0 .. Len(ms)
  /\ \A m \in 1 .. Len(ms) : ms[m].role = "system" <=> m =< k

\* Messages of the system, which call and answer nothing.
SystemOnly(sys) ==
  sys \in Seq(Sent) /\ \A m \in 1 .. Len(sys) : Shaped(sys[m]) /\ sys[m].role = "system"

\* In front of a dialogue they leave it one.
LEMMA Opened ==
  ASSUME NEW sys, SystemOnly(sys), NEW body, Dialogue(body),
         \A m \in 1 .. Len(body) : body[m].role # "system"
  PROVE  Conversation(sys \o body, Len(sys))
<1>1. /\ body \in Seq(Sent)
      /\ \A m \in 1 .. Len(body) : Shaped(body[m])
      /\ \A m \in 1 .. Len(body) : \A t \in 1 .. Len(body[m].calls) :
           m + t \in 1 .. Len(body) /\ body[m + t].role = "tool" /\ body[m + t].answers = <<body[m].calls[t]>>
      /\ \A m \in 1 .. Len(body) : body[m].role = "tool" =>
           \E a \in 1 .. Len(body) : \E t \in 1 .. Len(body[a].calls) : m = a + t
      /\ \A l, m \in 1 .. Len(body) :
           body[l].role = "tool" /\ body[m].role = "tool" /\ body[l].answers = body[m].answers => l = m
  BY Zenon DEF Dialogue, Talk
<1>2. sys \in Seq(Sent) /\ \A m \in 1 .. Len(sys) : Shaped(sys[m]) /\ sys[m].role = "system"
  BY Zenon DEF SystemOnly
<1>3. PICK k \in Nat, n \in Nat : k = Len(sys) /\ n = Len(body)
  BY <1>1, <1>2
<1>4. PICK ms : ms = sys \o body
  OBVIOUS
<1>5. /\ ms \in Seq(Sent) /\ Len(ms) = k + n
      /\ \A m \in 1 .. k : ms[m] = sys[m]
      /\ \A m \in 1 .. n : ms[k + m] = body[m]
  BY <1>1, <1>2, <1>3, <1>4, Concat
<1>6. ASSUME NEW m \in 1 .. k + n
      PROVE  \/ m \in 1 .. k /\ ms[m] = sys[m]
             \/ ~(m =< k) /\ \E i \in 1 .. n : m = k + i /\ ms[m] = body[i]
  <2>1. CASE m =< k
    BY <1>5, <2>1
  <2>2. CASE ~(m =< k)
    <3>1. m - k \in 1 .. n /\ m = k + (m - k)
      BY <2>2
    <3> QED BY <1>5, <2>2, <3>1
  <2> QED BY <2>1, <2>2
<1>7. ASSUME NEW m \in 1 .. k + n
      PROVE  Shaped(ms[m]) /\ (ms[m].role = "system" <=> m =< k)
  <2>1. CASE m \in 1 .. k /\ ms[m] = sys[m]
    BY <1>2, <1>3, <2>1
  <2>2. CASE ~(m =< k) /\ \E i \in 1 .. n : m = k + i /\ ms[m] = body[i]
    <3>1. PICK i \in 1 .. n : ms[m] = body[i]
      BY <2>2
    <3>2. Shaped(body[i]) /\ body[i].role # "system"
      BY <1>1, <1>3, Zenon
    <3> QED BY <2>2, <3>1, <3>2
  <2> QED BY <1>6, <2>1, <2>2
<1>8. ASSUME NEW m \in 1 .. k PROVE ms[m].role = "system" /\ ms[m].calls = <<>>
  <2>1. ms[m] = sys[m] /\ Shaped(sys[m]) /\ sys[m].role = "system"
    BY <1>2, <1>3, <1>5
  <2> QED BY <2>1 DEF Shaped
<1>9. ASSUME NEW m \in 1 .. k + n, NEW t \in 1 .. Len(ms[m].calls)
      PROVE  m + t \in 1 .. k + n /\ ms[m + t].role = "tool" /\ ms[m + t].answers = <<ms[m].calls[t]>>
  <2>1. CASE m \in 1 .. k
    <3>1. Len(ms[m].calls) = 0
      BY <1>8, <2>1
    <3> QED BY <3>1
  <2>2. CASE m \notin 1 .. k
    <3>1. PICK i \in 1 .. n : m = k + i /\ ms[m] = body[i]
      BY <1>6, <2>2
    <3>2. t \in 1 .. Len(body[i].calls)
      BY <3>1
    <3>3. i + t \in 1 .. n /\ body[i + t].role = "tool" /\ body[i + t].answers = <<body[i].calls[t]>>
      BY <1>1, <1>3, <3>2
    <3>4. m + t = k + (i + t)
      BY <3>1, <3>2
    <3>5. ms[m + t] = body[i + t] /\ m + t \in 1 .. k + n
      BY <1>5, <3>3, <3>4
    <3> QED BY <3>1, <3>3, <3>5
  <2> QED BY <2>1, <2>2
<1>10. ASSUME NEW m \in 1 .. k + n, ms[m].role = "tool"
       PROVE  \E i \in 1 .. n : m = k + i /\ ms[m] = body[i]
  <2>1. m \notin 1 .. k
    BY <1>8, <1>10
  <2> QED BY <1>6, <2>1
<1>11. ASSUME NEW m \in 1 .. k + n, ms[m].role = "tool"
       PROVE  \E a \in 1 .. k + n : \E t \in 1 .. Len(ms[a].calls) : m = a + t
  <2>1. PICK i \in 1 .. n : m = k + i /\ ms[m] = body[i]
    BY <1>10, <1>11
  <2>2. PICK a \in 1 .. n : \E t \in 1 .. Len(body[a].calls) : i = a + t
    BY <1>1, <1>3, <1>11, <2>1
  <2>3. PICK t \in 1 .. Len(body[a].calls) : i = a + t
    BY <2>2
  <2>4. k + a \in 1 .. k + n /\ ms[k + a] = body[a]
    BY <1>5
  <2>5. m = k + a + t /\ t \in 1 .. Len(ms[k + a].calls)
    BY <2>1, <2>3, <2>4
  <2> QED BY <2>4, <2>5
<1>12. ASSUME NEW l \in 1 .. k + n, NEW m \in 1 .. k + n, ms[l].role = "tool", ms[m].role = "tool",
              ms[l].answers = ms[m].answers
       PROVE  l = m
  <2>1. PICK i \in 1 .. n : l = k + i /\ ms[l] = body[i]
    BY <1>10, <1>12
  <2>2. PICK j \in 1 .. n : m = k + j /\ ms[m] = body[j]
    BY <1>10, <1>12
  <2>3. i = j
    BY <1>1, <1>3, <1>12, <2>1, <2>2
  <2> QED BY <2>1, <2>2, <2>3
<1>13. Dialogue(ms)
  <2>1. 1 .. Len(ms) = 1 .. k + n
    BY <1>5
  <2>2. ms \in Seq(Sent)
    BY <1>5
  <2>3. \A m \in 1 .. k + n : Shaped(ms[m])
    BY <1>7, Zenon
  <2>4. \A m \in 1 .. k + n : \A t \in 1 .. Len(ms[m].calls) :
          m + t \in 1 .. k + n /\ ms[m + t].role = "tool" /\ ms[m + t].answers = <<ms[m].calls[t]>>
    BY <1>9, Zenon
  <2>5. \A m \in 1 .. k + n : ms[m].role = "tool" =>
          \E a \in 1 .. k + n : \E t \in 1 .. Len(ms[a].calls) : m = a + t
    BY <1>11, Zenon
  <2>6. \A l, m \in 1 .. k + n :
          ms[l].role = "tool" /\ ms[m].role = "tool" /\ ms[l].answers = ms[m].answers => l = m
    BY <1>12, Zenon
  <2>7. Talk(ms, 1 .. k + n)
    BY <2>3, <2>4, <2>5, <2>6, Zenon DEF Talk
  <2> QED BY <2>1, <2>2, <2>7, Zenon DEF Dialogue
<1>14. Conversation(ms, k)
  <2>1. k \in 0 .. Len(ms)
    BY <1>5
  <2>2. \A m \in 1 .. Len(ms) : ms[m].role = "system" <=> m =< k
    BY <1>5, <1>7, Zenon
  <2> QED BY <1>13, <2>1, <2>2, Zenon DEF Conversation
<1> QED BY <1>3, <1>4, <1>14, Zenon

LEMMA TheSystem ==
  ASSUME Rq!TypeOK
  PROVE  Rq!SystemTexts \in Seq(Text)
<1>1. Rq!Family(model) \in Words
  <2>1. \A i \in DOMAIN Rq!Rules : i \in Nat /\ Rq!Rules[i] \in Words
    <3>1. DOMAIN Rq!Rules = 1 .. 7
      BY DEF Rq!Rules
    <3>2. Rq!Rules[1] \in Words /\ Rq!Rules[2] \in Words /\ Rq!Rules[3] \in Words /\ Rq!Rules[4] \in Words
          /\ Rq!Rules[5] \in Words /\ Rq!Rules[6] \in Words /\ Rq!Rules[7] \in Words
      BY DEF Rq!Rules, Words
    <3>3. \A i \in 1 .. 7 : i = 1 \/ i = 2 \/ i = 3 \/ i = 4 \/ i = 5 \/ i = 6 \/ i = 7
      OBVIOUS
    <3> QED BY <3>1, <3>2, <3>3
  <2> DEFINE named == {i \in DOMAIN Rq!Rules : Rq!Rules[i] \in model}
  <2>2. CASE named = {}
    <3>1. Rq!Family(model) = "default"
      BY <2>2, Zenon DEF Rq!Family
    <3> QED BY <3>1 DEF Words
  <2>3. CASE named # {}
    <3>1. PICK i \in named : \A j \in named : i =< j
      BY <2>1, <2>3, Least
    <3>2. PICK k : k = CHOOSE x \in named : \A j \in named : x =< j
      OBVIOUS
    <3>3. k \in named
      BY <3>1, <3>2, Zenon
    <3>4. Rq!Family(model) = Rq!Rules[k]
      BY <2>3, <3>2, Zenon DEF Rq!Family
    <3> QED BY <2>1, <3>3, <3>4
  <2> QED BY <2>2, <2>3
<1>2. Rq!Nearest(agentsMD) \in Seq(Nat)
  <2>1. CASE agentsMD = {}
    BY <2>1 DEF Rq!Nearest
  <2>2. CASE agentsMD # {}
    <3>1. agentsMD \subseteq {0, 1}
      <4>1. agentsMD \subseteq 0 .. Rq!Depth
        BY Zenon DEF Rq!TypeOK
      <4>2. Rq!Depth = 1
        BY DEF Rq!Depth
      <4> QED BY <4>1, <4>2
    <3>2. \E d \in agentsMD : \A e \in agentsMD : e =< d
      <4>1. CASE 1 \in agentsMD
        BY <3>1, <4>1
      <4>2. CASE 1 \notin agentsMD
        <5>1. \E d \in agentsMD : d = 0
          BY <2>2, <3>1, <4>2
        <5>2. \A e \in agentsMD : e =< 0
          BY <3>1, <4>2
        <5> QED BY <5>1, <5>2
      <4> QED BY <4>1, <4>2
    <3>3. PICK d : d = CHOOSE x \in agentsMD : \A e \in agentsMD : e =< x
      OBVIOUS
    <3>4. d \in agentsMD
      BY <3>2, <3>3, Zenon
    <3>5. Rq!Nearest(agentsMD) = <<d>>
      BY <2>2, <3>3, Zenon DEF Rq!Nearest
    <3> QED BY <3>1, <3>4, <3>5
  <2> QED BY <2>1, <2>2
<1>3. PICK a \in Text : a = Rq!Family(model)
  BY <1>1 DEF Text
<1>4. <<a, "env">> \in Seq(Text)
  <2>1. "env" \in Text
    BY DEF Text, Words
  <2> QED BY <2>1
<1>5. PICK s \in Seq(Text) : s = Rq!Nearest(agentsMD)
  BY <1>2, Numbers
<1>6. <<a, "env">> \o s \in Seq(Text)
  BY <1>4
<1> QED BY <1>3, <1>5, <1>6 DEF Rq!SystemTexts

LEMMA Reminders ==
  ASSUME NEW h
  PROVE  Rq!PlanReminders(h) \in Seq(Text)
<1>1. "plan" \in Text /\ "build-switch" \in Text
  BY DEF Text, Words
<1>2. <<"plan">> \in Seq(Text) /\ <<"build-switch">> \in Seq(Text) /\ <<>> \in Seq(Text)
  BY <1>1
<1> QED BY <1>2 DEF Rq!PlanReminders

\* Whatever the history, mapHistory makes a conversation of it.
LEMMA Spoken ==
  ASSUME HistoryInv
  PROVE  \E k : Conversation(Rq!MapHistory(Rq!LoadHistory), k)
<1>1. PICK h \in Seq(Message) : h = Rq!LoadHistory
  BY Loaded
<1>2. PICK n \in Nat : n = Len(h) /\ DOMAIN h = 1 .. n /\ n = Len(history)
  BY <1>1, Loaded
<1>3. PICK sys : sys = [i \in DOMAIN Rq!SystemTexts |->
                          Rq!Message("system", <<Rq!SystemTexts[i]>>, <<>>, <<>>, <<>>)]
  OBVIOUS
<1>4. SystemOnly(sys)
  <2>1. PICK texts \in Seq(Text) : texts = Rq!SystemTexts
    BY TheSystem DEF HistoryInv
  <2>2. PICK l \in Nat : l = Len(texts) /\ DOMAIN texts = 1 .. l
    BY <2>1
  <2>3. sys = [i \in 1 .. l |-> Rq!Message("system", <<texts[i]>>, <<>>, <<>>, <<>>)]
    BY <1>3, <2>1, <2>2
  <2>4. ASSUME NEW i \in 1 .. l PROVE sys[i] \in Sent /\ Shaped(sys[i]) /\ sys[i].role = "system"
    <3>1. PICK t \in Text : t = texts[i]
      BY <2>2
    <3>2. <<t>> \in Seq(Text) /\ Len(<<t>>) = 1 /\ <<>> \in Seq(Text)
      OBVIOUS
    <3>3. sys[i] = [role |-> "system", content |-> <<t>>, media |-> <<>>, calls |-> <<>>, answers |-> <<>>]
      BY <2>3, <3>1 DEF Rq!Message
    <3> QED BY <3>2, <3>3 DEF Sent, Shaped
  <2>5. sys \in Seq(Sent) /\ Len(sys) = l
    <3>1. sys \in [1 .. l -> Sent]
      BY <2>3, <2>4, Zenon
    <3> QED BY <3>1
  <2> QED BY <2>4, <2>5, Zenon DEF SystemOnly
<1>5. PICK last : last = Rq!SelectLastInSeq(h, LAMBDA m : m.role = "user")
  OBVIOUS
<1>6. PICK cs : cs = [i \in DOMAIN h |->
                        IF h[i].role = "assistant" THEN Rq!ReplyMessages(h[i])
                        ELSE <<Rq!UserMessage(h[i], IF i = last THEN Rq!PlanReminders(h) ELSE <<>>)>>]
  OBVIOUS
<1>7. Rq!MapHistory(h) = sys \o Rq!FlattenSeq(cs)
  BY <1>3, <1>5, <1>6, Zenon DEF Rq!MapHistory
<1>8. PICK ids : ids = [i \in 1 .. n |-> Calls(i)]
  OBVIOUS
<1>9. ASSUME NEW i \in 1 .. n PROVE Turned(cs[i], ids[i])
  <2>1. h[i] \in Message /\ i \in DOMAIN h
    BY <1>1, <1>2
  <2>2. ids[i] = Rq!Ids(h[i].parts, Rq!Finished)
    BY <1>1, <1>8 DEF Calls
  <2>3. CASE h[i].role = "assistant"
    <3>1. cs[i] = Rq!ReplyMessages(h[i])
      BY <1>6, <2>1, <2>3
    <3> QED BY <2>1, <2>2, <3>1, ReplyTurned
  <2>4. CASE h[i].role # "assistant"
    <3>1. PICK r \in Seq(Text) : r = IF i = last THEN Rq!PlanReminders(h) ELSE <<>>
      <4>1. Rq!PlanReminders(h) \in Seq(Text) /\ <<>> \in Seq(Text)
        BY Reminders
      <4> QED BY <4>1
    <3>2. cs[i] = <<Rq!UserMessage(h[i], r)>>
      BY <1>6, <2>1, <2>4, <3>1
    <3> QED BY <2>1, <3>2, UserTurned
  <2> QED BY <2>3, <2>4
<1>10. Joinable(cs, n, Sent)
  <2>1. ASSUME NEW i \in 1 .. n PROVE cs[i] \in Seq(Sent)
    BY <1>9 DEF Turned
  <2>2. cs = [i \in 1 .. n |-> cs[i]]
    BY <1>2, <1>6
  <2>3. cs \in [1 .. n -> Seq(Sent)]
    BY <2>1, <2>2, Zenon
  <2>4. Len(cs) = n /\ (n = 0 => cs = <<>>)
    BY <2>3
  <2> QED BY <2>3, <2>4 DEF Joinable, SeqsOf
<1>11. AllTurned(cs, ids, n) /\ OtherCalls(ids, n)
  <2>1. OtherCalls(ids, n)
    <3>1. \A i \in 1 .. n : ids[i] = Calls(i)
      BY <1>8
    <3>2. \A i, k \in 1 .. n : \A x \in 1 .. Len(Calls(i)), y \in 1 .. Len(Calls(k)) :
            Calls(i)[x] = Calls(k)[y] => i = k /\ x = y
      <4>1. n = Len(history)
        BY <1>2
      <4>2. \A i, k \in 1 .. Len(history) : \A x \in 1 .. Len(Calls(i)), y \in 1 .. Len(Calls(k)) :
              Calls(i)[x] = Calls(k)[y] => i = k /\ x = y
        BY Loaded, Zenon
      <4> QED BY <4>1, <4>2, Zenon
    <3>3. ASSUME NEW i \in 1 .. n, NEW j \in 1 .. n, NEW x \in 1 .. Len(ids[i]), NEW y \in 1 .. Len(ids[j]),
                 ids[i][x] = ids[j][y]
          PROVE  i = j /\ x = y
      <4>1. ids[i] = Calls(i) /\ ids[j] = Calls(j)
        BY <3>1
      <4>2. x \in 1 .. Len(Calls(i)) /\ y \in 1 .. Len(Calls(j)) /\ Calls(i)[x] = Calls(j)[y]
        BY <3>3, <4>1, Zenon
      <4> QED BY <3>2, <4>2
    <3> QED BY <3>3, Zenon DEF OtherCalls
  <2> QED BY <1>9, <2>1, Zenon DEF AllTurned
<1>12. PICK body : body = Rq!FlattenSeq(cs)
  OBVIOUS
<1>13. Dialogue(body) /\ \A m \in 1 .. Len(body) : body[m].role # "system"
  BY <1>10, <1>11, <1>12, TurnsTalk, Zenon
<1>14. Conversation(sys \o body, Len(sys))
  BY <1>4, <1>13, Opened, Zenon
<1> QED BY <1>1, <1>7, <1>12, <1>14, Zenon

-----------------------------------------------------------------------------
(* What goes on the wire. *)

\* A block on the wire.
Utterance == {"system", "user", "assistant", "tool"} \X {"text", "image", "call", "result"} \X Text
Roles == {"system", "user", "assistant", "tool"}
Kinds == {"text", "image", "call", "result"}

LEMMA BlocksAre ==
  ASSUME NEW who \in Roles, NEW kind \in Kinds, NEW ids \in Seq(Text)
  PROVE  /\ Rq!Blocks(who, kind, ids) \in Seq(Utterance) /\ Len(Rq!Blocks(who, kind, ids)) = Len(ids)
         /\ \A j \in 1 .. Len(ids) : Rq!Blocks(who, kind, ids)[j] = <<who, kind, ids[j]>>
<1>1. PICK n \in Nat : n = Len(ids) /\ DOMAIN ids = 1 .. n
  OBVIOUS
<1>2. PICK b : b = [i \in 1 .. n |-> <<who, kind, ids[i]>>]
  OBVIOUS
<1>3. Rq!Blocks(who, kind, ids) = b
  BY <1>1, <1>2 DEF Rq!Blocks
<1>4. ASSUME NEW i \in 1 .. n PROVE b[i] = <<who, kind, ids[i]>> /\ b[i] \in Utterance
  BY <1>1, <1>2 DEF Utterance, Roles, Kinds
<1>5. b \in [1 .. n -> Utterance]
  BY <1>2, <1>4, Zenon
<1>6. b \in Seq(Utterance) /\ Len(b) = n
  BY <1>5
<1> QED BY <1>1, <1>3, <1>4, <1>6

LEMMA NoBlocks == ASSUME NEW who, NEW kind PROVE Rq!Blocks(who, kind, <<>>) = <<>>
<1>1. DOMAIN <<>> = {}
  OBVIOUS
<1>2. Rq!Blocks(who, kind, <<>>) = [i \in {} |-> <<who, kind, <<>>[i]>>]
  BY <1>1 DEF Rq!Blocks
<1> QED BY <1>2

\* The blocks of a message: its calls are the last, and a tool's is what it answers.
Worded(o, m) ==
  /\ o \in Seq(Utterance) /\ Len(m.calls) \in Nat /\ Len(o) - Len(m.calls) \in Nat
  /\ \A j \in 1 .. Len(o) : o[j][2] = "result" => m.role = "tool"
  /\ m.role = "tool" => Len(o) = 1 /\ o[1][2] = "result" /\ <<o[1][3]>> = m.answers
  /\ \A j \in 1 .. Len(o) : o[j][2] = "call" <=> j > Len(o) - Len(m.calls)
  /\ \A t \in 1 .. Len(m.calls) : o[Len(o) - Len(m.calls) + t][3] = m.calls[t]

LEMMA WordedIs ==
  ASSUME NEW m, Shaped(m)
  PROVE  Worded(Rq!OpenAI(m), m)
<1>1. /\ m.role \in Roles /\ m.content \in Seq(Text) /\ m.media \in Seq(Text) /\ m.calls \in Seq(Text)
      /\ m.answers \in Seq(Text)
      /\ m.role = "tool" =>
           Len(m.answers) = 1 /\ m.content = m.answers /\ m.media = <<>> /\ m.calls = <<>>
  BY DEF Shaped, Sent, Roles
<1>2. PICK kind \in {"text", "result"} : kind = IF m.role = "tool" THEN "result" ELSE "text"
  OBVIOUS
<1>3. PICK a \in Seq(Utterance) : a = Rq!Blocks(m.role, kind, m.content) /\ Len(a) = Len(m.content)
                                  /\ \A j \in 1 .. Len(m.content) : a[j] = <<m.role, kind, m.content[j]>>
  <2>1. kind \in Kinds
    BY DEF Kinds
  <2> QED BY <1>1, <2>1, BlocksAre
<1>4. PICK b \in Seq(Utterance) : b = Rq!Blocks(m.role, "image", m.media) /\ Len(b) = Len(m.media)
                                  /\ \A j \in 1 .. Len(m.media) : b[j] = <<m.role, "image", m.media[j]>>
  <2>1. "image" \in Kinds
    BY DEF Kinds
  <2> QED BY <1>1, <2>1, BlocksAre
<1>5. PICK c \in Seq(Utterance) : c = Rq!Blocks(m.role, "call", m.calls) /\ Len(c) = Len(m.calls)
                                  /\ \A j \in 1 .. Len(m.calls) : c[j] = <<m.role, "call", m.calls[j]>>
  <2>1. "call" \in Kinds
    BY DEF Kinds
  <2> QED BY <1>1, <2>1, BlocksAre
<1>6. PICK d \in Seq(Utterance) : d = a \o b
  BY Concat, Zenon
<1>7. PICK o \in Seq(Utterance) : o = d \o c
  BY Concat, Zenon
<1>8. Rq!OpenAI(m) = o
  BY <1>2, <1>3, <1>4, <1>5, <1>6, <1>7, Zenon DEF Rq!OpenAI
<1>9. PICK x \in Nat, y \in Nat, z \in Nat : x = Len(a) /\ y = Len(b) /\ z = Len(c)
  OBVIOUS
<1>10. /\ Len(d) = x + y
       /\ \A j \in 1 .. x : d[j] = a[j]
       /\ \A j \in 1 .. y : d[x + j] = b[j]
  BY <1>6, <1>9, Concat
<1>11. /\ Len(o) = x + y + z
       /\ \A j \in 1 .. x + y : o[j] = d[j]
       /\ \A j \in 1 .. z : o[x + y + j] = c[j]
  <2>1. /\ Len(o) = Len(d) + Len(c)
        /\ \A j \in 1 .. Len(d) : o[j] = d[j]
        /\ \A j \in 1 .. Len(c) : o[Len(d) + j] = c[j]
    BY <1>7, Concat
  <2>2. Len(d) = x + y /\ Len(c) = z
    BY <1>9, <1>10
  <2> QED BY <2>1, <2>2, Zenon
<1>12. ASSUME NEW j \in 1 .. x + y
       PROVE  o[j][2] \in {kind, "image"}
  <2>1. CASE j \in 1 .. x
    <3>1. o[j] = a[j] /\ a[j] = <<m.role, kind, m.content[j]>>
      BY <1>3, <1>9, <1>10, <1>11, <2>1
    <3> QED BY <3>1
  <2>2. CASE j \notin 1 .. x
    <3>1. PICK i \in 1 .. y : j = x + i
      <4>1. j - x \in 1 .. y /\ j = x + (j - x)
        BY <2>2
      <4> QED BY <4>1
    <3>2. o[j] = b[i] /\ b[i] = <<m.role, "image", m.media[i]>>
      BY <1>4, <1>9, <1>10, <1>11, <3>1
    <3> QED BY <3>2
  <2> QED BY <2>1, <2>2
<1>13. ASSUME NEW t \in 1 .. z PROVE o[x + y + t] = <<m.role, "call", m.calls[t]>>
  BY <1>5, <1>9, <1>11
<1>14. ASSUME NEW j \in 1 .. x + y + z
       PROVE  \/ j \in 1 .. x + y /\ ~(j > x + y) /\ o[j][2] \in {kind, "image"}
              \/ j > x + y /\ o[j][2] = "call"
  <2>1. CASE j =< x + y
    <3>1. j \in 1 .. x + y
      BY <2>1
    <3> QED BY <1>12, <2>1, <3>1
  <2>2. CASE ~(j =< x + y)
    <3>1. PICK t \in 1 .. z : j = x + y + t
      <4>1. j - (x + y) \in 1 .. z /\ j = x + y + (j - (x + y))
        BY <2>2
      <4> QED BY <4>1
    <3>2. o[j] = <<m.role, "call", m.calls[t]>>
      BY <1>13, <3>1
    <3> QED BY <2>2, <3>2
  <2> QED BY <2>1, <2>2
<1>15. Len(m.calls) = z /\ Len(o) - Len(m.calls) = x + y /\ Len(o) = x + y + z
  BY <1>5, <1>9, <1>11
<1>16. ASSUME NEW j \in 1 .. x + y + z PROVE o[j][2] = "result" => m.role = "tool"
  BY <1>2, <1>14
<1>17. ASSUME NEW j \in 1 .. x + y + z PROVE o[j][2] = "call" <=> j > x + y
  BY <1>2, <1>14
<1>18. ASSUME m.role = "tool" PROVE x + y + z = 1 /\ o[1][2] = "result" /\ <<o[1][3]>> = m.answers
  <2>1. Len(m.answers) = 1 /\ m.content = m.answers /\ m.media = <<>> /\ m.calls = <<>>
    BY <1>1, <1>18
  <2>2. x = 1 /\ y = 0 /\ z = 0
    BY <1>3, <1>4, <1>5, <1>9, <2>1
  <2>3. o[1] = a[1] /\ a[1] = <<m.role, kind, m.answers[1]>>
    BY <1>3, <1>9, <1>10, <1>11, <2>1, <2>2
  <2>4. o[1][2] = "result" /\ o[1][3] = m.answers[1]
    BY <1>2, <1>18, <2>3
  <2>5. <<m.answers[1]>> = m.answers
    BY <1>1, <2>1
  <2> QED BY <2>2, <2>4, <2>5
<1>19. ASSUME NEW t \in 1 .. z PROVE o[x + y + t][3] = m.calls[t]
  BY <1>13
<1>20. PICK v : v = x + y /\ v \in Nat
  OBVIOUS
<1>21. Worded(o, m)
  BY <1>15, <1>16, <1>17, <1>18, <1>19 DEF Worded
<1> QED BY <1>8, <1>21

\* A sequence of what F makes of each element.
Mapping(F, s) == [i \in DOMAIN s |-> F[s[i]]]
Maps(F, S, R) == F \in [S -> R]
Cat(s, t) == s \o t
Distributes(F, s, t) == Mapping(F, Cat(s, t)) = Cat(Mapping(F, s), Mapping(F, t))

\* What F makes of two sequences put together.
LEMMA MapConcat ==
  ASSUME NEW S, NEW R, NEW F, Maps(F, S, R), NEW s \in Seq(S), NEW t \in Seq(S)
  PROVE  Mapping(F, s) \in Seq(R) /\ Distributes(F, s, t)
<1>1. PICK a \in Nat, b \in Nat : a = Len(s) /\ b = Len(t) /\ DOMAIN s = 1 .. a /\ DOMAIN t = 1 .. b
  OBVIOUS
<1>2. PICK u \in Seq(S) : u = s \o t
  BY Concat, Zenon
<1>3. /\ Len(u) = a + b /\ DOMAIN u = 1 .. a + b
      /\ \A i \in 1 .. a : u[i] = s[i] /\ s[i] \in S
      /\ \A i \in 1 .. b : u[a + i] = t[i] /\ t[i] \in S
  BY <1>1, <1>2, Concat
<1>4. PICK vs : vs = [i \in 1 .. a |-> F[s[i]]]
  OBVIOUS
<1>5. PICK vt : vt = [i \in 1 .. b |-> F[t[i]]]
  OBVIOUS
<1>6. PICK vu : vu = [i \in 1 .. a + b |-> F[u[i]]]
  OBVIOUS
<1>7. Mapping(F, s) = vs /\ Mapping(F, t) = vt /\ Mapping(F, u) = vu
  BY <1>1, <1>3, <1>4, <1>5, <1>6, Zenon DEF Mapping
<1>8. vs \in Seq(R) /\ Len(vs) = a /\ vt \in Seq(R) /\ Len(vt) = b
  <2>1. vs \in [1 .. a -> R] /\ vt \in [1 .. b -> R]
    BY <1>3, <1>4, <1>5 DEF Maps
  <2> QED BY <2>1
<1>9. PICK w : w = vs \o vt
  OBVIOUS
<1>10. /\ w \in Seq(R) /\ Len(w) = a + b
       /\ \A i \in 1 .. a : w[i] = vs[i]
       /\ \A i \in 1 .. b : w[a + i] = vt[i]
  <2>1. /\ w \in Seq(R) /\ Len(w) = Len(vs) + Len(vt)
        /\ \A i \in 1 .. Len(vs) : w[i] = vs[i]
        /\ \A i \in 1 .. Len(vt) : w[Len(vs) + i] = vt[i]
    <3>0. vs \in Seq(R) /\ vt \in Seq(R)
      BY <1>8
    <3>1. /\ vs \o vt \in Seq(R) /\ Len(vs \o vt) = Len(vs) + Len(vt)
          /\ \A i \in 1 .. Len(vs) : (vs \o vt)[i] = vs[i]
          /\ \A i \in 1 .. Len(vt) : (vs \o vt)[Len(vs) + i] = vt[i]
      BY <3>0, Concat
    <3> QED BY <1>9, <3>1, Zenon
  <2> QED BY <1>8, <2>1, Zenon
<1>11. ASSUME NEW i \in 1 .. a + b PROVE w[i] = vu[i]
  <2>1. CASE i =< a
    <3>1. i \in 1 .. a
      BY <2>1
    <3> QED BY <1>3, <1>4, <1>6, <1>10, <3>1
  <2>2. CASE ~(i =< a)
    <3>1. PICK j \in 1 .. b : i = a + j
      <4>1. i - a \in 1 .. b /\ i = a + (i - a)
        BY <2>2
      <4> QED BY <4>1
    <3>2. w[i] = F[t[j]]
      BY <1>5, <1>10, <3>1
    <3>3. vu[i] = F[t[j]]
      <4>1. u[i] = t[j]
        BY <1>3, <3>1
      <4> QED BY <1>6, <4>1
    <3> QED BY <3>2, <3>3, Zenon
  <2> QED BY <2>1, <2>2
<1>12. w = vu
  <2>1. w = [i \in 1 .. a + b |-> w[i]]
    BY <1>10
  <2>2. vu = [i \in 1 .. a + b |-> vu[i]]
    BY <1>6
  <2> QED BY <1>11, <2>1, <2>2
<1> QED BY <1>2, <1>7, <1>8, <1>9, <1>12, Zenon DEF Cat, Distributes

\* What a provider hears in the blocks of the Anthropic form, and in its system texts.
Hear == [b \in Utterance |-> Rq!Voice(b)]
Tell == [x \in Text |-> <<"system", "text", x>>]

LEMMA Heard ==
  /\ Hear \in [Utterance -> Utterance] /\ Tell \in [Text -> Utterance]
  /\ \A s \in Seq(Utterance) : Mapping(Hear, s) = [i \in DOMAIN s |-> Rq!Voice(s[i])]
  /\ \A s \in Seq(Text) : Mapping(Tell, s) = [i \in DOMAIN s |-> <<"system", "text", s[i]>>]
<1>1. ASSUME NEW b \in Utterance PROVE Rq!Voice(b) \in Utterance
  BY DEF Rq!Voice, Utterance
<1>2. Hear \in [Utterance -> Utterance] /\ \A b \in Utterance : Hear[b] = Rq!Voice(b)
  BY <1>1, Zenon DEF Hear
<1>3. Tell \in [Text -> Utterance] /\ \A x \in Text : Tell[x] = <<"system", "text", x>>
  BY DEF Tell, Utterance
<1>4. ASSUME NEW s \in Seq(Utterance)
      PROVE  Mapping(Hear, s) = [i \in DOMAIN s |-> Rq!Voice(s[i])]
  <2>1. \A i \in DOMAIN s : s[i] \in Utterance
    OBVIOUS
  <2>2. \A i \in DOMAIN s : Hear[s[i]] = Rq!Voice(s[i])
    BY <1>2, <2>1, Zenon
  <2> QED BY <2>2, Zenon DEF Mapping
<1>5. ASSUME NEW s \in Seq(Text)
      PROVE  Mapping(Tell, s) = [i \in DOMAIN s |-> <<"system", "text", s[i]>>]
  <2>1. \A i \in DOMAIN s : s[i] \in Text
    OBVIOUS
  <2>2. \A i \in DOMAIN s : Tell[s[i]] = <<"system", "text", s[i]>>
    BY <1>3, <2>1, Zenon
  <2> QED BY <2>2, Zenon DEF Mapping
<1> QED BY <1>2, <1>3, <1>4, <1>5, Zenon

\* The blocks of a kind the user does not give for a tool are heard as they are.
LEMMA HearBlocks ==
  ASSUME NEW who \in Roles, NEW kind \in Kinds, NEW ids \in Seq(Text)
  PROVE  Mapping(Hear, Rq!Blocks(who, kind, ids))
           = Rq!Blocks(IF kind = "result" THEN "tool" ELSE who, kind, ids)
<1>1. PICK n \in Nat : n = Len(ids) /\ DOMAIN ids = 1 .. n
  OBVIOUS
<1>2. PICK b \in Seq(Utterance) : b = Rq!Blocks(who, kind, ids) /\ Len(b) = n
                                  /\ \A j \in 1 .. n : b[j] = <<who, kind, ids[j]>>
  BY <1>1, BlocksAre
<1>3. DOMAIN b = 1 .. n
  BY <1>2
<1>4. PICK to : to = IF kind = "result" THEN "tool" ELSE who
  OBVIOUS
<1>5. \A j \in 1 .. n : Rq!Voice(b[j]) = <<to, kind, ids[j]>>
  <2> SUFFICES ASSUME NEW j \in 1 .. n PROVE Rq!Voice(b[j]) = <<to, kind, ids[j]>>
    OBVIOUS
  <2>1. b[j] = <<who, kind, ids[j]>>
    BY <1>2
  <2>2. b[j][2] = kind /\ b[j][3] = ids[j]
    BY <2>1
  <2>3. CASE kind = "result"
    BY <1>4, <2>2, <2>3 DEF Rq!Voice
  <2>4. CASE kind # "result"
    BY <1>4, <2>1, <2>2, <2>4 DEF Rq!Voice
  <2> QED BY <2>3, <2>4
<1>6. Mapping(Hear, b) = [j \in 1 .. n |-> Rq!Voice(b[j])]
  BY <1>3, Heard
<1>7. Rq!Blocks(to, kind, ids) = [j \in 1 .. n |-> <<to, kind, ids[j]>>]
  BY <1>1 DEF Rq!Blocks
<1>8. Mapping(Hear, b) = Rq!Blocks(to, kind, ids)
  BY <1>5, <1>6, <1>7, Zenon
<1> QED BY <1>2, <1>4, <1>8, Zenon

\* Hearing and telling go block by block.
LEMMA Heards ==
  ASSUME NEW s \in Seq(Utterance), NEW t \in Seq(Utterance)
  PROVE  Mapping(Hear, s) \in Seq(Utterance) /\ Distributes(Hear, s, t)
<1>1. Maps(Hear, Utterance, Utterance)
  BY Heard DEF Maps
<1> QED BY <1>1, MapConcat, Zenon

LEMMA Tells ==
  ASSUME NEW s \in Seq(Text), NEW t \in Seq(Text)
  PROVE  Mapping(Tell, s) \in Seq(Utterance) /\ Distributes(Tell, s, t)
<1>1. Maps(Tell, Text, Utterance)
  BY Heard DEF Maps
<1> QED BY <1>1, MapConcat, Zenon

\* A message sounds the same through both drivers.
LEMMA SpokenAlike ==
  ASSUME NEW m, Shaped(m), m.role # "system"
  PROVE  Rq!ToAnMsg(m) \in Seq(Utterance) /\ Rq!OpenAI(m) = Mapping(Hear, Rq!ToAnMsg(m))
<1>1. /\ m.role \in Roles /\ m.content \in Seq(Text) /\ m.media \in Seq(Text) /\ m.calls \in Seq(Text)
      /\ m.answers \in Seq(Text) /\ m.role \in {"user", "assistant", "tool"}
      /\ m.role = "user" => m.calls = <<>>
      /\ m.role = "assistant" => m.media = <<>>
      /\ m.role = "tool" => m.content = m.answers /\ m.media = <<>> /\ m.calls = <<>>
  BY DEF Shaped, Sent, Roles
<1>2. "text" \in Kinds /\ "image" \in Kinds /\ "call" \in Kinds /\ "result" \in Kinds /\ "user" \in Roles
      /\ "assistant" \in Roles
  BY DEF Kinds, Roles
<1>3. ASSUME NEW a \in Seq(Utterance) PROVE a \o <<>> = a
  OBVIOUS
<1>4. CASE m.role = "tool"
  <2>1. Rq!ToAnMsg(m) = Rq!Blocks("user", "result", m.answers)
    BY <1>4, Zenon DEF Rq!ToAnMsg
  <2>2. Rq!Blocks("user", "result", m.answers) \in Seq(Utterance)
    BY <1>1, <1>2, BlocksAre
  <2>3. Mapping(Hear, Rq!Blocks("user", "result", m.answers)) = Rq!Blocks("tool", "result", m.answers)
    BY <1>1, <1>2, HearBlocks
  <2>4. Rq!OpenAI(m) = Rq!Blocks("tool", "result", m.answers) \o <<>> \o <<>>
    BY <1>1, <1>4, NoBlocks DEF Rq!OpenAI
  <2>5. PICK a \in Seq(Utterance) : a = Rq!Blocks("tool", "result", m.answers)
    <3>1. "tool" \in Roles
      BY DEF Roles
    <3> QED BY <1>1, <1>2, <3>1, BlocksAre
  <2>6. a \o <<>> \o <<>> = a
    BY <1>3
  <2> QED BY <2>1, <2>2, <2>3, <2>4, <2>5, <2>6
<1>5. CASE m.role # "tool"
  <2>0. ASSUME NEW kind \in {"text", "image", "call"}, NEW ids \in Seq(Text)
        PROVE  /\ Rq!Blocks(m.role, kind, ids) \in Seq(Utterance)
               /\ Mapping(Hear, Rq!Blocks(m.role, kind, ids)) = Rq!Blocks(m.role, kind, ids)
    <3>1. kind \in Kinds /\ kind # "result"
      BY DEF Kinds
    <3>2. Rq!Blocks(m.role, kind, ids) \in Seq(Utterance)
      BY <1>1, <3>1, BlocksAre
    <3>3. Mapping(Hear, Rq!Blocks(m.role, kind, ids))
            = Rq!Blocks(IF kind = "result" THEN "tool" ELSE m.role, kind, ids)
      BY <1>1, <3>1, HearBlocks
    <3>4. (IF kind = "result" THEN "tool" ELSE m.role) = m.role
      BY <3>1
    <3> QED BY <3>2, <3>3, <3>4
  <2>1. PICK a \in Seq(Utterance) : a = Rq!Blocks(m.role, "text", m.content) /\ Mapping(Hear, a) = a
    BY <1>1, <2>0
  <2>2. PICK b \in Seq(Utterance) : b = Rq!Blocks(m.role, "image", m.media) /\ Mapping(Hear, b) = b
    BY <1>1, <2>0
  <2>3. PICK c \in Seq(Utterance) : c = Rq!Blocks(m.role, "call", m.calls) /\ Mapping(Hear, c) = c
    BY <1>1, <2>0
  <2>4. ASSUME NEW s \in Seq(Utterance), NEW t \in Seq(Utterance),
               Mapping(Hear, s) = s, Mapping(Hear, t) = t
        PROVE  s \o t \in Seq(Utterance) /\ Mapping(Hear, s \o t) = s \o t
    <3>1. Mapping(Hear, Cat(s, t)) = Cat(Mapping(Hear, s), Mapping(Hear, t))
      BY Heards, Zenon DEF Distributes
    <3>2. s \o t \in Seq(Utterance)
      BY Concat, Zenon
    <3> QED BY <2>4, <3>1, <3>2, Zenon DEF Cat
  <2>5. Rq!OpenAI(m) = a \o b \o c
    <3>1. Rq!OpenAI(m) = Rq!Blocks(m.role, "text", m.content) \o Rq!Blocks(m.role, "image", m.media)
                         \o Rq!Blocks(m.role, "call", m.calls)
      BY <1>5, Zenon DEF Rq!OpenAI
    <3> QED BY <2>1, <2>2, <2>3, <3>1
  <2>6. CASE m.role = "assistant" /\ m.calls # <<>>
    <3>1. Rq!ToAnMsg(m) = Rq!Blocks("assistant", "text", m.content) \o Rq!Blocks("assistant", "call", m.calls)
      BY <2>6 DEF Rq!ToAnMsg
    <3>2. Rq!ToAnMsg(m) = a \o c
      BY <2>1, <2>3, <2>6, <3>1
    <3>3. b = <<>>
      BY <1>1, <2>2, <2>6, NoBlocks
    <3>4. a \o b \o c = a \o c
      BY <1>3, <3>3
    <3>5. a \o c \in Seq(Utterance) /\ Mapping(Hear, a \o c) = a \o c
      BY <2>1, <2>3, <2>4, Zenon
    <3> QED BY <2>5, <3>2, <3>4, <3>5
  <2>7. CASE m.calls = <<>>
    <3>1. Rq!ToAnMsg(m) = Rq!Blocks(m.role, "text", m.content) \o Rq!Blocks(m.role, "image", m.media)
      BY <1>5, <2>7 DEF Rq!ToAnMsg
    <3>2. Rq!ToAnMsg(m) = a \o b
      BY <2>1, <2>2, <3>1
    <3>3. c = <<>>
      BY <2>3, <2>7, NoBlocks
    <3>4. a \o b \in Seq(Utterance) /\ Mapping(Hear, a \o b) = a \o b
      BY <2>1, <2>2, <2>4, Zenon
    <3>5. a \o b \o c = a \o b
      BY <1>3, <3>3, <3>4
    <3> QED BY <2>5, <3>2, <3>4, <3>5
  <2> QED BY <1>1, <1>5, <2>6, <2>7
<1> QED BY <1>4, <1>5

LEMMA SystemAlike ==
  ASSUME NEW m, Shaped(m), m.role = "system"
  PROVE  m.content \in Seq(Text) /\ Rq!OpenAI(m) = Mapping(Tell, m.content)
<1>1. m.content \in Seq(Text) /\ m.media = <<>> /\ m.calls = <<>>
  BY DEF Shaped, Sent
<1>2. PICK a \in Seq(Utterance) : a = Rq!Blocks("system", "text", m.content)
  <2>1. "system" \in Roles /\ "text" \in Kinds
    BY DEF Roles, Kinds
  <2> QED BY <1>1, <2>1, BlocksAre
<1>3. Rq!OpenAI(m) = a \o <<>> \o <<>>
  <2>1. Rq!OpenAI(m) = Rq!Blocks("system", "text", m.content) \o Rq!Blocks("system", "image", <<>>)
                       \o Rq!Blocks("system", "call", <<>>)
    BY <1>1 DEF Rq!OpenAI
  <2> QED BY <1>2, <2>1, NoBlocks
<1>4. a \o <<>> \o <<>> = a
  OBVIOUS
<1>5. Mapping(Tell, m.content) = [i \in DOMAIN m.content |-> <<"system", "text", m.content[i]>>]
  BY <1>1, Heard
<1>6. a = [i \in DOMAIN m.content |-> <<"system", "text", m.content[i]>>]
  BY <1>2, Zenon DEF Rq!Blocks
<1> QED BY <1>1, <1>3, <1>4, <1>5, <1>6, Zenon

\* A request of the Anthropic form, message by message.
Requests == [system : Seq(Text), messages : Seq(Utterance)]
Put(r, m) == IF m.role = "system" THEN [r EXCEPT !.system = @ \o m.content]
             ELSE [r EXCEPT !.messages = @ \o Rq!ToAnMsg(m)]
EmptyRequest == [system |-> <<>>, messages |-> <<>>]
Puts(put, ms, n) == put = [i \in 0 .. n |-> IF i = 0 THEN EmptyRequest ELSE Put(put[i - 1], ms[i])]

LEMMA Putting ==
  ASSUME NEW m, Shaped(m), NEW r \in Requests
  PROVE  /\ Put(r, m) \in Requests
         /\ m.role = "system" =>
              Put(r, m).system = r.system \o m.content /\ Put(r, m).messages = r.messages
         /\ m.role # "system" =>
              Put(r, m).system = r.system /\ Put(r, m).messages = r.messages \o Rq!ToAnMsg(m)
<1>1. r.system \in Seq(Text) /\ r.messages \in Seq(Utterance) /\ r = [system |-> r.system, messages |-> r.messages]
  BY DEF Requests
<1>2. CASE m.role = "system"
  <2>1. PICK s \in Seq(Text) : s = r.system \o m.content
    BY <1>1, <1>2, SystemAlike, Concat
  <2>2. Put(r, m) = [r EXCEPT !.system = s]
    BY <1>2, <2>1 DEF Put
  <2> QED BY <1>2, <2>1, <2>2 DEF Requests
<1>3. CASE m.role # "system"
  <2>1. PICK s \in Seq(Utterance) : s = r.messages \o Rq!ToAnMsg(m)
    BY <1>1, <1>3, SpokenAlike, Concat
  <2>2. Put(r, m) = [r EXCEPT !.messages = s]
    BY <1>3, <2>1 DEF Put
  <2> QED BY <1>3, <2>1, <2>2 DEF Requests
<1> QED BY <1>2, <1>3

\* The recursive function of anRequest exists.
LEMMA PutsAll ==
  ASSUME NEW n \in Nat, NEW ms, \A i \in 1 .. n : Shaped(ms[i])
  PROVE  \E put : Puts(put, ms, n)
<1> DEFINE g == [i \in 1 .. n |-> [r \in Requests |-> Put(r, ms[i])]]
<1>1. \A i \in 1 .. n : [r \in Requests |-> Put(r, ms[i])] \in [Requests -> Requests]
  BY Putting
<1>2. Folds(g, n, Requests)
  BY <1>1 DEF Folds
<1>3. \A i \in 1 .. n, r \in Requests : g[i][r] = Put(r, ms[i])
  OBVIOUS
<1> HIDE DEF g
<1>4. EmptyRequest \in Requests
  BY DEF EmptyRequest, Requests
<1>5. PICK f : Folded(f, EmptyRequest, g, n, Requests)
  BY <1>2, <1>4, Recursion
<1>6. f \in [0 .. n -> Requests] /\ f[0] = EmptyRequest /\ \A i \in 1 .. n : f[i] = g[i][f[i - 1]]
  BY <1>5 DEF Folded
<1>7. \A i \in 1 .. n : f[i] = Put(f[i - 1], ms[i])
  <2> SUFFICES ASSUME NEW i \in 1 .. n PROVE f[i] = Put(f[i - 1], ms[i])
    OBVIOUS
  <2>1. i - 1 \in 0 .. n
    OBVIOUS
  <2>2. f[i - 1] \in Requests
    BY <1>6, <2>1
  <2> QED BY <1>3, <1>6, <2>2
<1>8. \A i \in 0 .. n : f[i] = IF i = 0 THEN EmptyRequest ELSE Put(f[i - 1], ms[i])
  <2> SUFFICES ASSUME NEW i \in 0 .. n PROVE f[i] = IF i = 0 THEN EmptyRequest ELSE Put(f[i - 1], ms[i])
    OBVIOUS
  <2>1. CASE i = 0
    BY <1>6, <2>1
  <2>2. CASE i # 0
    <3>1. i \in 1 .. n
      BY <2>2
    <3> QED BY <1>7, <2>2, <3>1
  <2> QED BY <2>1, <2>2
<1>9. f = [i \in 0 .. n |-> f[i]]
  BY <1>6
<1> QED BY <1>8, <1>9, Zenon DEF Puts

\* w and r are the same conversation on the two wires.
SameWire(w, r) == r \in Requests /\ w = Cat(Mapping(Tell, r.system), Mapping(Hear, r.messages))

LEMMA MapNothing == ASSUME NEW F PROVE Mapping(F, <<>>) = <<>>
<1>1. DOMAIN <<>> = {}
  OBVIOUS
<1>2. Mapping(F, <<>>) = [i \in {} |-> F[<<>>[i]]]
  BY <1>1 DEF Mapping
<1> QED BY <1>2

LEMMA Associates ==
  ASSUME NEW S, NEW a \in Seq(S), NEW b \in Seq(S), NEW c \in Seq(S)
  PROVE  Cat(Cat(a, b), c) = Cat(a, Cat(b, c)) /\ Cat(a, <<>>) = a /\ Cat(a, b) \in Seq(S)
BY DEF Cat

\* With one more message they still are: the system speaks before anyone else does.
LEMMA WireStep ==
  ASSUME NEW w, NEW r, SameWire(w, r), NEW m, Shaped(m), m.role = "system" => r.messages = <<>>
  PROVE  /\ SameWire(w \o Rq!OpenAI(m), Put(r, m))
         /\ m.role = "system" => Put(r, m).messages = <<>>
<1>1. r \in Requests /\ w = Cat(Mapping(Tell, r.system), Mapping(Hear, r.messages))
  BY Zenon DEF SameWire
<1>2. r.system \in Seq(Text) /\ r.messages \in Seq(Utterance)
  BY <1>1 DEF Requests
<1>3. PICK q \in Requests : q = Put(r, m)
  BY <1>1, Putting
<1>4. PICK a \in Seq(Utterance) : a = Mapping(Tell, r.system)
  BY <1>2, Tells
<1>5. CASE m.role = "system"
  <2>1. m.content \in Seq(Text) /\ Rq!OpenAI(m) = Mapping(Tell, m.content)
    BY <1>5, SystemAlike
  <2>2. q.system = Cat(r.system, m.content) /\ q.messages = <<>>
    BY <1>1, <1>3, <1>5, Putting DEF Cat
  <2>3. PICK o \in Seq(Utterance) : o = Mapping(Tell, m.content)
    BY <2>1, Tells
  <2>4. Mapping(Tell, q.system) = Cat(a, o)
    <3>1. Distributes(Tell, r.system, m.content)
      BY <1>2, <2>1, Tells
    <3>2. Mapping(Tell, Cat(r.system, m.content)) = Cat(Mapping(Tell, r.system), Mapping(Tell, m.content))
      BY <3>1, Zenon DEF Distributes
    <3> QED BY <1>4, <2>2, <2>3, <3>2, Zenon
  <2>5. w = a
    <3>1. w = Cat(a, <<>>)
      BY <1>1, <1>4, <1>5, MapNothing, Zenon
    <3>2. Cat(a, <<>>) = a
      BY DEF Cat
    <3> QED BY <3>1, <3>2, Zenon
  <2>6. w \o Rq!OpenAI(m) = Cat(a, o)
    BY <2>1, <2>3, <2>5, Zenon DEF Cat
  <2>7. Cat(Mapping(Tell, q.system), Mapping(Hear, q.messages)) = Cat(a, o)
    <3>1. Cat(a, o) \in Seq(Utterance)
      BY DEF Cat
    <3>2. Cat(Cat(a, o), <<>>) = Cat(a, o)
      <4>1. PICK b \in Seq(Utterance) : b = Cat(a, o)
        BY <3>1
      <4>2. Cat(b, <<>>) = b
        BY DEF Cat
      <4> QED BY <4>1, <4>2, Zenon
    <3>3. Mapping(Hear, q.messages) = <<>>
      BY <2>2, MapNothing, Zenon
    <3> QED BY <2>4, <3>2, <3>3, Zenon
  <2>8. SameWire(w \o Rq!OpenAI(m), q)
    BY <2>6, <2>7, Zenon DEF SameWire
  <2> QED BY <1>3, <2>2, <2>8, Zenon
<1>6. CASE m.role # "system"
  <2>1. PICK t \in Seq(Utterance) : t = Rq!ToAnMsg(m) /\ Rq!OpenAI(m) = Mapping(Hear, t)
    BY <1>6, SpokenAlike
  <2>2. q.system = r.system /\ q.messages = Cat(r.messages, t)
    BY <1>1, <1>3, <1>6, <2>1, Putting DEF Cat
  <2>3. PICK b \in Seq(Utterance) : b = Mapping(Hear, r.messages)
    BY <1>2, Heards
  <2>4. PICK o \in Seq(Utterance) : o = Mapping(Hear, t)
    BY <2>1, Heards
  <2>5. Mapping(Hear, q.messages) = Cat(b, o)
    <3>1. Distributes(Hear, r.messages, t)
      BY <1>2, Heards
    <3>2. Mapping(Hear, Cat(r.messages, t)) = Cat(Mapping(Hear, r.messages), Mapping(Hear, t))
      BY <3>1, Zenon DEF Distributes
    <3> QED BY <2>2, <2>3, <2>4, <3>2, Zenon
  <2>6. Cat(Cat(a, b), o) = Cat(a, Cat(b, o))
    BY DEF Cat
  <2>7. w \o Rq!OpenAI(m) = Cat(Cat(a, b), o)
    <3>1. w = Cat(a, b)
      BY <1>1, <1>4, <2>3, Zenon
    <3> QED BY <2>1, <2>4, <3>1, Zenon DEF Cat
  <2>8. SameWire(w \o Rq!OpenAI(m), q)
    <3>1. Cat(Mapping(Tell, q.system), Mapping(Hear, q.messages)) = Cat(a, Cat(b, o))
      BY <1>4, <2>2, <2>5, Zenon
    <3> QED BY <2>6, <2>7, <3>1, Zenon DEF SameWire
  <2> QED BY <1>3, <1>6, <2>8, Zenon
<1> QED BY <1>5, <1>6

\* What the messages of a request become on either wire.
Wires(wire, r, ss, n, ms) ==
  /\ n \in Nat /\ n = Len(ms) /\ SeqsOf(ss, n, Utterance) /\ \A i \in 1 .. n : ss[i] = Rq!OpenAI(ms[i])
  /\ \E off : Placed(off, ss, n, wire)
  /\ SameWire(wire, r) /\ wire \in Seq(Utterance)

\* A conversation is the same on both wires.
LEMMA Wired ==
  ASSUME NEW ms, NEW k, Conversation(ms, k)
  PROVE  \E ss : Wires(Rq!OARequest(ms), Rq!AnRequest(ms), ss, Len(ms), ms)
<1>1. ms \in Seq(Sent) /\ k \in 0 .. Len(ms)
  BY DEF Conversation, Dialogue
<1>2. PICK n \in Nat : n = Len(ms) /\ DOMAIN ms = 1 .. n /\ k \in 0 .. n
  BY <1>1
<1>3. \A i \in 1 .. n : Shaped(ms[i])
  BY <1>2, Zenon DEF Conversation, Dialogue, Talk
<1>4. \A i \in 1 .. n : ms[i].role = "system" <=> i =< k
  BY <1>2, Zenon DEF Conversation
<1>5. PICK ss : ss = [i \in 1 .. n |-> Rq!OpenAI(ms[i])]
  OBVIOUS
<1>6. \A i \in 1 .. n : Rq!OpenAI(ms[i]) \in Seq(Utterance)
  BY <1>3, WordedIs DEF Worded
<1>7. ss \in [1 .. n -> Seq(Utterance)]
  BY <1>5, <1>6, Zenon
<1>8. Joinable(ss, n, Utterance) /\ SeqsOf(ss, n, Utterance)
  <2>1. Len(ss) = n /\ (n = 0 => ss = <<>>)
    BY <1>7
  <2> QED BY <1>7, <2>1 DEF Joinable, SeqsOf
<1>9. Rq!OARequest(ms) = Rq!FlattenSeq(ss)
  BY <1>2, <1>5 DEF Rq!OARequest
<1>10. PICK wire : wire = Rq!OARequest(ms) /\ (\E off : Placed(off, ss, n, wire))
                    /\ wire \in Seq(Utterance)
  BY <1>8, <1>9, Flat
<1>11. PICK f : Joins(f, ss, n)
  BY <1>8, Joining
<1>12. wire = f[n]
  BY <1>8, <1>9, <1>10, <1>11, FlatIs, Zenon
<1>13. f[0] = <<>> /\ \A i \in 1 .. n : f[i] = f[i - 1] \o ss[i]
  BY <1>11, JoinsSteps, Zenon
<1> DEFINE formed(p) == [i \in 0 .. n |-> IF i = 0 THEN [system |-> <<>>, messages |-> <<>>]
                         ELSE IF ms[i].role = "system" THEN [p[i - 1] EXCEPT !.system = @ \o ms[i].content]
                         ELSE [p[i - 1] EXCEPT !.messages = @ \o Rq!ToAnMsg(ms[i])]]
           put == CHOOSE p : p = formed(p)
<1>14. ASSUME NEW p PROVE Puts(p, ms, n) <=> p = formed(p)
  BY Zenon DEF Puts, Put, EmptyRequest
<1>15. put = formed(put)
  <2>1. \E p : p = formed(p)
    BY <1>3, <1>14, PutsAll, Zenon
  <2> QED BY <2>1, Zenon
<1>16. Rq!AnRequest(ms) = put[n]
  BY <1>2, Zenon DEF Rq!AnRequest
<1> HIDE DEF put, formed
<1>17. Puts(put, ms, n)
  BY <1>14, <1>15, Zenon
<1>18. put[0] = EmptyRequest /\ \A i \in 1 .. n : put[i] = Put(put[i - 1], ms[i])
  <2>1. put = [i \in 0 .. n |-> IF i = 0 THEN EmptyRequest ELSE Put(put[i - 1], ms[i])]
    BY <1>17, Zenon DEF Puts
  <2>2. put[0] = EmptyRequest
    <3>1. 0 \in 0 .. n
      OBVIOUS
    <3> QED BY <2>1, <3>1
  <2>3. ASSUME NEW i \in 1 .. n PROVE put[i] = Put(put[i - 1], ms[i])
    <3>1. i \in 0 .. n /\ i # 0
      OBVIOUS
    <3> QED BY <2>1, <3>1
  <2> QED BY <2>2, <2>3
<1> DEFINE Good == {i \in 0 .. n : SameWire(f[i], put[i]) /\ (i =< k => put[i].messages = <<>>)}
<1>19. 0 \in Good
  <2>1. EmptyRequest \in Requests /\ EmptyRequest.messages = <<>> /\ EmptyRequest.system = <<>>
    BY DEF EmptyRequest, Requests
  <2>2. Cat(<<>>, <<>>) = <<>>
    BY DEF Cat
  <2>3. SameWire(<<>>, EmptyRequest)
    BY <2>1, <2>2, MapNothing, Zenon DEF SameWire
  <2>4. SameWire(f[0], put[0]) /\ put[0].messages = <<>>
    BY <1>13, <1>18, <2>1, <2>3, Zenon
  <2> QED BY <2>4
<1>20. \A i \in 1 .. n : i - 1 \in Good => i \in Good
  <2> SUFFICES ASSUME NEW i \in 1 .. n, SameWire(f[i - 1], put[i - 1]),
                      i - 1 =< k => put[i - 1].messages = <<>>
               PROVE  SameWire(f[i], put[i]) /\ (i =< k => put[i].messages = <<>>)
    OBVIOUS
  <2>1. ms[i].role = "system" => put[i - 1].messages = <<>>
    <3>1. i =< k => i - 1 =< k
      BY <1>2
    <3> QED BY <1>4, <3>1
  <2>2. SameWire(f[i - 1] \o Rq!OpenAI(ms[i]), Put(put[i - 1], ms[i]))
        /\ (ms[i].role = "system" => Put(put[i - 1], ms[i]).messages = <<>>)
    BY <1>3, <2>1, WireStep
  <2>3. f[i] = f[i - 1] \o Rq!OpenAI(ms[i]) /\ put[i] = Put(put[i - 1], ms[i])
    BY <1>5, <1>13, <1>18
  <2> QED BY <1>4, <2>2, <2>3
<1> HIDE DEF Good
<1>21. \A i \in 0 .. n : i \in Good
  BY <1>19, <1>20, Induct
<1>22. SameWire(wire, put[n])
  <2>1. n \in Good
    BY <1>21
  <2> QED BY <1>12, <2>1, Zenon DEF Good
<1>23. \A i \in 1 .. n : ss[i] = Rq!OpenAI(ms[i])
  BY <1>5
<1>24. Wires(wire, put[n], ss, n, ms)
  BY <1>2, <1>8, <1>10, <1>22, <1>23, Zenon DEF Wires
<1> QED BY <1>2, <1>10, <1>16, <1>24, Zenon

\* The blocks of a conversation, message by message.
Laid(wire, ss, off, n, ms) ==
  /\ n \in Nat /\ SeqsOf(ss, n, Utterance) /\ Placed(off, ss, n, wire) /\ Talk(ms, 1 .. n)
  /\ \A i \in 1 .. n : Worded(ss[i], ms[i])

SpeaksAt(wire, p, kind) == p \in 1 .. Len(wire) /\ wire[p][2] = kind

\* The call at p is the t-th of the i-th message; the result at p is the m-th message.
CallOf(wire, ss, off, ms, p, i, j, t) ==
  /\ p = off[i - 1] + j /\ wire[p][3] = ms[i].calls[t]
  /\ Len(ms[i].calls) \in Nat /\ Len(ss[i]) - Len(ms[i].calls) \in Nat
  /\ j = Len(ss[i]) - Len(ms[i].calls) + t
ResultOf(wire, off, ms, p, m) ==
  ms[m].role = "tool" /\ p = off[m - 1] + 1 /\ <<wire[p][3]>> = ms[m].answers
Resulting(wire, ss, off, ms, m) ==
  /\ SpeaksAt(wire, off[m - 1] + 1, "result") /\ <<wire[off[m - 1] + 1][3]>> = ms[m].answers
  /\ Len(ss[m]) = 1 /\ off[m] = off[m - 1] + 1
CallsFor(wire, p, id) == SpeaksAt(wire, p, "call") /\ wire[p][3] = id

\* Where the calls and the results of a wire come from, and where those of a message are.
LEMMA CallAt ==
  ASSUME NEW wire, NEW ss, NEW off, NEW n, NEW ms, Laid(wire, ss, off, n, ms),
         NEW p, SpeaksAt(wire, p, "call")
  PROVE  \E i \in 1 .. n : \E j \in 1 .. Len(ss[i]) : \E t \in 1 .. Len(ms[i].calls) :
           CallOf(wire, ss, off, ms, p, i, j, t)
<1>1. Spots(off, ss, n, wire) /\ \A i \in 1 .. n : Worded(ss[i], ms[i])
  BY Spotted, Zenon DEF Laid
<1>0. p \in 1 .. Len(wire) /\ wire[p][2] = "call"
  BY Zenon DEF SpeaksAt
<1>2. PICK i \in 1 .. n : \E j \in 1 .. Len(ss[i]) : p = off[i - 1] + j /\ wire[p] = ss[i][j]
  BY <1>0, <1>1, Zenon DEF Spots
<1>3. PICK j \in 1 .. Len(ss[i]) : p = off[i - 1] + j /\ wire[p] = ss[i][j]
  BY <1>2, Zenon
<1>4. /\ Len(ms[i].calls) \in Nat /\ Len(ss[i]) - Len(ms[i].calls) \in Nat
      /\ ss[i][j][2] = "call" <=> j > Len(ss[i]) - Len(ms[i].calls)
      /\ \A t \in 1 .. Len(ms[i].calls) : ss[i][Len(ss[i]) - Len(ms[i].calls) + t][3] = ms[i].calls[t]
  BY <1>1, Zenon DEF Worded
<1>5. Len(ss[i]) \in Nat
  BY DEF Laid, SeqsOf
<1>6. PICK l \in Nat, c \in Nat, b \in Nat : l = Len(ss[i]) /\ c = Len(ms[i].calls) /\ b = l - c
                                              /\ b = Len(ss[i]) - Len(ms[i].calls)
  BY <1>4, <1>5
<1>7. j > b
  <2>1. ss[i][j][2] = "call"
    BY <1>0, <1>3, Zenon
  <2>2. j > Len(ss[i]) - Len(ms[i].calls)
    BY <1>4, <2>1, Zenon
  <2> QED BY <1>6, <2>2
<1>8. PICK t \in 1 .. c : j = b + t
  <2>0. b = l - c /\ j \in 1 .. l /\ j > b
    BY <1>6, <1>7, Zenon
  <2>1. j - b \in 1 .. c /\ j = b + (j - b)
    BY <2>0
  <2> QED BY <2>1
<1>9. ss[i][b + t][3] = ms[i].calls[t]
  BY <1>4, <1>6, <1>8
<1>10. wire[p][3] = ms[i].calls[t]
  BY <1>3, <1>8, <1>9
<1>11. t \in 1 .. Len(ms[i].calls) /\ j = Len(ss[i]) - Len(ms[i].calls) + t
  BY <1>6, <1>8
<1>12. CallOf(wire, ss, off, ms, p, i, j, t)
  BY <1>3, <1>4, <1>10, <1>11, Zenon DEF CallOf
<1> QED BY <1>11, <1>12, Zenon

LEMMA ResultAt ==
  ASSUME NEW wire, NEW ss, NEW off, NEW n, NEW ms, Laid(wire, ss, off, n, ms),
         NEW p, SpeaksAt(wire, p, "result")
  PROVE  \E m \in 1 .. n : ResultOf(wire, off, ms, p, m)
<1>1. Spots(off, ss, n, wire) /\ \A i \in 1 .. n : Worded(ss[i], ms[i])
  BY Spotted, Zenon DEF Laid
<1>0. p \in 1 .. Len(wire) /\ wire[p][2] = "result"
  BY Zenon DEF SpeaksAt
<1>2. PICK m \in 1 .. n : \E j \in 1 .. Len(ss[m]) : p = off[m - 1] + j /\ wire[p] = ss[m][j]
  BY <1>0, <1>1, Zenon DEF Spots
<1>3. PICK j \in 1 .. Len(ss[m]) : p = off[m - 1] + j /\ wire[p] = ss[m][j]
  BY <1>2, Zenon
<1>4. ms[m].role = "tool"
  <2>1. ss[m][j][2] = "result"
    BY <1>0, <1>3, Zenon
  <2> QED BY <1>1, <2>1, Zenon DEF Worded
<1>5. Len(ss[m]) = 1 /\ <<ss[m][1][3]>> = ms[m].answers
  BY <1>1, <1>4, Zenon DEF Worded
<1>6. j = 1
  BY <1>5
<1>7. p = off[m - 1] + 1 /\ wire[p] = ss[m][1]
  BY <1>3, <1>6, Zenon
<1> QED BY <1>4, <1>5, <1>7, Zenon DEF ResultOf

LEMMA ToolAt ==
  ASSUME NEW wire, NEW ss, NEW off, NEW n, NEW ms, Laid(wire, ss, off, n, ms),
         NEW m \in 1 .. n, ms[m].role = "tool"
  PROVE  Resulting(wire, ss, off, ms, m)
<1>1. Spots(off, ss, n, wire) /\ \A i \in 1 .. n : Worded(ss[i], ms[i])
  BY Spotted, Zenon DEF Laid
<1>2. Len(ss[m]) = 1 /\ ss[m][1][2] = "result" /\ <<ss[m][1][3]>> = ms[m].answers
  BY <1>1, Zenon DEF Worded
<1>3. 1 \in 1 .. Len(ss[m])
  BY <1>2
<1>4. off[m - 1] + 1 \in 1 .. Len(wire) /\ wire[off[m - 1] + 1] = ss[m][1]
  BY <1>1, <1>3, Zenon DEF Spots
<1>5. off[m] = off[m - 1] + Len(ss[m])
  BY Zenon DEF Laid, Placed
<1>6. SpeaksAt(wire, off[m - 1] + 1, "result")
  BY <1>2, <1>4, Zenon DEF SpeaksAt
<1>7. <<wire[off[m - 1] + 1][3]>> = ms[m].answers
  BY <1>2, <1>4, Zenon
<1>8. off[m] = off[m - 1] + 1
  BY <1>2, <1>5
<1> QED BY <1>2, <1>6, <1>7, <1>8, Zenon DEF Resulting

LEMMA CalledAt ==
  ASSUME NEW wire, NEW ss, NEW off, NEW n, NEW ms, Laid(wire, ss, off, n, ms),
         NEW m \in 1 .. n, NEW t \in 1 .. Len(ms[m].calls)
  PROVE  \E p : CallsFor(wire, p, ms[m].calls[t])
<1>1. Spots(off, ss, n, wire) /\ \A i \in 1 .. n : Worded(ss[i], ms[i])
  BY Spotted, Zenon DEF Laid
<1>2. /\ Len(ms[m].calls) \in Nat /\ Len(ss[m]) - Len(ms[m].calls) \in Nat
      /\ \A j \in 1 .. Len(ss[m]) : ss[m][j][2] = "call" <=> j > Len(ss[m]) - Len(ms[m].calls)
      /\ ss[m][Len(ss[m]) - Len(ms[m].calls) + t][3] = ms[m].calls[t]
  BY <1>1, Zenon DEF Worded
<1>3. Len(ss[m]) \in Nat
  BY DEF Laid, SeqsOf
<1>4. PICK l \in Nat, c \in Nat, b \in Nat : l = Len(ss[m]) /\ c = Len(ms[m].calls) /\ b = l - c
                                              /\ b = Len(ss[m]) - Len(ms[m].calls)
  BY <1>2, <1>3
<1>5. PICK j \in 1 .. l : j = b + t /\ j > b
  <2>1. t \in 1 .. c
    BY <1>4, Zenon
  <2>2. b + t \in 1 .. l /\ b + t > b
    <3>1. b = l - c
      BY <1>4, Zenon
    <3> QED BY <2>1, <3>1
  <2> QED BY <2>2
<1>6. j \in 1 .. Len(ss[m])
  BY <1>4
<1>7. ss[m][j][2] = "call"
  <2>1. j > Len(ss[m]) - Len(ms[m].calls)
    BY <1>4, <1>5
  <2> QED BY <1>2, <1>6, <2>1, Zenon
<1>8. ss[m][j][3] = ms[m].calls[t]
  BY <1>2, <1>4, <1>5
<1>9. off[m - 1] + j \in 1 .. Len(wire) /\ wire[off[m - 1] + j] = ss[m][j]
  BY <1>1, <1>6, Zenon DEF Spots
<1>10. CallsFor(wire, off[m - 1] + j, ms[m].calls[t])
  BY <1>7, <1>8, <1>9, Zenon DEF SpeaksAt, CallsFor
<1> QED BY <1>10, Zenon

\* What follows a call up to its answer are calls and results.
Answered(wire, c, r) ==
  /\ SpeaksAt(wire, r, "result") /\ wire[r][3] = wire[c][3] /\ r > c
  /\ \A k \in c + 1 .. r - 1 : wire[k][2] \in {"call", "result"}

\* Every call is answered before anyone else speaks.
LEMMA CallAnswered ==
  ASSUME NEW wire, NEW ss, NEW off, NEW n, NEW ms, Laid(wire, ss, off, n, ms),
         NEW c, SpeaksAt(wire, c, "call")
  PROVE  \E r : Answered(wire, c, r)
<1>1. n \in Nat /\ Spots(off, ss, n, wire) /\ Talk(ms, 1 .. n) /\ (\A i \in 1 .. n : Worded(ss[i], ms[i]))
      /\ Placed(off, ss, n, wire)
  BY Spotted, Zenon DEF Laid
<1>2. PICK i \in 1 .. n : \E j \in 1 .. Len(ss[i]) : \E t \in 1 .. Len(ms[i].calls) :
        CallOf(wire, ss, off, ms, c, i, j, t)
  BY CallAt, Zenon
<1>3. PICK j \in 1 .. Len(ss[i]) : \E t \in 1 .. Len(ms[i].calls) : CallOf(wire, ss, off, ms, c, i, j, t)
  BY <1>2, Zenon
<1>0. PICK t \in 1 .. Len(ms[i].calls) : CallOf(wire, ss, off, ms, c, i, j, t)
  BY <1>3, Zenon
<1>4. /\ c = off[i - 1] + j /\ wire[c][3] = ms[i].calls[t]
      /\ Len(ms[i].calls) \in Nat /\ Len(ss[i]) - Len(ms[i].calls) \in Nat
      /\ j = Len(ss[i]) - Len(ms[i].calls) + t
  BY <1>0, Zenon DEF CallOf
<1>5. PICK base \in Nat, calls \in Nat : base = Len(ss[i]) - Len(ms[i].calls) /\ calls = Len(ms[i].calls)
                                         /\ t \in 1 .. calls /\ j = base + t
  BY <1>4
<1>6. \A s \in 1 .. calls : i + s \in 1 .. n /\ ms[i + s].role = "tool" /\ ms[i + s].answers = <<ms[i].calls[s]>>
  <2>1. \A s \in 1 .. Len(ms[i].calls) :
          i + s \in 1 .. n /\ ms[i + s].role = "tool" /\ ms[i + s].answers = <<ms[i].calls[s]>>
    BY <1>1, Zenon DEF Talk
  <2> QED BY <1>5, <2>1
<1>7. PICK m \in 1 .. n : m = i + t /\ ms[m].role = "tool" /\ ms[m].answers = <<ms[i].calls[t]>>
  BY <1>5, <1>6
<1>9. PICK r : /\ r = off[m - 1] + 1 /\ SpeaksAt(wire, r, "result") /\ <<wire[r][3]>> = ms[m].answers
               /\ off[m] = r
  <2>1. Resulting(wire, ss, off, ms, m)
    <3>1. ms[m].role = "tool"
      BY <1>7, Zenon
    <3> QED BY <3>1, ToolAt, Zenon
  <2> QED BY <2>1, Zenon DEF Resulting
<1>8. r = off[m - 1] + 1 /\ r \in 1 .. Len(wire)
  BY <1>9, Zenon DEF SpeaksAt
<1>10. wire[r][3] = wire[c][3]
  <2>1. <<wire[r][3]>> = <<wire[c][3]>>
    BY <1>4, <1>7, <1>9, Zenon
  <2> QED BY <2>1
<1>11. /\ off \in [0 .. n -> Nat] /\ \A a \in 1 .. n : off[a] = off[a - 1] + Len(ss[a])
       /\ \A a, b \in 0 .. n : a =< b => off[a] =< off[b]
  BY <1>1, Zenon DEF Placed
<1>12. \A a \in 1 .. n : Len(ss[a]) \in Nat
  BY DEF Laid, SeqsOf
<1>13. \A a \in 1 .. n : off[a - 1] \in Nat /\ off[a] \in Nat /\ a - 1 \in 0 .. n /\ a \in 0 .. n
  <2>1. n \in Nat /\ off \in [0 .. n -> Nat]
    BY <1>1, <1>11, Zenon
  <2>2. \A a \in 1 .. n : a - 1 \in 0 .. n /\ a \in 0 .. n
    BY <2>1
  <2>3. \A a \in 0 .. n : off[a] \in Nat
    BY <2>1
  <2> QED BY <2>2, <2>3, Zenon
<1>14. c =< off[i] /\ c \in Nat /\ r \in Nat
  <2>1. PICK x \in Nat, l \in Nat : x = off[i - 1] /\ l = Len(ss[i])
    BY <1>12, <1>13
  <2>2. off[i] = x + l /\ c = x + j /\ j \in 1 .. l
    <3>1. off[i] = off[i - 1] + Len(ss[i])
      BY <1>11, Zenon
    <3>2. c = off[i - 1] + j
      BY <1>4, Zenon
    <3>3. j \in 1 .. l
      BY <2>1, Zenon
    <3> QED BY <2>1, <3>1, <3>2, <3>3, Zenon
  <2>3. r \in Nat
    BY <1>9, <1>13
  <2>4. x + j =< x + l /\ x + j \in Nat
    <3>1. j \in 1 .. l
      BY <2>2, Zenon
    <3> QED BY <3>1
  <2> QED BY <2>2, <2>3, <2>4, Zenon
<1>15. r > c
  <2>1. i =< m - 1
    BY <1>7
  <2>2. off[i] =< off[m - 1]
    BY <1>11, <1>13, <2>1, Zenon
  <2>3. PICK x \in Nat, y \in Nat : x = off[i] /\ y = off[m - 1]
    BY <1>13
  <2> QED BY <1>8, <1>14, <2>2, <2>3
<1>16. ASSUME NEW k \in c + 1 .. r - 1 PROVE wire[k][2] \in {"call", "result"}
  <2>1. k \in 1 .. Len(wire) /\ c < k /\ k < r /\ k \in Nat
    <3>1. PICK w \in Int : w = Len(wire) /\ r \in 1 .. w
      <4>1. Len(wire) = off[n]
        BY <1>1, Zenon DEF Placed
      <4>2. n \in 1 .. n
        BY <1>1
      <4>3. Len(wire) \in Nat
        BY <1>13, <4>1, <4>2, Zenon
      <4> QED BY <1>8, <4>3
    <3> QED BY <1>14, <3>1
  <2>2. PICK a \in 1 .. n : \E b \in 1 .. Len(ss[a]) : k = off[a - 1] + b /\ wire[k] = ss[a][b]
    BY <1>1, <2>1, Zenon DEF Spots
  <2>3. PICK b \in 1 .. Len(ss[a]) : k = off[a - 1] + b /\ wire[k] = ss[a][b]
    BY <2>2, Zenon
  <2>4. PICK x \in Nat, l \in Nat : x = off[a - 1] /\ l = Len(ss[a]) /\ off[a] = x + l /\ b \in 1 .. l /\ k = x + b
    BY <1>11, <1>12, <1>13, <2>3
  <2>5. CASE a < i
    <3>1. a =< i - 1
      BY <2>5
    <3>2. off[a] =< off[i - 1]
      BY <1>11, <1>13, <3>1, Zenon
    <3>3. PICK y \in Nat : y = off[i - 1]
      BY <1>13
    <3>4. c = y + j /\ j \in Nat /\ x + l =< y
      <4>1. c = off[i - 1] + j
        BY <1>4, Zenon
      <4>2. j \in Nat
        BY <1>5
      <4>3. x + l =< y
        BY <2>4, <3>2, <3>3, Zenon
      <4> QED BY <3>3, <4>1, <4>2, <4>3, Zenon
    <3>5. k =< x + l /\ c < k
      BY <2>1, <2>4
    <3>6. j \in Nat /\ c = y + j /\ x + l =< y /\ k =< x + l /\ c < k /\ c \in Nat /\ k \in Nat
      BY <1>14, <2>1, <3>4, <3>5, Zenon
    <3>7. FALSE
      BY <3>6
    <3> QED BY <3>7
  <2>6. CASE a = i
    <3>1. b > base
      <4>1. c = x + j
        BY <1>4, <2>4, <2>6, Zenon
      <4>2. x + j < x + b /\ x \in Nat /\ b \in Nat
        BY <2>1, <2>4, <4>1
      <4>3. j = base + t /\ base \in Nat /\ t \in Nat /\ t >= 1
        BY <1>5
      <4> QED BY <4>2, <4>3
    <3>2. Worded(ss[i], ms[i]) /\ b \in 1 .. Len(ss[i])
      BY <1>1, <2>6
    <3>3. ss[i][b][2] = "call" <=> b > Len(ss[i]) - Len(ms[i].calls)
      BY <3>2, Zenon DEF Worded
    <3>4. ss[i][b][2] = "call"
      BY <1>5, <3>1, <3>3
    <3> QED BY <2>3, <2>6, <3>4
  <2>7. CASE i < a /\ a =< m
    <3>1. a - i \in 1 .. calls /\ i + (a - i) = a
      BY <1>5, <1>7, <2>7
    <3>2. ms[a].role = "tool"
      BY <1>6, <3>1
    <3>3. Worded(ss[a], ms[a])
      BY <1>1
    <3>4. Len(ss[a]) = 1 /\ ss[a][1][2] = "result"
      BY <3>2, <3>3, Zenon DEF Worded
    <3>5. b = 1
      BY <3>4
    <3> QED BY <2>3, <3>4, <3>5
  <2>8. CASE m < a
    <3>1. m =< a - 1
      BY <2>8
    <3>2. off[m] =< off[a - 1]
      BY <1>11, <1>13, <3>1, Zenon
    <3>3. r =< x
      <4>1. off[m] = r /\ off[a - 1] = x
        BY <1>9, <2>4, Zenon
      <4> QED BY <3>2, <4>1
    <3>4. r =< x /\ k = x + b /\ b \in 1 .. l /\ k < r /\ r \in Nat
      BY <1>14, <2>1, <2>4, <3>3, Zenon
    <3>5. FALSE
      BY <3>4
    <3> QED BY <3>5
  <2> QED BY <2>5, <2>6, <2>7, <2>8
<1>17. Answered(wire, c, r)
  BY <1>9, <1>10, <1>15, <1>16, Zenon DEF Answered
<1> QED BY <1>17

\* What is answered was called.
LEMMA ResultCalled ==
  ASSUME NEW wire, NEW ss, NEW off, NEW n, NEW ms, Laid(wire, ss, off, n, ms),
         NEW r, SpeaksAt(wire, r, "result")
  PROVE  \E c : CallsFor(wire, c, wire[r][3])
<1>0. PICK m \in 1 .. n : ResultOf(wire, off, ms, r, m)
  BY ResultAt, Zenon
<1>1. ms[m].role = "tool" /\ <<wire[r][3]>> = ms[m].answers
  BY <1>0, Zenon DEF ResultOf
<1>2. PICK a \in 1 .. n : \E t \in 1 .. Len(ms[a].calls) : m = a + t
  BY <1>1, Zenon DEF Laid, Talk
<1>3. PICK t \in 1 .. Len(ms[a].calls) : m = a + t
  BY <1>2
<1>4. ms[m].answers = <<ms[a].calls[t]>>
  <2>1. ms[a + t].answers = <<ms[a].calls[t]>>
    BY Zenon DEF Laid, Talk
  <2> QED BY <1>3, <2>1
<1>5. wire[r][3] = ms[a].calls[t]
  <2>1. ASSUME NEW x, NEW y, <<x>> = <<y>> PROVE x = y
    BY <2>1
  <2>2. <<wire[r][3]>> = <<ms[a].calls[t]>>
    BY <1>1, <1>4, Zenon
  <2> QED BY <2>1, <2>2, Zenon
<1>6. PICK c : CallsFor(wire, c, ms[a].calls[t])
  BY CalledAt, Zenon
<1> QED BY <1>5, <1>6, Zenon

\* It is answered once.
LEMMA ResultOnce ==
  ASSUME NEW wire, NEW ss, NEW off, NEW n, NEW ms, Laid(wire, ss, off, n, ms),
         NEW r, SpeaksAt(wire, r, "result"), NEW s, SpeaksAt(wire, s, "result")
  PROVE  wire[r][3] = wire[s][3] => r = s
<1>1. PICK l \in 1 .. n : ResultOf(wire, off, ms, r, l)
  BY ResultAt, Zenon
<1>2. PICK m \in 1 .. n : ResultOf(wire, off, ms, s, m)
  BY ResultAt, Zenon
<1>3. ms[l].role = "tool" /\ r = off[l - 1] + 1 /\ <<wire[r][3]>> = ms[l].answers
  BY <1>1, Zenon DEF ResultOf
<1>4. ms[m].role = "tool" /\ s = off[m - 1] + 1 /\ <<wire[s][3]>> = ms[m].answers
  BY <1>2, Zenon DEF ResultOf
<1>5. wire[r][3] = wire[s][3] => ms[l].answers = ms[m].answers
  <2>1. wire[r][3] = wire[s][3] => <<wire[r][3]>> = <<wire[s][3]>>
    OBVIOUS
  <2> QED BY <1>3, <1>4, <2>1, Zenon
<1>6. ms[l].answers = ms[m].answers => l = m
  BY <1>3, <1>4, Zenon DEF Laid, Talk
<1>7. l = m => r = s
  BY <1>3, <1>4, Zenon
<1> QED BY <1>5, <1>6, <1>7, Zenon

\* What RequestsAreSendable says of the two requests.
Sendable(wire, an) ==
  LET at(kind) == {i \in DOMAIN wire : wire[i][2] = kind}
  IN /\ wire = [i \in DOMAIN an.system |-> <<"system", "text", an.system[i]>>]
               \o [i \in DOMAIN an.messages |-> Rq!Voice(an.messages[i])]
     /\ \A c \in at("call") :
           \E r \in at("result") :
              /\ wire[r][3] = wire[c][3] /\ r > c
              /\ \A k \in (c + 1)..(r - 1) : wire[k][2] \in {"call", "result"}
     /\ \A r \in at("result") : \E c \in at("call") : wire[c][3] = wire[r][3]
     /\ \A r, s \in at("result") : wire[r][3] = wire[s][3] => r = s

\* So a history of that kind can be sent.
LEMMA DialogueIsAnswered ==
  ASSUME HistoryInv
  PROVE  Rq!RequestsAreSendable
<1>1. PICK ms, k : ms = Rq!MapHistory(Rq!LoadHistory) /\ Conversation(ms, k)
  BY Spoken
<1>2. ms = Rq!Spoken
  BY <1>1, Zenon DEF Rq!Spoken
<1>3. PICK wire, an : wire = Rq!OARequest(ms) /\ an = Rq!AnRequest(ms)
  OBVIOUS
<1>4. PICK ss : Wires(wire, an, ss, Len(ms), ms)
  BY <1>1, <1>3, Wired, Zenon
<1>5. PICK n : n = Len(ms)
  OBVIOUS
<1>6. /\ n \in Nat /\ SeqsOf(ss, n, Utterance) /\ SameWire(wire, an) /\ wire \in Seq(Utterance)
      /\ \A i \in 1 .. n : ss[i] = Rq!OpenAI(ms[i])
  BY <1>4, <1>5, Zenon DEF Wires
<1>7. PICK off : Placed(off, ss, n, wire)
  BY <1>4, <1>5, Zenon DEF Wires
<1>8. Talk(ms, 1 .. n)
  BY <1>1, <1>5, Zenon DEF Conversation, Dialogue
<1>9. \A i \in 1 .. n : Worded(ss[i], ms[i])
  <2>1. \A i \in 1 .. n : Shaped(ms[i])
    BY <1>8, Zenon DEF Talk
  <2>2. \A i \in 1 .. n : Worded(Rq!OpenAI(ms[i]), ms[i])
    BY <2>1, WordedIs, Zenon
  <2> QED BY <1>6, <2>2, Zenon
<1>10. Laid(wire, ss, off, n, ms)
  BY <1>6, <1>7, <1>8, <1>9, Zenon DEF Laid
<1>11. wire = [i \in DOMAIN an.system |-> <<"system", "text", an.system[i]>>]
              \o [i \in DOMAIN an.messages |-> Rq!Voice(an.messages[i])]
  <2>1. an.system \in Seq(Text) /\ an.messages \in Seq(Utterance)
    BY <1>6 DEF SameWire, Requests
  <2>2. /\ Mapping(Hear, an.messages) = [i \in DOMAIN an.messages |-> Rq!Voice(an.messages[i])]
        /\ Mapping(Tell, an.system) = [i \in DOMAIN an.system |-> <<"system", "text", an.system[i]>>]
    BY <2>1, Heard, Zenon
  <2>3. wire = Mapping(Tell, an.system) \o Mapping(Hear, an.messages)
    BY <1>6, Zenon DEF SameWire, Cat
  <2> QED BY <2>2, <2>3, Zenon
<1>12. DOMAIN wire = 1 .. Len(wire)
  <2>1. wire \in Seq(Utterance)
    BY <1>6, Zenon
  <2> QED BY <2>1
<1> DEFINE at(kind) == {i \in DOMAIN wire : wire[i][2] = kind}
<1>13. \A kind, i : i \in at(kind) <=> SpeaksAt(wire, i, kind)
  BY <1>12, Zenon DEF SpeaksAt
<1> HIDE DEF at
<1>14. ASSUME NEW c \in at("call")
       PROVE  \E r \in at("result") :
                 /\ wire[r][3] = wire[c][3] /\ r > c
                 /\ \A x \in (c + 1)..(r - 1) : wire[x][2] \in {"call", "result"}
  <2>1. PICK r : Answered(wire, c, r)
    BY <1>10, <1>13, CallAnswered, Zenon
  <2> QED BY <1>13, <2>1, Zenon DEF Answered
<1>15. ASSUME NEW r \in at("result") PROVE \E c \in at("call") : wire[c][3] = wire[r][3]
  <2>1. PICK c : CallsFor(wire, c, wire[r][3])
    BY <1>10, <1>13, ResultCalled, Zenon
  <2> QED BY <1>13, <2>1, Zenon DEF CallsFor
<1>16. \A r, s \in at("result") : wire[r][3] = wire[s][3] => r = s
  BY <1>10, <1>13, ResultOnce, Zenon
<1>17. wire = Rq!OARequest(Rq!Spoken) /\ an = Rq!AnRequest(Rq!Spoken)
  BY <1>2, <1>3, Zenon
<1>18. Sendable(wire, an)
  <2>1. \A c \in at("call") : \E r \in at("result") :
           /\ wire[r][3] = wire[c][3] /\ r > c
           /\ \A x \in (c + 1)..(r - 1) : wire[x][2] \in {"call", "result"}
    BY <1>14, Zenon
  <2>2. \A r \in at("result") : \E c \in at("call") : wire[c][3] = wire[r][3]
    BY <1>15, Zenon
  <2> QED BY <1>11, <1>16, <2>1, <2>2, Zenon DEF Sendable, at
<1>19. Sendable(Rq!OARequest(Rq!Spoken), Rq!AnRequest(Rq!Spoken))
  BY <1>17, <1>18, Zenon
<1> QED BY <1>19, Zenon DEF Rq!RequestsAreSendable, Sendable

\* For any models and any number of messages and parts, however rounds were cut short: the two
\* drivers send the same conversation, in which each call is answered once, before anyone else
\* speaks, and nothing else is (mapHistory in session/history.go, oaRequest and anRequest).
THEOREM RequestsAreAnswered == Rq!Spec => []RequestsAreSendable
<1>1. Rq!Init => HistoryInv
  BY HistoryInit
<1>2. HistoryInv /\ [Rq!Next]_Rq!vars => HistoryInv'
  BY HistoryNext
<1>3. HistoryInv => RequestsAreSendable
  BY DialogueIsAnswered DEF RequestsAreSendable
<1> QED BY <1>1, <1>2, <1>3, PTL DEF Rq!Spec

-----------------------------------------------------------------------------
(* Sequences that are filtered, or grow by one. *)

\* Driver and Request put sequences together alike.
LEMMA SameFlat == ASSUME NEW ss PROVE Dr!FlattenSeq(ss) = Rq!FlattenSeq(ss)
BY DEF Dr!FlattenSeq, Rq!FlattenSeq

\* Sequences put together are a sequence of the same.
LEMMA Flattened ==
  ASSUME NEW S, NEW n, NEW ss, Joinable(ss, n, S)
  PROVE  Dr!FlattenSeq(ss) \in Seq(S) /\ \E off : Placed(off, ss, n, Dr!FlattenSeq(ss))
<1>1. PICK w : w = Rq!FlattenSeq(ss)
  OBVIOUS
<1>2. w = Dr!FlattenSeq(ss)
  BY <1>1, SameFlat, Zenon
<1>3. w \in Seq(S) /\ \E off : Placed(off, ss, n, w)
  BY <1>1, Flat, Zenon
<1> QED BY <1>2, <1>3, Zenon

\* ss is tt and one more.
Lengthens(ss, tt, n, S) == n \in Nat /\ Joinable(ss, n + 1, S) /\ Joinable(tt, n, S) /\ Extends(ss, tt, n)

\* One more sequence comes to stand after the others.
LEMMA Grown ==
  ASSUME NEW S, NEW n, NEW ss, NEW tt, Lengthens(ss, tt, n, S)
  PROVE  Dr!FlattenSeq(ss) = Cat(Dr!FlattenSeq(tt), ss[n + 1])
<1>1. n \in Nat /\ Joinable(ss, n + 1, S) /\ Joinable(tt, n, S) /\ Extends(ss, tt, n)
  BY DEF Lengthens
<1>2. Rq!FlattenSeq(ss) = Cat(Rq!FlattenSeq(tt), ss[n + 1])
  BY <1>1, FlatLast, Zenon DEF Cat
<1> QED BY <1>2, SameFlat, Zenon

\* w is v[i] for the i that are kept, the x-th of them e[x].
SiftedAt(w, keep, v, n, e) ==
  /\ \A x \in 1 .. Len(w) : e[x] \in 1 .. n /\ keep[e[x]] /\ w[x] = v[e[x]]
  /\ \A x, y \in 1 .. Len(w) : x < y => e[x] < e[y]
  /\ \A i \in 1 .. n : keep[i] => \E x \in 1 .. Len(w) : e[x] = i
Sifting(ss, keep, v, n) == ss = [i \in 1 .. n |-> IF keep[i] THEN <<v[i]>> ELSE <<>>]

\* Sequences of one kept value or of none can be put together.
LEMMA Sifts ==
  ASSUME NEW S, NEW n \in Nat, NEW keep, NEW v, \A i \in 1 .. n : keep[i] => v[i] \in S,
         NEW ss, Sifting(ss, keep, v, n)
  PROVE  Joinable(ss, n, S)
BY DEF Joinable, SeqsOf, Sifting

\* What is kept is some of the values, in their order.
LEMMA Sifted ==
  ASSUME NEW S, NEW n \in Nat, NEW keep, NEW v, \A i \in 1 .. n : keep[i] => v[i] \in S,
         NEW ss, Sifting(ss, keep, v, n)
  PROVE  Dr!FlattenSeq(ss) \in Seq(S) /\ \E e : SiftedAt(Dr!FlattenSeq(ss), keep, v, n, e)
<1>1. Joinable(ss, n, S) /\ SeqsOf(ss, n, S)
  BY Sifts DEF Joinable
<1>2. PICK w : w = Dr!FlattenSeq(ss)
  OBVIOUS
<1>3. w \in Seq(S)
  BY <1>1, <1>2, Flattened, Zenon
<1>4. PICK off : Placed(off, ss, n, w)
  BY <1>1, <1>2, Flattened, Zenon
<1>5. /\ off \in [0 .. n -> Nat]
      /\ \A i, j \in 0 .. n : i =< j => off[i] =< off[j]
      /\ \A i \in 1 .. n : \A j \in 1 .. Len(ss[i]) : w[off[i - 1] + j] = ss[i][j]
      /\ \A p \in 1 .. Len(w) : \E i \in 1 .. n : \E j \in 1 .. Len(ss[i]) : p = off[i - 1] + j
  BY <1>4 DEF Placed
<1>6. \A i \in 1 .. n : \A j \in 1 .. Len(ss[i]) : j = 1 /\ keep[i] /\ ss[i][j] = v[i]
  BY DEF Sifting
<1>7. \A i \in 1 .. n : keep[i] => 1 \in 1 .. Len(ss[i])
  BY DEF Sifting
<1>8. \A p \in 1 .. Len(w) : \E i \in 1 .. n : p = off[i - 1] + 1 /\ keep[i] /\ w[p] = v[i]
  <2> SUFFICES ASSUME NEW p \in 1 .. Len(w)
               PROVE  \E i \in 1 .. n : p = off[i - 1] + 1 /\ keep[i] /\ w[p] = v[i]
    OBVIOUS
  <2>1. PICK i \in 1 .. n : \E j \in 1 .. Len(ss[i]) : p = off[i - 1] + j
    BY <1>5
  <2>2. PICK j \in 1 .. Len(ss[i]) : p = off[i - 1] + j
    BY <2>1
  <2>3. j = 1 /\ keep[i] /\ ss[i][j] = v[i]
    BY <1>6, Zenon
  <2>4. w[p] = ss[i][j]
    BY <1>5, <2>2, Zenon
  <2> QED BY <2>2, <2>3, <2>4
<1> DEFINE e == [p \in 1 .. Len(w) |-> CHOOSE i \in 1 .. n : p = off[i - 1] + 1 /\ keep[i] /\ w[p] = v[i]]
<1>9. \A x \in 1 .. Len(w) : e[x] \in 1 .. n /\ x = off[e[x] - 1] + 1 /\ keep[e[x]] /\ w[x] = v[e[x]]
  BY <1>8
<1> HIDE DEF e
<1>10. ASSUME NEW x \in 1 .. Len(w), NEW y \in 1 .. Len(w), x < y PROVE e[x] < e[y]
  <2>1. PICK i \in 1 .. n : i = e[x]
    BY <1>9
  <2>2. PICK k \in 1 .. n : k = e[y]
    BY <1>9
  <2>3. x = off[i - 1] + 1 /\ y = off[k - 1] + 1
    BY <1>9, <2>1, <2>2, Zenon
  <2>4. i - 1 \in 0 .. n /\ k - 1 \in 0 .. n
    OBVIOUS
  <2>5. off[i - 1] \in Nat /\ off[k - 1] \in Nat /\ (k - 1 =< i - 1 => off[k - 1] =< off[i - 1])
    BY <1>5, <2>4
  <2>6. off[i - 1] < off[k - 1]
    BY <1>10, <2>3, <2>5
  <2>7. i < k
    BY <2>5, <2>6
  <2> QED BY <2>1, <2>2, <2>7, Zenon
<1>11. ASSUME NEW i \in 1 .. n, keep[i] PROVE \E x \in 1 .. Len(w) : e[x] = i
  <2>1. 1 \in 1 .. Len(ss[i])
    BY <1>7, <1>11, Zenon
  <2>2. Spots(off, ss, n, w)
    BY <1>1, <1>4, Spotted
  <2>3. off[i - 1] \in Nat /\ off[i - 1] + 1 \in 1 .. Len(w)
    BY <2>1, <2>2, Zenon DEF Spots
  <2>4. PICK x \in 1 .. Len(w) : x = off[i - 1] + 1
    BY <2>3
  <2>5. PICK k \in 1 .. n : k = e[x]
    BY <1>9
  <2>6. x = off[k - 1] + 1 /\ keep[k]
    BY <1>9, <2>5, Zenon
  <2>7. 1 \in 1 .. Len(ss[k])
    BY <1>7, <2>6, Zenon
  <2>8. off[i - 1] + 1 = off[k - 1] + 1
    BY <2>4, <2>6
  <2>9. i = k
    BY <1>1, <1>4, <2>1, <2>7, <2>8, OnePlace, Zenon
  <2> QED BY <2>5, <2>9, Zenon
<1>12. SiftedAt(w, keep, v, n, e)
  BY <1>9, <1>10, <1>11, Zenon DEF SiftedAt
<1> QED BY <1>2, <1>3, <1>12, Zenon

\* Nothing is left when nothing is kept.
LEMMA SiftedNone ==
  ASSUME NEW n \in Nat, NEW keep, NEW v, \A i \in 1 .. n : ~keep[i], NEW ss, Sifting(ss, keep, v, n)
  PROVE  Dr!FlattenSeq(ss) = <<>>
<1>1. \A i \in 1 .. n : keep[i] => v[i] \in Nat
  BY Zenon
<1>2. PICK w : w = Dr!FlattenSeq(ss)
  OBVIOUS
<1>3. w \in Seq(Nat) /\ \E e : SiftedAt(w, keep, v, n, e)
  BY <1>1, <1>2, Sifted, Zenon
<1>4. PICK e : SiftedAt(w, keep, v, n, e)
  BY <1>3
<1>5. \A x \in 1 .. Len(w) : FALSE
  BY <1>4, Zenon DEF SiftedAt
<1>6. w = <<>>
  BY <1>3, <1>5
<1> QED BY <1>2, <1>6

-----------------------------------------------------------------------------
(* The calls the OpenAI driver puts together. *)

\* The latest of some numbers is their greatest.
LEMMA LatestOf ==
  ASSUME NEW n \in Nat, NEW T \in SUBSET (1 .. n), T # {}
  PROVE  Dr!Latest(T) \in T /\ \A j \in T : j =< Dr!Latest(T)
<1> DEFINE bounds == {b \in Nat : \A j \in T : j =< b}
<1>1. n \in bounds
  OBVIOUS
<1>2. PICK b \in bounds : \A c \in bounds : b =< c
  BY <1>1, Least
<1>3. b \in T
  <2> SUFFICES ASSUME b \notin T PROVE FALSE
    OBVIOUS
  <2>1. \A j \in T : j =< b - 1
    BY <1>2
  <2>2. b - 1 \in Nat
    <3>1. PICK j \in T : TRUE
      OBVIOUS
    <3>2. j \in Nat /\ 1 =< j /\ j =< b - 1 /\ b \in Nat
      BY <2>1, <1>2
    <3> QED BY <3>2
  <2>3. b - 1 \in bounds
    BY <2>1, <2>2
  <2> QED BY <1>2, <2>3
<1>4. \E i \in T : \A j \in T : j =< i
  BY <1>2, <1>3
<1> QED BY <1>4, Zenon DEF Dr!Latest

LEMMA LatestIs ==
  ASSUME NEW T \in SUBSET Nat, NEW i \in T, \A j \in T : j =< i
  PROVE  Dr!Latest(T) = i
<1>1. \A k \in T : (\A j \in T : j =< k) => k = i
  OBVIOUS
<1> QED BY <1>1, Zenon DEF Dr!Latest

Frag == [index : Int, id : STRING, name : STRING, args : BOOLEAN]
Piece == [frag : Frag, at : Nat]

\* ys is xs and x.
Longer(ys, xs, x) ==
  /\ xs \in Seq(Piece) /\ x \in Piece /\ ys \in Seq(Piece) /\ Len(ys) = Len(xs) + 1
  /\ \A i \in 1 .. Len(xs) : ys[i] = xs[i]
  /\ ys[Len(xs) + 1] = x
Fresh(xs, x) == \A j \in 1 .. Len(xs) : xs[j].frag.index # x.frag.index
Firsts(xs) == [i \in 1 .. Len(xs) |-> \A j \in 1 .. i - 1 : xs[j].frag.index # xs[i].frag.index]
Indexes(xs) == [i \in 1 .. Len(xs) |-> xs[i].frag.index]

\* The order of the calls keeps the index of each first fragment.
LEMMA OrderSifts ==
  ASSUME NEW xs \in Seq(Piece)
  PROVE  \E ss : Dr!Order(xs) = Dr!FlattenSeq(ss) /\ Sifting(ss, Firsts(xs), Indexes(xs), Len(xs))
<1> DEFINE ss == [i \in DOMAIN xs |->
      Dr!If(\A j \in 1 .. i - 1 : xs[j].frag.index # xs[i].frag.index, xs[i].frag.index)]
<1>1. Dr!Order(xs) = Dr!FlattenSeq(ss)
  BY Zenon DEF Dr!Order
<1>2. DOMAIN xs = 1 .. Len(xs)
  OBVIOUS
<1>3. ss = [i \in 1 .. Len(xs) |-> IF Firsts(xs)[i] THEN <<Indexes(xs)[i]>> ELSE <<>>]
  BY <1>2 DEF Firsts, Indexes, Dr!If
<1> QED BY <1>1, <1>3, Zenon DEF Sifting

LEMMA PieceIndexes ==
  ASSUME NEW xs \in Seq(Piece)
  PROVE  \A i \in 1 .. Len(xs) : xs[i].frag \in Frag /\ xs[i].frag.index \in Int /\ xs[i].at \in Nat
<1> SUFFICES ASSUME NEW i \in 1 .. Len(xs)
             PROVE  xs[i].frag \in Frag /\ xs[i].frag.index \in Int /\ xs[i].at \in Nat
  OBVIOUS
<1>1. xs[i] \in Piece
  OBVIOUS
<1>2. PICK p \in Piece : p = xs[i]
  BY <1>1
<1>3. p.frag \in Frag /\ p.at \in Nat
  BY DEF Piece
<1>4. p.frag.index \in Int
  BY <1>3 DEF Frag
<1> QED BY <1>2, <1>3, <1>4

\* Every index has one place in the order.
Orders(w, xs) ==
  /\ w \in Seq(Int)
  /\ \A k, l \in 1 .. Len(w) : w[k] = w[l] => k = l
  /\ \A k \in 1 .. Len(w) : \E i \in 1 .. Len(xs) : w[k] = xs[i].frag.index
  /\ \A i \in 1 .. Len(xs) : \E k \in 1 .. Len(w) : w[k] = xs[i].frag.index

\* Every index a fragment has is in the order once.
LEMMA Ordered ==
  ASSUME NEW xs \in Seq(Piece)
  PROVE  Orders(Dr!Order(xs), xs)
<1>1. PICK n \in Nat : n = Len(xs)
  OBVIOUS
<1>2. PICK ss : Dr!Order(xs) = Dr!FlattenSeq(ss) /\ Sifting(ss, Firsts(xs), Indexes(xs), n)
  BY <1>1, OrderSifts, Zenon
<1>3. \A i \in 1 .. n : xs[i].frag.index \in Int /\ Indexes(xs)[i] = xs[i].frag.index
  BY <1>1, PieceIndexes DEF Indexes
<1>4. PICK w : w = Dr!Order(xs)
  OBVIOUS
<1>5. w \in Seq(Int) /\ \E e : SiftedAt(w, Firsts(xs), Indexes(xs), n, e)
  <2>1. \A i \in 1 .. n : Firsts(xs)[i] => Indexes(xs)[i] \in Int
    BY <1>3
  <2>2. Dr!FlattenSeq(ss) \in Seq(Int) /\ \E e : SiftedAt(Dr!FlattenSeq(ss), Firsts(xs), Indexes(xs), n, e)
    BY <1>2, <2>1, Sifted, Zenon
  <2> QED BY <1>2, <1>4, <2>2, Zenon
<1>6. PICK e : SiftedAt(w, Firsts(xs), Indexes(xs), n, e)
  BY <1>5
<1>7. /\ \A k \in 1 .. Len(w) : e[k] \in 1 .. n /\ Firsts(xs)[e[k]] /\ w[k] = Indexes(xs)[e[k]]
      /\ \A x, y \in 1 .. Len(w) : x < y => e[x] < e[y]
      /\ \A i \in 1 .. n : Firsts(xs)[i] => \E x \in 1 .. Len(w) : e[x] = i
  BY <1>6 DEF SiftedAt
<1>8. \A k \in 1 .. Len(w) : w[k] = xs[e[k]].frag.index
  BY <1>3, <1>7
<1>9. ASSUME NEW k \in 1 .. Len(w), NEW l \in 1 .. Len(w), k < l PROVE w[k] # w[l]
  <2>1. PICK i \in 1 .. n, j \in 1 .. n : i = e[k] /\ j = e[l]
    BY <1>7
  <2>2. i < j
    BY <1>7, <1>9, <2>1
  <2>3. Firsts(xs)[j]
    BY <1>7, <2>1
  <2>4. xs[i].frag.index # xs[j].frag.index
    BY <1>1, <2>2, <2>3 DEF Firsts
  <2> QED BY <1>8, <2>1, <2>4
<1>10. \A k, l \in 1 .. Len(w) : w[k] = w[l] => k = l
  <2>1. Len(w) \in Nat
    BY <1>5
  <2> QED BY <1>9, <2>1
<1>11. ASSUME NEW i \in 1 .. n PROVE \E k \in 1 .. Len(w) : w[k] = xs[i].frag.index
  <2> DEFINE same == {j \in 1 .. n : xs[j].frag.index = xs[i].frag.index}
  <2>1. i \in same /\ same \in SUBSET Nat
    OBVIOUS
  <2>2. PICK j \in same : \A l \in same : j =< l
    <3> HIDE DEF same
    <3> QED BY <2>1, Least
  <2>5. j \in 1 .. n /\ xs[j].frag.index = xs[i].frag.index
    OBVIOUS
  <2>3. Firsts(xs)[j]
    <3>1. \A l \in 1 .. j - 1 : xs[l].frag.index # xs[i].frag.index
      <4> SUFFICES ASSUME NEW l \in 1 .. j - 1, xs[l].frag.index = xs[i].frag.index PROVE FALSE
        OBVIOUS
      <4>1. l \in 1 .. n /\ l < j /\ l \in Nat /\ j \in Nat
        BY <2>5
      <4>2. l \in same
        BY <4>1
      <4>3. j =< l
        BY <2>2, <4>2, Zenon
      <4> QED BY <4>1, <4>3
    <3>2. \A l \in 1 .. j - 1 : xs[l].frag.index # xs[j].frag.index
      BY <2>5, <3>1, Zenon
    <3>3. Firsts(xs)[j] = \A l \in 1 .. j - 1 : xs[l].frag.index # xs[j].frag.index
      BY <1>1, <2>5 DEF Firsts
    <3> QED BY <3>2, <3>3, Zenon
  <2>4. PICK k \in 1 .. Len(w) : e[k] = j
    BY <1>7, <2>5, <2>3
  <2> QED BY <1>8, <2>4, <2>5
<1>12. Orders(w, xs)
  <2>1. \A k \in 1 .. Len(w) : \E i \in 1 .. n : w[k] = xs[i].frag.index
    BY <1>7, <1>8, Zenon
  <2> QED BY <1>1, <1>5, <1>10, <1>11, <2>1, Zenon DEF Orders
<1> QED BY <1>4, <1>12, Zenon

\* A further fragment adds its index to the order if it is new.
LEMMA OrderGrows ==
  ASSUME NEW ys, NEW xs, NEW x, Longer(ys, xs, x)
  PROVE  Dr!Order(ys) = Cat(Dr!Order(xs), Dr!If(Fresh(xs, x), x.frag.index))
<1>1. PICK n \in Nat : n = Len(xs) /\ xs \in Seq(Piece) /\ ys \in Seq(Piece) /\ Len(ys) = n + 1
  BY DEF Longer
<1>2. PICK ss : Dr!Order(ys) = Dr!FlattenSeq(ss) /\ Sifting(ss, Firsts(ys), Indexes(ys), n + 1)
  BY <1>1, OrderSifts, Zenon
<1>3. PICK tt : Dr!Order(xs) = Dr!FlattenSeq(tt) /\ Sifting(tt, Firsts(xs), Indexes(xs), n)
  BY <1>1, OrderSifts, Zenon
<1>4. /\ \A i \in 1 .. n : Firsts(ys)[i] = Firsts(xs)[i] /\ Indexes(ys)[i] = Indexes(xs)[i]
      /\ Firsts(ys)[n + 1] = Fresh(xs, x) /\ Indexes(ys)[n + 1] = x.frag.index
  <2>1. (\A i \in 1 .. n : ys[i] = xs[i]) /\ ys[n + 1] = x
    BY <1>1 DEF Longer
  <2>2. \A i \in 1 .. n : Indexes(ys)[i] = Indexes(xs)[i]
    BY <1>1, <2>1 DEF Indexes
  <2>3. Indexes(ys)[n + 1] = x.frag.index
    BY <1>1, <2>1 DEF Indexes
  <2>4. ASSUME NEW i \in 1 .. n PROVE Firsts(ys)[i] = Firsts(xs)[i]
    <3>1. /\ Firsts(ys)[i] = \A j \in 1 .. i - 1 : ys[j].frag.index # ys[i].frag.index
          /\ Firsts(xs)[i] = \A j \in 1 .. i - 1 : xs[j].frag.index # xs[i].frag.index
      <4>1. i \in 1 .. Len(ys) /\ i \in 1 .. Len(xs)
        BY <1>1
      <4> QED BY <4>1, Zenon DEF Firsts
    <3>2. ys[i] = xs[i] /\ \A j \in 1 .. i - 1 : ys[j] = xs[j]
      BY <2>1
    <3> QED BY <3>1, <3>2
  <2>5. Firsts(ys)[n + 1] = Fresh(xs, x)
    <3>1. PICK k \in Nat : k = n + 1 /\ k \in 1 .. Len(ys)
      BY <1>1
    <3>2. Firsts(ys)[k] = \A j \in 1 .. k - 1 : ys[j].frag.index # ys[k].frag.index
      BY <3>1, Zenon DEF Firsts
    <3>3. 1 .. k - 1 = 1 .. n
      BY <3>1
    <3>4. ys[k] = x
      BY <2>1, <3>1
    <3>5. (\A j \in 1 .. k - 1 : ys[j].frag.index # ys[k].frag.index) <=> Fresh(xs, x)
      BY <1>1, <2>1, <3>3, <3>4, Zenon DEF Fresh
    <3>6. Fresh(xs, x) \in BOOLEAN
      BY DEF Fresh
    <3>7. Firsts(ys)[k] = Fresh(xs, x)
      BY <3>2, <3>5, <3>6, Zenon
    <3> QED BY <3>1, <3>7, Zenon
  <2> QED BY <2>2, <2>3, <2>4, <2>5
<1>5. (\A i \in 1 .. n : Indexes(xs)[i] \in Int) /\ \A i \in 1 .. n + 1 : Indexes(ys)[i] \in Int
  BY <1>1, PieceIndexes DEF Indexes
<1>6. Joinable(ss, n + 1, Int) /\ Joinable(tt, n, Int)
  BY <1>2, <1>3, <1>5, Sifts, n + 1 \in Nat
<1>7. Extends(ss, tt, n) /\ ss[n + 1] = Dr!If(Fresh(xs, x), x.frag.index)
  BY <1>2, <1>3, <1>4 DEF Extends, Sifting, Dr!If
<1>8. Lengthens(ss, tt, n, Int)
  BY <1>6, <1>7, Zenon DEF Lengthens
<1>9. Dr!FlattenSeq(ss) = Cat(Dr!FlattenSeq(tt), ss[n + 1])
  BY <1>8, Grown, Zenon
<1> QED BY <1>2, <1>3, <1>7, <1>9

Argued(xs, idx) == [i \in 1 .. Len(xs) |-> xs[i].frag.index = idx /\ xs[i].frag.args]
Places(xs) == [i \in 1 .. Len(xs) |-> xs[i].at]

LEMMA PiecesSift ==
  ASSUME NEW xs \in Seq(Piece), NEW idx
  PROVE  \E ss : Dr!Pieces(xs, idx) = Dr!FlattenSeq(ss) /\ Sifting(ss, Argued(xs, idx), Places(xs), Len(xs))
<1> DEFINE ss == [i \in DOMAIN xs |->
      Dr!If(xs[i].frag.index = idx /\ xs[i].frag.args, xs[i].at)]
<1>1. Dr!Pieces(xs, idx) = Dr!FlattenSeq(ss)
  BY Zenon DEF Dr!Pieces
<1>2. DOMAIN xs = 1 .. Len(xs)
  OBVIOUS
<1>3. ss = [i \in 1 .. Len(xs) |-> IF Argued(xs, idx)[i] THEN <<Places(xs)[i]>> ELSE <<>>]
  BY <1>2 DEF Argued, Places, Dr!If
<1> QED BY <1>1, <1>3, Zenon DEF Sifting

\* A further fragment adds its piece to the call of its index, and to no other.
LEMMA PiecesGrow ==
  ASSUME NEW ys, NEW xs, NEW x, Longer(ys, xs, x), NEW idx
  PROVE  /\ Dr!Pieces(xs, idx) \in Seq(Nat)
         /\ Dr!Pieces(ys, idx) = Cat(Dr!Pieces(xs, idx), Dr!If(x.frag.index = idx /\ x.frag.args, x.at))
<1>1. PICK n \in Nat : n = Len(xs) /\ xs \in Seq(Piece) /\ ys \in Seq(Piece) /\ Len(ys) = n + 1
  BY DEF Longer
<1>2. PICK ss : Dr!Pieces(ys, idx) = Dr!FlattenSeq(ss) /\ Sifting(ss, Argued(ys, idx), Places(ys), n + 1)
  BY <1>1, PiecesSift, Zenon
<1>3. PICK tt : Dr!Pieces(xs, idx) = Dr!FlattenSeq(tt) /\ Sifting(tt, Argued(xs, idx), Places(xs), n)
  BY <1>1, PiecesSift, Zenon
<1>4. /\ \A i \in 1 .. n : Argued(ys, idx)[i] = Argued(xs, idx)[i] /\ Places(ys)[i] = Places(xs)[i]
      /\ Argued(ys, idx)[n + 1] = (x.frag.index = idx /\ x.frag.args) /\ Places(ys)[n + 1] = x.at
  <2>1. (\A i \in 1 .. n : ys[i] = xs[i]) /\ ys[n + 1] = x
    BY <1>1 DEF Longer
  <2>2. n + 1 \in 1 .. Len(ys) /\ \A i \in 1 .. n : i \in 1 .. Len(ys) /\ i \in 1 .. Len(xs)
    BY <1>1
  <2> QED BY <2>1, <2>2, Zenon DEF Argued, Places
<1>5. (\A i \in 1 .. n : Places(xs)[i] \in Nat) /\ \A i \in 1 .. n + 1 : Places(ys)[i] \in Nat
  BY <1>1, PieceIndexes DEF Places
<1>6. Joinable(ss, n + 1, Nat) /\ Joinable(tt, n, Nat)
  BY <1>2, <1>3, <1>5, Sifts, n + 1 \in Nat
<1>7. Extends(ss, tt, n) /\ ss[n + 1] = Dr!If(x.frag.index = idx /\ x.frag.args, x.at)
  <2>1. n + 1 \in 1 .. n + 1 /\ \A i \in 1 .. n : i \in 1 .. n + 1
    OBVIOUS
  <2>2. /\ \A i \in 1 .. n + 1 : ss[i] = IF Argued(ys, idx)[i] THEN <<Places(ys)[i]>> ELSE <<>>
        /\ \A i \in 1 .. n : tt[i] = IF Argued(xs, idx)[i] THEN <<Places(xs)[i]>> ELSE <<>>
    BY <1>2, <1>3, Zenon DEF Sifting
  <2>3. Extends(ss, tt, n)
    BY <1>4, <2>1, <2>2, Zenon DEF Extends
  <2>4. ss[n + 1] = IF x.frag.index = idx /\ x.frag.args THEN <<x.at>> ELSE <<>>
    BY <1>4, <2>1, <2>2, Zenon
  <2> QED BY <2>3, <2>4, Zenon DEF Dr!If
<1>8. Lengthens(ss, tt, n, Nat)
  BY <1>6, <1>7, Zenon DEF Lengthens
<1>9. Dr!FlattenSeq(ss) = Cat(Dr!FlattenSeq(tt), ss[n + 1])
  BY <1>8, Grown, Zenon
<1>10. Dr!FlattenSeq(tt) \in Seq(Nat)
  BY <1>6, Flattened, Zenon
<1> QED BY <1>2, <1>3, <1>7, <1>9, <1>10

\* The latest id and name that were given for an index.
Given(xs, idx) == {i \in DOMAIN xs : xs[i].frag.index = idx /\ xs[i].frag.id # ""}
Named(xs, idx) == {i \in DOMAIN xs : xs[i].frag.index = idx /\ xs[i].frag.name # ""}
LatestTakes(ys, xs, x, idx) ==
  /\ Dr!LatestId(ys, idx) = IF x.frag.index = idx /\ x.frag.id # "" THEN x.frag.id ELSE Dr!LatestId(xs, idx)
  /\ Dr!LatestName(ys, idx) = IF x.frag.index = idx /\ x.frag.name # "" THEN x.frag.name ELSE Dr!LatestName(xs, idx)

\* A further fragment gives the call of its index an id or a name, if it has one.
LEMMA LatestGrows ==
  ASSUME NEW ys, NEW xs, NEW x, Longer(ys, xs, x), NEW idx
  PROVE  LatestTakes(ys, xs, x, idx)
<1>1. PICK n \in Nat : n = Len(xs) /\ xs \in Seq(Piece) /\ ys \in Seq(Piece) /\ Len(ys) = n + 1
  BY DEF Longer
<1>2. (\A i \in 1 .. n : ys[i] = xs[i]) /\ ys[n + 1] = x
  BY <1>1 DEF Longer
<1>3. DOMAIN xs = 1 .. n /\ DOMAIN ys = 1 .. n + 1
  BY <1>1
<1>4. ASSUME NEW T, NEW U, NEW b, T \in SUBSET (1 .. n), U \in SUBSET (1 .. n + 1), b \in BOOLEAN,
             \A i \in 1 .. n : i \in U <=> i \in T, n + 1 \in U <=> b
      PROVE  /\ b => U # {} /\ Dr!Latest(U) = n + 1
             /\ ~b => U = T
             /\ T # {} => Dr!Latest(T) \in 1 .. n
  <2>1. ASSUME b PROVE U # {} /\ Dr!Latest(U) = n + 1
    <3>1. n + 1 \in U /\ U \in SUBSET Nat /\ \A j \in U : j =< n + 1
      BY <1>4, <2>1
    <3> QED BY <3>1, LatestIs
  <2>2. ASSUME ~b PROVE U = T
    <3>1. n + 1 \notin U /\ \A i \in U : i \in 1 .. n + 1
      BY <1>4, <2>2
    <3>2. \A i \in 1 .. n + 1 : i # n + 1 => i \in 1 .. n
      OBVIOUS
    <3>3. \A i \in U : i \in 1 .. n
      BY <3>1, <3>2, Zenon
    <3>4. \A i \in T : i \in 1 .. n
      BY <1>4
    <3> QED BY <1>4, <3>3, <3>4, Zenon
  <2>3. T # {} => Dr!Latest(T) \in 1 .. n
    BY <1>4, LatestOf
  <2> QED BY <2>1, <2>2, <2>3
<1>5. Dr!LatestId(ys, idx) = IF x.frag.index = idx /\ x.frag.id # "" THEN x.frag.id ELSE Dr!LatestId(xs, idx)
  <2> DEFINE T == Given(xs, idx)
             U == Given(ys, idx)
             b == x.frag.index = idx /\ x.frag.id # ""
  <2>1. /\ Dr!LatestId(xs, idx) = IF T = {} THEN "" ELSE xs[Dr!Latest(T)].frag.id
        /\ Dr!LatestId(ys, idx) = IF U = {} THEN "" ELSE ys[Dr!Latest(U)].frag.id
    BY Zenon DEF Dr!LatestId, Given
  <2>2. /\ T \in SUBSET (1 .. n) /\ U \in SUBSET (1 .. n + 1)
        /\ \A i \in 1 .. n : i \in U <=> i \in T
        /\ n + 1 \in U <=> b
    <3>1. T = {i \in 1 .. n : xs[i].frag.index = idx /\ xs[i].frag.id # ""}
      BY <1>3, Zenon DEF Given
    <3>2. U = {i \in 1 .. n + 1 : ys[i].frag.index = idx /\ ys[i].frag.id # ""}
      BY <1>3, Zenon DEF Given
    <3>3. n + 1 \in 1 .. n + 1 /\ \A i \in 1 .. n : i \in 1 .. n + 1
      OBVIOUS
    <3> HIDE DEF T, U
    <3>4. T \in SUBSET (1 .. n) /\ U \in SUBSET (1 .. n + 1)
      BY <3>1, <3>2, Zenon
    <3>5. \A i \in 1 .. n : i \in U <=> i \in T
      BY <1>2, <3>1, <3>2, <3>3, Zenon
    <3>6. n + 1 \in U <=> b
      BY <1>2, <3>2, <3>3, Zenon DEF b
    <3> QED BY <3>4, <3>5, <3>6, Zenon
  <2> HIDE DEF T, U
  <2>3. /\ b => U # {} /\ Dr!Latest(U) = n + 1
        /\ ~b => U = T
        /\ T # {} => Dr!Latest(T) \in 1 .. n
    BY <1>4, <2>2
  <2> HIDE DEF b
  <2>4. CASE b
    BY <1>2, <2>1, <2>3, <2>4 DEF b
  <2>5. CASE ~b
    BY <1>2, <2>1, <2>3, <2>5 DEF b
  <2> QED BY <2>4, <2>5
<1>6. Dr!LatestName(ys, idx) = IF x.frag.index = idx /\ x.frag.name # "" THEN x.frag.name ELSE Dr!LatestName(xs, idx)
  <2> DEFINE T == Named(xs, idx)
             U == Named(ys, idx)
             b == x.frag.index = idx /\ x.frag.name # ""
  <2>1. /\ Dr!LatestName(xs, idx) = IF T = {} THEN "" ELSE xs[Dr!Latest(T)].frag.name
        /\ Dr!LatestName(ys, idx) = IF U = {} THEN "" ELSE ys[Dr!Latest(U)].frag.name
    BY Zenon DEF Dr!LatestName, Named
  <2>2. /\ T \in SUBSET (1 .. n) /\ U \in SUBSET (1 .. n + 1)
        /\ \A i \in 1 .. n : i \in U <=> i \in T
        /\ n + 1 \in U <=> b
    <3>1. T = {i \in 1 .. n : xs[i].frag.index = idx /\ xs[i].frag.name # ""}
      BY <1>3, Zenon DEF Named
    <3>2. U = {i \in 1 .. n + 1 : ys[i].frag.index = idx /\ ys[i].frag.name # ""}
      BY <1>3, Zenon DEF Named
    <3>3. n + 1 \in 1 .. n + 1 /\ \A i \in 1 .. n : i \in 1 .. n + 1
      OBVIOUS
    <3> HIDE DEF T, U
    <3>4. T \in SUBSET (1 .. n) /\ U \in SUBSET (1 .. n + 1)
      BY <3>1, <3>2, Zenon
    <3>5. \A i \in 1 .. n : i \in U <=> i \in T
      BY <1>2, <3>1, <3>2, <3>3, Zenon
    <3>6. n + 1 \in U <=> b
      BY <1>2, <3>2, <3>3, Zenon DEF b
    <3> QED BY <3>4, <3>5, <3>6, Zenon
  <2> HIDE DEF T, U
  <2>3. /\ b => U # {} /\ Dr!Latest(U) = n + 1
        /\ ~b => U = T
        /\ T # {} => Dr!Latest(T) \in 1 .. n
    BY <1>4, <2>2
  <2> HIDE DEF b
  <2>4. CASE b
    BY <1>2, <2>1, <2>3, <2>4 DEF b
  <2>5. CASE ~b
    BY <1>2, <2>1, <2>3, <2>5 DEF b
  <2> QED BY <2>4, <2>5
<1> QED BY <1>5, <1>6, Zenon DEF LatestTakes

\* The call of an index, as far as its fragments tell it.
ToldOf(xs, idx) == [index |-> idx, id |-> Dr!LatestId(xs, idx), name |-> Dr!LatestName(xs, idx),
                    args |-> Dr!Pieces(xs, idx)]
Told(xs) == [k \in DOMAIN Dr!Order(xs) |-> ToldOf(xs, Dr!Order(xs)[k])]
\* (the provers do not know that a literal is a string)
Strings == STRING \union {"", "stop", "tool_calls", "length", "error"}
Call == [index : Int, id : Strings, name : Strings, args : Seq(Nat)]

LEMMA CallTold ==
  ASSUME NEW xs \in Seq(Piece), NEW idx \in Int
  PROVE  ToldOf(xs, idx) \in Call
<1>1. PICK n \in Nat : n = Len(xs)
  OBVIOUS
<1>2. Dr!Pieces(xs, idx) \in Seq(Nat)
  <2>1. PICK ss : Dr!Pieces(xs, idx) = Dr!FlattenSeq(ss) /\ Sifting(ss, Argued(xs, idx), Places(xs), n)
    BY <1>1, PiecesSift, Zenon
  <2>2. \A i \in 1 .. n : Places(xs)[i] \in Nat
    BY <1>1, PieceIndexes DEF Places
  <2>3. \A i \in 1 .. n : Argued(xs, idx)[i] => Places(xs)[i] \in Nat
    BY <2>2
  <2> QED BY <2>1, <2>3, Sifted, Zenon
<1>3. \A i \in 1 .. n : xs[i].frag.id \in Strings /\ xs[i].frag.name \in Strings
  <2> SUFFICES ASSUME NEW i \in 1 .. n PROVE xs[i].frag.id \in Strings /\ xs[i].frag.name \in Strings
    OBVIOUS
  <2>1. PICK g \in Frag : g = xs[i].frag
    BY <1>1, PieceIndexes
  <2>2. g.id \in Strings /\ g.name \in Strings
    BY DEF Frag, Strings
  <2> QED BY <2>1, <2>2
<1>4. DOMAIN xs = 1 .. n
  BY <1>1
<1>5. Dr!LatestId(xs, idx) \in Strings
  <2> DEFINE T == Given(xs, idx)
  <2>1. /\ T = {} => Dr!LatestId(xs, idx) = ""
        /\ T # {} => Dr!LatestId(xs, idx) = xs[Dr!Latest(T)].frag.id
    BY Zenon DEF Dr!LatestId, Given
  <2>2. T \in SUBSET (1 .. n)
    BY <1>4 DEF Given
  <2> HIDE DEF T
  <2>3. CASE T # {}
    <3>1. PICK i \in 1 .. n : i = Dr!Latest(T)
      BY <2>2, <2>3, LatestOf
    <3> QED BY <1>3, <2>1, <2>3, <3>1, Zenon
  <2>4. CASE T = {}
    <3>1. "" \in Strings
      BY DEF Strings
    <3> QED BY <2>1, <2>4, <3>1, Zenon
  <2> QED BY <2>3, <2>4
<1>6. Dr!LatestName(xs, idx) \in Strings
  <2> DEFINE T == Named(xs, idx)
  <2>1. /\ T = {} => Dr!LatestName(xs, idx) = ""
        /\ T # {} => Dr!LatestName(xs, idx) = xs[Dr!Latest(T)].frag.name
    BY Zenon DEF Dr!LatestName, Named
  <2>2. T \in SUBSET (1 .. n)
    BY <1>4 DEF Named
  <2> HIDE DEF T
  <2>3. CASE T # {}
    <3>1. PICK i \in 1 .. n : i = Dr!Latest(T)
      BY <2>2, <2>3, LatestOf
    <3> QED BY <1>3, <2>1, <2>3, <3>1, Zenon
  <2>4. CASE T = {}
    <3>1. "" \in Strings
      BY DEF Strings
    <3> QED BY <2>1, <2>4, <3>1, Zenon
  <2> QED BY <2>3, <2>4
<1> QED BY <1>2, <1>5, <1>6 DEF ToldOf, Call

\* One more fragment joins the call of its index and leaves the others.
ToldTakes(ys, xs, x, idx) ==
  /\ x.frag.index = idx => ToldOf(ys, idx) = Dr!Joined(ToldOf(xs, idx), x.frag, x.at)
  /\ x.frag.index # idx => ToldOf(ys, idx) = ToldOf(xs, idx)

\* A further fragment joins the call of its index and leaves the others as they are.
LEMMA ToldGrows ==
  ASSUME NEW ys, NEW xs, NEW x, Longer(ys, xs, x), NEW idx
  PROVE  ToldTakes(ys, xs, x, idx)
<1>1. /\ Dr!Pieces(xs, idx) \in Seq(Nat)
      /\ Dr!Pieces(ys, idx) = Cat(Dr!Pieces(xs, idx), Dr!If(x.frag.index = idx /\ x.frag.args, x.at))
  BY PiecesGrow
<1>2. LatestTakes(ys, xs, x, idx)
  BY LatestGrows
<1>3. CASE x.frag.index = idx
  <2>1. Dr!Pieces(ys, idx) = Dr!Pieces(xs, idx) \o Dr!If(x.frag.args, x.at)
    BY <1>1, <1>3 DEF Cat, Dr!If
  <2>2. Dr!LatestId(ys, idx) = IF x.frag.id = "" THEN Dr!LatestId(xs, idx) ELSE x.frag.id
    BY <1>2, <1>3, Zenon DEF LatestTakes
  <2>3. Dr!LatestName(ys, idx) = IF x.frag.name = "" THEN Dr!LatestName(xs, idx) ELSE x.frag.name
    BY <1>2, <1>3, Zenon DEF LatestTakes
  <2>4. Dr!Joined(ToldOf(xs, idx), x.frag, x.at) =
          [index |-> idx, id |-> IF x.frag.id = "" THEN Dr!LatestId(xs, idx) ELSE x.frag.id,
           name |-> IF x.frag.name = "" THEN Dr!LatestName(xs, idx) ELSE x.frag.name,
           args |-> Dr!Pieces(xs, idx) \o Dr!If(x.frag.args, x.at)]
    <3>1. PICK c : c = ToldOf(xs, idx)
      OBVIOUS
    <3>2. /\ c.index = idx /\ c.id = Dr!LatestId(xs, idx) /\ c.name = Dr!LatestName(xs, idx)
          /\ c.args = Dr!Pieces(xs, idx)
      BY <3>1 DEF ToldOf
    <3> QED BY <3>1, <3>2, Zenon DEF Dr!Joined
  <2>5. ToldOf(ys, idx) = Dr!Joined(ToldOf(xs, idx), x.frag, x.at)
    BY <2>1, <2>2, <2>3, <2>4 DEF ToldOf
  <2> QED BY <1>3, <2>5, Zenon DEF ToldTakes
<1>4. CASE x.frag.index # idx
  <2>1. Dr!If(x.frag.index = idx /\ x.frag.args, x.at) = <<>>
    BY <1>4 DEF Dr!If
  <2>2. Dr!Pieces(ys, idx) = Dr!Pieces(xs, idx)
    <3>1. PICK w \in Seq(Nat) : w = Dr!Pieces(xs, idx)
      BY <1>1
    <3>2. Cat(w, <<>>) = w
      BY DEF Cat
    <3> QED BY <1>1, <2>1, <3>1, <3>2, Zenon
  <2>3. Dr!LatestId(ys, idx) = Dr!LatestId(xs, idx) /\ Dr!LatestName(ys, idx) = Dr!LatestName(xs, idx)
    BY <1>2, <1>4, Zenon DEF LatestTakes
  <2>4. ToldOf(ys, idx) = ToldOf(xs, idx)
    BY <2>2, <2>3, Zenon DEF ToldOf
  <2> QED BY <1>4, <2>4, Zenon DEF ToldTakes
<1> QED BY <1>3, <1>4

\* Of an index that has no fragment nothing is told.
LEMMA ToldNothing ==
  ASSUME NEW xs \in Seq(Piece), NEW idx, \A j \in 1 .. Len(xs) : xs[j].frag.index # idx
  PROVE  ToldOf(xs, idx) = Dr!NewCall(idx)
<1>1. PICK n \in Nat : n = Len(xs)
  OBVIOUS
<1>2. DOMAIN xs = 1 .. n
  BY <1>1
<1>3. Dr!LatestId(xs, idx) = "" /\ Dr!LatestName(xs, idx) = ""
  <2>1. Given(xs, idx) = {} /\ Named(xs, idx) = {}
    BY <1>1, <1>2 DEF Given, Named
  <2>2. /\ Dr!LatestId(xs, idx) = IF Given(xs, idx) = {} THEN "" ELSE xs[Dr!Latest(Given(xs, idx))].frag.id
        /\ Dr!LatestName(xs, idx) = IF Named(xs, idx) = {} THEN "" ELSE xs[Dr!Latest(Named(xs, idx))].frag.name
    BY Zenon DEF Dr!LatestId, Given, Dr!LatestName, Named
  <2> QED BY <2>1, <2>2, Zenon
<1>4. Dr!Pieces(xs, idx) = <<>>
  <2>1. PICK ss : Dr!Pieces(xs, idx) = Dr!FlattenSeq(ss) /\ Sifting(ss, Argued(xs, idx), Places(xs), n)
    BY <1>1, PiecesSift, Zenon
  <2>2. \A i \in 1 .. n : ~Argued(xs, idx)[i]
    <3> SUFFICES ASSUME NEW i \in 1 .. n PROVE ~Argued(xs, idx)[i]
      OBVIOUS
    <3>1. Argued(xs, idx)[i] = (xs[i].frag.index = idx /\ xs[i].frag.args)
      BY <1>1, Zenon DEF Argued
    <3> QED BY <1>1, <3>1, Zenon
  <2> QED BY <2>1, <2>2, SiftedNone, Zenon
<1> QED BY <1>3, <1>4, Zenon DEF ToldOf, Dr!NewCall

\* A fragment makes of the calls what is told with it.
LEMMA AddTold ==
  ASSUME NEW ys, NEW xs, NEW x, Longer(ys, xs, x)
  PROVE  Dr!AddFragment(Told(xs), x.frag, x.at) = Told(ys)
<1>1. PICK idx : idx = x.frag.index
  OBVIOUS
<1>2. PICK w : w = Dr!Order(xs)
  OBVIOUS
<1>3. xs \in Seq(Piece) /\ Orders(w, xs)
  BY <1>2, Ordered, Zenon DEF Longer
<1>4. /\ w \in Seq(Int)
      /\ \A k \in 1 .. Len(w) : \E i \in 1 .. Len(xs) : w[k] = xs[i].frag.index
      /\ \A i \in 1 .. Len(xs) : \E k \in 1 .. Len(w) : w[k] = xs[i].frag.index
  BY <1>3 DEF Orders
<1>5. DOMAIN w = 1 .. Len(w) /\ Len(w) \in Nat
  BY <1>4
<1>6. Dr!Order(ys) = Cat(w, Dr!If(Fresh(xs, x), idx))
  BY <1>1, <1>2, OrderGrows, Zenon
<1>7. Told(xs) = [k \in 1 .. Len(w) |-> ToldOf(xs, w[k])]
  BY <1>2, <1>5, Zenon DEF Told
<1>8. PICK t : t = Told(xs)
  OBVIOUS
<1>9. DOMAIN t = 1 .. Len(w) /\ \A k \in 1 .. Len(w) : t[k] = ToldOf(xs, w[k]) /\ t[k].index = w[k]
  BY <1>7, <1>8 DEF ToldOf
<1>10. CASE ~Fresh(xs, x)
  <2>1. \E k \in DOMAIN t : t[k].index = idx
    <3>1. PICK i \in 1 .. Len(xs) : xs[i].frag.index = idx
      BY <1>1, <1>10, Zenon DEF Fresh
    <3>2. PICK k \in 1 .. Len(w) : w[k] = idx
      BY <1>4, <3>1, Zenon
    <3> QED BY <1>9, <3>2, Zenon
  <2>2. Dr!Order(ys) = w
    <3>1. Dr!If(Fresh(xs, x), idx) = <<>>
      BY <1>10 DEF Dr!If
    <3>2. Cat(w, <<>>) = w
      BY <1>4 DEF Cat
    <3> QED BY <1>6, <3>1, <3>2, Zenon
  <2>3. Told(ys) = [k \in 1 .. Len(w) |-> ToldOf(ys, w[k])]
    BY <1>5, <2>2, Zenon DEF Told
  <2>4. Dr!AddFragment(t, x.frag, x.at) =
          [k \in 1 .. Len(w) |-> IF t[k].index = idx THEN Dr!Joined(t[k], x.frag, x.at) ELSE t[k]]
    BY <1>1, <1>9, <2>1, Zenon DEF Dr!AddFragment
  <2>5. \A k \in 1 .. Len(w) :
          ToldOf(ys, w[k]) = IF t[k].index = idx THEN Dr!Joined(t[k], x.frag, x.at) ELSE t[k]
    <3> SUFFICES ASSUME NEW k \in 1 .. Len(w)
                 PROVE  ToldOf(ys, w[k]) = IF t[k].index = idx THEN Dr!Joined(t[k], x.frag, x.at) ELSE t[k]
      OBVIOUS
    <3>1. ToldTakes(ys, xs, x, w[k])
      BY ToldGrows
    <3>2. t[k] = ToldOf(xs, w[k]) /\ t[k].index = w[k]
      BY <1>9
    <3>3. CASE idx = w[k]
      BY <1>1, <3>1, <3>2, <3>3, Zenon DEF ToldTakes
    <3>4. CASE idx # w[k]
      BY <1>1, <3>1, <3>2, <3>4, Zenon DEF ToldTakes
    <3> QED BY <3>3, <3>4
  <2> QED BY <1>8, <2>3, <2>4, <2>5, Zenon
<1>11. CASE Fresh(xs, x)
  <2>1. \A j \in 1 .. Len(xs) : xs[j].frag.index # idx
    BY <1>1, <1>11, Zenon DEF Fresh
  <2>2. ~\E k \in DOMAIN t : t[k].index = idx
    <3> SUFFICES ASSUME NEW k \in DOMAIN t, t[k].index = idx PROVE FALSE
      OBVIOUS
    <3>1. k \in 1 .. Len(w) /\ w[k] = idx
      BY <1>9
    <3> QED BY <1>4, <2>1, <3>1, Zenon
  <2>3. idx \in Int
    <3>1. PICK g \in Frag : g = x.frag
      BY DEF Longer, Piece
    <3> QED BY <1>1, <3>1 DEF Frag
  <2>4. Dr!Order(ys) = Append(w, idx)
    <3>1. Dr!If(Fresh(xs, x), idx) = <<idx>>
      BY <1>11 DEF Dr!If
    <3>2. Cat(w, <<idx>>) = Append(w, idx)
      BY <1>4, <2>3 DEF Cat
    <3> QED BY <1>6, <3>1, <3>2, Zenon
  <2>5. PICK n \in Nat : n = Len(w)
    BY <1>5
  <2>16. PICK m \in Nat : m = n + 1
    OBVIOUS
  <2>6. PICK o : o = Dr!Order(ys)
    OBVIOUS
  <2>7. DOMAIN o = 1 .. m /\ (\A k \in 1 .. n : o[k] = w[k]) /\ o[m] = idx
    BY <1>4, <2>3, <2>4, <2>5, <2>6, <2>16
  <2>8. Told(ys) = [k \in 1 .. m |-> ToldOf(ys, o[k])]
    BY <2>6, <2>7, Zenon DEF Told
  <2>9. PICK c : c = Dr!Joined(Dr!NewCall(idx), x.frag, x.at)
    OBVIOUS
  <2>10. Dr!AddFragment(t, x.frag, x.at) = Append(t, c)
    BY <1>1, <2>2, <2>9, Zenon DEF Dr!AddFragment
  <2>11. ToldOf(ys, idx) = c
    <3>1. ToldOf(xs, idx) = Dr!NewCall(idx)
      BY <1>3, <2>1, ToldNothing, Zenon
    <3>2. ToldTakes(ys, xs, x, idx)
      BY ToldGrows
    <3> QED BY <1>1, <2>9, <3>1, <3>2, Zenon DEF ToldTakes
  <2>12. \A k \in 1 .. n : ToldOf(ys, w[k]) = t[k]
    <3> SUFFICES ASSUME NEW k \in 1 .. n PROVE ToldOf(ys, w[k]) = t[k]
      OBVIOUS
    <3>0. k \in 1 .. Len(w) /\ k \in DOMAIN t
      BY <1>9, <2>5
    <3>1. w[k] # idx /\ t[k] = ToldOf(xs, w[k])
      BY <1>9, <2>2, <3>0, Zenon
    <3>2. ToldTakes(ys, xs, x, w[k])
      BY ToldGrows
    <3> QED BY <1>1, <3>1, <3>2, Zenon DEF ToldTakes
  <2>13. t = [k \in 1 .. n |-> t[k]] /\ t \in Seq({t[k] : k \in 1 .. n})
    <3>1. t = [k \in 1 .. n |-> t[k]]
      BY <1>7, <1>8, <2>5
    <3> QED BY <3>1
  <2>14. Append(t, c) = [k \in 1 .. m |-> IF k = m THEN c ELSE t[k]]
    <3>1. Len(t) = n
      BY <2>13
    <3> QED BY <2>13, <2>16, <3>1
  <2>15. \A k \in 1 .. m : ToldOf(ys, o[k]) = IF k = m THEN c ELSE t[k]
    <3> SUFFICES ASSUME NEW k \in 1 .. m PROVE ToldOf(ys, o[k]) = IF k = m THEN c ELSE t[k]
      OBVIOUS
    <3>1. CASE k = m
      BY <2>7, <2>11, <3>1, Zenon
    <3>2. CASE k # m
      <4>1. k \in 1 .. n
        BY <2>16, <3>2
      <4> QED BY <2>7, <2>12, <3>2, <4>1, Zenon
    <3> QED BY <3>1, <3>2
  <2> QED BY <1>8, <2>8, <2>10, <2>14, <2>15, Zenon
<1> QED BY <1>10, <1>11

\* Of no fragments nothing is told.
LEMMA ToldFirst == Told(<<>>) = <<>>
<1>1. Dr!Order(<<>>) = <<>>
  <2>1. PICK ss : Dr!Order(<<>>) = Dr!FlattenSeq(ss) /\ Sifting(ss, Firsts(<<>>), Indexes(<<>>), 0)
    <3>0. <<>> \in Seq(Piece)
      OBVIOUS
    <3>1. PICK xs \in Seq(Piece) : xs = <<>>
      BY <3>0, Zenon
    <3>2. Len(xs) = 0
      BY <3>1
    <3>3. \E ss : Dr!Order(xs) = Dr!FlattenSeq(ss) /\ Sifting(ss, Firsts(xs), Indexes(xs), 0)
      BY <3>2, OrderSifts, Zenon
    <3> QED BY <3>1, <3>3, Zenon
  <2>2. 0 \in Nat /\ \A i \in 1 .. 0 : ~Firsts(<<>>)[i]
    OBVIOUS
  <2> QED BY <2>1, <2>2, SiftedNone, Zenon
<1>2. DOMAIN Dr!Order(<<>>) = {}
  BY <1>1
<1> QED BY <1>2 DEF Told

\* more is frames and f.
More(more, frames, f, p) ==
  /\ frames \in Seq(Frames[p]) /\ f \in Frames[p] /\ more \in Seq(Frames[p])
  /\ Len(more) = Len(frames) + 1 /\ more[Len(frames) + 1] = f
  /\ \A i \in 1 .. Len(frames) : more[i] = frames[i]

\* A frame follows those seen.
LEMMA OneMore ==
  ASSUME NEW p, NEW frames \in Seq(Frames[p]), NEW f \in Frames[p], NEW more, more = Append(frames, f)
  PROVE  More(more, frames, f, p)
BY DEF More

\* The fragments of a frame.
FragsOf(f, n) ==
  IF f.type # "chunk" THEN <<>> ELSE [i \in DOMAIN f.calls |-> [frag |-> f.calls[i], at |-> n]]

LEMMA FragsAre ==
  ASSUME NEW f \in Frames["openai"], NEW n \in Nat
  PROVE  FragsOf(f, n) \in Seq(Piece)
<1>1. CASE f.type # "chunk"
  BY <1>1 DEF FragsOf
<1>2. CASE f.type = "chunk"
  <2>1. f.calls \in Seq(Frag)
    BY <1>2, FrameAssumption DEF Frag
  <2>2. PICK c \in Seq(Frag) : c = f.calls
    BY <2>1
  <2>3. \A i \in 1 .. Len(c) : [frag |-> c[i], at |-> n] \in Piece
    BY DEF Piece
  <2>4. DOMAIN c = 1 .. Len(c) /\ Len(c) \in Nat
    OBVIOUS
  <2>5. FragsOf(f, n) = [i \in 1 .. Len(c) |-> [frag |-> c[i], at |-> n]]
    BY <1>2, <2>2, <2>4, Zenon DEF FragsOf
  <2> QED BY <2>3, <2>4, <2>5
<1> QED BY <1>1, <1>2

\* A further frame adds its fragments.
LEMMA FragmentsGrow ==
  ASSUME NEW more, NEW frames, NEW f, More(more, frames, f, "openai")
  PROVE  /\ Dr!Fragments(frames) \in Seq(Piece)
         /\ Dr!Fragments(more) = Cat(Dr!Fragments(frames), FragsOf(f, Len(frames) + 1))
<1>1. PICK n \in Nat : n = Len(frames)
  BY DEF More
<1>2. /\ Len(more) = n + 1 /\ more[n + 1] = f /\ \A i \in 1 .. n : more[i] = frames[i]
      /\ DOMAIN frames = 1 .. n /\ DOMAIN more = 1 .. n + 1
  BY <1>1 DEF More
<1>3. /\ \A i \in 1 .. n : frames[i] \in Frames["openai"]
      /\ \A i \in 1 .. n + 1 : more[i] \in Frames["openai"]
  BY <1>1 DEF More
<1> DEFINE tt == [i \in 1 .. n |-> FragsOf(frames[i], i)]
           ss == [i \in 1 .. n + 1 |-> FragsOf(more[i], i)]
<1>4. Dr!Fragments(frames) = Dr!FlattenSeq(tt) /\ Dr!Fragments(more) = Dr!FlattenSeq(ss)
  BY <1>2, Zenon DEF Dr!Fragments, FragsOf
<1>5. (\A i \in 1 .. n : tt[i] \in Seq(Piece)) /\ \A i \in 1 .. n + 1 : ss[i] \in Seq(Piece)
  <2>1. n + 1 \in Nat /\ \A i \in 1 .. n + 1 : i \in Nat
    OBVIOUS
  <2> QED BY <1>3, <2>1, FragsAre
<1>6. Joinable(ss, n + 1, Piece) /\ Joinable(tt, n, Piece)
  <2>1. /\ ss = [i \in 1 .. n + 1 |-> ss[i]] /\ tt = [i \in 1 .. n |-> tt[i]]
        /\ n = 0 => tt = <<>>
    OBVIOUS
  <2> HIDE DEF ss, tt
  <2> QED BY <1>5, <2>1 DEF Joinable, SeqsOf
<1>7. Extends(ss, tt, n) /\ ss[n + 1] = FragsOf(f, n + 1)
  <2>1. n + 1 \in 1 .. n + 1 /\ \A i \in 1 .. n : i \in 1 .. n + 1
    OBVIOUS
  <2>2. ss[n + 1] = FragsOf(f, n + 1)
    BY <1>2, <2>1, Zenon
  <2>3. \A i \in 1 .. n : ss[i] = tt[i]
    BY <1>2, <2>1, Zenon
  <2> QED BY <2>2, <2>3 DEF Extends
<1> HIDE DEF ss, tt
<1>8. Lengthens(ss, tt, n, Piece)
  BY <1>6, <1>7, Zenon DEF Lengthens
<1>9. Dr!FlattenSeq(ss) = Cat(Dr!FlattenSeq(tt), ss[n + 1])
  BY <1>8, Grown, Zenon
<1>10. Dr!FlattenSeq(tt) \in Seq(Piece)
  BY <1>6, Flattened, Zenon
<1> QED BY <1>1, <1>4, <1>7, <1>9, <1>10, Zenon

\* The first i fragments of a frame, after those of earlier frames.
Upto(xs, calls, n, i) == Cat(xs, [j \in 1 .. i |-> [frag |-> calls[j], at |-> n]])

\* The fragments of a frame are taken in one by one.
LEMMA UptoGrows ==
  ASSUME NEW xs \in Seq(Piece), NEW calls \in Seq(Frag), NEW n \in Nat, NEW i \in 1 .. Len(calls)
  PROVE  Longer(Upto(xs, calls, n, i), Upto(xs, calls, n, i - 1), [frag |-> calls[i], at |-> n])
<1> DEFINE e(j) == [frag |-> calls[j], at |-> n]
           u == [j \in 1 .. i |-> e(j)]
           v == [j \in 1 .. i - 1 |-> e(j)]
<1>1. \A j \in 1 .. i : e(j) \in Piece
  BY DEF Piece
<1> HIDE DEF e
<1>2. PICK m \in Nat : m = Len(xs)
  OBVIOUS
<1>3. u \in Seq(Piece) /\ v \in Seq(Piece) /\ Len(u) = i /\ Len(v) = i - 1
  BY <1>1
<1>4. (\A j \in 1 .. i : u[j] = e(j)) /\ \A j \in 1 .. i - 1 : v[j] = e(j)
  OBVIOUS
<1> HIDE DEF u, v
<1>5. PICK y : y = xs \o u
  OBVIOUS
<1>6. PICK z : z = xs \o v
  OBVIOUS
<1>7. y \in Seq(Piece) /\ z \in Seq(Piece) /\ Len(y) = m + i /\ Len(z) = m + i - 1
  <2>1. y \in Seq(Piece) /\ Len(y) = m + Len(u)
    BY <1>2, <1>3, <1>5, Concat
  <2>2. z \in Seq(Piece) /\ Len(z) = m + Len(v)
    BY <1>2, <1>3, <1>6, Concat
  <2> QED BY <1>3, <2>1, <2>2
<1>8. /\ \A j \in 1 .. m : y[j] = xs[j] /\ z[j] = xs[j]
      /\ \A j \in 1 .. i : y[m + j] = e(j)
      /\ \A j \in 1 .. i - 1 : z[m + j] = e(j)
  BY <1>2, <1>3, <1>4, <1>5, <1>6
<1>9. \A j \in 1 .. m + i - 1 : y[j] = z[j]
  <2> SUFFICES ASSUME NEW j \in 1 .. m + i - 1 PROVE y[j] = z[j]
    OBVIOUS
  <2>1. CASE j \in 1 .. m
    BY <1>8, <2>1
  <2>2. CASE j \notin 1 .. m
    <3>1. j - m \in 1 .. i - 1 /\ j - m \in 1 .. i /\ m + (j - m) = j
      BY <2>2
    <3> QED BY <1>8, <3>1
  <2> QED BY <2>1, <2>2
<1>10. Longer(y, z, e(i))
  <2>1. Len(z) + 1 = m + i /\ Len(y) = Len(z) + 1 /\ Len(z) = m + i - 1
    BY <1>7
  <2>2. y[m + i] = e(i)
    BY <1>8
  <2>3. i \in 1 .. i
    OBVIOUS
  <2>4. e(i) \in Piece
    BY <1>1, <2>3
  <2> QED BY <1>7, <1>9, <2>1, <2>2, <2>4, Zenon DEF Longer
<1>11. y = Upto(xs, calls, n, i) /\ z = Upto(xs, calls, n, i - 1)
  BY <1>5, <1>6, Zenon DEF Upto, Cat, u, v, e
<1> QED BY <1>10, <1>11, Zenon DEF e

\* A chunk of the OpenAI driver adds its fragments to what was told.
LEMMA Accumulates ==
  ASSUME NEW more, NEW frames, NEW f, More(more, frames, f, "openai"), f.type = "chunk",
         acc = Told(Dr!Fragments(frames))
  PROVE  Dr!Accumulated(f, Len(frames) + 1) = Told(Dr!Fragments(more))
<1>1. PICK n \in Nat : n = Len(frames) + 1
  BY DEF More
<1>2. PICK xs \in Seq(Piece) : xs = Dr!Fragments(frames)
  BY FragmentsGrow, Zenon
<1>3. f \in Frames["openai"]
  BY DEF More
<1>4. PICK calls \in Seq(Frag) : calls = f.calls
  BY <1>3, FrameAssumption DEF Frag
<1>5. PICK m \in Nat : m = Len(calls)
  OBVIOUS
<1>6. DOMAIN calls = 1 .. m /\ 1 .. m = 1 .. Len(calls)
  BY <1>5
<1> DEFINE up(i) == Upto(xs, calls, n, i)
           formed(t) == [i \in 0 .. m |-> IF i = 0 THEN acc ELSE Dr!AddFragment(t[i - 1], calls[i], n)]
           told == CHOOSE t : t = formed(t)
<1>7. up(0) = xs
  <2>1. [j \in 1 .. 0 |-> [frag |-> calls[j], at |-> n]] = <<>>
    OBVIOUS
  <2>2. Cat(xs, <<>>) = xs
    BY DEF Cat
  <2> QED BY <2>1, <2>2, Zenon DEF Upto
<1>8. up(m) = Dr!Fragments(more)
  <2>1. FragsOf(f, n) = [j \in 1 .. m |-> [frag |-> calls[j], at |-> n]]
    BY <1>4, <1>6, Zenon DEF FragsOf
  <2>2. Dr!Fragments(more) = Cat(xs, FragsOf(f, n))
    BY <1>1, <1>2, FragmentsGrow, Zenon
  <2> QED BY <2>1, <2>2, Zenon DEF Upto
<1>9. \A i \in 1 .. m : Told(up(i)) = Dr!AddFragment(Told(up(i - 1)), calls[i], n)
  <2> SUFFICES ASSUME NEW i \in 1 .. m PROVE Told(up(i)) = Dr!AddFragment(Told(up(i - 1)), calls[i], n)
    OBVIOUS
  <2>1. PICK x : x = [frag |-> calls[i], at |-> n]
    OBVIOUS
  <2>2. x.frag = calls[i] /\ x.at = n
    BY <2>1
  <2>3. i \in 1 .. Len(calls)
    BY <1>6
  <2>4. Longer(up(i), up(i - 1), x)
    BY <2>1, <2>3, UptoGrows, Zenon
  <2> HIDE DEF up
  <2>5. Dr!AddFragment(Told(up(i - 1)), x.frag, x.at) = Told(up(i))
    BY <2>4, AddTold, Zenon
  <2> QED BY <2>2, <2>5, Zenon
<1> HIDE DEF up
<1>10. PICK g : g = [i \in 0 .. m |-> Told(up(i))]
  OBVIOUS
<1>11. \A i \in 0 .. m : g[i] = Told(up(i))
  BY <1>10
<1>12. g = formed(g)
  <2>1. \A i \in 0 .. m : Told(up(i)) = IF i = 0 THEN acc ELSE Dr!AddFragment(g[i - 1], calls[i], n)
    <3> SUFFICES ASSUME NEW i \in 0 .. m
                 PROVE  Told(up(i)) = IF i = 0 THEN acc ELSE Dr!AddFragment(g[i - 1], calls[i], n)
      OBVIOUS
    <3>1. CASE i = 0
      BY <1>2, <1>7, <3>1, Zenon
    <3>2. CASE i # 0
      <4>1. i \in 1 .. m /\ i - 1 \in 0 .. m
        BY <3>2
      <4>2. g[i - 1] = Told(up(i - 1))
        BY <1>11, <4>1, Zenon
      <4> QED BY <1>9, <3>2, <4>1, <4>2, Zenon
    <3> QED BY <3>1, <3>2
  <2> QED BY <1>10, <2>1, Zenon
<1>13. told = formed(told)
  BY <1>12, Zenon
<1> HIDE DEF told
<1> DEFINE Good == {i \in 0 .. m : told[i] = g[i]}
<1>14. 0 \in Good
  <2>1. 0 \in 0 .. m
    OBVIOUS
  <2>2. told[0] = acc /\ g[0] = acc
    BY <1>12, <1>13, <2>1, Zenon
  <2> QED BY <2>1, <2>2, Zenon
<1>15. \A i \in 1 .. m : i - 1 \in Good => i \in Good
  <2> SUFFICES ASSUME NEW i \in 1 .. m, told[i - 1] = g[i - 1] PROVE told[i] = g[i]
    OBVIOUS
  <2>1. i \in 0 .. m /\ i # 0
    OBVIOUS
  <2>2. /\ told[i] = Dr!AddFragment(told[i - 1], calls[i], n)
        /\ g[i] = Dr!AddFragment(g[i - 1], calls[i], n)
    BY <1>12, <1>13, <2>1, Zenon
  <2> QED BY <2>2, Zenon
<1> HIDE DEF Good
<1>16. \A i \in 0 .. m : i \in Good
  BY <1>14, <1>15, Induct
<1>17. told[m] = Told(Dr!Fragments(more))
  <2>1. m \in 0 .. m
    OBVIOUS
  <2>2. told[m] = g[m]
    BY <1>16, <2>1, Zenon DEF Good
  <2> QED BY <1>8, <1>11, <2>1, <2>2, Zenon
<1>18. Dr!Accumulated(f, n) = told[m]
  BY <1>4, <1>5, Zenon DEF Dr!Accumulated, told
<1> QED BY <1>1, <1>17, <1>18, Zenon

-----------------------------------------------------------------------------
(* What the frames of a response say. *)

TextParts == [kind : {"text", "reasoning"}, piece : Nat]
Tools == [kind : {"tool"}, id : Strings, name : Strings, args : Seq(Nat)]
Finals == [kind : {"final"}, finish : Strings, usage : BOOLEAN]
Part == TextParts \union Tools \union Finals

LEMMA TextIsPart ==
  ASSUME NEW k \in {"text", "reasoning"}, NEW n \in Nat
  PROVE  Dr!TextPart(k, n) \in Part
BY DEF Part, TextParts, Dr!TextPart

\* The starts of a block among the first n frames.
LEMMA StartsAre ==
  ASSUME NEW frames, NEW n \in Nat, NEW idx
  PROVE  /\ Dr!BlockStarts(frames, n, idx) \in SUBSET (1 .. n)
         /\ Dr!BlockStarts(frames, n, idx) # {} => Dr!Latest(Dr!BlockStarts(frames, n, idx)) \in 1 .. n
<1>1. PICK T : T = Dr!BlockStarts(frames, n, idx)
  OBVIOUS
<1>2. T \in SUBSET (1 .. n)
  BY <1>1 DEF Dr!BlockStarts
<1>3. T # {} => Dr!Latest(T) \in 1 .. n
  BY <1>2, LatestOf
<1> QED BY <1>1, <1>2, <1>3

\* Which frames are pieces of a block.
Inputs(frames, n, idx) == [i \in 1 .. n |->
  frames[i].type = "input_delta" /\ frames[i].index = idx /\ i > Dr!Latest(Dr!BlockStarts(frames, n, idx))]
Counts(n) == [i \in 1 .. n |-> i]

LEMMA BlockSifts ==
  ASSUME NEW frames, NEW n \in Nat, NEW idx
  PROVE  \E ss : Dr!BlockPieces(frames, n, idx) = Dr!FlattenSeq(ss) /\ Sifting(ss, Inputs(frames, n, idx), Counts(n), n)
<1> DEFINE ss == [i \in 1 .. n |-> Dr!If(
      /\ frames[i].type = "input_delta" /\ frames[i].index = idx
      /\ i > Dr!Latest(Dr!BlockStarts(frames, n, idx)), i)]
<1>1. Dr!BlockPieces(frames, n, idx) = Dr!FlattenSeq(ss)
  BY Zenon DEF Dr!BlockPieces
<1>2. \A i \in 1 .. n : ss[i] = IF Inputs(frames, n, idx)[i] THEN <<Counts(n)[i]>> ELSE <<>>
  BY Zenon DEF Inputs, Counts, Dr!If
<1>3. ss = [i \in 1 .. n |-> ss[i]]
  OBVIOUS
<1> HIDE DEF ss
<1>4. ss = [i \in 1 .. n |-> IF Inputs(frames, n, idx)[i] THEN <<Counts(n)[i]>> ELSE <<>>]
  BY <1>2, <1>3, Zenon
<1> QED BY <1>1, <1>4, Zenon DEF Sifting

LEMMA BlockPiecesAre ==
  ASSUME NEW frames, NEW n \in Nat, NEW idx
  PROVE  Dr!BlockPieces(frames, n, idx) \in Seq(Nat)
<1>1. PICK ss : Dr!BlockPieces(frames, n, idx) = Dr!FlattenSeq(ss) /\ Sifting(ss, Inputs(frames, n, idx), Counts(n), n)
  BY BlockSifts, Zenon
<1>2. \A i \in 1 .. n : Inputs(frames, n, idx)[i] => Counts(n)[i] \in Nat
  BY DEF Counts
<1> QED BY <1>1, <1>2, Sifted, Zenon

\* A frame more: the starts and the pieces of a block.
LEMMA StartsGrow ==
  ASSUME NEW more, NEW frames, NEW f, NEW p, More(more, frames, f, p), NEW n, n = Len(frames), NEW idx
  PROVE  /\ f.type = "block_start" /\ f.index = idx =>
              Dr!BlockStarts(more, n + 1, idx) # {} /\ Dr!Latest(Dr!BlockStarts(more, n + 1, idx)) = n + 1
         /\ ~(f.type = "block_start" /\ f.index = idx) => Dr!BlockStarts(more, n + 1, idx) = Dr!BlockStarts(frames, n, idx)
<1>1. n \in Nat /\ more[n + 1] = f /\ \A i \in 1 .. n : more[i] = frames[i]
  BY DEF More
<1> DEFINE T == Dr!BlockStarts(frames, n, idx)
           U == Dr!BlockStarts(more, n + 1, idx)
           b == f.type = "block_start" /\ f.index = idx
<1>2. \A i \in 1 .. n : i \in U <=> i \in T
  <2>1. \A i \in 1 .. n : i \in 1 .. n + 1
    BY <1>1
  <2> QED BY <1>1, <2>1, Zenon DEF Dr!BlockStarts
<1>3. n + 1 \in U <=> b
  <2>1. n + 1 \in 1 .. n + 1
    BY <1>1
  <2> QED BY <1>1, <2>1, Zenon DEF Dr!BlockStarts
<1>4. T \in SUBSET (1 .. n) /\ U \in SUBSET (1 .. n + 1)
  BY <1>1 DEF Dr!BlockStarts
<1> HIDE DEF T, U
<1>5. ASSUME b PROVE U # {} /\ Dr!Latest(U) = n + 1
  <2>1. n + 1 \in U /\ U \in SUBSET Nat /\ \A j \in U : j =< n + 1
    BY <1>1, <1>3, <1>4, <1>5
  <2> QED BY <2>1, LatestIs
<1>6. ASSUME ~b PROVE U = T
  <2>1. n + 1 \notin U /\ \A i \in U : i \in 1 .. n + 1
    BY <1>3, <1>4, <1>6
  <2>2. \A i \in 1 .. n + 1 : i # n + 1 => i \in 1 .. n
    BY <1>1
  <2>3. \A i \in U : i \in 1 .. n
    BY <2>1, <2>2, Zenon
  <2>4. \A i \in T : i \in 1 .. n
    BY <1>4
  <2> QED BY <1>2, <2>3, <2>4, Zenon
<1> QED BY <1>5, <1>6, Zenon DEF T, U, b

\* A block that has just begun has no pieces.
LEMMA BlockPiecesNone ==
  ASSUME NEW frames, NEW n \in Nat, NEW idx, Dr!Latest(Dr!BlockStarts(frames, n, idx)) = n
  PROVE  Dr!BlockPieces(frames, n, idx) = <<>>
<1>1. PICK ss : Dr!BlockPieces(frames, n, idx) = Dr!FlattenSeq(ss) /\ Sifting(ss, Inputs(frames, n, idx), Counts(n), n)
  BY BlockSifts, Zenon
<1>2. \A i \in 1 .. n : ~Inputs(frames, n, idx)[i]
  <2> SUFFICES ASSUME NEW i \in 1 .. n, Inputs(frames, n, idx)[i] PROVE FALSE
    OBVIOUS
  <2>1. i > n
    BY Zenon DEF Inputs
  <2> QED BY <2>1
<1> QED BY <1>1, <1>2, SiftedNone, Zenon

Filled(more, frames, f, n, idx) ==
  Dr!BlockPieces(more, n + 1, idx) =
    Cat(Dr!BlockPieces(frames, n, idx), Dr!If(f.type = "input_delta" /\ f.index = idx, n + 1))

\* A further frame adds its piece to the block it is of, and to no other.
LEMMA BlockPiecesGrow ==
  ASSUME NEW more, NEW frames, NEW f, NEW p, More(more, frames, f, p), NEW n \in Nat, n = Len(frames), NEW idx,
         ~(f.type = "block_start" /\ f.index = idx), Dr!BlockStarts(frames, n, idx) # {}
  PROVE  Filled(more, frames, f, n, idx)
<1>1. more[n + 1] = f /\ \A i \in 1 .. n : more[i] = frames[i]
  BY DEF More
<1>2. Dr!BlockStarts(more, n + 1, idx) = Dr!BlockStarts(frames, n, idx)
  BY StartsGrow
<1>3. Dr!Latest(Dr!BlockStarts(frames, n, idx)) \in 1 .. n
  BY StartsAre, Zenon
<1>4. n + 1 \in Nat /\ n + 1 > Dr!Latest(Dr!BlockStarts(frames, n, idx))
  BY <1>3
<1>5. PICK ss : Dr!BlockPieces(more, n + 1, idx) = Dr!FlattenSeq(ss) /\ Sifting(ss, Inputs(more, n + 1, idx), Counts(n + 1), n + 1)
  BY <1>4, BlockSifts, Zenon
<1>6. PICK tt : Dr!BlockPieces(frames, n, idx) = Dr!FlattenSeq(tt) /\ Sifting(tt, Inputs(frames, n, idx), Counts(n), n)
  BY BlockSifts, Zenon
<1>7. n + 1 \in 1 .. n + 1 /\ \A i \in 1 .. n : i \in 1 .. n + 1
  OBVIOUS
<1>8. /\ \A i \in 1 .. n : Inputs(more, n + 1, idx)[i] = Inputs(frames, n, idx)[i]
      /\ Inputs(more, n + 1, idx)[n + 1] = (f.type = "input_delta" /\ f.index = idx)
  <2>1. \A i \in 1 .. n : Inputs(more, n + 1, idx)[i] = Inputs(frames, n, idx)[i]
    BY <1>1, <1>2, <1>7, Zenon DEF Inputs
  <2>2. Inputs(more, n + 1, idx)[n + 1] = (f.type = "input_delta" /\ f.index = idx /\ n + 1 > Dr!Latest(Dr!BlockStarts(frames, n, idx)))
    BY <1>1, <1>2, <1>7, Zenon DEF Inputs
  <2> QED BY <1>4, <2>1, <2>2, Zenon
<1>9. (\A i \in 1 .. n : Counts(n)[i] = i) /\ \A i \in 1 .. n + 1 : Counts(n + 1)[i] = i
  BY Zenon DEF Counts
<1>10. Joinable(ss, n + 1, Nat) /\ Joinable(tt, n, Nat)
  <2>1. \A i \in 1 .. n : Counts(n)[i] \in Nat
    BY <1>9
  <2>2. \A i \in 1 .. n + 1 : Counts(n + 1)[i] \in Nat
    BY <1>9
  <2> QED BY <1>4, <1>5, <1>6, <2>1, <2>2, Sifts, Zenon
<1>11. Extends(ss, tt, n) /\ ss[n + 1] = Dr!If(f.type = "input_delta" /\ f.index = idx, n + 1)
  <2>1. /\ \A i \in 1 .. n + 1 : ss[i] = IF Inputs(more, n + 1, idx)[i] THEN <<Counts(n + 1)[i]>> ELSE <<>>
        /\ \A i \in 1 .. n : tt[i] = IF Inputs(frames, n, idx)[i] THEN <<Counts(n)[i]>> ELSE <<>>
    BY <1>5, <1>6, Zenon DEF Sifting
  <2>2. Extends(ss, tt, n)
    <3> SUFFICES ASSUME NEW i \in 1 .. n PROVE ss[i] = tt[i]
      BY Zenon DEF Extends
    <3>1. /\ ss[i] = IF Inputs(more, n + 1, idx)[i] THEN <<Counts(n + 1)[i]>> ELSE <<>>
          /\ tt[i] = IF Inputs(frames, n, idx)[i] THEN <<Counts(n)[i]>> ELSE <<>>
      BY <1>7, <2>1, Zenon
    <3>2. Counts(n + 1)[i] = Counts(n)[i] /\ Inputs(more, n + 1, idx)[i] = Inputs(frames, n, idx)[i]
      BY <1>7, <1>8, <1>9, Zenon
    <3> QED BY <3>1, <3>2, Zenon
  <2>3. ss[n + 1] = IF f.type = "input_delta" /\ f.index = idx THEN <<n + 1>> ELSE <<>>
    BY <1>7, <1>8, <1>9, <2>1, Zenon
  <2> QED BY <2>2, <2>3, Zenon DEF Dr!If
<1>12. Lengthens(ss, tt, n, Nat)
  BY <1>10, <1>11, Zenon DEF Lengthens
<1>13. Dr!FlattenSeq(ss) = Cat(Dr!FlattenSeq(tt), ss[n + 1])
  BY <1>12, Grown, Zenon
<1> QED BY <1>5, <1>6, <1>11, <1>13, Zenon DEF Filled

\* The parts a frame makes are of the frame and of different kinds, and none is final.
Voice == {"text", "reasoning"}
Simple(w, n) ==
  /\ \A i \in 1 .. Len(w) : w[i].kind # "final" /\ (w[i].kind \in Voice => w[i].piece = n)
  /\ \A i, j \in 1 .. Len(w) : i < j => ~(w[i].kind \in Voice /\ w[j].kind = w[i].kind)

LEMMA SimpleNone == ASSUME NEW n PROVE <<>> \in Seq(Part) /\ Simple(<<>>, n)
<1>1. Len(<<>>) = 0
  OBVIOUS
<1>2. \A i \in 1 .. 0 : FALSE
  OBVIOUS
<1>3. <<>> \in Seq(Part)
  OBVIOUS
<1> QED BY <1>1, <1>2, <1>3, Zenon DEF Simple

LEMMA SimpleOne ==
  ASSUME NEW n, NEW x \in Part, x.kind # "final", x.kind \in Voice => x.piece = n
  PROVE  <<x>> \in Seq(Part) /\ Simple(<<x>>, n)
<1>1. PICK w : w = <<x>>
  OBVIOUS
<1>2. w \in Seq(Part) /\ Len(w) = 1 /\ w[1] = x
  BY <1>1
<1>3. \A i \in 1 .. 1 : i = 1
  OBVIOUS
<1>4. ~(1 < 1)
  OBVIOUS
<1>5. Simple(w, n)
  BY <1>2, <1>3, <1>4, Zenon DEF Simple
<1> QED BY <1>1, <1>2, <1>5

LEMMA TextSimple ==
  ASSUME NEW n \in Nat, NEW k \in Voice
  PROVE  <<Dr!TextPart(k, n)>> \in Seq(Part) /\ Simple(<<Dr!TextPart(k, n)>>, n)
<1>1. PICK x : x = Dr!TextPart(k, n)
  OBVIOUS
<1>2. x \in Part
  BY <1>1, TextIsPart DEF Voice
<1>3. x.kind = k /\ x.piece = n
  BY <1>1 DEF Dr!TextPart
<1>4. x.kind # "final"
  BY <1>3 DEF Voice
<1> QED BY <1>1, <1>2, <1>3, <1>4, SimpleOne, Zenon

Pairs(w, t, r) == w \in Seq(Part) /\ Len(w) = 2 /\ w[1] = t /\ w[2] = r
LEMMA Pair ==
  ASSUME NEW t \in Part, NEW r \in Part
  PROVE  Pairs(Cat(<<t>>, <<r>>), t, r)
<1>1. PICK u : u = <<t>>
  OBVIOUS
<1>2. PICK v : v = <<r>>
  OBVIOUS
<1>3. u \in Seq(Part) /\ Len(u) = 1 /\ u[1] = t
  BY <1>1
<1>4. v \in Seq(Part) /\ Len(v) = 1 /\ v[1] = r
  BY <1>2
<1>5. PICK w : w = u \o v
  OBVIOUS
<1>6. w \in Seq(Part) /\ Len(w) = 2 /\ w[1] = t /\ w[2] = r
  <2>1. /\ w \in Seq(Part) /\ Len(w) = Len(u) + Len(v)
        /\ \A i \in 1 .. Len(u) : w[i] = u[i]
        /\ \A i \in 1 .. Len(v) : w[Len(u) + i] = v[i]
    <3>1. u \in Seq(Part) /\ v \in Seq(Part)
      BY <1>3, <1>4
    <3>2. /\ u \o v \in Seq(Part) /\ Len(u \o v) = Len(u) + Len(v)
          /\ \A i \in 1 .. Len(u) : (u \o v)[i] = u[i]
          /\ \A i \in 1 .. Len(v) : (u \o v)[Len(u) + i] = v[i]
      BY <3>1
    <3> QED BY <1>5, <3>2, Zenon
  <2>2. 1 \in 1 .. Len(u) /\ 1 \in 1 .. Len(v) /\ Len(u) + 1 = 2 /\ Len(u) + Len(v) = 2
    BY <1>3, <1>4
  <2> QED BY <1>3, <1>4, <2>1, <2>2, Zenon
<1>7. w = Cat(<<t>>, <<r>>)
  BY <1>1, <1>2, <1>5, Zenon DEF Cat
<1> QED BY <1>6, <1>7, Zenon DEF Pairs

LEMMA TextsSimple ==
  ASSUME NEW n \in Nat, NEW a \in BOOLEAN, NEW b \in BOOLEAN, NEW w,
         w = Dr!If(a, Dr!TextPart("text", n)) \o Dr!If(b, Dr!TextPart("reasoning", n))
  PROVE  w \in Seq(Part) /\ Simple(w, n)
<1>1. PICK t \in Part : t = Dr!TextPart("text", n)
  BY TextIsPart
<1>2. PICK r \in Part : r = Dr!TextPart("reasoning", n)
  BY TextIsPart
<1>3. w = Dr!If(a, t) \o Dr!If(b, r)
  BY <1>1, <1>2, Zenon
<1>4. "text" \in Voice /\ "reasoning" \in Voice
  BY DEF Voice
<1>5. CASE a /\ b
  <2>1. w = Cat(<<t>>, <<r>>)
    <3>1. Dr!If(a, t) = <<t>> /\ Dr!If(b, r) = <<r>>
      BY <1>5 DEF Dr!If
    <3> QED BY <1>3, <3>1, Zenon DEF Cat
  <2>2. w \in Seq(Part) /\ Len(w) = 2 /\ w[1] = t /\ w[2] = r
    <3>1. t \in Part /\ r \in Part
      BY <1>1, <1>2
    <3>2. Pairs(Cat(<<t>>, <<r>>), t, r)
      BY <3>1, Pair, Zenon
    <3> QED BY <2>1, <3>2, Zenon DEF Pairs
  <2>3. t.kind = "text" /\ r.kind = "reasoning" /\ t.piece = n /\ r.piece = n
    BY <1>1, <1>2 DEF Dr!TextPart
  <2>4. \A i \in 1 .. 2 : i = 1 \/ i = 2
    OBVIOUS
  <2>5. \A i \in 1 .. 2 : w[i].kind # "final" /\ w[i].piece = n
    BY <2>2, <2>3, <2>4
  <2>6. \A i, j \in 1 .. 2 : i < j => w[j].kind # w[i].kind
    <3>1. \A i, j \in 1 .. 2 : i < j => i = 1 /\ j = 2
      OBVIOUS
    <3>2. w[1].kind # w[2].kind
      BY <2>2, <2>3
    <3> QED BY <3>1, <3>2
  <2>7. Simple(w, n)
    BY <2>2, <2>5, <2>6, Zenon DEF Simple
  <2> QED BY <2>2, <2>7
<1>6. CASE a /\ ~b
  <2>1. w = <<t>>
    BY <1>3, <1>6 DEF Dr!If
  <2> QED BY <1>1, <1>4, <2>1, TextSimple, Zenon
<1>7. CASE ~a /\ b
  <2>1. w = <<r>>
    BY <1>3, <1>7 DEF Dr!If
  <2> QED BY <1>2, <1>4, <2>1, TextSimple, Zenon
<1>8. CASE ~a /\ ~b
  <2>1. w = <<>>
    BY <1>3, <1>8 DEF Dr!If
  <2> QED BY <2>1, SimpleNone, Zenon
<1> QED BY <1>5, <1>6, <1>7, <1>8

\* The types a frame has in each of the two streams.
LEMMA FrameTypes ==
  /\ \A f \in Frames["openai"] :
       /\ f.type \in {"chunk", "usage", "done", "other"}
       /\ f.type = "chunk" => f.text \in BOOLEAN /\ f.reasoning \in BOOLEAN /\ f.finish \in Strings
  /\ \A f \in Frames["anthropic"] :
       /\ f.type \in {"block_start", "text_delta", "thinking_delta", "input_delta", "block_stop",
                       "message_delta", "message_stop", "error", "other"}
       /\ f.type = "block_start" => f.kind \in Strings /\ f.id \in Strings /\ f.name \in Strings
       /\ f.type = "message_delta" => f.finish \in Strings
BY FrameAssumption DEF Strings

Apis == {"openai", "anthropic"}

\* A block that stops makes at most one part, a call.
LEMMA CallSimple ==
  ASSUME NEW frames \in Seq(Frames["anthropic"]), NEW n \in 1 .. Len(frames)
  PROVE  Dr!AnthropicCall(frames, n) \in Seq(Part) /\ Simple(Dr!AnthropicCall(frames, n), n)
<1>1. PICK idx : idx = frames[n].index
  OBVIOUS
<1>2. PICK T : T = Dr!BlockStarts(frames, n, idx)
  OBVIOUS
<1>3. PICK start : start = Dr!Latest(T)
  OBVIOUS
<1>4. PICK args \in Seq(Nat) : args = Dr!BlockPieces(frames, n, idx)
  BY BlockPiecesAre
<1>5. PICK x : x = [kind |-> "tool", id |-> frames[start].id, name |-> frames[start].name, args |-> args]
  OBVIOUS
<1>6. Dr!AnthropicCall(frames, n) = IF T = {} THEN <<>> ELSE Dr!If(frames[start].kind = "tool_use", x)
  BY <1>1, <1>2, <1>3, <1>4, <1>5, Zenon DEF Dr!AnthropicCall
<1>7. CASE T = {}
  BY <1>6, <1>7, SimpleNone
<1>8. CASE T # {}
  <2>1. T \in SUBSET (1 .. n) /\ \A i \in T : frames[i].type = "block_start"
    BY <1>2 DEF Dr!BlockStarts
  <2>2. start \in T
    <3>1. n \in Nat
      OBVIOUS
    <3> QED BY <1>3, <1>8, <2>1, <3>1, LatestOf, Zenon
  <2>3. PICK f \in Frames["anthropic"] : f = frames[start] /\ f.type = "block_start"
    BY <2>1, <2>2
  <2>4. f.id \in Strings /\ f.name \in Strings
    BY <2>3, FrameTypes
  <2>5. x \in Part
    <3>1. x = [kind |-> "tool", id |-> f.id, name |-> f.name, args |-> args]
      BY <1>5, <2>3, Zenon
    <3> QED BY <2>4, <3>1 DEF Part, Tools
  <2>6. x.kind = "tool"
    BY <1>5
  <2>7. x.kind # "final" /\ x.kind \notin Voice
    BY <2>6 DEF Voice
  <2>8. <<x>> \in Seq(Part) /\ Simple(<<x>>, n)
    BY <2>5, <2>7, SimpleOne, Zenon
  <2>9. CASE frames[start].kind = "tool_use"
    BY <1>6, <1>8, <2>8, <2>9, Zenon DEF Dr!If
  <2>10. CASE frames[start].kind # "tool_use"
    BY <1>6, <1>8, <2>10, SimpleNone, Zenon DEF Dr!If
  <2> QED BY <2>9, <2>10
<1> QED BY <1>7, <1>8

\* What a frame says is that of its type.
SpokenIs(frames, n) ==
  LET f == frames[n]
      w == Dr!Spoken(frames, n)
  IN /\ f.type = "chunk" => w = Dr!If(f.text, Dr!TextPart("text", n)) \o Dr!If(f.reasoning, Dr!TextPart("reasoning", n))
     /\ f.type = "text_delta" => w = <<Dr!TextPart("text", n)>>
     /\ f.type = "thinking_delta" => w = <<Dr!TextPart("reasoning", n)>>
     /\ f.type = "block_stop" => w = Dr!AnthropicCall(frames, n)
     /\ f.type \notin {"chunk", "text_delta", "thinking_delta", "block_stop"} => w = <<>>

LEMMA SpokenByType == ASSUME NEW frames, NEW n PROVE SpokenIs(frames, n)
BY DEF SpokenIs, Dr!Spoken

\* So is what any frame makes.
LEMMA SpokenSimple ==
  ASSUME NEW p \in Apis, NEW frames \in Seq(Frames[p]), NEW n \in 1 .. Len(frames)
  PROVE  Dr!Spoken(frames, n) \in Seq(Part) /\ Simple(Dr!Spoken(frames, n), n)
<1>1. PICK f : f = frames[n]
  OBVIOUS
<1>2. PICK w : w = Dr!Spoken(frames, n)
  OBVIOUS
<1>3. /\ f.type = "chunk" => w = Dr!If(f.text, Dr!TextPart("text", n)) \o Dr!If(f.reasoning, Dr!TextPart("reasoning", n))
      /\ f.type = "text_delta" => w = <<Dr!TextPart("text", n)>>
      /\ f.type = "thinking_delta" => w = <<Dr!TextPart("reasoning", n)>>
      /\ f.type = "block_stop" => w = Dr!AnthropicCall(frames, n)
      /\ f.type \notin {"chunk", "text_delta", "thinking_delta", "block_stop"} => w = <<>>
  BY <1>1, <1>2, SpokenByType, Zenon DEF SpokenIs
<1>4. f \in Frames[p] /\ n \in Nat
  BY <1>1
<1>5. CASE f.type = "chunk"
  <2>1. f \in Frames["openai"]
    BY <1>4, <1>5, FrameTypes DEF Apis
  <2>2. f.text \in BOOLEAN /\ f.reasoning \in BOOLEAN
    BY <1>5, <2>1, FrameTypes
  <2> QED BY <1>2, <1>3, <1>4, <1>5, <2>2, TextsSimple, Zenon
<1>6. CASE f.type = "text_delta"
  <2>1. "text" \in Voice
    BY DEF Voice
  <2> QED BY <1>2, <1>3, <1>4, <1>6, <2>1, TextSimple, Zenon
<1>7. CASE f.type = "thinking_delta"
  <2>1. "reasoning" \in Voice
    BY DEF Voice
  <2> QED BY <1>2, <1>3, <1>4, <1>7, <2>1, TextSimple, Zenon
<1>8. CASE f.type = "block_stop"
  <2>1. p = "anthropic"
    BY <1>4, <1>8, FrameTypes DEF Apis
  <2>2. frames \in Seq(Frames["anthropic"])
    BY <2>1, Zenon
  <2> QED BY <1>2, <1>3, <1>8, <2>2, CallSimple, Zenon
<1>9. CASE f.type \notin {"chunk", "text_delta", "thinking_delta", "block_stop"}
  BY <1>2, <1>3, <1>9, SimpleNone, Zenon
<1> QED BY <1>5, <1>6, <1>7, <1>8, <1>9, Zenon

\* What the earlier frames say stays.
LEMMA SpokenStays ==
  ASSUME NEW more, NEW frames, NEW f, NEW p, More(more, frames, f, p), NEW n \in 1 .. Len(frames)
  PROVE  Dr!Spoken(more, n) = Dr!Spoken(frames, n)
<1>1. \A i \in 1 .. n : more[i] = frames[i]
  <2>1. \A i \in 1 .. n : i \in 1 .. Len(frames)
    BY DEF More
  <2> QED BY <2>1, Zenon DEF More
<1>2. n \in 1 .. n /\ n \in Nat
  BY DEF More
<1>3. more[n] = frames[n]
  BY <1>1, <1>2
<1>4. ASSUME NEW idx
      PROVE  /\ Dr!BlockStarts(more, n, idx) = Dr!BlockStarts(frames, n, idx)
             /\ Dr!BlockPieces(more, n, idx) = Dr!BlockPieces(frames, n, idx)
  <2>1. Dr!BlockStarts(more, n, idx) = Dr!BlockStarts(frames, n, idx)
    BY <1>1, Zenon DEF Dr!BlockStarts
  <2>2. [i \in 1 .. n |-> Dr!If(/\ more[i].type = "input_delta" /\ more[i].index = idx
                                /\ i > Dr!Latest(Dr!BlockStarts(more, n, idx)), i)]
          = [i \in 1 .. n |-> Dr!If(/\ frames[i].type = "input_delta" /\ frames[i].index = idx
                                    /\ i > Dr!Latest(Dr!BlockStarts(frames, n, idx)), i)]
    BY <1>1, <2>1, Zenon
  <2>3. Dr!BlockPieces(more, n, idx) = Dr!BlockPieces(frames, n, idx)
    BY <2>2, Zenon DEF Dr!BlockPieces
  <2> QED BY <2>1, <2>3
<1>5. Dr!AnthropicCall(more, n) = Dr!AnthropicCall(frames, n)
  <2>1. PICK idx : idx = frames[n].index
    OBVIOUS
  <2>2. PICK T : T = Dr!BlockStarts(frames, n, idx)
    OBVIOUS
  <2>3. PICK start : start = Dr!Latest(T)
    OBVIOUS
  <2>4. T = Dr!BlockStarts(more, n, idx) /\ idx = more[n].index /\ Dr!BlockPieces(more, n, idx) = Dr!BlockPieces(frames, n, idx)
    BY <1>3, <1>4, <2>1, <2>2, Zenon
  <2>5. T # {} => start \in 1 .. n
    BY <1>2, <2>2, <2>3, StartsAre, Zenon
  <2>6. CASE T = {}
    BY <2>1, <2>2, <2>4, <2>6, Zenon DEF Dr!AnthropicCall
  <2>7. CASE T # {}
    <3>1. more[start] = frames[start]
      BY <1>1, <2>5, <2>7, Zenon
    <3>2. /\ Dr!AnthropicCall(more, n) =
               Dr!If(more[start].kind = "tool_use",
                     [kind |-> "tool", id |-> more[start].id, name |-> more[start].name,
                      args |-> Dr!BlockPieces(more, n, idx)])
          /\ Dr!AnthropicCall(frames, n) =
               Dr!If(frames[start].kind = "tool_use",
                     [kind |-> "tool", id |-> frames[start].id, name |-> frames[start].name,
                      args |-> Dr!BlockPieces(frames, n, idx)])
      BY <2>1, <2>2, <2>3, <2>4, <2>7, Zenon DEF Dr!AnthropicCall
    <3> QED BY <2>4, <3>1, <3>2, Zenon
  <2> QED BY <2>6, <2>7
<1> QED BY <1>3, <1>5, Zenon DEF Dr!Spoken

\* So what a response says goes on with what its next frame says.
LEMMA SpokeGrows ==
  ASSUME NEW more, NEW frames, NEW f, NEW p \in Apis, More(more, frames, f, p), NEW n, n = Len(frames)
  PROVE  /\ Dr!Spoke(frames) \in Seq(Part)
         /\ Dr!Spoke(more) = Cat(Dr!Spoke(frames), Dr!Spoken(more, n + 1))
<1>1. /\ n \in Nat /\ DOMAIN frames = 1 .. n /\ DOMAIN more = 1 .. n + 1
      /\ frames \in Seq(Frames[p]) /\ more \in Seq(Frames[p])
      /\ 1 .. n = 1 .. Len(frames) /\ 1 .. n + 1 = 1 .. Len(more)
  BY DEF More
<1> DEFINE tt == [i \in 1 .. n |-> Dr!Spoken(frames, i)]
           ss == [i \in 1 .. n + 1 |-> Dr!Spoken(more, i)]
<1>2. Dr!Spoke(frames) = Dr!FlattenSeq(tt) /\ Dr!Spoke(more) = Dr!FlattenSeq(ss)
  BY <1>1, Zenon DEF Dr!Spoke
<1>3. (\A i \in 1 .. n : tt[i] \in Seq(Part)) /\ \A i \in 1 .. n + 1 : ss[i] \in Seq(Part)
  <2>1. \A i \in 1 .. n : Dr!Spoken(frames, i) \in Seq(Part)
    BY <1>1, SpokenSimple, Zenon
  <2>2. \A i \in 1 .. n + 1 : Dr!Spoken(more, i) \in Seq(Part)
    BY <1>1, SpokenSimple, Zenon
  <2> QED BY <2>1, <2>2
<1>4. Joinable(ss, n + 1, Part) /\ Joinable(tt, n, Part)
  <2>1. /\ ss = [i \in 1 .. n + 1 |-> ss[i]] /\ tt = [i \in 1 .. n |-> tt[i]]
        /\ n = 0 => tt = <<>>
    OBVIOUS
  <2> HIDE DEF ss, tt
  <2> QED BY <1>1, <1>3, <2>1 DEF Joinable, SeqsOf
<1>5. Extends(ss, tt, n) /\ ss[n + 1] = Dr!Spoken(more, n + 1)
  <2>1. n + 1 \in 1 .. n + 1 /\ \A i \in 1 .. n : i \in 1 .. n + 1
    BY <1>1
  <2>2. \A i \in 1 .. n : Dr!Spoken(more, i) = Dr!Spoken(frames, i)
    BY <1>1, SpokenStays, Zenon
  <2>3. \A i \in 1 .. n : ss[i] = tt[i]
    BY <2>1, <2>2, Zenon
  <2>4. ss[n + 1] = Dr!Spoken(more, n + 1)
    BY <2>1, Zenon
  <2> QED BY <2>3, <2>4 DEF Extends
<1> HIDE DEF ss, tt
<1>6. Lengthens(ss, tt, n, Part)
  BY <1>1, <1>4, <1>5, Zenon DEF Lengthens
<1>7. Dr!FlattenSeq(ss) = Cat(Dr!FlattenSeq(tt), ss[n + 1])
  BY <1>6, Grown, Zenon
<1>8. Dr!FlattenSeq(tt) \in Seq(Part)
  BY <1>4, Flattened, Zenon
<1> QED BY <1>2, <1>5, <1>7, <1>8, Zenon

\* What is said of text and calls is parts.
LEMMA SpokeIs ==
  ASSUME NEW p \in Apis, NEW frames \in Seq(Frames[p])
  PROVE  Dr!Spoke(frames) \in Seq(Part)
<1>1. PICK n \in Nat : n = Len(frames) /\ DOMAIN frames = 1 .. n
  OBVIOUS
<1> DEFINE tt == [i \in 1 .. n |-> Dr!Spoken(frames, i)]
<1>2. Dr!Spoke(frames) = Dr!FlattenSeq(tt)
  BY <1>1, Zenon DEF Dr!Spoke
<1>3. \A i \in 1 .. n : tt[i] \in Seq(Part)
  <2>1. \A i \in 1 .. n : Dr!Spoken(frames, i) \in Seq(Part)
    BY <1>1, SpokenSimple, Zenon
  <2> QED BY <2>1
<1>4. Joinable(tt, n, Part)
  <2>1. tt = [i \in 1 .. n |-> tt[i]] /\ (n = 0 => tt = <<>>)
    OBVIOUS
  <2> HIDE DEF tt
  <2> QED BY <1>3, <2>1 DEF Joinable, SeqsOf
<1> QED BY <1>2, <1>4, Flattened, Zenon

-----------------------------------------------------------------------------
(* What the Anthropic driver keeps of the blocks that have begun. *)

Block == [kind : Strings, id : Strings, name : Strings, args : Seq(Nat)]
BlockIs(b, frames, n, idx) ==
  /\ b \in Block /\ b.args = Dr!BlockPieces(frames, n, idx)
  /\ \E start \in 1 .. n :
       /\ start = Dr!Latest(Dr!BlockStarts(frames, n, idx))
       /\ b.kind = frames[start].kind /\ b.id = frames[start].id /\ b.name = frames[start].name
Blocks(a, frames) ==
  /\ \A idx : idx \in DOMAIN a <=> Dr!BlockStarts(frames, Len(frames), idx) # {}
  /\ \A idx \in DOMAIN a : BlockIs(a[idx], frames, Len(frames), idx)

\* A block as it begins.
LEMMA BlockBegins ==
  ASSUME NEW more, NEW frames, NEW f, More(more, frames, f, "anthropic"), NEW n, n = Len(frames), NEW idx,
         f.type = "block_start", f.index = idx, NEW b,
         b = [kind |-> f.kind, id |-> f.id, name |-> f.name, args |-> <<>>]
  PROVE  Dr!BlockStarts(more, n + 1, idx) # {} /\ BlockIs(b, more, n + 1, idx)
<1>1. n \in Nat /\ f \in Frames["anthropic"] /\ more[n + 1] = f /\ n + 1 \in Nat /\ n + 1 \in 1 .. n + 1
  BY DEF More
<1>2. Dr!BlockStarts(more, n + 1, idx) # {} /\ Dr!Latest(Dr!BlockStarts(more, n + 1, idx)) = n + 1
  BY StartsGrow
<1>3. Dr!BlockPieces(more, n + 1, idx) = <<>>
  BY <1>1, <1>2, BlockPiecesNone, Zenon
<1>4. b \in Block /\ b.kind = f.kind /\ b.id = f.id /\ b.name = f.name /\ b.args = <<>>
  <2>1. f.kind \in Strings /\ f.id \in Strings /\ f.name \in Strings
    BY <1>1, FrameTypes
  <2>2. <<>> \in Seq(Nat)
    OBVIOUS
  <2> QED BY <2>1, <2>2 DEF Block
<1> QED BY <1>1, <1>2, <1>3, <1>4, Zenon DEF BlockIs

\* A frame that is not of a block leaves it as it is.
LEMMA BlockStays ==
  ASSUME NEW more, NEW frames, NEW f, More(more, frames, f, "anthropic"), NEW n, n = Len(frames), NEW idx,
         ~(f.type = "block_start" /\ f.index = idx), ~(f.type = "input_delta" /\ f.index = idx),
         Dr!BlockStarts(frames, n, idx) # {}, NEW b, BlockIs(b, frames, n, idx)
  PROVE  BlockIs(b, more, n + 1, idx)
<1>1. n \in Nat /\ \A i \in 1 .. n : more[i] = frames[i] /\ i \in 1 .. n + 1
  BY DEF More
<1>2. Dr!BlockStarts(more, n + 1, idx) = Dr!BlockStarts(frames, n, idx)
  BY StartsGrow
<1>3. Dr!BlockPieces(more, n + 1, idx) = Dr!BlockPieces(frames, n, idx)
  <2>1. Dr!BlockPieces(more, n + 1, idx) =
           Cat(Dr!BlockPieces(frames, n, idx), Dr!If(f.type = "input_delta" /\ f.index = idx, n + 1))
    <3>1. n \in Nat
      BY <1>1
    <3>2. Filled(more, frames, f, n, idx)
      BY <3>1, BlockPiecesGrow
    <3> QED BY <3>2, Zenon DEF Filled
  <2>2. Dr!If(f.type = "input_delta" /\ f.index = idx, n + 1) = <<>>
    BY DEF Dr!If
  <2>3. PICK w \in Seq(Nat) : w = Dr!BlockPieces(frames, n, idx)
    BY <1>1, BlockPiecesAre
  <2>4. Cat(w, <<>>) = w
    BY DEF Cat
  <2> QED BY <2>1, <2>2, <2>3, <2>4, Zenon
<1>4. /\ b \in Block /\ b.args = Dr!BlockPieces(frames, n, idx)
      /\ \E start \in 1 .. n :
           /\ start = Dr!Latest(Dr!BlockStarts(frames, n, idx))
           /\ b.kind = frames[start].kind /\ b.id = frames[start].id /\ b.name = frames[start].name
  BY DEF BlockIs
<1>5. PICK start \in 1 .. n :
        /\ start = Dr!Latest(Dr!BlockStarts(frames, n, idx))
        /\ b.kind = frames[start].kind /\ b.id = frames[start].id /\ b.name = frames[start].name
  BY <1>4
<1>6. more[start] = frames[start] /\ start \in 1 .. n + 1
  BY <1>1
<1> QED BY <1>2, <1>3, <1>4, <1>5, <1>6, Zenon DEF BlockIs

\* A block with a further piece.
LEMMA BlockGrows ==
  ASSUME NEW more, NEW frames, NEW f, More(more, frames, f, "anthropic"), NEW n, n = Len(frames), NEW idx,
         f.type = "input_delta", f.index = idx,
         Dr!BlockStarts(frames, n, idx) # {}, NEW b, BlockIs(b, frames, n, idx), NEW c,
         c = [b EXCEPT !.args = Append(@, n + 1)]
  PROVE  BlockIs(c, more, n + 1, idx)
<1>1. n \in Nat /\ n + 1 \in Nat /\ \A i \in 1 .. n : more[i] = frames[i] /\ i \in 1 .. n + 1
  BY DEF More
<1>2. Dr!BlockStarts(more, n + 1, idx) = Dr!BlockStarts(frames, n, idx)
  BY StartsGrow
<1>3. Dr!BlockPieces(more, n + 1, idx) = Append(Dr!BlockPieces(frames, n, idx), n + 1)
  <2>1. Dr!BlockPieces(more, n + 1, idx) =
           Cat(Dr!BlockPieces(frames, n, idx), Dr!If(f.type = "input_delta" /\ f.index = idx, n + 1))
    <3>1. ~(f.type = "block_start" /\ f.index = idx)
      OBVIOUS
    <3>2. n \in Nat
      BY <1>1
    <3>3. Filled(more, frames, f, n, idx)
      BY <3>1, <3>2, BlockPiecesGrow
    <3> QED BY <3>3, Zenon DEF Filled
  <2>2. Dr!If(f.type = "input_delta" /\ f.index = idx, n + 1) = <<n + 1>>
    BY DEF Dr!If
  <2>3. PICK w \in Seq(Nat) : w = Dr!BlockPieces(frames, n, idx)
    BY <1>1, BlockPiecesAre
  <2>4. Cat(w, <<n + 1>>) = Append(w, n + 1)
    BY <1>1 DEF Cat
  <2> QED BY <2>1, <2>2, <2>3, <2>4, Zenon
<1>4. /\ b \in Block /\ b.args = Dr!BlockPieces(frames, n, idx)
      /\ \E start \in 1 .. n :
           /\ start = Dr!Latest(Dr!BlockStarts(frames, n, idx))
           /\ b.kind = frames[start].kind /\ b.id = frames[start].id /\ b.name = frames[start].name
  BY DEF BlockIs
<1>5. PICK start \in 1 .. n :
        /\ start = Dr!Latest(Dr!BlockStarts(frames, n, idx))
        /\ b.kind = frames[start].kind /\ b.id = frames[start].id /\ b.name = frames[start].name
  BY <1>4
<1>6. more[start] = frames[start] /\ start \in 1 .. n + 1
  BY <1>1
<1>7. /\ c \in Block /\ c.kind = b.kind /\ c.id = b.id /\ c.name = b.name
      /\ c.args = Append(b.args, n + 1)
  <2>1. PICK e \in Seq(Nat) : e = Append(b.args, n + 1)
    <3>1. b.args \in Seq(Nat)
      BY <1>4 DEF Block
    <3>2. PICK v \in Seq(Nat) : v = b.args
      BY <3>1
    <3>3. Append(v, n + 1) \in Seq(Nat)
      BY <1>1
    <3> QED BY <3>2, <3>3, Zenon
  <2>2. c = [b EXCEPT !.args = e]
    BY <2>1, Zenon
  <2>3. b \in Block
    BY <1>4
  <2>4. c \in Block
    BY <2>2, <2>3 DEF Block
  <2>5. c.kind = b.kind /\ c.id = b.id /\ c.name = b.name /\ c.args = e
    BY <2>2, <2>3 DEF Block
  <2> QED BY <2>1, <2>4, <2>5
<1> QED BY <1>2, <1>3, <1>4, <1>5, <1>6, <1>7, Zenon DEF BlockIs

\* The frame goes by the blocks it does not name.
LEMMA BlocksPass ==
  ASSUME NEW more, NEW frames, NEW f, More(more, frames, f, "anthropic"), Blocks(acc, frames),
         f.type # "block_start", ~(f.type = "input_delta" /\ f.index \in DOMAIN acc)
  PROVE  Blocks(acc, more)
<1>1. PICK n : n = Len(frames)
  OBVIOUS
<1>2. Len(more) = n + 1
  BY <1>1 DEF More
<1>3. /\ \A idx : idx \in DOMAIN acc <=> Dr!BlockStarts(frames, n, idx) # {}
      /\ \A idx \in DOMAIN acc : BlockIs(acc[idx], frames, n, idx)
  BY <1>1, Zenon DEF Blocks
<1>4. \A idx : Dr!BlockStarts(more, n + 1, idx) = Dr!BlockStarts(frames, n, idx)
  BY <1>1, StartsGrow
<1>5. \A idx \in DOMAIN acc : BlockIs(acc[idx], more, n + 1, idx)
  <2> SUFFICES ASSUME NEW idx \in DOMAIN acc PROVE BlockIs(acc[idx], more, n + 1, idx)
    OBVIOUS
  <2>1. ~(f.type = "block_start" /\ f.index = idx) /\ ~(f.type = "input_delta" /\ f.index = idx)
    OBVIOUS
  <2> QED BY <1>1, <1>3, <2>1, BlockStays, Zenon
<1> QED BY <1>2, <1>3, <1>4, <1>5, Zenon DEF Blocks

\* The driver keeps a block that begins.
LEMMA BlocksBegin ==
  ASSUME NEW more, NEW frames, NEW f, More(more, frames, f, "anthropic"), Blocks(acc, frames), f.type = "block_start"
  PROVE  Blocks(Dr!NewBlock(f), more)
<1>1. PICK n : n = Len(frames)
  OBVIOUS
<1>2. Len(more) = n + 1
  BY <1>1 DEF More
<1>3. /\ \A idx : idx \in DOMAIN acc <=> Dr!BlockStarts(frames, n, idx) # {}
      /\ \A idx \in DOMAIN acc : BlockIs(acc[idx], frames, n, idx)
  BY <1>1, Zenon DEF Blocks
<1>4. PICK b : b = [kind |-> f.kind, id |-> f.id, name |-> f.name, args |-> <<>>]
  OBVIOUS
<1>5. PICK a : a = Dr!NewBlock(f)
  OBVIOUS
<1>6. a = [i \in DOMAIN acc \union {f.index} |-> IF i = f.index THEN b ELSE acc[i]]
  BY <1>4, <1>5, Zenon DEF Dr!NewBlock
<1>7. /\ DOMAIN a = DOMAIN acc \union {f.index} /\ a[f.index] = b
      /\ \A i \in DOMAIN acc : i # f.index => a[i] = acc[i]
  BY <1>6
<1>8. Dr!BlockStarts(more, n + 1, f.index) # {} /\ BlockIs(b, more, n + 1, f.index)
  BY <1>1, <1>4, BlockBegins, Zenon
<1>9. \A idx : idx # f.index => Dr!BlockStarts(more, n + 1, idx) = Dr!BlockStarts(frames, n, idx)
  <2> SUFFICES ASSUME NEW idx, idx # f.index PROVE Dr!BlockStarts(more, n + 1, idx) = Dr!BlockStarts(frames, n, idx)
    OBVIOUS
  <2>1. ~(f.type = "block_start" /\ f.index = idx)
    OBVIOUS
  <2> QED BY <1>1, <2>1, StartsGrow
<1>10. \A idx : idx \in DOMAIN a <=> Dr!BlockStarts(more, n + 1, idx) # {}
  BY <1>3, <1>7, <1>8, <1>9
<1>11. \A idx \in DOMAIN a : BlockIs(a[idx], more, n + 1, idx)
  <2> SUFFICES ASSUME NEW idx \in DOMAIN a PROVE BlockIs(a[idx], more, n + 1, idx)
    OBVIOUS
  <2>1. CASE idx = f.index
    BY <1>7, <1>8, <2>1, Zenon
  <2>2. CASE idx # f.index
    <3>1. idx \in DOMAIN acc /\ a[idx] = acc[idx]
      BY <1>7, <2>2
    <3>2. ~(f.type = "block_start" /\ f.index = idx) /\ ~(f.type = "input_delta" /\ f.index = idx)
      BY <2>2
    <3>3. BlockIs(acc[idx], more, n + 1, idx)
      BY <1>1, <1>3, <3>1, <3>2, BlockStays, Zenon
    <3> QED BY <3>1, <3>3, Zenon
  <2> QED BY <2>1, <2>2
<1>12. Blocks(a, more)
  BY <1>2, <1>10, <1>11, Zenon DEF Blocks
<1> QED BY <1>5, <1>12, Zenon

\* It adds a piece to the block of its index.
LEMMA BlocksFill ==
  ASSUME NEW more, NEW frames, NEW f, More(more, frames, f, "anthropic"), Blocks(acc, frames), f.type = "input_delta",
         f.index \in DOMAIN acc, NEW a, a = [acc EXCEPT ![f.index].args = Append(@, Len(frames) + 1)]
  PROVE  Blocks(a, more)
<1>1. PICK n : n = Len(frames)
  OBVIOUS
<1>2. Len(more) = n + 1
  BY <1>1 DEF More
<1>3. /\ \A idx : idx \in DOMAIN acc <=> Dr!BlockStarts(frames, n, idx) # {}
      /\ \A idx \in DOMAIN acc : BlockIs(acc[idx], frames, n, idx)
  BY <1>1, Zenon DEF Blocks
<1>4. \A idx : Dr!BlockStarts(more, n + 1, idx) = Dr!BlockStarts(frames, n, idx)
  BY <1>1, StartsGrow
<1>5. PICK i \in DOMAIN acc : i = f.index
  OBVIOUS
<1>6. PICK c : c = [acc[i] EXCEPT !.args = Append(@, n + 1)]
  OBVIOUS
<1>7. DOMAIN a = DOMAIN acc /\ (\A j \in DOMAIN acc : j # i => a[j] = acc[j]) /\ a[i] = c
  <2>1. a = [acc EXCEPT ![i].args = Append(@, n + 1)]
    BY <1>1, <1>5, Zenon
  <2> QED BY <1>6, <2>1
<1>8. BlockIs(c, more, n + 1, i)
  BY <1>1, <1>3, <1>5, <1>6, BlockGrows, Zenon
<1>9. \A idx \in DOMAIN a : BlockIs(a[idx], more, n + 1, idx)
  <2> SUFFICES ASSUME NEW idx \in DOMAIN a PROVE BlockIs(a[idx], more, n + 1, idx)
    OBVIOUS
  <2>1. CASE idx = i
    BY <1>7, <1>8, <2>1, Zenon
  <2>2. CASE idx # i
    <3>1. idx \in DOMAIN acc /\ a[idx] = acc[idx]
      BY <1>7, <2>2
    <3>2. ~(f.type = "block_start" /\ f.index = idx) /\ ~(f.type = "input_delta" /\ f.index = idx)
      BY <1>5, <2>2
    <3>3. BlockIs(acc[idx], more, n + 1, idx)
      BY <1>1, <1>3, <3>1, <3>2, BlockStays, Zenon
    <3> QED BY <3>1, <3>3, Zenon
  <2> QED BY <2>1, <2>2
<1> QED BY <1>2, <1>3, <1>4, <1>7, <1>9, Zenon DEF Blocks

\* The call of a stop is what is kept of its block.
StopSaid(frames, n, idx) ==
  /\ idx \notin DOMAIN acc => Dr!AnthropicCall(frames, n) = <<>>
  /\ idx \in DOMAIN acc =>
       Dr!AnthropicCall(frames, n) = Dr!If(acc[idx].kind = "tool_use", Dr!ToolPart(acc[idx]))

\* What the driver sends when a block stops is what the frames say of it.
LEMMA StopSays ==
  ASSUME NEW frames, NEW n \in Nat, n = Len(frames), Blocks(acc, frames), NEW idx, idx = frames[n].index
  PROVE  StopSaid(frames, n, idx)
<1>1. PICK T : T = Dr!BlockStarts(frames, n, idx)
  OBVIOUS
<1>2. idx \in DOMAIN acc <=> T # {}
  BY <1>1, Zenon DEF Blocks
<1>3. PICK start : start = Dr!Latest(T)
  OBVIOUS
<1>4. PICK x : x = [kind |-> "tool", id |-> frames[start].id, name |-> frames[start].name,
                    args |-> Dr!BlockPieces(frames, n, idx)]
  OBVIOUS
<1>5. Dr!AnthropicCall(frames, n) = IF T = {} THEN <<>> ELSE Dr!If(frames[start].kind = "tool_use", x)
  BY <1>1, <1>3, <1>4, Zenon DEF Dr!AnthropicCall
<1>6. ASSUME idx \in DOMAIN acc
      PROVE  acc[idx].kind = frames[start].kind /\ x = Dr!ToolPart(acc[idx])
  <2>1. BlockIs(acc[idx], frames, n, idx)
    BY <1>6, Zenon DEF Blocks
  <2>2. /\ acc[idx].args = Dr!BlockPieces(frames, n, idx) /\ acc[idx].kind = frames[start].kind
        /\ acc[idx].id = frames[start].id /\ acc[idx].name = frames[start].name
    BY <1>1, <1>3, <2>1, Zenon DEF BlockIs
  <2> QED BY <1>4, <2>2, Zenon DEF Dr!ToolPart
<1>7. CASE idx \notin DOMAIN acc
  BY <1>2, <1>5, <1>7, Zenon DEF StopSaid
<1>8. CASE idx \in DOMAIN acc
  <2>1. T # {}
    BY <1>2, <1>8
  <2>2. Dr!AnthropicCall(frames, n) = Dr!If(frames[start].kind = "tool_use", x)
    BY <1>5, <2>1, Zenon
  <2> QED BY <1>6, <1>8, <2>2, Zenon DEF StopSaid
<1> QED BY <1>7, <1>8

-----------------------------------------------------------------------------
(* What a frame makes of the driver. *)

ReasonOf(f) == IF f.type = "chunk" THEN f.finish ELSE Dr!AnFinish(f.finish)
FinishIs(fi, frames) ==
  /\ fi \in Strings
  /\ Dr!Reasons(frames) = {} => fi = ""
  /\ Dr!Reasons(frames) # {} =>
       fi # "" /\ Dr!Latest(Dr!Reasons(frames)) \in 1 .. Len(frames) /\ fi = ReasonOf(frames[Dr!Latest(Dr!Reasons(frames))])
FailedIs(fa, frames) == fa = "stream" <=> \E i \in DOMAIN frames : frames[i].type = "error"

LEMMA FinishName == ASSUME NEW r \in Strings PROVE Dr!AnFinish(r) \in Strings /\ (r # "" => Dr!AnFinish(r) # "")
BY DEF Dr!AnFinish, Strings

\* The driver keeps the latest reason a response gives to stop.
LEMMA FinishGrows ==
  ASSUME NEW p \in Apis, NEW more, NEW frames, NEW f, More(more, frames, f, p), NEW fi, FinishIs(fi, frames)
  PROVE  /\ f.type \in {"chunk", "message_delta"} /\ f.finish # "" => FinishIs(ReasonOf(f), more)
         /\ ~(f.type \in {"chunk", "message_delta"} /\ f.finish # "") => FinishIs(fi, more)
<1>1. PICK n \in Nat : n = Len(frames)
  BY DEF More
<1>2. /\ f \in Frames[p] /\ Len(more) = n + 1 /\ more[n + 1] = f /\ \A i \in 1 .. n : more[i] = frames[i]
      /\ DOMAIN frames = 1 .. n /\ DOMAIN more = 1 .. n + 1
  BY <1>1 DEF More
<1> DEFINE T == Dr!Reasons(frames)
           U == Dr!Reasons(more)
           b == f.type \in {"chunk", "message_delta"} /\ f.finish # ""
<1>3. \A i \in 1 .. n : i \in U <=> i \in T
  <2>1. \A i \in 1 .. n : i \in 1 .. n + 1
    OBVIOUS
  <2> QED BY <1>2, <2>1, Zenon DEF Dr!Reasons
<1>4. n + 1 \in U <=> b
  <2>1. n + 1 \in 1 .. n + 1
    OBVIOUS
  <2> QED BY <1>2, <2>1, Zenon DEF Dr!Reasons
<1>5. T \in SUBSET (1 .. n) /\ U \in SUBSET (1 .. n + 1)
  BY <1>2 DEF Dr!Reasons
<1>6. ASSUME b PROVE ReasonOf(f) \in Strings /\ ReasonOf(f) # ""
  <2>1. f.finish \in Strings /\ f.finish # ""
    BY <1>2, <1>6, FrameTypes DEF Apis
  <2> QED BY <2>1, FinishName DEF ReasonOf
<1> HIDE DEF T, U
<1>7. ASSUME b PROVE FinishIs(ReasonOf(f), more)
  <2>1. n + 1 \in U /\ U \in SUBSET Nat /\ \A j \in U : j =< n + 1
    <3>1. n + 1 \in U
      BY <1>4, <1>7, Zenon
    <3> QED BY <1>5, <3>1
  <2>2. U # {} /\ Dr!Latest(U) = n + 1
    BY <2>1, LatestIs
  <2>3. n + 1 \in 1 .. Len(more)
    BY <1>2
  <2>4. ReasonOf(f) = ReasonOf(more[Dr!Latest(U)])
    BY <1>2, <2>2, Zenon
  <2> QED BY <1>6, <1>7, <2>2, <2>3, <2>4, Zenon DEF FinishIs, U
<1>8. ASSUME ~b PROVE FinishIs(fi, more)
  <2>0. U = T
    <3>1. n + 1 \notin U /\ \A i \in U : i \in 1 .. n + 1
      BY <1>4, <1>5, <1>8
    <3>2. \A i \in 1 .. n + 1 : i # n + 1 => i \in 1 .. n
      OBVIOUS
    <3>3. \A i \in U : i \in 1 .. n
      BY <3>1, <3>2, Zenon
    <3>4. \A i \in T : i \in 1 .. n
      BY <1>5
    <3> QED BY <1>3, <3>3, <3>4, Zenon
  <2>1. fi \in Strings /\ (T = {} => fi = "")
        /\ (T # {} => fi # "" /\ Dr!Latest(T) \in 1 .. n /\ fi = ReasonOf(frames[Dr!Latest(T)]))
    BY <1>1, Zenon DEF FinishIs, T
  <2>2. T # {} => more[Dr!Latest(T)] = frames[Dr!Latest(T)] /\ Dr!Latest(T) \in 1 .. Len(more)
    <3>1. \A i \in 1 .. n : i \in 1 .. Len(more)
      BY <1>2
    <3> QED BY <1>2, <2>1, <3>1, Zenon
  <2> QED BY <2>0, <2>1, <2>2, Zenon DEF FinishIs, U
<1> QED BY <1>7, <1>8, Zenon DEF b

\* It remembers that the response told of an error.
LEMMA FailedGrows ==
  ASSUME NEW p, NEW more, NEW frames, NEW f, More(more, frames, f, p), NEW fa, FailedIs(fa, frames)
  PROVE  /\ f.type = "error" => FailedIs("stream", more)
         /\ f.type # "error" => FailedIs(fa, more)
<1>1. PICK n \in Nat : n = Len(frames)
  BY DEF More
<1>2. /\ more[n + 1] = f /\ \A i \in 1 .. n : more[i] = frames[i]
      /\ DOMAIN frames = 1 .. n /\ DOMAIN more = 1 .. n + 1
  BY <1>1 DEF More
<1>3. n + 1 \in 1 .. n + 1 /\ (\A i \in 1 .. n : i \in 1 .. n + 1) /\ \A i \in 1 .. n + 1 : i # n + 1 => i \in 1 .. n
  OBVIOUS
<1>4. fa = "stream" <=> \E i \in 1 .. n : frames[i].type = "error"
  BY <1>2, Zenon DEF FailedIs
<1>5. (\E i \in DOMAIN more : more[i].type = "error") <=> f.type = "error" \/ \E i \in 1 .. n : frames[i].type = "error"
  BY <1>2, <1>3, Zenon
<1> QED BY <1>4, <1>5, Zenon DEF FailedIs

Fields(s) == DOMAIN s = {"acc", "finish", "failed", "usage", "send", "ends"}
Quiet(s) == s.acc = acc /\ s.finish = finish /\ s.failed = failed /\ s.usage = usage /\ s.send = <<>> /\ s.ends = FALSE

\* A frame that is ignored.
LEMMA NothingIs == Fields(Dr!Nothing) /\ Quiet(Dr!Nothing)
BY DEF Dr!Nothing, Fields, Quiet

\* What a frame makes of the OpenAI driver.
LEMMA OpenAISays ==
  ASSUME api = "openai", NEW f \in Frames["openai"], NEW n, n = Len(seen) + 1, NEW s, s = Dr!Processed(f)
  PROVE  /\ Fields(s) /\ s.ends \in BOOLEAN
         /\ f.type = "chunk" =>
              /\ s.acc = Dr!Accumulated(f, n) /\ s.finish = (IF f.finish = "" THEN finish ELSE f.finish)
              /\ s.failed = failed /\ s.usage = usage
              /\ s.send = Dr!If(f.text, Dr!TextPart("text", n)) \o Dr!If(f.reasoning, Dr!TextPart("reasoning", n))
         /\ f.type # "chunk" =>
              /\ s.acc = acc /\ s.finish = finish /\ s.failed = failed /\ s.send = <<>>
              /\ s.usage = usage \/ s.usage = TRUE
<1>1. f.type \in {"chunk", "usage", "done", "other"}
  BY FrameTypes
<1>2. s = Dr!OpenAIFrame(f, n)
  BY Zenon DEF Dr!Processed
<1>3. CASE f.type = "chunk"
  <2>1. PICK w : w = Dr!If(f.text, Dr!TextPart("text", n)) \o Dr!If(f.reasoning, Dr!TextPart("reasoning", n))
    OBVIOUS
  <2>2. PICK a : a = Dr!Accumulated(f, n)
    OBVIOUS
  <2>3. PICK fi : fi = IF f.finish = "" THEN finish ELSE f.finish
    OBVIOUS
  <2>4. s = [Dr!Nothing EXCEPT !.send = w, !.acc = a, !.finish = fi]
    <3>1. PICK z : z = Dr!Nothing
      OBVIOUS
    <3>2. z.finish = finish
      BY <3>1, NothingIs, Zenon DEF Quiet
    <3>3. Dr!OpenAIFrame(f, n) = [Dr!Nothing EXCEPT !.send = w, !.acc = a,
                                  !.finish = IF f.finish = "" THEN Dr!Nothing.finish ELSE f.finish]
      BY <1>3, <2>1, <2>2 DEF Dr!OpenAIFrame
    <3> QED BY <1>2, <2>3, <3>1, <3>2, <3>3, Zenon
  <2>5. Fields(s) /\ s.ends = FALSE /\ s.acc = a /\ s.finish = fi /\ s.failed = failed /\ s.usage = usage /\ s.send = w
    BY <2>4 DEF Dr!Nothing, Fields
  <2> QED BY <1>3, <2>1, <2>2, <2>3, <2>5, Zenon
<1>4. CASE f.type = "done"
  <2>1. s = [Dr!Nothing EXCEPT !.ends = TRUE]
    BY <1>2, <1>4 DEF Dr!OpenAIFrame
  <2>2. Fields(s) /\ s.ends = TRUE /\ s.acc = acc /\ s.finish = finish /\ s.failed = failed /\ s.usage = usage /\ s.send = <<>>
    BY <2>1 DEF Dr!Nothing, Fields
  <2> QED BY <1>4, <2>2
<1>5. CASE f.type = "usage"
  <2>1. s = [Dr!Nothing EXCEPT !.usage = TRUE]
    BY <1>2, <1>5 DEF Dr!OpenAIFrame
  <2>2. Fields(s) /\ s.ends = FALSE /\ s.acc = acc /\ s.finish = finish /\ s.failed = failed /\ s.usage = TRUE /\ s.send = <<>>
    BY <2>1 DEF Dr!Nothing, Fields
  <2> QED BY <1>5, <2>2
<1>6. CASE f.type = "other"
  <2>1. s = Dr!Nothing
    BY <1>2, <1>6 DEF Dr!OpenAIFrame
  <2>2. Fields(s) /\ s.ends = FALSE /\ s.acc = acc /\ s.finish = finish /\ s.failed = failed /\ s.usage = usage /\ s.send = <<>>
    BY <2>1 DEF Dr!Nothing, Fields
  <2> QED BY <1>6, <2>2
<1> QED BY <1>1, <1>3, <1>4, <1>5, <1>6

AnthropicSaid(s, f, n) ==
  /\ Fields(s) /\ s.ends \in BOOLEAN /\ s.usage = usage
  /\ s.finish = (IF f.type = "message_delta" /\ f.finish # "" THEN Dr!AnFinish(f.finish) ELSE finish)
  /\ s.failed = (IF f.type = "error" THEN "stream" ELSE failed)
  /\ f.type = "block_start" => s.acc = Dr!NewBlock(f)
  /\ f.type = "input_delta" /\ f.index \in DOMAIN acc => s.acc = [acc EXCEPT ![f.index].args = Append(@, n)]
  /\ f.type # "block_start" /\ ~(f.type = "input_delta" /\ f.index \in DOMAIN acc) => s.acc = acc
  /\ f.type = "text_delta" => s.send = <<Dr!TextPart("text", n)>>
  /\ f.type = "thinking_delta" => s.send = <<Dr!TextPart("reasoning", n)>>
  /\ f.type = "block_stop" => s.send =
       (IF f.index \in DOMAIN acc THEN Dr!If(acc[f.index].kind = "tool_use", Dr!ToolPart(acc[f.index])) ELSE <<>>)
  /\ f.type \notin {"text_delta", "thinking_delta", "block_stop"} => s.send = <<>>

\* And of the Anthropic driver.
LEMMA AnthropicSays ==
  ASSUME api = "anthropic", NEW f \in Frames["anthropic"], NEW n, n = Len(seen) + 1, NEW s, s = Dr!Processed(f)
  PROVE  AnthropicSaid(s, f, n)
<1>1. f.type \in {"block_start", "text_delta", "thinking_delta", "input_delta", "block_stop",
                  "message_delta", "message_stop", "error", "other"}
  BY FrameTypes
<1>2. s = Dr!AnthropicFrame(f, n)
  BY DEF Dr!Processed
<1>3. CASE f.type = "block_start"
  <2>1. s = [Dr!Nothing EXCEPT !.acc = Dr!NewBlock(f)]
    BY <1>2, <1>3 DEF Dr!AnthropicFrame
  <2>2. PICK a : a = Dr!NewBlock(f)
    OBVIOUS
  <2>3. s = [Dr!Nothing EXCEPT !.acc = a]
    BY <2>1, <2>2, Zenon
  <2>4. Fields(s) /\ s.ends = FALSE /\ s.acc = a /\ s.finish = finish /\ s.failed = failed /\ s.usage = usage /\ s.send = <<>>
    BY <2>3 DEF Dr!Nothing, Fields
  <2> QED BY <1>3, <2>2, <2>4 DEF AnthropicSaid
<1>4. CASE f.type = "text_delta"
  <2>1. PICK w : w = <<Dr!TextPart("text", n)>>
    OBVIOUS
  <2>2. s = [Dr!Nothing EXCEPT !.send = w]
    BY <1>2, <1>4, <2>1 DEF Dr!AnthropicFrame
  <2>3. Fields(s) /\ s.ends = FALSE /\ s.acc = acc /\ s.finish = finish /\ s.failed = failed /\ s.usage = usage /\ s.send = w
    BY <2>2 DEF Dr!Nothing, Fields
  <2> QED BY <1>4, <2>1, <2>3 DEF AnthropicSaid
<1>5. CASE f.type = "thinking_delta"
  <2>1. PICK w : w = <<Dr!TextPart("reasoning", n)>>
    OBVIOUS
  <2>2. s = [Dr!Nothing EXCEPT !.send = w]
    BY <1>2, <1>5, <2>1 DEF Dr!AnthropicFrame
  <2>3. Fields(s) /\ s.ends = FALSE /\ s.acc = acc /\ s.finish = finish /\ s.failed = failed /\ s.usage = usage /\ s.send = w
    BY <2>2 DEF Dr!Nothing, Fields
  <2> QED BY <1>5, <2>1, <2>3 DEF AnthropicSaid
<1>6. CASE f.type = "input_delta" /\ f.index \in DOMAIN acc
  <2>1. s = [Dr!Nothing EXCEPT !.acc[f.index].args = Append(@, n)]
    BY <1>2, <1>6 DEF Dr!AnthropicFrame
  <2>2. /\ Fields(s) /\ s.ends = FALSE /\ s.acc = [acc EXCEPT ![f.index].args = Append(@, n)]
        /\ s.finish = finish /\ s.failed = failed /\ s.usage = usage /\ s.send = <<>>
    BY <2>1 DEF Dr!Nothing, Fields
  <2> QED BY <1>6, <2>2 DEF AnthropicSaid
<1>7. CASE f.type = "block_stop" /\ f.index \in DOMAIN acc
  <2>1. PICK w : w = Dr!If(acc[f.index].kind = "tool_use", Dr!ToolPart(acc[f.index]))
    OBVIOUS
  <2>2. s = [Dr!Nothing EXCEPT !.send = w]
    BY <1>2, <1>7, <2>1 DEF Dr!AnthropicFrame
  <2>3. Fields(s) /\ s.ends = FALSE /\ s.acc = acc /\ s.finish = finish /\ s.failed = failed /\ s.usage = usage /\ s.send = w
    BY <2>2 DEF Dr!Nothing, Fields
  <2> QED BY <1>7, <2>1, <2>3 DEF AnthropicSaid
<1>8. CASE f.type = "message_delta"
  <2>1. PICK fi : fi = IF f.finish = "" THEN finish ELSE Dr!AnFinish(f.finish)
    OBVIOUS
  <2>2. s = [Dr!Nothing EXCEPT !.finish = fi]
    <3>1. PICK z : z = Dr!Nothing
      OBVIOUS
    <3>2. z.finish = finish
      BY <3>1, NothingIs, Zenon DEF Quiet
    <3>3. s = [Dr!Nothing EXCEPT !.finish = IF f.finish = "" THEN Dr!Nothing.finish ELSE Dr!AnFinish(f.finish)]
      BY <1>2, <1>8 DEF Dr!AnthropicFrame
    <3> QED BY <2>1, <3>1, <3>2, <3>3, Zenon
  <2>3. Fields(s) /\ s.ends = FALSE /\ s.acc = acc /\ s.finish = fi /\ s.failed = failed /\ s.usage = usage /\ s.send = <<>>
    BY <2>2 DEF Dr!Nothing, Fields
  <2> QED BY <1>8, <2>1, <2>3 DEF AnthropicSaid
<1>9. CASE f.type = "message_stop"
  <2>1. s = [Dr!Nothing EXCEPT !.ends = TRUE]
    BY <1>2, <1>9 DEF Dr!AnthropicFrame
  <2>2. Fields(s) /\ s.ends = TRUE /\ s.acc = acc /\ s.finish = finish /\ s.failed = failed /\ s.usage = usage /\ s.send = <<>>
    BY <2>1 DEF Dr!Nothing, Fields
  <2> QED BY <1>9, <2>2 DEF AnthropicSaid
<1>10. CASE f.type = "error"
  <2>1. s = [Dr!Nothing EXCEPT !.failed = "stream"]
    BY <1>2, <1>10 DEF Dr!AnthropicFrame
  <2>2. Fields(s) /\ s.ends = FALSE /\ s.acc = acc /\ s.finish = finish /\ s.failed = "stream" /\ s.usage = usage /\ s.send = <<>>
    BY <2>1 DEF Dr!Nothing, Fields
  <2> QED BY <1>10, <2>2 DEF AnthropicSaid
<1>11. CASE f.type = "other" \/ (f.type \in {"input_delta", "block_stop"} /\ f.index \notin DOMAIN acc)
  <2>1. s = Dr!Nothing
    BY <1>2, <1>11 DEF Dr!AnthropicFrame
  <2>2. Fields(s) /\ s.ends = FALSE /\ s.acc = acc /\ s.finish = finish /\ s.failed = failed /\ s.usage = usage /\ s.send = <<>>
    BY <2>1 DEF Dr!Nothing, Fields
  <2> QED BY <1>11, <2>2 DEF AnthropicSaid
<1> QED BY <1>1, <1>3, <1>4, <1>5, <1>6, <1>7, <1>8, <1>9, <1>10, <1>11

\* The driver has taken in what the frames so far say.
Knows(a, fi, fa, us, p, frames) ==
  /\ p = "openai" => a = Told(Dr!Fragments(frames))
  /\ p = "anthropic" => Blocks(a, frames)
  /\ FinishIs(fi, frames) /\ FailedIs(fa, frames) /\ us \in BOOLEAN

FrameHeard(s, f, more) ==
  /\ Fields(s) /\ s.ends \in BOOLEAN
  /\ Knows(s.acc, s.finish, s.failed, s.usage, api, more)
  /\ s.send = Dr!Spoken(more, Len(seen) + 1)

\* The OpenAI driver, having taken in a frame, knows what the frames say.
LEMMA OpenAIHears ==
  ASSUME api = "openai", NEW f, NEW more, More(more, seen, f, "openai"),
         Knows(acc, finish, failed, usage, "openai", seen), NEW s, s = Dr!Processed(f)
  PROVE  FrameHeard(s, f, more)
<1>1. PICK n : n = Len(seen) + 1
  OBVIOUS
<1>2. f \in Frames["openai"] /\ more[n] = f
  BY <1>1 DEF More
<1>3. acc = Told(Dr!Fragments(seen)) /\ FinishIs(finish, seen) /\ FailedIs(failed, seen) /\ usage \in BOOLEAN
  BY Zenon DEF Knows
<1>4. /\ f.type = "chunk" =>
           Dr!Spoken(more, n) = Dr!If(f.text, Dr!TextPart("text", n)) \o Dr!If(f.reasoning, Dr!TextPart("reasoning", n))
      /\ f.type \notin {"chunk", "text_delta", "thinking_delta", "block_stop"} => Dr!Spoken(more, n) = <<>>
  BY <1>2, SpokenByType, Zenon DEF SpokenIs
<1>5. f.type \in {"chunk", "usage", "done", "other"}
  BY <1>2, FrameTypes
<1>6. "openai" \in Apis /\ f.type # "error" /\ f.type # "message_delta"
  BY <1>5 DEF Apis
<1>7. /\ f.type = "chunk" /\ f.finish # "" => FinishIs(f.finish, more)
      /\ ~(f.type = "chunk" /\ f.finish # "") => FinishIs(finish, more)
  <2>1. /\ f.type \in {"chunk", "message_delta"} /\ f.finish # "" => FinishIs(ReasonOf(f), more)
        /\ ~(f.type \in {"chunk", "message_delta"} /\ f.finish # "") => FinishIs(finish, more)
    BY <1>3, <1>6, FinishGrows, Zenon
  <2>2. f.type = "chunk" => ReasonOf(f) = f.finish
    BY DEF ReasonOf
  <2> QED BY <1>6, <2>1, <2>2
<1>8. FailedIs(failed, more)
  BY <1>3, <1>6, FailedGrows, Zenon
<1>9. CASE f.type = "chunk"
  <2>1. /\ Fields(s) /\ s.ends \in BOOLEAN
        /\ s.acc = Dr!Accumulated(f, n) /\ s.finish = (IF f.finish = "" THEN finish ELSE f.finish)
        /\ s.failed = failed /\ s.usage = usage
        /\ s.send = Dr!If(f.text, Dr!TextPart("text", n)) \o Dr!If(f.reasoning, Dr!TextPart("reasoning", n))
    BY <1>1, <1>2, <1>9, OpenAISays, Zenon
  <2>2. s.acc = Told(Dr!Fragments(more))
    BY <1>1, <1>3, <1>9, <2>1, Accumulates, Zenon
  <2>3. FinishIs(s.finish, more)
    BY <1>7, <1>9, <2>1, Zenon
  <2>4. FailedIs(s.failed, more) /\ s.usage \in BOOLEAN
    BY <1>3, <1>8, <2>1, Zenon
  <2>5. Knows(s.acc, s.finish, s.failed, s.usage, "openai", more)
    <3>1. "openai" # "anthropic"
      OBVIOUS
    <3> QED BY <2>2, <2>3, <2>4, <3>1, Zenon DEF Knows
  <2>6. s.send = Dr!Spoken(more, n)
    BY <1>4, <1>9, <2>1, Zenon
  <2> QED BY <1>1, <2>1, <2>5, <2>6, Zenon DEF FrameHeard
<1>10. CASE f.type # "chunk"
  <2>1. /\ Fields(s) /\ s.ends \in BOOLEAN
        /\ s.acc = acc /\ s.finish = finish /\ s.failed = failed /\ s.send = <<>>
        /\ s.usage = usage \/ s.usage = TRUE
    BY <1>1, <1>2, <1>10, OpenAISays, Zenon
  <2>2. Dr!Fragments(more) = Dr!Fragments(seen)
    <3>1. FragsOf(f, Len(seen) + 1) = <<>>
      BY <1>10, Zenon DEF FragsOf
    <3>2. /\ Dr!Fragments(seen) \in Seq(Piece)
          /\ Dr!Fragments(more) = Cat(Dr!Fragments(seen), FragsOf(f, Len(seen) + 1))
      BY FragmentsGrow, Zenon
    <3>3. PICK xs \in Seq(Piece) : xs = Dr!Fragments(seen)
      BY <3>2, Zenon
    <3>4. Cat(xs, <<>>) = xs
      BY DEF Cat
    <3> QED BY <3>1, <3>2, <3>3, <3>4, Zenon
  <2>3. FinishIs(s.finish, more)
    BY <1>7, <1>10, <2>1, Zenon
  <2>4. FailedIs(s.failed, more)
    BY <1>8, <2>1, Zenon
  <2>5. s.usage \in BOOLEAN
    BY <1>3, <2>1
  <2>6. Knows(s.acc, s.finish, s.failed, s.usage, "openai", more)
    <3>1. "openai" # "anthropic"
      OBVIOUS
    <3> QED BY <1>3, <2>1, <2>2, <2>3, <2>4, <2>5, <3>1, Zenon DEF Knows
  <2>7. s.send = Dr!Spoken(more, n)
    <3>1. f.type \notin {"chunk", "text_delta", "thinking_delta", "block_stop"}
      BY <1>5, <1>10
    <3> QED BY <1>4, <2>1, <3>1, Zenon
  <2> QED BY <1>1, <2>1, <2>6, <2>7, Zenon DEF FrameHeard
<1> QED BY <1>9, <1>10

\* So does the Anthropic driver.
LEMMA AnthropicHears ==
  ASSUME api = "anthropic", NEW f, NEW more, More(more, seen, f, "anthropic"),
         Knows(acc, finish, failed, usage, "anthropic", seen), NEW s, s = Dr!Processed(f)
  PROVE  FrameHeard(s, f, more)
<1>1. PICK n : n = Len(seen) + 1
  OBVIOUS
<1>2. f \in Frames["anthropic"] /\ more[n] = f /\ n = Len(more) /\ n \in Nat
  BY <1>1 DEF More
<1>3. Blocks(acc, seen) /\ FinishIs(finish, seen) /\ FailedIs(failed, seen) /\ usage \in BOOLEAN
  BY Zenon DEF Knows
<1>4. /\ f.type = "text_delta" => Dr!Spoken(more, n) = <<Dr!TextPart("text", n)>>
      /\ f.type = "thinking_delta" => Dr!Spoken(more, n) = <<Dr!TextPart("reasoning", n)>>
      /\ f.type = "block_stop" => Dr!Spoken(more, n) = Dr!AnthropicCall(more, n)
      /\ f.type \notin {"chunk", "text_delta", "thinking_delta", "block_stop"} => Dr!Spoken(more, n) = <<>>
  BY <1>2, SpokenByType, Zenon DEF SpokenIs
<1>5. f.type # "chunk"
  BY <1>2, FrameTypes
<1>6. "anthropic" \in Apis
  BY DEF Apis
<1>7. /\ Fields(s) /\ s.ends \in BOOLEAN /\ s.usage = usage
      /\ s.finish = (IF f.type = "message_delta" /\ f.finish # "" THEN Dr!AnFinish(f.finish) ELSE finish)
      /\ s.failed = (IF f.type = "error" THEN "stream" ELSE failed)
      /\ f.type = "block_start" => s.acc = Dr!NewBlock(f)
      /\ f.type = "input_delta" /\ f.index \in DOMAIN acc => s.acc = [acc EXCEPT ![f.index].args = Append(@, n)]
      /\ f.type # "block_start" /\ ~(f.type = "input_delta" /\ f.index \in DOMAIN acc) => s.acc = acc
      /\ f.type = "text_delta" => s.send = <<Dr!TextPart("text", n)>>
      /\ f.type = "thinking_delta" => s.send = <<Dr!TextPart("reasoning", n)>>
      /\ f.type = "block_stop" => s.send =
           (IF f.index \in DOMAIN acc THEN Dr!If(acc[f.index].kind = "tool_use", Dr!ToolPart(acc[f.index])) ELSE <<>>)
      /\ f.type \notin {"text_delta", "thinking_delta", "block_stop"} => s.send = <<>>
  <2>1. AnthropicSaid(s, f, n)
    BY <1>1, <1>2, AnthropicSays, Zenon
  <2> QED BY <2>1 DEF AnthropicSaid
<1>8. FinishIs(s.finish, more)
  <2>1. /\ f.type \in {"chunk", "message_delta"} /\ f.finish # "" => FinishIs(ReasonOf(f), more)
        /\ ~(f.type \in {"chunk", "message_delta"} /\ f.finish # "") => FinishIs(finish, more)
    BY <1>3, <1>6, FinishGrows, Zenon
  <2>2. ReasonOf(f) = Dr!AnFinish(f.finish)
    BY <1>5 DEF ReasonOf
  <2>3. CASE f.type = "message_delta" /\ f.finish # ""
    BY <1>7, <2>1, <2>2, <2>3
  <2>4. CASE ~(f.type = "message_delta" /\ f.finish # "")
    BY <1>5, <1>7, <2>1, <2>4
  <2> QED BY <2>3, <2>4
<1>9. FailedIs(s.failed, more)
  <2>1. /\ f.type = "error" => FailedIs("stream", more)
        /\ f.type # "error" => FailedIs(failed, more)
    BY <1>3, FailedGrows, Zenon
  <2> QED BY <1>7, <2>1
<1>10. Blocks(s.acc, more)
  <2>1. CASE f.type = "block_start"
    <3>1. Blocks(Dr!NewBlock(f), more)
      BY <1>3, <2>1, BlocksBegin, Zenon
    <3> QED BY <1>7, <2>1, <3>1, Zenon
  <2>2. CASE f.type = "input_delta" /\ f.index \in DOMAIN acc
    <3>1. PICK a : a = [acc EXCEPT ![f.index].args = Append(@, n)]
      OBVIOUS
    <3>2. Blocks(a, more)
      BY <1>1, <1>3, <2>2, <3>1, BlocksFill, Zenon
    <3> QED BY <1>7, <2>2, <3>1, <3>2, Zenon
  <2>3. CASE f.type # "block_start" /\ ~(f.type = "input_delta" /\ f.index \in DOMAIN acc)
    <3>1. Blocks(acc, more)
      BY <1>3, <2>3, BlocksPass, Zenon
    <3> QED BY <1>7, <2>3, <3>1, Zenon
  <2> QED BY <2>1, <2>2, <2>3
<1>11. s.send = Dr!Spoken(more, n)
  <2>1. CASE f.type = "block_stop"
    <3>1. s.acc = acc
      BY <1>7, <2>1
    <3>2. Blocks(acc, more)
      BY <1>10, <3>1, Zenon
    <3>3. PICK idx : idx = more[n].index
      OBVIOUS
    <3>4. /\ idx \notin DOMAIN acc => Dr!AnthropicCall(more, n) = <<>>
          /\ idx \in DOMAIN acc => Dr!AnthropicCall(more, n) = Dr!If(acc[idx].kind = "tool_use", Dr!ToolPart(acc[idx]))
      <4>1. StopSaid(more, n, idx)
        BY <1>2, <3>2, <3>3, StopSays
      <4> QED BY <4>1, Zenon DEF StopSaid
    <3>5. s.send = IF idx \in DOMAIN acc THEN Dr!If(acc[idx].kind = "tool_use", Dr!ToolPart(acc[idx])) ELSE <<>>
      BY <1>2, <1>7, <2>1, <3>3, Zenon
    <3> QED BY <1>4, <2>1, <3>4, <3>5, Zenon
  <2>2. CASE f.type \in {"text_delta", "thinking_delta"}
    BY <1>4, <1>7, <2>2
  <2>3. CASE f.type \notin {"text_delta", "thinking_delta", "block_stop"}
    BY <1>4, <1>5, <1>7, <2>3
  <2> QED BY <2>1, <2>2, <2>3
<1>12. Knows(s.acc, s.finish, s.failed, s.usage, "anthropic", more)
  <2>1. "openai" # "anthropic"
    OBVIOUS
  <2> QED BY <1>3, <1>7, <1>8, <1>9, <1>10, <2>1, Zenon DEF Knows
<1> QED BY <1>1, <1>7, <1>11, <1>12, Zenon DEF FrameHeard

\* Either driver knows what the frames say, and sends what the last one says.
LEMMA FrameSays ==
  ASSUME api \in Apis, NEW f, NEW more, More(more, seen, f, api),
         Knows(acc, finish, failed, usage, api, seen), NEW s, s = Dr!Processed(f)
  PROVE  FrameHeard(s, f, more)
<1>1. CASE api = "openai"
  <2>1. More(more, seen, f, "openai") /\ Knows(acc, finish, failed, usage, "openai", seen)
    BY <1>1, Zenon
  <2> QED BY <1>1, <2>1, OpenAIHears, Zenon
<1>2. CASE api = "anthropic"
  <2>1. More(more, seen, f, "anthropic") /\ Knows(acc, finish, failed, usage, "anthropic", seen)
    BY <1>2, Zenon
  <2> QED BY <1>2, <2>1, AnthropicHears, Zenon
<1> QED BY <1>1, <1>2 DEF Apis

-----------------------------------------------------------------------------
(* How a response ends. *)

CallsOf(p, frames) == IF p = "openai" THEN Dr!OpenAICalls(Dr!Fragments(frames)) ELSE <<>>
Mute(w) == w \in Seq(Part) /\ \A i \in 1 .. Len(w) : w[i].kind = "tool"
Ending(e, frames) == e \in Part /\ e.kind = "final" /\ e.finish = Dr!Reason(frames)

\* The calls of the fragments are parts, and those the driver makes of what it has put together.
LEMMA CallsAre ==
  ASSUME NEW xs \in Seq(Piece)
  PROVE  /\ Mute(Dr!OpenAICalls(xs))
         /\ [i \in DOMAIN Told(xs) |-> Dr!ToolPart(Told(xs)[i])] = Dr!OpenAICalls(xs)
<1>1. PICK w : w = Dr!Order(xs)
  OBVIOUS
<1>2. w \in Seq(Int)
  BY <1>1, Ordered, Zenon DEF Orders
<1>3. PICK n \in Nat : n = Len(w) /\ DOMAIN w = 1 .. n
  BY <1>2
<1>4. PICK t : t = Told(xs)
  OBVIOUS
<1>5. t = [k \in 1 .. n |-> ToldOf(xs, w[k])]
  BY <1>1, <1>3, <1>4, Zenon DEF Told
<1>6. DOMAIN t = 1 .. n /\ \A k \in 1 .. n : t[k] = ToldOf(xs, w[k])
  BY <1>5
<1> DEFINE c == [k \in 1 .. n |-> [kind |-> "tool", id |-> Dr!LatestId(xs, w[k]), name |-> Dr!LatestName(xs, w[k]),
                                   args |-> Dr!Pieces(xs, w[k])]]
<1>7. Dr!OpenAICalls(xs) = c
  BY <1>1, <1>3, Zenon DEF Dr!OpenAICalls
<1>8. \A k \in 1 .. n : Dr!ToolPart(t[k]) = [kind |-> "tool", id |-> Dr!LatestId(xs, w[k]), name |-> Dr!LatestName(xs, w[k]),
                                   args |-> Dr!Pieces(xs, w[k])]
  <2> SUFFICES ASSUME NEW k \in 1 .. n
               PROVE  Dr!ToolPart(t[k]) = [kind |-> "tool", id |-> Dr!LatestId(xs, w[k]), name |-> Dr!LatestName(xs, w[k]),
                                   args |-> Dr!Pieces(xs, w[k])]
    OBVIOUS
  <2>1. PICK a : a = t[k]
    OBVIOUS
  <2>2. a = ToldOf(xs, w[k])
    BY <1>6, <2>1
  <2>3. a.id = Dr!LatestId(xs, w[k]) /\ a.name = Dr!LatestName(xs, w[k]) /\ a.args = Dr!Pieces(xs, w[k])
    BY <2>2 DEF ToldOf
  <2> QED BY <2>1, <2>3, Zenon DEF Dr!ToolPart
<1>9. [i \in DOMAIN t |-> Dr!ToolPart(t[i])] = c
  BY <1>6, <1>8, Zenon
<1>10. \A k \in 1 .. n : c[k] \in Part /\ c[k].kind = "tool"
  <2> SUFFICES ASSUME NEW k \in 1 .. n PROVE c[k] \in Part /\ c[k].kind = "tool"
    OBVIOUS
  <2>1. w[k] \in Int
    BY <1>2, <1>3
  <2>2. PICK a \in Call : a = ToldOf(xs, w[k])
    BY <2>1, CallTold
  <2>3. a.id = Dr!LatestId(xs, w[k]) /\ a.name = Dr!LatestName(xs, w[k]) /\ a.args = Dr!Pieces(xs, w[k])
    BY <2>2 DEF ToldOf
  <2>4. c[k] = [kind |-> "tool", id |-> a.id, name |-> a.name, args |-> a.args]
    BY <2>3
  <2>5. a.id \in Strings /\ a.name \in Strings /\ a.args \in Seq(Nat)
    BY DEF Call
  <2> HIDE DEF c
  <2> QED BY <2>4, <2>5 DEF Part, Tools
<1>11. c = [k \in 1 .. n |-> c[k]]
  OBVIOUS
<1> HIDE DEF c
<1>12. c \in Seq(Part) /\ Len(c) = n
  BY <1>10, <1>11
<1>13. Mute(c)
  BY <1>10, <1>12, Zenon DEF Mute
<1> QED BY <1>4, <1>7, <1>9, <1>13, Zenon

LEMMA MuteNone == Mute(<<>>)
<1>1. <<>> \in Seq(Part) /\ Len(<<>>) = 0 /\ \A i \in 1 .. 0 : FALSE
  OBVIOUS
<1> QED BY <1>1, Zenon DEF Mute

LEMMA FragmentsAre ==
  ASSUME NEW frames \in Seq(Frames["openai"])
  PROVE  Dr!Fragments(frames) \in Seq(Piece)
<1>1. PICK n \in Nat : n = Len(frames) /\ DOMAIN frames = 1 .. n
  OBVIOUS
<1> DEFINE tt == [i \in 1 .. n |-> FragsOf(frames[i], i)]
<1>2. Dr!Fragments(frames) = Dr!FlattenSeq(tt)
  BY <1>1, Zenon DEF Dr!Fragments, FragsOf
<1>3. \A i \in 1 .. n : tt[i] \in Seq(Piece)
  <2>1. \A i \in 1 .. n : i \in Nat /\ frames[i] \in Frames["openai"]
    BY <1>1
  <2> QED BY <2>1, FragsAre
<1>4. Joinable(tt, n, Piece)
  <2>1. tt = [i \in 1 .. n |-> tt[i]] /\ (n = 0 => tt = <<>>)
    OBVIOUS
  <2> HIDE DEF tt
  <2> QED BY <1>3, <2>1 DEF Joinable, SeqsOf
<1> QED BY <1>2, <1>4, Flattened, Zenon

\* No call is text or final.
LEMMA CallsMute ==
  ASSUME NEW p \in Apis, NEW frames \in Seq(Frames[p])
  PROVE  Mute(CallsOf(p, frames))
<1>1. CASE p = "openai"
  <2>1. frames \in Seq(Frames["openai"])
    BY <1>1, Zenon
  <2>2. PICK xs \in Seq(Piece) : xs = Dr!Fragments(frames)
    BY <2>1, FragmentsAre, Zenon
  <2>3. Mute(Dr!OpenAICalls(xs))
    BY CallsAre, Zenon
  <2> QED BY <1>1, <2>2, <2>3, Zenon DEF CallsOf
<1>2. CASE p # "openai"
  BY <1>2, MuteNone, Zenon DEF CallsOf
<1> QED BY <1>1, <1>2

\* The reason a response gives is the one the driver has kept.
LEMMA ReasonKept ==
  ASSUME NEW p \in Apis, NEW frames \in Seq(Frames[p]), NEW fi, FinishIs(fi, frames), NEW fa, FailedIs(fa, frames)
  PROVE  /\ fi # "" /\ (p = "openai" \/ fa # "stream") => Dr!Reason(frames) = fi
         /\ fi = "" \/ (p # "openai" /\ fa = "stream") => Dr!Reason(frames) = "error"
<1>1. DOMAIN frames = 1 .. Len(frames) /\ \A i \in 1 .. Len(frames) : frames[i] \in Frames[p]
  OBVIOUS
<1>2. p = "openai" => ~\E i \in DOMAIN frames : frames[i].type = "error"
  BY <1>1, FrameTypes
<1>3. PICK T : T = Dr!Reasons(frames)
  OBVIOUS
<1>4. PICK l : l = frames[Dr!Latest(T)]
  OBVIOUS
<1>5. Dr!Reason(frames) =
        IF T = {} \/ (\E n \in DOMAIN frames : frames[n].type = "error") THEN "error" ELSE ReasonOf(l)
  BY <1>3, <1>4, Zenon DEF Dr!Reason, ReasonOf
<1>6. (T = {} => fi = "") /\ (T # {} => fi # "" /\ fi = ReasonOf(l))
  BY <1>3, <1>4, Zenon DEF FinishIs
<1>7. fa = "stream" <=> \E i \in DOMAIN frames : frames[i].type = "error"
  BY Zenon DEF FailedIs
<1>8. ASSUME fi # "", p = "openai" \/ fa # "stream" PROVE Dr!Reason(frames) = fi
  <2>1. T # {} /\ ~\E i \in DOMAIN frames : frames[i].type = "error"
    BY <1>2, <1>6, <1>7, <1>8, Zenon
  <2> QED BY <1>5, <1>6, <2>1, Zenon
<1>9. ASSUME fi = "" \/ (p # "openai" /\ fa = "stream") PROVE Dr!Reason(frames) = "error"
  <2>1. T = {} \/ \E i \in DOMAIN frames : frames[i].type = "error"
    BY <1>6, <1>7, <1>9, Zenon
  <2> QED BY <1>5, <2>1, Zenon
<1> QED BY <1>8, <1>9

LEMMA FinalIsPart ==
  ASSUME NEW f \in Strings, NEW u \in BOOLEAN
  PROVE  [kind |-> "final", finish |-> f, usage |-> u] \in Part
BY DEF Part, Finals

\* The driver ends a response with its calls and one final part.
LEMMA FinishSays ==
  ASSUME api \in Apis, NEW frames \in Seq(Frames[api]), NEW s, Knows(s.acc, s.finish, s.failed, s.usage, api, frames)
  PROVE  \E e : Ending(e, frames) /\ Dr!FinishParts(s) = Append(CallsOf(api, frames), e)
<1>1. FinishIs(s.finish, frames) /\ FailedIs(s.failed, frames) /\ s.usage \in BOOLEAN
  BY Zenon DEF Knows
<1>2. s.finish \in Strings
  BY <1>1, Zenon DEF FinishIs
<1>3. PICK error : error = [kind |-> "final", finish |-> "error", usage |-> FALSE]
  OBVIOUS
<1>4. PICK u \in BOOLEAN : u = IF api = "openai" THEN s.usage ELSE TRUE
  BY <1>1
<1>5. PICK fine : fine = [kind |-> "final", finish |-> s.finish, usage |-> u]
  OBVIOUS
<1>6. /\ error \in Part /\ error.kind = "final" /\ error.finish = "error"
      /\ fine \in Part /\ fine.kind = "final" /\ fine.finish = s.finish
  <2>1. "error" \in Strings /\ FALSE \in BOOLEAN
    BY DEF Strings
  <2>2. error \in Part
    BY <1>3, <2>1, FinalIsPart, Zenon
  <2>3. fine \in Part
    BY <1>2, <1>5, FinalIsPart, Zenon
  <2>4. error.kind = "final" /\ error.finish = "error"
    BY <1>3
  <2>5. fine.kind = "final" /\ fine.finish = s.finish
    BY <1>5
  <2> QED BY <2>2, <2>3, <2>4, <2>5
<1>7. /\ s.finish # "" /\ (api = "openai" \/ s.failed # "stream") => Dr!Reason(frames) = s.finish
      /\ s.finish = "" \/ (api # "openai" /\ s.failed = "stream") => Dr!Reason(frames) = "error"
  BY <1>1, ReasonKept, Zenon
<1>8. CASE api = "openai"
  <2>1. PICK e : e = IF s.finish # "" THEN fine ELSE error
    OBVIOUS
  <2>2. Ending(e, frames)
    <3>1. CASE s.finish # ""
      BY <1>6, <1>7, <1>8, <2>1, <3>1, Zenon DEF Ending
    <3>2. CASE s.finish = ""
      BY <1>6, <1>7, <1>8, <2>1, <3>2, Zenon DEF Ending
    <3> QED BY <3>1, <3>2
  <2>3. frames \in Seq(Frames["openai"]) /\ s.acc = Told(Dr!Fragments(frames))
    BY <1>8, Zenon DEF Knows
  <2>4. PICK xs \in Seq(Piece) : xs = Dr!Fragments(frames)
    BY <2>3, FragmentsAre, Zenon
  <2>5. [i \in DOMAIN s.acc |-> Dr!ToolPart(s.acc[i])] = CallsOf(api, frames)
    <3>1. [i \in DOMAIN Told(xs) |-> Dr!ToolPart(Told(xs)[i])] = Dr!OpenAICalls(xs)
      BY CallsAre, Zenon
    <3> QED BY <1>8, <2>3, <2>4, <3>1, Zenon DEF CallsOf
  <2>6. Dr!FinishParts(s) = Append([i \in DOMAIN s.acc |-> Dr!ToolPart(s.acc[i])], e)
    BY <1>3, <1>4, <1>5, <1>8, <2>1 DEF Dr!FinishParts
  <2> QED BY <2>2, <2>5, <2>6, Zenon
<1>9. CASE api = "anthropic"
  <2>0. api # "openai"
    BY <1>9
  <2>1. PICK e : e = IF s.failed # "stream" /\ s.finish # "" THEN fine ELSE error
    OBVIOUS
  <2>2. Ending(e, frames)
    <3>1. CASE s.failed # "stream" /\ s.finish # ""
      BY <1>6, <1>7, <2>1, <3>1, Zenon DEF Ending
    <3>2. CASE ~(s.failed # "stream" /\ s.finish # "")
      BY <1>6, <1>7, <2>0, <2>1, <3>2, Zenon DEF Ending
    <3> QED BY <3>1, <3>2
  <2>3. Dr!FinishParts(s) = <<e>>
    BY <1>3, <1>4, <1>5, <1>9, <2>1 DEF Dr!FinishParts
  <2>4. CallsOf(api, frames) = <<>>
    BY <2>0 DEF CallsOf
  <2>5. Append(<<>>, e) = <<e>>
    OBVIOUS
  <2> QED BY <2>2, <2>3, <2>4, <2>5, Zenon
<1> QED BY <1>8, <1>9 DEF Apis

-----------------------------------------------------------------------------
(* The order of what the engine gets. *)

Orderly(w) ==
  \A i, j \in 1 .. Len(w) : i < j =>
    /\ w[i].kind # "final"
    /\ w[i].kind \in Voice /\ w[j].kind = w[i].kind => w[i].piece < w[j].piece
Early(w, n) == \A i \in 1 .. Len(w) : w[i].kind # "final" /\ (w[i].kind \in Voice => w[i].piece =< n)
Late(w, n) == \A i \in 1 .. Len(w) : w[i].kind \in Voice => w[i].piece > n

\* What a frame makes is in order.
LEMMA SimpleOrder ==
  ASSUME NEW n \in Nat, NEW w, Simple(w, n)
  PROVE  Orderly(w) /\ Early(w, n) /\ (n # 0 => Late(w, n - 1))
<1>1. Orderly(w)
  BY Zenon DEF Simple, Orderly
<1>2. ASSUME NEW i \in 1 .. Len(w) PROVE w[i].kind # "final" /\ (w[i].kind \in Voice => w[i].piece = n)
  BY Zenon DEF Simple
<1>3. Early(w, n)
  BY <1>2 DEF Early
<1>4. n # 0 => Late(w, n - 1)
  BY <1>2 DEF Late
<1> QED BY <1>1, <1>3, <1>4

LEMMA VoicePiece ==
  ASSUME NEW w \in Seq(Part), NEW i \in 1 .. Len(w), w[i].kind \in Voice
  PROVE  w[i].piece \in Nat
<1>1. PICK x \in Part : x = w[i]
  OBVIOUS
<1>2. x.kind \in {"text", "reasoning"}
  BY <1>1 DEF Voice
<1>3. x.piece \in Nat
  BY <1>2 DEF Part, TextParts, Tools, Finals
<1> QED BY <1>1, <1>3

\* What is put together, early before late, is in order.
LEMMA OrderCat ==
  ASSUME NEW n \in Nat, NEW u \in Seq(Part), NEW w \in Seq(Part), Orderly(u), Orderly(w), Early(u, n), Late(w, n)
  PROVE  Orderly(Cat(u, w)) /\ (Early(w, n + 1) => Early(Cat(u, w), n + 1))
<1>1. PICK z : z = Cat(u, w)
  OBVIOUS
<1>2. PICK a \in Nat, b \in Nat : a = Len(u) /\ b = Len(w)
  OBVIOUS
<1>3. /\ Len(z) = a + b /\ \A i \in 1 .. a : z[i] = u[i]
      /\ \A i \in 1 .. b : z[a + i] = w[i]
  <2>1. z = u \o w
    BY <1>1, Zenon DEF Cat
  <2>2. /\ Len(u \o w) = Len(u) + Len(w)
        /\ \A i \in 1 .. Len(u) : (u \o w)[i] = u[i]
        /\ \A i \in 1 .. Len(w) : (u \o w)[Len(u) + i] = w[i]
    BY Concat
  <2> QED BY <1>2, <2>1, <2>2, Zenon
<1>4. \A i \in 1 .. a + b : i \in 1 .. a \/ (i - a \in 1 .. b /\ z[i] = w[i - a])
  <2> SUFFICES ASSUME NEW i \in 1 .. a + b, i \notin 1 .. a PROVE i - a \in 1 .. b /\ z[i] = w[i - a]
    OBVIOUS
  <2>1. i - a \in 1 .. b /\ a + (i - a) = i
    OBVIOUS
  <2> QED BY <1>3, <2>1
<1>5. \A i \in 1 .. a : u[i].kind # "final" /\ (u[i].kind \in Voice => u[i].piece =< n /\ u[i].piece \in Nat)
  <2>1. \A i \in 1 .. a : u[i].kind \in Voice => u[i].piece \in Nat
    BY <1>2, VoicePiece
  <2>2. \A i \in 1 .. a : u[i].kind # "final" /\ (u[i].kind \in Voice => u[i].piece =< n)
    BY <1>2, Zenon DEF Early
  <2> QED BY <2>1, <2>2
<1>6. \A i \in 1 .. b : w[i].kind \in Voice => w[i].piece > n /\ w[i].piece \in Nat
  <2>1. \A i \in 1 .. b : w[i].kind \in Voice => w[i].piece \in Nat
    BY <1>2, VoicePiece
  <2>2. \A i \in 1 .. b : w[i].kind \in Voice => w[i].piece > n
    BY <1>2, Zenon DEF Late
  <2> QED BY <2>1, <2>2
<1>7. /\ \A i, j \in 1 .. a : i < j =>
           /\ u[i].kind # "final"
           /\ u[i].kind \in Voice /\ u[j].kind = u[i].kind => u[i].piece < u[j].piece
      /\ \A i, j \in 1 .. b : i < j =>
           /\ w[i].kind # "final"
           /\ w[i].kind \in Voice /\ w[j].kind = w[i].kind => w[i].piece < w[j].piece
  BY <1>2, Zenon DEF Orderly
<1>8. ASSUME NEW i \in 1 .. a + b, NEW j \in 1 .. a + b, i < j
      PROVE  /\ z[i].kind # "final"
             /\ z[i].kind \in Voice /\ z[j].kind = z[i].kind => z[i].piece < z[j].piece
  <2>1. CASE j \in 1 .. a
    <3>1. i \in 1 .. a
      BY <1>8, <2>1
    <3> QED BY <1>3, <1>7, <1>8, <2>1, <3>1, Zenon
  <2>2. CASE i \notin 1 .. a
    <3>1. j \notin 1 .. a /\ i - a < j - a
      BY <1>8, <2>2
    <3>2. i - a \in 1 .. b /\ z[i] = w[i - a] /\ j - a \in 1 .. b /\ z[j] = w[j - a]
      BY <1>4, <2>2, <3>1, Zenon
    <3>3. PICK k \in 1 .. b, l \in 1 .. b : k = i - a /\ l = j - a /\ k < l
      BY <3>1, <3>2
    <3> QED BY <1>7, <3>2, <3>3, Zenon
  <2>3. CASE i \in 1 .. a /\ j \notin 1 .. a
    <3>1. z[i] = u[i] /\ j - a \in 1 .. b /\ z[j] = w[j - a]
      BY <1>3, <1>4, <2>3, Zenon
    <3>2. PICK l \in 1 .. b : l = j - a
      BY <3>1
    <3>3. z[j] = w[l]
      BY <3>1, <3>2, Zenon
    <3>4. u[i].kind # "final" /\ (u[i].kind \in Voice /\ w[l].kind = u[i].kind => u[i].piece < w[l].piece)
      <4>1. u[i].kind # "final"
        BY <1>5, <2>3, Zenon
      <4>2. ASSUME u[i].kind \in Voice, w[l].kind = u[i].kind PROVE u[i].piece < w[l].piece
        <5>1. u[i].piece =< n /\ u[i].piece \in Nat
          BY <1>5, <2>3, <4>2, Zenon
        <5>2. w[l].kind \in Voice
          BY <4>2, Zenon
        <5>3. w[l].piece > n /\ w[l].piece \in Nat
          BY <1>6, <5>2, Zenon
        <5> QED BY <5>1, <5>3
      <4> QED BY <4>1, <4>2
    <3> QED BY <3>1, <3>3, <3>4, Zenon
  <2> QED BY <2>1, <2>2, <2>3
<1>9. Orderly(z)
  BY <1>3, <1>8, Zenon DEF Orderly
<1>10. ASSUME Early(w, n + 1) PROVE Early(z, n + 1)
  <2>1. \A i \in 1 .. b : w[i].kind # "final" /\ (w[i].kind \in Voice => w[i].piece =< n + 1)
    BY <1>2, <1>10, Zenon DEF Early
  <2>2. ASSUME NEW i \in 1 .. a + b PROVE z[i].kind # "final" /\ (z[i].kind \in Voice => z[i].piece =< n + 1)
    <3>1. CASE i \in 1 .. a
      <4>1. z[i] = u[i]
        BY <1>3, <3>1
      <4>2. u[i].kind # "final" /\ (u[i].kind \in Voice => u[i].piece =< n + 1)
        BY <1>5, <3>1
      <4> QED BY <4>1, <4>2, Zenon
    <3>2. CASE i \notin 1 .. a
      <4>1. i - a \in 1 .. b /\ z[i] = w[i - a]
        BY <1>4, <3>2, Zenon
      <4> QED BY <2>1, <4>1, Zenon
    <3> QED BY <3>1, <3>2
  <2> QED BY <1>3, <2>2, Zenon DEF Early
<1> QED BY <1>1, <1>9, <1>10, Zenon

\* What is kept of some parts is some of them, in order.
Thins(kept, parts, e) ==
  /\ \A x \in 1 .. Len(kept) : e[x] \in 1 .. Len(parts) /\ kept[x] = parts[e[x]]
  /\ \A x, y \in 1 .. Len(kept) : x < y => e[x] < e[y]

\* Of parts that are sent one by one some are kept, all unless the context is cancelled.
LEMMA KeptThins ==
  ASSUME NEW parts \in Seq(Part), NEW kept \in Dr!Kept(parts)
  PROVE  /\ kept \in Seq(Part) /\ \E e : Thins(kept, parts, e)
         /\ ~cancelled => kept = parts
<1>1. CASE ~cancelled
  <2>1. kept = parts
    BY <1>1 DEF Dr!Kept
  <2>2. Thins(parts, parts, [i \in 1 .. Len(parts) |-> i])
    BY DEF Thins
  <2> QED BY <2>1, <2>2
<1>2. CASE cancelled
  <2>1. PICK n \in Nat : n = Len(parts) /\ DOMAIN parts = 1 .. n
    OBVIOUS
  <2>2. PICK some \in SUBSET (1 .. n) : kept = Dr!FlattenSeq([i \in 1 .. n |-> Dr!If(i \in some, parts[i])])
    BY <1>2, <2>1, Zenon DEF Dr!Kept
  <2>3. PICK keep : keep = [i \in 1 .. n |-> i \in some]
    OBVIOUS
  <2>4. PICK ss : ss = [i \in 1 .. n |-> Dr!If(i \in some, parts[i])]
    OBVIOUS
  <2>5. Sifting(ss, keep, parts, n)
    <3>1. \A i \in 1 .. n : ss[i] = IF keep[i] THEN <<parts[i]>> ELSE <<>>
      BY <2>3, <2>4, Zenon DEF Dr!If
    <3>2. ss = [i \in 1 .. n |-> ss[i]]
      BY <2>4
    <3> QED BY <3>1, <3>2, Zenon DEF Sifting
  <2>6. \A i \in 1 .. n : keep[i] => parts[i] \in Part
    BY <2>1
  <2>7. kept = Dr!FlattenSeq(ss)
    BY <2>2, <2>4, Zenon
  <2>8. kept \in Seq(Part) /\ \E e : SiftedAt(kept, keep, parts, n, e)
    BY <2>5, <2>6, <2>7, Sifted, Zenon
  <2>9. PICK e : SiftedAt(kept, keep, parts, n, e)
    BY <2>8
  <2>10. Thins(kept, parts, e)
    BY <2>1, <2>9, Zenon DEF SiftedAt, Thins
  <2> QED BY <1>2, <2>8, <2>10
<1> QED BY <1>1, <1>2

\* What is kept is in order when they were.
LEMMA ThinsOrder ==
  ASSUME NEW kept, NEW parts, NEW e, Thins(kept, parts, e)
  PROVE  /\ Orderly(parts) => Orderly(kept)
         /\ \A n : Early(parts, n) => Early(kept, n)
         /\ \A n : Late(parts, n) => Late(kept, n)
<1>1. /\ \A x \in 1 .. Len(kept) : e[x] \in 1 .. Len(parts) /\ kept[x] = parts[e[x]]
      /\ \A x, y \in 1 .. Len(kept) : x < y => e[x] < e[y]
  BY Zenon DEF Thins
<1>2. ASSUME Orderly(parts) PROVE Orderly(kept)
  <2> SUFFICES ASSUME NEW x \in 1 .. Len(kept), NEW y \in 1 .. Len(kept), x < y
               PROVE  /\ kept[x].kind # "final"
                      /\ kept[x].kind \in Voice /\ kept[y].kind = kept[x].kind => kept[x].piece < kept[y].piece
    BY Zenon DEF Orderly
  <2>1. e[x] \in 1 .. Len(parts) /\ kept[x] = parts[e[x]] /\ e[y] \in 1 .. Len(parts) /\ kept[y] = parts[e[y]] /\ e[x] < e[y]
    BY <1>1, Zenon
  <2>2. /\ parts[e[x]].kind # "final"
        /\ parts[e[x]].kind \in Voice /\ parts[e[y]].kind = parts[e[x]].kind => parts[e[x]].piece < parts[e[y]].piece
    BY <1>2, <2>1, Zenon DEF Orderly
  <2> QED BY <2>1, <2>2, Zenon
<1>3. ASSUME NEW n, Early(parts, n) PROVE Early(kept, n)
  BY <1>1, <1>3, Zenon DEF Early
<1>4. ASSUME NEW n, Late(parts, n) PROVE Late(kept, n)
  BY <1>1, <1>4, Zenon DEF Late
<1> QED BY <1>2, <1>3, <1>4

\* The parts that end a response.
LEMMA EndOrder ==
  ASSUME NEW n, NEW c, Mute(c), NEW e \in Part, e.kind = "final", NEW w, w = Append(c, e)
  PROVE  w \in Seq(Part) /\ Orderly(w) /\ Late(w, n)
<1>1. c \in Seq(Part) /\ \A i \in 1 .. Len(c) : c[i].kind = "tool"
  BY Zenon DEF Mute
<1>2. PICK m \in Nat : m = Len(c)
  BY <1>1
<1>3. w \in Seq(Part) /\ Len(w) = m + 1 /\ w[m + 1] = e /\ \A i \in 1 .. m : w[i] = c[i]
  BY <1>1, <1>2
<1>4. \A i \in 1 .. m : w[i].kind = "tool"
  BY <1>1, <1>2, <1>3
<1>5. \A i \in 1 .. m + 1 : w[i].kind \notin Voice
  <2>1. \A i \in 1 .. m + 1 : w[i].kind = "tool" \/ w[i].kind = "final"
    <3>1. \A i \in 1 .. m + 1 : i = m + 1 \/ i \in 1 .. m
      OBVIOUS
    <3> QED BY <1>3, <1>4, <3>1, Zenon
  <2>2. "tool" \notin Voice /\ "final" \notin Voice
    BY DEF Voice
  <2> QED BY <2>1, <2>2, Zenon
<1>6. \A i, j \in 1 .. m + 1 : i < j => w[i].kind # "final"
  <2>1. \A i, j \in 1 .. m + 1 : i < j => i \in 1 .. m
    OBVIOUS
  <2>2. \A i \in 1 .. m : w[i].kind # "final"
    BY <1>4
  <2> QED BY <2>1, <2>2, Zenon
<1>7. Orderly(w)
  BY <1>3, <1>5, <1>6, Zenon DEF Orderly
<1>8. Late(w, n)
  BY <1>3, <1>5, Zenon DEF Late
<1> QED BY <1>3, <1>7, <1>8

\* Parts that are put together.
LEMMA CatsAre ==
  ASSUME NEW a \in Seq(Part), NEW b \in Seq(Part), NEW c \in Seq(Part), NEW e \in Part
  PROVE  /\ Cat(a, b) \in Seq(Part) /\ Cat(a, Cat(b, c)) = Cat(Cat(a, b), c)
         /\ Cat(a, Append(c, e)) = Append(Cat(a, c), e) /\ Append(c, e) \in Seq(Part)
         /\ Cat(a, <<>>) = a
BY DEF Cat

\* The last of the parts is the end, the others are before it.
LEMMA Ends ==
  ASSUME NEW w \in Seq(Part), NEW e \in Part, NEW o, o = Append(w, e)
  PROVE  o # <<>> /\ Dr!Front(o) = w /\ Dr!Last(o) = e
<1>1. o \in Seq(Part) /\ Len(o) = Len(w) + 1 /\ o[Len(w) + 1] = e /\ \A i \in 1 .. Len(w) : o[i] = w[i]
  OBVIOUS
<1>2. o # <<>>
  BY <1>1
<1>3. Dr!Last(o) = e
  BY <1>1 DEF Dr!Last
<1>4. Dr!Front(o) = w
  <2>1. PICK n \in Nat : n = Len(w)
    OBVIOUS
  <2>2. Len(o) - 1 = n /\ Len(o) = n + 1
    BY <1>1, <2>1
  <2>3. Dr!Front(o) = SubSeq(o, 1, n)
    BY <2>2, Zenon DEF Dr!Front
  <2>4. SubSeq(o, 1, n) \in Seq(Part) /\ Len(SubSeq(o, 1, n)) = n /\ \A i \in 1 .. n : SubSeq(o, 1, n)[i] = o[i]
    BY <1>1, <2>2
  <2> QED BY <1>1, <2>1, <2>3, <2>4
<1> QED BY <1>2, <1>3, <1>4

-----------------------------------------------------------------------------
(* The stream of a response. *)

Complete(o, p, frames) == \E e : Ending(e, frames) /\ o = Append(Cat(Dr!Spoke(frames), CallsOf(p, frames)), e)
Following(a, fi, fa, us, p, frames, o, c) ==
  /\ Knows(a, fi, fa, us, p, frames)
  /\ Early(o, Len(frames))
  /\ ~c => o = Dr!Spoke(frames)
StreamInv ==
  /\ api \in Apis /\ seen \in Seq(Frames[api])
  /\ out \in Seq(Part) /\ Orderly(out)
  /\ phase \in {"new", "reading"} => Following(acc, finish, failed, usage, api, seen, out, cancelled)
  /\ phase = "closed" /\ ~cancelled => Complete(out, api, seen)

\* What is late stays so when put together.
LEMMA LateCat ==
  ASSUME NEW n, NEW u \in Seq(Part), NEW w \in Seq(Part), Late(u, n), Late(w, n)
  PROVE  Late(Cat(u, w), n)
<1>1. PICK z : z = Cat(u, w)
  OBVIOUS
<1>2. PICK a \in Nat, b \in Nat : a = Len(u) /\ b = Len(w)
  OBVIOUS
<1>3. /\ Len(z) = a + b /\ \A i \in 1 .. a : z[i] = u[i]
      /\ \A i \in 1 .. b : z[a + i] = w[i]
  <2>1. z = u \o w
    BY <1>1, Zenon DEF Cat
  <2>2. /\ Len(u \o w) = Len(u) + Len(w)
        /\ \A i \in 1 .. Len(u) : (u \o w)[i] = u[i]
        /\ \A i \in 1 .. Len(w) : (u \o w)[Len(u) + i] = w[i]
    BY Concat
  <2> QED BY <1>2, <2>1, <2>2, Zenon
<1>4. ASSUME NEW i \in 1 .. a + b PROVE z[i].kind \in Voice => z[i].piece > n
  <2>1. CASE i \in 1 .. a
    BY <1>2, <1>3, <2>1, Zenon DEF Late
  <2>2. CASE i \notin 1 .. a
    <3>1. PICK j \in 1 .. b : i = a + j
      <4>1. i - a \in 1 .. b /\ i = a + (i - a)
        BY <2>2
      <4> QED BY <4>1
    <3>2. z[i] = w[j]
      BY <1>3, <3>1
    <3> QED BY <1>2, <3>2, Zenon DEF Late
  <2> QED BY <2>1, <2>2
<1> QED BY <1>1, <1>3, <1>4, Zenon DEF Late

\* What is sent joins what was sent, in order.
LEMMA SendsInOrder ==
  ASSUME NEW n \in Nat, out \in Seq(Part), Orderly(out), Early(out, n),
         NEW parts \in Seq(Part), Orderly(parts), Late(parts, n), Dr!Send(parts)
  PROVE  /\ out' \in Seq(Part) /\ Orderly(out')
         /\ Early(parts, n + 1) => Early(out', n + 1)
         /\ ~cancelled => out' = Cat(out, parts)
<1>1. PICK kept \in Dr!Kept(parts) : out' = out \o kept
  BY Zenon DEF Dr!Send
<1>2. /\ kept \in Seq(Part) /\ \E e : Thins(kept, parts, e)
      /\ ~cancelled => kept = parts
  BY KeptThins, Zenon
<1>3. Orderly(kept) /\ Late(kept, n) /\ (Early(parts, n + 1) => Early(kept, n + 1))
  BY <1>2, ThinsOrder, Zenon
<1>4. out' = Cat(out, kept)
  BY <1>1, Zenon DEF Cat
<1>5. Orderly(Cat(out, kept)) /\ (Early(kept, n + 1) => Early(Cat(out, kept), n + 1))
  BY <1>2, <1>3, OrderCat, Zenon
<1>6. out' \in Seq(Part)
  BY <1>1, <1>2
<1> QED BY <1>2, <1>3, <1>4, <1>5, <1>6, Zenon

\* A response is over: what a last frame says, the calls, and the end.
LEMMA Closes ==
  ASSUME NEW n \in Nat, out \in Seq(Part), Orderly(out), Early(out, n),
         NEW send \in Seq(Part), Simple(send, n + 1), NEW c, Mute(c), NEW frames, NEW e, Ending(e, frames),
         Dr!Send(send \o Append(c, e))
  PROVE  /\ out' \in Seq(Part) /\ Orderly(out')
         /\ ~cancelled => out' = Append(Cat(Cat(out, send), c), e)
<1>1. n + 1 \in Nat /\ n + 1 # 0 /\ (n + 1) - 1 = n
  OBVIOUS
<1>2. Orderly(send) /\ Early(send, n + 1) /\ Late(send, n)
  BY <1>1, SimpleOrder, Zenon
<1>3. PICK w : w = Append(c, e)
  OBVIOUS
<1>4. e \in Part /\ e.kind = "final" /\ c \in Seq(Part)
  BY Zenon DEF Ending, Mute
<1>5. w \in Seq(Part) /\ Orderly(w) /\ Late(w, n) /\ Late(w, n + 1)
  BY <1>3, <1>4, EndOrder, Zenon
<1>6. PICK parts : parts = Cat(send, w)
  OBVIOUS
<1>7. parts \in Seq(Part)
  BY <1>5, <1>6, <1>4, CatsAre
<1>8. Orderly(parts) /\ Late(parts, n)
  BY <1>1, <1>2, <1>5, <1>6, OrderCat, LateCat, Zenon
<1>9. Dr!Send(parts)
  BY <1>3, <1>6, Zenon DEF Cat
<1>10. out' \in Seq(Part) /\ Orderly(out') /\ (~cancelled => out' = Cat(out, parts))
  BY <1>7, <1>8, <1>9, SendsInOrder, Zenon
<1>11. Cat(out, parts) = Append(Cat(Cat(out, send), c), e)
  <2>1. PICK u : u = Cat(out, send)
    OBVIOUS
  <2>2. u \in Seq(Part) /\ Cat(out, Cat(send, w)) = Cat(u, w)
    BY <1>4, <1>5, <2>1, CatsAre
  <2>3. Cat(u, Append(c, e)) = Append(Cat(u, c), e)
    BY <1>4, <2>2, CatsAre
  <2> QED BY <1>3, <1>6, <2>1, <2>2, <2>3, Zenon
<1> QED BY <1>10, <1>11, Zenon

\* That a body broke off changes nothing of what the driver has heard.
LEMMA BrokenHears ==
  ASSUME NEW s, Fields(s), NEW how, NEW t, t = Dr!Broken(s, how), NEW frames,
         Knows(s.acc, s.finish, s.failed, s.usage, api, frames)
  PROVE  Knows(t.acc, t.finish, t.failed, t.usage, api, frames) /\ t.send = s.send
<1>1. /\ t.acc = s.acc /\ t.finish = s.finish /\ t.usage = s.usage /\ t.send = s.send
      /\ t.failed = IF how = "read" /\ s.failed = "none" THEN "read" ELSE s.failed
  BY DEF Fields, Dr!Broken
<1>2. t.failed = "stream" <=> s.failed = "stream"
  BY <1>1
<1>3. FailedIs(t.failed, frames)
  <2>1. FailedIs(s.failed, frames)
    BY Zenon DEF Knows
  <2> QED BY <1>2, <2>1, Zenon DEF FailedIs
<1> QED BY <1>1, <1>3, Zenon DEF Knows

-----------------------------------------------------------------------------

\* It holds before the request,
LEMMA StreamInit == Dr!Init => StreamInv
<1> SUFFICES ASSUME Dr!Init PROVE StreamInv
  OBVIOUS
<1>1. api \in DOMAIN Frames /\ seen = <<>> /\ phase = "new" /\ acc = <<>> /\ finish = "" /\ failed = "none"
      /\ usage = FALSE /\ out = <<>> /\ cancelled = FALSE
  BY Zenon DEF Dr!Init
<1>2. api \in Apis
  <2>1. DOMAIN Frames = {"openai", "anthropic"}
    BY FrameAssumption, Zenon DEF FrameAssumption
  <2> QED BY <1>1, <2>1, Zenon DEF Apis
<1>3. seen \in Seq(Frames[api]) /\ out \in Seq(Part)
  <2>1. \A S : <<>> \in Seq(S)
    OBVIOUS
  <2> QED BY <1>1, <2>1, Zenon
<1>4. Len(<<>>) = 0 /\ (\A i \in 1 .. 0 : FALSE) /\ DOMAIN <<>> = {}
  OBVIOUS
<1>5. Orderly(<<>>) /\ Early(<<>>, 0)
  BY <1>4, Zenon DEF Orderly, Early
<1>6. Dr!Spoke(<<>>) = <<>> /\ Dr!Fragments(<<>>) = <<>>
  BY DEF Dr!Spoke, Dr!Fragments, Dr!FlattenSeq
<1>7. FinishIs("", <<>>)
  <2>1. Dr!Reasons(<<>>) = {}
    BY <1>4 DEF Dr!Reasons
  <2>2. "" \in Strings
    BY DEF Strings
  <2> QED BY <2>1, <2>2, Zenon DEF FinishIs
<1>8. FailedIs("none", <<>>)
  BY <1>4 DEF FailedIs
<1>9. Blocks(<<>>, <<>>)
  <2>1. \A idx : Dr!BlockStarts(<<>>, 0, idx) = {}
    BY <1>4 DEF Dr!BlockStarts
  <2> QED BY <1>4, <2>1 DEF Blocks
<1>10. Knows(<<>>, "", "none", FALSE, api, <<>>)
  BY <1>6, <1>7, <1>8, <1>9, ToldFirst, Zenon DEF Knows
<1>11. Following(acc, finish, failed, usage, api, seen, out, cancelled)
  BY <1>1, <1>4, <1>5, <1>6, <1>10, Zenon DEF Following
<1>12. phase # "closed"
  BY <1>1
<1> QED BY <1>1, <1>2, <1>3, <1>5, <1>11, <1>12, Zenon DEF StreamInv

\* after every frame,
LEMMA StreamFrame ==
  ASSUME StreamInv, NEW f \in Frames[api], Dr!Frame(f)
  PROVE  StreamInv'
<1>1. /\ phase = "reading" /\ seen' = Append(seen, f) /\ api' = api /\ cancelled' = cancelled
  BY Zenon DEF Dr!Frame
<1>2. PICK s : s = Dr!Processed(f)
  OBVIOUS
<1>3. /\ acc' = s.acc /\ finish' = s.finish /\ failed' = s.failed /\ usage' = s.usage
      /\ Dr!Send(IF s.ends THEN s.send \o Dr!FinishParts(s) ELSE s.send)
      /\ phase' = IF s.ends THEN "closed" ELSE phase
  BY <1>2, Zenon DEF Dr!Frame, Dr!Becomes
<1>4. api \in Apis /\ seen \in Seq(Frames[api]) /\ out \in Seq(Part) /\ Orderly(out)
  BY Zenon DEF StreamInv
<1>5. /\ Knows(acc, finish, failed, usage, api, seen) /\ Early(out, Len(seen))
      /\ ~cancelled => out = Dr!Spoke(seen)
  <2>1. phase \in {"new", "reading"}
    BY <1>1
  <2> QED BY <2>1, Zenon DEF StreamInv, Following
<1>6. PICK n \in Nat : n = Len(seen)
  BY <1>4
<1>7. PICK more : more = Append(seen, f)
  OBVIOUS
<1>8. More(more, seen, f, api)
  BY <1>4, <1>7, OneMore, Zenon
<1>9. more \in Seq(Frames[api]) /\ n + 1 = Len(more) /\ n + 1 \in 1 .. Len(more) /\ n + 1 \in Nat
  BY <1>4, <1>6, <1>7
<1>10. FrameHeard(s, f, more)
  BY <1>2, <1>4, <1>5, <1>8, FrameSays, Zenon
<1>11. s.ends \in BOOLEAN /\ Knows(s.acc, s.finish, s.failed, s.usage, api, more) /\ s.send = Dr!Spoken(more, n + 1)
  BY <1>6, <1>10, Zenon DEF FrameHeard
<1>12. PICK w \in Seq(Part) : w = s.send /\ Simple(w, n + 1)
  BY <1>4, <1>9, <1>11, SpokenSimple, Zenon
<1>13. Dr!Spoke(more) = Cat(Dr!Spoke(seen), w)
  BY <1>4, <1>6, <1>8, <1>11, <1>12, SpokeGrows, Zenon
<1>14. CASE s.ends
  <2>1. PICK e : Ending(e, more) /\ Dr!FinishParts(s) = Append(CallsOf(api, more), e)
    BY <1>4, <1>9, <1>11, FinishSays, Zenon
  <2>2. Mute(CallsOf(api, more))
    BY <1>4, <1>9, CallsMute, Zenon
  <2>3. Dr!Send(w \o Append(CallsOf(api, more), e))
    BY <1>3, <1>12, <1>14, <2>1, Zenon
  <2>4. /\ out' \in Seq(Part) /\ Orderly(out')
        /\ ~cancelled => out' = Append(Cat(Cat(out, w), CallsOf(api, more)), e)
    BY <1>4, <1>5, <1>6, <1>12, <2>1, <2>2, <2>3, Closes, Zenon
  <2>5. ~cancelled' => Complete(out', api', seen')
    BY <1>1, <1>5, <1>7, <1>13, <2>1, <2>4, Zenon DEF Complete
  <2>6. phase' = "closed" /\ phase' \notin {"new", "reading"}
    BY <1>3, <1>14
  <2> QED BY <1>1, <1>4, <1>7, <1>9, <2>4, <2>5, <2>6, Zenon DEF StreamInv
<1>15. CASE ~s.ends
  <2>1. Dr!Send(w)
    BY <1>3, <1>12, <1>15, Zenon
  <2>2. Orderly(w) /\ Early(w, n + 1) /\ Late(w, n)
    <3>1. n + 1 # 0 /\ (n + 1) - 1 = n
      OBVIOUS
    <3> QED BY <1>9, <1>12, <3>1, SimpleOrder, Zenon
  <2>3. /\ out' \in Seq(Part) /\ Orderly(out') /\ Early(out', n + 1)
        /\ ~cancelled => out' = Cat(out, w)
    BY <1>4, <1>5, <1>6, <1>12, <2>1, <2>2, SendsInOrder, Zenon
  <2>4. Following(acc', finish', failed', usage', api', seen', out', cancelled')
    BY <1>1, <1>3, <1>5, <1>7, <1>9, <1>11, <1>13, <2>3, Zenon DEF Following
  <2>5. phase' = "reading" /\ phase' # "closed"
    BY <1>1, <1>3, <1>15
  <2> QED BY <1>1, <1>4, <1>7, <1>9, <2>3, <2>4, <2>5, Zenon DEF StreamInv
<1> QED BY <1>11, <1>14, <1>15

\* when the body ends or breaks,
LEMMA StreamEnds ==
  ASSUME StreamInv, NEW how, Dr!BodyEnds(how)
  PROVE  StreamInv'
<1>1. /\ phase = "reading" /\ phase' = "closed" /\ api' = api /\ seen' = seen /\ cancelled' = cancelled
  BY Zenon DEF Dr!BodyEnds
<1>2. PICK z : z = Dr!Nothing
  OBVIOUS
<1>3. PICK s : s = Dr!Broken(z, how)
  OBVIOUS
<1>4. Dr!Send(Dr!FinishParts(s))
  BY <1>2, <1>3, Zenon DEF Dr!BodyEnds
<1>5. api \in Apis /\ seen \in Seq(Frames[api]) /\ out \in Seq(Part) /\ Orderly(out)
  BY Zenon DEF StreamInv
<1>6. /\ Knows(acc, finish, failed, usage, api, seen) /\ Early(out, Len(seen))
      /\ ~cancelled => out = Dr!Spoke(seen)
  <2>1. phase \in {"new", "reading"}
    BY <1>1
  <2> QED BY <2>1, Zenon DEF StreamInv, Following
<1>7. PICK n \in Nat : n = Len(seen)
  BY <1>5
<1>8. Fields(z) /\ Knows(z.acc, z.finish, z.failed, z.usage, api, seen)
  BY <1>2, <1>6, NothingIs, Zenon DEF Quiet
<1>9. Knows(s.acc, s.finish, s.failed, s.usage, api, seen)
  BY <1>3, <1>8, BrokenHears, Zenon
<1>10. PICK e : Ending(e, seen) /\ Dr!FinishParts(s) = Append(CallsOf(api, seen), e)
  BY <1>5, <1>9, FinishSays, Zenon
<1>11. PICK c : c = CallsOf(api, seen)
  OBVIOUS
<1>12. Mute(c)
  BY <1>5, <1>11, CallsMute, Zenon
<1>13. c \in Seq(Part) /\ e \in Part /\ e.kind = "final"
  BY <1>10, <1>12, Zenon DEF Mute, Ending
<1>14. PICK w : w = Append(c, e)
  OBVIOUS
<1>15. w \in Seq(Part) /\ Orderly(w) /\ Late(w, n)
  BY <1>12, <1>13, <1>14, EndOrder, Zenon
<1>16. Dr!Send(w)
  BY <1>4, <1>10, <1>11, <1>14, Zenon
<1>17. out' \in Seq(Part) /\ Orderly(out') /\ (~cancelled => out' = Cat(out, w))
  BY <1>5, <1>6, <1>7, <1>15, <1>16, SendsInOrder, Zenon
<1>18. Cat(out, Append(c, e)) = Append(Cat(out, c), e)
  BY <1>5, <1>13, CatsAre
<1>19. ~cancelled' => Complete(out', api', seen')
  BY <1>1, <1>6, <1>10, <1>11, <1>14, <1>17, <1>18, Zenon DEF Complete
<1>20. phase' \notin {"new", "reading"}
  BY <1>1
<1> QED BY <1>1, <1>5, <1>17, <1>19, <1>20, Zenon DEF StreamInv

\* when it does so within a frame,
LEMMA StreamEndsIn ==
  ASSUME StreamInv, NEW f \in Frames[api], NEW how, Dr!BodyEndsIn(f, how)
  PROVE  StreamInv'
<1>1. /\ phase = "reading" /\ phase' = "closed" /\ seen' = Append(seen, f) /\ api' = api /\ cancelled' = cancelled
  BY Zenon DEF Dr!BodyEndsIn
<1>2. PICK z : z = Dr!Processed(f)
  OBVIOUS
<1>3. PICK s : s = Dr!Broken(z, how)
  OBVIOUS
<1>4. Dr!Send(s.send \o Dr!FinishParts(s))
  BY <1>2, <1>3, Zenon DEF Dr!BodyEndsIn
<1>5. api \in Apis /\ seen \in Seq(Frames[api]) /\ out \in Seq(Part) /\ Orderly(out)
  BY Zenon DEF StreamInv
<1>6. /\ Knows(acc, finish, failed, usage, api, seen) /\ Early(out, Len(seen))
      /\ ~cancelled => out = Dr!Spoke(seen)
  <2>1. phase \in {"new", "reading"}
    BY <1>1
  <2> QED BY <2>1, Zenon DEF StreamInv, Following
<1>7. PICK n \in Nat : n = Len(seen)
  BY <1>5
<1>8. PICK more : more = Append(seen, f)
  OBVIOUS
<1>9. More(more, seen, f, api)
  BY <1>5, <1>8, OneMore, Zenon
<1>10. more \in Seq(Frames[api]) /\ n + 1 \in 1 .. Len(more)
  BY <1>5, <1>7, <1>8
<1>11. FrameHeard(z, f, more)
  BY <1>2, <1>5, <1>6, <1>9, FrameSays, Zenon
<1>12. Fields(z) /\ Knows(z.acc, z.finish, z.failed, z.usage, api, more) /\ z.send = Dr!Spoken(more, n + 1)
  BY <1>7, <1>11, Zenon DEF FrameHeard
<1>13. PICK w \in Seq(Part) : w = z.send /\ Simple(w, n + 1)
  BY <1>5, <1>10, <1>12, SpokenSimple, Zenon
<1>14. Dr!Spoke(more) = Cat(Dr!Spoke(seen), w)
  BY <1>5, <1>7, <1>9, <1>12, <1>13, SpokeGrows, Zenon
<1>15. Knows(s.acc, s.finish, s.failed, s.usage, api, more) /\ s.send = w
  BY <1>3, <1>12, <1>13, BrokenHears, Zenon
<1>16. PICK e : Ending(e, more) /\ Dr!FinishParts(s) = Append(CallsOf(api, more), e)
  BY <1>5, <1>10, <1>15, FinishSays, Zenon
<1>17. Mute(CallsOf(api, more))
  BY <1>5, <1>10, CallsMute, Zenon
<1>18. Dr!Send(w \o Append(CallsOf(api, more), e))
  BY <1>4, <1>15, <1>16, Zenon
<1>19. /\ out' \in Seq(Part) /\ Orderly(out')
       /\ ~cancelled => out' = Append(Cat(Cat(out, w), CallsOf(api, more)), e)
  BY <1>5, <1>6, <1>7, <1>13, <1>16, <1>17, <1>18, Closes, Zenon
<1>20. ~cancelled' => Complete(out', api', seen')
  BY <1>1, <1>6, <1>8, <1>14, <1>16, <1>19, Zenon DEF Complete
<1>21. phase' \notin {"new", "reading"}
  BY <1>1
<1> QED BY <1>1, <1>5, <1>8, <1>10, <1>19, <1>20, <1>21, Zenon DEF StreamInv

\* and after every step.
LEMMA StreamStep == ASSUME StreamInv, [Dr!Next]_Dr!vars PROVE StreamInv'
<1>1. ASSUME NEW status \in Statuses, Dr!Open(status) PROVE StreamInv'
  <2>1. /\ phase = "new"
        /\ phase' = (IF status = 200 THEN "reading" ELSE IF Dr!Transient(status) THEN "transient" ELSE "refused")
        /\ api' = api /\ seen' = seen /\ acc' = acc /\ finish' = finish /\ failed' = failed /\ usage' = usage
        /\ out' = out /\ cancelled' = cancelled
    BY <1>1 DEF Dr!Open
  <2>2. phase \in {"new", "reading"} /\ phase' # "closed"
    BY <2>1
  <2> QED BY <2>1, <2>2, Zenon DEF StreamInv
<1>2. ASSUME Dr!Cancel PROVE StreamInv'
  <2>1. /\ phase = "reading" /\ phase' = phase /\ cancelled' = TRUE
        /\ api' = api /\ seen' = seen /\ acc' = acc /\ finish' = finish /\ failed' = failed /\ usage' = usage /\ out' = out
    BY <1>2 DEF Dr!Cancel
  <2>2. phase \in {"new", "reading"} /\ phase' # "closed"
    BY <2>1
  <2>3. Following(acc', finish', failed', usage', api', seen', out', cancelled')
    BY <2>1, <2>2, Zenon DEF StreamInv, Following
  <2> QED BY <2>1, <2>2, <2>3, Zenon DEF StreamInv
<1>3. ASSUME UNCHANGED Dr!vars PROVE StreamInv'
  <2>1. /\ phase' = phase /\ cancelled' = cancelled
        /\ api' = api /\ seen' = seen /\ acc' = acc /\ finish' = finish /\ failed' = failed /\ usage' = usage /\ out' = out
    BY <1>3 DEF Dr!vars
  <2> QED BY <2>1, Zenon DEF StreamInv
<1>4. ASSUME NEW f \in Frames[api], Dr!Frame(f) PROVE StreamInv'
  BY <1>4, StreamFrame, Zenon
<1>5. ASSUME NEW f \in Frames[api], NEW how \in {"eof", "read"}, Dr!BodyEndsIn(f, how) PROVE StreamInv'
  BY <1>5, StreamEndsIn, Zenon
<1>6. ASSUME NEW how \in {"eof", "read"}, Dr!BodyEnds(how) PROVE StreamInv'
  BY <1>6, StreamEnds, Zenon
<1> QED BY <1>1, <1>2, <1>3, <1>4, <1>5, <1>6, Zenon DEF Dr!Next

\* A closed response is what its frames say.
LEMMA StreamAgreed == StreamInv => Dr!StreamAgrees
<1> SUFFICES ASSUME StreamInv PROVE Dr!StreamAgrees
  OBVIOUS
<1>1. api \in Apis /\ seen \in Seq(Frames[api]) /\ out \in Seq(Part) /\ Orderly(out)
  BY Zenon DEF StreamInv
<1>2. Dr!DroppedInOrder
  <2>1. DOMAIN out = 1 .. Len(out)
    BY <1>1
  <2> QED BY <1>1, <2>1, Zenon DEF Orderly, Voice, Dr!DroppedInOrder
<1>3. ASSUME phase = "closed", ~cancelled
      PROVE  /\ out # <<>>
             /\ Dr!Front(out) = Dr!Spoke(seen) \o CallsOf(api, seen)
             /\ Dr!Last(out).kind = "final" /\ Dr!Last(out).finish = Dr!Reason(seen)
  <2>1. Complete(out, api, seen)
    BY <1>3, Zenon DEF StreamInv
  <2>2. PICK e : Ending(e, seen) /\ out = Append(Cat(Dr!Spoke(seen), CallsOf(api, seen)), e)
    BY <2>1, Zenon DEF Complete
  <2>3. e \in Part /\ e.kind = "final" /\ e.finish = Dr!Reason(seen)
    BY <2>2, Zenon DEF Ending
  <2>4. Mute(CallsOf(api, seen))
    BY <1>1, CallsMute, Zenon
  <2>5. CallsOf(api, seen) \in Seq(Part)
    BY <2>4, Zenon DEF Mute
  <2>6. Dr!Spoke(seen) \in Seq(Part)
    BY <1>1, SpokeIs, Zenon
  <2>7. PICK w \in Seq(Part) : w = Cat(Dr!Spoke(seen), CallsOf(api, seen))
    BY <2>3, <2>5, <2>6, CatsAre
  <2>8. out # <<>> /\ Dr!Front(out) = w /\ Dr!Last(out) = e
    BY <2>2, <2>3, <2>7, Ends, Zenon
  <2>9. w = Dr!Spoke(seen) \o CallsOf(api, seen)
    BY <2>7, Zenon DEF Cat
  <2> QED BY <2>3, <2>8, <2>9, Zenon
<1> QED BY <1>2, <1>3, Zenon DEF Dr!StreamAgrees, CallsOf

\* A response whose stream the engine has followed to the end is what its frames say,
\* however many there are and whatever they hold: every piece of text once and in order,
\* every call with all of its arguments, one final part; what is left of one that was
\* aborted is in order.  The driver has heard what its frames so far say.
THEOREM StreamsAgree == Dr!Spec => []StreamAgrees
<1>1. Dr!Init => StreamInv
  BY StreamInit
<1>2. StreamInv /\ [Dr!Next]_Dr!vars => StreamInv'
  BY StreamStep
<1>3. StreamInv => StreamAgrees
  BY StreamAgreed DEF StreamAgrees
<1> QED BY <1>1, <1>2, <1>3, PTL DEF Dr!Spec
=============================================================================
