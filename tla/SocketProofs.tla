---------------------------- MODULE SocketProofs ----------------------------
(***************************************************************************)
(* Proofs about Socket, for any senders, packets, packet sizes and limit of *)
(* the write queue: the stream of packets is neither cut open, reordered    *)
(* nor duplicated, the queue is bounded, an open socket is served, and the  *)
(* socket implements PacketChannel.                                         *)
(*                                                                          *)
(* Sums and concatenations over the write queue are recursive functions.    *)
(* What they compute is shown without an induction rule: a set of numbers   *)
(* has a least element because finite sets have minimal subsets, so a set   *)
(* that contains 0 and successors is Nat, and the set is written out.       *)
(***************************************************************************)
EXTENDS Socket, FiniteSetTheorems, SequenceTheorems, TLAPS

-----------------------------------------------------------------------------
(***************************************************************************)
(* Induction over numbers, from the finiteness of sets.                     *)
(***************************************************************************)

\* Among sets of elements of a finite set there is one that contains no other.
LEMMA MinimalSubset ==
    ASSUME NEW S, IsFiniteSet(S), NEW T, \A X \in T : X \subseteq S, T # {}
    PROVE  \E X \in T : \A Y \in T : Y \subseteq X => Y = X
<1>1. IsWellFoundedOn(StrictSubsetOrdering(S), SUBSET S)
  BY FS_StrictSubsetOrderingWellFounded, FS_FiniteSubsetsOfFinite
<1> T \subseteq SUBSET S
  OBVIOUS
<1>2. \E x \in T : \A y \in T : ~ (<<y, x>> \in StrictSubsetOrdering(S))
  BY <1>1, WFMin
<1> QED BY <1>2 DEF StrictSubsetOrdering

\* A set of numbers that is not empty has a least element.
LEMMA Least ==
    ASSUME NEW T \in SUBSET Nat, T # {}
    PROVE  \E m \in T : \A n \in T : m <= n
<1>1. PICK k \in T : TRUE OBVIOUS
<1> DEFINE D == {1..n : n \in {n \in T : n <= k}}
<1>2. IsFiniteSet(1..k)
  BY <1>1, FS_Interval
<1>3. \A X \in D : X \subseteq 1..k
  BY <1>1
<1>4. 1..k \in D
  BY <1>1
<1>5. PICK X \in D : \A Y \in D : Y \subseteq X => Y = X
  <2> HIDE DEF D
  <2>1. D # {}
    BY <1>4
  <2>2. \E X \in D : \A Y \in D : Y \subseteq X => Y = X
    BY <1>2, <1>3, <2>1, MinimalSubset
  <2> QED BY <2>2
<1>6. PICK m \in T : m <= k /\ X = 1..m
  BY <1>5
<1>7. ASSUME NEW n \in T, n < m PROVE FALSE
  <2>1. 1..n \in D BY <1>1, <1>6, <1>7
  <2>2. 1..n \subseteq 1..m /\ m \in 1..m /\ m \notin 1..n
    BY <1>7
  <2>3. 1..n = X
    <3> HIDE DEF D
    <3> QED BY <2>1, <2>2, <1>5, <1>6
  <2> QED BY <2>2, <2>3, <1>6
<1> QED BY <1>6, <1>7

\* Induction over the numbers for one set: the complement has no least element.
LEMMA Induct ==
    ASSUME NEW S \in SUBSET Nat, 0 \in S, \A n \in S : n + 1 \in S
    PROVE  S = Nat
<1> SUFFICES ASSUME Nat \ S # {} PROVE FALSE
  OBVIOUS
<1>1. PICK m \in Nat \ S : \A n \in Nat \ S : m <= n
  BY Least
<1>2. m - 1 \in Nat
  BY <1>1
<1>3. m - 1 \in S
  BY <1>1, <1>2
<1> QED BY <1>1, <1>3

-----------------------------------------------------------------------------
(***************************************************************************)
(* Total: what the recursive definition computes.                           *)
(***************************************************************************)

\* g[i] is the sum of the first i sizes.
Sums(g, s) == g = [i \in 0 .. Len(s) |-> IF i = 0 THEN 0 ELSE g[i - 1] + s[i]]

\* Total is the last of the partial sums.
LEMMA SumsDef ==
    ASSUME NEW s
    PROVE  Total(s) = (CHOOSE g : Sums(g, s))[Len(s)]
BY DEF Total, Sums

\* Partial sums exist: by induction over the length.
LEMMA SumsExist ==
    ASSUME NEW s \in Seq(Nat)
    PROVE  \E g \in [0 .. Len(s) -> Nat] : Sums(g, s)
<1> DEFINE P == {n \in Nat : n <= Len(s) => \E g \in [0 .. n -> Nat] :
                               g[0] = 0 /\ \A i \in 1 .. n : g[i] = g[i - 1] + s[i]}
<1>0. Len(s) \in Nat
  OBVIOUS
<1>1. 0 \in P
  <2> DEFINE g == [i \in 0 .. 0 |-> 0]
  <2>1. g \in [0 .. 0 -> Nat] /\ g[0] = 0
    OBVIOUS
  <2> HIDE DEF g
  <2> QED BY <2>1
<1>2. ASSUME NEW n \in P, n + 1 <= Len(s)
      PROVE  \E h \in [0 .. n + 1 -> Nat] :
               h[0] = 0 /\ \A i \in 1 .. n + 1 : h[i] = h[i - 1] + s[i]
  <2>1. PICK g \in [0 .. n -> Nat] : g[0] = 0 /\ \A i \in 1 .. n : g[i] = g[i - 1] + s[i]
    <3>1. n \in Nat /\ n <= Len(s)
      BY <1>2, <1>0
    <3>2. n <= Len(s) => \E g \in [0 .. n -> Nat] :
                           g[0] = 0 /\ \A i \in 1 .. n : g[i] = g[i - 1] + s[i]
      BY Zenon
    <3> QED BY <3>1, <3>2
  <2> DEFINE h == [i \in 0 .. n + 1 |-> IF i = n + 1 THEN g[n] + s[n + 1] ELSE g[i]]
  <2>2. s[n + 1] \in Nat /\ n \in Nat
    BY <1>2, <1>0
  <2>3. h \in [0 .. n + 1 -> Nat]
    <3>1. ASSUME NEW i \in 0 .. n + 1
          PROVE  (IF i = n + 1 THEN g[n] + s[n + 1] ELSE g[i]) \in Nat
      <4>1. n \in 0 .. n /\ (i # n + 1 => i \in 0 .. n)
        BY <2>2
      <4> QED BY <2>1, <2>2, <4>1
    <3> QED BY <3>1
  <2>4. h[0] = 0
    BY <2>1, <2>2
  <2>5. ASSUME NEW i \in 1 .. n + 1 PROVE h[i] = h[i - 1] + s[i]
    <3>1. CASE i = n + 1
      BY <3>1, <2>2
    <3>2. CASE i # n + 1
      BY <3>2, <2>1, <2>2
    <3> QED BY <3>1, <3>2
  <2> HIDE DEF h
  <2> QED BY <2>3, <2>4, <2>5
<1>3. P = Nat
  <2>1. P \in SUBSET Nat
    OBVIOUS
  <2>2. ASSUME NEW n \in P PROVE n + 1 \in P
    <3>1. n + 1 \in Nat
      OBVIOUS
    <3> QED BY <1>2, <3>1, Zenon
  <2> HIDE DEF P
  <2> QED BY <1>1, <2>1, <2>2, Induct
<1>4. Len(s) \in P
  BY <1>0, <1>3
<1>5. PICK g \in [0 .. Len(s) -> Nat] :
        g[0] = 0 /\ \A i \in 1 .. Len(s) : g[i] = g[i - 1] + s[i]
  BY <1>4, <1>0
<1>6. \A i \in 0 .. Len(s) : g[i] = IF i = 0 THEN 0 ELSE g[i - 1] + s[i]
  BY <1>5, <1>0
<1>7. Sums(g, s)
  BY <1>5, <1>6 DEF Sums
<1> QED BY <1>5, <1>7

\* A function that satisfies the recursion agrees with the partial sums.
LEMMA SumsUnique ==
    ASSUME NEW s \in Seq(Nat), NEW g, NEW h, Sums(g, s),
           h[0] = 0, \A i \in 1 .. Len(s) : h[i] = h[i - 1] + s[i]
    PROVE  \A i \in 0 .. Len(s) : g[i] = h[i]
<1> DEFINE P == {n \in Nat : n <= Len(s) => g[n] = h[n]}
<1>0. Len(s) \in Nat
  OBVIOUS
<1>1. \A i \in 0 .. Len(s) : g[i] = IF i = 0 THEN 0 ELSE g[i - 1] + s[i]
  BY DEF Sums
<1>2. 0 \in P
  BY <1>0, <1>1
<1>3. ASSUME NEW n \in P, n + 1 <= Len(s) PROVE g[n + 1] = h[n + 1]
  <2>1. g[n] = h[n]
    BY <1>0, <1>3
  <2>2. g[n + 1] = g[n] + s[n + 1] /\ h[n + 1] = h[n] + s[n + 1]
    BY <1>0, <1>1, <1>3
  <2> QED BY <2>1, <2>2
<1>4. P = Nat
  <2>1. P \in SUBSET Nat
    OBVIOUS
  <2>2. \A n \in P : n + 1 \in P
    BY <1>3
  <2> HIDE DEF P
  <2> QED BY <1>2, <2>1, <2>2, Induct
<1> QED BY <1>0, <1>4

\* Whatever adds up the sizes one after the other ends with their total.
LEMMA TotalIs ==
    ASSUME NEW s \in Seq(Nat), NEW h, h[0] = 0,
           \A i \in 1 .. Len(s) : h[i] = h[i - 1] + s[i]
    PROVE  Total(s) = h[Len(s)]
<1> DEFINE g == CHOOSE f : Sums(f, s)
<1>1. Sums(g, s)
  BY SumsExist
<1>2. Total(s) = g[Len(s)]
  BY SumsDef
<1> HIDE DEF g
<1>3. \A i \in 0 .. Len(s) : g[i] = h[i]
  BY <1>1, SumsUnique
<1> QED BY <1>2, <1>3

\* The partial sums behind Total, with the steps between them.
LEMMA SumsSteps ==
    ASSUME NEW s \in Seq(Nat)
    PROVE  \E g \in [0 .. Len(s) -> Nat] :
              /\ g[0] = 0
              /\ \A i \in 1 .. Len(s) : g[i] = g[i - 1] + s[i]
              /\ Total(s) = g[Len(s)]
<1>1. PICK g \in [0 .. Len(s) -> Nat] : Sums(g, s)
  BY SumsExist
<1>2. \A i \in 0 .. Len(s) : g[i] = IF i = 0 THEN 0 ELSE g[i - 1] + s[i]
  BY <1>1 DEF Sums
<1>3. Len(s) \in Nat
  OBVIOUS
<1>4. g[0] = 0 /\ \A i \in 1 .. Len(s) : g[i] = g[i - 1] + s[i]
  BY <1>2, <1>3
<1>5. Total(s) = g[Len(s)]
  BY <1>4, TotalIs
<1> QED BY <1>1, <1>4, <1>5

\* A total of sizes is a size.
LEMMA TotalType ==
    ASSUME NEW s \in Seq(Nat)
    PROVE  Total(s) \in Nat
BY SumsSteps

\* Nothing has the total 0.
LEMMA TotalEmpty == Total(<<>>) = 0
<1>1. <<>> \in Seq(Nat) /\ Len(<<>>) = 0
  OBVIOUS
<1> QED BY <1>1, SumsSteps

\* addToWriteQueue adds the size of the buffer it appends.
LEMMA TotalAppend ==
    ASSUME NEW s \in Seq(Nat), NEW x \in Nat
    PROVE  Total(Append(s, x)) = Total(s) + x
<1>1. PICK g \in [0 .. Len(s) -> Nat] :
              /\ g[0] = 0
              /\ \A i \in 1 .. Len(s) : g[i] = g[i - 1] + s[i]
              /\ Total(s) = g[Len(s)]
  BY SumsSteps
<1> DEFINE n == Len(s)
           t == Append(s, x)
           h == [i \in 0 .. n + 1 |-> IF i = n + 1 THEN g[n] + x ELSE g[i]]
<1>2. /\ n \in Nat /\ t \in Seq(Nat) /\ Len(t) = n + 1
      /\ t[n + 1] = x
      /\ \A i \in 1 .. n : t[i] = s[i]
  OBVIOUS
<1>3. h[0] = 0 /\ h[n + 1] = g[n] + x
  BY <1>1, <1>2
<1>4. ASSUME NEW i \in 1 .. n + 1 PROVE h[i] = h[i - 1] + t[i]
  <2>1. CASE i = n + 1
    BY <2>1, <1>2
  <2>2. CASE i # n + 1
    BY <2>2, <1>1, <1>2
  <2> QED BY <2>1, <2>2
<1>5. Total(t) = h[Len(t)]
  <2> HIDE DEF h, t, n
  <2> QED BY <1>2, <1>3, <1>4, TotalIs
<1> QED BY <1>1, <1>2, <1>3, <1>5

\* The completion handler subtracts the size of the buffer it removes.
LEMMA TotalTail ==
    ASSUME NEW s \in Seq(Nat), s # <<>>
    PROVE  Total(s) = Head(s) + Total(Tail(s))
<1> DEFINE t == Tail(s)
<1>1. /\ t \in Seq(Nat) /\ Len(s) \in Nat \ {0} /\ Len(t) = Len(s) - 1
      /\ \A i \in 1 .. Len(t) : t[i] = s[i + 1]
      /\ Head(s) = s[1] /\ s[1] \in Nat
  OBVIOUS
<1>2. PICK g \in [0 .. Len(t) -> Nat] :
              /\ g[0] = 0
              /\ \A i \in 1 .. Len(t) : g[i] = g[i - 1] + t[i]
              /\ Total(t) = g[Len(t)]
  <2> HIDE DEF t
  <2> QED BY <1>1, SumsSteps
<1> DEFINE n == Len(s)
           h == [i \in 0 .. n |-> IF i = 0 THEN 0 ELSE s[1] + g[i - 1]]
<1> HIDE DEF t
<1>3. h[0] = 0 /\ h[n] = s[1] + Total(t)
  BY <1>1, <1>2
<1>4. ASSUME NEW i \in 1 .. n PROVE h[i] = h[i - 1] + s[i]
  <2>1. CASE i = 1
    <3>1. h[1] = s[1] + g[0] /\ h[0] = 0
      BY <1>1
    <3> QED BY <2>1, <3>1, <1>1, <1>2
  <2>2. CASE i # 1
    <3>1. i - 1 \in 1 .. Len(t) /\ i \in 0 .. n /\ i - 1 \in 0 .. n /\ i # 0 /\ i - 1 # 0
      BY <2>2, <1>1, SMTT(30)
    <3>2. g[i - 1] = g[i - 1 - 1] + t[i - 1] /\ t[i - 1] = s[i]
      BY <3>1, <1>1, <1>2, SMTT(30)
    <3>3. h[i] = s[1] + g[i - 1] /\ h[i - 1] = s[1] + g[i - 1 - 1]
      BY <3>1
    <3>4. g[i - 1] \in Nat /\ g[i - 1 - 1] \in Nat
      <4>1. i - 1 \in 0 .. Len(t) /\ i - 1 - 1 \in 0 .. Len(t)
        BY <3>1, <1>1
      <4> QED BY <4>1, <1>2
    <3>5. s[i] \in Nat
      OBVIOUS
    <3> HIDE DEF h
    <3> QED BY <1>1, <3>2, <3>3, <3>4, <3>5, SMTT(30)
  <2> QED BY <2>1, <2>2
<1>5. Total(s) = h[n]
  <2> HIDE DEF h
  <2> QED BY <1>1, <1>3, <1>4, TotalIs
<1> QED BY <1>1, <1>3, <1>5 DEF t

\* The sizes along a sequence of records or of packets.
LEMMA TotalPositive ==
    ASSUME NEW s \in Seq(Nat), s # <<>>, \A i \in 1 .. Len(s) : s[i] > 0
    PROVE  Total(s) > 0
<1>1. Tail(s) \in Seq(Nat) /\ Head(s) = s[1] /\ s[1] \in Nat /\ 1 \in 1 .. Len(s)
  OBVIOUS
<1>2. Total(Tail(s)) \in Nat
  BY <1>1, TotalType
<1>3. s[1] > 0
  BY <1>1
<1> QED BY <1>1, <1>2, <1>3, TotalTail

-----------------------------------------------------------------------------
(***************************************************************************)
(* FlattenSeq: what the recursive definition computes.                      *)
(***************************************************************************)

\* g[i] is the concatenation of the first i sequences.
Joins(g, q) == g = [i \in 1 .. Len(q) |-> IF i = 1 THEN q[i] ELSE g[i - 1] \o q[i]]

\* The same recursion, stated step by step up to n.
Joining(g, q, n) ==
    /\ g[1] = q[1]
    /\ \A i \in 2 .. n : g[i] = g[i - 1] \o q[i]

\* FlattenSeq is the last of the partial concatenations.
LEMMA FlattenDef ==
    ASSUME NEW q, Len(q) # 0
    PROVE  FlattenSeq(q) = (CHOOSE g : Joins(g, q))[Len(q)]
BY DEF FlattenSeq, Joins

\* Both forms of the recursion say the same.
LEMMA JoiningIsJoins ==
    ASSUME NEW n \in Nat \ {0}, NEW q, Len(q) = n, NEW g
    PROVE  /\ Joins(g, q) => Joining(g, q, n)
           /\ \A S : g \in [1 .. n -> S] /\ Joining(g, q, n) => Joins(g, q)
<1>1. ASSUME Joins(g, q) PROVE Joining(g, q, n)
  <2> DEFINE e(i) == IF i = 1 THEN q[i] ELSE g[i - 1] \o q[i]
  <2>0. g = [i \in 1 .. n |-> e(i)]
    BY <1>1 DEF Joins
  <2>1. \A i \in 1 .. n : g[i] = e(i)
    <3> HIDE DEF e
    <3> QED BY <2>0
  <2>2. 1 \in 1 .. n
    OBVIOUS
  <2>3. g[1] = q[1]
    BY <2>1, <2>2
  <2>4. ASSUME NEW i \in 2 .. n PROVE g[i] = g[i - 1] \o q[i]
    <3>1. i \in 1 .. n /\ i # 1
      OBVIOUS
    <3> QED BY <3>1, <2>1
  <2> QED BY <2>3, <2>4 DEF Joining
<1>2. ASSUME NEW S, g \in [1 .. n -> S], Joining(g, q, n) PROVE Joins(g, q)
  <2>1. ASSUME NEW i \in 1 .. n PROVE g[i] = IF i = 1 THEN q[i] ELSE g[i - 1] \o q[i]
    <3>1. CASE i = 1
      BY <3>1, <1>2 DEF Joining
    <3>2. CASE i # 1
      <4>1. i \in 2 .. n
        BY <3>2
      <4> QED BY <3>2, <4>1, <1>2 DEF Joining
    <3> QED BY <3>1, <3>2
  <2>2. g = [i \in 1 .. n |-> g[i]]
    BY <1>2
  <2>3. g = [i \in 1 .. n |-> IF i = 1 THEN q[i] ELSE g[i - 1] \o q[i]]
    BY <2>1, <2>2
  <2> QED BY <2>3 DEF Joins
<1> QED BY <1>1, <1>2

\* Partial concatenations exist: by induction over the length.
LEMMA JoinsExist ==
    ASSUME NEW S, NEW q \in Seq(Seq(S)), q # <<>>
    PROVE  \E g \in [1 .. Len(q) -> Seq(S)] : Joining(g, q, Len(q))
<1> DEFINE P == {n \in Nat : n \in 1 .. Len(q) => \E g \in [1 .. n -> Seq(S)] : Joining(g, q, n)}
<1>0. Len(q) \in Nat \ {0} /\ \A i \in 1 .. Len(q) : q[i] \in Seq(S)
  OBVIOUS
<1>1. 0 \in P
  OBVIOUS
<1>2. ASSUME NEW n \in P, n + 1 \in 1 .. Len(q)
      PROVE  \E h \in [1 .. n + 1 -> Seq(S)] : Joining(h, q, n + 1)
  <2>0. n \in Nat
    OBVIOUS
  <2>1. CASE n = 0
    <3> DEFINE h == [i \in 1 .. n + 1 |-> q[1]]
    <3>1. h \in [1 .. n + 1 -> Seq(S)] /\ h[1] = q[1]
      BY <2>1, <1>0
    <3>2. 2 .. n + 1 = {}
      BY <2>1
    <3> HIDE DEF h
    <3>3. Joining(h, q, n + 1)
      BY <3>1, <3>2 DEF Joining
    <3> QED BY <3>1, <3>3
  <2>2. CASE n # 0
    <3>1. n \in 1 .. Len(q)
      BY <2>0, <2>2, <1>2
    <3>2. n \in 1 .. Len(q) => \E g \in [1 .. n -> Seq(S)] : Joining(g, q, n)
      BY Zenon
    <3>3. PICK g \in [1 .. n -> Seq(S)] : Joining(g, q, n)
      BY <3>1, <3>2
    <3> DEFINE m == n + 1
               h == [i \in 1 .. m |-> IF i = m THEN g[n] \o q[m] ELSE g[i]]
    <3>4. m \in 1 .. Len(q) /\ m \in 1 .. m /\ n \in 1 .. m /\ n # m /\ m - 1 = n
          /\ 1 # m /\ 1 \in 1 .. m
      BY <1>2, <2>0, <2>2
    <3>5. q[m] \in Seq(S) /\ g[n] \in Seq(S)
      BY <1>0, <2>0, <2>2, <3>3, <3>4
    <3>6. g[n] \o q[m] \in Seq(S)
      BY <3>5
    <3>7. h \in [1 .. m -> Seq(S)]
      BY <2>0, <3>3, <3>6
    <3>8. h[1] = q[1]
      BY <3>3, <3>4 DEF Joining
    <3>9. ASSUME NEW i \in 2 .. m PROVE h[i] = h[i - 1] \o q[i]
      <4>1. CASE i = m
        <5>1. h[m] = g[n] \o q[m]
          BY <3>4
        <5>2. h[n] = g[n]
          BY <3>4
        <5> HIDE DEF h
        <5>3. h[m - 1] = g[n]
          BY <3>4, <5>2
        <5> QED BY <4>1, <5>1, <5>3
      <4>2. CASE i # m
        <5>1. i \in 2 .. n /\ i \in 1 .. m /\ i - 1 \in 1 .. m /\ i - 1 # m
          BY <4>2, <2>0
        <5>2. h[i] = g[i] /\ h[i - 1] = g[i - 1]
          BY <4>2, <5>1
        <5> QED BY <3>3, <5>1, <5>2 DEF Joining
      <4> QED BY <4>1, <4>2
    <3>10. Joining(h, q, m)
      <4> HIDE DEF h, m
      <4> QED BY <3>8, <3>9 DEF Joining
    <3> HIDE DEF h
    <3> QED BY <3>7, <3>10
  <2> QED BY <2>1, <2>2
<1>3. P = Nat
  <2>1. P \in SUBSET Nat
    OBVIOUS
  <2>2. ASSUME NEW n \in P PROVE n + 1 \in P
    <3>1. n + 1 \in Nat
      OBVIOUS
    <3> QED BY <1>2, <3>1, Zenon
  <2> HIDE DEF P
  <2> QED BY <1>1, <2>1, <2>2, Induct
<1>4. Len(q) \in P /\ Len(q) \in 1 .. Len(q)
  <2> HIDE DEF P
  <2> QED BY <1>0, <1>3
<1> QED BY <1>4, Zenon

\* Two functions that satisfy the recursion agree.
LEMMA JoinsUnique ==
    ASSUME NEW n \in Nat, NEW q, NEW g, NEW h, Joining(g, q, n), Joining(h, q, n)
    PROVE  \A i \in 1 .. n : g[i] = h[i]
<1> DEFINE P == {i \in Nat : i \in 1 .. n => g[i] = h[i]}
<1>1. 0 \in P
  OBVIOUS
<1>2. ASSUME NEW i \in P, i + 1 \in 1 .. n PROVE g[i + 1] = h[i + 1]
  <2>1. CASE i = 0
    BY <2>1 DEF Joining
  <2>2. CASE i # 0
    <3> DEFINE m == i + 1
    <3>1. m \in 2 .. n /\ m - 1 = i /\ i \in 1 .. n
      BY <2>2, <1>2
    <3>2. g[i] = h[i]
      BY <3>1
    <3> HIDE DEF m
    <3>3. g[m] = g[m - 1] \o q[m] /\ h[m] = h[m - 1] \o q[m]
      BY <3>1 DEF Joining
    <3>4. g[m] = h[m]
      BY <3>1, <3>2, <3>3
    <3> QED BY <3>4 DEF m
  <2> QED BY <2>1, <2>2
<1>3. P = Nat
  <2>1. P \in SUBSET Nat
    OBVIOUS
  <2>2. \A i \in P : i + 1 \in P
    BY <1>2
  <2> HIDE DEF P
  <2> QED BY <1>1, <2>1, <2>2, Induct
<1> QED BY <1>3

\* Whatever joins the sequences one after the other ends with all of them joined.
LEMMA FlattenIs ==
    ASSUME NEW S, NEW q \in Seq(Seq(S)), q # <<>>, NEW h, Joining(h, q, Len(q))
    PROVE  FlattenSeq(q) = h[Len(q)]
<1> DEFINE n == Len(q)
           g == CHOOSE f : Joins(f, q)
<1>0. n \in Nat \ {0} /\ n \in 1 .. n
  OBVIOUS
<1>1. PICK f \in [1 .. n -> Seq(S)] : Joining(f, q, n)
  BY JoinsExist
<1> HIDE DEF n
<1>2. Joins(f, q)
  BY <1>0, <1>1, JoiningIsJoins DEF n
<1>3. Joins(g, q)
  BY <1>2
<1>4. FlattenSeq(q) = g[n]
  BY <1>0, FlattenDef DEF n
<1> HIDE DEF g
<1>5. Joining(g, q, n)
  BY <1>0, <1>3, JoiningIsJoins DEF n
<1>6. \A i \in 1 .. n : g[i] = h[i]
  BY <1>0, <1>5, JoinsUnique DEF n
<1> QED BY <1>0, <1>4, <1>6 DEF n

\* Concatenation under a name, so that it can be reasoned about as a plain function.
Cat(s, t) == s \o t

\* Concatenation is associative.
LEMMA CatAssoc == \A S : \A a, b, c \in Seq(S) : Cat(Cat(a, b), c) = Cat(a, Cat(b, c))
<1> SUFFICES ASSUME NEW S, NEW a \in Seq(S), NEW b \in Seq(S), NEW c \in Seq(S)
             PROVE  (a \o b) \o c = a \o (b \o c)
  BY DEF Cat
<1> QED OBVIOUS

\* No buffers hold nothing.
LEMMA FlattenEmpty == FlattenSeq(<<>>) = <<>>
<1>1. Len(<<>>) = 0
  OBVIOUS
<1> QED BY <1>1 DEF FlattenSeq

\* The contents of buffers of elements of S are elements of S.
LEMMA FlattenType ==
    ASSUME NEW S, NEW q \in Seq(Seq(S))
    PROVE  FlattenSeq(q) \in Seq(S)
<1>1. CASE q = <<>>
  <2>1. <<>> \in Seq(S)
    BY EmptySeq
  <2> QED BY <1>1, <2>1, FlattenEmpty
<1>2. CASE q # <<>>
  <2>1. PICK g \in [1 .. Len(q) -> Seq(S)] : Joining(g, q, Len(q))
    BY <1>2, JoinsExist
  <2>2. FlattenSeq(q) = g[Len(q)]
    BY <1>2, <2>1, FlattenIs
  <2>3. Len(q) \in 1 .. Len(q)
    BY <1>2
  <2> QED BY <2>1, <2>2, <2>3
<1> QED BY <1>1, <1>2

\* A buffer appended to the queue goes behind everything in it.
LEMMA FlattenAppend ==
    ASSUME NEW S, NEW q \in Seq(Seq(S)), NEW s \in Seq(S)
    PROVE  FlattenSeq(Append(q, s)) = FlattenSeq(q) \o s
<1> DEFINE t == Append(q, s)
           n == Len(q)
           m == n + 1
<1>0. /\ n \in Nat /\ t \in Seq(Seq(S)) /\ t # <<>> /\ Len(t) = m /\ t[m] = s
      /\ \A i \in 1 .. n : t[i] = q[i]
  <2>1. n \in Nat
    OBVIOUS
  <2> QED BY <2>1, AppendProperties
<1>1. CASE q = <<>>
  <2> DEFINE h == [i \in {1} |-> s]
  <2>1. m = 1 /\ 2 .. m = {} /\ h[1] = s
    BY <1>1
  <2>2. Joining(h, t, m)
    <3> HIDE DEF h, t
    <3> QED BY <1>0, <2>1 DEF Joining
  <2>3. FlattenSeq(t) = h[m]
    <3> HIDE DEF h, t
    <3> QED BY <1>0, <2>2, FlattenIs
  <2>4. FlattenSeq(t) = s
    BY <2>1, <2>3
  <2>5. <<>> \o s = s
    OBVIOUS
  <2> QED BY <1>1, <2>4, <2>5, FlattenEmpty
<1>2. CASE q # <<>>
  <2>0. n \in 1 .. m /\ m \in 1 .. m /\ n # m /\ m - 1 = n /\ 1 # m /\ 1 \in 1 .. m /\ 1 \in 1 .. n
    BY <1>2
  <2>1. PICK g \in [1 .. n -> Seq(S)] : Joining(g, q, n)
    BY <1>2, JoinsExist
  <2>2. FlattenSeq(q) = g[n]
    BY <1>2, <2>1, FlattenIs
  <2> DEFINE h == [i \in 1 .. m |-> IF i = m THEN g[n] \o s ELSE g[i]]
  <2>3. h[m] = g[n] \o s /\ h[n] = g[n] /\ h[1] = g[1]
    BY <2>0
  <2>4. ASSUME NEW i \in 2 .. m PROVE h[i] = h[i - 1] \o t[i]
    <3>1. CASE i = m
      <4> HIDE DEF h, t, n
      <4>1. h[m - 1] = g[n] /\ t[m] = s
        BY <1>0, <2>0, <2>3
      <4> QED BY <3>1, <4>1, <2>3
    <3>2. CASE i # m
      <4>1. i \in 2 .. n /\ i \in 1 .. n /\ i \in 1 .. m /\ i - 1 \in 1 .. m /\ i - 1 # m
        BY <1>0, <3>2
      <4>2. h[i] = g[i] /\ h[i - 1] = g[i - 1] /\ t[i] = q[i]
        BY <1>0, <3>2, <4>1
      <4> HIDE DEF h, t, n
      <4> QED BY <2>1, <4>1, <4>2 DEF Joining
    <3> QED BY <3>1, <3>2
  <2>5. Joining(h, t, m)
    <3> HIDE DEF h, t, n
    <3>1. t[1] = q[1] /\ g[1] = q[1]
      BY <1>0, <2>0, <2>1 DEF Joining
    <3> QED BY <3>1, <2>3, <2>4 DEF Joining
  <2>6. FlattenSeq(t) = h[m]
    <3> HIDE DEF h, t
    <3> QED BY <1>0, <2>5, FlattenIs
  <2> QED BY <2>2, <2>3, <2>6
<1> QED BY <1>1, <1>2

\* The contents of a queue are those of the front buffer and of the rest.
LEMMA FlattenTail ==
    ASSUME NEW S, NEW q \in Seq(Seq(S)), q # <<>>
    PROVE  FlattenSeq(q) = Head(q) \o FlattenSeq(Tail(q))
<1> DEFINE t == Tail(q)
           n == Len(q)
<1>0. /\ n \in Nat \ {0} /\ t \in Seq(Seq(S)) /\ Len(t) = n - 1 /\ Head(q) = q[1]
      /\ \A i \in 1 .. n - 1 : t[i] = q[i + 1]
      /\ \A i \in 1 .. n : q[i] \in Seq(S)
  OBVIOUS
<1>1. CASE t = <<>>
  <2>1. n = 1
    <3>1. Len(t) = 0
      <4> HIDE DEF t
      <4> QED BY <1>1
    <3> QED BY <3>1, <1>0
  <2> DEFINE h == [i \in {1} |-> q[1]]
  <2>2. h[1] = q[1] /\ 2 .. n = {}
    BY <2>1
  <2>3. Joining(h, q, n)
    <3> HIDE DEF h, n
    <3> QED BY <2>2 DEF Joining
  <2>4. FlattenSeq(q) = h[n]
    <3> HIDE DEF h
    <3> QED BY <2>3, FlattenIs
  <2>5. q[1] \in Seq(S)
    BY <1>0
  <2>6. q[1] \o <<>> = q[1]
    BY <2>5
  <2>7. FlattenSeq(t) = <<>>
    BY <1>1, FlattenEmpty
  <2> HIDE DEF h, n, t
  <2>8. FlattenSeq(q) = q[1]
    BY <2>1, <2>2, <2>4
  <2> QED BY <1>0, <2>6, <2>7, <2>8 DEF t
<1>2. CASE t # <<>>
  <2>0. Len(t) = n - 1 /\ n - 1 \in Nat \ {0} /\ n > 1
    <3>1. Len(t) # 0
      <4> HIDE DEF t
      <4> QED BY <1>0, <1>2, EmptySeq
    <3> QED BY <3>1, <1>0
  <2> DEFINE m == n - 1
  <2>1. PICK g \in [1 .. m -> Seq(S)] : Joining(g, t, m)
    <3> HIDE DEF t, n
    <3>1. \E g \in [1 .. Len(t) -> Seq(S)] : Joining(g, t, Len(t))
      BY <1>0, <1>2, JoinsExist
    <3> QED BY <3>1, <1>0
  <2>2. FlattenSeq(t) = g[m]
    <3> HIDE DEF t, n
    <3> QED BY <1>0, <1>2, <2>1, FlattenIs
  <2> DEFINE h == [i \in 1 .. n |-> IF i = 1 THEN q[1] ELSE q[1] \o g[i - 1]]
  <2> HIDE DEF t
  <2>3. h[1] = q[1] /\ h[n] = q[1] \o g[m]
    <3>1. 1 \in 1 .. n /\ n \in 1 .. n /\ n # 1
      BY <2>0
    <3> HIDE DEF n
    <3> QED BY <3>1
  <2>4. ASSUME NEW i \in 2 .. n PROVE h[i] = h[i - 1] \o q[i]
    <3>1. h[i] = q[1] \o g[i - 1]
      <4>1. i \in 1 .. n /\ i # 1
        BY <2>0
      <4> HIDE DEF n
      <4> QED BY <4>1
    <3>2. t[i - 1] = q[i]
      <4>1. i - 1 \in 1 .. n - 1 /\ i - 1 + 1 = i
        BY <2>0
      <4> QED BY <1>0, <4>1
    <3>3. CASE i = 2
      <4>1. h[i - 1] = q[1]
        BY <3>3, <2>3
      <4>2. g[i - 1] = t[i - 1]
        BY <3>3, <2>1 DEF Joining
      <4> HIDE DEF h, n
      <4> QED BY <3>1, <3>2, <4>1, <4>2
    <3>4. CASE i # 2
      <4> DEFINE j == i - 1
                 k == j - 1
      <4>0. j \in 2 .. m /\ j \in 1 .. n /\ j # 1 /\ j \in 1 .. m /\ k \in 1 .. m /\ i \in 1 .. n
        BY <2>0, <3>4
      <4>1. h[j] = q[1] \o g[k]
        BY <4>0
      <4>2. g[j] = g[k] \o t[j]
        <5> HIDE DEF j, n
        <5> QED BY <4>0, <2>1 DEF Joining
      <4>3. g[k] \in Seq(S) /\ q[1] \in Seq(S) /\ q[i] \in Seq(S)
        <5> HIDE DEF k, n, h
        <5>1. 1 \in 1 .. n
          BY <1>0
        <5> QED BY <4>0, <2>1, <1>0, <5>1
      <4> HIDE DEF h, n, k
      <4>4. Cat(Cat(q[1], g[k]), q[i]) = Cat(q[1], Cat(g[k], q[i]))
        <5>1. \A a, b, c \in Seq(S) : Cat(Cat(a, b), c) = Cat(a, Cat(b, c))
          BY CatAssoc
        <5>2. \A c \in Seq(S) : Cat(Cat(q[1], g[k]), c) = Cat(q[1], Cat(g[k], c))
          BY <5>1, <4>3, Zenon
        <5> QED BY <5>2, <4>3, Zenon
      <4>5. h[i] = Cat(q[1], g[j]) /\ h[j] = Cat(q[1], g[k]) /\ g[j] = Cat(g[k], q[i])
        BY <3>1, <3>2, <4>1, <4>2 DEF Cat
      <4>6. h[i] = Cat(h[j], q[i])
        BY <4>4, <4>5, Zenon
      <4> QED BY <4>6 DEF Cat
    <3> QED BY <3>3, <3>4
  <2>5. Joining(h, q, n)
    <3> HIDE DEF h, n
    <3> QED BY <2>3, <2>4 DEF Joining
  <2>6. FlattenSeq(q) = h[n]
    <3> HIDE DEF h
    <3> QED BY <2>5, FlattenIs
  <2> HIDE DEF h, n
  <2> QED BY <1>0, <2>2, <2>3, <2>6 DEF t
<1> QED BY <1>1, <1>2

-----------------------------------------------------------------------------
(***************************************************************************)
(* The write queue.                                                         *)
(***************************************************************************)

\* The sizes and the contents of the buffers in a queue.
Sizes(q) == [i \in DOMAIN q |-> q[i].size]
Contents(q) == [i \in DOMAIN q |-> q[i].packets]

\* The types of the parts of a buffer.
LEMMA BufferFields ==
    ASSUME NEW b \in Buffer
    PROVE  b.size \in 0 .. UINT16_MAX /\ b.size \in Nat /\ b.packets \in Seq(Packet)
<1>1. UINT16_MAX \in Nat
  BY DEF UINT16_MAX
<1> QED BY <1>1 DEF Buffer

\* The sizes of a queue are numbers, one for each buffer.
LEMMA SizesType ==
    ASSUME NEW q \in Seq(Buffer)
    PROVE  Sizes(q) \in Seq(Nat) /\ Len(Sizes(q)) = Len(q)
<1>1. DOMAIN q = 1 .. Len(q) /\ Len(q) \in Nat /\ \A i \in 1 .. Len(q) : q[i].size \in Nat
  <2>1. DOMAIN q = 1 .. Len(q) /\ Len(q) \in Nat /\ \A i \in 1 .. Len(q) : q[i] \in Buffer
    OBVIOUS
  <2> QED BY <2>1, BufferFields
<1> QED BY <1>1 DEF Sizes

\* The sizes after a buffer is appended.
LEMMA SizesAppend ==
    ASSUME NEW q \in Seq(Buffer), NEW b \in Buffer
    PROVE  Sizes(Append(q, b)) = Append(Sizes(q), b.size)
<1> DEFINE s == Sizes(Append(q, b))
           t == Append(Sizes(q), b.size)
<1>1. b.size \in Nat /\ Append(q, b) \in Seq(Buffer) /\ Sizes(q) \in Seq(Nat) /\ Len(Sizes(q)) = Len(q)
  BY SizesType, BufferFields
<1>2. s \in Seq(Nat) /\ Len(s) = Len(q) + 1
  <2>1. Len(Append(q, b)) = Len(q) + 1
    OBVIOUS
  <2> QED BY <1>1, <2>1, SizesType
<1>3. t \in Seq(Nat) /\ Len(t) = Len(q) + 1
  BY <1>1
<1>4. ASSUME NEW i \in 1 .. Len(q) + 1 PROVE s[i] = t[i]
  <2>1. CASE i = Len(q) + 1
    <3>1. s[i] = b.size
      BY <2>1, <1>1 DEF Sizes
    <3>2. t[i] = b.size
      BY <2>1, <1>1
    <3> QED BY <3>1, <3>2
  <2>2. CASE i # Len(q) + 1
    <3>0. i \in 1 .. Len(q) /\ DOMAIN q = 1 .. Len(q)
      BY <2>2
    <3>1. s[i] = q[i].size
      BY <3>0, <1>1 DEF Sizes
    <3>2. t[i] = Sizes(q)[i]
      BY <3>0, <1>1
    <3>3. Sizes(q)[i] = q[i].size
      BY <3>0 DEF Sizes
    <3> QED BY <3>1, <3>2, <3>3
  <2> QED BY <2>1, <2>2
<1> HIDE DEF s, t
<1>5. s = t
  BY <1>2, <1>3, <1>4, SeqEqual
<1> QED BY <1>5 DEF s, t

\* The sizes after the front buffer is removed.
LEMMA SizesTail ==
    ASSUME NEW q \in Seq(Buffer), q # <<>>
    PROVE  /\ Sizes(q) # <<>> /\ Head(Sizes(q)) = Head(q).size
           /\ Tail(Sizes(q)) = Sizes(Tail(q))
<1> DEFINE s == Sizes(Tail(q))
           t == Tail(Sizes(q))
<1>1. Sizes(q) \in Seq(Nat) /\ Len(Sizes(q)) = Len(q) /\ Tail(q) \in Seq(Buffer)
      /\ Len(Tail(q)) = Len(q) - 1 /\ Len(q) \in Nat \ {0} /\ DOMAIN q = 1 .. Len(q)
  BY SizesType
<1>2. Sizes(q) # <<>>
  <2>1. Len(Sizes(q)) # 0
    BY <1>1
  <2> QED BY <2>1
<1>3. Head(Sizes(q)) = Head(q).size
  <2>1. Sizes(q)[1] = q[1].size
    BY <1>1 DEF Sizes
  <2> QED BY <2>1, <1>1, <1>2
<1>4. s \in Seq(Nat) /\ Len(s) = Len(q) - 1
  BY <1>1, SizesType
<1>5. t \in Seq(Nat) /\ Len(t) = Len(q) - 1
  BY <1>1, <1>2
<1>6. ASSUME NEW i \in 1 .. Len(q) - 1 PROVE s[i] = t[i]
  <2>1. DOMAIN Tail(q) = 1 .. Len(q) - 1 /\ Tail(q)[i] = q[i + 1] /\ i + 1 \in 1 .. Len(q)
    BY <1>1
  <2>2. s[i] = q[i + 1].size
    BY <2>1 DEF Sizes
  <2>3. t[i] = Sizes(q)[i + 1]
    BY <1>1, <1>2
  <2>4. Sizes(q)[i + 1] = q[i + 1].size
    BY <1>1, <2>1 DEF Sizes
  <2> QED BY <2>2, <2>3, <2>4
<1>7. s = t
  <2> HIDE DEF s, t
  <2> QED BY <1>4, <1>5, <1>6, SeqEqual
<1> QED BY <1>2, <1>3, <1>7

\* The contents of a queue are sequences of packets, one for each buffer.
LEMMA ContentsType ==
    ASSUME NEW q \in Seq(Buffer)
    PROVE  Contents(q) \in Seq(Seq(Packet)) /\ Len(Contents(q)) = Len(q)
<1>1. DOMAIN q = 1 .. Len(q) /\ Len(q) \in Nat
      /\ \A i \in 1 .. Len(q) : q[i].packets \in Seq(Packet)
  <2>1. DOMAIN q = 1 .. Len(q) /\ Len(q) \in Nat /\ \A i \in 1 .. Len(q) : q[i] \in Buffer
    OBVIOUS
  <2> QED BY <2>1, BufferFields
<1> QED BY <1>1 DEF Contents

\* The contents after a buffer is appended.
LEMMA ContentsAppend ==
    ASSUME NEW q \in Seq(Buffer), NEW b \in Buffer
    PROVE  Contents(Append(q, b)) = Append(Contents(q), b.packets)
<1> DEFINE s == Contents(Append(q, b))
           t == Append(Contents(q), b.packets)
           T == Seq(Packet)
<1>1. b.packets \in T /\ Append(q, b) \in Seq(Buffer) /\ Contents(q) \in Seq(T)
      /\ Len(Contents(q)) = Len(q)
  BY ContentsType, BufferFields
<1>2. s \in Seq(T) /\ Len(s) = Len(q) + 1
  <2>1. Len(Append(q, b)) = Len(q) + 1
    OBVIOUS
  <2> QED BY <1>1, <2>1, ContentsType
<1>3. t \in Seq(T) /\ Len(t) = Len(q) + 1
  <2> HIDE DEF T
  <2> QED BY <1>1
<1>4. ASSUME NEW i \in 1 .. Len(q) + 1 PROVE s[i] = t[i]
  <2> HIDE DEF T
  <2>1. CASE i = Len(q) + 1
    <3>1. s[i] = b.packets
      BY <2>1, <1>1 DEF Contents
    <3>2. t[i] = b.packets
      BY <2>1, <1>1
    <3> QED BY <3>1, <3>2
  <2>2. CASE i # Len(q) + 1
    <3>0. i \in 1 .. Len(q) /\ DOMAIN q = 1 .. Len(q)
      BY <2>2
    <3>1. s[i] = q[i].packets
      BY <3>0, <1>1 DEF Contents
    <3>2. t[i] = Contents(q)[i]
      BY <3>0, <1>1
    <3>3. Contents(q)[i] = q[i].packets
      BY <3>0 DEF Contents
    <3> QED BY <3>1, <3>2, <3>3
  <2> QED BY <2>1, <2>2
<1> HIDE DEF s, t, T
<1>5. s = t
  BY <1>2, <1>3, <1>4, SeqEqual
<1> QED BY <1>5 DEF s, t

\* The contents after the front buffer is removed.
LEMMA ContentsTail ==
    ASSUME NEW q \in Seq(Buffer), q # <<>>
    PROVE  /\ Contents(q) # <<>> /\ Head(Contents(q)) = Head(q).packets
           /\ Tail(Contents(q)) = Contents(Tail(q))
<1> DEFINE s == Contents(Tail(q))
           t == Tail(Contents(q))
           T == Seq(Packet)
<1>1. Contents(q) \in Seq(T) /\ Len(Contents(q)) = Len(q) /\ Tail(q) \in Seq(Buffer)
      /\ Len(Tail(q)) = Len(q) - 1 /\ Len(q) \in Nat \ {0} /\ DOMAIN q = 1 .. Len(q)
  BY ContentsType
<1>4. s \in Seq(T) /\ Len(s) = Len(q) - 1
  BY <1>1, ContentsType
<1> HIDE DEF T
<1>2. Contents(q) # <<>>
  <2>1. Len(Contents(q)) # 0
    BY <1>1
  <2> QED BY <2>1
<1>3. Head(Contents(q)) = Head(q).packets
  <2>1. Contents(q)[1] = q[1].packets
    BY <1>1 DEF Contents
  <2> QED BY <2>1, <1>1, <1>2
<1>5. t \in Seq(T) /\ Len(t) = Len(q) - 1
  BY <1>1, <1>2
<1>6. ASSUME NEW i \in 1 .. Len(q) - 1 PROVE s[i] = t[i]
  <2>1. DOMAIN Tail(q) = 1 .. Len(q) - 1 /\ Tail(q)[i] = q[i + 1] /\ i + 1 \in 1 .. Len(q)
    BY <1>1
  <2>2. s[i] = q[i + 1].packets
    BY <2>1 DEF Contents
  <2>3. t[i] = Contents(q)[i + 1]
    BY <1>1, <1>2
  <2>4. Contents(q)[i + 1] = q[i + 1].packets
    BY <1>1, <2>1 DEF Contents
  <2> QED BY <2>2, <2>3, <2>4
<1>7. s = t
  <2> HIDE DEF s, t
  <2> QED BY <1>4, <1>5, <1>6, SeqEqual
<1> QED BY <1>2, <1>3, <1>7

\* The packets of the write queue the kernel has not taken.
Waiting(o) ==
    LET rest == FlattenSeq(Contents(o.queue))
    IN  SubSeq(rest, o.taken + 1, Len(rest))

(***************************************************************************)
(* The write queue: its size is the total of its buffers, a write is under  *)
(* way while it has a buffer, and the kernel has taken no more than the     *)
(* front buffer.                                                            *)
(***************************************************************************)
WriteQueue(o) ==
    /\ o \in OutRecord
    /\ o.size = Total(Sizes(o.queue))
    /\ o.isWriting <=> o.queue # <<>>
    /\ o.pending => o.isWriting
    /\ o.queue # <<>> => o.taken <= Len(Head(o.queue).packets)

\* The types of the parts of the write side.
LEMMA OutFields ==
    ASSUME NEW o \in OutRecord
    PROVE  /\ o.queue \in Seq(Buffer) /\ o.size \in Nat /\ o.taken \in Nat
           /\ o.isWriting \in BOOLEAN /\ o.pending \in BOOLEAN /\ o.shutdown \in BOOLEAN
           /\ o = [queue |-> o.queue, size |-> o.size, isWriting |-> o.isWriting,
                   pending |-> o.pending, taken |-> o.taken, shutdown |-> o.shutdown]
BY DEF OutRecord

\* What remains after the first n elements when more is appended.
LEMMA DropAppend ==
    ASSUME NEW s \in Seq(Packet), NEW t \in Seq(Packet), NEW n \in 0 .. Len(s)
    PROVE  SubSeq(s \o t, n + 1, Len(s \o t)) = SubSeq(s, n + 1, Len(s)) \o t
<1> DEFINE st == s \o t
           d == SubSeq(s, n + 1, Len(s))
           a == SubSeq(st, n + 1, Len(st))
           b == d \o t
<1>1. /\ st \in Seq(Packet) /\ Len(st) = Len(s) + Len(t) /\ Len(s) \in Nat /\ Len(t) \in Nat
      /\ \A i \in 1 .. Len(st) : st[i] = IF i <= Len(s) THEN s[i] ELSE t[i - Len(s)]
  OBVIOUS
<1>2. /\ d \in Seq(Packet) /\ Len(d) = Len(s) - n
      /\ \A i \in 1 .. Len(s) - n : d[i] = s[n + i]
  OBVIOUS
<1> HIDE DEF st, d
<1>3. /\ a \in Seq(Packet) /\ Len(a) = Len(st) - n
      /\ \A i \in 1 .. Len(st) - n : a[i] = st[n + i]
  BY <1>1, SMTT(30)
<1>4. /\ b \in Seq(Packet) /\ Len(b) = Len(d) + Len(t)
      /\ \A i \in 1 .. Len(d) + Len(t) : b[i] = IF i <= Len(d) THEN d[i] ELSE t[i - Len(d)]
  BY <1>2, ConcatProperties
<1> HIDE DEF a, b
<1>5. ASSUME NEW i \in 1 .. Len(a) PROVE a[i] = b[i]
  <2>1. i \in 1 .. Len(st) - n /\ n + i \in 1 .. Len(st) /\ i \in 1 .. Len(d) + Len(t)
    BY <1>1, <1>2, <1>3
  <2>2. a[i] = IF n + i <= Len(s) THEN s[n + i] ELSE t[n + i - Len(s)]
    BY <1>1, <1>3, <2>1
  <2>3. b[i] = IF i <= Len(d) THEN d[i] ELSE t[i - Len(d)]
    BY <1>4, <2>1
  <2>4. CASE i <= Len(d)
    <3>1. d[i] = s[n + i] /\ n + i <= Len(s)
      BY <1>1, <1>2, <2>4
    <3> QED BY <3>1, <2>2, <2>3, <2>4
  <2>5. CASE ~ (i <= Len(d))
    <3>1. i - Len(d) = n + i - Len(s) /\ ~ (n + i <= Len(s))
      BY <1>1, <1>2, <2>5
    <3> QED BY <3>1, <2>2, <2>3, <2>5
  <2> QED BY <2>4, <2>5
<1>6. Len(a) = Len(b)
  BY <1>1, <1>2, <1>3, <1>4
<1>7. a = b
  BY <1>3, <1>4, <1>5, <1>6, SeqEqual
<1> QED BY <1>7 DEF a, b, st, d

\* What remains after n elements is the next ones and what remains after them.
LEMMA DropMore ==
    ASSUME NEW s \in Seq(Packet), NEW n \in 0 .. Len(s), NEW m \in n .. Len(s)
    PROVE  /\ SubSeq(s, n + 1, Len(s)) = SubSeq(s, n + 1, m) \o SubSeq(s, m + 1, Len(s))
           /\ SubSeq(s, n + 1, m) \in Seq(Packet)
<1>1. n + 1 \in 1 .. Len(s) + 1 /\ m \in (n + 1) - 1 .. Len(s) /\ Len(s) \in m .. Len(s)
  OBVIOUS
<1>2. SubSeq(s, n + 1, m) \o SubSeq(s, m + 1, Len(s)) = SubSeq(s, n + 1, Len(s))
  BY <1>1, ConcatAdjacentSubSeq
<1>3. SubSeq(s, n + 1, m) \in Seq(Packet)
  <2>1. \A i \in n + 1 .. m : s[i] \in Packet
    OBVIOUS
  <2> QED BY <2>1, SubSeqProperties
<1> QED BY <1>2, <1>3

\* What remains after the first n elements is a sequence of packets.
LEMMA DropType ==
    ASSUME NEW s \in Seq(Packet), NEW n \in Nat
    PROVE  /\ SubSeq(s, n + 1, Len(s)) \in Seq(Packet)
           /\ n = 0 => SubSeq(s, n + 1, Len(s)) = s
           /\ n >= Len(s) => SubSeq(s, n + 1, Len(s)) = <<>>
OBVIOUS

\* The laws of concatenation the steps need.
LEMMA Regroup ==
    ASSUME NEW a \in Seq(Packet), NEW b \in Seq(Packet), NEW c \in Seq(Packet)
    PROVE  /\ (a \o b) \o c = a \o (b \o c)
           /\ a \o b \in Seq(Packet)
           /\ a \o <<>> = a
           /\ <<>> \o a = a
OBVIOUS

\* Concatenations of packets, to be cited where the parts are long terms.
LEMMA CatLaws ==
    /\ \A a, b \in Seq(Packet) : Cat(a, b) \in Seq(Packet)
    /\ \A a, b, c \in Seq(Packet) : Cat(Cat(a, b), c) = Cat(a, Cat(b, c))
    /\ \A a \in Seq(Packet) : Cat(a, <<>>) = a /\ Cat(<<>>, a) = a
    /\ <<>> \in Seq(Packet)
<1>1. \A a, b \in Seq(Packet) : Cat(a, b) \in Seq(Packet)
  BY DEF Cat
<1>2. \A a, b, c \in Seq(Packet) : Cat(Cat(a, b), c) = Cat(a, Cat(b, c))
  BY CatAssoc
<1>3. \A a \in Seq(Packet) : Cat(a, <<>>) = a /\ Cat(<<>>, a) = a
  BY DEF Cat
<1>4. <<>> \in Seq(Packet)
  OBVIOUS
<1> QED BY <1>1, <1>2, <1>3, <1>4

\* Four parts of the stream, regrouped around the part that moves.
LEMMA RegroupFour ==
    \A d, x, y, t \in Seq(Packet) : Cat(d, Cat(Cat(x, y), t)) = Cat(Cat(d, x), Cat(y, t))
<1> SUFFICES ASSUME NEW d \in Seq(Packet), NEW x \in Seq(Packet), NEW y \in Seq(Packet),
                    NEW t \in Seq(Packet)
             PROVE  Cat(d, Cat(Cat(x, y), t)) = Cat(Cat(d, x), Cat(y, t))
  OBVIOUS
<1>1. Cat(Cat(x, y), t) = Cat(x, Cat(y, t)) /\ Cat(y, t) \in Seq(Packet)
  BY CatLaws
<1>2. Cat(Cat(d, x), Cat(y, t)) = Cat(d, Cat(x, Cat(y, t)))
  BY <1>1, CatLaws
<1> QED BY <1>1, <1>2

\* A buffer that moves from the merge to the write queue leaves an empty one behind.
LEMMA Moved ==
    \A d, w, b \in Seq(Packet) : Cat(Cat(d, Cat(w, b)), <<>>) = Cat(Cat(d, w), b)
<1> SUFFICES ASSUME NEW d \in Seq(Packet), NEW w \in Seq(Packet), NEW b \in Seq(Packet)
             PROVE  Cat(Cat(d, Cat(w, b)), <<>>) = Cat(Cat(d, w), b)
  OBVIOUS
<1>1. Cat(w, b) \in Seq(Packet) /\ Cat(d, Cat(w, b)) \in Seq(Packet)
  BY CatLaws
<1>2. Cat(Cat(d, Cat(w, b)), <<>>) = Cat(d, Cat(w, b))
  BY <1>1, CatLaws
<1>3. Cat(Cat(d, w), b) = Cat(d, Cat(w, b))
  BY CatLaws
<1> QED BY <1>2, <1>3

\* The buffer is written first and the packet goes into a new one.
LEMMA MovedBefore ==
    \A d, w, b, x \in Seq(Packet) :
        Cat(Cat(d, Cat(w, b)), Cat(<<>>, x)) = Cat(Cat(Cat(d, w), b), x)
<1> SUFFICES ASSUME NEW d \in Seq(Packet), NEW w \in Seq(Packet), NEW b \in Seq(Packet),
                    NEW x \in Seq(Packet)
             PROVE  Cat(Cat(d, Cat(w, b)), Cat(<<>>, x)) = Cat(Cat(Cat(d, w), b), x)
  OBVIOUS
<1>1. Cat(Cat(d, w), b) = Cat(d, Cat(w, b)) /\ Cat(<<>>, x) = x
  BY CatLaws
<1> QED BY <1>1

\* The buffer is written and a large packet behind it.
LEMMA MovedBoth ==
    \A d, w, b, x \in Seq(Packet) :
        Cat(Cat(d, Cat(Cat(w, b), x)), <<>>) = Cat(Cat(Cat(d, w), b), x)
<1> SUFFICES ASSUME NEW d \in Seq(Packet), NEW w \in Seq(Packet), NEW b \in Seq(Packet),
                    NEW x \in Seq(Packet)
             PROVE  Cat(Cat(d, Cat(Cat(w, b), x)), <<>>) = Cat(Cat(Cat(d, w), b), x)
  OBVIOUS
<1>1. Cat(w, b) \in Seq(Packet) /\ Cat(Cat(d, w), b) = Cat(d, Cat(w, b))
  BY CatLaws
<1>2. Cat(Cat(d, Cat(Cat(w, b), x)), <<>>) = Cat(Cat(d, Cat(w, b)), x)
  BY <1>1, Moved
<1> QED BY <1>1, <1>2

\* A large packet is written while the buffer is empty.
LEMMA MovedAlone ==
    \A d, w, x \in Seq(Packet) :
        Cat(Cat(d, Cat(w, x)), <<>>) = Cat(Cat(Cat(d, w), <<>>), x)
<1> SUFFICES ASSUME NEW d \in Seq(Packet), NEW w \in Seq(Packet), NEW x \in Seq(Packet)
             PROVE  Cat(Cat(d, Cat(w, x)), <<>>) = Cat(Cat(Cat(d, w), <<>>), x)
  OBVIOUS
<1>1. Cat(d, w) \in Seq(Packet)
  BY CatLaws
<1>2. Cat(Cat(d, w), <<>>) = Cat(d, w)
  BY <1>1, CatLaws
<1>3. Cat(Cat(d, Cat(w, x)), <<>>) = Cat(Cat(d, w), x)
  BY Moved
<1> QED BY <1>2, <1>3

\* What waits in the socket, taken part by part or as a whole.
LEMMA StreamRegrouped ==
    \A d, w, b, x, q \in Seq(Packet) :
        Cat(d, Cat(Cat(Cat(w, b), x), q)) = Cat(Cat(Cat(d, w), b), Cat(x, q))
<1> SUFFICES ASSUME NEW d \in Seq(Packet), NEW w \in Seq(Packet), NEW b \in Seq(Packet),
                    NEW x \in Seq(Packet), NEW q \in Seq(Packet)
             PROVE  Cat(d, Cat(Cat(Cat(w, b), x), q)) = Cat(Cat(Cat(d, w), b), Cat(x, q))
  OBVIOUS
<1>1. Cat(w, b) \in Seq(Packet) /\ Cat(Cat(d, w), b) = Cat(d, Cat(w, b))
  BY CatLaws
<1>2. Cat(d, Cat(Cat(Cat(w, b), x), q)) = Cat(Cat(d, Cat(w, b)), Cat(x, q))
  BY <1>1, RegroupFour
<1> QED BY <1>1, <1>2

\* What waits for the kernel is a sequence of packets, empty if no buffer is queued.
LEMMA WaitingType ==
    ASSUME NEW o \in OutRecord
    PROVE  /\ FlattenSeq(Contents(o.queue)) \in Seq(Packet)
           /\ Waiting(o) \in Seq(Packet)
           /\ o.queue = <<>> => Waiting(o) = <<>>
<1>1. o.queue \in Seq(Buffer) /\ o.taken \in Nat
  BY OutFields
<1>2. FlattenSeq(Contents(o.queue)) \in Seq(Packet)
  BY <1>1, ContentsType, FlattenType
<1>3. Waiting(o) \in Seq(Packet)
  BY <1>1, <1>2, DropType DEF Waiting
<1>4. ASSUME o.queue = <<>> PROVE Waiting(o) = <<>>
  <2>1. Contents(o.queue) = <<>>
    <3>1. Contents(o.queue) \in Seq(Seq(Packet)) /\ Len(Contents(o.queue)) = 0
      BY <1>1, <1>4, ContentsType
    <3> QED BY <3>1, EmptySeq
  <2>2. FlattenSeq(Contents(o.queue)) = <<>>
    BY <2>1, FlattenEmpty
  <2>3. <<>> \in Seq(Packet) /\ Len(<<>>) = 0
    OBVIOUS
  <2> QED BY <1>1, <2>2, <2>3, DropType DEF Waiting
<1> QED BY <1>2, <1>3, <1>4

\* The front buffer and the others.
LEMMA WaitingFront ==
    ASSUME NEW o \in OutRecord, o.queue # <<>>, o.taken <= Len(Head(o.queue).packets)
    PROVE  /\ FlattenSeq(Contents(Tail(o.queue))) \in Seq(Packet)
           /\ Head(o.queue).packets \in Seq(Packet)
           /\ o.taken \in 0 .. Len(Head(o.queue).packets)
           /\ Waiting(o) = SubSeq(Head(o.queue).packets, o.taken + 1, Len(Head(o.queue).packets))
                             \o FlattenSeq(Contents(Tail(o.queue)))
<1> DEFINE s == Head(o.queue).packets
           t == FlattenSeq(Contents(Tail(o.queue)))
<1>1. o.queue \in Seq(Buffer) /\ o.taken \in Nat
  BY OutFields
<1>2. Head(o.queue) \in Buffer /\ Tail(o.queue) \in Seq(Buffer)
  BY <1>1
<1>3. t \in Seq(Packet)
  BY <1>2, ContentsType, FlattenType
<1>4. s \in Seq(Packet)
  BY <1>2, BufferFields
<1>5. FlattenSeq(Contents(o.queue)) = s \o t
  <2>1. Contents(o.queue) \in Seq(Seq(Packet))
    BY <1>1, ContentsType
  <2>2. FlattenSeq(Contents(o.queue)) = Head(Contents(o.queue)) \o FlattenSeq(Tail(Contents(o.queue)))
    BY <1>1, <2>1, ContentsTail, FlattenTail
  <2> QED BY <1>1, <2>2, ContentsTail
<1> HIDE DEF s, t
<1>6. o.taken \in 0 .. Len(s)
  BY <1>1, <1>4 DEF s
<1>7. Waiting(o) = SubSeq(s, o.taken + 1, Len(s)) \o t
  BY <1>3, <1>4, <1>5, <1>6, DropAppend DEF Waiting
<1> QED BY <1>3, <1>4, <1>6, <1>7 DEF s, t

(***************************************************************************)
(* What the operations of the write queue do.                               *)
(***************************************************************************)

\* closeSocket() leaves the write queue and what waits in it alone.
LEMMA CloseKeeps ==
    ASSUME NEW o, WriteQueue(o)
    PROVE  /\ WriteQueue(CloseSocket(o))
           /\ Waiting(CloseSocket(o)) = Waiting(o)
           /\ CloseSocket(o).size = o.size
           /\ CloseSocket(o).isWriting = o.isWriting
           /\ CloseSocket(o).pending = o.pending
           /\ CloseSocket(o).queue = o.queue
<1> DEFINE c == CloseSocket(o)
<1>1. o \in OutRecord
  BY DEF WriteQueue
<1>2. /\ c \in OutRecord /\ c.queue = o.queue /\ c.size = o.size /\ c.isWriting = o.isWriting
      /\ c.pending = o.pending /\ c.taken = o.taken
  BY <1>1 DEF CloseSocket, OutRecord
<1> HIDE DEF c
<1>3. WriteQueue(c)
  BY <1>2 DEF WriteQueue
<1>4. Waiting(c) = Waiting(o)
  BY <1>2 DEF Waiting
<1> QED BY <1>2, <1>3, <1>4 DEF c

\* addToWriteQueue below the limit puts the buffer behind what waits and keeps it being written.
LEMMA AddKeeps ==
    ASSUME NEW o, WriteQueue(o), NEW b \in Buffer, ~ IsFull(o)
    PROVE  LET a == AddToWriteQueue(o, b) IN
           /\ WriteQueue(a)
           /\ Waiting(a) = Waiting(o) \o b.packets
           /\ a.size = o.size + b.size
           /\ a.isWriting
           /\ (o.isWriting => o.pending) => a.pending
<1> DEFINE a == AddToWriteQueue(o, b)
           q == Append(o.queue, b)
<1>1. o \in OutRecord /\ o.size = Total(Sizes(o.queue))
  BY DEF WriteQueue
<1>2. o.queue \in Seq(Buffer) /\ o.size \in Nat /\ o.taken \in Nat
  BY <1>1, OutFields
<1>3. b.size \in Nat /\ b.packets \in Seq(Packet)
  BY BufferFields
<1>4. /\ q \in Seq(Buffer) /\ q # <<>> /\ Len(q) = Len(o.queue) + 1
      /\ o.queue = <<>> => Head(q) = b
      /\ o.queue # <<>> => Head(q) = Head(o.queue)
  BY <1>2
<1> HIDE DEF q
<1>5. /\ a.queue = q /\ a.size = o.size + b.size /\ a.isWriting
      /\ o.isWriting => a.pending = o.pending /\ a.taken = o.taken
      /\ ~ o.isWriting => a.pending = TRUE /\ a.taken = 0
      /\ a \in OutRecord
  <2> DEFINE o1 == [o EXCEPT !.size = @ + b.size, !.queue = Append(@, b)]
  <2>1. /\ o1.queue = q /\ o1.size = o.size + b.size /\ o1.isWriting = o.isWriting
        /\ o1.pending = o.pending /\ o1.taken = o.taken /\ o1 \in OutRecord
    <3> DEFINE o2 == [o EXCEPT !.size = @ + b.size]
    <3>1. o.size + b.size \in Nat
      BY <1>2, <1>3
    <3>2. /\ o2.queue = o.queue /\ o2.size = o.size + b.size /\ o2.isWriting = o.isWriting
          /\ o2.pending = o.pending /\ o2.taken = o.taken /\ o2 \in OutRecord
      BY <1>1, <3>1 DEF OutRecord
    <3>3. o1 = [o2 EXCEPT !.queue = Append(@, b)]
      OBVIOUS
    <3> HIDE DEF o1, o2
    <3>4. o1 = [o2 EXCEPT !.queue = q]
      BY <3>2, <3>3 DEF q
    <3> QED BY <1>4, <3>2, <3>4 DEF OutRecord
  <2>2. a = ProcessWriteQueue(o1)
    BY DEF AddToWriteQueue
  <2> HIDE DEF a, o1
  <2>3. CASE o.isWriting
    BY <2>1, <2>2, <2>3 DEF ProcessWriteQueue
  <2>4. CASE ~ o.isWriting
    <3>1. a = [o1 EXCEPT !.isWriting = TRUE, !.pending = TRUE, !.taken = 0]
      BY <2>1, <2>2, <2>4 DEF ProcessWriteQueue
    <3> QED BY <2>1, <2>4, <3>1 DEF OutRecord
  <2> QED BY <2>3, <2>4
<1> HIDE DEF a
<1>6. Total(Sizes(q)) = o.size + b.size
  BY <1>1, <1>2, <1>3, SizesType, SizesAppend, TotalAppend DEF q
<1>7. WriteQueue(a)
  <2>1. a.taken <= Len(Head(q).packets)
    <3>1. CASE o.isWriting
      BY <1>4, <1>5, <3>1 DEF WriteQueue
    <3>2. CASE ~ o.isWriting
      <4>1. o.queue = <<>> /\ Head(q) = b
        BY <1>4, <3>2 DEF WriteQueue
      <4>2. Len(b.packets) \in Nat
        BY <1>3
      <4> QED BY <1>5, <3>2, <4>1, <4>2
    <3> QED BY <3>1, <3>2
  <2> QED BY <1>4, <1>5, <1>6, <2>1 DEF WriteQueue
<1>8. Waiting(a) = Waiting(o) \o b.packets
  <2> DEFINE f == FlattenSeq(Contents(o.queue))
  <2>1. f \in Seq(Packet)
    BY <1>1, WaitingType
  <2>2. FlattenSeq(Contents(a.queue)) = f \o b.packets
    <3>1. Contents(o.queue) \in Seq(Seq(Packet))
      BY <1>2, ContentsType
    <3>2. FlattenSeq(Append(Contents(o.queue), b.packets)) = f \o b.packets
      BY <1>3, <3>1, FlattenAppend
    <3>3. Contents(a.queue) = Append(Contents(o.queue), b.packets)
      BY <1>2, <1>5, ContentsAppend DEF q
    <3> QED BY <3>2, <3>3
  <2>3. CASE o.isWriting
    <3>1. o.queue # <<>> /\ o.taken <= Len(Head(o.queue).packets)
      BY <2>3 DEF WriteQueue
    <3>2. o.taken <= Len(f)
      <4> DEFINE h == Head(o.queue).packets
                 t == FlattenSeq(Contents(Tail(o.queue)))
      <4>1. h \in Seq(Packet) /\ t \in Seq(Packet)
        BY <1>1, <3>1, WaitingFront
      <4>2. f = h \o t
        BY <1>2, <3>1, ContentsType, ContentsTail, FlattenTail
      <4> HIDE DEF h, t, f
      <4>3. Len(f) = Len(h) + Len(t) /\ Len(t) \in Nat /\ Len(h) \in Nat
        BY <4>1, <4>2
      <4> QED BY <1>2, <3>1, <4>3 DEF h
    <3>3. o.taken \in 0 .. Len(f)
      BY <1>2, <2>1, <3>2
    <3> HIDE DEF f
    <3> QED BY <1>3, <1>5, <2>1, <2>2, <2>3, <3>3, DropAppend, ZenonT(40) DEF Waiting, f
  <2>4. CASE ~ o.isWriting
    <3>1. o.queue = <<>> /\ a.taken = 0
      BY <1>5, <2>4 DEF WriteQueue
    <3>2. f = <<>>
      <4>1. Contents(o.queue) \in Seq(Seq(Packet)) /\ Len(Contents(o.queue)) = 0
        BY <1>2, <3>1, ContentsType
      <4>2. Contents(o.queue) = <<>>
        BY <4>1, EmptySeq
      <4> QED BY <4>2, FlattenEmpty
    <3>3. Waiting(o) = <<>>
      BY <1>1, <3>1, WaitingType
    <3> HIDE DEF f
    <3>4. <<>> \o b.packets = b.packets
      BY <1>3
    <3>5. Waiting(a) = b.packets
      BY <1>3, <2>2, <3>1, <3>2, <3>4, DropType DEF Waiting
    <3> QED BY <3>3, <3>4, <3>5
  <2> QED BY <2>3, <2>4
<1>9. (o.isWriting => o.pending) => a.pending
  BY <1>5
<1> QED BY <1>5, <1>7, <1>8, <1>9 DEF a

-----------------------------------------------------------------------------
(***************************************************************************)
(* The inductive invariant.                                                 *)
(***************************************************************************)

\* An open socket reads, and it writes while the write queue has a buffer; a body that is
\* being read is one of the MaxReads packets.
Serving ==
    /\ reader = "body" => reads < MaxReads
    /\ ~ m_isClosed => reader # "stopped"
    /\ ~ m_isClosed => (out.isWriting => out.pending)

\* The write queue is below the limit plus one buffer.
Within(o) == m_sendQueueLimit # SEND_QUEUE_UNLIMITED => o.size < m_sendQueueLimit + LargestBuffer
Bounded == Within(out)

\* update() starts with an empty buffer of fixed size and has a packet in hand in one place.
Merging ==
    /\ buff.size = MESSAGE_BUFFER_SIZE
    /\ net = "loop" => buff.packets = <<>>
    /\ net = "taken" <=> packet # NoPacket

\* What the kernel took, what waits for it and what is merged so far; and what is not.
Held == (delivered \o Waiting(out)) \o buff.packets
InHand == IF packet = NoPacket THEN <<>> ELSE <<packet>>
ToMerge == InHand \o m_packetQueue

\* Closing may cut the stream short, but never in the middle.
InOrder == \E n \in 0 .. Len(accepted) : Held = SubSeq(accepted, 1, n)
Complete == ~ m_isClosed => Held \o ToMerge = accepted

(***************************************************************************)
(* The inductive invariant.  NothingLost alone is not inductive: it says    *)
(* nothing of a closed socket, whose buffers the kernel may still take, and *)
(* nothing of the front buffer a write refers to.  WriteQueue keeps the     *)
(* queue, its size and the write under way together, Merging ties the place *)
(* of the network thread to what it holds, and InOrder says of an open or   *)
(* closed socket that what left the packet queue is a prefix of the stream. *)
(***************************************************************************)
IInv ==
    /\ TypeOK
    /\ WriteQueue(out)
    /\ Serving
    /\ Bounded
    /\ Merging
    /\ InOrder
    /\ Complete

\* Being a prefix by length and being a prefix by what follows are the same.
LEMMA PrefixIs ==
    ASSUME NEW h \in Seq(Packet), NEW a \in Seq(Packet)
    PROVE  /\ (\E w \in Seq(Packet) : h \o w = a) => \E n \in 0 .. Len(a) : h = SubSeq(a, 1, n)
           /\ (\E n \in 0 .. Len(a) : h = SubSeq(a, 1, n)) => \E w \in Seq(Packet) : h \o w = a
           /\ \A n \in 0 .. Len(a) : h = SubSeq(a, 1, n) => n = Len(h)
<1>1. ASSUME NEW w \in Seq(Packet), h \o w = a
      PROVE  \E n \in 0 .. Len(a) : h = SubSeq(a, 1, n)
  <2>1. /\ Len(h) \in Nat /\ Len(w) \in Nat /\ Len(a) = Len(h) + Len(w)
        /\ \A i \in 1 .. Len(h) : a[i] = h[i]
    BY <1>1, ConcatProperties
  <2>2. SubSeq(a, 1, Len(h)) \in Seq(Packet) /\ Len(SubSeq(a, 1, Len(h))) = Len(h)
        /\ \A i \in 1 .. Len(h) : SubSeq(a, 1, Len(h))[i] = a[i]
    BY <2>1
  <2>3. h = SubSeq(a, 1, Len(h))
    BY <2>1, <2>2, SeqEqual
  <2>4. Len(h) \in 0 .. Len(a)
    BY <2>1
  <2> QED BY <2>3, <2>4, Zenon
<1>2. ASSUME NEW n \in 0 .. Len(a), h = SubSeq(a, 1, n)
      PROVE  \E w \in Seq(Packet) : h \o w = a
  <2> DEFINE w == SubSeq(a, n + 1, Len(a))
  <2>1. n \in 0 .. Len(a) /\ 0 \in 0 .. Len(a) /\ n \in 0 .. Len(a) /\ n \in Nat
    OBVIOUS
  <2>2. SubSeq(a, 0 + 1, Len(a)) = SubSeq(a, 0 + 1, n) \o w
    BY <2>1, DropMore
  <2>3. w \in Seq(Packet)
    BY <2>1, DropType
  <2>4. SubSeq(a, 1, Len(a)) = a
    OBVIOUS
  <2> HIDE DEF w
  <2>5. h \o w = a
    <3>1. 0 + 1 = 1
      OBVIOUS
    <3>2. SubSeq(a, 1, Len(a)) = SubSeq(a, 1, n) \o w
      BY <2>2, <3>1, Zenon
    <3> QED BY <1>2, <2>4, <3>2, Zenon
  <2> QED BY <2>3, <2>5
<1>3. ASSUME NEW n \in 0 .. Len(a), h = SubSeq(a, 1, n) PROVE n = Len(h)
  BY <1>3
<1> QED BY <1>1, <1>2, <1>3

\* The types of the parts of the stream.
LEMMA HeldType ==
    ASSUME TypeOK, WriteQueue(out)
    PROVE  /\ Waiting(out) \in Seq(Packet) /\ delivered \in Seq(Packet) /\ accepted \in Seq(Packet)
           /\ buff.packets \in Seq(Packet) /\ m_packetQueue \in Seq(Packet)
           /\ delivered \o Waiting(out) \in Seq(Packet)
           /\ Held \in Seq(Packet) /\ InHand \in Seq(Packet) /\ ToMerge \in Seq(Packet)
<1>1. out \in OutRecord /\ delivered \in Seq(Packet) /\ accepted \in Seq(Packet) /\ buff \in Buffer
      /\ m_packetQueue \in Seq(Packet) /\ packet \in Packet \cup {NoPacket}
  BY DEF TypeOK
<1>2. Waiting(out) \in Seq(Packet)
  BY <1>1, WaitingType
<1>3. buff.packets \in Seq(Packet)
  BY <1>1, BufferFields
<1>4. delivered \o Waiting(out) \in Seq(Packet)
  BY <1>1, <1>2
<1>5. Held \in Seq(Packet)
  BY <1>3, <1>4 DEF Held
<1>6. InHand \in Seq(Packet)
  BY <1>1 DEF InHand
<1>7. ToMerge \in Seq(Packet)
  BY <1>1, <1>6 DEF ToMerge
<1> QED BY <1>1, <1>2, <1>3, <1>4, <1>5, <1>6, <1>7

\* The stream is in order as long as what is held grows to what it may or is cut.
LEMMA InOrderIs ==
    ASSUME TypeOK, WriteQueue(out)
    PROVE  /\ InOrder => \E w \in Seq(Packet) : Held \o w = accepted
           /\ (\E w \in Seq(Packet) : Held \o w = accepted) => InOrder
<1>1. Held \in Seq(Packet) /\ accepted \in Seq(Packet)
  BY HeldType
<1> QED BY <1>1, PrefixIs DEF InOrder

\* LargestBuffer is a number that no buffer and no packet exceeds.
LEMMA LargestIs ==
    /\ LargestBuffer \in Nat
    /\ MESSAGE_BUFFER_SIZE <= LargestBuffer
    /\ \A p \in Packet : ByteSize[p] <= LargestBuffer
<1> DEFINE S == {MESSAGE_BUFFER_SIZE} \cup {ByteSize[p] : p \in Packet}
           R == {UINT16_MAX - x : x \in S}
<1>1. UINT16_MAX \in Nat /\ MESSAGE_BUFFER_SIZE \in 0 .. UINT16_MAX
  BY DEF UINT16_MAX, MESSAGE_BUFFER_SIZE
<1>2. \A p \in Packet : ByteSize[p] \in 0 .. UINT16_MAX
  BY <1>1, SizeAssumption
<1>3. \A x \in S : x \in 0 .. UINT16_MAX
  BY <1>1, <1>2
<1>4. MESSAGE_BUFFER_SIZE \in S
  OBVIOUS
<1>5. \A p \in Packet : ByteSize[p] \in S
  OBVIOUS
<1> HIDE DEF S
<1>6. R \in SUBSET Nat /\ R # {}
  BY <1>1, <1>3, <1>4
<1>7. PICK m \in R : \A r \in R : m <= r
  <2> HIDE DEF R
  <2> QED BY <1>6, Least
<1>8. PICK x \in S : m = UINT16_MAX - x
  BY <1>7
<1>9. ASSUME NEW y \in S PROVE x >= y
  <2>1. UINT16_MAX - y \in R
    OBVIOUS
  <2> HIDE DEF R
  <2>2. UINT16_MAX - x <= UINT16_MAX - y
    BY <1>7, <1>8, <2>1
  <2>3. x \in Int /\ y \in Int /\ UINT16_MAX \in Int
    BY <1>1, <1>3, <1>8
  <2> QED BY <2>2, <2>3
<1>10. Max(S) \in S /\ \A y \in S : Max(S) >= y
  BY <1>8, <1>9 DEF Max
<1>11. Max(S) \in Nat
  BY <1>3, <1>10
<1>12. LargestBuffer = Max(S)
  BY DEF LargestBuffer, S
<1> HIDE DEF R
<1> QED BY <1>1, <1>2, <1>4, <1>5, <1>10, <1>11, <1>12

\* A buffer has active bytes exactly when it has packets: no packet is empty.
LEMMA ActiveIs ==
    ASSUME NEW b, b.packets \in Seq(Packet)
    PROVE  /\ ActiveSize(b) \in Nat
           /\ b.packets # <<>> => ActiveSize(b) > 0
           /\ b.packets = <<>> => ActiveSize(b) = 0
<1> DEFINE s == [i \in DOMAIN b.packets |-> ByteSize[b.packets[i]]]
<1>1. /\ DOMAIN b.packets = 1 .. Len(b.packets) /\ Len(b.packets) \in Nat
      /\ \A i \in 1 .. Len(b.packets) : b.packets[i] \in Packet
  OBVIOUS
<1>2. \A p \in Packet : ByteSize[p] \in Nat /\ ByteSize[p] > 0
  <2>1. UINT16_MAX \in Nat
    BY DEF UINT16_MAX
  <2> QED BY <2>1, SizeAssumption
<1>3. s \in Seq(Nat) /\ Len(s) = Len(b.packets) /\ \A i \in 1 .. Len(s) : s[i] > 0
  BY <1>1, <1>2
<1>4. ActiveSize(b) = Total(s)
  BY DEF ActiveSize
<1> HIDE DEF s
<1>5. Total(s) \in Nat
  BY <1>3, TotalType
<1>6. ASSUME b.packets # <<>> PROVE Total(s) > 0
  <2>1. s # <<>>
    <3>1. Len(b.packets) # 0
      BY <1>6
    <3>2. Len(s) # 0
      BY <1>3, <3>1
    <3> QED BY <3>2
  <2> QED BY <1>3, <2>1, TotalPositive
<1>7. ASSUME b.packets = <<>> PROVE Total(s) = 0
  <2>1. Len(s) = 0
    BY <1>3, <1>7
  <2>2. s = <<>>
    BY <1>3, <2>1
  <2> QED BY <2>2, TotalEmpty
<1> QED BY <1>4, <1>5, <1>6, <1>7

-----------------------------------------------------------------------------
(***************************************************************************)
(* Every step keeps it.                                                     *)
(***************************************************************************)

\* A new socket satisfies the invariant.
LEMMA InitHolds == Init => IInv
<1> SUFFICES ASSUME Init PROVE IInv
  OBVIOUS
<1>1. MESSAGE_BUFFER_SIZE \in 0 .. UINT16_MAX
  BY DEF MESSAGE_BUFFER_SIZE, UINT16_MAX
<1>2. <<>> \in Seq(Packet) /\ <<>> \in Seq(Buffer)
  BY EmptySeq
<1>3. out \in OutRecord
  BY <1>2 DEF Init, OutRecord
<1>4. buff \in Buffer
  BY <1>1, <1>2 DEF Init, EmptyBuffer, Buffer
<1>5. TypeOK
  <2>1. reads \in 0 .. MaxReads
    BY LimitAssumption DEF Init
  <2>2. inHand \in [Sender -> Packet \cup {NoPacket}]
    BY DEF Init
  <2> QED BY <1>2, <1>3, <1>4, <2>1, <2>2 DEF Init, TypeOK
<1>6. WriteQueue(out)
  <2>1. Sizes(<<>>) \in Seq(Nat) /\ Len(Sizes(<<>>)) = 0
    BY <1>2, SizesType
  <2>2. Sizes(<<>>) = <<>>
    BY <2>1, EmptySeq
  <2>3. Total(Sizes(<<>>)) = 0
    BY <2>2, TotalEmpty
  <2> QED BY <1>3, <2>3 DEF Init, WriteQueue
<1>7. Serving /\ Merging
  BY DEF Init, Serving, Merging, EmptyBuffer
<1>8. Bounded
  <2>1. out.size = 0 /\ LargestBuffer \in Nat /\ MESSAGE_BUFFER_SIZE <= LargestBuffer
    BY LargestIs DEF Init
  <2> QED BY <2>1, LimitAssumption DEF Init, Bounded, Within, MESSAGE_BUFFER_SIZE
<1>9. Waiting(out) = <<>>
  BY <1>3, WaitingType DEF Init
<1>10. Held = <<>> /\ ToMerge = <<>> /\ accepted = <<>>
  <2>1. <<>> \o <<>> = <<>>
    OBVIOUS
  <2> QED BY <1>9, <2>1 DEF Init, Held, ToMerge, InHand, EmptyBuffer
<1>11. Held \o ToMerge = accepted
  BY <1>10
<1>12. InOrder
  BY <1>2, <1>5, <1>6, <1>10, <1>11, InOrderIs
<1> QED BY <1>5, <1>6, <1>7, <1>8, <1>11, <1>12 DEF IInv, Complete

\* A prefix after a step, shown by what follows it.
LEMMA InOrderNext ==
    ASSUME TypeOK', WriteQueue(out'), NEW w \in Seq(Packet), Held' \o w = accepted'
    PROVE  InOrder'
<1>1. out' \in OutRecord /\ delivered' \in Seq(Packet) /\ buff' \in Buffer
      /\ accepted' \in Seq(Packet)
  BY DEF TypeOK
<1>2. Waiting(out') \in Seq(Packet) /\ buff'.packets \in Seq(Packet)
  BY <1>1, WaitingType, BufferFields
<1>3. delivered' \o Waiting(out') \in Seq(Packet)
  BY <1>1, <1>2
<1>4. Held' \in Seq(Packet)
  BY <1>2, <1>3 DEF Held
<1>5. \E n \in 0 .. Len(accepted') : Held' = SubSeq(accepted', 1, n)
  BY <1>1, <1>4, PrefixIs
<1> QED BY <1>5 DEF InOrder

\* A step that moves no packet keeps the order and the completeness of the stream.
LEMMA SameStream ==
    ASSUME IInv, Waiting(out') = Waiting(out), m_isClosed => m_isClosed',
           UNCHANGED <<buff, packet, m_packetQueue, delivered, accepted>>
    PROVE  InOrder' /\ Complete'
<1>1. Held' = Held
  BY DEF Held
<1>2. ToMerge' = ToMerge
  BY DEF ToMerge, InHand
<1>3. InOrder'
  BY <1>1 DEF IInv, InOrder
<1>4. Complete'
  BY <1>1, <1>2 DEF IInv, Complete
<1> QED BY <1>3, <1>4

\* Steps that leave the write queue and the stream alone.
LEMMA QuietStep ==
    ASSUME IInv, TypeOK', WriteQueue(out'), Waiting(out') = Waiting(out),
           out'.size = out.size, m_isClosed => m_isClosed',
           m_sendQueueLimit' \in {m_sendQueueLimit, SEND_QUEUE_UNLIMITED},
           UNCHANGED <<net, buff, packet, m_packetQueue, delivered, accepted>>, Serving'
    PROVE  IInv'
<1>1. InOrder' /\ Complete'
  BY SameStream
<1>2. Merging'
  BY DEF IInv, Merging
<1>3. Bounded'
  BY DEF IInv, Bounded, Within
<1> QED BY <1>1, <1>2, <1>3 DEF IInv

\* queuePacket() up to the test of m_isClosed keeps the invariant.
LEMMA QueueTestStep ==
    ASSUME IInv, NEW s \in Sender, NEW p \in Packet, QueueTest(s, p)
    PROVE  IInv'
<1>1. TypeOK'
  BY DEF IInv, TypeOK, QueueTest, mergeVars, readVars
<1>2. Serving'
  BY DEF IInv, Serving, QueueTest, readVars
<1>3. WriteQueue(out') /\ Waiting(out') = Waiting(out)
  BY DEF IInv, QueueTest
<1> QED BY <1>1, <1>2, <1>3, QuietStep DEF QueueTest, mergeVars

\* queuePacket() adding the packet keeps the invariant, also on a socket closed meanwhile.
LEMMA QueueAddStep ==
    ASSUME IInv, NEW s \in Sender, QueueAdd(s)
    PROVE  IInv'
<1> DEFINE p == inHand[s]
<1>1. p \in Packet
  BY DEF IInv, TypeOK, QueueAdd
<1>2. UNCHANGED <<m_isClosed, m_sendQueueLimit, out, net, buff, packet, closer, reader, reads,
                  reset, delivered>>
  BY DEF QueueAdd, mergeVars, readVars
<1>3. m_packetQueue' = Append(m_packetQueue, p) /\ accepted' = Append(accepted, p)
  BY DEF QueueAdd
<1>4. inHand' \in [Sender -> Packet \cup {NoPacket}]
  BY DEF IInv, TypeOK, QueueAdd
<1> HIDE DEF p
<1>5. TypeOK'
  BY <1>1, <1>2, <1>3, <1>4 DEF IInv, TypeOK
<1>6. WriteQueue(out') /\ Serving' /\ Bounded' /\ Merging'
  BY <1>2 DEF IInv, Serving, Bounded, Within, Merging
<1>7. /\ Held \in Seq(Packet) /\ InHand \in Seq(Packet) /\ m_packetQueue \in Seq(Packet)
      /\ accepted \in Seq(Packet) /\ ToMerge \in Seq(Packet)
  BY HeldType DEF IInv
<1>8. Held' = Held /\ InHand' = InHand
  BY <1>2 DEF Held, InHand
<1>9. ASSUME NEW a \in Seq(Packet), NEW b \in Seq(Packet)
      PROVE  /\ a \o Append(b, p) = Append(a \o b, p)
             /\ Append(b, p) \in Seq(Packet)
  BY <1>1
<1>10. ToMerge' = Append(ToMerge, p)
  BY <1>3, <1>7, <1>8, <1>9 DEF ToMerge
<1>11. Complete'
  <2>1. Held' \o ToMerge' = Append(Held \o ToMerge, p)
    BY <1>7, <1>8, <1>9, <1>10
  <2>2. ~ m_isClosed => Held \o ToMerge = accepted
    BY DEF IInv, Complete
  <2>3. ~ m_isClosed' => Held' \o ToMerge' = accepted'
    BY <1>2, <1>3, <2>1, <2>2
  <2> QED BY <2>3 DEF Complete
<1>12. InOrder'
  <2>1. PICK w \in Seq(Packet) : Held \o w = accepted
    BY InOrderIs DEF IInv
  <2>2. Held' \o Append(w, p) = accepted'
    BY <1>3, <1>7, <1>8, <1>9, <2>1
  <2>3. Append(w, p) \in Seq(Packet)
    BY <1>9
  <2> QED BY <1>5, <1>6, <2>2, <2>3, InOrderNext
<1> QED BY <1>5, <1>6, <1>11, <1>12 DEF IInv

\* The flags shutdown and pending play no part in what waits.
LEMMA FlagsKeep ==
    ASSUME NEW o, WriteQueue(o)
    PROVE  /\ WriteQueue([o EXCEPT !.shutdown = TRUE])
           /\ Waiting([o EXCEPT !.shutdown = TRUE]) = Waiting(o)
           /\ [o EXCEPT !.shutdown = TRUE].size = o.size
           /\ [o EXCEPT !.shutdown = TRUE].isWriting = o.isWriting
           /\ [o EXCEPT !.shutdown = TRUE].pending = o.pending
           /\ WriteQueue([o EXCEPT !.pending = FALSE])
           /\ Waiting([o EXCEPT !.pending = FALSE]) = Waiting(o)
           /\ [o EXCEPT !.pending = FALSE].size = o.size
           /\ [o EXCEPT !.pending = FALSE].queue = o.queue
<1> DEFINE a == [o EXCEPT !.shutdown = TRUE]
           b == [o EXCEPT !.pending = FALSE]
<1>1. o \in OutRecord
  BY DEF WriteQueue
<1>2. /\ a \in OutRecord /\ a.queue = o.queue /\ a.size = o.size /\ a.isWriting = o.isWriting
      /\ a.pending = o.pending /\ a.taken = o.taken
  BY <1>1 DEF OutRecord
<1>3. /\ b \in OutRecord /\ b.queue = o.queue /\ b.size = o.size /\ b.isWriting = o.isWriting
      /\ ~ b.pending /\ b.taken = o.taken
  BY <1>1 DEF OutRecord
<1> HIDE DEF a, b
<1>4. WriteQueue(a) /\ Waiting(a) = Waiting(o)
  BY <1>2 DEF WriteQueue, Waiting
<1>5. WriteQueue(b) /\ Waiting(b) = Waiting(o)
  BY <1>3 DEF WriteQueue, Waiting
<1> QED BY <1>2, <1>3, <1>4, <1>5 DEF a, b

\* closeSocket() of another thread, at any point, and a reset keep the invariant.
LEMMA CloserStep ==
    ASSUME IInv, CloseExchange \/ CloseShutdown \/ PeerResets
    PROVE  IInv'
<1>0. WriteQueue(out) /\ out \in OutRecord
  BY DEF IInv, WriteQueue
<1>1. CASE CloseExchange
  <2>1. UNCHANGED <<m_packetQueue, inHand, accepted, m_sendQueueLimit, out, net, buff, packet,
                    reader, reads, reset, delivered>>
    BY <1>1 DEF CloseExchange, queueVars, mergeVars, readVars
  <2>2. m_isClosed' = TRUE /\ closer' \in {"done", "shutdown"}
    BY <1>1 DEF CloseExchange
  <2>3. TypeOK'
    BY <2>1, <2>2 DEF IInv, TypeOK
  <2>4. Serving'
    BY <2>1, <2>2 DEF IInv, Serving
  <2> QED BY <1>0, <2>1, <2>2, <2>3, <2>4, QuietStep
<1>2. CASE CloseShutdown
  <2>1. UNCHANGED <<m_packetQueue, inHand, accepted, m_isClosed, m_sendQueueLimit, net, buff,
                    packet, reader, reads, reset, delivered>>
    BY <1>2 DEF CloseShutdown, queueVars, mergeVars, readVars
  <2>2. out' = [out EXCEPT !.shutdown = TRUE] /\ closer' = "done"
    BY <1>2 DEF CloseShutdown
  <2>3. /\ WriteQueue(out') /\ Waiting(out') = Waiting(out) /\ out'.size = out.size
        /\ out'.isWriting = out.isWriting /\ out'.pending = out.pending
    BY <1>0, <2>2, FlagsKeep
  <2>4. out' \in OutRecord
    BY <2>3 DEF WriteQueue
  <2>5. TypeOK'
    BY <2>1, <2>2, <2>4 DEF IInv, TypeOK
  <2>6. Serving'
    BY <2>1, <2>3 DEF IInv, Serving
  <2> QED BY <2>1, <2>3, <2>5, <2>6, QuietStep
<1>3. CASE PeerResets
  <2>1. UNCHANGED <<m_packetQueue, inHand, accepted, m_isClosed, m_sendQueueLimit, out, net, buff,
                    packet, closer, reader, reads, delivered>>
    BY <1>3 DEF PeerResets, queueVars, mergeVars, readVars
  <2>2. reset' = TRUE
    BY <1>3 DEF PeerResets
  <2>3. TypeOK'
    BY <2>1, <2>2 DEF IInv, TypeOK
  <2>4. Serving'
    BY <2>1 DEF IInv, Serving
  <2> QED BY <1>0, <2>1, <2>3, <2>4, QuietStep
<1> QED BY <1>1, <1>2, <1>3

\* The read loop keeps the invariant, also when it lifts the limit of a game master.
LEMMA ReaderStep ==
    ASSUME IInv, AsyncRead \/ \E h \in BOOLEAN : HeaderRead(h) \/ BodyRead(h)
    PROVE  IInv'
<1>0. WriteQueue(out)
  BY DEF IInv
<1>1. UNCHANGED <<m_packetQueue, inHand, accepted, m_isClosed, out, net, buff, packet, closer,
                  reset, delivered>>
  BY DEF AsyncRead, HeaderRead, BodyRead, queueVars, mergeVars
<1>2. m_sendQueueLimit' \in {m_sendQueueLimit, SEND_QUEUE_UNLIMITED}
  BY DEF AsyncRead, HeaderRead, BodyRead
<1>3. reader' \in {"header", "body"}
  BY DEF AsyncRead, HeaderRead, BodyRead
<1>4. reads' \in 0 .. MaxReads
  <2>1. reads \in 0 .. MaxReads /\ MaxReads \in Nat
    BY LimitAssumption DEF IInv, TypeOK
  <2>2. CASE AsyncRead
    BY <2>1, <2>2 DEF AsyncRead
  <2>3. ASSUME NEW h \in BOOLEAN, HeaderRead(h) PROVE reads' \in 0 .. MaxReads
    <3>1. reads < MaxReads /\ reads' \in {reads, reads + 1}
      BY <2>3 DEF HeaderRead
    <3> QED BY <2>1, <3>1
  <2>4. ASSUME NEW h \in BOOLEAN, BodyRead(h) PROVE reads' \in 0 .. MaxReads
    <3>1. reads < MaxReads /\ reads' = reads + 1
      BY <2>4 DEF BodyRead, IInv, Serving
    <3> QED BY <2>1, <3>1
  <2> QED BY <2>2, <2>3, <2>4
<1>5. TypeOK'
  BY <1>1, <1>2, <1>3, <1>4 DEF IInv, TypeOK
<1>6. Serving'
  <2>1. reader' = "body" => reads' < MaxReads
    BY DEF AsyncRead, HeaderRead, BodyRead
  <2> QED BY <1>1, <1>3, <2>1 DEF IInv, Serving
<1> QED BY <1>0, <1>1, <1>2, <1>5, <1>6, QuietStep

\* A failed read or write, which closes the socket, keeps the invariant.
LEMMA FailedStep ==
    ASSUME IInv, ReadFailed \/ WriteFailed
    PROVE  IInv'
<1>0. WriteQueue(out)
  BY DEF IInv
<1>1. UNCHANGED <<m_packetQueue, inHand, accepted, m_sendQueueLimit, net, buff, packet, closer,
                  reads, reset, delivered>> /\ m_isClosed' = TRUE
  BY DEF ReadFailed, WriteFailed, queueVars, mergeVars, readVars
<1>2. /\ WriteQueue(out') /\ Waiting(out') = Waiting(out) /\ out'.size = out.size
  <2>1. CASE ReadFailed
    BY <1>0, <2>1, CloseKeeps DEF ReadFailed
  <2>2. CASE WriteFailed
    <3> DEFINE o == [out EXCEPT !.pending = FALSE]
    <3>1. WriteQueue(o) /\ Waiting(o) = Waiting(out) /\ o.size = out.size
      BY <1>0, FlagsKeep
    <3>2. out' = CloseSocket(o)
      BY <2>2 DEF WriteFailed
    <3> HIDE DEF o
    <3> QED BY <3>1, <3>2, CloseKeeps
  <2> QED BY <2>1, <2>2
<1>3. out' \in OutRecord
  BY <1>2 DEF WriteQueue
<1>4. reader' \in {reader, "stopped"}
  BY DEF ReadFailed, WriteFailed, readVars
<1>5. TypeOK'
  BY <1>1, <1>3, <1>4 DEF IInv, TypeOK
<1>6. Serving'
  BY <1>1, <1>4 DEF IInv, Serving
<1> QED BY <1>1, <1>2, <1>5, <1>6, QuietStep

\* The buffer update() starts with.
LEMMA EmptyIsBuffer == EmptyBuffer \in Buffer /\ EmptyBuffer.packets = <<>>
                       /\ EmptyBuffer.size = MESSAGE_BUFFER_SIZE
<1>1. MESSAGE_BUFFER_SIZE \in 0 .. UINT16_MAX
  BY DEF MESSAGE_BUFFER_SIZE, UINT16_MAX
<1>2. <<>> \in Seq(Packet)
  BY EmptySeq
<1> QED BY <1>1, <1>2 DEF EmptyBuffer, Buffer

\* The start of update() keeps the invariant.
LEMMA UpdateBeginStep ==
    ASSUME IInv, UpdateBegin
    PROVE  IInv'
<1>1. UNCHANGED <<m_packetQueue, inHand, accepted, m_isClosed, m_sendQueueLimit, out, packet,
                  closer, reader, reads, reset, delivered>>
  BY DEF UpdateBegin, queueVars, readVars
<1>2. net = "loop" /\ net' = "merge" /\ buff' = EmptyBuffer
  BY DEF UpdateBegin
<1>3. TypeOK'
  BY <1>1, <1>2, EmptyIsBuffer DEF IInv, TypeOK
<1>4. WriteQueue(out') /\ Serving' /\ Bounded'
  BY <1>1 DEF IInv, Serving, Bounded, Within
<1>5. Merging'
  BY <1>1, <1>2, EmptyIsBuffer DEF IInv, Merging
<1>6. Held' = Held /\ ToMerge' = ToMerge
  <2>1. buff'.packets = buff.packets
    BY <1>2, EmptyIsBuffer DEF IInv, Merging
  <2> QED BY <1>1, <2>1 DEF Held, ToMerge, InHand
<1>7. InOrder' /\ Complete'
  BY <1>1, <1>6 DEF IInv, InOrder, Complete
<1> QED BY <1>3, <1>4, <1>5, <1>7 DEF IInv

\* Taking the next packet from the queue keeps the invariant.
LEMMA MergeNextStep ==
    ASSUME IInv, MergeNext
    PROVE  IInv'
<1>1. UNCHANGED <<inHand, accepted, m_isClosed, m_sendQueueLimit, out, buff,
                  closer, reader, reads, reset, delivered>>
  BY DEF MergeNext, readVars
<1>2. /\ net = "merge" /\ net' = "taken" /\ m_packetQueue # <<>> /\ m_packetQueue \in Seq(Packet)
      /\ packet' = Head(m_packetQueue) /\ m_packetQueue' = Tail(m_packetQueue)
  BY DEF MergeNext, IInv, TypeOK
<1>3. packet' \in Packet /\ m_packetQueue' \in Seq(Packet)
  BY <1>2
<1>4. packet = NoPacket /\ packet' # NoPacket
  BY <1>2, <1>3, PacketAssumption DEF IInv, Merging
<1>5. TypeOK'
  BY <1>1, <1>2, <1>3 DEF IInv, TypeOK
<1>6. WriteQueue(out') /\ Serving' /\ Bounded'
  BY <1>1 DEF IInv, Serving, Bounded, Within
<1>7. Merging'
  BY <1>1, <1>2, <1>4 DEF IInv, Merging
<1>8. Held' = Held
  BY <1>1 DEF Held
<1>9. ToMerge' = ToMerge
  <2>1. ToMerge' = <<Head(m_packetQueue)>> \o Tail(m_packetQueue)
    BY <1>2, <1>4 DEF ToMerge, InHand
  <2>2. ToMerge = <<>> \o m_packetQueue
    BY <1>4 DEF ToMerge, InHand
  <2>3. <<Head(m_packetQueue)>> \o Tail(m_packetQueue) = <<>> \o m_packetQueue
    BY <1>2
  <2> QED BY <2>1, <2>2, <2>3
<1>10. InOrder' /\ Complete'
  BY <1>1, <1>8, <1>9 DEF IInv, InOrder, Complete
<1> QED BY <1>5, <1>6, <1>7, <1>10 DEF IInv

\* A buffer that is dropped when the socket closes cuts the stream.
LEMMA Cut ==
    ASSUME IInv, TypeOK', WriteQueue(out'), UNCHANGED <<delivered, accepted>>,
           Waiting(out') = Waiting(out), buff'.packets = <<>>
    PROVE  InOrder'
<1>1. PICK w \in Seq(Packet) : Held \o w = accepted
  BY InOrderIs DEF IInv
<1> DEFINE a == delivered \o Waiting(out)
           b == buff.packets
<1>2. a \in Seq(Packet) /\ b \in Seq(Packet)
  BY HeldType DEF IInv
<1>3. Held = a \o b /\ Held' = a \o <<>>
  BY DEF Held
<1> HIDE DEF a, b
<1>4. b \o w \in Seq(Packet) /\ Held' = a /\ (a \o b) \o w = a \o (b \o w)
  BY <1>2, <1>3, Regroup
<1>5. Held' \o (b \o w) = accepted'
  BY <1>1, <1>3, <1>4
<1> QED BY <1>4, <1>5, InOrderNext

\* update() returning on a socket closed meanwhile keeps the invariant.
LEMMA MergeClosedStep ==
    ASSUME IInv, MergeClosed
    PROVE  IInv'
<1>1. UNCHANGED <<m_packetQueue, inHand, accepted, m_isClosed, m_sendQueueLimit, out,
                  closer, reader, reads, reset, delivered>>
  BY DEF MergeClosed, queueVars, readVars
<1>2. m_isClosed /\ net' = "loop" /\ packet' = NoPacket /\ buff' = EmptyBuffer
  BY DEF MergeClosed
<1>3. TypeOK'
  BY <1>1, <1>2, EmptyIsBuffer DEF IInv, TypeOK
<1>4. WriteQueue(out') /\ Serving' /\ Bounded'
  BY <1>1 DEF IInv, Serving, Bounded, Within
<1>5. Merging'
  BY <1>2, EmptyIsBuffer DEF Merging
<1>6. InOrder'
  BY <1>1, <1>2, <1>3, <1>4, EmptyIsBuffer, Cut
<1>7. Complete'
  BY <1>1, <1>2 DEF Complete
<1> QED BY <1>3, <1>4, <1>5, <1>6, <1>7 DEF IInv

\* The write queue without its front buffer, and the next write started.
Done(o) == [o EXCEPT !.isWriting = FALSE, !.pending = FALSE,
                     !.size = @ - Head(o.queue).size, !.queue = Tail(@)]
Completed(o) == IF Done(o).queue # <<>> THEN ProcessWriteQueue(Done(o)) ELSE Done(o)

\* The completion handler removes a buffer of which nothing waits and writes the next one.
LEMMA CompletedKeeps ==
    ASSUME NEW o, WriteQueue(o), o.pending, o.taken = Len(Head(o.queue).packets)
    PROVE  /\ WriteQueue(Completed(o)) /\ Waiting(Completed(o)) = Waiting(o)
           /\ Completed(o).size <= o.size /\ Completed(o).size \in Nat
           /\ Completed(o).isWriting => Completed(o).pending
<1> DEFINE done == Done(o)
           c == Completed(o)
           q == Tail(o.queue)
           k == Head(o.queue).size
<1>1. o \in OutRecord /\ o.queue # <<>> /\ o.size = Total(Sizes(o.queue))
  BY DEF WriteQueue
<1>2. o.queue \in Seq(Buffer) /\ o.size \in Nat /\ o.taken \in Nat
  BY <1>1, OutFields
<1>3. q \in Seq(Buffer) /\ Head(o.queue) \in Buffer
  BY <1>1, <1>2
<1>4. k \in Nat
  BY <1>3, BufferFields
<1>5. o.size = k + Total(Sizes(q)) /\ Total(Sizes(q)) \in Nat
  <2>1. Sizes(o.queue) \in Seq(Nat) /\ Sizes(q) \in Seq(Nat)
    BY <1>2, <1>3, SizesType
  <2>2. Total(Sizes(o.queue)) = Head(Sizes(o.queue)) + Total(Tail(Sizes(o.queue)))
    BY <1>1, <1>2, <2>1, SizesTail, TotalTail
  <2>3. Head(Sizes(o.queue)) = k /\ Tail(Sizes(o.queue)) = Sizes(q)
    BY <1>1, <1>2, SizesTail
  <2>4. Total(Sizes(q)) \in Nat
    BY <2>1, TotalType
  <2> QED BY <1>1, <2>2, <2>3, <2>4
<1>6. o.size - k = Total(Sizes(q)) /\ o.size - k \in Nat
  BY <1>4, <1>5
<1>7. /\ done \in OutRecord /\ done.queue = q /\ done.size = o.size - k /\ ~ done.isWriting
      /\ ~ done.pending /\ done.taken = o.taken
  <2> DEFINE o1 == [o EXCEPT !.isWriting = FALSE]
             o2 == [o1 EXCEPT !.pending = FALSE]
             o3 == [o2 EXCEPT !.size = @ - Head(o.queue).size]
             o4 == [o3 EXCEPT !.queue = Tail(@)]
  <2>0. done = o4
    BY DEF Done
  <2>1. /\ o1 \in OutRecord /\ o1.queue = o.queue /\ o1.size = o.size /\ ~ o1.isWriting
        /\ o1.taken = o.taken
    BY <1>1 DEF OutRecord
  <2> HIDE DEF o1
  <2>2. /\ o2 \in OutRecord /\ o2.queue = o.queue /\ o2.size = o.size /\ ~ o2.isWriting
        /\ ~ o2.pending /\ o2.taken = o.taken
    BY <2>1 DEF OutRecord
  <2> HIDE DEF o2
  <2>3. o3 = [o2 EXCEPT !.size = o.size - k]
    BY <2>2
  <2> HIDE DEF o3
  <2>4. /\ o3 \in OutRecord /\ o3.queue = o.queue /\ o3.size = o.size - k /\ ~ o3.isWriting
        /\ ~ o3.pending /\ o3.taken = o.taken
    <3> HIDE DEF k
    <3> QED BY <1>6, <2>2, <2>3 DEF OutRecord
  <2>5. o4 = [o3 EXCEPT !.queue = q]
    BY <2>4
  <2> HIDE DEF o4, q, k
  <2> QED BY <1>3, <2>0, <2>4, <2>5 DEF OutRecord
<1> DEFINE f == FlattenSeq(Contents(q))
<1>8. Waiting(o) = f /\ f \in Seq(Packet)
  <2> DEFINE h == Head(o.queue).packets
  <2>1. /\ f \in Seq(Packet) /\ h \in Seq(Packet)
        /\ Waiting(o) = SubSeq(h, o.taken + 1, Len(h)) \o f
    BY <1>1, WaitingFront DEF WriteQueue
  <2> HIDE DEF h, f
  <2>2. SubSeq(h, o.taken + 1, Len(h)) = <<>>
    BY <1>2, <2>1, DropType DEF h
  <2> QED BY <2>1, <2>2, Regroup
<1>c. c = IF done.queue # <<>> THEN ProcessWriteQueue(done) ELSE done
  BY DEF Completed
<1> HIDE DEF q, k, c, done
<1>9. CASE q = <<>>
  <2>1. c = done
    BY <1>c, <1>7, <1>9
  <2>2. WriteQueue(c)
    BY <1>6, <1>7, <1>9, <2>1 DEF WriteQueue
  <2>3. Waiting(c) = <<>>
    BY <1>7, <1>9, <2>1, WaitingType
  <2>4. f = <<>>
    <3>1. Contents(q) \in Seq(Seq(Packet)) /\ Len(Contents(q)) = 0
      BY <1>3, <1>9, ContentsType
    <3>2. Contents(q) = <<>>
      BY <3>1, EmptySeq
    <3> QED BY <3>2, FlattenEmpty
  <2>5. c.size \in Nat /\ c.size <= o.size
    BY <1>2, <1>4, <1>6, <1>7, <2>1
  <2> QED BY <1>7, <1>8, <2>1, <2>2, <2>3, <2>4, <2>5 DEF c
<1>10. CASE q # <<>>
  <2>1. c = [done EXCEPT !.isWriting = TRUE, !.pending = TRUE, !.taken = 0]
    BY <1>c, <1>7, <1>10 DEF ProcessWriteQueue
  <2>2. /\ c \in OutRecord /\ c.queue = q /\ c.size = o.size - k /\ c.isWriting
        /\ c.pending /\ c.taken = 0
    <3> DEFINE c1 == [done EXCEPT !.isWriting = TRUE]
               c2 == [c1 EXCEPT !.pending = TRUE]
               c3 == [c2 EXCEPT !.taken = 0]
    <3>0. c = c3
      BY <2>1
    <3>1. c1 \in OutRecord /\ c1.queue = q /\ c1.size = o.size - k /\ c1.isWriting
      BY <1>7 DEF OutRecord
    <3> HIDE DEF c1
    <3>2. c2 \in OutRecord /\ c2.queue = q /\ c2.size = o.size - k /\ c2.isWriting /\ c2.pending
      BY <3>1 DEF OutRecord
    <3> HIDE DEF c2
    <3> QED BY <3>0, <3>2 DEF OutRecord
  <2>3. WriteQueue(c)
    <3>1. Head(q).packets \in Seq(Packet)
      BY <1>3, <1>10, BufferFields
    <3>2. Len(Head(q).packets) \in Nat
      BY <3>1
    <3>3. c.taken <= Len(Head(c.queue).packets)
      BY <2>2, <3>2
    <3> QED BY <1>6, <1>10, <2>2, <3>3 DEF WriteQueue
  <2>4. Waiting(c) = f
    <3>1. Waiting(c) = SubSeq(f, 0 + 1, Len(f))
      BY <2>2 DEF Waiting
    <3> HIDE DEF f
    <3> QED BY <1>8, <3>1, DropType
  <2>5. c.size \in Nat /\ c.size <= o.size
    BY <1>2, <1>4, <1>6, <2>2
  <2> QED BY <1>8, <2>2, <2>3, <2>4, <2>5 DEF c
<1> QED BY <1>9, <1>10 DEF c

\* The completion of a write keeps the invariant.
LEMMA WriteCompletedStep ==
    ASSUME IInv, WriteCompleted
    PROVE  IInv'
<1>1. UNCHANGED <<m_packetQueue, inHand, accepted, m_isClosed, m_sendQueueLimit, net, buff, packet,
                  closer, reader, reads, reset, delivered>>
  BY DEF WriteCompleted, queueVars, mergeVars, readVars
<1>2. /\ WriteQueue(out') /\ Waiting(out') = Waiting(out)
      /\ out'.size <= out.size /\ out'.size \in Nat
      /\ out'.isWriting => out'.pending
  <2>1. out' = Completed(out)
    BY DEF WriteCompleted, Completed, Done
  <2> QED BY <2>1, CompletedKeeps DEF IInv, WriteCompleted
<1>3. out' \in OutRecord
  BY <1>2 DEF WriteQueue
<1>4. TypeOK'
  BY <1>1, <1>3 DEF IInv, TypeOK
<1>5. Serving' /\ Merging'
  BY <1>1, <1>2 DEF IInv, Serving, Merging
<1>6. Bounded'
  <2>1. out.size \in Nat /\ LargestBuffer \in Nat /\ m_sendQueueLimit \in Nat
    BY OutFields, LargestIs, LimitAssumption DEF IInv, TypeOK, SEND_QUEUE_UNLIMITED
  <2> QED BY <1>1, <1>2, <2>1 DEF IInv, Bounded, Within
<1>7. InOrder' /\ Complete'
  BY <1>1, <1>2, SameStream
<1> QED BY <1>2, <1>4, <1>5, <1>6, <1>7 DEF IInv

\* Bytes the kernel takes move from what waits to what was delivered.
LEMMA KernelTakesStep ==
    ASSUME IInv, KernelTakes
    PROVE  IInv' /\ delivered \o Waiting(out) = delivered' \o Waiting(out')
<1> DEFINE h == Head(out.queue).packets
           t == FlattenSeq(Contents(Tail(out.queue)))
<1>1. UNCHANGED <<m_packetQueue, inHand, accepted, m_isClosed, m_sendQueueLimit, net, buff, packet,
                  closer, reader, reads, reset>>
  BY DEF KernelTakes, queueVars, mergeVars, readVars
<1>2. PICK n \in out.taken + 1 .. Len(h) :
          /\ out' = [out EXCEPT !.taken = n]
          /\ delivered' = delivered \o SubSeq(h, out.taken + 1, n)
  BY DEF KernelTakes
<1>3. /\ out \in OutRecord /\ out.queue # <<>> /\ out.taken <= Len(h) /\ out.pending
  BY DEF IInv, WriteQueue, KernelTakes
<1>4. /\ h \in Seq(Packet) /\ t \in Seq(Packet) /\ out.taken \in 0 .. Len(h)
      /\ Waiting(out) = SubSeq(h, out.taken + 1, Len(h)) \o t
  BY <1>3, WaitingFront
<1> HIDE DEF h, t
<1>5. n \in out.taken .. Len(h) /\ n \in Nat
  BY <1>2, <1>4, SMTT(30)
<1>6. /\ out' \in OutRecord /\ out'.queue = out.queue /\ out'.size = out.size /\ out'.taken = n
      /\ out'.isWriting = out.isWriting /\ out'.pending = out.pending
  BY <1>2, <1>3, <1>5 DEF OutRecord
<1>7. WriteQueue(out')
  BY <1>5, <1>6 DEF IInv, WriteQueue, h
<1>8. Waiting(out') = SubSeq(h, n + 1, Len(h)) \o t
  <2>1. out'.queue # <<>> /\ out'.taken <= Len(Head(out'.queue).packets)
    BY <1>3, <1>5, <1>6 DEF h
  <2>2. Waiting(out') = SubSeq(Head(out'.queue).packets, out'.taken + 1, Len(Head(out'.queue).packets))
                             \o FlattenSeq(Contents(Tail(out'.queue)))
    BY <1>6, <2>1, WaitingFront
  <2> QED BY <1>6, <2>2 DEF h, t
<1>9. delivered \in Seq(Packet) /\ accepted \in Seq(Packet)
  BY DEF IInv, TypeOK
<1> DEFINE x == SubSeq(h, out.taken + 1, n)
           y == SubSeq(h, n + 1, Len(h))
<1>10. /\ SubSeq(h, out.taken + 1, Len(h)) = x \o y
       /\ x \in Seq(Packet)
  BY <1>4, <1>5, DropMore
<1>11. y \in Seq(Packet)
  BY <1>4, <1>5, DropType
<1>12. delivered' = delivered \o x /\ Waiting(out') = y \o t /\ Waiting(out) = (x \o y) \o t
  BY <1>2, <1>4, <1>8, <1>10
<1> HIDE DEF x, y
<1>13. delivered' \in Seq(Packet)
  BY <1>9, <1>10, <1>12
<1>t. x \in Seq(Packet) /\ y \in Seq(Packet) /\ t \in Seq(Packet) /\ delivered \in Seq(Packet)
  BY <1>4, <1>9, <1>10, <1>11
<1>14. delivered \o ((x \o y) \o t) = (delivered \o x) \o (y \o t)
  <2>1. Cat(delivered, Cat(Cat(x, y), t)) = Cat(Cat(delivered, x), Cat(y, t))
    BY <1>t, RegroupFour
  <2> QED BY <2>1 DEF Cat
<1>15. delivered \o Waiting(out) = delivered' \o Waiting(out')
  BY <1>12, <1>14
<1>16. TypeOK'
  BY <1>1, <1>6, <1>13 DEF IInv, TypeOK
<1>17. Serving' /\ Bounded' /\ Merging'
  BY <1>1, <1>6 DEF IInv, Serving, Bounded, Within, Merging
<1>18. Held' = Held /\ ToMerge' = ToMerge
  BY <1>1, <1>15 DEF Held, ToMerge, InHand
<1>19. InOrder' /\ Complete'
  BY <1>1, <1>18 DEF IInv, InOrder, Complete
<1> QED BY <1>7, <1>15, <1>16, <1>17, <1>19 DEF IInv

\* A buffer added to a queue below the limit.
LEMMA Added ==
    ASSUME IInv, NEW o, WriteQueue(o), NEW b \in Buffer, b.size <= LargestBuffer, ~ IsFull(o),
           o.isWriting => o.pending
    PROVE  /\ WriteQueue(AddToWriteQueue(o, b))
           /\ Waiting(AddToWriteQueue(o, b)) = Waiting(o) \o b.packets
           /\ AddToWriteQueue(o, b).isWriting => AddToWriteQueue(o, b).pending
           /\ Within(AddToWriteQueue(o, b))
<1> DEFINE a == AddToWriteQueue(o, b)
<1>1. /\ WriteQueue(a) /\ Waiting(a) = Waiting(o) \o b.packets /\ a.size = o.size + b.size
      /\ a.pending
  BY AddKeeps
<1>2. o.size \in Nat /\ b.size \in Nat
  BY OutFields, BufferFields DEF WriteQueue
<1>3. m_sendQueueLimit \in Nat /\ LargestBuffer \in Nat
  BY LargestIs, LimitAssumption DEF IInv, TypeOK, SEND_QUEUE_UNLIMITED
<1> HIDE DEF a
<1>4. Within(a)
  BY <1>1, <1>2, <1>3 DEF Within, IsFull
<1> QED BY <1>1, <1>4 DEF a

\* A buffer refused by a full queue.
LEMMA Refused ==
    ASSUME NEW o, WriteQueue(o), NEW b, IsFull(o)
    PROVE  /\ AddToWriteQueue(o, b) = CloseSocket(o)
           /\ WriteQueue(AddToWriteQueue(o, b))
           /\ Waiting(AddToWriteQueue(o, b)) = Waiting(o)
           /\ AddToWriteQueue(o, b).size = o.size
           /\ IsFull(AddToWriteQueue(o, b))
<1>1. AddToWriteQueue(o, b) = CloseSocket(o)
  BY DEF AddToWriteQueue
<1>2. WriteQueue(CloseSocket(o)) /\ Waiting(CloseSocket(o)) = Waiting(o) /\ CloseSocket(o).size = o.size
  BY CloseKeeps
<1>3. IsFull(CloseSocket(o))
  BY <1>2 DEF IsFull
<1> QED BY <1>1, <1>2, <1>3

\* The end of update(), which writes or drops the last buffer, keeps the invariant.
LEMMA MergeEndStep ==
    ASSUME IInv, MergeEnd
    PROVE  IInv'
<1> DEFINE rest == ActiveSize(buff) > 0
<1>1. UNCHANGED <<m_packetQueue, inHand, accepted, m_sendQueueLimit, packet,
                  closer, reader, reads, reset, delivered>>
  BY DEF MergeEnd, queueVars, readVars
<1>2. net = "merge" /\ net' = "loop" /\ buff' = EmptyBuffer
  BY DEF MergeEnd
<1>3. /\ out' = IF rest THEN AddToWriteQueue(out, buff) ELSE out
      /\ m_isClosed' = (m_isClosed \/ (rest /\ IsFull(out)))
  BY DEF MergeEnd
<1>4. WriteQueue(out) /\ buff \in Buffer /\ m_isClosed \in BOOLEAN /\ buff.size <= LargestBuffer
  BY LargestIs DEF IInv, TypeOK, Merging
<1>5. /\ Waiting(out) \in Seq(Packet) /\ delivered \in Seq(Packet) /\ buff.packets \in Seq(Packet)
  BY HeldType DEF IInv
<1>6. rest \/ buff.packets = <<>>
  BY <1>5, ActiveIs
<1> HIDE DEF rest
<1>m. Merging'
  BY <1>1, <1>2, EmptyIsBuffer DEF IInv, Merging
<1>h. Held' = (delivered \o Waiting(out')) \o <<>> /\ ToMerge' = ToMerge
  BY <1>1, <1>2, EmptyIsBuffer DEF Held, ToMerge, InHand
<1>7. CASE ~ rest
  <2>1. out' = out /\ m_isClosed' = m_isClosed
    BY <1>3, <1>4, <1>7
  <2>2. TypeOK'
    BY <1>1, <1>2, <2>1, EmptyIsBuffer DEF IInv, TypeOK
  <2>3. WriteQueue(out') /\ Serving' /\ Bounded'
    BY <1>1, <2>1 DEF IInv, Serving, Bounded, Within
  <2>4. Held' = Held
    BY <1>h, <1>6, <1>7, <2>1 DEF Held
  <2>5. InOrder' /\ Complete'
    BY <1>1, <1>h, <2>1, <2>4 DEF IInv, InOrder, Complete
  <2> QED BY <1>m, <2>2, <2>3, <2>5 DEF IInv
<1>8. CASE rest /\ IsFull(out)
  <2>1. out' = AddToWriteQueue(out, buff) /\ m_isClosed' = TRUE
    BY <1>3, <1>8
  <2>2. WriteQueue(out') /\ Waiting(out') = Waiting(out) /\ out'.size = out.size
    BY <1>4, <1>8, <2>1, Refused
  <2>3. out' \in OutRecord
    BY <2>2 DEF WriteQueue
  <2>4. TypeOK'
    BY <1>1, <1>2, <2>1, <2>3, EmptyIsBuffer DEF IInv, TypeOK
  <2>5. Serving' /\ Bounded'
    BY <1>1, <2>1, <2>2 DEF IInv, Serving, Bounded, Within
  <2>6. InOrder'
    BY <1>1, <1>2, <2>2, <2>4, EmptyIsBuffer, Cut
  <2>7. Complete'
    BY <2>1 DEF Complete
  <2> QED BY <1>m, <2>2, <2>4, <2>5, <2>6, <2>7 DEF IInv
<1>9. CASE rest /\ ~ IsFull(out)
  <2>1. out' = AddToWriteQueue(out, buff) /\ m_isClosed' = m_isClosed
    BY <1>3, <1>4, <1>9
  <2>2. /\ WriteQueue(AddToWriteQueue(out, buff))
        /\ Waiting(AddToWriteQueue(out, buff)) = Waiting(out) \o buff.packets
        /\ AddToWriteQueue(out, buff).size = out.size + buff.size
        /\ (out.isWriting => out.pending) => AddToWriteQueue(out, buff).pending
    BY <1>4, <1>9, AddKeeps
  <2>3. out' \in OutRecord /\ WriteQueue(out') /\ Waiting(out') = Waiting(out) \o buff.packets
    BY <2>1, <2>2 DEF WriteQueue
  <2>4. TypeOK'
    BY <1>1, <1>2, <2>1, <2>3, EmptyIsBuffer DEF IInv, TypeOK
  <2>5. Serving'
    BY <1>1, <2>1, <2>2 DEF IInv, Serving
  <2>6. Bounded'
    <3>1. out.size \in Nat /\ buff.size \in Nat
      BY <1>4, OutFields, BufferFields DEF WriteQueue
    <3>2. m_sendQueueLimit \in Nat /\ LargestBuffer \in Nat
      BY LargestIs, LimitAssumption DEF IInv, TypeOK, SEND_QUEUE_UNLIMITED
    <3> QED BY <1>1, <1>4, <1>9, <2>1, <2>2, <3>1, <3>2 DEF Bounded, Within, IsFull
  <2>7. Held' = Held
    <3> DEFINE w == Waiting(out)
               b == buff.packets
    <3>0. w \in Seq(Packet) /\ b \in Seq(Packet) /\ delivered \in Seq(Packet)
      BY <1>5
    <3>1. Held = (delivered \o w) \o b /\ Held' = (delivered \o (w \o b)) \o <<>>
      BY <1>h, <2>3 DEF Held
    <3> HIDE DEF w, b
    <3>2. (delivered \o (w \o b)) \o <<>> = (delivered \o w) \o b
      <4>1. Cat(Cat(delivered, Cat(w, b)), <<>>) = Cat(Cat(delivered, w), b)
        BY <3>0, Moved
      <4> QED BY <4>1 DEF Cat
    <3> QED BY <3>1, <3>2
  <2>8. InOrder' /\ Complete'
    BY <1>1, <1>h, <2>1, <2>7 DEF IInv, InOrder, Complete
  <2> QED BY <1>m, <2>3, <2>4, <2>5, <2>6, <2>8 DEF IInv
<1> QED BY <1>7, <1>8, <1>9

\* Associativity alone, for contexts in which the other laws mislead the provers.
LEMMA Assoc ==
    ASSUME NEW a \in Seq(Packet), NEW b \in Seq(Packet), NEW c \in Seq(Packet)
    PROVE  (a \o b) \o c = a \o (b \o c)
OBVIOUS

\* A step of the merge that takes the packet on, or closes the socket and drops it.
LEMMA MergedStep ==
    ASSUME IInv, net = "taken", ~ m_isClosed, net' = "merge", packet' = NoPacket,
           UNCHANGED <<m_packetQueue, inHand, accepted, m_sendQueueLimit, closer, reader, reads,
                       reset, delivered>>,
           WriteQueue(out'), buff' \in Buffer, buff'.size = MESSAGE_BUFFER_SIZE,
           m_isClosed' \in BOOLEAN, Within(out'),
           ~ m_isClosed' => (out'.isWriting => out'.pending),
           m_isClosed' => Held' \in {Held, Held \o <<packet>>},
           ~ m_isClosed' => Held' = Held \o <<packet>>
    PROVE  IInv'
<1>1. out' \in OutRecord
  BY DEF WriteQueue
<1>2. TypeOK'
  BY <1>1 DEF IInv, TypeOK
<1>3. Serving' /\ Merging'
  BY DEF IInv, Serving, Merging
<1>4. Bounded'
  BY DEF Within, Bounded
<1>5. packet \in Packet /\ packet # NoPacket
  BY DEF IInv, TypeOK, Merging
<1>6. Held \in Seq(Packet) /\ m_packetQueue \in Seq(Packet) /\ <<packet>> \in Seq(Packet)
  BY <1>5, HeldType DEF IInv
<1>7. Held \o (<<packet>> \o m_packetQueue) = accepted
  BY <1>5 DEF IInv, Complete, ToMerge, InHand
<1>8. ToMerge' = m_packetQueue
  <2>1. ToMerge' = <<>> \o m_packetQueue
    BY DEF ToMerge, InHand
  <2> QED BY <1>6, <2>1
<1>9. (Held \o <<packet>>) \o m_packetQueue = accepted
  <2> DEFINE x == <<packet>>
             h == Held
  <2>1. h \in Seq(Packet) /\ x \in Seq(Packet) /\ m_packetQueue \in Seq(Packet)
    BY <1>6
  <2> HIDE DEF x, h
  <2>2. (h \o x) \o m_packetQueue = h \o (x \o m_packetQueue)
    BY <2>1, Assoc
  <2> QED BY <1>7, <2>2 DEF x, h
<1>10. Complete'
  BY <1>8, <1>9 DEF Complete
<1>11. InOrder'
  <2>1. CASE Held' = Held \o <<packet>>
    <3>1. Held' \o m_packetQueue = accepted'
      BY <1>9, <2>1
    <3> QED BY <1>2, <1>6, <3>1, InOrderNext
  <2>2. CASE Held' = Held
    <3>1. <<packet>> \o m_packetQueue \in Seq(Packet)
      BY <1>6
    <3>2. Held' \o (<<packet>> \o m_packetQueue) = accepted'
      BY <1>7, <2>2
    <3> QED BY <1>2, <3>1, <3>2, InOrderNext
  <2> QED BY <2>1, <2>2
<1> QED BY <1>2, <1>3, <1>4, <1>10, <1>11 DEF IInv

\* The packet goes into the buffer.
LEMMA PutIn ==
    ASSUME NEW b \in Buffer, b.size = MESSAGE_BUFFER_SIZE, NEW p \in Packet
    PROVE  /\ [b EXCEPT !.packets = Append(@, p)] \in Buffer
           /\ [b EXCEPT !.packets = Append(@, p)].size = MESSAGE_BUFFER_SIZE
           /\ [b EXCEPT !.packets = Append(@, p)].packets = b.packets \o <<p>>
<1>1. b.packets \in Seq(Packet)
  BY BufferFields
<1> DEFINE q == Append(b.packets, p)
<1>2. q \in Seq(Packet) /\ q = b.packets \o <<p>>
  BY <1>1
<1> HIDE DEF q
<1>3. [b EXCEPT !.packets = Append(@, p)] = [b EXCEPT !.packets = q]
  BY DEF q, Buffer
<1>4. [b EXCEPT !.packets = q] \in Buffer /\ [b EXCEPT !.packets = q].size = b.size
      /\ [b EXCEPT !.packets = q].packets = q
  BY <1>2 DEF Buffer
<1> QED BY <1>2, <1>3, <1>4

(***************************************************************************)
(* Merging one packet keeps the invariant: into the buffer, into a new      *)
(* buffer after the full one was written, or as a large packet, and in each *)
(* case when the write queue is full and the socket is closed instead.      *)
(***************************************************************************)
LEMMA MergePacketStep ==
    ASSUME IInv, MergePacket
    PROVE  IInv'
<1> DEFINE size == ByteSize[packet]
           flush == RemainingSpace(buff) < size /\ ActiveSize(buff) > 0
           flushed == IF flush THEN AddToWriteQueue(out, buff) ELSE out
           room == IF flush /\ ~IsFull(out) THEN EmptyBuffer ELSE buff
           fits == RemainingSpace(room) >= size
           large == [size |-> size, packets |-> <<packet>>]
<1>1. UNCHANGED <<m_packetQueue, inHand, accepted, m_sendQueueLimit, closer, reader, reads,
                  reset, delivered>>
  BY DEF MergePacket, queueVars, readVars
<1>2. net = "taken" /\ ~ m_isClosed /\ net' = "merge" /\ packet' = NoPacket
  BY DEF MergePacket
<1>3. /\ out' = IF fits THEN flushed ELSE AddToWriteQueue(flushed, large)
      /\ buff' = IF fits THEN [room EXCEPT !.packets = Append(@, packet)] ELSE room
      /\ m_isClosed' = ((flush /\ IsFull(out)) \/ (~fits /\ IsFull(flushed)))
  BY DEF MergePacket
<1>4. /\ WriteQueue(out) /\ buff \in Buffer /\ buff.size = MESSAGE_BUFFER_SIZE
      /\ buff.size <= LargestBuffer /\ Within(out) /\ (out.isWriting => out.pending)
  BY <1>2, LargestIs DEF IInv, TypeOK, Merging, Bounded, Within, Serving
<1>5. packet \in Packet
  BY <1>2 DEF IInv, TypeOK, Merging
<1>6. size \in 0 .. UINT16_MAX /\ size \in Nat /\ size <= LargestBuffer
  <2>1. UINT16_MAX \in Nat
    BY DEF UINT16_MAX
  <2> QED BY <1>5, <2>1, SizeAssumption, LargestIs
<1>7. large \in Buffer /\ large.size <= LargestBuffer /\ large.packets = <<packet>>
  BY <1>5, <1>6 DEF Buffer
<1>8. /\ Waiting(out) \in Seq(Packet) /\ delivered \in Seq(Packet) /\ buff.packets \in Seq(Packet)
      /\ <<packet>> \in Seq(Packet) /\ delivered \o Waiting(out) \in Seq(Packet)
  BY <1>5, HeldType DEF IInv
<1>9. ActiveSize(buff) \in Nat /\ (buff.packets # <<>> => ActiveSize(buff) > 0)
  BY <1>8, ActiveIs
<1>10. RemainingSpace(buff) \in Int
  <2>1. buff.size \in Nat
    BY <1>4, BufferFields
  <2> QED BY <1>9, <2>1 DEF RemainingSpace
<1> HIDE DEF size, large
<1> DEFINE d == delivered
           w == Waiting(out)
           b == buff.packets
           x == <<packet>>
<1>11. Held = (d \o w) \o b /\ Held' = (d \o Waiting(out')) \o buff'.packets
  BY <1>1 DEF Held
<1>s. d \in Seq(Packet) /\ w \in Seq(Packet) /\ b \in Seq(Packet) /\ x \in Seq(Packet)
  BY <1>8
<1>12. CASE flush /\ IsFull(out)
  <2>1. room = buff /\ ~ fits
    BY <1>6, <1>10, <1>12
  <2>2. flushed = AddToWriteQueue(out, buff)
    BY <1>12
  <2>3. /\ WriteQueue(flushed) /\ Waiting(flushed) = w /\ flushed.size = out.size /\ IsFull(flushed)
    BY <1>4, <1>12, <2>2, Refused
  <2>4. out' = AddToWriteQueue(flushed, large) /\ buff' = buff /\ m_isClosed' = TRUE
    BY <1>3, <1>12, <2>1
  <2> HIDE DEF flushed, room, fits, flush
  <2>5. WriteQueue(out') /\ Waiting(out') = w /\ out'.size = out.size
    BY <2>3, <2>4, Refused
  <2>6. Within(out')
    BY <1>4, <2>5 DEF Within
  <2>7. Held' = Held
    BY <1>11, <2>4, <2>5
  <2> QED BY <1>1, <1>2, <1>4, <2>4, <2>5, <2>6, <2>7, MergedStep
<1>13. CASE flush /\ ~ IsFull(out)
  <2>1. room = EmptyBuffer /\ flushed = AddToWriteQueue(out, buff)
    BY <1>13
  <2>2. /\ WriteQueue(flushed) /\ Waiting(flushed) = w \o b
        /\ (flushed.isWriting => flushed.pending) /\ Within(flushed)
    BY <1>4, <1>13, <2>1, Added
  <2>3. /\ out' = IF fits THEN flushed ELSE AddToWriteQueue(flushed, large)
        /\ buff' = IF fits THEN [EmptyBuffer EXCEPT !.packets = Append(@, packet)] ELSE EmptyBuffer
        /\ m_isClosed' = (~fits /\ IsFull(flushed))
    BY <1>3, <1>13, <2>1
  <2> HIDE DEF flushed, room, fits, flush
  <2>4. CASE fits
    <3>1. out' = flushed /\ ~ m_isClosed' /\ m_isClosed' \in BOOLEAN
          /\ buff' = [EmptyBuffer EXCEPT !.packets = Append(@, packet)]
      BY <2>3, <2>4
    <3>2. buff' \in Buffer /\ buff'.size = MESSAGE_BUFFER_SIZE /\ buff'.packets = <<>> \o x
      BY <1>5, <3>1, EmptyIsBuffer, PutIn
    <3>3. Held' = (d \o (w \o b)) \o (<<>> \o x)
      BY <1>11, <2>2, <3>1, <3>2
    <3>4. Held' = Held \o x
      <4> HIDE DEF d, w, b, x
      <4>1. (d \o (w \o b)) \o (<<>> \o x) = ((d \o w) \o b) \o x
        <5>1. Cat(Cat(d, Cat(w, b)), Cat(<<>>, x)) = Cat(Cat(Cat(d, w), b), x)
          BY <1>s, MovedBefore
        <5> QED BY <5>1 DEF Cat
      <4> QED BY <1>11, <3>3, <4>1
    <3> QED BY <1>1, <1>2, <2>2, <3>1, <3>2, <3>4, MergedStep
  <2>5. CASE ~ fits /\ IsFull(flushed)
    <3>1. out' = AddToWriteQueue(flushed, large) /\ m_isClosed' = TRUE /\ buff' = EmptyBuffer
      BY <2>3, <2>5
    <3>2. WriteQueue(out') /\ Waiting(out') = w \o b /\ out'.size = flushed.size
      BY <2>2, <2>5, <3>1, Refused
    <3>3. Within(out')
      BY <2>2, <3>2 DEF Within
    <3>4. Held' = (d \o (w \o b)) \o <<>>
      BY <1>11, <3>1, <3>2, EmptyIsBuffer
    <3>5. Held' = Held
      <4> HIDE DEF d, w, b, x
      <4>1. (d \o (w \o b)) \o <<>> = (d \o w) \o b
        <5>1. Cat(Cat(d, Cat(w, b)), <<>>) = Cat(Cat(d, w), b)
          BY <1>s, Moved
        <5> QED BY <5>1 DEF Cat
      <4> QED BY <1>11, <3>4, <4>1
    <3> QED BY <1>1, <1>2, <3>1, <3>2, <3>3, <3>5, EmptyIsBuffer, MergedStep
  <2>6. CASE ~ fits /\ ~ IsFull(flushed)
    <3>1. /\ out' = AddToWriteQueue(flushed, large) /\ ~ m_isClosed' /\ m_isClosed' \in BOOLEAN
          /\ buff' = EmptyBuffer
      BY <2>3, <2>6
    <3>2. /\ WriteQueue(out') /\ Waiting(out') = (w \o b) \o x
          /\ (out'.isWriting => out'.pending) /\ Within(AddToWriteQueue(flushed, large))
      BY <1>7, <2>2, <2>6, <3>1, Added
    <3>3. Within(out')
      BY <3>1, <3>2
    <3>4. Held' = (d \o Waiting(out')) \o <<>>
      BY <1>11, <3>1, EmptyIsBuffer
    <3>5. Held' = Held \o x
      <4> DEFINE h == Held
                 v == Waiting(out')
      <4>0. h = (d \o w) \o b /\ v = (w \o b) \o x
        BY <1>11, <3>2
      <4> HIDE DEF d, w, b, x, h, v
      <4>1. (d \o v) \o <<>> = h \o x
        <5>1. Cat(Cat(d, Cat(Cat(w, b), x)), <<>>) = Cat(Cat(Cat(d, w), b), x)
          BY <1>s, MovedBoth
        <5>2. (d \o ((w \o b) \o x)) \o <<>> = ((d \o w) \o b) \o x
          BY <5>1 DEF Cat
        <5> QED BY <4>0, <5>2
      <4> QED BY <3>4, <4>1 DEF h, v
    <3> QED BY <1>1, <1>2, <3>1, <3>2, <3>3, <3>5, EmptyIsBuffer, MergedStep
  <2> QED BY <2>4, <2>5, <2>6
<1>14. CASE ~ flush
  <2>1. room = buff /\ flushed = out
    BY <1>14
  <2>2. /\ out' = IF fits THEN out ELSE AddToWriteQueue(out, large)
        /\ buff' = IF fits THEN [buff EXCEPT !.packets = Append(@, packet)] ELSE buff
        /\ m_isClosed' = (~fits /\ IsFull(out))
    BY <1>3, <1>14, <2>1
  <2>3. fits \/ buff.packets = <<>>
    BY <1>6, <1>9, <1>10, <1>14, <2>1
  <2> HIDE DEF flushed, room, fits, flush
  <2>4. CASE fits
    <3>1. out' = out /\ ~ m_isClosed' /\ m_isClosed' \in BOOLEAN
          /\ buff' = [buff EXCEPT !.packets = Append(@, packet)]
      BY <2>2, <2>4
    <3>2. buff' \in Buffer /\ buff'.size = MESSAGE_BUFFER_SIZE /\ buff'.packets = b \o x
      BY <1>4, <1>5, <3>1, PutIn
    <3>3. Held' = (d \o w) \o (b \o x)
      BY <1>11, <3>1, <3>2
    <3>4. Held' = Held \o x
      <4>0. d \o w \in Seq(Packet)
        BY <1>8
      <4> HIDE DEF d, w, b, x
      <4>1. (d \o w) \o (b \o x) = ((d \o w) \o b) \o x
        <5> DEFINE v == d \o w
        <5>1. v \in Seq(Packet)
          BY <4>0
        <5> HIDE DEF v
        <5>2. (v \o b) \o x = v \o (b \o x)
          BY <1>s, <5>1, Assoc
        <5> QED BY <5>2 DEF v
      <4> QED BY <1>11, <3>3, <4>1
    <3> QED BY <1>1, <1>2, <1>4, <3>1, <3>2, <3>4, MergedStep
  <2>5. CASE ~ fits /\ IsFull(out)
    <3>1. out' = AddToWriteQueue(out, large) /\ m_isClosed' = TRUE /\ buff' = buff
      BY <2>2, <2>5
    <3>2. WriteQueue(out') /\ Waiting(out') = w /\ out'.size = out.size
      BY <1>4, <2>5, <3>1, Refused
    <3>3. Within(out')
      BY <1>4, <3>2 DEF Within
    <3>4. Held' = Held
      BY <1>11, <3>1, <3>2
    <3> QED BY <1>1, <1>2, <1>4, <3>1, <3>2, <3>3, <3>4, MergedStep
  <2>6. CASE ~ fits /\ ~ IsFull(out)
    <3>1. /\ out' = AddToWriteQueue(out, large) /\ ~ m_isClosed' /\ m_isClosed' \in BOOLEAN
          /\ buff' = buff
      BY <2>2, <2>6
    <3>2. /\ WriteQueue(out') /\ Waiting(out') = w \o x
          /\ (out'.isWriting => out'.pending) /\ Within(AddToWriteQueue(out, large))
      BY <1>4, <1>7, <2>6, <3>1, Added
    <3>3. Within(out')
      BY <3>1, <3>2
    <3>4. b = <<>> /\ Held' = (d \o (w \o x)) \o b
      BY <1>11, <2>3, <2>6, <3>1, <3>2
    <3>5. Held' = Held \o x
      <4> HIDE DEF d, w, b, x
      <4>1. (d \o (w \o x)) \o <<>> = ((d \o w) \o <<>>) \o x
        <5>1. Cat(Cat(d, Cat(w, x)), <<>>) = Cat(Cat(Cat(d, w), <<>>), x)
          BY <1>s, MovedAlone
        <5> QED BY <5>1 DEF Cat
      <4> QED BY <1>11, <3>4, <4>1
    <3> QED BY <1>1, <1>2, <1>4, <3>1, <3>2, <3>3, <3>5, MergedStep
  <2> QED BY <2>4, <2>5, <2>6
<1> QED BY <1>12, <1>13, <1>14

\* Every step keeps the invariant.
LEMMA StepKeeps == IInv /\ [Next]_vars => IInv'
<1> SUFFICES ASSUME IInv, [Next]_vars PROVE IInv'
  OBVIOUS
<1>1. ASSUME NEW s \in Sender, QueueAdd(s) PROVE IInv'
  BY <1>1, QueueAddStep
<1>2. ASSUME NEW s \in Sender, NEW p \in Packet, QueueTest(s, p) PROVE IInv'
  BY <1>2, QueueTestStep
<1>3. CASE CloseExchange \/ CloseShutdown \/ PeerResets
  BY <1>3, CloserStep
<1>4. CASE AsyncRead \/ \E h \in BOOLEAN : HeaderRead(h) \/ BodyRead(h)
  BY <1>4, ReaderStep
<1>5. CASE ReadFailed \/ WriteFailed
  BY <1>5, FailedStep
<1>6. CASE UpdateBegin
  BY <1>6, UpdateBeginStep
<1>7. CASE MergeNext
  BY <1>7, MergeNextStep
<1>8. CASE MergeClosed
  BY <1>8, MergeClosedStep
<1>9. CASE MergePacket
  BY <1>9, MergePacketStep
<1>10. CASE MergeEnd
  BY <1>10, MergeEndStep
<1>11. CASE WriteCompleted
  BY <1>11, WriteCompletedStep
<1>12. CASE KernelTakes
  BY <1>12, KernelTakesStep
<1>13. CASE UNCHANGED vars
  <2>1. UNCHANGED <<m_packetQueue, m_isClosed, m_sendQueueLimit, out, net, buff, packet, inHand,
                    closer, reader, reads, reset, accepted, delivered>>
    BY <1>13 DEF vars
  <2>2. TypeOK'
    BY <2>1 DEF IInv, TypeOK
  <2>3. Serving'
    BY <2>1 DEF IInv, Serving
  <2>4. WriteQueue(out')
    BY <2>1 DEF IInv
  <2> QED BY <2>1, <2>2, <2>3, <2>4, QuietStep
<1> QED BY <1>1, <1>2, <1>3, <1>4, <1>5, <1>6, <1>7, <1>8, <1>9, <1>10, <1>11, <1>12, <1>13
        DEF Next, NetworkThread

-----------------------------------------------------------------------------
(***************************************************************************)
(* The theorems.                                                            *)
(***************************************************************************)

\* The invariant holds in every state of every behaviour.
THEOREM InductiveInvariant == Spec => []IInv
BY InitHolds, StepKeeps, PTL DEF Spec

(***************************************************************************)
(* Every variable keeps its type; in particular m_writeQueueSize is never   *)
(* decremented below zero by the completion handler of async_write.         *)
(***************************************************************************)
THEOREM TypeCorrect == Spec => []TypeOK
<1>1. IInv => TypeOK
  BY DEF IInv
<1> QED BY <1>1, InductiveInvariant, PTL

(***************************************************************************)
(* An open socket always has its read armed, and a write under way exactly  *)
(* when the write queue has a buffer, which stays the front of the queue    *)
(* until its handler ran (processWriteQueue).                               *)
(***************************************************************************)
THEOREM ServedCorrect == Spec => []OpenIsServed
<1>1. IInv => OpenIsServed
  <2> SUFFICES ASSUME IInv PROVE OpenIsServed
    OBVIOUS
  <2>1. out.isWriting \in BOOLEAN /\ out.pending \in BOOLEAN
    BY OutFields DEF IInv, TypeOK
  <2>2. out.pending => out.queue # <<>> /\ out.taken <= Len(Head(out.queue).packets)
    BY DEF IInv, WriteQueue
  <2>3. ~ m_isClosed => reader # "stopped"
    BY DEF IInv, Serving
  <2>4. out.isWriting <=> out.queue # <<>>
    BY DEF IInv, WriteQueue
  <2>5. ~ m_isClosed => (out.pending <=> out.isWriting)
    BY DEF IInv, WriteQueue, Serving
  <2> QED BY <2>2, <2>3, <2>4, <2>5 DEF OpenIsServed
<1> QED BY <1>1, InductiveInvariant, PTL

(***************************************************************************)
(* m_writeQueueSize is the total of the queued buffers and stays below the  *)
(* limit plus one buffer (addToWriteQueue), for any packets and any limit.  *)
(***************************************************************************)
THEOREM BoundCorrect == Spec => []QueueBounded
<1>1. IInv => QueueBounded
  BY DEF IInv, WriteQueue, Bounded, Within, QueueBounded, Sizes
<1> QED BY <1>1, InductiveInvariant, PTL

\* The part of a buffer the kernel takes in one step is not empty.
LEMMA PartTaken ==
    ASSUME NEW h \in Seq(Packet), NEW k \in 0 .. Len(h), NEW n \in k + 1 .. Len(h)
    PROVE  SubSeq(h, k + 1, n) \in Seq(Packet) /\ Len(SubSeq(h, k + 1, n)) = n - k
<1>1. k \in Nat /\ n \in Nat /\ n > k /\ n <= Len(h) /\ Len(h) \in Nat
  OBVIOUS
<1>2. \A i \in k + 1 .. n : i \in 1 .. Len(h)
  BY <1>1
<1>3. k + 1 \in Int /\ n \in Int
  BY <1>1
<1>4. SubSeq(h, k + 1, n) \in Seq(Packet)
  BY <1>1, <1>2, <1>3
<1>5. Len(SubSeq(h, k + 1, n)) = n - k
  BY <1>1, <1>2, <1>3
<1> QED BY <1>4, <1>5

(***************************************************************************)
(* While the socket is open no packet is lost, duplicated or reordered by   *)
(* update(), partial writes and the completion handlers, for any number of  *)
(* senders, any packets of any size and any limit of the queue.             *)
(***************************************************************************)
THEOREM StreamCorrect == Spec => []NothingLost
<1>1. IInv => NothingLost
  <2> SUFFICES ASSUME IInv, ~ m_isClosed PROVE delivered \o InFlight = accepted
    BY DEF NothingLost
  <2> DEFINE d == delivered
             w == Waiting(out)
             b == buff.packets
             x == InHand
             q == m_packetQueue
  <2>1. d \in Seq(Packet) /\ w \in Seq(Packet) /\ b \in Seq(Packet) /\ x \in Seq(Packet)
        /\ q \in Seq(Packet)
    BY HeldType DEF IInv
  <2>2. InFlight = ((w \o b) \o x) \o q
    BY DEF InFlight, Waiting, Contents, InHand
  <2>3. ((d \o w) \o b) \o (x \o q) = accepted
    BY DEF IInv, Complete, Held, ToMerge
  <2> HIDE DEF d, w, b, x, q
  <2>4. d \o (((w \o b) \o x) \o q) = ((d \o w) \o b) \o (x \o q)
    <3>1. Cat(d, Cat(Cat(Cat(w, b), x), q)) = Cat(Cat(Cat(d, w), b), Cat(x, q))
      BY <2>1, StreamRegrouped
    <3> QED BY <3>1 DEF Cat
  <2>5. d \o InFlight = accepted
    BY <2>2, <2>3, <2>4
  <2> QED BY <2>5 DEF d
<1> QED BY <1>1, InductiveInvariant, PTL

\* What the kernel took is a prefix of what was queued, also after a step.
LEMMA DeliveredNext ==
    ASSUME IInv'
    PROVE  \E n \in 0 .. Len(accepted') : delivered' = SubSeq(accepted', 1, n)
<1> DEFINE d == delivered'
           a == accepted'
           w == Waiting(out')
           b == buff'.packets
           h == Held'
<1>1. d \in Seq(Packet) /\ a \in Seq(Packet) /\ out' \in OutRecord /\ buff' \in Buffer
  BY DEF IInv, TypeOK
<1>2. w \in Seq(Packet) /\ b \in Seq(Packet)
  BY <1>1, WaitingType, BufferFields
<1>3. h = (d \o w) \o b
  BY DEF Held
<1>4. \E n \in 0 .. Len(a) : h = SubSeq(a, 1, n)
  BY DEF IInv, InOrder
<1> HIDE DEF d, a, w, b, h
<1>5. h = Cat(d, Cat(w, b)) /\ Cat(w, b) \in Seq(Packet) /\ h \in Seq(Packet)
  <2>1. h = Cat(Cat(d, w), b)
    BY <1>3 DEF Cat
  <2>2. Cat(Cat(d, w), b) = Cat(d, Cat(w, b)) /\ Cat(w, b) \in Seq(Packet)
    BY <1>1, <1>2, CatLaws
  <2>3. Cat(d, Cat(w, b)) \in Seq(Packet)
    BY <1>1, <2>2, CatLaws
  <2> QED BY <2>1, <2>2, <2>3
<1>6. PICK v \in Seq(Packet) : h \o v = a
  BY <1>1, <1>4, <1>5, PrefixIs
<1>7. Cat(h, v) = Cat(d, Cat(Cat(w, b), v)) /\ Cat(Cat(w, b), v) \in Seq(Packet)
  BY <1>1, <1>5, CatLaws
<1>8. \E x \in Seq(Packet) : d \o x = a
  <2> DEFINE x == Cat(Cat(w, b), v)
  <2>1. x \in Seq(Packet) /\ Cat(d, x) = Cat(h, v)
    BY <1>7
  <2> HIDE DEF x
  <2>2. d \o x = a
    BY <1>6, <2>1 DEF Cat
  <2> QED BY <2>1, <2>2
<1>9. \E n \in 0 .. Len(a) : d = SubSeq(a, 1, n)
  BY <1>1, <1>8, PrefixIs, ZenonT(40)
<1> QED BY <1>9 DEF d, a

\* Every step of the socket is a step of the channel or leaves it alone.
LEMMA ChannelStep == IInv /\ IInv' /\ [Next]_vars => [Channel!Next]_(Channel!vars)
<1> SUFFICES ASSUME IInv, IInv', [Next]_vars PROVE [Channel!Next]_(Channel!vars)
  OBVIOUS
<1> USE DEF Channel!Next, Channel!vars
<1>1. ASSUME NEW s \in Sender, QueueAdd(s) PROVE [Channel!Next]_(Channel!vars)
  <2>1. inHand[s] \in Packet /\ accepted' = Append(accepted, inHand[s])
        /\ UNCHANGED <<delivered, m_isClosed>>
    BY <1>1 DEF QueueAdd, IInv, TypeOK
  <2>2. Channel!Send(inHand[s])
    BY <2>1 DEF Channel!Send
  <2> QED BY <2>1, <2>2
<1>2. CASE KernelTakes
  <2>1. UNCHANGED <<accepted, m_isClosed>>
    BY <1>2 DEF KernelTakes, queueVars
  <2>2. PICK n \in out.taken + 1 .. Len(Head(out.queue).packets) :
          /\ out' = [out EXCEPT !.taken = n]
          /\ delivered' = delivered \o SubSeq(Head(out.queue).packets, out.taken + 1, n)
    BY <1>2 DEF KernelTakes
  <2>3. Len(delivered') > Len(delivered) /\ Len(delivered) \in Nat /\ Len(delivered') \in Nat
    <3> DEFINE h == Head(out.queue).packets
               x == SubSeq(h, out.taken + 1, n)
    <3>1. h \in Seq(Packet) /\ out.taken \in 0 .. Len(h)
      BY <1>2, WaitingFront DEF IInv, WriteQueue, KernelTakes
    <3>2. x \in Seq(Packet) /\ Len(x) > 0 /\ Len(x) \in Nat
      <4>1. n \in out.taken + 1 .. Len(h)
        BY <2>2
      <4> HIDE DEF h
      <4>2. x \in Seq(Packet) /\ Len(x) = n - out.taken
        BY <3>1, <4>1, PartTaken
      <4>3. n - out.taken > 0 /\ n - out.taken \in Nat
        BY <3>1, <4>1
      <4> QED BY <4>2, <4>3
    <3>3. delivered' = delivered \o x /\ delivered \in Seq(Packet)
      BY <2>2 DEF IInv, TypeOK
    <3> HIDE DEF x
    <3>4. Len(delivered') = Len(delivered) + Len(x)
      BY <3>2, <3>3
    <3> QED BY <3>2, <3>3, <3>4
  <2>4. \E n1 \in 0 .. Len(accepted') : delivered' = SubSeq(accepted', 1, n1)
    BY DeliveredNext
  <2>5. PICK k \in 0 .. Len(accepted) : delivered' = SubSeq(accepted, 1, k)
    BY <2>1, <2>4
  <2>6. k = Len(delivered')
    <3>1. accepted \in Seq(Packet)
      BY DEF IInv, TypeOK
    <3> QED BY <2>5, <3>1
  <2>7. k \in Len(delivered) + 1 .. Len(accepted)
    BY <2>3, <2>5, <2>6
  <2>8. Channel!Deliver
    BY <2>1, <2>5, <2>7 DEF Channel!Deliver
  <2> QED BY <2>8
<1>3. ASSUME UNCHANGED <<accepted, delivered>>, m_isClosed => m_isClosed'
      PROVE  [Channel!Next]_(Channel!vars)
  <2>1. m_isClosed \in BOOLEAN /\ m_isClosed' \in BOOLEAN
    BY DEF IInv, TypeOK
  <2>2. CASE m_isClosed' = m_isClosed
    BY <1>3, <2>2
  <2>3. CASE m_isClosed' # m_isClosed
    <3>1. ~ m_isClosed /\ m_isClosed' = TRUE
      BY <1>3, <2>1, <2>3
    <3>2. Channel!Break
      BY <1>3, <3>1 DEF Channel!Break
    <3> QED BY <3>2
  <2> QED BY <2>2, <2>3
<1>4. ASSUME NEW s \in Sender, NEW p \in Packet, QueueTest(s, p)
      PROVE  UNCHANGED <<accepted, delivered>> /\ (m_isClosed => m_isClosed')
  BY <1>4 DEF QueueTest
<1>5. CASE CloseExchange \/ CloseShutdown \/ PeerResets
  <2>1. UNCHANGED <<accepted, delivered>> /\ (m_isClosed => m_isClosed')
    BY <1>5 DEF CloseExchange, CloseShutdown, PeerResets, queueVars
  <2> QED BY <2>1, <1>3
<1>6. CASE NetworkThread
  <2> DEFINE Quiet == UNCHANGED <<accepted, delivered>> /\ (m_isClosed => m_isClosed')
  <2>1. ASSUME UpdateBegin PROVE Quiet
    BY <2>1 DEF UpdateBegin, queueVars
  <2>2. ASSUME MergeNext PROVE Quiet
    BY <2>2 DEF MergeNext, queueVars
  <2>3. ASSUME MergeClosed PROVE Quiet
    BY <2>3 DEF MergeClosed, queueVars
  <2>4. ASSUME MergePacket PROVE Quiet
    BY <2>4 DEF MergePacket, queueVars
  <2>5. ASSUME MergeEnd PROVE Quiet
    BY <2>5 DEF MergeEnd, queueVars
  <2>6. ASSUME WriteCompleted PROVE Quiet
    BY <2>6 DEF WriteCompleted, queueVars
  <2>7. ASSUME WriteFailed PROVE Quiet
    BY <2>7 DEF WriteFailed, queueVars
  <2>8. ASSUME AsyncRead PROVE Quiet
    BY <2>8 DEF AsyncRead, queueVars
  <2>9. ASSUME ReadFailed PROVE Quiet
    BY <2>9 DEF ReadFailed, queueVars
  <2>10. ASSUME NEW b \in BOOLEAN, HeaderRead(b) PROVE Quiet
    BY <2>10 DEF HeaderRead, queueVars
  <2>11. ASSUME NEW b \in BOOLEAN, BodyRead(b) PROVE Quiet
    BY <2>11 DEF BodyRead, queueVars
  <2> HIDE DEF Quiet
  <2>12. Quiet
    BY <1>6, <2>1, <2>2, <2>3, <2>4, <2>5, <2>6, <2>7, <2>8, <2>9, <2>10, <2>11 DEF NetworkThread
  <2>13. UNCHANGED <<accepted, delivered>> /\ (m_isClosed => m_isClosed')
    BY <2>12 DEF Quiet
  <2> QED BY <2>13, <1>3
<1>7. CASE UNCHANGED vars
  <2>1. UNCHANGED <<accepted, delivered>> /\ (m_isClosed => m_isClosed')
    BY <1>7 DEF vars
  <2> QED BY <2>1, <1>3
<1> QED BY <1>1, <1>2, <1>3, <1>4, <1>5, <1>6, <1>7 DEF Next

(***************************************************************************)
(* The socket implements the channel its users see: what the kernel takes   *)
(* is a growing prefix of what was queued, before and after the socket is   *)
(* closed by either side.                                                   *)
(***************************************************************************)
THEOREM Refinement == Spec => ImplementsChannel
<1>1. Init => Channel!Init
  BY DEF Init, Channel!Init
<1> QED BY <1>1, ChannelStep, InductiveInvariant, PTL DEF Spec, ImplementsChannel, Channel!Spec
=============================================================================
