-------------------------- MODULE FamilyGraphProofs --------------------------
(***************************************************************************)
(* Proofs about CausalGraph, for every finite graph, and about FamilyGraph *)
(* and VaultDelivery, for every set of replicas, processes, names and      *)
(* operations, any number of commands open at once and every bound on the  *)
(* events and entries.                                                     *)
(***************************************************************************)
EXTENDS FamilyGraph, TLAPS, SequenceTheorems, FiniteSetTheorems, WellFoundedInduction

-------------------------------------------------------------------------------
(* Induction and recursion over the naturals, for sets and functions.      *)

(* A set that holds 0 and the successor of each of its naturals holds all. *)
LEMMA SetInduction ==
  ASSUME NEW S, 0 \in S, \A n \in Nat : n \in S => n + 1 \in S
  PROVE  Nat \subseteq S
<1> DEFINE T == Nat \ S
           R == {ss \in Nat \X Nat : ss[1] < ss[2]}
<1> SUFFICES ASSUME T # {} PROVE FALSE
  OBVIOUS
<1>1. IsWellFoundedOn(R, Nat)
  BY NatLessThanWellFounded DEF OpToRel
<1>2. PICK x \in T : \A y \in T : ~ (<<y, x>> \in R)
  <2>1. T \subseteq Nat
    OBVIOUS
  <2> HIDE DEF T, R
  <2> QED
    BY <1>1, <2>1, WFMin
<1>3. \A y \in T : ~ (y < x)
  BY <1>2
<1>4. x # 0 /\ x - 1 \in Nat /\ x - 1 < x
  OBVIOUS
<1> QED
  BY <1>3, <1>4

(* Starting from a and repeating a step defines one function.              *)
LEMMA Iteration ==
  ASSUME NEW V, NEW a \in V, NEW step \in [V -> V]
  PROVE  \E g \in [Nat -> V] :
           g[0] = a /\ \A n \in Nat : g[n + 1] = step[g[n]]
<1> DEFINE Upto(n, g) == /\ g \in [0 .. n -> V] /\ g[0] = a
                         /\ \A i \in 0 .. n - 1 : g[i + 1] = step[g[i]]
           S == {n \in Nat : \E g \in [0 .. n -> V] : Upto(n, g)}
<1>1. Nat \subseteq S
  <2>1. 0 \in S
    <3>1. Upto(0, [i \in 0 .. 0 |-> a])
      OBVIOUS
    <3> QED
      BY <3>1
  <2>2. ASSUME NEW n \in Nat, n \in S
        PROVE  n + 1 \in S
    <3>1. PICK g \in [0 .. n -> V] : Upto(n, g)
      BY <2>2
    <3> DEFINE h == [i \in 0 .. n + 1 |-> IF i <= n THEN g[i] ELSE step[g[n]]]
    <3>2. h \in [0 .. n + 1 -> V]
      OBVIOUS
    <3>3. h[0] = a
      BY <3>1
    <3>4. ASSUME NEW i \in 0 .. n
          PROVE  h[i + 1] = step[h[i]]
      <4>1. CASE i = n
        BY <4>1
      <4>2. CASE i < n
        <5>1. i \in 0 .. n - 1 /\ i + 1 <= n
          BY <4>2
        <5> QED
          BY <5>1, <3>1
      <4> QED
        BY <4>1, <4>2
    <3>5. Upto(n + 1, h)
      BY <3>2, <3>3, <3>4
    <3> QED
      BY <3>2, <3>5
  <2> HIDE DEF S
  <2> QED
    BY <2>1, <2>2, SetInduction
<1>2. PICK G : \A n \in Nat : Upto(n, G[n])
  <2>1. \A n \in Nat : \E g \in [0 .. n -> V] : Upto(n, g)
    BY <1>1
  <2> DEFINE H == [n \in Nat |-> CHOOSE g \in [0 .. n -> V] : Upto(n, g)]
  <2> HIDE DEF Upto
  <2>2. \A n \in Nat : Upto(n, H[n])
    BY <2>1
  <2> QED
    BY <2>2
<1> DEFINE f == [n \in Nat |-> G[n][n]]
<1>3. ASSUME NEW n \in Nat
      PROVE  G[n + 1][n] = G[n][n]
  <2> DEFINE Agree == {i \in Nat : i <= n => G[n + 1][i] = G[n][i]}
  <2>1. 0 \in Agree
    BY <1>2
  <2>2. ASSUME NEW i \in Nat, i \in Agree
        PROVE  i + 1 \in Agree
    <3> SUFFICES ASSUME i + 1 <= n
                 PROVE  G[n + 1][i + 1] = G[n][i + 1]
      OBVIOUS
    <3>1. i \in 0 .. n - 1 /\ i \in 0 .. (n + 1) - 1 /\ i <= n
      OBVIOUS
    <3>2. G[n][i + 1] = step[G[n][i]]
      BY <3>1, <1>2
    <3>3. G[n + 1][i + 1] = step[G[n + 1][i]]
      BY <3>1, <1>2
    <3> QED
      BY <3>1, <3>2, <3>3, <2>2
  <2>3. Nat \subseteq Agree
    <3> HIDE DEF Agree
    <3> QED
      BY <2>1, <2>2, SetInduction
  <2> QED
    BY <2>3
<1>4. f \in [Nat -> V]
  BY <1>2
<1>5. f[0] = a
  BY <1>2
<1>6. \A n \in Nat : f[n + 1] = step[f[n]]
  <2> TAKE n \in Nat
  <2>1. n \in 0 .. (n + 1) - 1
    OBVIOUS
  <2>2. G[n + 1][n + 1] = step[G[n + 1][n]]
    BY <2>1, <1>2
  <2> QED
    BY <2>2, <1>3
<1> QED
  BY <1>4, <1>5, <1>6

-------------------------------------------------------------------------------
(* Causality.                                                              *)

(* One round of Past: what follows from the sets found so far.             *)
Wider(ev, s) ==
  [i \in DOMAIN ev |-> s[i] \cup UNION {s[p] : p \in s[i] \cap DOMAIN ev}]

Parents(ev) == [i \in DOMAIN ev |-> ev[i].parents]

(* A finite set of events with their parents in U.                         *)
EventsOver(ev, U) ==
  IsFiniteSet(DOMAIN ev) /\ \A i \in DOMAIN ev : ev[i].parents \subseteq U

LEMMA PastStages ==
  ASSUME NEW ev, NEW U, EventsOver(ev, U)
  PROVE  \E up \in [Nat -> [DOMAIN ev -> SUBSET U]] :
           /\ up[0] = Parents(ev)
           /\ \A n \in Nat : up[n + 1] = Wider(ev, up[n])
           /\ Past(ev) = up[Cardinality(DOMAIN ev)]
<1> DEFINE V == [DOMAIN ev -> SUBSET U]
           step == [s \in V |-> Wider(ev, s)]
           Eqn(g) == g = [n \in Nat |->
                            IF n = 0 THEN [i \in DOMAIN ev |-> ev[i].parents]
                            ELSE LET shorter == g[n - 1] IN
                                 [i \in DOMAIN ev |->
                                   shorter[i] \cup
                                   UNION {shorter[p] : p \in shorter[i] \cap DOMAIN ev}]]
           G == CHOOSE g : Eqn(g)
<1>1. Parents(ev) \in V
  BY DEF EventsOver, Parents
<1>2. ASSUME NEW s \in V PROVE Wider(ev, s) \in V
  BY DEF Wider
<1>3. step \in [V -> V]
  <2> HIDE DEF V
  <2> QED
    BY <1>2
<1>4. PICK g \in [Nat -> V] :
        g[0] = Parents(ev) /\ \A n \in Nat : g[n + 1] = step[g[n]]
  <2> HIDE DEF V, step
  <2> QED
    BY <1>1, <1>3, Iteration
<1>5. \A n \in Nat : g[n + 1] = Wider(ev, g[n])
  <2> HIDE DEF V
  <2> QED
    BY <1>4
<1>6. Eqn(g)
  <2> SUFFICES ASSUME NEW n \in Nat
               PROVE  g[n] = IF n = 0 THEN [i \in DOMAIN ev |-> ev[i].parents]
                             ELSE LET shorter == g[n - 1] IN
                                 [i \in DOMAIN ev |->
                                   shorter[i] \cup
                                   UNION {shorter[p] : p \in shorter[i] \cap DOMAIN ev}]
    <3> HIDE DEF V
    <3> QED
      BY <1>4
  <2>1. CASE n = 0
    BY <2>1, <1>4 DEF Parents
  <2>2. CASE n # 0
    <3>1. n - 1 \in Nat /\ (n - 1) + 1 = n
      BY <2>2
    <3>2. g[n] = Wider(ev, g[n - 1])
      BY <3>1, <1>5
    <3> QED
      BY <3>2, <2>2 DEF Wider
  <2> QED
    BY <2>1, <2>2
<1>7. Eqn(G)
  <2> HIDE DEF Eqn
  <2> QED
    BY <1>6
<1> HIDE DEF G
<1>8. G[0] = Parents(ev)
  BY <1>7 DEF Parents
<1>9. \A n \in Nat : G[n + 1] = Wider(ev, G[n])
  <2> TAKE n \in Nat
  <2>1. n + 1 \in Nat /\ n + 1 # 0 /\ (n + 1) - 1 = n
    OBVIOUS
  <2> DEFINE m == n + 1
  <2>2. m \in Nat /\ m # 0 /\ m - 1 = n
    BY <2>1
  <2> HIDE DEF m
  <2>3. G[m] = Wider(ev, G[m - 1])
    BY <2>2, <1>7 DEF Wider
  <2> QED
    BY <2>2, <2>3 DEF m
<1>10. \A n \in Nat : G[n] \in V
  <2> DEFINE S == {n \in Nat : G[n] \in V}
  <2> HIDE DEF V
  <2>1. 0 \in S
    BY <1>8, <1>1
  <2>2. \A n \in Nat : n \in S => n + 1 \in S
    BY <1>9, <1>2
  <2>3. Nat \subseteq S
    <3> HIDE DEF S
    <3> QED
      BY <2>1, <2>2, SetInduction
  <2> QED
    BY <2>3
<1>11. G \in [Nat -> V]
  <2>1. G = [n \in Nat |-> G[n]]
    <3> DEFINE f(n) == IF n = 0 THEN [i \in DOMAIN ev |-> ev[i].parents]
                       ELSE LET shorter == G[n - 1] IN
                            [i \in DOMAIN ev |->
                               shorter[i] \cup
                               UNION {shorter[p] : p \in shorter[i] \cap DOMAIN ev}]
    <3>1. G = [n \in Nat |-> f(n)]
      BY <1>7
    <3> HIDE DEF f
    <3> QED
      BY <3>1
  <2> HIDE DEF V
  <2> QED
    BY <2>1, <1>10
<1>12. Past(ev) = G[Cardinality(DOMAIN ev)]
  BY DEF Past, G
<1> QED
  BY <1>8, <1>9, <1>11, <1>12

(* A set is closed when it holds the parents of each event in it.          *)
Closed(ev, S) == \A k \in S \cap DOMAIN ev : ev[k].parents \subseteq S

(* Past computes causality: the past of an event is the least closed set   *)
(* that holds its parents.  Its rounds double the distance they look       *)
(* back, and there are as many as events, which is always enough.          *)
THEOREM PastIsClosure ==
  ASSUME NEW ev, NEW U, EventsOver(ev, U)
  PROVE  /\ Past(ev) \in [DOMAIN ev -> SUBSET U]
         /\ \A i \in DOMAIN ev :
              /\ ev[i].parents \subseteq Past(ev)[i]
              /\ Closed(ev, Past(ev)[i])
              /\ \A S : ev[i].parents \subseteq S /\ Closed(ev, S)
                        => Past(ev)[i] \subseteq S
<1> DEFINE D == DOMAIN ev
           N == Cardinality(D)
<1>1. PICK up \in [Nat -> [D -> SUBSET U]] :
        /\ up[0] = Parents(ev)
        /\ \A n \in Nat : up[n + 1] = Wider(ev, up[n])
        /\ Past(ev) = up[N]
  BY PastStages
<1>2. N \in Nat /\ IsFiniteSet(D)
  BY FS_CardinalityType DEF EventsOver
<1>3. \A n \in Nat, i \in D :
        up[n + 1][i] = up[n][i] \cup UNION {up[n][p] : p \in up[n][i] \cap D}
  BY <1>1 DEF Wider
<1>4. \A n \in Nat, i \in D : ev[i].parents \subseteq up[n][i]
  <2> DEFINE S == {n \in Nat : \A i \in D : ev[i].parents \subseteq up[n][i]}
  <2>1. 0 \in S
    BY <1>1 DEF Parents
  <2>2. \A n \in Nat : n \in S => n + 1 \in S
    BY <1>3
  <2>3. Nat \subseteq S
    <3> HIDE DEF S
    <3> QED
      BY <2>1, <2>2, SetInduction
  <2> QED
    BY <2>3
<1>5. ASSUME NEW S, Closed(ev, S)
      PROVE  \A n \in Nat, i \in D : ev[i].parents \subseteq S => up[n][i] \subseteq S
  <2> DEFINE T == {n \in Nat : \A i \in D : ev[i].parents \subseteq S => up[n][i] \subseteq S}
  <2>1. 0 \in T
    BY <1>1 DEF Parents
  <2>2. ASSUME NEW n \in Nat, n \in T
        PROVE  n + 1 \in T
    <3> SUFFICES ASSUME NEW i \in D, ev[i].parents \subseteq S
                 PROVE  up[n + 1][i] \subseteq S
      OBVIOUS
    <3>1. up[n][i] \subseteq S
      BY <2>2
    <3>2. ASSUME NEW p \in up[n][i] \cap D
          PROVE  up[n][p] \subseteq S
      <4>1. ev[p].parents \subseteq S
        BY <3>1, <1>5 DEF Closed
      <4> QED
        BY <4>1, <2>2
    <3> QED
      BY <3>1, <3>2, <1>3
  <2>3. Nat \subseteq T
    <3> HIDE DEF T
    <3> QED
      BY <2>1, <2>2, SetInduction
  <2> QED
    BY <2>3
<1>6. \A n \in Nat, i \in D :
        /\ up[n][i] \subseteq up[n + 1][i]
        /\ \A k \in up[n][i] \cap D : ev[k].parents \subseteq up[n + 1][i]
  BY <1>3, <1>4
<1> DEFINE Size(n, i) == Cardinality(up[n][i] \cap D)
<1>7. \A n \in Nat, i \in D : IsFiniteSet(up[n][i] \cap D) /\ Size(n, i) \in 0 .. N
  <2> TAKE n \in Nat, i \in D
  <2>1. up[n][i] \cap D \in SUBSET D
    OBVIOUS
  <2>2. IsFiniteSet(up[n][i] \cap D) /\ Size(n, i) <= N
    BY <2>1, <1>2, FS_Subset
  <2> QED
    BY <2>2, <1>2, FS_CardinalityType
<1>8. \A n \in Nat, i \in D : Closed(ev, up[n][i]) \/ Size(n, i) > n
  <2> DEFINE S == {n \in Nat : \A i \in D : Closed(ev, up[n][i]) \/ Size(n, i) > n}
  <2>1. 0 \in S
    <3> SUFFICES ASSUME NEW i \in D, ~ Closed(ev, up[0][i])
                 PROVE  Size(0, i) > 0
      OBVIOUS
    <3> DEFINE C == up[0][i] \cap D
    <3>1. C # {}
      BY DEF Closed
    <3>2. IsFiniteSet(C) /\ Cardinality(C) \in 0 .. N /\ Size(0, i) = Cardinality(C)
      BY <1>7
    <3> HIDE DEF C
    <3>3. Cardinality(C) # 0
      BY <3>1, <3>2, FS_EmptySet
    <3> HIDE DEF Size
    <3> QED
      BY <1>2, <3>2, <3>3
  <2>2. ASSUME NEW n \in Nat, n \in S
        PROVE  n + 1 \in S
    <3> SUFFICES ASSUME NEW i \in D, ~ Closed(ev, up[n + 1][i])
                 PROVE  Size(n + 1, i) > n + 1
      OBVIOUS
    <3> DEFINE A == up[n][i]
               B == up[n + 1][i]
    <3>1. ~ Closed(ev, A)
      <4> SUFFICES ASSUME Closed(ev, A)
                   PROVE  FALSE
        OBVIOUS
      <4> DEFINE More == UNION {up[n][p] : p \in A \cap D}
      <4>1. \A p \in A \cap D : up[n][p] \subseteq A
        BY <1>5 DEF Closed
      <4>2. B = A \cup More
        BY <1>3
      <4>3. More \subseteq A
        BY <4>1
      <4>4. B = A
        <5> HIDE DEF More
        <5> QED
          BY <4>2, <4>3
      <4> QED
        BY <4>4
    <3>2. A \cap D # B \cap D
      <4> SUFFICES ASSUME A \cap D = B \cap D
                   PROVE  FALSE
        OBVIOUS
      <4>1. \A k \in B \cap D : ev[k].parents \subseteq B
        BY <1>6
      <4> QED
        BY <4>1 DEF Closed
    <3>3. A \cap D \in SUBSET (B \cap D)
      BY <1>6
    <3>4. Size(n, i) > n
      BY <3>1, <2>2
    <3>5. IsFiniteSet(B \cap D) /\ n + 1 \in Nat
      BY <1>7
    <3>6. Size(n, i) <= Size(n + 1, i) /\ Size(n, i) # Size(n + 1, i)
      BY <3>2, <3>3, <3>5, FS_Subset
    <3>7. Size(n, i) \in Int /\ Size(n + 1, i) \in Int
      <4>1. Size(n, i) \in 0 .. N /\ Size(n + 1, i) \in 0 .. N
        BY <1>7, <3>5
      <4> HIDE DEF Size
      <4> QED
        BY <4>1, <1>2
    <3> HIDE DEF Size
    <3> QED
      BY <3>4, <3>6, <3>7
  <2>3. Nat \subseteq S
    <3> HIDE DEF S
    <3> QED
      BY <2>1, <2>2, SetInduction
  <2> QED
    BY <2>3
<1>9. ASSUME NEW i \in D
      PROVE  Closed(ev, up[N][i])
  <2>1. Size(N, i) \in 0 .. N
    BY <1>2, <1>7
  <2>2. Closed(ev, up[N][i]) \/ Size(N, i) > N
    BY <1>2, <1>8
  <2> HIDE DEF Size
  <2> QED
    BY <1>2, <2>1, <2>2
<1>10. up[N] \in [D -> SUBSET U]
  BY <1>2
<1>11. \A i \in D : /\ ev[i].parents \subseteq up[N][i]
                    /\ Closed(ev, up[N][i])
                    /\ \A S : ev[i].parents \subseteq S /\ Closed(ev, S)
                              => up[N][i] \subseteq S
  <2> HIDE DEF N
  <2> QED
    BY <1>2, <1>4, <1>5, <1>9
<1> QED
  BY <1>1, <1>10, <1>11

(* Each event a set holds is held, unchanged, by the other.                *)
Extends(ev, more) ==
  DOMAIN ev \subseteq DOMAIN more /\ \A i \in DOMAIN ev : more[i] = ev[i]

(* The past of an event known to a smaller and to a larger set of events   *)
(* is the same when the larger one knows nothing more of it.               *)
LEMMA PastAgrees ==
  ASSUME NEW ev, NEW more, NEW U, EventsOver(ev, U), EventsOver(more, U),
         Extends(ev, more), NEW i \in DOMAIN ev,
         Past(ev)[i] \cap DOMAIN more \subseteq DOMAIN ev
  PROVE  Past(more)[i] = Past(ev)[i]
<1> DEFINE P == Past(ev)[i]
           Q == Past(more)[i]
<1>1. /\ ev[i].parents \subseteq P /\ Closed(ev, P)
      /\ \A S : ev[i].parents \subseteq S /\ Closed(ev, S) => P \subseteq S
  BY PastIsClosure
<1>2. i \in DOMAIN more /\ more[i].parents = ev[i].parents
  BY DEF Extends
<1>3. /\ ev[i].parents \subseteq Q /\ Closed(more, Q)
      /\ \A S : ev[i].parents \subseteq S /\ Closed(more, S) => Q \subseteq S
  BY <1>2, PastIsClosure
<1>4. Closed(more, P)
  BY <1>1 DEF Closed, Extends
<1>5. Closed(ev, Q)
  BY <1>3 DEF Closed, Extends
<1> HIDE DEF P, Q
<1>6. P = Q
  BY <1>1, <1>3, <1>4, <1>5
<1> QED
  BY <1>6 DEF P, Q

(* The past of an event reaches no further than its parents' pasts.        *)
LEMMA PastUnfolds ==
  ASSUME NEW ev, NEW U, EventsOver(ev, U), NEW i \in DOMAIN ev
  PROVE  \A j : j \in Past(ev)[i] <=>
                  \/ j \in ev[i].parents
                  \/ \E p \in ev[i].parents \cap DOMAIN ev : j \in Past(ev)[p]
<1> DEFINE past == Past(ev)
           S == {j \in U : \/ j \in ev[i].parents
                           \/ \E p \in ev[i].parents \cap DOMAIN ev : j \in past[p]}
<1>1. /\ past \in [DOMAIN ev -> SUBSET U]
      /\ \A k \in DOMAIN ev :
           /\ ev[k].parents \subseteq past[k] /\ Closed(ev, past[k])
           /\ \A T : ev[k].parents \subseteq T /\ Closed(ev, T) => past[k] \subseteq T
  BY PastIsClosure
<1>2. \A k \in DOMAIN ev : ev[k].parents \subseteq U
  BY DEF EventsOver
<1> HIDE DEF past
<1>3. ev[i].parents \subseteq S /\ Closed(ev, S)
  <2>1. ASSUME NEW k \in S \cap DOMAIN ev
        PROVE  ev[k].parents \subseteq S
    <3>1. CASE k \in ev[i].parents
      BY <3>1, <1>1, <1>2
    <3>2. CASE \E p \in ev[i].parents \cap DOMAIN ev : k \in past[p]
      BY <3>2, <1>1, <1>2 DEF Closed
    <3> QED
      BY <3>1, <3>2
  <2> QED
    BY <2>1, <1>2 DEF Closed
<1>4. past[i] \subseteq S
  BY <1>3, <1>1
<1>5. ASSUME NEW p \in ev[i].parents \cap DOMAIN ev
      PROVE  past[p] \subseteq past[i]
  <2>1. ev[p].parents \subseteq past[i] /\ Closed(ev, past[i])
    BY <1>1 DEF Closed
  <2> QED
    BY <2>1, <1>1
<1>6. \A j : j \in past[i] <=> j \in S
  BY <1>1, <1>2, <1>4, <1>5
<1>7. \A j : j \in past[i] <=>
              \/ j \in ev[i].parents
              \/ \E p \in ev[i].parents \cap DOMAIN ev : j \in past[p]
  BY <1>1, <1>2, <1>6
<1> QED
  BY <1>7 DEF past

(* What precedes an event's predecessors precedes the event.               *)
LEMMA PastTransitive ==
  ASSUME NEW ev, NEW U, EventsOver(ev, U), NEW i \in DOMAIN ev,
         NEW j \in Past(ev)[i] \cap DOMAIN ev
  PROVE  Past(ev)[j] \subseteq Past(ev)[i]
<1> DEFINE past == Past(ev)
<1>1. \A k \in DOMAIN ev :
        /\ ev[k].parents \subseteq past[k] /\ Closed(ev, past[k])
        /\ \A T : ev[k].parents \subseteq T /\ Closed(ev, T) => past[k] \subseteq T
  BY PastIsClosure
<1> HIDE DEF past
<1>2. ev[j].parents \subseteq past[i]
  BY <1>1 DEF past, Closed
<1>3. past[j] \subseteq past[i]
  BY <1>1, <1>2 DEF past
<1> QED
  BY <1>3 DEF past

-------------------------------------------------------------------------------
(* Largest and maximal elements.                                           *)

LEMMA NatMaximum ==
  ASSUME NEW T, T \subseteq Nat, T # {}, NEW N \in Nat, \A x \in T : x <= N
  PROVE  \E x \in T : \A y \in T : y <= x
<1> DEFINE S == {n \in Nat : (\E x \in T : x >= N - n)
                    => \E x \in T : \A y \in T : y <= x}
<1>1. 0 \in S
  <2> SUFFICES ASSUME NEW x \in T, x >= N
               PROVE  \E z \in T : \A y \in T : y <= z
    OBVIOUS
  <2>1. \A y \in T : y <= x
    OBVIOUS
  <2> QED
    BY <2>1
<1>2. ASSUME NEW n \in Nat, n \in S
      PROVE  n + 1 \in S
  <2> SUFFICES ASSUME NEW x \in T, x >= N - (n + 1)
               PROVE  \E z \in T : \A y \in T : y <= z
    OBVIOUS
  <2>1. CASE \E z \in T : z >= N - n
    BY <2>1, <1>2
  <2>2. CASE \A z \in T : ~ (z >= N - n)
    <3>1. \A y \in T : y <= x
      BY <2>2
    <3> QED
      BY <3>1
  <2> QED
    BY <2>1, <2>2
<1>3. Nat \subseteq S
  <2> HIDE DEF S
  <2> QED
    BY <1>1, <1>2, SetInduction
<1>4. \E x \in T : x >= N - N
  <2>1. PICK x \in T : x \in Nat
    OBVIOUS
  <2> QED
    BY <2>1
<1>5. N \in S
  BY <1>3
<1> QED
  BY <1>4, <1>5

LEMMA LargestIsIn ==
  ASSUME NEW T, T \subseteq Nat, T # {}, NEW N \in Nat, \A x \in T : x <= N
  PROVE  Largest(T) \in T /\ \A y \in T : y <= Largest(T)
<1>1. \E x \in T : \A y \in T : y <= x
  BY NatMaximum
<1> QED
  BY <1>1 DEF Largest

(* Of a finite set without cycles every event is followed by, or is itself,*)
(* a maximal one.                                                          *)
LEMMA MaximalAbove ==
  ASSUME NEW past, NEW S, IsFiniteSet(S),
         \A i \in S : i \notin past[i],
         \A i, j \in S : j \in past[i] => past[j] \subseteq past[i],
         NEW x \in S
  PROVE  \E m \in Maximal(past, S) : x = m \/ x \in past[m]
<1> DEFINE T == {y \in S : x = y \/ x \in past[y]}
           size == [y \in S |-> Cardinality(past[y] \cap S)]
           N == Cardinality(S)
           Sizes == {size[y] : y \in T}
<1>1. N \in Nat /\ \A y \in S : /\ IsFiniteSet(past[y] \cap S)
                                /\ size[y] \in Nat /\ size[y] <= N
  <2>1. N \in Nat
    BY FS_CardinalityType
  <2>2. ASSUME NEW y \in S
        PROVE  IsFiniteSet(past[y] \cap S) /\ size[y] \in Nat /\ size[y] <= N
    <3> DEFINE C == past[y] \cap S
    <3>1. C \in SUBSET S /\ size[y] = Cardinality(C)
      OBVIOUS
    <3> HIDE DEF C, size
    <3>2. IsFiniteSet(C) /\ Cardinality(C) <= N /\ Cardinality(C) \in Nat
      BY <3>1, FS_Subset, FS_CardinalityType
    <3> QED
      BY <3>1, <3>2 DEF C
  <2> QED
    BY <2>1, <2>2
<1> HIDE DEF N
<1>2. PICK m \in T : \A y \in T : size[y] <= size[m]
  <2>1. Sizes \subseteq Nat /\ Sizes # {} /\ \A z \in Sizes : z <= N
    <3>1. x \in T /\ T \subseteq S
      OBVIOUS
    <3> HIDE DEF size, T
    <3>2. ASSUME NEW z \in Sizes
          PROVE  z \in Nat /\ z <= N
      <4>1. PICK y \in T : z = size[y]
        OBVIOUS
      <4> QED
        BY <1>1, <3>1, <4>1
    <3>3. size[x] \in Sizes
      BY <3>1
    <3> QED
      BY <3>2, <3>3
  <2>2. \E z \in Sizes : \A y \in Sizes : y <= z
    <3> HIDE DEF Sizes
    <3> QED
      BY <1>1, <2>1, NatMaximum
  <2> HIDE DEF size
  <2> QED
    BY <2>2
<1>3. ASSUME NEW z \in S, m \in past[z]
      PROVE  FALSE
  <2>1. z \in T
    BY <1>3
  <2> DEFINE A == past[m] \cap S
             B == past[z] \cap S
  <2>2. A \in SUBSET B /\ A # B
    BY <1>3
  <2>3. IsFiniteSet(B) /\ size[m] = Cardinality(A) /\ size[z] = Cardinality(B)
    BY <1>1
  <2>4. size[m] \in Nat /\ size[z] \in Nat /\ size[z] <= size[m]
    <3> HIDE DEF size
    <3> QED
      BY <1>1, <1>2, <2>1
  <2> HIDE DEF A, B, size
  <2>5. Cardinality(A) <= Cardinality(B) /\ Cardinality(A) # Cardinality(B)
    BY <2>2, <2>3, FS_Subset
  <2> QED
    BY <2>3, <2>4, <2>5
<1>4. m \in Maximal(past, S)
  BY <1>3 DEF Maximal
<1> QED
  BY <1>4

-------------------------------------------------------------------------------
(* Walks towards the root.                                                 *)

LEMMA ChainSteps ==
  ASSUME NEW nodes, NEW start
  PROVE  /\ Chain(nodes, start)[0] = start
         /\ \A n \in Nat :
              Chain(nodes, start)[n + 1] = Up(nodes, Chain(nodes, start)[n])
<1> DEFINE V == {start} \cup DOMAIN nodes
                  \cup {nodes[f].preferred.parent : f \in DOMAIN nodes}
           step == [e \in V |-> Up(nodes, e)]
           Eqn(g) == g = [k \in Nat |->
                            IF k = 0 THEN start ELSE Up(nodes, g[k - 1])]
           G == CHOOSE g : Eqn(g)
<1>1. step \in [V -> V]
  BY DEF Up
<1>2. start \in V
  OBVIOUS
<1>3. PICK g \in [Nat -> V] :
        g[0] = start /\ \A n \in Nat : g[n + 1] = step[g[n]]
  <2> HIDE DEF V, step
  <2> QED
    BY <1>1, <1>2, Iteration
<1>4. Eqn(g)
  <2> SUFFICES ASSUME NEW n \in Nat
               PROVE  g[n] = IF n = 0 THEN start ELSE Up(nodes, g[n - 1])
    <3> HIDE DEF V
    <3> QED
      BY <1>3
  <2>1. CASE n = 0
    BY <2>1, <1>3
  <2>2. CASE n # 0
    <3>1. n - 1 \in Nat /\ (n - 1) + 1 = n
      BY <2>2
    <3> HIDE DEF V
    <3>2. g[n] = step[g[n - 1]] /\ g[n - 1] \in V
      BY <3>1, <1>3
    <3> QED
      BY <3>2, <2>2
  <2> QED
    BY <2>1, <2>2
<1>5. Eqn(G)
  <2> HIDE DEF Eqn
  <2> QED
    BY <1>4
<1>6. Chain(nodes, start) = G
  BY DEF Chain
<1> HIDE DEF G
<1>7. G[0] = start
  BY <1>5
<1>8. ASSUME NEW n \in Nat
      PROVE  G[n + 1] = Up(nodes, G[n])
  <2> DEFINE m == n + 1
  <2>1. m \in Nat /\ m # 0 /\ m - 1 = n
    OBVIOUS
  <2> HIDE DEF m
  <2>2. G[m] = Up(nodes, G[m - 1])
    BY <2>1, <1>5
  <2> QED
    BY <2>1, <2>2 DEF m
<1> QED
  BY <1>6, <1>7, <1>8

(* A walk goes on from an entry only if it is live, wins its name, is not  *)
(* at the top, was not passed before and, above the start, is a folder.    *)
LEMMA UpMeans ==
  ASSUME NEW nodes, NEW colliding, NEW chain, NEW k \in Nat,
         Verdict(nodes, colliding, chain, k) \in {"up", "normal"}
  PROVE  /\ chain[k] \in DOMAIN nodes \ colliding
         /\ \A j \in 0 .. k - 1 : chain[j] # chain[k]
         /\ nodes[chain[k]].liveness \notin {"deleted", "delete_conflict"}
         /\ k # 0 => nodes[chain[k]].kind = "folder"
         /\ Verdict(nodes, colliding, chain, k) = "normal"
              <=> nodes[chain[k]].preferred.parent = Root
BY DEF Verdict

LEMMA FirstOf ==
  ASSUME NEW N \in Nat, NEW S, \E k \in 0 .. N : k \in S
  PROVE  \E k \in 0 .. N : k \in S /\ \A j \in 0 .. k - 1 : j \notin S
<1> DEFINE T == {n \in Nat : (\E k \in 0 .. n : k \in S)
                    => \E k \in 0 .. n : k \in S /\ \A j \in 0 .. k - 1 : j \notin S}
<1>1. 0 \in T
  OBVIOUS
<1>2. ASSUME NEW n \in Nat, n \in T
      PROVE  n + 1 \in T
  <2>1. CASE \E k \in 0 .. n : k \in S
    <3>1. PICK k \in 0 .. n : k \in S /\ \A j \in 0 .. k - 1 : j \notin S
      BY <1>2, <2>1
    <3> QED
      BY <3>1
  <2>2. CASE \A k \in 0 .. n : k \notin S
    <3> SUFFICES ASSUME n + 1 \in S
                 PROVE  n + 1 \in T
      BY <2>2
    <3>1. \A j \in 0 .. (n + 1) - 1 : j \notin S
      BY <2>2
    <3> QED
      BY <3>1
  <2> QED
    BY <2>1, <2>2
<1>3. Nat \subseteq T
  <2> HIDE DEF T
  <2> QED
    BY <1>1, <1>2, SetInduction
<1> QED
  BY <1>3

(* Where a walk ends.                                                      *)
Ends(nodes, colliding, start, k) ==
  LET chain == Chain(nodes, start) IN
    /\ k \in 0 .. Cardinality(DOMAIN nodes)
    /\ Verdict(nodes, colliding, chain, k) # "up"
    /\ \A j \in 0 .. k - 1 : Verdict(nodes, colliding, chain, j) = "up"

(* A walk ends: it never passes an entry twice.                            *)
LEMMA WalkEnds ==
  ASSUME NEW nodes, IsFiniteSet(DOMAIN nodes), NEW colliding, NEW start
  PROVE  \E k \in 0 .. Cardinality(DOMAIN nodes) : Ends(nodes, colliding, start, k)
<1> DEFINE N == Cardinality(DOMAIN nodes)
           chain == Chain(nodes, start)
           S == {k \in 0 .. N : Verdict(nodes, colliding, chain, k) # "up"}
<1>1. N \in Nat
  BY FS_CardinalityType
<1> HIDE DEF chain
<1>2. \E k \in 0 .. N : k \in S
  <2> SUFFICES ASSUME \A k \in 0 .. N : Verdict(nodes, colliding, chain, k) = "up"
               PROVE  FALSE
    OBVIOUS
  <2> DEFINE f == [k \in 0 .. N |-> chain[k]]
  <2> HIDE DEF N
  <2>1. ASSUME NEW k \in 0 .. N
        PROVE  chain[k] \in DOMAIN nodes /\ \A j \in 0 .. k - 1 : chain[j] # chain[k]
    <3>1. k \in Nat /\ Verdict(nodes, colliding, chain, k) \in {"up", "normal"}
      BY <1>1
    <3> QED
      BY <3>1, UpMeans
  <2>2. f \in [0 .. N -> DOMAIN nodes]
    BY <2>1
  <2>3. IsFiniteSet(0 .. N) /\ Cardinality(0 .. N) = N + 1
    BY <1>1, FS_Interval
  <2>4. N < Cardinality(0 .. N)
    BY <1>1, <2>3
  <2>5. PICK x \in 0 .. N, y \in 0 .. N : x # y /\ f[x] = f[y]
    <3> DEFINE D == DOMAIN nodes
               I == 0 .. N
    <3>1. IsFiniteSet(D) /\ IsFiniteSet(I) /\ Cardinality(D) < Cardinality(I)
      BY <2>3, <2>4 DEF N
    <3>2. f \in [I -> D]
      BY <2>2
    <3> HIDE DEF D, I, f
    <3>3. \E x, y \in I : x # y /\ f[x] = f[y]
      BY <3>1, <3>2, FS_PigeonHole
    <3> QED
      BY <3>3 DEF I
  <2>6. x \in 0 .. y - 1 \/ y \in 0 .. x - 1
    BY <1>1, <2>5
  <2> QED
    BY <2>1, <2>5, <2>6
<1>3. PICK k \in 0 .. N : k \in S /\ \A j \in 0 .. k - 1 : j \notin S
  <2> HIDE DEF S, N
  <2> QED
    BY <1>1, <1>2, FirstOf
<1>4. \A j \in 0 .. k - 1 : j \in 0 .. N
  BY <1>1
<1> QED
  BY <1>3, <1>4 DEF Ends, chain

(* Locate tells the verdict of where the walk ends.                        *)
LEMMA LocateEnds ==
  ASSUME NEW nodes, NEW colliding, NEW start, NEW k,
         IsFiniteSet(DOMAIN nodes), Ends(nodes, colliding, start, k)
  PROVE  LET chain == Chain(nodes, start)
             to == Verdict(nodes, colliding, chain, k)
         IN Locate(nodes, colliding, start) =
              [to   |-> to,
               path |-> IF to = "normal"
                        THEN [i \in 0 .. k |-> nodes[chain[k - i]].preferred.name]
                        ELSE <<>>]
<1> DEFINE N == Cardinality(DOMAIN nodes)
           chain == Chain(nodes, start)
           verdict(i) == Verdict(nodes, colliding, chain, i)
           last == CHOOSE i \in 0 .. N :
                     verdict(i) # "up" /\ \A j \in 0 .. i - 1 : verdict(j) = "up"
<1>1. N \in Nat
  BY FS_CardinalityType
<1>2. k \in 0 .. N /\ verdict(k) # "up" /\ \A j \in 0 .. k - 1 : verdict(j) = "up"
  BY DEF Ends
<1>3. last = k
  <2> HIDE DEF verdict, N
  <2>1. last \in 0 .. N /\ verdict(last) # "up" /\ \A j \in 0 .. last - 1 : verdict(j) = "up"
    BY <1>2
  <2> HIDE DEF last
  <2>2. ~ (last \in 0 .. k - 1) /\ ~ (k \in 0 .. last - 1)
    BY <1>2, <2>1
  <2> QED
    BY <1>1, <1>2, <2>1, <2>2
<1>4. Locate(nodes, colliding, start) =
        [to   |-> verdict(last),
         path |-> IF verdict(last) = "normal"
                  THEN [i \in 0 .. last |-> nodes[chain[last - i]].preferred.name]
                  ELSE <<>>]
  BY DEF Locate
<1> HIDE DEF last, verdict, chain
<1>5. Locate(nodes, colliding, start) =
        [to   |-> verdict(k),
         path |-> IF verdict(k) = "normal"
                  THEN [i \in 0 .. k |-> nodes[chain[k - i]].preferred.name]
                  ELSE <<>>]
  BY <1>3, <1>4
<1> QED
  BY <1>5 DEF verdict, chain

(* Two views tell the same of the entries a walk can pass.                 *)
AlikeOn(T, nodes, more, colliding, colliding2) ==
  \A e \in T :
    /\ e \in DOMAIN nodes <=> e \in DOMAIN more
    /\ e \in DOMAIN nodes =>
         /\ nodes[e].preferred = more[e].preferred
         /\ nodes[e].liveness = more[e].liveness
         /\ nodes[e].kind = more[e].kind
         /\ e \in colliding <=> e \in colliding2
         /\ nodes[e].preferred.parent \in T

LEMMA WalksAgree ==
  ASSUME NEW nodes, NEW more, NEW colliding, NEW colliding2, NEW T,
         IsFiniteSet(DOMAIN nodes), IsFiniteSet(DOMAIN more),
         AlikeOn(T, nodes, more, colliding, colliding2), NEW start \in T
  PROVE  Locate(nodes, colliding, start) = Locate(more, colliding2, start)
<1> DEFINE chain == Chain(nodes, start)
           chain2 == Chain(more, start)
<1>1. /\ chain[0] = start /\ \A n \in Nat : chain[n + 1] = Up(nodes, chain[n])
      /\ chain2[0] = start /\ \A n \in Nat : chain2[n + 1] = Up(more, chain2[n])
  BY ChainSteps
<1> HIDE DEF chain, chain2
<1>2. \A n \in Nat : chain[n] = chain2[n] /\ chain[n] \in T
  <2> DEFINE S == {n \in Nat : chain[n] = chain2[n] /\ chain[n] \in T}
  <2>1. 0 \in S
    BY <1>1
  <2>2. \A n \in Nat : n \in S => n + 1 \in S
    BY <1>1 DEF Up, AlikeOn
  <2>3. Nat \subseteq S
    <3> HIDE DEF S
    <3> QED
      BY <2>1, <2>2, SetInduction
  <2> QED
    BY <2>3
<1>3. ASSUME NEW n \in Nat
      PROVE  Verdict(nodes, colliding, chain, n) = Verdict(more, colliding2, chain2, n)
  <2> DEFINE e == chain[n]
  <2>1. (\E j \in 0 .. n - 1 : chain[j] = e) <=> \E j \in 0 .. n - 1 : chain2[j] = e
    BY <1>2
  <2>2. e = chain2[n] /\ e \in T
    BY <1>2
  <2> HIDE DEF e
  <2>3. /\ e \in DOMAIN nodes <=> e \in DOMAIN more
        /\ e \in DOMAIN nodes =>
             /\ nodes[e].preferred = more[e].preferred
             /\ nodes[e].liveness = more[e].liveness
             /\ nodes[e].kind = more[e].kind
             /\ e \in colliding <=> e \in colliding2
    BY <2>2 DEF AlikeOn
  <2> QED
    BY <2>1, <2>2, <2>3 DEF Verdict, e
<1>4. PICK k \in Nat : Ends(nodes, colliding, start, k)
  <2>1. Cardinality(DOMAIN nodes) \in Nat
    BY FS_CardinalityType
  <2> QED
    BY <2>1, WalkEnds
<1>5. PICK l \in Nat : Ends(more, colliding2, start, l)
  <2>1. Cardinality(DOMAIN more) \in Nat
    BY FS_CardinalityType
  <2> QED
    BY <2>1, WalkEnds
<1>6. /\ Verdict(nodes, colliding, chain, k) # "up"
      /\ \A j \in 0 .. k - 1 : Verdict(nodes, colliding, chain, j) = "up"
      /\ Verdict(nodes, colliding, chain, l) # "up"
      /\ \A j \in 0 .. l - 1 : Verdict(nodes, colliding, chain, j) = "up"
  <2>1. /\ Verdict(more, colliding2, chain2, l) # "up"
        /\ \A j \in 0 .. l - 1 : Verdict(more, colliding2, chain2, j) = "up"
    BY <1>5 DEF Ends, chain2
  <2>2. /\ Verdict(nodes, colliding, chain, k) # "up"
        /\ \A j \in 0 .. k - 1 : Verdict(nodes, colliding, chain, j) = "up"
    BY <1>4 DEF Ends, chain
  <2> QED
    BY <1>3, <2>1, <2>2
<1>7. k = l
  <2>1. ~ (k \in 0 .. l - 1) /\ ~ (l \in 0 .. k - 1)
    BY <1>6
  <2> QED
    BY <2>1
<1> DEFINE to == Verdict(nodes, colliding, chain, k)
<1>8. Locate(nodes, colliding, start) =
        [to   |-> to,
         path |-> IF to = "normal"
                  THEN [i \in 0 .. k |-> nodes[chain[k - i]].preferred.name]
                  ELSE <<>>]
  BY <1>4, LocateEnds DEF chain
<1>9. Locate(more, colliding2, start) =
        [to   |-> to,
         path |-> IF to = "normal"
                  THEN [i \in 0 .. k |-> more[chain2[k - i]].preferred.name]
                  ELSE <<>>]
  <2>1. to = Verdict(more, colliding2, chain2, k)
    BY <1>3
  <2> HIDE DEF to
  <2> QED
    BY <1>5, <1>7, <2>1, LocateEnds DEF chain2
<1>10. to = "normal" =>
         \A i \in 0 .. k : nodes[chain[k - i]].preferred.name
                             = more[chain2[k - i]].preferred.name
  <2> SUFFICES ASSUME to = "normal", NEW i \in 0 .. k
               PROVE  nodes[chain[k - i]].preferred.name
                        = more[chain2[k - i]].preferred.name
    OBVIOUS
  <2> DEFINE n == k - i
  <2>1. n \in Nat /\ (n = k \/ n \in 0 .. k - 1)
    OBVIOUS
  <2> HIDE DEF n
  <2>2. Verdict(nodes, colliding, chain, n) \in {"up", "normal"}
    BY <1>6, <2>1
  <2>3. chain[n] \in DOMAIN nodes
    BY <2>1, <2>2, UpMeans
  <2>4. nodes[chain[n]].preferred = more[chain2[n]].preferred
    BY <1>2, <2>1, <2>3 DEF AlikeOn
  <2> QED
    BY <2>4 DEF n
<1> HIDE DEF to
<1> DEFINE names == [i \in 0 .. k |-> nodes[chain[k - i]].preferred.name]
           names2 == [i \in 0 .. k |-> more[chain2[k - i]].preferred.name]
<1>11. to = "normal" => names = names2
  BY <1>10
<1>12. /\ Locate(nodes, colliding, start)
            = [to |-> to, path |-> IF to = "normal" THEN names ELSE <<>>]
       /\ Locate(more, colliding2, start)
            = [to |-> to, path |-> IF to = "normal" THEN names2 ELSE <<>>]
  BY <1>8, <1>9
<1> HIDE DEF names, names2
<1> QED
  BY <1>11, <1>12

(* An entry with a path is live.                                           *)
LEMMA PlacedIsLive ==
  ASSUME NEW nodes, IsFiniteSet(DOMAIN nodes), NEW colliding, NEW e,
         Locate(nodes, colliding, e).to = "normal"
  PROVE  e \in DOMAIN nodes \ colliding
         /\ nodes[e].liveness \notin {"deleted", "delete_conflict"}
<1> DEFINE chain == Chain(nodes, e)
<1>1. chain[0] = e
  BY ChainSteps
<1> HIDE DEF chain
<1>2. PICK k \in Nat : Ends(nodes, colliding, e, k)
  <2>1. Cardinality(DOMAIN nodes) \in Nat
    BY FS_CardinalityType
  <2> QED
    BY <2>1, WalkEnds
<1>3. Verdict(nodes, colliding, chain, k) = "normal"
  BY <1>2, LocateEnds DEF chain
<1>4. Verdict(nodes, colliding, chain, 0) \in {"up", "normal"}
  <2>1. k # 0 => 0 \in 0 .. k - 1
    OBVIOUS
  <2>2. \A j \in 0 .. k - 1 : Verdict(nodes, colliding, chain, j) = "up"
    BY <1>2 DEF Ends, chain
  <2> QED
    BY <1>3, <2>1, <2>2
<1> QED
  BY <1>1, <1>4, UpMeans

-------------------------------------------------------------------------------
(* Placed entries.                                                         *)

(* The walk from an entry reaches the top after k steps.                   *)
Tops(nodes, colliding, e, k) ==
  LET chain == Chain(nodes, e) IN
    /\ Verdict(nodes, colliding, chain, k) = "normal"
    /\ \A j \in 0 .. k - 1 : Verdict(nodes, colliding, chain, j) = "up"

LEMMA PlacedWalk ==
  ASSUME NEW nodes, IsFiniteSet(DOMAIN nodes), NEW colliding, NEW e
  PROVE  /\ Locate(nodes, colliding, e).to = "normal" =>
              \E k \in 0 .. Cardinality(DOMAIN nodes) : Tops(nodes, colliding, e, k)
         /\ \A k \in Nat : Tops(nodes, colliding, e, k) =>
              Locate(nodes, colliding, e) =
                [to |-> "normal",
                 path |-> [i \in 0 .. k |->
                            nodes[Chain(nodes, e)[k - i]].preferred.name]]
<1> DEFINE chain == Chain(nodes, e)
           v(i) == Verdict(nodes, colliding, chain, i)
           N == Cardinality(DOMAIN nodes)
           names(i) == [j \in 0 .. i |-> nodes[chain[i - j]].preferred.name]
<1>1. N \in Nat
  BY FS_CardinalityType
<1>2. PICK l \in 0 .. N : Ends(nodes, colliding, e, l)
  BY WalkEnds
<1>3. v(l) # "up" /\ \A j \in 0 .. l - 1 : v(j) = "up"
  BY <1>2 DEF Ends
<1>4. Locate(nodes, colliding, e) =
        [to |-> v(l), path |-> IF v(l) = "normal" THEN names(l) ELSE <<>>]
  BY <1>2, LocateEnds
<1> HIDE DEF v, names, chain, N
<1>5. v(l) = "normal" => Tops(nodes, colliding, e, l)
  BY <1>3 DEF Tops, v, chain
<1>6. ASSUME NEW k \in Nat, Tops(nodes, colliding, e, k)
      PROVE  k = l /\ v(l) = "normal"
  <2>1. v(k) = "normal" /\ \A j \in 0 .. k - 1 : v(j) = "up"
    BY <1>6 DEF Tops, v, chain
  <2>2. ~ (k \in 0 .. l - 1) /\ ~ (l \in 0 .. k - 1)
    BY <1>3, <2>1
  <2>3. k = l
    BY <1>1, <2>2
  <2> QED
    BY <2>1, <2>3
<1>7. ASSUME NEW k \in Nat, Tops(nodes, colliding, e, k)
      PROVE  Locate(nodes, colliding, e) = [to |-> "normal", path |-> names(k)]
  BY <1>4, <1>6, <1>7
<1>8. Locate(nodes, colliding, e).to = v(l)
  BY <1>4
<1> QED
  BY <1>2, <1>5, <1>7, <1>8 DEF names, chain, N

(* What an entry passed by a walk to the top is.                           *)
LEMMA OnTheWay ==
  ASSUME NEW nodes, NEW colliding, NEW e, NEW k \in Nat, Tops(nodes, colliding, e, k),
         NEW j \in 0 .. k
  PROVE  LET chain == Chain(nodes, e) IN
         /\ chain[j] \in DOMAIN nodes \ colliding
         /\ \A i \in 0 .. j - 1 : chain[i] # chain[j]
         /\ nodes[chain[j]].liveness \notin {"deleted", "delete_conflict"}
         /\ j # 0 => nodes[chain[j]].kind = "folder"
         /\ j = k <=> nodes[chain[j]].preferred.parent = Root
         /\ chain[j + 1] = nodes[chain[j]].preferred.parent
<1> DEFINE chain == Chain(nodes, e)
<1>1. chain[j + 1] = Up(nodes, chain[j])
  BY ChainSteps
<1>2. /\ Verdict(nodes, colliding, chain, k) = "normal"
      /\ \A i \in 0 .. k - 1 : Verdict(nodes, colliding, chain, i) = "up"
  BY DEF Tops
<1> HIDE DEF chain
<1>3. j \in Nat /\ (j = k \/ j \in 0 .. k - 1)
  OBVIOUS
<1>4. /\ Verdict(nodes, colliding, chain, j) \in {"up", "normal"}
      /\ j = k <=> Verdict(nodes, colliding, chain, j) = "normal"
  BY <1>2, <1>3
<1>5. /\ chain[j] \in DOMAIN nodes \ colliding
      /\ \A i \in 0 .. j - 1 : chain[i] # chain[j]
      /\ nodes[chain[j]].liveness \notin {"deleted", "delete_conflict"}
      /\ j # 0 => nodes[chain[j]].kind = "folder"
      /\ Verdict(nodes, colliding, chain, j) = "normal"
           <=> nodes[chain[j]].preferred.parent = Root
  BY <1>3, <1>4, UpMeans
<1> QED
  BY <1>1, <1>4, <1>5 DEF Up, chain

(* The converse: what is like that is passed.                              *)
LEMMA GoesUp ==
  ASSUME NEW nodes, NEW colliding, NEW chain, NEW k \in Nat,
         chain[k] \in DOMAIN nodes \ colliding,
         \A j \in 0 .. k - 1 : chain[j] # chain[k],
         nodes[chain[k]].liveness \notin {"deleted", "delete_conflict"},
         k # 0 => nodes[chain[k]].kind = "folder"
  PROVE  Verdict(nodes, colliding, chain, k) =
           IF nodes[chain[k]].preferred.parent = Root THEN "normal" ELSE "up"
BY DEF Verdict

(* The folder of a placed entry is placed, and the other way round.        *)
LEMMA ChainShifts ==
  ASSUME NEW nodes, NEW e \in DOMAIN nodes
  PROVE  \A n \in Nat : Chain(nodes, e)[n + 1] = Chain(nodes, nodes[e].preferred.parent)[n]
<1> DEFINE up == nodes[e].preferred.parent
           a == Chain(nodes, e)
           b == Chain(nodes, up)
           S == {n \in Nat : a[n + 1] = b[n]}
<1>1. /\ a[0] = e /\ \A n \in Nat : a[n + 1] = Up(nodes, a[n])
      /\ b[0] = up /\ \A n \in Nat : b[n + 1] = Up(nodes, b[n])
  BY ChainSteps
<1> HIDE DEF a, b
<1>2. 0 \in S
  <2>1. a[0 + 1] = Up(nodes, a[0])
    BY <1>1
  <2> QED
    BY <1>1, <2>1 DEF Up
<1>3. \A n \in Nat : n \in S => n + 1 \in S
  BY <1>1
<1>4. Nat \subseteq S
  <2> HIDE DEF S
  <2> QED
    BY <1>2, <1>3, SetInduction
<1> QED
  BY <1>4 DEF a, b

LEMMA ParentTops ==
  ASSUME NEW nodes, NEW colliding, NEW e, NEW k \in Nat, Tops(nodes, colliding, e, k),
         nodes[e].preferred.parent # Root
  PROVE  LET up == nodes[e].preferred.parent IN
         /\ k # 0 /\ Tops(nodes, colliding, up, k - 1)
         /\ up \in DOMAIN nodes /\ nodes[up].kind = "folder"
<1> DEFINE up == nodes[e].preferred.parent
           a == Chain(nodes, e)
           b == Chain(nodes, up)
<1>1. a[0] = e
  BY ChainSteps
<1>2. \A j \in 0 .. k :
        /\ a[j] \in DOMAIN nodes \ colliding
        /\ \A i \in 0 .. j - 1 : a[i] # a[j]
        /\ nodes[a[j]].liveness \notin {"deleted", "delete_conflict"}
        /\ j # 0 => nodes[a[j]].kind = "folder"
        /\ j = k <=> nodes[a[j]].preferred.parent = Root
  BY OnTheWay
<1>3. 0 \in 0 .. k /\ e \in DOMAIN nodes /\ k # 0
  BY <1>1, <1>2
<1>4. \A n \in Nat : a[n + 1] = b[n]
  BY <1>3, ChainShifts
<1>5. b[0] = up
  BY ChainSteps
<1> HIDE DEF a, b, up
<1>6. up \in DOMAIN nodes /\ nodes[up].kind = "folder"
  <2>1. 1 \in 0 .. k /\ a[0 + 1] = b[0]
    BY <1>3, <1>4
  <2> QED
    BY <1>2, <1>5, <2>1
<1>7. ASSUME NEW j \in 0 .. k - 1
      PROVE  Verdict(nodes, colliding, b, j) = IF j = k - 1 THEN "normal" ELSE "up"
  <2> DEFINE m == j + 1
  <2>1. m \in 0 .. k /\ m # 0 /\ b[j] = a[m] /\ (m = k <=> j = k - 1) /\ j \in Nat
    BY <1>4
  <2>2. \A i \in 0 .. j - 1 : b[i] # b[j]
    <3> SUFFICES ASSUME NEW i \in 0 .. j - 1 PROVE b[i] # b[j]
      OBVIOUS
    <3>1. i + 1 \in 0 .. m - 1 /\ b[i] = a[i + 1]
      BY <1>4
    <3> HIDE DEF m
    <3> QED
      BY <1>2, <2>1, <3>1
  <2> HIDE DEF m
  <2>3. /\ b[j] \in DOMAIN nodes \ colliding
        /\ nodes[b[j]].liveness \notin {"deleted", "delete_conflict"}
        /\ nodes[b[j]].kind = "folder"
        /\ j = k - 1 <=> nodes[b[j]].preferred.parent = Root
    BY <1>2, <2>1
  <2>4. Verdict(nodes, colliding, b, j) =
          IF nodes[b[j]].preferred.parent = Root THEN "normal" ELSE "up"
    BY <2>1, <2>2, <2>3, GoesUp
  <2> QED
    BY <2>3, <2>4
<1>8. Tops(nodes, colliding, up, k - 1)
  <2>1. k - 1 \in 0 .. k - 1
    BY <1>3
  <2>2. Verdict(nodes, colliding, b, k - 1) = "normal"
    BY <1>7, <2>1
  <2>3. \A j \in 0 .. (k - 1) - 1 : Verdict(nodes, colliding, b, j) = "up"
    BY <1>7
  <2> QED
    BY <2>2, <2>3 DEF Tops, b
<1> QED
  BY <1>3, <1>6, <1>8 DEF up

LEMMA ChildTops ==
  ASSUME NEW nodes, NEW colliding, NEW e \in DOMAIN nodes \ colliding,
         nodes[e].liveness \notin {"deleted", "delete_conflict"},
         nodes[e].preferred.parent # Root,
         nodes[nodes[e].preferred.parent].kind = "folder",
         NEW k \in Nat, Tops(nodes, colliding, nodes[e].preferred.parent, k)
  PROVE  Tops(nodes, colliding, e, k + 1)
<1> DEFINE up == nodes[e].preferred.parent
           a == Chain(nodes, e)
           b == Chain(nodes, up)
<1>1. a[0] = e /\ b[0] = up
  BY ChainSteps
<1>2. \A n \in Nat : a[n + 1] = b[n]
  BY ChainShifts
<1>3. \A j \in 0 .. k :
        /\ b[j] \in DOMAIN nodes \ colliding
        /\ \A i \in 0 .. j - 1 : b[i] # b[j]
        /\ nodes[b[j]].liveness \notin {"deleted", "delete_conflict"}
        /\ j # 0 => nodes[b[j]].kind = "folder"
        /\ j = k <=> nodes[b[j]].preferred.parent = Root
        /\ b[j + 1] = nodes[b[j]].preferred.parent
  BY OnTheWay
<1> HIDE DEF a, b, up
<1>4. nodes[e].preferred.parent = up /\ up # Root /\ nodes[up].kind = "folder"
  BY DEF up
<1>5. \A j \in 0 .. k : b[j] # e
  <2> SUFFICES ASSUME NEW j \in 0 .. k, b[j] = e PROVE FALSE
    OBVIOUS
  <2>1. j # k /\ b[j + 1] = up
    BY <1>3, <1>4
  <2>2. j + 1 \in 0 .. k /\ 0 \in 0 .. (j + 1) - 1
    BY <2>1
  <2> QED
    BY <1>1, <1>3, <2>1, <2>2
<1>6. Verdict(nodes, colliding, a, 0) = "up"
  <2>1. /\ a[0] \in DOMAIN nodes \ colliding
        /\ nodes[a[0]].liveness \notin {"deleted", "delete_conflict"}
        /\ nodes[a[0]].preferred.parent # Root
    BY <1>1, <1>4
  <2> QED
    BY <2>1, GoesUp
<1>7. ASSUME NEW j \in 0 .. k
      PROVE  Verdict(nodes, colliding, a, j + 1) = IF j = k THEN "normal" ELSE "up"
  <2> DEFINE m == j + 1
  <2>1. m \in Nat /\ m # 0 /\ a[m] = b[j]
    BY <1>2
  <2>2. \A i \in 0 .. m - 1 : a[i] # a[m]
    <3> SUFFICES ASSUME NEW i \in 0 .. m - 1 PROVE a[i] # b[j]
      BY <2>1
    <3>1. CASE i = 0
      BY <1>1, <1>5, <3>1
    <3>2. CASE i # 0
      <4>1. i - 1 \in 0 .. j - 1 /\ i - 1 \in Nat /\ (i - 1) + 1 = i
        BY <3>2
      <4>2. a[i] = b[i - 1]
        BY <1>2, <4>1
      <4> QED
        BY <1>3, <4>1, <4>2
    <3> QED
      BY <3>1, <3>2
  <2>3. /\ a[m] \in DOMAIN nodes \ colliding
        /\ nodes[a[m]].liveness \notin {"deleted", "delete_conflict"}
        /\ nodes[a[m]].kind = "folder"
        /\ j = k <=> nodes[a[m]].preferred.parent = Root
    BY <1>1, <1>3, <1>4, <2>1
  <2> HIDE DEF m
  <2>4. Verdict(nodes, colliding, a, m) =
          IF nodes[a[m]].preferred.parent = Root THEN "normal" ELSE "up"
    BY <2>1, <2>2, <2>3, GoesUp
  <2> QED
    BY <2>3, <2>4 DEF m
<1>8. \A j \in 0 .. (k + 1) - 1 : Verdict(nodes, colliding, a, j) = "up"
  <2> SUFFICES ASSUME NEW j \in 0 .. k PROVE Verdict(nodes, colliding, a, j) = "up"
    OBVIOUS
  <2>1. CASE j = 0
    BY <1>6, <2>1
  <2>2. CASE j # 0
    <3>1. j - 1 \in 0 .. k /\ j - 1 # k /\ (j - 1) + 1 = j
      BY <2>2
    <3> QED
      BY <1>7, <3>1
  <2> QED
    BY <2>1, <2>2
<1>9. Verdict(nodes, colliding, a, k + 1) = "normal"
  BY <1>7
<1> QED
  BY <1>8, <1>9 DEF Tops, a

(* Two placed entries never have one path.                                 *)
LEMMA PathsDiffer ==
  ASSUME NEW nodes, IsFiniteSet(DOMAIN nodes), DOMAIN nodes \subseteq Nat,
         \A g \in DOMAIN nodes :
           /\ nodes[g].liveness \in {"live", "deleted", "delete_conflict"}
           /\ nodes[g].preferred = [parent |-> nodes[g].preferred.parent,
                                    name |-> nodes[g].preferred.name],
         NEW e, NEW f,
         Projection(nodes, e).to = "normal", Projection(nodes, f).to = "normal",
         Projection(nodes, e).path = Projection(nodes, f).path
  PROVE  e = f
<1> DEFINE C == Collisions(nodes)
           a == Chain(nodes, e)
           b == Chain(nodes, f)
<1>1. ASSUME NEW x \in DOMAIN nodes \ C, NEW y \in DOMAIN nodes \ C,
             nodes[x].liveness \notin {"deleted", "delete_conflict"},
             nodes[y].liveness \notin {"deleted", "delete_conflict"},
             nodes[x].preferred.parent = nodes[y].preferred.parent,
             nodes[x].preferred.name = nodes[y].preferred.name
      PROVE  x = y
  <2>1. nodes[x].preferred = nodes[y].preferred
    <3>1. /\ nodes[x].preferred = [parent |-> nodes[x].preferred.parent,
                                   name |-> nodes[x].preferred.name]
          /\ nodes[y].preferred = [parent |-> nodes[y].preferred.parent,
                                   name |-> nodes[y].preferred.name]
      OBVIOUS
    <3> QED
      BY <1>1, <3>1
  <2>2. nodes[x].liveness = "live" /\ nodes[y].liveness = "live"
    BY <1>1
  <2>3. {x, y} \subseteq Claimants(nodes, nodes[x].preferred)
        /\ {x, y} \subseteq Claimants(nodes, nodes[y].preferred)
    BY <2>1, <2>2 DEF Claimants
  <2>4. ~ (x < y) /\ ~ (y < x)
    BY <2>3 DEF Collisions
  <2> QED
    BY <2>4
<1>2. PICK k \in Nat : Tops(nodes, C, e, k)
  <2>1. Cardinality(DOMAIN nodes) \in Nat
    BY FS_CardinalityType
  <2> QED
    BY <2>1, PlacedWalk DEF Projection
<1>3. PICK l \in Nat : Tops(nodes, C, f, l)
  <2>1. Cardinality(DOMAIN nodes) \in Nat
    BY FS_CardinalityType
  <2> QED
    BY <2>1, PlacedWalk DEF Projection
<1>4. \A j \in 0 .. k :
        /\ a[j] \in DOMAIN nodes \ C
        /\ nodes[a[j]].liveness \notin {"deleted", "delete_conflict"}
        /\ j = k <=> nodes[a[j]].preferred.parent = Root
        /\ a[j + 1] = nodes[a[j]].preferred.parent
  BY <1>2, OnTheWay
<1>5. \A j \in 0 .. l :
        /\ b[j] \in DOMAIN nodes \ C
        /\ nodes[b[j]].liveness \notin {"deleted", "delete_conflict"}
        /\ j = l <=> nodes[b[j]].preferred.parent = Root
        /\ b[j + 1] = nodes[b[j]].preferred.parent
  BY <1>3, OnTheWay
<1>6. /\ Projection(nodes, e).path = [i \in 0 .. k |-> nodes[a[k - i]].preferred.name]
      /\ Projection(nodes, f).path = [i \in 0 .. l |-> nodes[b[l - i]].preferred.name]
  <2>1. Locate(nodes, C, e) = [to |-> "normal",
                               path |-> [i \in 0 .. k |-> nodes[a[k - i]].preferred.name]]
    BY <1>2, PlacedWalk
  <2>2. Locate(nodes, C, f) = [to |-> "normal",
                               path |-> [i \in 0 .. l |-> nodes[b[l - i]].preferred.name]]
    BY <1>3, PlacedWalk
  <2> QED
    BY <2>1, <2>2 DEF Projection
<1>7. a[0] = e /\ b[0] = f
  BY ChainSteps
<1> HIDE DEF C, a, b
<1>8. k = l /\ \A i \in 0 .. k : nodes[a[k - i]].preferred.name = nodes[b[k - i]].preferred.name
  <2>1. [i \in 0 .. k |-> nodes[a[k - i]].preferred.name]
          = [i \in 0 .. l |-> nodes[b[l - i]].preferred.name]
    BY <1>6
  <2>2. 0 .. k = 0 .. l
    BY <2>1
  <2>3. k = l
    BY <2>2
  <2> QED
    BY <2>1, <2>3
<1> DEFINE S == {m \in Nat : m <= k => a[k - m] = b[k - m]}
<1>9. 0 \in S
  <2>1. k \in 0 .. k /\ k - 0 = k /\ 0 \in 0 .. k
    OBVIOUS
  <2>2. nodes[a[k]].preferred.name = nodes[b[k]].preferred.name
    BY <1>8, <2>1
  <2>3. a[k] = b[k]
    BY <1>1, <1>4, <1>5, <1>8, <2>1, <2>2
  <2> QED
    BY <2>1, <2>3
<1>10. ASSUME NEW m \in Nat, m \in S
       PROVE  m + 1 \in S
  <2> SUFFICES ASSUME m + 1 <= k
               PROVE  a[k - (m + 1)] = b[k - (m + 1)]
    OBVIOUS
  <2> DEFINE j == k - (m + 1)
  <2>1. j \in 0 .. k /\ j + 1 = k - m /\ m <= k /\ m + 1 \in 0 .. k
    OBVIOUS
  <2>2. a[j + 1] = b[j + 1]
    BY <1>10, <2>1
  <2>3. nodes[a[j]].preferred.name = nodes[b[j]].preferred.name
    BY <1>8, <2>1
  <2> HIDE DEF j
  <2>4. nodes[a[j]].preferred.parent = nodes[b[j]].preferred.parent
    BY <1>4, <1>5, <1>8, <2>1, <2>2
  <2>5. a[j] = b[j]
    BY <1>1, <1>4, <1>5, <1>8, <2>1, <2>3, <2>4
  <2> QED
    BY <2>5 DEF j
<1>11. k \in S
  <2> HIDE DEF S
  <2> QED
    BY <1>9, <1>10, SetInduction
<1> QED
  BY <1>7, <1>11

(* Above a placed entry are placed ones, up to the top.                    *)
LEMMA AllTheWayUp ==
  ASSUME NEW nodes, Root \notin DOMAIN nodes, NEW colliding, NEW e,
         NEW k \in Nat, Tops(nodes, colliding, e, k)
  PROVE  LET chain == Chain(nodes, e) IN
         /\ \A j \in 0 .. k : Tops(nodes, colliding, chain[j], k - j)
         /\ \A m \in Nat : m > k => chain[m] = Root
<1> DEFINE a == Chain(nodes, e)
           S == {j \in Nat : j <= k => Tops(nodes, colliding, a[j], k - j)}
           T == {m \in Nat : a[k + 1 + m] = Root}
<1>1. a[0] = e /\ \A n \in Nat : a[n + 1] = Up(nodes, a[n])
  BY ChainSteps
<1>2. \A j \in 0 .. k : /\ j = k <=> nodes[a[j]].preferred.parent = Root
                        /\ a[j + 1] = nodes[a[j]].preferred.parent
  BY OnTheWay
<1> HIDE DEF a
<1>3. 0 \in S
  BY <1>1
<1>4. ASSUME NEW j \in Nat, j \in S
      PROVE  j + 1 \in S
  <2> SUFFICES ASSUME j + 1 <= k
               PROVE  Tops(nodes, colliding, a[j + 1], k - (j + 1))
    OBVIOUS
  <2>1. j \in 0 .. k /\ j # k /\ k - j \in Nat /\ (k - j) - 1 = k - (j + 1)
    OBVIOUS
  <2>2. Tops(nodes, colliding, a[j], k - j)
    BY <1>4, <2>1
  <2>3. nodes[a[j]].preferred.parent # Root /\ a[j + 1] = nodes[a[j]].preferred.parent
    BY <1>2, <2>1
  <2> QED
    BY <2>1, <2>2, <2>3, ParentTops
<1>5. Nat \subseteq S
  <2> HIDE DEF S
  <2> QED
    BY <1>3, <1>4, SetInduction
<1>6. 0 \in T
  BY <1>2
<1>7. ASSUME NEW m \in Nat, m \in T
      PROVE  m + 1 \in T
  <2>1. k + 1 + m \in Nat /\ (k + 1 + m) + 1 = k + 1 + (m + 1)
    OBVIOUS
  <2> QED
    BY <1>1, <1>7, <2>1 DEF Up
<1>8. Nat \subseteq T
  <2> HIDE DEF T
  <2> QED
    BY <1>6, <1>7, SetInduction
<1>9. ASSUME NEW m \in Nat, m > k
      PROVE  a[m] = Root
  <2>1. m - k - 1 \in Nat /\ k + 1 + (m - k - 1) = m
    BY <1>9
  <2> QED
    BY <1>8, <2>1
<1> QED
  BY <1>5, <1>9 DEF a

(* Placed entries that stay as they are, under folders that do, keep their *)
(* paths unless someone new wants their names.                             *)
Settled(nodes, more, S) ==
  \A g \in S :
    /\ g \in DOMAIN nodes /\ Projection(nodes, g).to = "normal"
    /\ g \in DOMAIN more /\ more[g] = nodes[g]
    /\ nodes[g].preferred.parent \in S \cup {Root}
    /\ Claimants(more, nodes[g].preferred) \subseteq Claimants(nodes, nodes[g].preferred)

LEMMA PathsKept ==
  ASSUME NEW nodes, NEW more, IsFiniteSet(DOMAIN nodes), IsFiniteSet(DOMAIN more),
         Root \notin DOMAIN nodes, Root \notin DOMAIN more,
         NEW S, Settled(nodes, more, S), NEW e \in S
  PROVE  Projection(more, e) = Projection(nodes, e)
<1> DEFINE C == Collisions(nodes)
           D == Collisions(more)
           T == S \cup {Root}
<1>a. \A g \in S :
        /\ g \in DOMAIN nodes /\ Projection(nodes, g).to = "normal"
        /\ g \in DOMAIN more /\ more[g] = nodes[g]
        /\ nodes[g].preferred.parent \in S \cup {Root}
        /\ Claimants(more, nodes[g].preferred) \subseteq Claimants(nodes, nodes[g].preferred)
  BY DEF Settled
<1>1. ASSUME NEW g \in S
      PROVE  g \notin C /\ g \notin D
  <2>1. g \notin C
    BY <1>a, PlacedIsLive DEF Projection
  <2>2. ASSUME g \in D
        PROVE  g \in C
    <3>1. PICK f \in DOMAIN more : f < g /\ {g, f} \subseteq Claimants(more, more[g].preferred)
      BY <2>2 DEF Collisions
    <3>2. {g, f} \subseteq Claimants(nodes, nodes[g].preferred)
      BY <1>a, <3>1
    <3>3. f \in DOMAIN nodes
      BY <3>2 DEF Claimants
    <3> QED
      BY <1>a, <3>1, <3>2, <3>3 DEF Collisions
  <2> QED
    BY <2>1, <2>2
<1> HIDE DEF C, D
<1>2. AlikeOn(T, nodes, more, C, D)
  BY <1>a, <1>1 DEF AlikeOn
<1>3. Locate(nodes, C, e) = Locate(more, D, e)
  <2> HIDE DEF T
  <2>1. e \in T
    BY DEF T
  <2> QED
    BY <1>2, <2>1, WalksAgree
<1> QED
  BY <1>3 DEF Projection, C, D

-------------------------------------------------------------------------------
(* The events of a vault, all of them or those a replica knows: what a     *)
(* part of them says of each entry, and what authoring more of them        *)
(* changes.  Static facts about the operators of CausalGraph, on which     *)
(* the proofs about the steps rest.                                        *)

(* What is true of all events ever authored, whoever knows them.           *)

Part(G, K) == [i \in K |-> G[i]]

EntriesOf(G) == {G[i].entry : i \in DOMAIN G}

(* A location names a folder some event is about, or the top.              *)
Rooted(G, loc) == loc \in Location /\ loc.parent \in {Root} \cup EntriesOf(G)

EventSound(G, i) ==
  LET e == G[i]
      past == Past(G)
      b == e.bootstrap
  IN
  /\ e \in Event
  /\ e.parents \subseteq DOMAIN G
  /\ i \notin past[i]
  /\ \A p \in e.parents : G[p].entry = e.entry
  /\ Create(e.effect) <=> e.parents = {}
  /\ Create(e.effect) <=> i = b
  /\ b \in DOMAIN G /\ Create(G[b].effect) /\ G[b].entry = e.entry
  /\ ~ Create(e.effect) => b \in past[i]
  /\ e.effect = "set_content" => G[b].effect = "create_binary"
  /\ e.effect = "activity" => G[b].effect = "create_text"
  /\ \A p, q \in e.parents : p \notin past[q]
  /\ e.effect # "delete" => \A p \in e.parents : G[p].effect # "delete"
  /\ Placing(e.effect) => Rooted(G, e.loc)
  /\ e.effect # "activity" => past[i] \subseteq e.saw

OneRoot(G) ==
  \A i, j \in DOMAIN G :
    Create(G[i].effect) /\ Create(G[j].effect) /\ G[i].entry = G[j].entry => i = j

Sound(G) ==
  /\ DOMAIN G \subseteq Ids
  /\ \A i \in DOMAIN G : EventSound(G, i)
  /\ OneRoot(G)

(* The events of K whose past is in K too.                                 *)
Known(G, K) == {i \in K : Past(G)[i] \subseteq K}

-------------------------------------------------------------------------------
(* Knowing a part of the events.                                           *)

LEMMA FiniteIds == \A S \in SUBSET Ids : IsFiniteSet(S)
<1>1. IsFiniteSet(Ids) /\ Ids \subseteq Nat
  BY FamilyGraphAssumption, FS_Interval DEF Ids
<1> QED
  BY <1>1, FS_Subset

LEMMA SoundOver ==
  ASSUME NEW G, Sound(G)
  PROVE  /\ EventsOver(G, DOMAIN G)
         /\ Past(G) \in [DOMAIN G -> SUBSET DOMAIN G]
         /\ \A K \in SUBSET DOMAIN G : EventsOver(Part(G, K), DOMAIN G)
<1>1. IsFiniteSet(DOMAIN G) /\ \A i \in DOMAIN G : G[i].parents \subseteq DOMAIN G
  BY FiniteIds DEF Sound, EventSound
<1>2. EventsOver(G, DOMAIN G)
  BY <1>1 DEF EventsOver
<1>3. ASSUME NEW K \in SUBSET DOMAIN G
      PROVE  EventsOver(Part(G, K), DOMAIN G)
  <2>1. IsFiniteSet(K)
    BY <1>1, FS_Subset
  <2> QED
    BY <1>1, <2>1 DEF EventsOver, Part
<1> QED
  BY <1>2, <1>3, PastIsClosure

LEMMA PartPast ==
  ASSUME NEW G, Sound(G), NEW K \in SUBSET DOMAIN G
  PROVE  /\ DOMAIN Past(Part(G, K)) = K
         /\ \A i \in K : Past(Part(G, K))[i] \subseteq Past(G)[i]
         /\ \A i \in Known(G, K) : Past(Part(G, K))[i] = Past(G)[i]
         /\ Resolved(Part(G, K), Past(Part(G, K))) = Known(G, K)
<1> DEFINE H == Part(G, K)
<1>1. /\ EventsOver(G, DOMAIN G) /\ EventsOver(H, DOMAIN G)
      /\ Past(G) \in [DOMAIN G -> SUBSET DOMAIN G]
  BY SoundOver
<1>2. DOMAIN H = K /\ Extends(H, G) /\ \A i \in K : H[i] = G[i]
  BY DEF Part, Extends
<1> HIDE DEF H
<1>3. Past(H) \in [K -> SUBSET DOMAIN G]
  BY <1>1, <1>2, PastIsClosure
<1>4. ASSUME NEW i \in K
      PROVE  Past(H)[i] \subseteq Past(G)[i]
  <2>1. G[i].parents \subseteq Past(G)[i] /\ Closed(G, Past(G)[i])
    BY <1>1, PastIsClosure
  <2>2. H[i].parents \subseteq Past(G)[i] /\ Closed(H, Past(G)[i])
    BY <1>2, <2>1 DEF Closed
  <2> QED
    BY <1>1, <1>2, <2>2, PastIsClosure
<1>5. ASSUME NEW i \in K, Past(H)[i] \subseteq K
      PROVE  Past(H)[i] = Past(G)[i]
  <2>1. Past(H)[i] \cap DOMAIN G \subseteq DOMAIN H
    BY <1>2, <1>5
  <2> QED
    BY <1>1, <1>2, <2>1, PastAgrees
<1>6. \A i \in Known(G, K) : Past(H)[i] = Past(G)[i]
  BY <1>4, <1>5 DEF Known
<1>7. Resolved(H, Past(H)) = Known(G, K)
  BY <1>2, <1>4, <1>5 DEF Resolved, Known
<1> QED
  BY <1>3, <1>4, <1>6, <1>7 DEF H

(* All that precedes an event is about its entry.                          *)
LEMMA PastOfEntry ==
  ASSUME NEW G, Sound(G), NEW i \in DOMAIN G
  PROVE  \A j \in Past(G)[i] : j \in DOMAIN G /\ G[j].entry = G[i].entry
<1> DEFINE S == {j \in DOMAIN G : G[j].entry = G[i].entry}
<1>1. G[i].parents \subseteq S /\ Closed(G, S)
  BY DEF Sound, EventSound, Closed
<1>2. Past(G)[i] \subseteq S
  BY <1>1, SoundOver, PastIsClosure
<1> QED
  BY <1>2

(* What is known of the past of a known event is known.                    *)
LEMMA KnownIsClosed ==
  ASSUME NEW G, Sound(G), NEW K \in SUBSET DOMAIN G, NEW i \in Known(G, K)
  PROVE  Past(G)[i] \subseteq Known(G, K)
<1>1. i \in DOMAIN G /\ Past(G)[i] \subseteq K
  BY DEF Known
<1>2. \A j \in Past(G)[i] : Past(G)[j] \subseteq Past(G)[i]
  BY <1>1, SoundOver, PastTransitive
<1> QED
  BY <1>1, <1>2 DEF Known

(* Whatever a replica knows, however it came, it accepts.                  *)
LEMMA EveryPartAccepted ==
  ASSUME NEW G, Sound(G), NEW K \in SUBSET DOMAIN G
  PROVE  Accepts(Part(G, K))
<1> DEFINE H == Part(G, K)
           past == Past(H)
           resolved == Resolved(H, past)
<1>1. DOMAIN H = K /\ \A i \in K : H[i] = G[i]
  BY DEF Part
<1>2. /\ \A i \in K : past[i] \subseteq Past(G)[i]
      /\ \A i \in resolved : i \in K /\ past[i] = Past(G)[i] /\ past[i] \subseteq K
      /\ resolved = Known(G, K)
  BY PartPast DEF Known
<1> HIDE DEF H, past, resolved
<1>3. \A i \in K : EventSound(G, i) /\ i \in DOMAIN G
  BY DEF Sound
<1>4. \A i \in DOMAIN H : WellFormed(i, H[i]) /\ i \notin past[i]
  <2> SUFFICES ASSUME NEW i \in K
               PROVE  WellFormed(i, G[i]) /\ i \notin past[i]
    BY <1>1
  <2>1. EventSound(G, i)
    BY <1>3
  <2>2. G[i].parents \subseteq Past(G)[i]
    BY SoundOver, PastIsClosure
  <2> QED
    BY <1>2, <2>1, <2>2 DEF EventSound, WellFormed
<1>5. \A i, j \in K : G[i].entry = G[j].entry => G[i].bootstrap = G[j].bootstrap
  BY <1>3 DEF EventSound, Sound, OneRoot
<1>6. OneIdentity(H)
  BY <1>1, <1>3, <1>5 DEF OneIdentity, EventSound
<1>7. OneBinding(H)
  <2> SUFFICES ASSUME NEW i \in K, NEW j \in K, G[i].entry = G[j].entry
               PROVE  /\ ~ (/\ G[i].effect \in {"create_text", "activity"}
                            /\ G[j].effect = "set_content")
                      /\ G[i].effect = "activity" /\ Create(G[j].effect)
                           => G[j].effect = "create_text"
    BY <1>1 DEF OneBinding
  <2>1. /\ EventSound(G, i) /\ EventSound(G, j)
        /\ G[i].bootstrap = G[j].bootstrap
    BY <1>3, <1>5
  <2> QED
    BY <2>1 DEF EventSound, Create
<1>8. BootstrapsFit(H, resolved)
  BY <1>1, <1>2, <1>3 DEF BootstrapsFit, EventSound
<1>9. ASSUME NEW i \in resolved, ~ Create(H[i].effect)
      PROVE  FollowsItsPast(H, past, i)
  <2>1. i \in K /\ EventSound(G, i) /\ H[i] = G[i] /\ past[i] = Past(G)[i] /\ past[i] \subseteq K
    BY <1>1, <1>2, <1>3
  <2>2. G[i].parents \subseteq past[i]
    BY <2>1, SoundOver, PastIsClosure
  <2>3. \A p \in G[i].parents : p \in resolved /\ past[p] = Past(G)[p]
    BY <1>2, <2>1, <2>2, KnownIsClosed
  <2>4. G[i].bootstrap \in past[i] /\ H[G[i].bootstrap] = G[G[i].bootstrap]
    BY <1>1, <1>9, <2>1 DEF EventSound
  <2>5. \A p \in G[i].parents : H[p] = G[p]
    BY <1>1, <2>1, <2>2
  <2> QED
    BY <2>1, <2>3, <2>4, <2>5 DEF EventSound, FollowsItsPast
<1> QED
  BY <1>4, <1>6, <1>7, <1>8, <1>9 DEF Accepts, past, resolved, H

-------------------------------------------------------------------------------
(* The entries of a part of the events.                                    *)

Own(G, R, e) == {i \in R : G[i].entry = e}

PlacingOf(G, own) == Maximal(Past(G), {i \in own : Placing(G[i].effect)})

KindOf(effect) == IF effect = "create_folder" THEN "folder"
                  ELSE IF effect = "create_text" THEN "text"
                  ELSE "binary"

(* The node of an entry whose own events are these and whose root is b.    *)
NodeOf(G, own, b) ==
  [bootstrap |-> b,
   kind      |-> KindOf(G[b].effect),
   heads     |-> Maximal(Past(G), own),
   contents  |-> Maximal(Past(G), {i \in own : Writes(G[i].effect)}),
   locations |-> PlacingOf(G, own),
   preferred |-> G[Largest(PlacingOf(G, own))].loc,
   liveness  |-> Liveness(G, Maximal(Past(G), own))]

(* The events of an entry, complete with their pasts, and their root.      *)
Grown(G, own, b) ==
  /\ own \in SUBSET DOMAIN G
  /\ b \in own /\ Create(G[b].effect)
  /\ \A i \in own : /\ G[i].entry = G[b].entry
                    /\ G[i].bootstrap = b
                    /\ Create(G[i].effect) <=> i = b
                    /\ i # b => b \in Past(G)[i]
                    /\ Past(G)[i] \subseteq own

LEMMA OwnGrown ==
  ASSUME NEW G, Sound(G), NEW R \in SUBSET DOMAIN G,
         \A i \in R : Past(G)[i] \subseteq R,
         NEW i \in R
  PROVE  Grown(G, Own(G, R, G[i].entry), G[i].bootstrap)
<1> DEFINE own == Own(G, R, G[i].entry)
           b == G[i].bootstrap
<1>1. \A j \in DOMAIN G : EventSound(G, j)
  BY DEF Sound
<1>2. i \in DOMAIN G /\ i \in own /\ own \in SUBSET DOMAIN G
  BY DEF Own
<1>3. b \in own /\ Create(G[b].effect)
  <2>1. b \in R
    BY <1>1, <1>2 DEF EventSound
  <2> QED
    BY <1>1, <1>2, <2>1 DEF EventSound, Own
<1>4. ASSUME NEW j \in own
      PROVE  /\ G[j].entry = G[b].entry
             /\ G[j].bootstrap = b
             /\ Create(G[j].effect) <=> j = b
             /\ j # b => b \in Past(G)[j]
             /\ Past(G)[j] \subseteq own
  <2>1. j \in DOMAIN G /\ G[j].entry = G[i].entry /\ G[b].entry = G[i].entry
    BY <1>3 DEF Own
  <2>2. /\ G[j].bootstrap \in DOMAIN G /\ Create(G[G[j].bootstrap].effect)
        /\ G[G[j].bootstrap].entry = G[j].entry
    BY <1>1, <2>1 DEF EventSound
  <2>3. G[j].bootstrap = b
    BY <1>2, <1>3, <2>1, <2>2 DEF Sound, OneRoot
  <2>4. Create(G[j].effect) <=> j = b
    BY <1>1, <2>1, <2>3 DEF EventSound
  <2>5. j # b => b \in Past(G)[j]
    BY <1>1, <2>1, <2>3, <2>4 DEF EventSound
  <2>6. Past(G)[j] \subseteq own
    BY <2>1, PastOfEntry DEF Own
  <2> QED
    BY <2>1, <2>3, <2>4, <2>5, <2>6
<1> QED
  BY <1>2, <1>3, <1>4 DEF Grown

(* Each event of an entry is a head or in the past of one; the same of the *)
(* events that place it, and of those that write it.                       *)
LEMMA HeadsCover ==
  ASSUME NEW G, Sound(G), NEW S \in SUBSET DOMAIN G, NEW x \in S
  PROVE  \E m \in Maximal(Past(G), S) : x = m \/ x \in Past(G)[m]
<1>1. IsFiniteSet(S)
  BY FiniteIds DEF Sound
<1>2. \A i \in S : i \notin Past(G)[i]
  BY DEF Sound, EventSound
<1>3. \A i, j \in S : j \in Past(G)[i] => Past(G)[j] \subseteq Past(G)[i]
  BY SoundOver, PastTransitive
<1> QED
  BY <1>1, <1>2, <1>3, MaximalAbove

LEMMA LargestOf ==
  ASSUME NEW S \in SUBSET Ids, S # {}
  PROVE  Largest(S) \in S
<1>1. S \subseteq Nat /\ MaxEvents \in Nat /\ \A x \in S : x <= MaxEvents
  BY FamilyGraphAssumption DEF Ids
<1> QED
  BY <1>1, LargestIsIn

LEMMA PlacedByOwn ==
  ASSUME NEW G, Sound(G), NEW own, NEW b, Grown(G, own, b)
  PROVE  /\ PlacingOf(G, own) \subseteq own
         /\ Largest(PlacingOf(G, own)) \in own
         /\ Placing(G[Largest(PlacingOf(G, own))].effect)
<1> DEFINE S == {i \in own : Placing(G[i].effect)}
<1>1. b \in S /\ S \in SUBSET DOMAIN G
  BY DEF Grown, Placing
<1>2. PICK m \in Maximal(Past(G), S) : b = m \/ b \in Past(G)[m]
  BY <1>1, HeadsCover
<1>3. Maximal(Past(G), S) \subseteq S
  BY DEF Maximal
<1>4. PlacingOf(G, own) \subseteq S /\ PlacingOf(G, own) # {} /\ S \subseteq Ids
  BY <1>1, <1>2, <1>3 DEF PlacingOf, Sound
<1> HIDE DEF S
<1>5. Largest(PlacingOf(G, own)) \in S
  BY <1>4, LargestOf
<1> QED
  BY <1>4, <1>5 DEF S

(* Entry finds the root and reads the rest from the entry's own events,    *)
(* whatever other events it is given.                                      *)
LEMMA EntryIsNode ==
  ASSUME NEW G, Sound(G), NEW own, NEW b, Grown(G, own, b),
         NEW ev, NEW past, NEW R, NEW e,
         own = {i \in R : ev[i].entry = e},
         \A i \in own : ev[i] = G[i] /\ past[i] = Past(G)[i]
  PROVE  Entry(ev, past, R, e) = NodeOf(G, own, b)
<1> DEFINE own2 == {i \in R : ev[i].entry = e}
           root == CHOOSE i \in own2 : Create(ev[i].effect)
           locs == Maximal(past, {i \in own2 : Placing(ev[i].effect)})
<1>1. root = b
  <2>1. ASSUME NEW i \in own2
        PROVE  Create(ev[i].effect) <=> i = b
    <3>1. i \in own /\ ev[i] = G[i]
      OBVIOUS
    <3>2. Create(G[i].effect) <=> i = b
      BY <3>1 DEF Grown
    <3> HIDE DEF own2
    <3> QED
      BY <3>1, <3>2
  <2>2. b \in own2
    BY DEF Grown
  <2> QED
    BY <2>1, <2>2
<1>2. {i \in own2 : Placing(ev[i].effect)} = {i \in own : Placing(G[i].effect)}
  OBVIOUS
<1>3. {i \in own2 : Writes(ev[i].effect)} = {i \in own : Writes(G[i].effect)}
  OBVIOUS
<1>4. \A S \in SUBSET own : Maximal(past, S) = Maximal(Past(G), S)
  BY DEF Maximal
<1>5. locs = PlacingOf(G, own)
  BY <1>2, <1>4 DEF PlacingOf
<1>6. Maximal(past, own2) = Maximal(Past(G), own)
  BY <1>4
<1>7. /\ Maximal(past, {i \in own2 : Writes(ev[i].effect)})
           = Maximal(Past(G), {i \in own : Writes(G[i].effect)})
  BY <1>3, <1>4
<1>8. ev[Largest(locs)] = G[Largest(PlacingOf(G, own))]
  BY <1>5, PlacedByOwn
<1>9. ev[b] = G[b]
  BY DEF Grown
<1>10. Liveness(ev, Maximal(past, own2)) = Liveness(G, Maximal(Past(G), own))
  <2> DEFINE heads == Maximal(Past(G), own)
  <2>1. heads \subseteq own
    BY DEF Maximal
  <2> HIDE DEF heads
  <2>2. {i \in heads : ev[i].effect = "delete"} = {i \in heads : G[i].effect = "delete"}
    BY <2>1
  <2>3. Liveness(ev, heads) = Liveness(G, heads)
    BY <2>2 DEF Liveness
  <2> QED
    BY <1>6, <2>3 DEF heads
<1> HIDE DEF root, locs
<1>11. Entry(ev, past, R, e) =
         [bootstrap |-> root,
          kind      |-> IF ev[root].effect = "create_folder" THEN "folder"
                        ELSE IF ev[root].effect = "create_text" THEN "text"
                        ELSE "binary",
          heads     |-> Maximal(past, own2),
          contents  |-> Maximal(past, {i \in own2 : Writes(ev[i].effect)}),
          locations |-> locs,
          preferred |-> ev[Largest(locs)].loc,
          liveness  |-> Liveness(ev, Maximal(past, own2))]
  BY DEF Entry, root, locs
<1> HIDE DEF own2
<1> QED
  BY <1>1, <1>5, <1>6, <1>7, <1>8, <1>9, <1>10, <1>11 DEF NodeOf, KindOf

-------------------------------------------------------------------------------
(* The view of a part of the events, told from all of them.                *)

EntriesIn(G, R) == {G[i].entry : i \in R}

RootOf(G, e) == CHOOSE b \in DOMAIN G : Create(G[b].effect) /\ G[b].entry = e

Vault(G, R) == [e \in EntriesIn(G, R) |-> NodeOf(G, Own(G, R, e), RootOf(G, e))]

(* A set of events that holds the past of each.                            *)
Complete(G, R) == R \in SUBSET DOMAIN G /\ \A i \in R : Past(G)[i] \subseteq R

LEMMA KnownComplete ==
  ASSUME NEW G, Sound(G), NEW K \in SUBSET DOMAIN G
  PROVE  Complete(G, Known(G, K)) /\ Known(G, K) \subseteq K
BY KnownIsClosed DEF Complete, Known

LEMMA RootIs ==
  ASSUME NEW G, Sound(G), NEW i \in DOMAIN G
  PROVE  RootOf(G, G[i].entry) = G[i].bootstrap
<1> DEFINE e == G[i].entry
           b == G[i].bootstrap
<1>1. b \in DOMAIN G /\ Create(G[b].effect) /\ G[b].entry = e
  BY DEF Sound, EventSound
<1>2. \A c \in DOMAIN G : Create(G[c].effect) /\ G[c].entry = e => c = b
  BY <1>1 DEF Sound, OneRoot
<1> HIDE DEF e, b
<1>3. RootOf(G, e) = b
  BY <1>1, <1>2 DEF RootOf
<1> QED
  BY <1>3 DEF e, b

LEMMA VaultGrown ==
  ASSUME NEW G, Sound(G), NEW R, Complete(G, R), NEW e \in EntriesIn(G, R)
  PROVE  Grown(G, Own(G, R, e), RootOf(G, e))
<1>1. PICK i \in R : e = G[i].entry
  BY DEF EntriesIn
<1>2. R \in SUBSET DOMAIN G /\ i \in DOMAIN G
  BY DEF Complete
<1>3. Grown(G, Own(G, R, e), G[i].bootstrap)
  BY <1>1, <1>2, OwnGrown DEF Complete
<1> QED
  BY <1>1, <1>2, <1>3, RootIs

LEMMA PartEntries ==
  ASSUME NEW G, Sound(G), NEW K \in SUBSET DOMAIN G
  PROVE  /\ Entries(Part(G, K)) = Vault(G, Known(G, K))
         /\ Pending(Part(G, K)) = K \ Known(G, K)
<1> DEFINE H == Part(G, K)
           R == Known(G, K)
           past == Past(H)
<1>1. DOMAIN H = K /\ \A i \in K : H[i] = G[i]
  BY DEF Part
<1>2. /\ Resolved(H, past) = R /\ Complete(G, R) /\ R \subseteq K
      /\ \A i \in R : past[i] = Past(G)[i]
  BY PartPast, KnownComplete
<1> HIDE DEF H, R, past
<1>3. Created(H, R) = EntriesIn(G, R)
  <2>1. ASSUME NEW i \in R
        PROVE  \E b \in R : Create(G[b].effect) /\ G[b].entry = G[i].entry
    <3>1. Grown(G, Own(G, R, G[i].entry), G[i].bootstrap)
      BY <1>2, OwnGrown DEF Complete
    <3> QED
      BY <3>1 DEF Grown, Own
  <2>2. \A i \in R : H[i] = G[i]
    BY <1>1, <1>2
  <2> QED
    BY <2>1, <2>2 DEF Created, EntriesIn
<1>4. ASSUME NEW e \in EntriesIn(G, R)
      PROVE  Entry(H, past, R, e) = NodeOf(G, Own(G, R, e), RootOf(G, e))
  <2>1. Grown(G, Own(G, R, e), RootOf(G, e))
    BY <1>2, VaultGrown
  <2>2. Own(G, R, e) = {i \in R : H[i].entry = e}
    BY <1>1, <1>2 DEF Own
  <2>3. \A i \in Own(G, R, e) : H[i] = G[i] /\ past[i] = Past(G)[i]
    BY <1>1, <1>2 DEF Own
  <2> HIDE DEF Own
  <2> QED
    BY <2>1, <2>2, <2>3, EntryIsNode
<1>5. Entries(H) = [e \in Created(H, R) |-> Entry(H, past, R, e)]
  BY <1>2 DEF Entries, past
<1>6. Entries(H) = Vault(G, R)
  BY <1>3, <1>4, <1>5 DEF Vault
<1>7. Pending(H) = K \ R
  BY <1>1, <1>2 DEF Pending, past
<1> QED
  BY <1>6, <1>7 DEF H, R

(* An entry derived from its own events alone is the entry of the vault.   *)
LEMMA OwnEntry ==
  ASSUME NEW G, Sound(G), NEW K \in SUBSET DOMAIN G,
         NEW e \in EntriesIn(G, Known(G, K))
  PROVE  Entries(OwnEvents(Part(G, K), e))[e] = Vault(G, Known(G, K))[e]
<1> DEFINE R == Known(G, K)
           L == {i \in K : G[i].entry = e}
           Q == Known(G, L)
<1>1. OwnEvents(Part(G, K), e) = Part(G, L)
  BY DEF OwnEvents, Part
<1>2. Own(G, R, e) = Own(G, Q, e)
  <2>1. \A i \in DOMAIN G : \A j \in Past(G)[i] : G[j].entry = G[i].entry
    BY PastOfEntry
  <2> QED
    BY <2>1 DEF Own, Known
<1>3. e \in EntriesIn(G, Q)
  BY <1>2 DEF Own, EntriesIn
<1>4. L \in SUBSET DOMAIN G
  OBVIOUS
<1>5. Entries(Part(G, L)) = Vault(G, Q)
  BY <1>4, PartEntries
<1> HIDE DEF R, Q
<1>6. Vault(G, Q)[e] = Vault(G, R)[e]
  BY <1>2, <1>3 DEF Vault, R
<1> QED
  BY <1>1, <1>5, <1>6 DEF R

(* What a row of the vault says of its entry.                              *)
LEMMA VaultNode ==
  ASSUME NEW G, Sound(G), NEW R, Complete(G, R), NEW e \in EntriesIn(G, R)
  PROVE  LET n == Vault(G, R)[e]
             own == Own(G, R, e)
             b == RootOf(G, e)
         IN /\ e \in EntryIds
            /\ n = NodeOf(G, own, b) /\ b \in own /\ own \subseteq R
            /\ n.heads \subseteq own /\ n.heads # {}
            /\ \A i \in own : i \in n.heads \/ \E h \in n.heads : i \in Past(G)[h]
            /\ \A h, k \in n.heads : h \notin Past(G)[k]
            /\ n.liveness \in {"live", "deleted", "delete_conflict"}
            /\ n.liveness = "live" <=> \A h \in n.heads : G[h].effect # "delete"
            /\ Rooted(G, n.preferred)
<1> DEFINE own == Own(G, R, e)
           b == RootOf(G, e)
           heads == Maximal(Past(G), own)
<1>1. Grown(G, own, b)
  BY VaultGrown
<1>2. Vault(G, R)[e] = NodeOf(G, own, b)
  BY DEF Vault
<1>3. b \in own /\ own \subseteq R /\ R \subseteq DOMAIN G /\ G[b].entry = e
  BY <1>1 DEF Grown, Own, Complete
<1>4. e \in EntryIds
  BY <1>3 DEF Sound, EventSound, Event
<1>5. heads \subseteq own /\ \A h, k \in heads : h \notin Past(G)[k]
  BY DEF Maximal
<1>6. \A i \in own : \E h \in heads : i = h \/ i \in Past(G)[h]
  BY <1>3, HeadsCover
<1>7. /\ Largest(PlacingOf(G, own)) \in own
      /\ Placing(G[Largest(PlacingOf(G, own))].effect)
  BY <1>1, PlacedByOwn
<1>8. Rooted(G, G[Largest(PlacingOf(G, own))].loc)
  BY <1>3, <1>7 DEF Sound, EventSound
<1> HIDE DEF own, b, heads
<1>9. /\ Liveness(G, heads) \in {"live", "deleted", "delete_conflict"}
      /\ Liveness(G, heads) = "live" <=> \A h \in heads : G[h].effect # "delete"
  BY DEF Liveness
<1>10. /\ NodeOf(G, own, b).heads = heads
       /\ NodeOf(G, own, b).liveness = Liveness(G, heads)
       /\ NodeOf(G, own, b).preferred = G[Largest(PlacingOf(G, own))].loc
  BY DEF NodeOf, heads
<1>11. heads # {}
  BY <1>3, <1>6
<1> QED
  BY <1>2, <1>3, <1>4, <1>5, <1>6, <1>8, <1>9, <1>10, <1>11 DEF own, b

LEMMA VaultFinite ==
  ASSUME NEW G, Sound(G), NEW R, Complete(G, R)
  PROVE  /\ DOMAIN Vault(G, R) = EntriesIn(G, R)
         /\ EntriesIn(G, R) \subseteq EntryIds
         /\ IsFiniteSet(DOMAIN Vault(G, R))
<1>1. EntriesIn(G, R) \subseteq EntryIds
  BY DEF EntriesIn, Complete, Sound, EventSound, Event
<1>2. IsFiniteSet(EntryIds)
  BY FamilyGraphAssumption, FS_Interval DEF EntryIds
<1> QED
  BY <1>1, <1>2, FS_Subset DEF Vault

(* The selector of the indexed path finds the collisions of the whole.     *)
LEMMA IndexedIsWhole ==
  ASSUME NEW nodes, DOMAIN nodes \subseteq EntryIds, NEW e
  PROVE  IndexedProjection(nodes, e) = Projection(nodes, e)
<1> DEFINE C == {f \in DOMAIN nodes :
                   /\ nodes[f].liveness = "live"
                   /\ SiblingWinner(nodes, nodes[f].preferred) < f}
<1>1. ASSUME NEW f \in DOMAIN nodes
      PROVE  f \in C <=> f \in Collisions(nodes)
  <2> DEFINE claim == Claimants(nodes, nodes[f].preferred)
             w == SiblingWinner(nodes, nodes[f].preferred)
  <2>1. claim \subseteq DOMAIN nodes /\ claim \subseteq Nat
    BY FamilyGraphAssumption DEF Claimants, EntryIds
  <2>2. CASE nodes[f].liveness # "live"
    BY <2>2 DEF Collisions, Claimants
  <2>3. CASE nodes[f].liveness = "live"
    <3>1. f \in claim
      BY <2>3 DEF Claimants
    <3>2. \E k \in 0 .. f : k \in claim /\ \A j \in 0 .. k - 1 : j \notin claim
      <4> HIDE DEF claim
      <4>1. f \in Nat /\ \E k \in 0 .. f : k \in claim
        BY <2>1, <3>1
      <4> QED
        BY <4>1, FirstOf
    <3>3. \E k \in claim : \A j \in claim : k <= j
      BY <2>1, <3>2
    <3>4. w \in claim /\ \A j \in claim : w <= j
      BY <3>3 DEF SiblingWinner
    <3>5. f \in C <=> w < f
      BY <2>3
    <3>6. f \in Collisions(nodes) <=> \E g \in claim : g < f
      BY <2>1, <3>1 DEF Collisions
    <3> HIDE DEF w, claim
    <3> QED
      BY <2>1, <3>1, <3>4, <3>5, <3>6
  <2> QED
    BY <2>2, <2>3
<1>2. C = Collisions(nodes)
  BY <1>1 DEF Collisions
<1> QED
  BY <1>2 DEF IndexedProjection, Projection

-------------------------------------------------------------------------------
(* The events of a command.                                                *)

(* It creates an entry nobody has heard of, or                             *)
Starts(G, ev, i) ==
  /\ Create(ev[i].effect) /\ ev[i].parents = {} /\ ev[i].bootstrap = i
  /\ ev[i].entry \notin EntriesOf(G)

(* gives the text it creates its content, or                               *)
FirstContent(ev, i) ==
  LET b == ev[i].bootstrap IN
    /\ ev[i].effect = "activity"
    /\ b \in DOMAIN ev /\ b # i /\ ev[b].effect = "create_text"
    /\ ev[i].parents = {b} /\ ev[i].entry = ev[b].entry

(* changes an entry, over events that do not follow one another.           *)
Changes(G, e) ==
  /\ ~ Create(e.effect)
  /\ e.parents \subseteq DOMAIN G /\ e.parents # {}
  /\ \A p \in e.parents : G[p].entry = e.entry
  /\ e.bootstrap \in DOMAIN G
  /\ Create(G[e.bootstrap].effect) /\ G[e.bootstrap].entry = e.entry
  /\ e.bootstrap \in e.parents \/ \E p \in e.parents : e.bootstrap \in Past(G)[p]
  /\ e.effect = "set_content" => G[e.bootstrap].effect = "create_binary"
  /\ e.effect = "activity" => G[e.bootstrap].effect = "create_text"
  /\ \A p, q \in e.parents : p \notin Past(G)[q]
  /\ e.effect # "delete" => \A p \in e.parents : G[p].effect # "delete"
  /\ \A p \in e.parents : {p} \cup Past(G)[p] \subseteq e.saw

Fits(G, ev) ==
  /\ DOMAIN ev \subseteq Ids
  /\ \A i \in DOMAIN ev :
       /\ ev[i] \in Event
       /\ Placing(ev[i].effect) => Rooted(G, ev[i].loc)
       /\ Starts(G, ev, i) \/ FirstContent(ev, i) \/ Changes(G, ev[i])
  /\ \A i, j \in DOMAIN ev : Create(ev[i].effect) /\ Create(ev[j].effect) => i = j

Apart(G, ev) == DOMAIN ev \cap DOMAIN G = {}

LEMMA BothIs ==
  ASSUME NEW f, NEW g
  PROVE  /\ DOMAIN Both(f, g) = DOMAIN f \cup DOMAIN g
         /\ \A k \in DOMAIN f : Both(f, g)[k] = f[k]
         /\ \A k \in DOMAIN g \ DOMAIN f : Both(f, g)[k] = g[k]
BY DEF Both

(* Nobody's past changes when events are authored, and what a new event    *)
(* follows is what it names and the past of that.                          *)
LEMMA PastGrows ==
  ASSUME NEW G, Sound(G), NEW ev, Fits(G, ev), Apart(G, ev)
  PROVE  LET W == Both(ev, G) IN
         /\ EventsOver(W, DOMAIN W) /\ Extends(G, W)
         /\ \A i \in DOMAIN G : Past(W)[i] = Past(G)[i]
         /\ \A i \in DOMAIN ev :
              /\ Starts(G, ev, i) => Past(W)[i] = {}
              /\ FirstContent(ev, i) => Past(W)[i] = {ev[i].bootstrap}
              /\ Changes(G, ev[i]) =>
                   Past(W)[i] = ev[i].parents \cup UNION {Past(G)[p] : p \in ev[i].parents}
<1> DEFINE W == Both(ev, G)
<1>1. /\ DOMAIN W = DOMAIN ev \cup DOMAIN G
      /\ \A i \in DOMAIN ev : W[i] = ev[i]
      /\ \A i \in DOMAIN G : W[i] = G[i]
  BY DEF Both, Apart
<1> HIDE DEF W
<1>2. EventsOver(W, DOMAIN W)
  <2>1. DOMAIN W \in SUBSET Ids
    BY <1>1 DEF Sound, Fits
  <2>2. \A i \in DOMAIN G : G[i].parents \subseteq DOMAIN G
    BY DEF Sound, EventSound
  <2>3. \A i \in DOMAIN ev : ev[i].parents \subseteq DOMAIN W
    BY <1>1 DEF Fits, Starts, FirstContent, Changes
  <2> QED
    BY <1>1, <2>1, <2>2, <2>3, FiniteIds DEF EventsOver
<1>3. Extends(G, W)
  BY <1>1 DEF Extends
<1>4. ASSUME NEW i \in DOMAIN G
      PROVE  Past(W)[i] = Past(G)[i]
  <2>1. EventsOver(G, DOMAIN W)
    <3>1. EventsOver(G, DOMAIN G)
      BY SoundOver
    <3> QED
      BY <1>1, <3>1 DEF EventsOver
  <2>2. Past(G)[i] \cap DOMAIN W \subseteq DOMAIN G
    BY SoundOver
  <2> QED
    BY <1>2, <1>3, <2>1, <2>2, PastAgrees
<1>5. \A i \in DOMAIN ev : \A j :
        j \in Past(W)[i] <=>
          \/ j \in ev[i].parents
          \/ \E p \in ev[i].parents \cap DOMAIN W : j \in Past(W)[p]
  BY <1>1, <1>2, PastUnfolds
<1>6. \A i \in DOMAIN ev : Past(W)[i] \in SUBSET DOMAIN W
  BY <1>1, <1>2, PastIsClosure
<1>7. ASSUME NEW i \in DOMAIN ev, ev[i].parents = {}
      PROVE  Past(W)[i] = {}
  BY <1>5, <1>7
<1>8. ASSUME NEW i \in DOMAIN ev, FirstContent(ev, i)
      PROVE  Past(W)[i] = {ev[i].bootstrap}
  <2> DEFINE b == ev[i].bootstrap
  <2>1. b \in DOMAIN ev /\ ev[b].effect = "create_text" /\ ev[i].parents = {b}
    BY <1>8 DEF FirstContent
  <2>2. Starts(G, ev, b)
    BY <2>1 DEF Fits, FirstContent, Changes, Create
  <2>3. Past(W)[b] = {}
    BY <1>7, <2>1, <2>2 DEF Starts
  <2> HIDE DEF b
  <2>4. Past(W)[i] = {b}
    BY <1>1, <1>5, <1>6, <2>1, <2>3
  <2> QED
    BY <2>4 DEF b
<1>9. ASSUME NEW i \in DOMAIN ev, Changes(G, ev[i])
      PROVE  Past(W)[i] = ev[i].parents \cup UNION {Past(G)[p] : p \in ev[i].parents}
  <2> DEFINE P == ev[i].parents
  <2>1. P \subseteq DOMAIN G /\ \A p \in P : Past(W)[p] = Past(G)[p] /\ p \in DOMAIN W
    BY <1>1, <1>4, <1>9 DEF Changes
  <2>2. \A j : j \in Past(W)[i] <=> j \in P \/ \E p \in P : j \in Past(G)[p]
    BY <1>5, <2>1
  <2> HIDE DEF P
  <2>3. \A j : j \in Past(W)[i] <=> j \in P \cup UNION {Past(G)[p] : p \in P}
    BY <2>2
  <2>4. Past(W)[i] = P \cup UNION {Past(G)[p] : p \in P}
    BY <1>6, <2>3
  <2> QED
    BY <2>4 DEF P
<1> QED
  BY <1>2, <1>3, <1>4, <1>7, <1>8, <1>9 DEF W, Starts

LEMMA SoundGrows ==
  ASSUME NEW G, Sound(G), NEW ev, Fits(G, ev), Apart(G, ev)
  PROVE  Sound(Both(ev, G))
<1> DEFINE W == Both(ev, G)
<1>1. /\ DOMAIN W = DOMAIN ev \cup DOMAIN G
      /\ \A i \in DOMAIN ev : W[i] = ev[i] /\ i \notin DOMAIN G
      /\ \A i \in DOMAIN G : W[i] = G[i]
  BY DEF Both, Apart
<1>2. /\ \A i \in DOMAIN G : Past(W)[i] = Past(G)[i]
      /\ \A i \in DOMAIN ev :
           /\ Starts(G, ev, i) => Past(W)[i] = {}
           /\ FirstContent(ev, i) => Past(W)[i] = {ev[i].bootstrap}
           /\ Changes(G, ev[i]) =>
                Past(W)[i] = ev[i].parents \cup UNION {Past(G)[p] : p \in ev[i].parents}
  BY PastGrows
<1>3. Past(G) \in [DOMAIN G -> SUBSET DOMAIN G]
  BY SoundOver
<1> HIDE DEF W
<1>4. \A loc : Rooted(G, loc) => Rooted(W, loc)
  BY <1>1 DEF Rooted, EntriesOf
<1>5. ASSUME NEW i \in DOMAIN G
      PROVE  EventSound(W, i)
  <2>1. EventSound(G, i)
    BY DEF Sound
  <2>2. /\ W[i] = G[i] /\ Past(W)[i] = Past(G)[i]
        /\ \A p \in DOMAIN G : W[p] = G[p] /\ Past(W)[p] = Past(G)[p] /\ p \in DOMAIN W
    BY <1>1, <1>2
  <2> QED
    BY <2>1, <2>2, <1>4 DEF EventSound
<1>6. ASSUME NEW i \in DOMAIN ev
      PROVE  EventSound(W, i)
  <2>1. ev[i] \in Event /\ (Placing(ev[i].effect) => Rooted(W, ev[i].loc))
    BY <1>4 DEF Fits
  <2>2. W[i] = ev[i] /\ i \in DOMAIN W
    BY <1>1
  <2>3. CASE Starts(G, ev, i)
    BY <1>2, <2>1, <2>2, <2>3 DEF Starts, EventSound, Create
  <2>4. CASE FirstContent(ev, i)
    <3> DEFINE b == ev[i].bootstrap
    <3>1. /\ b \in DOMAIN ev /\ b # i /\ ev[b].effect = "create_text"
          /\ ev[i].effect = "activity" /\ ev[i].parents = {b} /\ ev[i].entry = ev[b].entry
      BY <2>4 DEF FirstContent
    <3>2. Starts(G, ev, b)
      BY <3>1 DEF Fits, FirstContent, Changes, Create
    <3>3. Past(W)[b] = {} /\ Past(W)[i] = {b} /\ W[b] = ev[b] /\ b \in DOMAIN W
      BY <1>1, <1>2, <2>4, <3>1, <3>2
    <3> QED
      BY <2>1, <2>2, <3>1, <3>3 DEF EventSound, Create
  <2>5. CASE Changes(G, ev[i])
    <3> DEFINE e == ev[i]
               b == e.bootstrap
    <3>1. \A p \in DOMAIN G : W[p] = G[p] /\ Past(W)[p] = Past(G)[p] /\ p \in DOMAIN W
      BY <1>1, <1>2
    <3>2. Past(W)[i] = e.parents \cup UNION {Past(G)[p] : p \in e.parents}
      BY <1>2, <2>5
    <3>3. /\ ~ Create(e.effect) /\ e.parents \subseteq DOMAIN G /\ e.parents # {}
          /\ \A p \in e.parents : G[p].entry = e.entry
          /\ b \in DOMAIN G /\ Create(G[b].effect) /\ G[b].entry = e.entry
          /\ b \in e.parents \/ \E p \in e.parents : b \in Past(G)[p]
          /\ e.effect = "set_content" => G[b].effect = "create_binary"
          /\ e.effect = "activity" => G[b].effect = "create_text"
          /\ \A p, q \in e.parents : p \notin Past(G)[q]
          /\ e.effect # "delete" => \A p \in e.parents : G[p].effect # "delete"
          /\ \A p \in e.parents : {p} \cup Past(G)[p] \subseteq e.saw
      BY <2>5 DEF Changes
    <3>4. Past(W)[i] \subseteq DOMAIN G /\ i \notin DOMAIN G
      BY <1>1, <1>3, <3>2, <3>3
    <3>5. Past(W)[i] \subseteq e.saw /\ b \in Past(W)[i]
      BY <3>2, <3>3
    <3> HIDE DEF e, b
    <3>6. W[i] = e /\ e \in Event /\ (Placing(e.effect) => Rooted(W, e.loc)) /\ b = e.bootstrap
      BY <2>1, <2>2 DEF e, b
    <3> QED
      BY <3>1, <3>3, <3>4, <3>5, <3>6 DEF EventSound
  <2> QED
    BY <2>3, <2>4, <2>5 DEF Fits
<1>7. OneRoot(W)
  <2> SUFFICES ASSUME NEW i \in DOMAIN W, NEW j \in DOMAIN W,
                      Create(W[i].effect), Create(W[j].effect), W[i].entry = W[j].entry
               PROVE  i = j
    BY DEF OneRoot
  <2>1. \A k \in DOMAIN ev : Create(ev[k].effect) => ev[k].entry \notin EntriesOf(G)
    BY DEF Fits, Starts, FirstContent, Changes, Create
  <2>2. CASE i \in DOMAIN G /\ j \in DOMAIN G
    BY <1>1, <2>2 DEF Sound, OneRoot
  <2>3. CASE i \in DOMAIN ev /\ j \in DOMAIN ev
    BY <1>1, <2>3 DEF Fits
  <2>4. CASE i \in DOMAIN G /\ j \in DOMAIN ev
    BY <1>1, <2>1, <2>4 DEF EntriesOf
  <2>5. CASE i \in DOMAIN ev /\ j \in DOMAIN G
    BY <1>1, <2>1, <2>5 DEF EntriesOf
  <2> QED
    BY <1>1, <2>2, <2>3, <2>4, <2>5
<1>8. DOMAIN W \subseteq Ids
  BY <1>1 DEF Sound, Fits
<1> QED
  BY <1>1, <1>5, <1>6, <1>7, <1>8 DEF Sound, W

(* The entries two sets of events create are different.                    *)
CreateApart(ev, ev2) ==
  \A i \in DOMAIN ev, j \in DOMAIN ev2 :
    Create(ev[i].effect) /\ Create(ev2[j].effect) => ev[i].entry # ev2[j].entry

(* The events of an open command stay good when another one is stored.     *)
LEMMA FitsStays ==
  ASSUME NEW G, Sound(G), NEW ev, Fits(G, ev),
         NEW ev2, Fits(G, ev2), Apart(G, ev2), CreateApart(ev, ev2)
  PROVE  Fits(Both(ev2, G), ev)
<1> DEFINE W == Both(ev2, G)
<1>1. /\ DOMAIN W = DOMAIN ev2 \cup DOMAIN G
      /\ \A i \in DOMAIN ev2 : W[i] = ev2[i]
      /\ \A i \in DOMAIN G : W[i] = G[i]
  BY DEF Both, Apart
<1>2. \A i \in DOMAIN G : Past(W)[i] = Past(G)[i]
  BY PastGrows
<1> HIDE DEF W
<1>3. \A loc : Rooted(G, loc) => Rooted(W, loc)
  BY <1>1 DEF Rooted, EntriesOf
<1>4. \A j \in DOMAIN ev2 :
        \/ ev2[j].entry \in EntriesOf(G)
        \/ \E k \in DOMAIN ev2 : Create(ev2[k].effect) /\ ev2[k].entry = ev2[j].entry
  <2> TAKE j \in DOMAIN ev2
  <2>1. CASE Starts(G, ev2, j)
    BY <2>1 DEF Starts
  <2>2. CASE FirstContent(ev2, j)
    BY <2>2 DEF FirstContent, Create
  <2>3. CASE Changes(G, ev2[j])
    BY <2>3 DEF Changes, EntriesOf
  <2> QED
    BY <2>1, <2>2, <2>3 DEF Fits
<1>5. ASSUME NEW i \in DOMAIN ev
      PROVE  /\ Starts(G, ev, i) => Starts(W, ev, i)
             /\ Changes(G, ev[i]) => Changes(W, ev[i])
  <2>1. ASSUME Starts(G, ev, i)
        PROVE  Starts(W, ev, i)
    <3>1. Create(ev[i].effect) /\ ev[i].entry \notin EntriesOf(G)
      BY <2>1 DEF Starts
    <3>2. \A j \in DOMAIN ev2 : ev2[j].entry # ev[i].entry
      BY <1>4, <3>1 DEF CreateApart
    <3>3. ev[i].entry \notin EntriesOf(W)
      BY <1>1, <3>1, <3>2 DEF EntriesOf
    <3> QED
      BY <2>1, <3>3 DEF Starts
  <2>2. ASSUME Changes(G, ev[i])
        PROVE  Changes(W, ev[i])
    <3>1. \A p \in DOMAIN G : W[p] = G[p] /\ Past(W)[p] = Past(G)[p] /\ p \in DOMAIN W
      BY <1>1, <1>2
    <3> QED
      BY <2>2, <3>1 DEF Changes
  <2> QED
    BY <2>1, <2>2
<1> QED
  BY <1>3, <1>5 DEF Fits, W

-------------------------------------------------------------------------------
(* What a command does to the view of its replica.                         *)

(* What the events of a command do to the part of the graph a replica has. *)
GrownBy(G, ev, K) ==
  /\ Both(ev, Part(G, K)) = Part(Both(ev, G), K \cup DOMAIN ev)
  /\ Both(Part(G, K), ev) = Part(Both(ev, G), K \cup DOMAIN ev)
  /\ K \cup DOMAIN ev \in SUBSET DOMAIN Both(ev, G)
  /\ Known(Both(ev, G), K \cup DOMAIN ev) = Known(G, K) \cup DOMAIN ev
  /\ (K \cup DOMAIN ev) \ Known(Both(ev, G), K \cup DOMAIN ev) = K \ Known(G, K)

(* The changes follow only what the replica has understood.                *)
OverKnown(ev, G, R) ==
  \A i \in DOMAIN ev : Changes(G, ev[i]) => ev[i].parents \subseteq R

LEMMA KnownGrows ==
  ASSUME NEW G, Sound(G), NEW ev, Fits(G, ev), Apart(G, ev),
         NEW K \in SUBSET DOMAIN G, OverKnown(ev, G, Known(G, K))
  PROVE  GrownBy(G, ev, K)
<1> DEFINE W == Both(ev, G)
           L == K \cup DOMAIN ev
           R == Known(G, K)
<1>1. /\ DOMAIN W = DOMAIN ev \cup DOMAIN G
      /\ \A i \in DOMAIN ev : W[i] = ev[i] /\ i \notin DOMAIN G
      /\ \A i \in DOMAIN G : W[i] = G[i]
  BY DEF Both, Apart
<1>2. /\ \A i \in DOMAIN G : Past(W)[i] = Past(G)[i]
      /\ \A i \in DOMAIN ev :
           /\ Starts(G, ev, i) => Past(W)[i] = {}
           /\ FirstContent(ev, i) => Past(W)[i] = {ev[i].bootstrap}
           /\ Changes(G, ev[i]) =>
                Past(W)[i] = ev[i].parents \cup UNION {Past(G)[p] : p \in ev[i].parents}
  BY PastGrows
<1>3. Past(G) \in [DOMAIN G -> SUBSET DOMAIN G] /\ Complete(G, R) /\ R \subseteq K
  BY SoundOver, KnownComplete
<1>4. Both(ev, Part(G, K)) = Part(W, L) /\ Both(Part(G, K), ev) = Part(W, L)
  BY <1>1 DEF Both, Part
<1> HIDE DEF W
<1>5. ASSUME NEW i \in DOMAIN ev
      PROVE  Past(W)[i] \subseteq L
  <2>1. CASE Starts(G, ev, i)
    BY <1>2, <2>1
  <2>2. CASE FirstContent(ev, i)
    BY <1>2, <2>2 DEF FirstContent
  <2>3. CASE Changes(G, ev[i])
    <3> HIDE DEF R
    <3>1. ev[i].parents \subseteq R
      BY <2>3 DEF OverKnown, R
    <3>2. \A p \in ev[i].parents : Past(G)[p] \subseteq R
      BY <1>3, <3>1 DEF Complete
    <3>3. Past(W)[i] \subseteq R
      BY <1>2, <2>3, <3>1, <3>2
    <3> QED
      BY <1>3, <3>3
  <2> QED
    BY <2>1, <2>2, <2>3 DEF Fits
<1>6. ASSUME NEW i \in K
      PROVE  Past(W)[i] \subseteq L <=> Past(G)[i] \subseteq K
  <2>1. i \in DOMAIN G /\ Past(W)[i] = Past(G)[i] /\ Past(G)[i] \subseteq DOMAIN G
    BY <1>2, <1>3
  <2> QED
    BY <1>1, <2>1
<1>7. Known(W, L) = R \cup DOMAIN ev
  BY <1>5, <1>6 DEF Known
<1>8. L \ Known(W, L) = K \ R
  BY <1>1, <1>7
<1>9. L \in SUBSET DOMAIN W
  BY <1>1
<1> QED
  BY <1>4, <1>7, <1>8, <1>9 DEF W, L, R, GrownBy

(* An entry the command does not name is the same after it.                *)
LEMMA Untouched ==
  ASSUME NEW G, Sound(G), NEW ev, Fits(G, ev), Apart(G, ev),
         NEW R, Complete(G, R), NEW e \in EntriesIn(G, R),
         Complete(Both(ev, G), R \cup DOMAIN ev),
         \A i \in DOMAIN ev : ev[i].entry # e
  PROVE  /\ e \in EntriesIn(Both(ev, G), R \cup DOMAIN ev)
         /\ Vault(Both(ev, G), R \cup DOMAIN ev)[e] = Vault(G, R)[e]
<1> DEFINE W == Both(ev, G)
           Q == R \cup DOMAIN ev
           own == Own(G, R, e)
           b == RootOf(G, e)
           c == RootOf(W, e)
<1>1. /\ DOMAIN W = DOMAIN ev \cup DOMAIN G
      /\ \A i \in DOMAIN ev : W[i] = ev[i] /\ i \notin DOMAIN G
      /\ \A i \in DOMAIN G : W[i] = G[i]
  BY DEF Both, Apart
<1>2. Sound(W) /\ \A i \in DOMAIN G : Past(W)[i] = Past(G)[i]
  BY SoundGrows, PastGrows
<1>3. R \subseteq DOMAIN G
  BY DEF Complete
<1> HIDE DEF W
<1>4. e \in EntriesIn(W, Q)
  BY <1>1, <1>3 DEF EntriesIn
<1>5. own = Own(W, Q, e) /\ own \subseteq DOMAIN G
  BY <1>1, <1>3 DEF Own
<1>6. Grown(G, own, b)
  BY VaultGrown
<1>7. Grown(W, own, c)
  BY <1>2, <1>4, <1>5, VaultGrown DEF W
<1> HIDE DEF own, b, c
<1>8. \A i \in own : W[i] = G[i] /\ Past(W)[i] = Past(G)[i]
  BY <1>1, <1>2, <1>5
<1>9. own = {i \in Q : W[i].entry = e}
  BY <1>5 DEF Own
<1>10. Entry(W, Past(W), Q, e) = NodeOf(G, own, b)
  BY <1>6, <1>8, <1>9, EntryIsNode
<1>11. Entry(W, Past(W), Q, e) = NodeOf(W, own, c)
  BY <1>2, <1>7, <1>9, EntryIsNode
<1>12. Vault(W, Q)[e] = NodeOf(W, own, c) /\ Vault(G, R)[e] = NodeOf(G, own, b)
  BY <1>4, <1>5 DEF Vault, own, b, c
<1> QED
  BY <1>4, <1>10, <1>11, <1>12 DEF W

(* A new entry with a name nobody wants changes no path but its own.       *)
LEMMA PathsBesideNew ==
  ASSUME NEW nodes, NEW more, NEW e,
         IsFiniteSet(DOMAIN nodes), IsFiniteSet(DOMAIN more),
         e \notin DOMAIN nodes, DOMAIN more = DOMAIN nodes \cup {e}, e # Root,
         \A f \in DOMAIN nodes : more[f] = nodes[f] /\ nodes[f].preferred.parent # e,
         Claimants(nodes, more[e].preferred) = {},
         NEW f \in DOMAIN nodes
  PROVE  Projection(more, f) = Projection(nodes, f)
<1> DEFINE T == DOMAIN nodes \cup {nodes[g].preferred.parent : g \in DOMAIN nodes}
           C == Collisions(nodes)
           C2 == Collisions(more)
<1>1. e \notin T
  OBVIOUS
<1>2. \A g \in DOMAIN nodes : g \in C <=> g \in C2
  BY DEF Collisions, Claimants
<1>3. AlikeOn(T, nodes, more, C, C2)
  <2> HIDE DEF C, C2
  <2> QED
    BY <1>1, <1>2 DEF AlikeOn
<1>4. Locate(nodes, C, f) = Locate(more, C2, f)
  <2> HIDE DEF C, C2, T
  <2> QED
    BY <1>3, WalksAgree DEF T
<1> QED
  BY <1>4 DEF Projection

(* A change that keeps places, kinds and lives changes no path.            *)
LEMMA PathsBesideWrite ==
  ASSUME NEW nodes, NEW more, IsFiniteSet(DOMAIN nodes),
         DOMAIN more = DOMAIN nodes,
         \A f \in DOMAIN nodes :
           /\ more[f].preferred = nodes[f].preferred
           /\ more[f].liveness = nodes[f].liveness
           /\ more[f].kind = nodes[f].kind,
         NEW f \in DOMAIN nodes
  PROVE  Projection(more, f) = Projection(nodes, f)
<1> DEFINE T == DOMAIN nodes \cup {nodes[g].preferred.parent : g \in DOMAIN nodes}
           C == Collisions(nodes)
           C2 == Collisions(more)
<1>1. C = C2
  BY DEF Collisions, Claimants
<1>2. AlikeOn(T, nodes, more, C, C2)
  <2> HIDE DEF C, C2
  <2> QED
    BY <1>1 DEF AlikeOn
<1>3. Locate(nodes, C, f) = Locate(more, C2, f)
  <2> HIDE DEF C, C2, T
  <2> QED
    BY <1>2, WalksAgree DEF T
<1> QED
  BY <1>3 DEF Projection

-------------------------------------------------------------------------------
(* The inductive invariant.                                                *)

Shown(nodes) ==
  [e \in DOMAIN nodes |-> [node |-> nodes[e], projection |-> Projection(nodes, e)]]

(* The facts are those of a complete derivation.                           *)
FactsRight(r) == facts[r] = View(Part(events, known[r]))

(* What the events of a plan would make of the facts of its replica.       *)
Foreseen(r, plan) ==
  Apart(events, plan.ev) =>
    View(Part(Both(plan.ev, events), known[r] \cup DOMAIN plan.ev))
      = [entries |-> Both(plan.changed, Rows(r)), pending |-> facts[r].pending]

Current(r, plan) ==
  \A i \in DOMAIN plan.ev :
    LET e == plan.ev[i].entry IN
      e \in DOMAIN Rows(r) => plan.ev[i].parents = Nodes(r)[e].heads

(* An open command authors good events and, while its replica knows what   *)
(* it knew, foresees the facts they make and follows the present heads.    *)
PlanSound(p) ==
  LET plan == prepared[p]
      r == home[p]
  IN /\ plan.op \in Operations
     /\ DOMAIN plan.ev # {} /\ Fits(events, plan.ev)
     /\ \A i \in DOMAIN plan.ev : plan.ev[i].author = r /\ plan.ev[i].op = plan.op
     /\ plan.head \subseteq known[r]
     /\ plan.head = known[r] => Foreseen(r, plan) /\ Current(r, plan)

Tables ==
  /\ known \in [Replicas -> SUBSET DOMAIN events]
  /\ DOMAIN facts = Replicas
  /\ DOMAIN prepared = Processes
  /\ DOMAIN receipts = Replicas
  /\ \A r \in Replicas : DOMAIN receipts[r] \subseteq Operations
  /\ relay \in Seq(DOMAIN events) /\ IsInjective(relay)
  /\ cursor \in [Replicas -> 0 .. Len(relay)]

(* A replica knows what it authored and what it pulled.                    *)
KnownOrigin ==
  /\ \A i \in DOMAIN events : i \in known[events[i].author]
  /\ \A r \in Replicas : \A k \in 1 .. cursor[r] : relay[k] \in known[r]

IInv ==
  /\ Tables
  /\ Sound(events)
  /\ \A r \in Replicas : FactsRight(r)
  /\ \A p \in Open : PlanSound(p)
  /\ \A p, q \in Open : p # q => CreateApart(prepared[p].ev, prepared[q].ev)
  /\ KnownOrigin
  /\ OncePerOperation

-------------------------------------------------------------------------------
(* Rows and what commands make of them.                                    *)

LEMMA ViewOfPart ==
  ASSUME NEW G, Sound(G), NEW K \in SUBSET DOMAIN G
  PROVE  View(Part(G, K)) = [entries |-> Shown(Vault(G, Known(G, K))),
                             pending |-> K \ Known(G, K)]
<1>1. /\ Entries(Part(G, K)) = Vault(G, Known(G, K))
      /\ Pending(Part(G, K)) = K \ Known(G, K)
  BY PartEntries
<1> QED
  BY <1>1 DEF View, Shown

LEMMA HeldIsPart == \A r : Held(r) = Part(events, known[r])
BY DEF Held, Part

(* What a replica has understood.                                          *)
Understood(r) == Known(events, known[r])

LEMMA RowsAre ==
  ASSUME Tables, Sound(events), NEW r \in Replicas, FactsRight(r)
  PROVE  /\ known[r] \in SUBSET DOMAIN events
         /\ Complete(events, Understood(r)) /\ Understood(r) \subseteq known[r]
         /\ Rows(r) = Shown(Vault(events, Understood(r)))
         /\ Nodes(r) = Vault(events, Understood(r))
         /\ DOMAIN Rows(r) = EntriesIn(events, Understood(r))
         /\ DOMAIN Nodes(r) = EntriesIn(events, Understood(r))
         /\ facts[r].pending = known[r] \ Understood(r)
         /\ facts[r] = [entries |-> Rows(r), pending |-> facts[r].pending]
<1>1. known[r] \in SUBSET DOMAIN events
  BY DEF Tables
<1>2. facts[r] = [entries |-> Shown(Vault(events, Understood(r))),
                  pending |-> known[r] \ Understood(r)]
  BY <1>1, ViewOfPart DEF FactsRight, Understood
<1>3. Complete(events, Understood(r)) /\ Understood(r) \subseteq known[r]
  BY <1>1, KnownComplete DEF Understood
<1>4. DOMAIN Shown(Vault(events, Understood(r))) = EntriesIn(events, Understood(r))
  BY DEF Shown, Vault
<1>5. Nodes(r) = Vault(events, Understood(r))
  BY <1>2 DEF Nodes, Rows, Shown, Vault
<1> QED
  BY <1>1, <1>2, <1>3, <1>4, <1>5 DEF Rows, Nodes

LEMMA VisibleIsLive ==
  ASSUME Tables, Sound(events), NEW r \in Replicas, FactsRight(r), NEW e \in Visible(r)
  PROVE  e \in EntriesIn(events, Understood(r)) /\ Nodes(r)[e].liveness = "live"
<1> DEFINE nodes == Nodes(r)
<1>1. /\ Complete(events, Understood(r)) /\ nodes = Vault(events, Understood(r))
      /\ DOMAIN nodes = EntriesIn(events, Understood(r))
      /\ DOMAIN Rows(r) = EntriesIn(events, Understood(r))
      /\ Rows(r) = Shown(nodes)
  BY RowsAre
<1>2. e \in DOMAIN Rows(r) /\ Rows(r)[e].projection.to = "normal"
  BY DEF Visible, Placed
<1>3. IsFiniteSet(DOMAIN nodes)
  BY <1>1, VaultFinite
<1> HIDE DEF nodes
<1>4. Projection(nodes, e).to = "normal"
  BY <1>1, <1>2 DEF Shown
<1>5. nodes[e].liveness \notin {"deleted", "delete_conflict"}
  BY <1>3, <1>4, PlacedIsLive DEF Projection
<1>6. e \in EntriesIn(events, Understood(r))
  BY <1>1, <1>2
<1>7. nodes[e].liveness \in {"live", "deleted", "delete_conflict"}
  BY <1>1, <1>6, VaultNode
<1> QED
  BY <1>5, <1>6, <1>7 DEF nodes

(* What its replica knows after a command.                                 *)
LEMMA AfterCommand ==
  ASSUME Tables, Sound(events), NEW r \in Replicas, FactsRight(r),
         NEW ev, Fits(events, ev), Apart(events, ev),
         OverKnown(ev, events, Understood(r))
  PROVE  /\ Sound(Both(ev, events))
         /\ known[r] \cup DOMAIN ev \in SUBSET DOMAIN Both(ev, events)
         /\ Both(Held(r), ev) = Part(Both(ev, events), known[r] \cup DOMAIN ev)
         /\ Known(Both(ev, events), known[r] \cup DOMAIN ev) = Understood(r) \cup DOMAIN ev
         /\ Complete(Both(ev, events), Understood(r) \cup DOMAIN ev)
         /\ View(Part(Both(ev, events), known[r] \cup DOMAIN ev))
              = [entries |-> Shown(Vault(Both(ev, events), Understood(r) \cup DOMAIN ev)),
                 pending |-> facts[r].pending]
<1> DEFINE W == Both(ev, events)
           L == known[r] \cup DOMAIN ev
<1>1. known[r] \in SUBSET DOMAIN events /\ facts[r].pending = known[r] \ Understood(r)
  BY RowsAre
<1>2. OverKnown(ev, events, Known(events, known[r]))
  BY DEF Understood
<1>0. GrownBy(events, ev, known[r])
  BY <1>1, <1>2, KnownGrows
<1>4. Sound(W)
  BY SoundGrows
<1>3. /\ Both(Part(events, known[r]), ev) = Part(W, L) /\ L \in SUBSET DOMAIN W
      /\ Known(W, L) = Known(events, known[r]) \cup DOMAIN ev
      /\ L \ Known(W, L) = known[r] \ Known(events, known[r])
  BY <1>0 DEF GrownBy
<1> HIDE DEF W, L
<1>5. Both(Held(r), ev) = Part(W, L)
  BY <1>3, HeldIsPart
<1>6. Known(W, L) = Understood(r) \cup DOMAIN ev /\ L \ Known(W, L) = facts[r].pending
  BY <1>1, <1>3 DEF Understood
<1>7. Complete(W, Known(W, L))
  BY <1>3, <1>4, KnownComplete
<1>8. View(Part(W, L)) = [entries |-> Shown(Vault(W, Known(W, L))),
                          pending |-> L \ Known(W, L)]
  BY <1>3, <1>4, ViewOfPart
<1> QED
  BY <1>3, <1>4, <1>5, <1>6, <1>7, <1>8 DEF W, L

(* A command planned over the whole graph foresees what it does.           *)
LEMMA WholeForeseen ==
  ASSUME Tables, Sound(events), NEW r \in Replicas, FactsRight(r),
         NEW plan, Fits(events, plan.ev), OverKnown(plan.ev, events, Understood(r)),
         plan.changed = View(Both(Held(r), plan.ev)).entries
  PROVE  Foreseen(r, plan)
<1> SUFFICES ASSUME Apart(events, plan.ev)
             PROVE  View(Part(Both(plan.ev, events), known[r] \cup DOMAIN plan.ev))
                      = [entries |-> Both(plan.changed, Rows(r)),
                         pending |-> facts[r].pending]
  BY DEF Foreseen
<1> DEFINE ev == plan.ev
           W == Both(ev, events)
           L == known[r] \cup DOMAIN ev
           R == Understood(r)
           Q == R \cup DOMAIN ev
<1>1. Complete(events, R) /\ DOMAIN Rows(r) = EntriesIn(events, R)
  BY RowsAre
<1>2. /\ Both(Held(r), ev) = Part(W, L)
      /\ View(Part(W, L)) = [entries |-> Shown(Vault(W, Q)), pending |-> facts[r].pending]
  BY AfterCommand
<1>4. \A i \in DOMAIN events : W[i] = events[i]
  BY DEF Both, Apart
<1> HIDE DEF W, L, Q, R
<1>6. plan.changed = Shown(Vault(W, Q))
  BY <1>2
<1>7. EntriesIn(events, R) \subseteq EntriesIn(W, Q)
  BY <1>1, <1>4 DEF EntriesIn, Complete, Q
<1>8. DOMAIN Shown(Vault(W, Q)) = EntriesIn(W, Q)
  BY DEF Shown, Vault
<1>9. Shown(Vault(W, Q)) = [e \in DOMAIN Shown(Vault(W, Q)) |-> Shown(Vault(W, Q))[e]]
  BY DEF Shown
<1>10. Both(plan.changed, Rows(r)) = plan.changed
  <2> DEFINE S == Shown(Vault(W, Q))
  <2> HIDE DEF S
  <2>1. DOMAIN S \cup DOMAIN Rows(r) = DOMAIN S /\ S = [e \in DOMAIN S |-> S[e]]
    BY <1>1, <1>7, <1>8, <1>9 DEF S
  <2>2. Both(S, Rows(r)) = S
    BY <2>1 DEF Both
  <2> QED
    BY <1>6, <2>2 DEF S
<1> QED
  BY <1>2, <1>6, <1>10 DEF W, L

About(ev, e) == DOMAIN ev # {} /\ \A i \in DOMAIN ev : ev[i].entry = e

(* The rows are the same but for one, which may be new.                    *)
SameButFor(nodes, more, e) ==
  /\ DOMAIN more = DOMAIN nodes \cup {e}
  /\ \A g \in DOMAIN nodes : g # e => more[g] = nodes[g]

(* The rows after a command about one entry are those before and its own.  *)
LEMMA RowsAfter ==
  ASSUME Tables, Sound(events), NEW r \in Replicas, FactsRight(r),
         NEW ev, Fits(events, ev), Apart(events, ev),
         OverKnown(ev, events, Understood(r)), NEW e, About(ev, e)
  PROVE  SameButFor(Nodes(r), Vault(Both(ev, events), Understood(r) \cup DOMAIN ev), e)
<1> DEFINE W == Both(ev, events)
           R == Understood(r)
           Q == R \cup DOMAIN ev
<1>1. /\ Complete(events, R) /\ Nodes(r) = Vault(events, R)
      /\ DOMAIN Nodes(r) = EntriesIn(events, R)
  BY RowsAre
<1>2. Complete(W, Q)
  BY AfterCommand
<1>3. /\ \A i \in DOMAIN events : W[i] = events[i]
      /\ \A i \in DOMAIN ev : W[i] = ev[i] /\ ev[i].entry = e
  BY DEF Both, Apart, About
<1>4. ASSUME NEW f \in EntriesIn(events, R), f # e
      PROVE  f \in EntriesIn(W, Q) /\ Vault(W, Q)[f] = Vault(events, R)[f]
  <2>1. \A i \in DOMAIN ev : ev[i].entry # f
    BY <1>4 DEF About
  <2> QED
    BY <1>1, <1>2, <1>4, <2>1, Untouched
<1> HIDE DEF W, R
<1>5. EntriesIn(W, Q) = EntriesIn(events, R) \cup {e}
  <2>1. R \subseteq DOMAIN events
    BY <1>1 DEF Complete
  <2>2. \A i \in R : W[i].entry = events[i].entry
    BY <1>3, <2>1
  <2>3. PICK i \in DOMAIN ev : W[i].entry = e
    BY <1>3 DEF About
  <2>4. \A j \in DOMAIN ev : W[j].entry = e
    BY <1>3
  <2> QED
    BY <2>2, <2>3, <2>4 DEF EntriesIn
<1>6. DOMAIN Vault(W, Q) = EntriesIn(W, Q)
  BY DEF Vault
<1> QED
  BY <1>1, <1>4, <1>5, <1>6 DEF W, R, SameButFor

(* The row of the indexed path is the row of the whole graph, and with it  *)
(* the command foresees what it does unless another path changes.          *)
LEMMA IndexedForeseen ==
  ASSUME Tables, Sound(events), NEW r \in Replicas, FactsRight(r),
         NEW e, NEW plan, Fits(events, plan.ev), About(plan.ev, e),
         OverKnown(plan.ev, events, Understood(r)),
         plan.changed = Single(e, IndexedRow(r, e, plan.ev)),
         Apart(events, plan.ev) =>
           \A f \in DOMAIN Nodes(r) \ {e} :
             Projection(Vault(Both(plan.ev, events), Understood(r) \cup DOMAIN plan.ev), f)
               = Projection(Nodes(r), f)
  PROVE  Foreseen(r, plan)
<1> SUFFICES ASSUME Apart(events, plan.ev)
             PROVE  View(Part(Both(plan.ev, events), known[r] \cup DOMAIN plan.ev))
                      = [entries |-> Both(plan.changed, Rows(r)),
                         pending |-> facts[r].pending]
  BY DEF Foreseen
<1> DEFINE G == events
           ev == plan.ev
           W == Both(ev, G)
           L == known[r] \cup DOMAIN ev
           R == Understood(r)
           Q == R \cup DOMAIN ev
           nodes == Vault(G, R)
           over == Vault(W, Q)
           row == IndexedRow(r, e, ev)
<1>1. /\ Complete(G, R) /\ Rows(r) = Shown(nodes) /\ Nodes(r) = nodes
      /\ DOMAIN Nodes(r) = EntriesIn(G, R)
  BY RowsAre
<1>2. /\ Sound(W) /\ Complete(W, Q) /\ L \in SUBSET DOMAIN W /\ Known(W, L) = Q
      /\ Both(Held(r), ev) = Part(W, L)
      /\ View(Part(W, L)) = [entries |-> Shown(over), pending |-> facts[r].pending]
  BY AfterCommand
<1>4. /\ \A i \in DOMAIN G : W[i] = G[i]
      /\ \A i \in DOMAIN ev : W[i] = ev[i] /\ ev[i].entry = e
  BY DEF Both, Apart, About
<1>5. \A f \in DOMAIN nodes \ {e} : Projection(over, f) = Projection(nodes, f)
  BY <1>1
<1>7. /\ DOMAIN over = EntriesIn(G, R) \cup {e} /\ DOMAIN nodes = EntriesIn(G, R)
      /\ EntriesIn(W, Q) = EntriesIn(G, R) \cup {e}
      /\ \A f \in EntriesIn(G, R) : f # e => over[f] = nodes[f]
  <2>1. SameButFor(Nodes(r), over, e)
    BY RowsAfter
  <2>2. DOMAIN over = EntriesIn(W, Q)
    BY DEF Vault
  <2> HIDE DEF over, W, Q, nodes
  <2> QED
    BY <1>1, <2>1, <2>2 DEF SameButFor
<1>8. over = [f \in DOMAIN over |-> over[f]]
  BY DEF Vault
<1> HIDE DEF W, L, Q, R, nodes, over
<1>10. Entries(OwnEvents(Part(W, L), e))[e] = over[e]
  <2>1. e \in EntriesIn(W, Known(W, L))
    BY <1>2, <1>7
  <2>2. Entries(OwnEvents(Part(W, L), e))[e] = Vault(W, Known(W, L))[e]
    BY <1>2, <2>1, OwnEntry
  <2> QED
    BY <1>2, <2>2 DEF over
<1>11. Both(Single(e, over[e]), nodes) = over
  <2>1. \A f \in DOMAIN over : f # e => f \in DOMAIN nodes /\ over[f] = nodes[f]
    BY <1>7
  <2> QED
    BY <1>7, <1>8, <2>1 DEF Both, Single
<1>12. row = [node |-> over[e], projection |-> IndexedProjection(over, e)]
  BY <1>1, <1>2, <1>10, <1>11 DEF IndexedRow
<1>13. IndexedProjection(over, e) = Projection(over, e)
  <2>1. DOMAIN over \subseteq EntryIds
    BY <1>2, VaultFinite DEF over
  <2> QED
    BY <2>1, IndexedIsWhole
<1>14. Both(Single(e, row), Shown(nodes)) = Shown(over)
  <2>1. \A f \in DOMAIN over : f # e =>
          /\ f \in DOMAIN nodes /\ over[f] = nodes[f]
          /\ Projection(over, f) = Projection(nodes, f)
    BY <1>5, <1>7
  <2> HIDE DEF row
  <2>2. row = [node |-> over[e], projection |-> Projection(over, e)]
    BY <1>12, <1>13
  <2> QED
    BY <1>7, <2>1, <2>2 DEF Both, Single, Shown
<1> QED
  BY <1>1, <1>2, <1>14 DEF W, L

(* A new entry is where its creation puts it.                              *)
LEMMA NewPlace ==
  ASSUME Tables, Sound(events), NEW r \in Replicas, FactsRight(r),
         NEW ev, Fits(events, ev), Apart(events, ev),
         OverKnown(ev, events, Understood(r)),
         NEW e, About(ev, e), NEW i \in DOMAIN ev, Starts(events, ev, i),
         \A j \in DOMAIN ev : Placing(ev[j].effect) => j = i
  PROVE  Vault(Both(ev, events), Understood(r) \cup DOMAIN ev)[e].preferred = ev[i].loc
<1> DEFINE W == Both(ev, events)
           R == Understood(r)
           Q == R \cup DOMAIN ev
           own == Own(W, Q, e)
           b == RootOf(W, e)
           m == Largest(PlacingOf(W, own))
<1>1. Sound(W) /\ Complete(W, Q) /\ R \subseteq DOMAIN events
  BY AfterCommand, RowsAre DEF Complete
<1>2. e \notin EntriesOf(events)
  BY DEF Starts, About
<1>3. \A j \in DOMAIN ev : W[j] = ev[j]
  BY DEF Both
<1>4. e \in EntriesIn(W, Q)
  BY <1>3 DEF EntriesIn, About
<1>5. m \in own /\ Placing(W[m].effect)
  BY <1>1, <1>4, VaultGrown, PlacedByOwn
<1>6. \A j \in R : W[j].entry # e
  BY <1>1, <1>2 DEF Both, Apart, EntriesOf
<1>7. m = i
  BY <1>3, <1>5, <1>6 DEF Own
<1>8. Vault(W, Q)[e] = NodeOf(W, own, b)
  BY <1>4 DEF Vault
<1> HIDE DEF own, b, W, Q
<1>9. Vault(W, Q)[e].preferred = W[m].loc
  BY <1>8 DEF NodeOf
<1> QED
  BY <1>3, <1>7, <1>9 DEF W, Q

(* Creating an entry where nobody wants to be changes no other path.       *)
LEMMA CreatePaths ==
  ASSUME Tables, Sound(events), NEW r \in Replicas, FactsRight(r),
         NEW ev, Fits(events, ev), Apart(events, ev),
         OverKnown(ev, events, Understood(r)),
         NEW e, About(ev, e), NEW i \in DOMAIN ev, Starts(events, ev, i),
         \A j \in DOMAIN ev : Placing(ev[j].effect) => j = i,
         Claimants(Nodes(r), ev[i].loc) = {},
         NEW f \in DOMAIN Nodes(r) \ {e}
  PROVE  Projection(Vault(Both(ev, events), Understood(r) \cup DOMAIN ev), f)
           = Projection(Nodes(r), f)
<1> DEFINE W == Both(ev, events)
           R == Understood(r)
           Q == R \cup DOMAIN ev
           nodes == Nodes(r)
           more == Vault(W, Q)
<1>1. /\ Complete(events, R) /\ nodes = Vault(events, R)
      /\ DOMAIN nodes = EntriesIn(events, R)
  BY RowsAre
<1>2. Sound(W) /\ Complete(W, Q)
  BY AfterCommand
<1>3. /\ DOMAIN more = DOMAIN nodes \cup {e} /\ EntriesIn(W, Q) = DOMAIN nodes \cup {e}
      /\ \A g \in DOMAIN nodes : g # e => more[g] = nodes[g]
  <2>1. SameButFor(nodes, more, e)
    BY RowsAfter
  <2>2. DOMAIN more = EntriesIn(W, Q)
    BY DEF Vault
  <2> HIDE DEF more, nodes, W, Q
  <2> QED
    BY <2>1, <2>2 DEF SameButFor
<1>4. e \notin EntriesOf(events) /\ e \in EntryIds
  BY DEF Starts, Fits, Event, About
<1>5. R \subseteq DOMAIN events
  BY <1>1 DEF Complete
<1>6. e \notin DOMAIN nodes
  BY <1>1, <1>4, <1>5 DEF EntriesIn, EntriesOf
<1>7. e # Root
  BY <1>4, FamilyGraphAssumption DEF EntryIds, Root
<1>8. \A g \in DOMAIN nodes : nodes[g].preferred.parent # e
  <2>1. \A g \in DOMAIN nodes : Rooted(events, nodes[g].preferred)
    BY <1>1, VaultNode
  <2> QED
    BY <1>4, <1>7, <2>1 DEF Rooted
<1>9. more[e].preferred = ev[i].loc
  BY NewPlace
<1>10. IsFiniteSet(DOMAIN nodes) /\ IsFiniteSet(DOMAIN more)
  BY <1>1, <1>2, VaultFinite
<1> HIDE DEF W, R, Q, nodes, more
<1>11. Projection(more, f) = Projection(nodes, f)
  BY <1>3, <1>6, <1>7, <1>8, <1>9, <1>10, PathsBesideNew DEF nodes
<1> QED
  BY <1>11 DEF W, R, Q, nodes, more

(* Every row is where, and alive as, it was.                               *)
AsPlaced(nodes, more) ==
  /\ DOMAIN more = DOMAIN nodes
  /\ \A g \in DOMAIN nodes : /\ more[g].preferred = nodes[g].preferred
                             /\ more[g].liveness = nodes[g].liveness
                             /\ more[g].kind = nodes[g].kind

(* Writing a live entry changes no row in that, and                        *)
LEMMA WrittenRows ==
  ASSUME Tables, Sound(events), NEW r \in Replicas, FactsRight(r),
         NEW ev, Fits(events, ev), Apart(events, ev),
         OverKnown(ev, events, Understood(r)),
         NEW i, DOMAIN ev = {i}, NEW e \in DOMAIN Nodes(r), ev[i].entry = e,
         ~ Placing(ev[i].effect), ev[i].effect # "delete",
         Nodes(r)[e].liveness = "live"
  PROVE  AsPlaced(Nodes(r), Vault(Both(ev, events), Understood(r) \cup DOMAIN ev))
<1> DEFINE W == Both(ev, events)
           R == Understood(r)
           Q == R \cup DOMAIN ev
           nodes == Nodes(r)
           more == Vault(W, Q)
<1>1. /\ Complete(events, R) /\ nodes = Vault(events, R)
      /\ DOMAIN nodes = EntriesIn(events, R)
  BY RowsAre
<1>2. Sound(W) /\ Complete(W, Q)
  BY AfterCommand
<1>3. /\ DOMAIN more = DOMAIN nodes /\ EntriesIn(W, Q) = DOMAIN nodes
      /\ \A g \in DOMAIN nodes : g # e => more[g] = nodes[g]
  <2>1. About(ev, e)
    BY DEF About
  <2>2. SameButFor(nodes, more, e)
    BY <2>1, RowsAfter
  <2>3. DOMAIN more = EntriesIn(W, Q)
    BY DEF Vault
  <2> HIDE DEF more, nodes, W, Q
  <2>4. e \in DOMAIN nodes
    BY DEF nodes
  <2> QED
    BY <2>2, <2>3, <2>4 DEF SameButFor
<1>4. R \subseteq DOMAIN events
  BY <1>1 DEF Complete
<1>5. /\ \A j \in DOMAIN events : W[j] = events[j] /\ Past(W)[j] = Past(events)[j]
      /\ W[i] = ev[i] /\ i \notin DOMAIN events
  <2>1. \A j \in DOMAIN events : Past(W)[j] = Past(events)[j]
    BY PastGrows
  <2>2. (\A j \in DOMAIN events : W[j] = events[j]) /\ W[i] = ev[i] /\ i \notin DOMAIN events
    BY DEF Both, Apart
  <2> QED
    BY <2>1, <2>2
<1> DEFINE own == Own(events, R, e)
           own2 == Own(W, Q, e)
           b == RootOf(events, e)
           c == RootOf(W, e)
<1>6. own2 = own \cup {i} /\ own \subseteq DOMAIN events
  BY <1>4, <1>5 DEF Own
<1>7. /\ nodes[e] = NodeOf(events, own, b) /\ b \in own
      /\ nodes[e].liveness = "live" <=> \A h \in nodes[e].heads : events[h].effect # "delete"
  BY <1>1, VaultNode
<1>8. /\ more[e] = NodeOf(W, own2, c)
      /\ more[e].liveness = "live" <=> \A h \in more[e].heads : W[h].effect # "delete"
  <2>1. e \in EntriesIn(W, Q)
    BY <1>3
  <2> HIDE DEF W, Q
  <2> QED
    BY <1>2, <2>1, VaultNode
<1>9. c = b
  <2>1. Grown(events, own, b) /\ Grown(W, own2, c)
    BY <1>1, <1>2, <1>3, VaultGrown
  <2>2. b \in own /\ b \in own2 /\ b \in DOMAIN events /\ Create(events[b].effect)
    BY <1>6, <2>1 DEF Grown
  <2> HIDE DEF W, own, own2, b, c
  <2> QED
    BY <1>5, <2>1, <2>2 DEF Grown
<1> HIDE DEF W, R, Q, nodes, more, own, own2, b, c
<1>10. PlacingOf(W, own2) = PlacingOf(events, own)
  <2>1. {j \in own2 : Placing(W[j].effect)} = {j \in own : Placing(events[j].effect)}
    BY <1>5, <1>6
  <2> QED
    BY <1>5, <1>6, <2>1 DEF PlacingOf, Maximal
<1>11. Largest(PlacingOf(events, own)) \in DOMAIN events
  <2>1. Grown(events, own, b)
    BY <1>1, VaultGrown DEF own, b, nodes
  <2> QED
    BY <1>6, <2>1, PlacedByOwn
<1>12. more[e].preferred = nodes[e].preferred
  BY <1>5, <1>7, <1>8, <1>10, <1>11 DEF NodeOf
<1>13. more[e].kind = nodes[e].kind
  BY <1>5, <1>6, <1>7, <1>8, <1>9 DEF NodeOf
<1>14. more[e].liveness = "live"
  <2>1. /\ more[e].heads = Maximal(Past(W), own2)
        /\ nodes[e].heads = Maximal(Past(events), own)
    BY <1>7, <1>8 DEF NodeOf
  <2>2. nodes[e].liveness = "live"
    BY DEF nodes
  <2>3. ASSUME NEW h \in more[e].heads
        PROVE  W[h].effect # "delete"
    <3>1. CASE h = i
      BY <1>5, <3>1
    <3>2. CASE h # i
      <4>1. h \in own /\ h \in nodes[e].heads
        BY <1>5, <1>6, <2>1, <2>3, <3>2 DEF Maximal
      <4> QED
        BY <1>5, <1>6, <1>7, <2>2, <4>1
    <3> QED
      BY <3>1, <3>2
  <2> QED
    BY <1>8, <2>3
<1>15. \A g \in DOMAIN nodes :
         /\ more[g].preferred = nodes[g].preferred
         /\ more[g].liveness = nodes[g].liveness
         /\ more[g].kind = nodes[g].kind
  <2>1. nodes[e].liveness = "live"
    BY DEF nodes
  <2> QED
    BY <1>3, <1>12, <1>13, <1>14, <2>1
<1>16. AsPlaced(nodes, more)
  BY <1>3, <1>15 DEF AsPlaced
<1> QED
  BY <1>16 DEF W, R, Q, nodes, more

(* no path.                                                                *)
LEMMA WritePaths ==
  ASSUME Tables, Sound(events), NEW r \in Replicas, FactsRight(r),
         NEW ev, Fits(events, ev), Apart(events, ev),
         OverKnown(ev, events, Understood(r)),
         NEW i, DOMAIN ev = {i}, NEW e \in DOMAIN Nodes(r), ev[i].entry = e,
         ~ Placing(ev[i].effect), ev[i].effect # "delete",
         Nodes(r)[e].liveness = "live",
         NEW f \in DOMAIN Nodes(r)
  PROVE  Projection(Vault(Both(ev, events), Understood(r) \cup DOMAIN ev), f)
           = Projection(Nodes(r), f)
<1> DEFINE more == Vault(Both(ev, events), Understood(r) \cup DOMAIN ev)
<1>1. AsPlaced(Nodes(r), more)
  BY WrittenRows
<1>2. IsFiniteSet(DOMAIN Nodes(r))
  BY RowsAre, VaultFinite
<1> HIDE DEF more
<1>3. Projection(more, f) = Projection(Nodes(r), f)
  BY <1>1, <1>2, PathsBesideWrite DEF AsPlaced
<1> QED
  BY <1>3 DEF more

-------------------------------------------------------------------------------
(* The plans commands make.                                                *)

(* One folder further down each time.                                      *)
Under(r, S) == {f \in Placed(r) : Nodes(r)[f].preferred.parent \in S}

Downward(r, e, G) ==
  /\ Below(r, e) = G[MaxEntries] /\ G[0] = {e}
  /\ \A n \in Nat : G[n + 1] = Under(r, G[n]) \cup G[n]

LEMMA BelowSteps ==
  ASSUME NEW r, NEW e
  PROVE  \E G : Downward(r, e, G)
<1> DEFINE V == SUBSET ({e} \cup Placed(r))
           step == [S \in V |-> Under(r, S) \cup S]
           Eqn(g) == g = [k \in Nat |-> IF k = 0 THEN {e}
                                        ELSE Under(r, g[k - 1]) \cup g[k - 1]]
           G == CHOOSE g : Eqn(g)
<1>1. step \in [V -> V] /\ {e} \in V
  BY DEF Under
<1>2. PICK g \in [Nat -> V] : g[0] = {e} /\ \A n \in Nat : g[n + 1] = step[g[n]]
  <2> HIDE DEF V, step
  <2> QED
    BY <1>1, Iteration
<1>3. Eqn(g)
  <2> SUFFICES ASSUME NEW n \in Nat
               PROVE  g[n] = IF n = 0 THEN {e} ELSE Under(r, g[n - 1]) \cup g[n - 1]
    <3> HIDE DEF V
    <3> QED
      BY <1>2
  <2>1. CASE n = 0
    BY <2>1, <1>2
  <2>2. CASE n # 0
    <3>1. n - 1 \in Nat /\ (n - 1) + 1 = n
      BY <2>2
    <3> HIDE DEF V
    <3>2. g[n] = step[g[n - 1]] /\ g[n - 1] \in V
      BY <3>1, <1>2
    <3> QED
      BY <3>2, <2>2
  <2> QED
    BY <2>1, <2>2
<1>4. Eqn(G)
  <2> HIDE DEF Eqn
  <2> QED
    BY <1>3
<1>5. Below(r, e) = G[MaxEntries]
  BY DEF Below, Beneath, Under
<1> HIDE DEF G
<1>6. G[0] = {e}
  BY <1>4
<1>7. ASSUME NEW n \in Nat
      PROVE  G[n + 1] = Under(r, G[n]) \cup G[n]
  <2> DEFINE m == n + 1
  <2>1. m \in Nat /\ m # 0 /\ m - 1 = n
    OBVIOUS
  <2> HIDE DEF m
  <2>2. G[m] = Under(r, G[n]) \cup G[n]
    BY <2>1, <1>4
  <2> QED
    BY <2>2 DEF m
<1> QED
  BY <1>5, <1>6, <1>7 DEF Downward

(* An entry is below itself, and with it only placed ones are.             *)
LEMMA BelowHolds ==
  ASSUME NEW r, NEW e
  PROVE  e \in Below(r, e) /\ Below(r, e) \subseteq {e} \cup Placed(r)
<1>a. PICK G : Downward(r, e, G)
  BY BelowSteps
<1>1. /\ Below(r, e) = G[MaxEntries] /\ G[0] = {e}
      /\ \A n \in Nat : G[n + 1] = Under(r, G[n]) \cup G[n]
  BY <1>a DEF Downward
<1> DEFINE T == {n \in Nat : e \in G[n] /\ G[n] \subseteq {e} \cup Placed(r)}
<1>2. 0 \in T
  BY <1>1
<1>3. \A n \in Nat : n \in T => n + 1 \in T
  BY <1>1 DEF Under
<1>4. MaxEntries \in T
  <2> HIDE DEF T
  <2> QED
    BY <1>2, <1>3, SetInduction, FamilyGraphAssumption
<1> QED
  BY <1>1, <1>4

(* What a change of an entry authors.                                      *)
ChangeIs(r, op, i, e, effect, loc) ==
  [entry |-> e, bootstrap |-> Nodes(r)[e].bootstrap, parents |-> Nodes(r)[e].heads,
   effect |-> effect, loc |-> loc, author |-> r, op |-> op, saw |-> known[r]]

LEMMA ChangeFits ==
  ASSUME Tables, Sound(events), NEW r \in Replicas, FactsRight(r),
         NEW op \in Operations, NEW e \in Visible(r),
         NEW effect \in {"activity", "set_content", "move", "delete"},
         NEW loc \in Location \cup {None},
         effect = "activity" => Nodes(r)[e].kind = "text",
         effect = "set_content" => Nodes(r)[e].kind = "binary"
  PROVE  \A i : LET ev == ChangeIs(r, op, i, e, effect, loc) IN
           ev \in Event /\ Changes(events, ev) /\ ev.parents \subseteq Understood(r)
<1> TAKE i
<1> DEFINE ev == ChangeIs(r, op, i, e, effect, loc)
           R == Understood(r)
           own == Own(events, R, e)
           n == Nodes(r)[e]
           b == RootOf(events, e)
<1>1. /\ Complete(events, R) /\ R \subseteq known[r] /\ known[r] \in SUBSET DOMAIN events
      /\ Nodes(r) = Vault(events, R)
  BY RowsAre
<1>2. e \in EntriesIn(events, R) /\ n.liveness = "live"
  BY VisibleIsLive
<1>3. /\ e \in EntryIds
      /\ n = NodeOf(events, own, b) /\ b \in own /\ own \subseteq R
      /\ n.heads \subseteq own /\ n.heads # {}
      /\ \A j \in own : j \in n.heads \/ \E h \in n.heads : j \in Past(events)[h]
      /\ \A h, k \in n.heads : h \notin Past(events)[k]
      /\ n.liveness = "live" <=> \A h \in n.heads : events[h].effect # "delete"
  BY <1>1, <1>2, VaultNode
<1>4. R \subseteq DOMAIN events /\ \A j \in R : Past(events)[j] \subseteq R
  BY <1>1 DEF Complete
<1>5. /\ \A j \in own : j \in DOMAIN events /\ events[j].entry = e
      /\ DOMAIN events \subseteq Ids
  BY <1>3, <1>4 DEF Own, Sound
<1>6. Create(events[b].effect) /\ events[b].entry = e /\ b \in DOMAIN events
  BY <1>1, <1>2, <1>3, <1>5, VaultGrown DEF Grown
<1> HIDE DEF R, own, n, b
<1>7. n.bootstrap = b /\ n.kind = KindOf(events[b].effect)
  BY <1>3 DEF NodeOf
<1>8. /\ ev.entry = e /\ ev.bootstrap = b /\ ev.parents = n.heads /\ ev.effect = effect
      /\ ev.loc = loc /\ ev.author = r /\ ev.op = op /\ ev.saw = known[r]
      /\ ev = [entry |-> e, bootstrap |-> b, parents |-> n.heads, effect |-> effect,
               loc |-> loc, author |-> r, op |-> op, saw |-> known[r]]
  BY <1>7 DEF ChangeIs, n
<1>9. ev \in Event
  <2>1. b \in Ids /\ n.heads \in SUBSET Ids /\ known[r] \in SUBSET Ids
    BY <1>1, <1>3, <1>5, <1>6
  <2> QED
    BY <1>3, <1>8, <2>1 DEF Event
<1>10. ev.parents \subseteq R
  BY <1>3, <1>8
<1> HIDE DEF ev
<1>11. Changes(events, ev)
  <2>1. ~ Create(effect)
    BY DEF Create
  <2>2. n.heads \subseteq DOMAIN events /\ n.heads # {} /\ \A p \in n.heads : events[p].entry = e
    BY <1>3, <1>5
  <2>3. b \in n.heads \/ \E p \in n.heads : b \in Past(events)[p]
    BY <1>3
  <2>4. /\ effect = "set_content" => events[b].effect = "create_binary"
        /\ effect = "activity" => events[b].effect = "create_text"
    BY <1>6, <1>7 DEF KindOf, Create, n
  <2>5. \A p \in n.heads : {p} \cup Past(events)[p] \subseteq known[r]
    <3>1. R \subseteq known[r]
      BY <1>1 DEF R
    <3> QED
      BY <1>3, <1>4, <3>1
  <2>6. \A p \in n.heads : events[p].effect # "delete"
    BY <1>2, <1>3
  <2> QED
    BY <1>3, <1>6, <1>8, <2>1, <2>2, <2>3, <2>4, <2>5, <2>6 DEF Changes
<1> QED
  BY <1>9, <1>10, <1>11 DEF ev, R

(* A place the user can name is there.                                     *)
LEMMA FolderRooted ==
  ASSUME Tables, Sound(events), NEW r \in Replicas, FactsRight(r),
         NEW loc \in Location, loc.parent \in FoldersOf(r)
  PROVE  Rooted(events, loc)
<1>1. \A e \in Visible(r) : e \in EntriesOf(events)
  <2>1. Understood(r) \subseteq DOMAIN events
    BY RowsAre DEF Complete
  <2>2. \A e \in Visible(r) : e \in EntriesIn(events, Understood(r))
    BY VisibleIsLive
  <2> QED
    BY <2>1, <2>2 DEF EntriesIn, EntriesOf
<1> QED
  BY <1>1 DEF Rooted, FoldersOf

(* What a command must have worked out before its second transaction.      *)
GoodPlan(r, op, ev, changed) ==
  /\ op \in Operations
  /\ DOMAIN ev # {} /\ Fits(events, ev)
  /\ \A i \in DOMAIN ev : ev[i].author = r /\ ev[i].op = op
  /\ \A q \in Open : CreateApart(ev, prepared[q].ev) /\ CreateApart(prepared[q].ev, ev)
  /\ \A plan : plan.ev = ev /\ plan.changed = changed
                 => Foreseen(r, plan) /\ Current(r, plan)

(* The events that create an entry: one, or for a text two.                *)
Beginning(r, op, i, e, loc, ev) ==
  \/ \E effect \in {"create_folder", "create_text", "create_binary"} :
       ev = Creation(r, op, i, e, effect, loc)
  \/ \E j \in Draws[Unused \ {i}] :
       ev = Both(Creation(r, op, i, e, "create_text", loc),
                 Author(r, op, j, e, i, {i}, "activity", None))

LEMMA Drawn ==
  /\ \A i \in Fresh : i \in Ids /\ i \notin DOMAIN events /\ i \in Unused
  /\ \A i, j : j \in Draws[Unused \ {i}] => j \in Unused \ {i}
<1>1. Unused \in SUBSET (1 .. MaxEvents) /\ \A i : Unused \ {i} \in SUBSET (1 .. MaxEvents)
  BY DEF Unused, Ids
<1>2. Draws[Unused] \subseteq Unused /\ \A i : Draws[Unused \ {i}] \subseteq Unused \ {i}
  BY <1>1, FamilyGraphAssumption
<1> QED
  BY <1>2 DEF Fresh, Unused

Authored(r, op, e, b, event) ==
  event = [entry |-> e, bootstrap |-> b, parents |-> event.parents,
           effect |-> event.effect, loc |-> event.loc,
           author |-> r, op |-> op, saw |-> known[r]]

LEMMA BeginningIs ==
  ASSUME NEW r, NEW op, NEW i \in Fresh, NEW e, NEW loc, NEW ev,
         Beginning(r, op, i, e, loc, ev)
  PROVE  /\ i \in DOMAIN ev /\ ev[i].loc = loc
         /\ ev[i].effect \in {"create_folder", "create_text", "create_binary"}
         /\ ev[i].parents = {} /\ ev[i].bootstrap = i
         /\ \A j \in DOMAIN ev :
              /\ j \in Unused /\ ev[j].entry = e
              /\ Authored(r, op, e, i, ev[j])
              /\ j # i => /\ ev[j].effect = "activity" /\ ev[j].parents = {i}
                          /\ ev[j].loc = None
                          /\ ev[i].effect = "create_text"
<1> DEFINE New(effect) ==
             [entry |-> e, bootstrap |-> i, parents |-> {}, effect |-> effect,
              loc |-> loc, author |-> r, op |-> op, saw |-> known[r]]
<1>1. i \in Unused
  BY Drawn
<1>2. CASE \E effect \in {"create_folder", "create_text", "create_binary"} :
             ev = Creation(r, op, i, e, effect, loc)
  <2>1. PICK effect \in {"create_folder", "create_text", "create_binary"} :
          ev = Creation(r, op, i, e, effect, loc)
    BY <1>2
  <2>2. ev = [k \in {i} |-> New(effect)]
    BY <2>1 DEF Creation, Author, Single
  <2>3. DOMAIN ev = {i} /\ ev[i] = New(effect)
    BY <2>2
  <2> QED
    BY <1>1, <2>3 DEF Authored
<1>3. CASE \E j \in Draws[Unused \ {i}] :
             ev = Both(Creation(r, op, i, e, "create_text", loc),
                       Author(r, op, j, e, i, {i}, "activity", None))
  <2>1. PICK j \in Draws[Unused \ {i}] :
          ev = Both(Creation(r, op, i, e, "create_text", loc),
                    Author(r, op, j, e, i, {i}, "activity", None))
    BY <1>3
  <2> DEFINE First == [entry |-> e, bootstrap |-> i, parents |-> {i},
                       effect |-> "activity", loc |-> None,
                       author |-> r, op |-> op, saw |-> known[r]]
  <2>2. ev = Both([k \in {i} |-> New("create_text")], [k \in {j} |-> First])
    BY <2>1 DEF Creation, Author, Single
  <2>3. j \in Unused /\ j # i
    BY Drawn
  <2>4. DOMAIN ev = {i, j} /\ ev[i] = New("create_text") /\ ev[j] = First
    BY <2>2, <2>3 DEF Both
  <2>5. /\ ev[i].loc = loc /\ ev[i].effect = "create_text"
        /\ ev[i].parents = {} /\ ev[i].bootstrap = i
    BY <2>4
  <2>6. ASSUME NEW k \in DOMAIN ev
        PROVE  /\ k \in Unused /\ ev[k].entry = e
               /\ Authored(r, op, e, i, ev[k])
               /\ k # i => /\ ev[k].effect = "activity" /\ ev[k].parents = {i}
                           /\ ev[k].loc = None
    <3>1. CASE k = i
      BY <1>1, <2>4, <3>1 DEF Authored
    <3>2. CASE k = j /\ k # i
      BY <2>3, <2>4, <3>2 DEF Authored
    <3> QED
      BY <2>4, <3>1, <3>2
  <2> HIDE DEF First, New
  <2> QED
    BY <2>4, <2>5, <2>6
<1> QED
  BY <1>2, <1>3 DEF Beginning

LEMMA BeginningFits ==
  ASSUME Tables, Sound(events), NEW r \in Replicas, FactsRight(r),
         NEW op \in Operations, NEW i \in Fresh, NEW e \in FreshEntries,
         NEW loc \in Location, loc.parent \in FoldersOf(r),
         NEW ev, Beginning(r, op, i, e, loc, ev)
  PROVE  /\ Fits(events, ev) /\ About(ev, e) /\ Starts(events, ev, i)
         /\ \A j \in DOMAIN ev : Placing(ev[j].effect) => j = i
         /\ OverKnown(ev, events, Understood(r))
         /\ e \notin DOMAIN Rows(r)
         /\ \A j \in DOMAIN ev : ev[j].author = r /\ ev[j].op = op
         /\ \A q \in Open : CreateApart(ev, prepared[q].ev) /\ CreateApart(prepared[q].ev, ev)
<1>1. /\ i \in DOMAIN ev /\ ev[i].loc = loc
      /\ ev[i].effect \in {"create_folder", "create_text", "create_binary"}
      /\ ev[i].parents = {} /\ ev[i].bootstrap = i
      /\ \A j \in DOMAIN ev :
           /\ j \in Unused /\ ev[j].entry = e
           /\ Authored(r, op, e, i, ev[j])
           /\ j # i => /\ ev[j].effect = "activity" /\ ev[j].parents = {i}
                       /\ ev[j].loc = None
                       /\ ev[i].effect = "create_text"
  BY BeginningIs
<1>2. /\ e \in EntryIds /\ e \notin EntriesOf(events)
      /\ \A q \in Open : \A k \in DOMAIN prepared[q].ev : prepared[q].ev[k].entry # e
  BY DEF FreshEntries, EntriesOf
<1>3. \A j \in Unused : j \in Ids /\ j \notin DOMAIN events
  BY DEF Unused
<1>4. known[r] \in SUBSET Ids /\ Understood(r) \subseteq DOMAIN events
  BY RowsAre DEF Sound, Complete
<1>5. Starts(events, ev, i)
  BY <1>1, <1>2 DEF Starts, Create
<1>6. Rooted(events, loc)
  BY FolderRooted
<1>7. ASSUME NEW j \in DOMAIN ev
      PROVE  /\ ev[j] \in Event
             /\ j \in Ids
             /\ Placing(ev[j].effect) => j = i
             /\ Create(ev[j].effect) => j = i
             /\ j # i => FirstContent(ev, j)
             /\ Changes(events, ev[j]) => ev[j].parents \subseteq Understood(r)
  <2>1. CASE j = i
    <3>1. ev[j] \in Event
      BY <1>1, <1>2, <1>3, <1>4, <2>1 DEF Event, Authored
    <3>2. Create(ev[j].effect)
      BY <1>1, <2>1 DEF Create
    <3> QED
      BY <1>1, <1>3, <2>1, <3>1, <3>2 DEF Changes
  <2>2. CASE j # i
    <3>1. ev[j] \in Event
      BY <1>1, <1>2, <1>3, <1>4, <2>2 DEF Event, Authored
    <3>2. ~ Placing(ev[j].effect) /\ ~ Create(ev[j].effect)
      BY <1>1, <2>2 DEF Placing, Create
    <3>3. FirstContent(ev, j)
      <4>1. ev[j].bootstrap = i
        BY <1>1 DEF Authored
      <4> QED
        BY <1>1, <2>2, <4>1 DEF FirstContent
    <3>4. ~ Changes(events, ev[j])
      BY <1>1, <1>3, <2>2 DEF Changes
    <3> QED
      BY <1>1, <1>3, <2>2, <3>1, <3>2, <3>3, <3>4
  <2> QED
    BY <2>1, <2>2
<1>8. Fits(events, ev)
  <2>1. \A j, k \in DOMAIN ev : Create(ev[j].effect) /\ Create(ev[k].effect) => j = k
    BY <1>7
  <2>2. \A j \in DOMAIN ev : Starts(events, ev, j) \/ FirstContent(ev, j)
    BY <1>5, <1>7
  <2>3. \A j \in DOMAIN ev : Placing(ev[j].effect) => Rooted(events, ev[j].loc)
    BY <1>1, <1>6, <1>7
  <2> QED
    BY <1>7, <2>1, <2>2, <2>3 DEF Fits
<1>9. About(ev, e)
  BY <1>1 DEF About
<1>10. e \notin DOMAIN Rows(r)
  <2>1. DOMAIN Rows(r) = EntriesIn(events, Understood(r))
    BY RowsAre
  <2> QED
    BY <1>2, <1>4, <2>1 DEF EntriesIn, EntriesOf
<1>11. \A j \in DOMAIN ev : ev[j].author = r /\ ev[j].op = op
  BY <1>1 DEF Authored
<1>12. \A q \in Open : CreateApart(ev, prepared[q].ev) /\ CreateApart(prepared[q].ev, ev)
  BY <1>1, <1>2 DEF CreateApart
<1> QED
  BY <1>5, <1>7, <1>8, <1>9, <1>10, <1>11, <1>12 DEF OverKnown

(* Creating a folder or a text by the indexed path.                        *)
LEMMA CreateIndexed ==
  ASSUME Tables, Sound(events), NEW r \in Replicas, FactsRight(r),
         NEW op \in Operations, NEW i \in Fresh, NEW e \in FreshEntries,
         NEW loc \in Location, loc.parent \in FoldersOf(r),
         Claimants(Nodes(r), loc) = {},
         NEW ev, Beginning(r, op, i, e, loc, ev)
  PROVE  GoodPlan(r, op, ev, Single(e, IndexedRow(r, e, ev)))
<1>1. /\ Fits(events, ev) /\ About(ev, e) /\ Starts(events, ev, i)
      /\ \A j \in DOMAIN ev : Placing(ev[j].effect) => j = i
      /\ OverKnown(ev, events, Understood(r))
      /\ e \notin DOMAIN Rows(r)
      /\ \A j \in DOMAIN ev : ev[j].author = r /\ ev[j].op = op
      /\ \A q \in Open : CreateApart(ev, prepared[q].ev) /\ CreateApart(prepared[q].ev, ev)
  BY BeginningFits
<1>2. i \in DOMAIN ev /\ Claimants(Nodes(r), ev[i].loc) = {}
  <2>1. i \in DOMAIN ev /\ ev[i].loc = loc
    BY BeginningIs
  <2> QED
    BY <2>1
<1>3. ASSUME Apart(events, ev)
      PROVE  \A f \in DOMAIN Nodes(r) \ {e} :
               Projection(Vault(Both(ev, events), Understood(r) \cup DOMAIN ev), f)
                 = Projection(Nodes(r), f)
  BY <1>1, <1>2, <1>3, CreatePaths
<1>4. ASSUME NEW plan, plan.ev = ev, plan.changed = Single(e, IndexedRow(r, e, ev))
      PROVE  Foreseen(r, plan) /\ Current(r, plan)
  <2>1. Foreseen(r, plan)
    BY <1>1, <1>3, <1>4, IndexedForeseen
  <2>2. Current(r, plan)
    BY <1>1, <1>4 DEF Current, About
  <2> QED
    BY <2>1, <2>2
<1> QED
  BY <1>1, <1>4 DEF GoodPlan, About

(* Creating a binary file over the whole graph.                            *)
LEMMA CreateWhole ==
  ASSUME Tables, Sound(events), NEW r \in Replicas, FactsRight(r),
         NEW op \in Operations, NEW i \in Fresh, NEW e \in FreshEntries,
         NEW loc \in Location, loc.parent \in FoldersOf(r),
         NEW ev, Beginning(r, op, i, e, loc, ev)
  PROVE  GoodPlan(r, op, ev, View(Both(Held(r), ev)).entries)
<1>1. /\ Fits(events, ev) /\ About(ev, e)
      /\ OverKnown(ev, events, Understood(r))
      /\ e \notin DOMAIN Rows(r)
      /\ \A j \in DOMAIN ev : ev[j].author = r /\ ev[j].op = op
      /\ \A q \in Open : CreateApart(ev, prepared[q].ev) /\ CreateApart(prepared[q].ev, ev)
  BY BeginningFits
<1>2. ASSUME NEW plan, plan.ev = ev, plan.changed = View(Both(Held(r), ev)).entries
      PROVE  Foreseen(r, plan) /\ Current(r, plan)
  <2>1. Foreseen(r, plan)
    BY <1>1, <1>2, WholeForeseen
  <2>2. Current(r, plan)
    BY <1>1, <1>2 DEF Current, About
  <2> QED
    BY <2>1, <2>2
<1> QED
  BY <1>1, <1>2 DEF GoodPlan, About

(* Changing one entry the user can name.                                   *)
Changing(r, op, i, e, effect, ev) ==
  /\ DOMAIN ev = {i} /\ ev[i].entry = e /\ ev[i].effect = effect
  /\ Fits(events, ev) /\ About(ev, e) /\ OverKnown(ev, events, Understood(r))
  /\ \A j \in DOMAIN ev : ev[j].author = r /\ ev[j].op = op
  /\ \A q \in Open : CreateApart(ev, prepared[q].ev) /\ CreateApart(prepared[q].ev, ev)
  /\ \A plan : plan.ev = ev => Current(r, plan)

LEMMA OneChange ==
  ASSUME Tables, Sound(events), NEW r \in Replicas, FactsRight(r),
         NEW op \in Operations, NEW i \in Fresh, NEW e \in Visible(r),
         NEW effect \in {"activity", "set_content", "move"},
         NEW loc \in Location \cup {None}, effect = "move" => Rooted(events, loc),
         effect = "activity" => Nodes(r)[e].kind = "text",
         effect = "set_content" => Nodes(r)[e].kind = "binary",
         NEW ev, ev = Change(r, op, i, e, effect, loc)
  PROVE  Changing(r, op, i, e, effect, ev)
<1> DEFINE x == ChangeIs(r, op, i, e, effect, loc)
<1>1. ev = [k \in {i} |-> x]
  BY DEF Change, Author, Single, ChangeIs
<1>2. x \in Event /\ Changes(events, x) /\ x.parents \subseteq Understood(r)
  BY ChangeFits
<1>3. /\ x.entry = e /\ x.effect = effect /\ x.loc = loc /\ x.author = r /\ x.op = op
      /\ x.parents = Nodes(r)[e].heads
  BY DEF ChangeIs
<1> HIDE DEF x
<1>4. DOMAIN ev = {i} /\ ev[i] = x
  BY <1>1
<1>5. i \in Ids
  BY Drawn
<1>6. ~ Create(x.effect) /\ (Placing(x.effect) => Rooted(events, x.loc))
  BY <1>3 DEF Create, Placing
<1>7. Fits(events, ev)
  BY <1>2, <1>4, <1>5, <1>6 DEF Fits
<1>8. About(ev, e) /\ OverKnown(ev, events, Understood(r))
  BY <1>2, <1>3, <1>4 DEF About, OverKnown
<1>9. \A q \in Open : CreateApart(ev, prepared[q].ev) /\ CreateApart(prepared[q].ev, ev)
  BY <1>4, <1>6 DEF CreateApart
<1>10. \A plan : plan.ev = ev => Current(r, plan)
  BY <1>3, <1>4 DEF Current
<1> QED
  BY <1>3, <1>4, <1>7, <1>8, <1>9, <1>10 DEF Changing

LEMMA FollowsHeads ==
  ASSUME NEW r, NEW ev, \A i \in DOMAIN ev : ev[i].parents = Nodes(r)[ev[i].entry].heads
  PROVE  \A plan : plan.ev = ev => Current(r, plan)
BY DEF Current

LEMMA WriteText ==
  ASSUME Tables, Sound(events), NEW r \in Replicas, FactsRight(r),
         NEW op \in Operations, NEW i \in Fresh, NEW e \in Visible(r),
         Nodes(r)[e].kind = "text",
         NEW ev, ev = Change(r, op, i, e, "activity", None)
  PROVE  GoodPlan(r, op, ev, Single(e, IndexedRow(r, e, ev)))
<1>1. /\ DOMAIN ev = {i} /\ ev[i].entry = e /\ ev[i].effect = "activity"
      /\ Fits(events, ev) /\ About(ev, e) /\ OverKnown(ev, events, Understood(r))
      /\ \A j \in DOMAIN ev : ev[j].author = r /\ ev[j].op = op
      /\ \A q \in Open : CreateApart(ev, prepared[q].ev) /\ CreateApart(prepared[q].ev, ev)
      /\ \A plan : plan.ev = ev => Current(r, plan)
  <2>1. None \in Location \cup {None}
    OBVIOUS
  <2>2. Changing(r, op, i, e, "activity", ev)
    BY <2>1, OneChange
  <2> QED
    BY <2>2 DEF Changing
<1>2. e \in DOMAIN Nodes(r) /\ Nodes(r)[e].liveness = "live"
  <2>1. DOMAIN Nodes(r) = EntriesIn(events, Understood(r))
    BY RowsAre
  <2> QED
    BY <2>1, VisibleIsLive
<1>3. ~ Placing(ev[i].effect) /\ ev[i].effect # "delete"
  BY <1>1 DEF Placing, Create
<1>4. ASSUME Apart(events, ev)
      PROVE  \A f \in DOMAIN Nodes(r) \ {e} :
               Projection(Vault(Both(ev, events), Understood(r) \cup DOMAIN ev), f)
                 = Projection(Nodes(r), f)
  BY <1>1, <1>2, <1>3, <1>4, WritePaths
<1>5. ASSUME NEW plan, plan.ev = ev, plan.changed = Single(e, IndexedRow(r, e, ev))
      PROVE  Foreseen(r, plan) /\ Current(r, plan)
  BY <1>1, <1>4, <1>5, IndexedForeseen
<1> QED
  BY <1>1, <1>5 DEF GoodPlan, About

LEMMA ChangeWhole ==
  ASSUME Tables, Sound(events), NEW r \in Replicas, FactsRight(r),
         NEW op \in Operations, NEW i \in Fresh, NEW e \in Visible(r),
         NEW effect \in {"set_content", "move"},
         NEW loc \in Location \cup {None}, effect = "move" => Rooted(events, loc),
         effect = "set_content" => Nodes(r)[e].kind = "binary",
         NEW ev, ev = Change(r, op, i, e, effect, loc)
  PROVE  GoodPlan(r, op, ev, View(Both(Held(r), ev)).entries)
<1>1. /\ Fits(events, ev) /\ About(ev, e) /\ OverKnown(ev, events, Understood(r))
      /\ \A j \in DOMAIN ev : ev[j].author = r /\ ev[j].op = op
      /\ \A q \in Open : CreateApart(ev, prepared[q].ev) /\ CreateApart(prepared[q].ev, ev)
      /\ \A plan : plan.ev = ev => Current(r, plan)
  <2>1. effect \in {"activity", "set_content", "move"} /\ effect # "activity"
    OBVIOUS
  <2>2. Changing(r, op, i, e, effect, ev)
    BY <2>1, OneChange
  <2> QED
    BY <2>2 DEF Changing
<1>2. ASSUME NEW plan, plan.ev = ev, plan.changed = View(Both(Held(r), ev)).entries
      PROVE  Foreseen(r, plan) /\ Current(r, plan)
  BY <1>1, <1>2, WholeForeseen
<1> QED
  BY <1>1, <1>2 DEF GoodPlan, About

(* Deleting entries the user can name.                                     *)
LEMMA DeletionsFit ==
  ASSUME Tables, Sound(events), NEW r \in Replicas, FactsRight(r),
         NEW op \in Operations, NEW ev, DOMAIN ev \subseteq Ids,
         \A i \in DOMAIN ev :
           \E f \in Visible(r) : ev[i] = ChangeIs(r, op, i, f, "delete", None)
  PROVE  /\ Fits(events, ev) /\ OverKnown(ev, events, Understood(r))
         /\ \A i \in DOMAIN ev :
              /\ ev[i].effect = "delete" /\ ev[i].author = r /\ ev[i].op = op
              /\ ev[i].parents = Nodes(r)[ev[i].entry].heads
<1>1. ASSUME NEW i \in DOMAIN ev
      PROVE  /\ ev[i] \in Event /\ Changes(events, ev[i])
             /\ ev[i].parents \subseteq Understood(r)
             /\ ev[i].effect = "delete" /\ ev[i].author = r /\ ev[i].op = op
             /\ ev[i].parents = Nodes(r)[ev[i].entry].heads
  <2>1. PICK f \in Visible(r) : ev[i] = ChangeIs(r, op, i, f, "delete", None)
    OBVIOUS
  <2>2. /\ ev[i] \in Event /\ Changes(events, ev[i])
        /\ ev[i].parents \subseteq Understood(r)
    BY <2>1, ChangeFits
  <2> QED
    BY <2>1, <2>2 DEF ChangeIs
<1>2. \A i \in DOMAIN ev : ~ Create(ev[i].effect) /\ ~ Placing(ev[i].effect)
  BY <1>1 DEF Create, Placing
<1>3. Fits(events, ev)
  BY <1>1, <1>2 DEF Fits
<1>4. OverKnown(ev, events, Understood(r))
  BY <1>1 DEF OverKnown
<1> QED
  BY <1>1, <1>3, <1>4

LEMMA DeletionsWhole ==
  ASSUME Tables, Sound(events), NEW r \in Replicas, FactsRight(r),
         NEW op \in Operations, NEW ev, DOMAIN ev # {}, DOMAIN ev \subseteq Ids,
         \A i \in DOMAIN ev :
           \E f \in Visible(r) : ev[i] = ChangeIs(r, op, i, f, "delete", None)
  PROVE  GoodPlan(r, op, ev, View(Both(Held(r), ev)).entries)
<1>1. /\ Fits(events, ev) /\ OverKnown(ev, events, Understood(r))
      /\ \A i \in DOMAIN ev :
           /\ ev[i].effect = "delete" /\ ev[i].author = r /\ ev[i].op = op
           /\ ev[i].parents = Nodes(r)[ev[i].entry].heads
  BY DeletionsFit
<1>2. \A q \in Open : CreateApart(ev, prepared[q].ev) /\ CreateApart(prepared[q].ev, ev)
  BY <1>1 DEF CreateApart, Create
<1>3. \A plan : plan.ev = ev => Current(r, plan)
  BY <1>1, FollowsHeads
<1>4. ASSUME NEW plan, plan.ev = ev, plan.changed = View(Both(Held(r), ev)).entries
      PROVE  Foreseen(r, plan) /\ Current(r, plan)
  BY <1>1, <1>3, <1>4, WholeForeseen
<1> QED
  BY <1>1, <1>2, <1>4 DEF GoodPlan

Deletions(r, op, members, id) ==
  [i \in {id[f] : f \in members} |->
     Change(r, op, i, CHOOSE f \in members : id[f] = i, "delete", None)[i]]

LEMMA DeletionsAre ==
  ASSUME NEW r, NEW op, NEW members, members \subseteq Visible(r), members # {},
         NEW id, \A f \in members : id[f] \in Unused,
         NEW ev, ev = Deletions(r, op, members, id)
  PROVE  /\ DOMAIN ev # {} /\ DOMAIN ev \subseteq Unused
         /\ \A i \in DOMAIN ev :
              \E f \in Visible(r) : ev[i] = ChangeIs(r, op, i, f, "delete", None)
<1>1. DOMAIN ev = {id[f] : f \in members}
  BY DEF Deletions
<1>2. DOMAIN ev # {} /\ DOMAIN ev \subseteq Unused
  <2>1. PICK f \in members : TRUE
    OBVIOUS
  <2>2. id[f] \in DOMAIN ev
    BY <1>1
  <2> QED
    BY <1>1, <2>2
<1>3. ASSUME NEW i \in DOMAIN ev
      PROVE  \E f \in Visible(r) : ev[i] = ChangeIs(r, op, i, f, "delete", None)
  <2> DEFINE f == CHOOSE f \in members : id[f] = i
  <2>1. f \in members
    BY <1>1
  <2>2. ev[i] = Change(r, op, i, f, "delete", None)[i]
    BY <1>1 DEF Deletions
  <2> HIDE DEF f
  <2>3. ev[i] = ChangeIs(r, op, i, f, "delete", None)
    BY <2>2 DEF Change, Author, Single, ChangeIs
  <2> QED
    BY <2>1, <2>3
<1> QED
  BY <1>2, <1>3

LEMMA DeleteWhole ==
  ASSUME Tables, Sound(events), NEW r \in Replicas, FactsRight(r),
         NEW op \in Operations, NEW members, members \subseteq Visible(r), members # {},
         NEW id, \A f \in members : id[f] \in Unused,
         NEW ev, ev = Deletions(r, op, members, id)
  PROVE  GoodPlan(r, op, ev, View(Both(Held(r), ev)).entries)
<1>1. /\ DOMAIN ev # {} /\ DOMAIN ev \subseteq Ids
      /\ \A i \in DOMAIN ev :
           \E f \in Visible(r) : ev[i] = ChangeIs(r, op, i, f, "delete", None)
  <2>1. Unused \subseteq Ids
    BY DEF Unused
  <2> QED
    BY SMTT(30), <2>1, DeletionsAre
<1> QED
  BY <1>1, DeletionsWhole

-------------------------------------------------------------------------------
(* Every step keeps the invariant.                                         *)

LEMMA HomeReplica == \A p \in Processes : home[p] \in Replicas
BY FamilyGraphAssumption

LEMMA PlanSoundNext ==
  ASSUME NEW p, NEW plan, prepared'[p] = plan, NEW r, r = home[p],
         plan.op \in Operations, DOMAIN plan.ev # {}, Fits(events', plan.ev),
         \A i \in DOMAIN plan.ev : plan.ev[i].author = r /\ plan.ev[i].op = plan.op,
         plan.head \subseteq known'[r],
         plan.head = known'[r] => Foreseen(r, plan)' /\ Current(r, plan)'
  PROVE  PlanSound(p)'
BY DEF PlanSound, Foreseen, Current, Rows, Nodes

(* Steps that leave the events and the facts alone.                        *)
LEMMA StillSound ==
  ASSUME IInv, UNCHANGED <<events, known, facts>>
  PROVE  /\ Sound(events)' /\ (\A r \in Replicas : FactsRight(r)')
         /\ \A q \in Open : prepared'[q] = prepared[q] => PlanSound(q)'
<1>1. Sound(events)'
  BY DEF IInv
<1>2. \A r \in Replicas : FactsRight(r)'
  BY DEF IInv, FactsRight
<1>3. ASSUME NEW q \in Open, prepared'[q] = prepared[q]
      PROVE  PlanSound(q)'
  <2>1. PICK plan : plan = prepared[q]
    OBVIOUS
  <2>2. PICK r : r = home[q]
    OBVIOUS
  <2>3. /\ plan.op \in Operations /\ DOMAIN plan.ev # {} /\ Fits(events, plan.ev)
        /\ \A i \in DOMAIN plan.ev : plan.ev[i].author = r /\ plan.ev[i].op = plan.op
        /\ plan.head \subseteq known[r]
        /\ plan.head = known[r] => Foreseen(r, plan) /\ Current(r, plan)
    BY <2>1, <2>2 DEF IInv, PlanSound
  <2>4. plan.head = known'[r] => Foreseen(r, plan)' /\ Current(r, plan)'
    BY <2>3 DEF Foreseen, Current, Rows, Nodes
  <2> QED
    BY <1>3, <2>1, <2>2, <2>3, <2>4, PlanSoundNext
<1> QED
  BY <1>1, <1>2, <1>3

LEMMA PrepareKeeps ==
  ASSUME IInv, NEW p \in Processes \ Open, NEW op, NEW ev, NEW changed,
         GoodPlan(home[p], op, ev, changed), Prepare(p, op, ev, changed)
  PROVE  IInv'
<1> DEFINE r == home[p]
           plan == [op |-> op, ev |-> ev, changed |-> changed, head |-> known[r]]
<1>1. /\ prepared' = [prepared EXCEPT ![p] = plan]
      /\ UNCHANGED <<events, known, facts, receipts, relay, cursor>>
  BY DEF Prepare
<1>2. Tables /\ Tables' /\ prepared'[p] = plan /\ r \in Replicas
      /\ \A q \in Processes : q # p => prepared'[q] = prepared[q]
  BY <1>1, HomeReplica DEF IInv, Tables
<1>3. \A q \in Open' : q # p => q \in Open
  BY <1>2 DEF Open
<1>4. /\ Sound(events)' /\ (\A s \in Replicas : FactsRight(s)')
      /\ \A q \in Open : PlanSound(q)'
  <2>1. \A q \in Open : prepared'[q] = prepared[q]
    BY <1>2 DEF Open
  <2> QED
    BY <1>1, <2>1, StillSound
<1>5. PlanSound(p)'
  <2>1. PICK new : new = plan
    OBVIOUS
  <2>2. new.op = op /\ new.ev = ev /\ new.changed = changed /\ new.head = known[r]
    BY <2>1
  <2> HIDE DEF plan
  <2>3. Foreseen(r, new) /\ Current(r, new)
    BY <2>2 DEF GoodPlan
  <2>4. Foreseen(r, new)' /\ Current(r, new)'
    BY <1>1, <2>3 DEF Foreseen, Current, Rows, Nodes
  <2>5. /\ op \in Operations /\ DOMAIN ev # {} /\ Fits(events, ev)
        /\ \A i \in DOMAIN ev : ev[i].author = r /\ ev[i].op = op
    BY DEF GoodPlan
  <2> QED
    BY <1>1, <1>2, <2>1, <2>2, <2>4, <2>5, PlanSoundNext
<1>6. \A q \in Open' : PlanSound(q)'
  BY <1>3, <1>4, <1>5
<1>7. ASSUME NEW q \in Open', NEW s \in Open', q # s
      PROVE  CreateApart(prepared'[q].ev, prepared'[s].ev)
  <2>1. \A u \in Open : CreateApart(ev, prepared[u].ev) /\ CreateApart(prepared[u].ev, ev)
    BY DEF GoodPlan
  <2>2. prepared'[p].ev = ev
    BY <1>2
  <2>3. \A u \in Open' : u # p => u \in Open /\ prepared'[u] = prepared[u]
    BY <1>2, <1>3 DEF Open
  <2> QED
    BY <1>7, <2>1, <2>2, <2>3 DEF IInv
<1>8. KnownOrigin' /\ OncePerOperation'
  BY <1>1 DEF IInv, KnownOrigin, OncePerOperation
<1> QED
  BY <1>2, <1>4, <1>6, <1>7, <1>8 DEF IInv

LEMMA DiscardKeeps ==
  ASSUME IInv, NEW p \in Processes, Discard(p)
  PROVE  IInv'
<1>1. /\ prepared' = [prepared EXCEPT ![p] = None]
      /\ UNCHANGED <<events, known, facts, receipts, relay, cursor>>
  BY DEF Discard
<1>2. Tables' /\ (\A q \in Open' : q \in Open /\ prepared'[q] = prepared[q])
  BY <1>1 DEF IInv, Tables, Open
<1>3. /\ Sound(events)' /\ (\A s \in Replicas : FactsRight(s)')
      /\ \A q \in Open' : PlanSound(q)'
  BY <1>1, <1>2, StillSound
<1>4. \A q, s \in Open' : q # s => CreateApart(prepared'[q].ev, prepared'[s].ev)
  BY <1>2 DEF IInv
<1>5. KnownOrigin' /\ OncePerOperation'
  BY <1>1 DEF IInv, KnownOrigin, OncePerOperation
<1> QED
  BY <1>2, <1>3, <1>4, <1>5 DEF IInv

LEMMA UploadKeeps ==
  ASSUME IInv, NEW r \in Replicas, Upload(r)
  PROVE  IInv'
<1> DEFINE x == CHOOSE i \in Unsent(r) : \A j \in Unsent(r) : i <= j
<1>1. /\ relay' = Append(relay, x) /\ Unsent(r) # {}
      /\ UNCHANGED <<events, known, facts, prepared, receipts, cursor>>
  BY DEF Upload
<1>2. x \in Unsent(r)
  <2>1. Unsent(r) \subseteq Nat
    <3>1. known[r] \subseteq Ids
      BY DEF IInv, Tables, Sound
    <3> QED
      BY <3>1, FamilyGraphAssumption DEF Unsent, Ids
  <2>2. PICK n \in Unsent(r) : TRUE
    BY <1>1
  <2>3. \E k \in 0 .. n : k \in Unsent(r) /\ \A j \in 0 .. k - 1 : j \notin Unsent(r)
    <3> DEFINE S == Unsent(r)
    <3>1. n \in Nat /\ \E k \in 0 .. n : k \in S
      BY <2>1, <2>2
    <3> HIDE DEF S
    <3>2. \E k \in 0 .. n : k \in S /\ \A j \in 0 .. k - 1 : j \notin S
      BY <3>1, FirstOf
    <3> QED
      BY <3>2 DEF S
  <2>4. \E k \in Unsent(r) : \A j \in Unsent(r) : k <= j
    BY <2>1, <2>3
  <2> QED
    BY <2>4
<1> HIDE DEF x
<1>3. relay \in Seq(DOMAIN events) /\ IsInjective(relay) /\ Len(relay) \in Nat
  BY DEF IInv, Tables
<1>4. x \in DOMAIN events /\ \A k \in 1 .. Len(relay) : relay[k] # x
  BY <1>2 DEF IInv, Tables, Unsent
<1>5. /\ relay' \in Seq(DOMAIN events) /\ Len(relay') = Len(relay) + 1
      /\ \A k \in 1 .. Len(relay) : relay'[k] = relay[k]
      /\ relay'[Len(relay) + 1] = x
      /\ DOMAIN relay' = 1 .. Len(relay) + 1
  BY <1>1, <1>3, <1>4
<1>6. IsInjective(relay')
  <2> SUFFICES ASSUME NEW a \in 1 .. Len(relay) + 1, NEW b \in 1 .. Len(relay) + 1,
                      relay'[a] = relay'[b]
               PROVE  a = b
    BY <1>5 DEF IsInjective
  <2>1. CASE a \in 1 .. Len(relay) /\ b \in 1 .. Len(relay)
    BY <1>3, <1>5, <2>1 DEF IsInjective
  <2>2. CASE a = Len(relay) + 1 \/ b = Len(relay) + 1
    <3>1. a = Len(relay) + 1 \/ a \in 1 .. Len(relay)
      BY <1>3
    <3>2. b = Len(relay) + 1 \/ b \in 1 .. Len(relay)
      BY <1>3
    <3> QED
      BY <1>4, <1>5, <2>2, <3>1, <3>2
  <2> QED
    BY <1>3, <2>1, <2>2
<1>7. Tables'
  <2>1. cursor' \in [Replicas -> 0 .. Len(relay')]
    BY <1>1, <1>3, <1>5 DEF IInv, Tables
  <2> QED
    BY <1>1, <1>5, <1>6, <2>1 DEF IInv, Tables
<1>8. /\ Sound(events)' /\ (\A s \in Replicas : FactsRight(s)')
      /\ \A q \in Open' : PlanSound(q)'
  BY <1>1, StillSound DEF Open
<1>9. \A q, s \in Open' : q # s => CreateApart(prepared'[q].ev, prepared'[s].ev)
  BY <1>1 DEF IInv, Open
<1>10. KnownOrigin'
  <2>1. \A s \in Replicas : \A k \in 1 .. cursor[s] : k \in 1 .. Len(relay)
    BY <1>3 DEF IInv, Tables
  <2> QED
    BY <1>1, <1>5, <2>1 DEF IInv, KnownOrigin
<1>11. OncePerOperation'
  BY <1>1 DEF IInv, OncePerOperation
<1> QED
  BY <1>7, <1>8, <1>9, <1>10, <1>11 DEF IInv

LEMMA PullKeeps ==
  ASSUME IInv, NEW r \in Replicas, Pull(r)
  PROVE  IInv'
<1> DEFINE x == relay[cursor[r] + 1]
<1>1. /\ cursor[r] < Len(relay)
      /\ known' = [known EXCEPT ![r] = Pulled(r)]
      /\ facts' = [facts EXCEPT ![r] = IF Pulled(r) = known[r] THEN @
                                       ELSE View([j \in Pulled(r) |-> events[j]])]
      /\ cursor' = [cursor EXCEPT ![r] = @ + 1]
      /\ UNCHANGED <<events, prepared, receipts, relay>>
  BY DEF Pull
<1>2. /\ relay \in Seq(DOMAIN events) /\ Len(relay) \in Nat
      /\ cursor[r] \in 0 .. Len(relay) /\ cursor[r] + 1 \in 1 .. Len(relay)
  BY <1>1 DEF IInv, Tables
<1>3. x \in DOMAIN events /\ Pulled(r) = known[r] \cup {x}
  BY <1>2 DEF Pulled
<1> HIDE DEF x
<1>4. Tables'
  <2>1. known' \in [Replicas -> SUBSET DOMAIN events']
    BY <1>1, <1>3 DEF IInv, Tables
  <2>2. cursor' \in [Replicas -> 0 .. Len(relay')]
    BY <1>1, <1>2 DEF IInv, Tables
  <2> QED
    BY <1>1, <2>1, <2>2 DEF IInv, Tables
<1>5. /\ known'[r] = known[r] \cup {x}
      /\ \A s \in Replicas : s # r => known'[s] = known[s] /\ facts'[s] = facts[s]
      /\ known'[r] = known[r] => facts'[r] = facts[r]
      /\ known'[r] # known[r] => facts'[r] = View(Part(events, known'[r]))
  BY <1>1, <1>3 DEF IInv, Tables, Part
<1>6. \A s \in Replicas : FactsRight(s)'
  BY <1>1, <1>5 DEF IInv, FactsRight
<1>7. ASSUME NEW q \in Open
      PROVE  PlanSound(q)'
  <2>1. PICK plan : plan = prepared[q]
    OBVIOUS
  <2>2. PICK s \in Replicas : s = home[q]
    BY HomeReplica DEF Open
  <2>3. /\ plan.op \in Operations /\ DOMAIN plan.ev # {} /\ Fits(events, plan.ev)
        /\ \A i \in DOMAIN plan.ev : plan.ev[i].author = s /\ plan.ev[i].op = plan.op
        /\ plan.head \subseteq known[s]
        /\ plan.head = known[s] => Foreseen(s, plan) /\ Current(s, plan)
    BY <2>1, <2>2 DEF IInv, PlanSound
  <2>4. known[s] \subseteq known'[s] /\ (known'[s] = known[s] => facts'[s] = facts[s])
    BY <1>5
  <2>5. ASSUME plan.head = known'[s]
        PROVE  Foreseen(s, plan)' /\ Current(s, plan)'
    <3>1. known'[s] = known[s] /\ facts'[s] = facts[s]
      BY <2>3, <2>4, <2>5
    <3> QED
      BY <1>1, <2>3, <2>5, <3>1 DEF Foreseen, Current, Rows, Nodes
  <2> QED
    BY <1>1, <2>1, <2>2, <2>3, <2>4, <2>5, PlanSoundNext
<1>8. \A q \in Open' : PlanSound(q)'
  BY <1>1, <1>7 DEF Open
<1>9. \A q, s \in Open' : q # s => CreateApart(prepared'[q].ev, prepared'[s].ev)
  BY <1>1 DEF IInv, Open
<1>10. KnownOrigin'
  <2>1. ASSUME NEW i \in DOMAIN events
        PROVE  i \in known'[events[i].author]
    <3>1. i \in known[events[i].author] /\ events[i].author \in Replicas
      BY DEF IInv, KnownOrigin, Sound, EventSound, Event
    <3> QED
      BY <1>5, <3>1
  <2>2. ASSUME NEW s \in Replicas, NEW k \in 1 .. cursor'[s]
        PROVE  relay[k] \in known'[s]
    <3>1. CASE s = r
      <4>1. cursor'[r] = cursor[r] + 1
        BY <1>1, <1>2 DEF IInv, Tables
      <4>2. k \in 1 .. cursor[r] \/ k = cursor[r] + 1
        BY <1>2, <2>2, <3>1, <4>1
      <4> QED
        BY <1>5, <3>1, <4>2 DEF IInv, KnownOrigin, x
    <3>2. CASE s # r
      <4>1. cursor'[s] = cursor[s]
        BY <1>1, <3>2 DEF IInv, Tables
      <4> QED
        BY <1>5, <2>2, <3>2, <4>1 DEF IInv, KnownOrigin
    <3> QED
      BY <3>1, <3>2
  <2> QED
    BY <1>1, <2>1, <2>2 DEF KnownOrigin
<1>11. OncePerOperation' /\ Sound(events)'
  BY <1>1 DEF IInv, OncePerOperation
<1> QED
  BY <1>4, <1>6, <1>8, <1>9, <1>10, <1>11 DEF IInv

(* What an open command foresees, nothing stored elsewhere changes.        *)
LEMMA ForeseenStays ==
  ASSUME Tables, NEW s \in Replicas, NEW plan, Foreseen(s, plan),
         NEW ev, Apart(events, ev), events' = Both(ev, events),
         known'[s] = known[s], facts'[s] = facts[s]
  PROVE  Foreseen(s, plan)'
<1> SUFFICES ASSUME Apart(events', plan.ev)
             PROVE  View(Part(Both(plan.ev, events'), known'[s] \cup DOMAIN plan.ev))
                      = [entries |-> Both(plan.changed, Rows(s)'),
                         pending |-> facts'[s].pending]
  BY DEF Foreseen
<1>1. /\ DOMAIN events' = DOMAIN ev \cup DOMAIN events
      /\ \A i \in DOMAIN events : events'[i] = events[i]
  BY DEF Both, Apart
<1>2. Apart(events, plan.ev)
  BY <1>1 DEF Apart
<1>3. known[s] \subseteq DOMAIN events
  BY DEF Tables
<1>4. Part(Both(plan.ev, events'), known[s] \cup DOMAIN plan.ev)
        = Part(Both(plan.ev, events), known[s] \cup DOMAIN plan.ev)
  BY <1>1, <1>3 DEF Part, Both
<1> QED
  BY <1>2, <1>4 DEF Foreseen, Rows

LEMMA CommitKeeps ==
  ASSUME IInv, NEW p \in Processes, Commit(p)
  PROVE  IInv'
<1>a. PICK r : r = home[p]
  OBVIOUS
<1>b. PICK plan : plan = prepared[p]
  OBVIOUS
<1>1. /\ r \in Replicas /\ p \in Open
      /\ plan.op \notin DOMAIN receipts[r] /\ plan.head = known[r]
  BY <1>a, <1>b, HomeReplica DEF Commit, Ready, Open
<1>2. /\ DOMAIN plan.ev \cap DOMAIN events = {}
      /\ events' = Both(plan.ev, events)
      /\ known' = [known EXCEPT ![r] = @ \cup DOMAIN plan.ev]
      /\ facts' = [facts EXCEPT ![r].entries = Both(plan.changed, facts[r].entries)]
      /\ receipts' = [receipts EXCEPT ![r] = Both(Single(plan.op, DOMAIN plan.ev), @)]
      /\ prepared' = [prepared EXCEPT ![p] = None]
      /\ UNCHANGED <<relay, cursor>>
  BY <1>a, <1>b DEF Commit, Store
<1>3. /\ plan.op \in Operations /\ DOMAIN plan.ev # {} /\ Fits(events, plan.ev)
      /\ \A i \in DOMAIN plan.ev : plan.ev[i].author = r /\ plan.ev[i].op = plan.op
      /\ Foreseen(r, plan)
  BY <1>a, <1>b, <1>1 DEF IInv, PlanSound
<1>4. /\ DOMAIN events' = DOMAIN plan.ev \cup DOMAIN events
      /\ \A i \in DOMAIN plan.ev : events'[i] = plan.ev[i] /\ i \notin DOMAIN events
      /\ \A i \in DOMAIN events : events'[i] = events[i]
      /\ Apart(events, plan.ev)
  BY <1>2 DEF Both, Apart
<1>5. /\ known \in [Replicas -> SUBSET DOMAIN events] /\ DOMAIN facts = Replicas
      /\ DOMAIN prepared = Processes /\ DOMAIN receipts = Replicas
      /\ facts[r] = [entries |-> Rows(r), pending |-> facts[r].pending]
      /\ Tables /\ Sound(events)
  BY <1>1, RowsAre DEF IInv, Tables
<1>6. /\ known'[r] = known[r] \cup DOMAIN plan.ev
      /\ facts'[r] = [entries |-> Both(plan.changed, Rows(r)), pending |-> facts[r].pending]
      /\ \A s \in Replicas : s # r => /\ known'[s] = known[s] /\ facts'[s] = facts[s]
                                      /\ receipts'[s] = receipts[s]
      /\ receipts'[r] = Both(Single(plan.op, DOMAIN plan.ev), receipts[r])
  <2>1. known'[r] = known[r] \cup DOMAIN plan.ev
    BY <1>1, <1>2, <1>5
  <2>2. facts'[r] = [facts[r] EXCEPT !.entries = Both(plan.changed, Rows(r))]
    BY <1>1, <1>2, <1>5 DEF Rows
  <2>3. facts'[r] = [entries |-> Both(plan.changed, Rows(r)), pending |-> facts[r].pending]
    BY <1>5, <2>2
  <2>4. receipts'[r] = Both(Single(plan.op, DOMAIN plan.ev), receipts[r])
    BY <1>1, <1>2, <1>5
  <2>5. \A s \in Replicas : s # r => /\ known'[s] = known[s] /\ facts'[s] = facts[s]
                                     /\ receipts'[s] = receipts[s]
    BY <1>1, <1>2, <1>5
  <2> QED
    BY <2>1, <2>3, <2>4, <2>5
<1>7. Tables'
  <2>1. known' \in [Replicas -> SUBSET DOMAIN events']
    BY <1>1, <1>2, <1>4, <1>5
  <2>2. \A s \in Replicas : DOMAIN receipts'[s] \subseteq Operations
    <3>1. \A s \in Replicas : DOMAIN receipts[s] \subseteq Operations
      BY DEF IInv, Tables
    <3>2. DOMAIN receipts'[r] = {plan.op} \cup DOMAIN receipts[r]
      BY <1>6 DEF Both, Single
    <3> QED
      BY <1>1, <1>3, <1>6, <3>1, <3>2
  <2>3. relay' \in Seq(DOMAIN events')
    <3>1. relay \in Seq(DOMAIN events)
      BY DEF IInv, Tables
    <3>2. relay \in Seq(DOMAIN events')
      BY <1>4, <3>1
    <3> QED
      BY <1>2, <3>2
  <2>4. IsInjective(relay') /\ cursor' \in [Replicas -> 0 .. Len(relay')]
    BY <1>2 DEF IInv, Tables
  <2>5. DOMAIN facts' = Replicas /\ DOMAIN prepared' = Processes /\ DOMAIN receipts' = Replicas
    BY <1>2, <1>5
  <2> QED
    BY <2>1, <2>2, <2>3, <2>4, <2>5 DEF Tables
<1>8. Sound(events')
  BY <1>2, <1>3, <1>4, <1>5, SoundGrows
<1>9. \A s \in Replicas : FactsRight(s)'
  <2>1. FactsRight(r)'
    BY <1>2, <1>3, <1>4, <1>6 DEF Foreseen, FactsRight
  <2>2. ASSUME NEW s \in Replicas, s # r
        PROVE  FactsRight(s)'
    <3>1. Part(events', known[s]) = Part(events, known[s])
      BY <1>4, <1>5 DEF Part
    <3>2. facts[s] = View(Part(events, known[s]))
      BY DEF IInv, FactsRight
    <3> QED
      BY <1>6, <2>2, <3>1, <3>2 DEF FactsRight
  <2> QED
    BY <2>1, <2>2
<1>10. ASSUME NEW q \in Open'
       PROVE  q \in Open /\ q # p /\ prepared'[q] = prepared[q]
  BY <1>2, <1>5 DEF Open
<1>11. ASSUME NEW q \in Open'
       PROVE  PlanSound(q)'
  <2>1. PICK mine : mine = prepared[q]
    OBVIOUS
  <2>2. PICK s \in Replicas : s = home[q]
    BY <1>10, HomeReplica DEF Open
  <2>3. /\ mine.op \in Operations /\ DOMAIN mine.ev # {} /\ Fits(events, mine.ev)
        /\ \A i \in DOMAIN mine.ev : mine.ev[i].author = s /\ mine.ev[i].op = mine.op
        /\ mine.head \subseteq known[s]
        /\ mine.head = known[s] => Foreseen(s, mine) /\ Current(s, mine)
    BY <1>10, <2>1, <2>2 DEF IInv, PlanSound
  <2>4. CreateApart(mine.ev, plan.ev)
    BY <1>b, <1>1, <1>10, <2>1 DEF IInv
  <2>5. Fits(events', mine.ev)
    BY <1>2, <1>3, <1>4, <1>5, <2>3, <2>4, FitsStays
  <2>6. mine.head \subseteq known'[s]
    BY <1>6, <2>3
  <2>7. ASSUME mine.head = known'[s]
        PROVE  Foreseen(s, mine)' /\ Current(s, mine)'
    <3>1. s # r
      <4>1. PICK i \in DOMAIN plan.ev : TRUE
        BY <1>3
      <4>2. i \notin known[r]
        BY <1>1, <1>4, <1>5
      <4> QED
        BY <1>6, <2>3, <2>7, <4>2
    <3>2. known'[s] = known[s] /\ facts'[s] = facts[s]
      BY <1>6, <3>1
    <3>3. Foreseen(s, mine) /\ Current(s, mine)
      BY <2>3, <2>7, <3>2
    <3>4. Foreseen(s, mine)'
      BY <1>2, <1>4, <1>5, <3>2, <3>3, ForeseenStays
    <3> QED
      BY <3>2, <3>3, <3>4 DEF Current, Rows, Nodes
  <2> QED
    BY <1>10, <2>1, <2>2, <2>3, <2>5, <2>6, <2>7, PlanSoundNext
<1>12. \A q, s \in Open' : q # s => CreateApart(prepared'[q].ev, prepared'[s].ev)
  BY <1>10 DEF IInv
<1>13. KnownOrigin'
  <2>1. \A i \in DOMAIN events : i \in known[events[i].author] /\ events[i].author \in Replicas
    BY DEF IInv, KnownOrigin, Sound, EventSound, Event
  <2>2. \A s \in Replicas : known[s] \subseteq known'[s]
    BY <1>6
  <2>3. \A i \in DOMAIN events' : i \in known'[events'[i].author]
    BY <1>3, <1>4, <1>6, <2>1, <2>2
  <2>4. \A s \in Replicas : \A k \in 1 .. cursor'[s] : relay'[k] \in known'[s]
    BY <1>2, <2>2 DEF IInv, KnownOrigin
  <2> QED
    BY <2>3, <2>4 DEF KnownOrigin
<1>14. OncePerOperation'
  <2> SUFFICES ASSUME NEW s \in Replicas, NEW op \in Operations
               PROVE  {i \in DOMAIN events' : events'[i].author = s /\ events'[i].op = op}
                        = IF op \in DOMAIN receipts'[s] THEN receipts'[s][op] ELSE {}
    BY DEF OncePerOperation
  <2>1. {i \in DOMAIN events : events[i].author = s /\ events[i].op = op}
          = IF op \in DOMAIN receipts[s] THEN receipts[s][op] ELSE {}
    BY DEF IInv, OncePerOperation
  <2> DEFINE Before == {i \in DOMAIN events : events[i].author = s /\ events[i].op = op}
             After == {i \in DOMAIN events' : events'[i].author = s /\ events'[i].op = op}
  <2>2. CASE s = r /\ op = plan.op
    <3>1. Before = {}
      BY <1>1, <2>1, <2>2
    <3>2. After = DOMAIN plan.ev
      BY <1>3, <1>4, <2>2, <3>1
    <3>3. op \in DOMAIN receipts'[r] /\ receipts'[r][op] = DOMAIN plan.ev
      BY <1>6, <2>2 DEF Both, Single
    <3> QED
      BY <2>2, <3>2, <3>3
  <2>3. CASE ~ (s = r /\ op = plan.op)
    <3>1. After = Before
      BY <1>3, <1>4, <2>3
    <3>2. /\ op \in DOMAIN receipts'[s] <=> op \in DOMAIN receipts[s]
          /\ op \in DOMAIN receipts[s] => receipts'[s][op] = receipts[s][op]
      BY <1>6, <2>3 DEF Both, Single
    <3> QED
      BY <2>1, <3>1, <3>2
  <2> QED
    BY <2>2, <2>3
<1> QED
  BY <1>7, <1>8, <1>9, <1>11, <1>12, <1>13, <1>14 DEF IInv

LEMMA CreateKeeps ==
  ASSUME IInv, NEW p \in Processes \ Open, NEW op \in Operations,
         NEW e \in FreshEntries, NEW i \in Fresh, NEW loc \in Location,
         PrepareCreate(p, op, e, i, loc)
  PROVE  IInv'
<1>1. PICK r \in Replicas : r = home[p]
  BY HomeReplica
<1>2. Tables /\ Sound(events) /\ FactsRight(r) /\ loc.parent \in FoldersOf(r)
  BY <1>1 DEF IInv, PrepareCreate
<1>3. ASSUME NEW ev, Beginning(r, op, i, e, loc, ev), Claimants(Nodes(r), loc) = {},
             PrepareIndexed(p, op, e, ev)
      PROVE  IInv'
  <2>1. GoodPlan(r, op, ev, Single(e, IndexedRow(r, e, ev)))
    BY <1>2, <1>3, CreateIndexed
  <2>2. Prepare(p, op, ev, Single(e, IndexedRow(r, e, ev)))
    BY <1>1, <1>3 DEF PrepareIndexed
  <2> QED
    BY <1>1, <2>1, <2>2, PrepareKeeps
<1>4. CASE /\ Claimants(Nodes(r), loc) = {}
           /\ PrepareIndexed(p, op, e, Creation(r, op, i, e, "create_folder", loc))
  BY <1>3, <1>4 DEF Beginning
<1>5. CASE /\ Claimants(Nodes(r), loc) = {}
           /\ \E j \in Draws[Unused \ {i}] :
                PrepareIndexed(p, op, e,
                  Both(Creation(r, op, i, e, "create_text", loc),
                       Author(r, op, j, e, i, {i}, "activity", None)))
  BY <1>3, <1>5 DEF Beginning
<1>6. CASE PrepareWhole(p, op, Creation(r, op, i, e, "create_binary", loc))
  <2>1. PICK ev : ev = Creation(r, op, i, e, "create_binary", loc)
    OBVIOUS
  <2>2. Beginning(r, op, i, e, loc, ev)
    BY <2>1 DEF Beginning
  <2>3. GoodPlan(r, op, ev, View(Both(Held(r), ev)).entries)
    BY <1>2, <2>2, CreateWhole
  <2>4. Prepare(p, op, ev, View(Both(Held(r), ev)).entries)
    BY <1>1, <1>6, <2>1 DEF PrepareWhole
  <2> QED
    BY <1>1, <2>3, <2>4, PrepareKeeps
<1> QED
  BY <1>1, <1>4, <1>5, <1>6 DEF PrepareCreate

LEMMA WriteKeeps ==
  ASSUME IInv, NEW p \in Processes \ Open, NEW op \in Operations,
         NEW e \in Visible(home[p]), NEW i \in Fresh, PrepareWrite(p, op, e, i)
  PROVE  IInv'
<1>1. PICK r \in Replicas : r = home[p]
  BY HomeReplica
<1>2. Tables /\ Sound(events) /\ FactsRight(r) /\ e \in Visible(r)
  BY <1>1 DEF IInv
<1>3. CASE /\ Nodes(r)[e].kind = "text"
           /\ PrepareIndexed(p, op, e, Change(r, op, i, e, "activity", None))
  <2>1. PICK ev : ev = Change(r, op, i, e, "activity", None)
    OBVIOUS
  <2>2. GoodPlan(r, op, ev, Single(e, IndexedRow(r, e, ev)))
    BY <1>2, <1>3, <2>1, WriteText
  <2>3. Prepare(p, op, ev, Single(e, IndexedRow(r, e, ev)))
    BY <1>1, <1>3, <2>1 DEF PrepareIndexed
  <2> QED
    BY <1>1, <2>2, <2>3, PrepareKeeps
<1>4. CASE /\ Nodes(r)[e].kind = "binary"
           /\ PrepareWhole(p, op, Change(r, op, i, e, "set_content", None))
  <2>1. PICK ev : ev = Change(r, op, i, e, "set_content", None)
    OBVIOUS
  <2>2. None \in Location \cup {None} /\ "set_content" \in {"set_content", "move"}
    OBVIOUS
  <2>3. GoodPlan(r, op, ev, View(Both(Held(r), ev)).entries)
    BY <1>2, <1>4, <2>1, <2>2, ChangeWhole
  <2>4. Prepare(p, op, ev, View(Both(Held(r), ev)).entries)
    BY <1>1, <1>4, <2>1 DEF PrepareWhole
  <2> QED
    BY <1>1, <2>3, <2>4, PrepareKeeps
<1> QED
  BY <1>1, <1>3, <1>4 DEF PrepareWrite

LEMMA MoveKeeps ==
  ASSUME IInv, NEW p \in Processes \ Open, NEW op \in Operations,
         NEW e \in Visible(home[p]), NEW i \in Fresh, NEW loc \in Location,
         PrepareMove(p, op, e, i, loc)
  PROVE  IInv'
<1>1. PICK r \in Replicas : r = home[p]
  BY HomeReplica
<1>2. Tables /\ Sound(events) /\ FactsRight(r) /\ e \in Visible(r)
  BY <1>1 DEF IInv
<1>3. PICK ev : ev = Change(r, op, i, e, "move", loc)
  OBVIOUS
<1>4. Rooted(events, loc)
  BY <1>1, <1>2, FolderRooted DEF PrepareMove
<1>5. GoodPlan(r, op, ev, View(Both(Held(r), ev)).entries)
  <2>1. loc \in Location \cup {None} /\ "move" \in {"set_content", "move"}
    OBVIOUS
  <2> QED
    BY <1>2, <1>3, <1>4, <2>1, ChangeWhole
<1>6. Prepare(p, op, ev, View(Both(Held(r), ev)).entries)
  BY <1>1, <1>3 DEF PrepareMove, PrepareWhole
<1> QED
  BY <1>1, <1>5, <1>6, PrepareKeeps

LEMMA DeleteKeeps ==
  ASSUME IInv, NEW p \in Processes \ Open, NEW op \in Operations,
         NEW e \in Visible(home[p]), NEW id \in [Below(home[p], e) -> Unused],
         PrepareDelete(p, op, e, id)
  PROVE  IInv'
<1>1. PICK r \in Replicas : r = home[p]
  BY HomeReplica
<1>2. Tables /\ Sound(events) /\ FactsRight(r)
  BY DEF IInv
<1>3. PICK members : members = Below(r, e)
  OBVIOUS
<1>4. members \subseteq Visible(r) /\ members # {} /\ \A f \in members : id[f] \in Unused
  BY <1>1, <1>3, BelowHolds DEF PrepareDelete, Covered
<1>5. PICK ev : ev = Deletions(r, op, members, id)
  OBVIOUS
<1>6. GoodPlan(r, op, ev, View(Both(Held(r), ev)).entries)
  BY <1>2, <1>4, <1>5, DeleteWhole
<1>7. Prepare(p, op, ev, View(Both(Held(r), ev)).entries)
  <2>1. PrepareWhole(p, op, Deletions(r, op, members, id))
    BY <1>1, <1>3 DEF PrepareDelete, Deletions
  <2> QED
    BY <1>1, <1>5, <2>1 DEF PrepareWhole
<1> QED
  BY <1>1, <1>6, <1>7, PrepareKeeps

LEMMA InitHolds == Init => IInv
<1> SUFFICES ASSUME Init PROVE IInv
  OBVIOUS
<1>1. /\ events = <<>> /\ DOMAIN events = {}
      /\ known = [r \in Replicas |-> {}] /\ facts = [r \in Replicas |-> NoFacts]
      /\ Open = {} /\ receipts = [r \in Replicas |-> <<>>]
      /\ relay = <<>> /\ cursor = [r \in Replicas |-> 0]
      /\ DOMAIN prepared = Processes
  BY DEF Init, Open
<1>2. Sound(events)
  BY <1>1 DEF Sound, OneRoot
<1>3. Tables
  <2>1. relay \in Seq(DOMAIN events) /\ IsInjective(relay) /\ Len(relay) = 0
    BY <1>1 DEF IsInjective
  <2>2. \A r \in Replicas : DOMAIN receipts[r] \subseteq Operations
    BY <1>1
  <2>3. cursor \in [Replicas -> 0 .. Len(relay)]
    BY <1>1, <2>1
  <2> QED
    BY <1>1, <2>1, <2>2, <2>3 DEF Tables
<1>4. ASSUME NEW r \in Replicas
      PROVE  FactsRight(r)
  <2>1. Known(events, known[r]) = {} /\ known[r] = {} /\ known[r] \in SUBSET DOMAIN events
    BY <1>1 DEF Known
  <2>2. View(Part(events, known[r])) = [entries |-> Shown(Vault(events, {})), pending |-> {}]
    BY <1>2, <2>1, ViewOfPart
  <2>3. DOMAIN Vault(events, {}) = {}
    BY DEF Vault, EntriesIn
  <2>4. Shown(Vault(events, {})) = <<>>
    <3> DEFINE nodes == Vault(events, {})
    <3> HIDE DEF nodes
    <3>1. DOMAIN nodes = {}
      BY <2>3 DEF nodes
    <3>2. Shown(nodes) = <<>>
      BY <3>1 DEF Shown
    <3> QED
      BY <3>2 DEF nodes
  <2> QED
    BY <1>1, <2>2, <2>4 DEF FactsRight, NoFacts
<1>5. KnownOrigin /\ OncePerOperation
  <2>1. KnownOrigin
    BY <1>1 DEF KnownOrigin
  <2>2. OncePerOperation
    BY <1>1 DEF OncePerOperation
  <2> QED
    BY <2>1, <2>2
<1> QED
  BY <1>1, <1>2, <1>3, <1>4, <1>5 DEF IInv

LEMMA StutterKeeps ==
  ASSUME IInv, UNCHANGED vars
  PROVE  IInv'
<1>1. /\ UNCHANGED <<events, known, facts>> /\ Open' = Open
      /\ UNCHANGED <<prepared, receipts, relay, cursor>>
  BY DEF vars, Open
<1>2. /\ Sound(events)' /\ (\A r \in Replicas : FactsRight(r)')
      /\ \A q \in Open : PlanSound(q)'
  BY <1>1, StillSound
<1>3. Tables' /\ KnownOrigin' /\ OncePerOperation'
  BY <1>1 DEF IInv, Tables, KnownOrigin, OncePerOperation
<1> QED
  BY <1>1, <1>2, <1>3 DEF IInv

LEMMA NextKeeps == IInv /\ [Next]_vars => IInv'
<1> SUFFICES ASSUME IInv, [Next]_vars PROVE IInv'
  OBVIOUS
<1>1. CASE UNCHANGED vars
  BY <1>1, StutterKeeps
<1>2. ASSUME NEW p \in Processes \ Open, NEW op \in Operations,
             \E e \in FreshEntries, i \in Fresh, loc \in Location :
               PrepareCreate(p, op, e, i, loc)
      PROVE  IInv'
  BY <1>2, CreateKeeps
<1>3. ASSUME NEW p \in Processes \ Open, NEW op \in Operations, NEW e \in Visible(home[p]),
             \E i \in Fresh : PrepareWrite(p, op, e, i)
      PROVE  IInv'
  BY <1>3, WriteKeeps
<1>4. ASSUME NEW p \in Processes \ Open, NEW op \in Operations, NEW e \in Visible(home[p]),
             \E i \in Fresh, loc \in Location : PrepareMove(p, op, e, i, loc)
      PROVE  IInv'
  BY <1>4, MoveKeeps
<1>5. ASSUME NEW p \in Processes \ Open, NEW op \in Operations, NEW e \in Visible(home[p]),
             \E id \in [Below(home[p], e) -> Unused] : PrepareDelete(p, op, e, id)
      PROVE  IInv'
  BY <1>5, DeleteKeeps
<1>6. ASSUME NEW p \in Processes, Commit(p) \/ Discard(p)
      PROVE  IInv'
  BY <1>6, CommitKeeps, DiscardKeeps
<1>7. ASSUME NEW r \in Replicas, Upload(r) \/ Pull(r)
      PROVE  IInv'
  BY <1>7, UploadKeeps, PullKeeps
<1> QED
  BY <1>1, <1>2, <1>3, <1>4, <1>5, <1>6, <1>7 DEF Next

-------------------------------------------------------------------------------
(* What the invariant means.                                               *)

(* It holds of every state that is reached.                                *)
THEOREM Invariance == Spec => []IInv
<1>1. Init => IInv
  BY InitHolds
<1>2. IInv /\ [Next]_vars => IInv'
  BY NextKeeps
<1> QED
  BY <1>1, <1>2, PTL DEF Spec

LEMMA InvTyped == IInv => TypeOK
<1> SUFFICES ASSUME IInv PROVE TypeOK
  OBVIOUS
<1>1. Tables /\ Sound(events)
  BY DEF IInv
<1>2. ASSUME NEW r \in Replicas
      PROVE  /\ DOMAIN facts[r].entries \subseteq EntryIds
             /\ facts[r].pending \subseteq known[r]
             /\ DOMAIN receipts[r] \subseteq Operations
  <2>1. FactsRight(r)
    BY DEF IInv
  <2>2. /\ DOMAIN Rows(r) = EntriesIn(events, Understood(r))
        /\ Complete(events, Understood(r)) /\ facts[r].pending = known[r] \ Understood(r)
    BY <1>1, <2>1, RowsAre
  <2>3. EntriesIn(events, Understood(r)) \subseteq EntryIds
    BY <1>1, <2>2, VaultFinite
  <2> QED
    BY <1>1, <2>2, <2>3 DEF Rows, Tables
<1> QED
  BY <1>1, <1>2 DEF TypeOK, Tables, Sound, EventSound

(* Every state is of its type, for all bounds.                             *)
THEOREM TypeCorrect == Spec => []TypeOK
BY Invariance, InvTyped, PTL

LEMMA InvFacts == IInv => FactsMatchReference
<1> SUFFICES ASSUME IInv, NEW r \in Replicas
             PROVE  /\ facts[r] = View(Held(r))
                    /\ LET nodes == Entries(Held(r)) IN
                         \A e \in DOMAIN nodes :
                           /\ Entries(OwnEvents(Held(r), e))[e] = nodes[e]
                           /\ IndexedProjection(nodes, e) = Projection(nodes, e)
  BY DEF FactsMatchReference, IndexedAgrees
<1> DEFINE R == Known(events, known[r])
           nodes == Vault(events, R)
<1>1. Sound(events) /\ FactsRight(r) /\ known[r] \in SUBSET DOMAIN events
  BY DEF IInv, Tables
<1>2. Held(r) = Part(events, known[r])
  BY HeldIsPart
<1>3. Entries(Part(events, known[r])) = nodes
  BY <1>1, PartEntries
<1>4. DOMAIN nodes = EntriesIn(events, R) /\ DOMAIN nodes \subseteq EntryIds
  BY <1>1, KnownComplete, VaultFinite
<1>5. ASSUME NEW e \in DOMAIN nodes
      PROVE  /\ Entries(OwnEvents(Part(events, known[r]), e))[e] = nodes[e]
             /\ IndexedProjection(nodes, e) = Projection(nodes, e)
  BY <1>1, <1>4, OwnEntry, IndexedIsWhole
<1> HIDE DEF nodes
<1> QED
  BY <1>1, <1>2, <1>3, <1>5 DEF FactsRight

(* The facts maintained one command and one arrival at a time, with the    *)
(* row of the indexed path, are those of a complete derivation.            *)
THEOREM FactsAreExact == Spec => []FactsMatchReference
BY Invariance, InvFacts, PTL

LEMMA InvAccepts == IInv => NothingRefused
<1> SUFFICES ASSUME IInv, NEW r \in Replicas, NEW i \in DOMAIN events
             PROVE  Accepts([j \in known[r] \cup {i} |-> events[j]])
  BY DEF NothingRefused
<1>1. Sound(events) /\ known[r] \cup {i} \in SUBSET DOMAIN events
  BY DEF IInv, Tables
<1>2. Accepts(Part(events, known[r] \cup {i}))
  BY <1>1, EveryPartAccepted
<1> QED
  BY <1>2 DEF Part

LEMMA InvConverges == IInv => Converged
<1> SUFFICES ASSUME IInv, \A r \in Replicas : Unsent(r) = {} /\ cursor[r] = Len(relay)
             PROVE  \A r, s \in Replicas : facts[r].pending = {} /\ facts[r] = facts[s]
  BY DEF Converged
<1>1. ASSUME NEW r \in Replicas
      PROVE  known[r] = DOMAIN events
  <2>1. known[r] \subseteq DOMAIN events
    BY DEF IInv, Tables
  <2>2. ASSUME NEW i \in DOMAIN events
        PROVE  i \in known[r]
    <3>1. events[i].author \in Replicas /\ i \in known[events[i].author]
      BY DEF IInv, KnownOrigin, Sound, EventSound, Event
    <3>2. PICK k \in 1 .. Len(relay) : relay[k] = i
      BY <3>1 DEF Unsent
    <3> QED
      BY <3>2 DEF IInv, KnownOrigin
  <2> QED
    BY <2>1, <2>2
<1>2. Known(events, DOMAIN events) = DOMAIN events
  BY SoundOver DEF IInv, Known
<1>3. ASSUME NEW r \in Replicas
      PROVE  facts[r] = View(Part(events, DOMAIN events)) /\ facts[r].pending = {}
  <2>1. facts[r] = View(Part(events, DOMAIN events))
    BY <1>1 DEF IInv, FactsRight
  <2>2. facts[r].pending = known[r] \ Understood(r)
    BY RowsAre DEF IInv
  <2> QED
    BY <1>1, <1>2, <2>1, <2>2 DEF Understood
<1> QED
  BY <1>3

(* What a step does to the events and to what replicas know.               *)
LEMMA StepGrows ==
  ASSUME IInv, [Next]_vars
  PROVE  /\ \A r \in Replicas : known[r] \subseteq known'[r]
         /\ \/ UNCHANGED events
            \/ \E p \in Processes : Commit(p)
<1>1. CASE UNCHANGED vars
  BY <1>1 DEF vars
<1>2. ASSUME NEW p \in Processes, Commit(p)
      PROVE  \A r \in Replicas : known[r] \subseteq known'[r]
  <2>1. home[p] \in Replicas /\ known \in [Replicas -> SUBSET DOMAIN events]
    BY HomeReplica DEF IInv, Tables
  <2>2. known' = [known EXCEPT ![home[p]] = @ \cup DOMAIN prepared[p].ev]
    BY <1>2 DEF Commit, Store
  <2> QED
    BY <2>1, <2>2
<1>3. ASSUME NEW p \in Processes, Discard(p)
      PROVE  UNCHANGED <<events, known>>
  BY <1>3 DEF Discard
<1>4. ASSUME NEW r \in Replicas, Upload(r)
      PROVE  UNCHANGED <<events, known>>
  BY <1>4 DEF Upload
<1>5. ASSUME NEW r \in Replicas, Pull(r)
      PROVE  UNCHANGED events /\ \A s \in Replicas : known[s] \subseteq known'[s]
  <2>1. known' = [known EXCEPT ![r] = Pulled(r)] /\ UNCHANGED events
    BY <1>5 DEF Pull
  <2>2. known \in [Replicas -> SUBSET DOMAIN events]
    BY DEF IInv, Tables
  <2> QED
    BY <2>1, <2>2 DEF Pulled
<1>6. ASSUME NEW p \in Processes \ Open, NEW op \in Operations,
             \/ \E e \in FreshEntries, i \in Fresh, loc \in Location :
                  PrepareCreate(p, op, e, i, loc)
             \/ \E e \in Visible(home[p]) :
                  \/ \E i \in Fresh : PrepareWrite(p, op, e, i)
                  \/ \E i \in Fresh, loc \in Location : PrepareMove(p, op, e, i, loc)
                  \/ \E id \in [Below(home[p], e) -> Unused] : PrepareDelete(p, op, e, id)
      PROVE  UNCHANGED <<events, known>>
  <2>1. ASSUME NEW e, NEW i, NEW loc, PrepareCreate(p, op, e, i, loc)
        PROVE  UNCHANGED <<events, known>>
    BY <2>1 DEF PrepareCreate, PrepareIndexed, PrepareWhole, Prepare
  <2>2. ASSUME NEW e, NEW i, PrepareWrite(p, op, e, i)
        PROVE  UNCHANGED <<events, known>>
    BY <2>2 DEF PrepareWrite, PrepareIndexed, PrepareWhole, Prepare
  <2>3. ASSUME NEW e, NEW i, NEW loc, PrepareMove(p, op, e, i, loc)
        PROVE  UNCHANGED <<events, known>>
    BY <2>3 DEF PrepareMove, PrepareWhole, Prepare
  <2>4. ASSUME NEW e, NEW id, PrepareDelete(p, op, e, id)
        PROVE  UNCHANGED <<events, known>>
    BY <2>4 DEF PrepareDelete, PrepareWhole, Prepare
  <2> QED
    BY <1>6, <2>1, <2>2, <2>3, <2>4
<1> QED
  BY <1>1, <1>2, <1>3, <1>4, <1>5, <1>6 DEF Next

LEMMA PastStays ==
  ASSUME IInv, [Next]_vars
  PROVE  \A i \in DOMAIN events : /\ i \in DOMAIN events' /\ events'[i] = events[i]
                                  /\ Past(events')[i] = Past(events)[i]
<1>1. CASE UNCHANGED events
  BY <1>1
<1>2. ASSUME NEW p \in Processes, Commit(p)
      PROVE  \A i \in DOMAIN events : /\ i \in DOMAIN events' /\ events'[i] = events[i]
                                      /\ Past(events')[i] = Past(events)[i]
  <2>1. /\ Fits(events, prepared[p].ev) /\ Apart(events, prepared[p].ev)
        /\ events' = Both(prepared[p].ev, events) /\ Sound(events)
    BY <1>2 DEF Commit, Store, Apart, IInv, PlanSound, Open
  <2>2. \A i \in DOMAIN events : Past(events')[i] = Past(events)[i]
    BY <2>1, PastGrows
  <2> QED
    BY <2>1, <2>2 DEF Both, Apart
<1> QED
  BY <1>1, <1>2, StepGrows

LEMMA StepKeepsResolved ==
  ASSUME IInv, IInv', [Next]_vars, NEW r \in Replicas
  PROVE  known[r] \ facts[r].pending \subseteq known'[r] \ facts'[r].pending
<1>1. facts[r].pending = known[r] \ Understood(r) /\ Understood(r) \subseteq known[r]
  BY RowsAre DEF IInv
<1>2. facts'[r].pending = known'[r] \ Known(events', known'[r])
  <2>1. Sound(events') /\ known'[r] \in SUBSET DOMAIN events'
    BY DEF IInv, Tables
  <2>2. facts'[r] = View(Part(events', known'[r]))
    BY DEF IInv, FactsRight
  <2>3. View(Part(events', known'[r])).pending = known'[r] \ Known(events', known'[r])
    BY <2>1, ViewOfPart
  <2> QED
    BY <2>2, <2>3
<1>3. Known(events, known[r]) \subseteq Known(events', known'[r])
  <2>1. known[r] \subseteq known'[r] /\ known[r] \subseteq DOMAIN events
    BY StepGrows DEF IInv, Tables
  <2> QED
    BY <2>1, PastStays DEF Known
<1> QED
  BY <1>1, <1>2, <1>3, StepGrows DEF Understood

(* Replicas that receive the same events in any order, with any gaps,      *)
(* refuse none, keep what they understood and end with the same vault.     *)
THEOREM ReplicasConverge == Spec => ReplicasAgree
<1>1. IInv => NothingRefused /\ Converged
  BY InvAccepts, InvConverges
<1>2. IInv /\ IInv' /\ [Next]_vars =>
        [\A r \in Replicas :
           known[r] \ facts[r].pending \subseteq known'[r] \ facts'[r].pending]_vars
  BY StepKeepsResolved
<1> QED
  BY <1>1, <1>2, Invariance, PTL DEF Spec, ReplicasAgree, ResolvedStays

LEMMA StepFollowsHeads ==
  ASSUME IInv, [Next]_vars, NEW i \in DOMAIN events' \ DOMAIN events
  PROVE  LET e == events'[i].entry
             r == events'[i].author
         IN e \in DOMAIN Rows(r) => events'[i].parents = Nodes(r)[e].heads
<1>1. PICK p \in Processes : Commit(p)
  BY StepGrows
<1>2. PICK plan : plan = prepared[p]
  OBVIOUS
<1>3. p \in Open /\ plan.head = known[home[p]] /\ events' = Both(plan.ev, events)
  BY <1>1, <1>2 DEF Commit, Ready, Store, Open
<1>4. /\ Current(home[p], plan)
      /\ \A j \in DOMAIN plan.ev : plan.ev[j].author = home[p]
  BY <1>2, <1>3 DEF IInv, PlanSound
<1>5. i \in DOMAIN plan.ev /\ events'[i] = plan.ev[i]
  BY <1>3 DEF Both
<1> QED
  BY <1>4, <1>5 DEF Current

(* A command takes effect once, and follows exactly the heads its replica  *)
(* showed at the moment it was stored.                                     *)
THEOREM CommandsOnce == Spec => CommandsTakeEffectOnce
<1>1. IInv => OncePerOperation
  BY DEF IInv
<1>2. IInv /\ [Next]_vars =>
        [\A i \in DOMAIN events' \ DOMAIN events :
           LET e == events'[i].entry
               r == events'[i].author
           IN e \in DOMAIN Rows(r) => events'[i].parents = Nodes(r)[e].heads]_vars
  BY StepFollowsHeads
<1> QED
  BY <1>1, <1>2, Invariance, PTL DEF Spec, CommandsTakeEffectOnce, ParentsAreCurrent

-------------------------------------------------------------------------------
(* What concurrent commands may drop.                                      *)

LEMMA InvInformed == IInv => DeletionsWereInformed
<1> SUFFICES ASSUME IInv, NEW r \in Replicas, NEW e \in DOMAIN Rows(r),
                    Nodes(r)[e].liveness = "deleted",
                    NEW i \in known[r] \ facts[r].pending, events[i].entry = e
             PROVE  \E d \in known[r] : /\ events[d].entry = e
                                        /\ events[d].effect = "delete"
                                        /\ i \in events[d].saw \cup {d}
  BY DEF DeletionsWereInformed
<1> DEFINE R == Understood(r)
           own == Own(events, R, e)
           heads == Maximal(Past(events), own)
<1>1. /\ Complete(events, R) /\ R \subseteq known[r] /\ known[r] \in SUBSET DOMAIN events
      /\ Nodes(r) = Vault(events, R) /\ DOMAIN Rows(r) = EntriesIn(events, R)
      /\ facts[r].pending = known[r] \ R
  BY RowsAre DEF IInv
<1>2. own \in SUBSET DOMAIN events /\ i \in own /\ own \subseteq R
  BY <1>1 DEF Own
<1>3. \A h \in heads : h \in own /\ events[h].effect = "delete"
  <2>1. Liveness(events, heads) = "deleted"
    BY <1>1 DEF Vault, NodeOf
  <2>2. heads \subseteq own
    BY DEF Maximal
  <2> HIDE DEF heads
  <2>3. \A h \in heads : events[h].effect = "delete"
    BY <2>1 DEF Liveness
  <2> QED
    BY <2>2, <2>3
<1>4. PICK h \in heads : i = h \/ i \in Past(events)[h]
  BY <1>2, HeadsCover DEF IInv
<1>5. Past(events)[h] \subseteq events[h].saw
  BY <1>2, <1>3 DEF IInv, Sound, EventSound
<1> QED
  BY <1>1, <1>2, <1>3, <1>4, <1>5 DEF Own

LEMMA InvNoneLost == IInv => NoContentLost
<1> SUFFICES ASSUME IInv, NEW r \in Replicas, NEW i \in known[r] \ facts[r].pending,
                    Writes(events[i].effect)
             PROVE  \/ i \in Nodes(r)[events[i].entry].contents
                    \/ \E j \in known[r] : /\ Writes(events[j].effect)
                                           /\ events[j].entry = events[i].entry
                                           /\ i \in events[j].saw
  BY DEF NoContentLost
<1> DEFINE R == Understood(r)
           e == events[i].entry
           S == {j \in Own(events, R, e) : Writes(events[j].effect)}
<1>1. /\ Complete(events, R) /\ R \subseteq known[r] /\ known[r] \in SUBSET DOMAIN events
      /\ Nodes(r) = Vault(events, R) /\ facts[r].pending = known[r] \ R
  BY RowsAre DEF IInv
<1>2. S \in SUBSET DOMAIN events /\ i \in S /\ S \subseteq R
  BY <1>1 DEF Own
<1>3. e \in EntriesIn(events, R)
  BY <1>1 DEF EntriesIn
<1>4. Nodes(r)[e].contents = Maximal(Past(events), S)
  BY <1>1, <1>3 DEF Vault, NodeOf
<1>5. PICK m \in Maximal(Past(events), S) : i = m \/ i \in Past(events)[m]
  BY <1>2, HeadsCover DEF IInv
<1>6. m \in S /\ m \in known[r] /\ m \in DOMAIN events
  BY <1>1, <1>2, <1>5 DEF Maximal
<1>7. Writes(events[m].effect) /\ events[m].entry = e
  BY <1>6 DEF Own
<1>8. Past(events)[m] \subseteq events[m].saw
  BY <1>6, <1>7 DEF IInv, Sound, EventSound, Writes
<1> QED
  BY <1>4, <1>5, <1>6, <1>7, <1>8

(* An entry disappears only when every change of it was seen by someone    *)
(* who deleted it, and a content only for a later one of somebody who had  *)
(* seen it.                                                                *)
THEOREM NothingUnseenIsDropped == Spec => []ChangesSurvive
<1>1. IInv => ChangesSurvive
  BY InvInformed, InvNoneLost DEF ChangesSurvive
<1> QED
  BY <1>1, Invariance, PTL

-------------------------------------------------------------------------------
(* The paths of a replica.                                                 *)

(* What the rows of a replica are, for proofs about paths.                 *)
LEMMA RowsPlaced ==
  ASSUME Tables, Sound(events), NEW r \in Replicas, FactsRight(r)
  PROVE  /\ IsFiniteSet(DOMAIN Nodes(r)) /\ DOMAIN Nodes(r) \subseteq EntryIds
         /\ DOMAIN Nodes(r) \subseteq Nat /\ Root \notin DOMAIN Nodes(r)
         /\ DOMAIN Rows(r) = DOMAIN Nodes(r)
         /\ \A e \in DOMAIN Nodes(r) :
              /\ Rows(r)[e].projection = Projection(Nodes(r), e)
              /\ Nodes(r)[e].liveness \in {"live", "deleted", "delete_conflict"}
              /\ Nodes(r)[e].preferred \in Location
         /\ Placed(r) = {e \in DOMAIN Nodes(r) : Projection(Nodes(r), e).to = "normal"}
<1> DEFINE nodes == Nodes(r)
<1>1. /\ Complete(events, Understood(r)) /\ nodes = Vault(events, Understood(r))
      /\ DOMAIN nodes = EntriesIn(events, Understood(r))
      /\ DOMAIN Rows(r) = EntriesIn(events, Understood(r))
      /\ Rows(r) = Shown(nodes)
  <2>1. Nodes(r) = Vault(events, Understood(r)) /\ Rows(r) = Shown(Vault(events, Understood(r)))
    BY RowsAre
  <2> QED
    BY <2>1, RowsAre
<1>2. IsFiniteSet(DOMAIN nodes) /\ DOMAIN nodes \subseteq EntryIds
  BY <1>1, VaultFinite
<1>3. EntryIds \subseteq Nat /\ Root \notin EntryIds
  BY FamilyGraphAssumption DEF EntryIds, Root
<1>4. \A e \in DOMAIN nodes :
        /\ nodes[e].liveness \in {"live", "deleted", "delete_conflict"}
        /\ nodes[e].preferred \in Location
  <2>1. \A e \in DOMAIN nodes : Rooted(events, nodes[e].preferred)
    BY <1>1, VaultNode
  <2>2. \A e \in DOMAIN nodes : nodes[e].liveness \in {"live", "deleted", "delete_conflict"}
    BY <1>1, VaultNode
  <2> QED
    BY <2>1, <2>2 DEF Rooted
<1> HIDE DEF nodes
<1>5. \A e \in DOMAIN nodes : Rows(r)[e].projection = Projection(nodes, e)
  BY <1>1 DEF Shown
<1>6. Placed(r) = {e \in DOMAIN nodes : Projection(nodes, e).to = "normal"}
  BY <1>1, <1>5 DEF Placed
<1> QED
  BY <1>1, <1>2, <1>3, <1>4, <1>5, <1>6 DEF nodes

(* Above a placed entry is a placed folder, or the top.                    *)
LEMMA PlacedParent ==
  ASSUME Tables, Sound(events), NEW r \in Replicas, FactsRight(r),
         NEW e \in Placed(r), Nodes(r)[e].preferred.parent # Root
  PROVE  /\ Nodes(r)[e].preferred.parent \in Placed(r)
         /\ Nodes(r)[Nodes(r)[e].preferred.parent].kind = "folder"
<1> DEFINE nodes == Nodes(r)
           C == Collisions(nodes)
           up == nodes[e].preferred.parent
<1>1. /\ IsFiniteSet(DOMAIN nodes)
      /\ Placed(r) = {f \in DOMAIN nodes : Projection(nodes, f).to = "normal"}
  BY RowsPlaced
<1>2. Locate(nodes, C, e).to = "normal"
  BY <1>1 DEF Projection
<1> HIDE DEF C, nodes
<1>3. PICK k \in 0 .. Cardinality(DOMAIN nodes) : Tops(nodes, C, e, k)
  BY <1>1, <1>2, PlacedWalk
<1>4. k \in Nat /\ up # Root
  BY <1>1, FS_CardinalityType DEF nodes
<1>5. k - 1 \in Nat /\ Tops(nodes, C, up, k - 1) /\ up \in DOMAIN nodes /\ nodes[up].kind = "folder"
  BY <1>3, <1>4, ParentTops
<1>6. Locate(nodes, C, up).to = "normal"
  BY <1>1, <1>5, PlacedWalk
<1> QED
  BY <1>1, <1>5, <1>6 DEF Projection, C, nodes

LEMMA InvPaths == IInv => PathsAreSound
<1> SUFFICES ASSUME IInv, NEW r \in Replicas, NEW e \in Placed(r), NEW f \in Placed(r)
             PROVE  /\ e # f => Rows(r)[e].projection.path # Rows(r)[f].projection.path
                    /\ LET up == Nodes(r)[e].preferred.parent IN
                         up # Root => up \in Placed(r) /\ Nodes(r)[up].kind = "folder"
  BY DEF PathsAreSound
<1>1. Tables /\ Sound(events) /\ FactsRight(r)
  BY DEF IInv
<1>2. /\ IsFiniteSet(DOMAIN Nodes(r)) /\ DOMAIN Nodes(r) \subseteq Nat
      /\ \A g \in DOMAIN Nodes(r) :
           /\ Rows(r)[g].projection = Projection(Nodes(r), g)
           /\ Nodes(r)[g].liveness \in {"live", "deleted", "delete_conflict"}
           /\ Nodes(r)[g].preferred \in Location
      /\ Placed(r) = {g \in DOMAIN Nodes(r) : Projection(Nodes(r), g).to = "normal"}
  BY <1>1, RowsPlaced
<1>3. \A g \in DOMAIN Nodes(r) :
        Nodes(r)[g].preferred = [parent |-> Nodes(r)[g].preferred.parent,
                                 name |-> Nodes(r)[g].preferred.name]
  BY <1>2 DEF Location
<1>4. Rows(r)[e].projection.path = Rows(r)[f].projection.path => e = f
  <2>1. /\ Rows(r)[e].projection = Projection(Nodes(r), e)
        /\ Rows(r)[f].projection = Projection(Nodes(r), f)
        /\ Projection(Nodes(r), e).to = "normal" /\ Projection(Nodes(r), f).to = "normal"
    BY <1>2
  <2> QED
    BY <1>2, <1>3, <2>1, PathsDiffer
<1> QED
  BY <1>1, <1>4, PlacedParent

(* What is placed in a folder below an entry is below it too, however deep *)
(* the bound on the walk down lets it go.                                  *)
LEMMA BelowClosed ==
  ASSUME Tables, Sound(events), NEW r \in Replicas, FactsRight(r),
         NEW e \in EntryIds, NEW g \in Placed(r),
         Nodes(r)[g].preferred.parent \in Below(r, e)
  PROVE  g \in Below(r, e)
<1>a. PICK G : Downward(r, e, G)
  BY BelowSteps
<1>2. /\ Below(r, e) = G[MaxEntries] /\ G[0] = {e}
      /\ \A n \in Nat : G[n + 1] = Under(r, G[n]) \cup G[n]
  BY <1>a DEF Downward
<1> DEFINE nodes == Nodes(r)
           C == Collisions(nodes)
           N == Cardinality(DOMAIN nodes)
           a == Chain(nodes, g)
<1>1. /\ IsFiniteSet(DOMAIN nodes) /\ DOMAIN nodes \subseteq EntryIds
      /\ Root \notin DOMAIN nodes /\ e # Root
      /\ Placed(r) = {f \in DOMAIN nodes : Projection(nodes, f).to = "normal"}
  <2>1. e # Root
    BY FamilyGraphAssumption DEF EntryIds, Root
  <2> QED
    BY <2>1, RowsPlaced
<1>3. N \in Nat /\ N <= MaxEntries /\ MaxEntries \in Nat
  <2>1. MaxEntries \in Nat
    BY FamilyGraphAssumption
  <2>2. IsFiniteSet(EntryIds) /\ Cardinality(EntryIds) = MaxEntries
    BY <2>1, FS_Interval DEF EntryIds
  <2> QED
    BY <1>1, <2>1, <2>2, FS_Subset, FS_CardinalityType
<1> HIDE DEF C, N
<1>4. PICK k \in 0 .. N : Tops(nodes, C, g, k)
  <2>1. Locate(nodes, C, g).to = "normal"
    BY <1>1 DEF Projection, C
  <2> HIDE DEF nodes
  <2> QED
    BY <1>1, <2>1, PlacedWalk DEF N
<1>5. k \in Nat /\ k <= MaxEntries
  BY <1>3
<1>6. \A j \in 0 .. k : /\ a[j] \in Placed(r)
                        /\ a[j + 1] = nodes[a[j]].preferred.parent
  <2> SUFFICES ASSUME NEW j \in 0 .. k
               PROVE  a[j] \in Placed(r) /\ a[j + 1] = nodes[a[j]].preferred.parent
    OBVIOUS
  <2> HIDE DEF nodes
  <2>1. /\ a[j] \in DOMAIN nodes \ C
        /\ a[j + 1] = nodes[a[j]].preferred.parent
    <3>1. k \in Nat /\ Tops(nodes, C, g, k) /\ j \in 0 .. k
      BY <1>4, <1>5
    <3> QED
      BY <3>1, OnTheWay
  <2>2. Tops(nodes, C, a[j], k - j) /\ k - j \in Nat
    BY <1>1, <1>4, <1>5, AllTheWayUp
  <2>3. Locate(nodes, C, a[j]).to = "normal"
    BY <1>1, <2>2, PlacedWalk
  <2> QED
    BY <1>1, <2>1, <2>3 DEF Projection, C
<1>7. \A m \in Nat : m > k => a[m] = Root
  <2> HIDE DEF nodes
  <2> QED
    BY <1>1, <1>4, <1>5, AllTheWayUp
<1>8. a[0] = g
  BY ChainSteps
<1> DEFINE A == {n \in Nat : \A x \in G[n] : \E j \in Nat : Chain(nodes, x)[j] = e}
<1>9. Nat \subseteq A
  <2>1. 0 \in A
    BY <1>2, ChainSteps
  <2>2. ASSUME NEW n \in Nat, n \in A
        PROVE  n + 1 \in A
    <3> SUFFICES ASSUME NEW x \in Under(r, G[n])
                 PROVE  \E j \in Nat : Chain(nodes, x)[j] = e
      BY <1>2, <2>2
    <3>1. x \in DOMAIN nodes /\ nodes[x].preferred.parent \in G[n]
      BY <1>1 DEF Under
    <3>2. PICK j \in Nat : Chain(nodes, nodes[x].preferred.parent)[j] = e
      BY <2>2, <3>1
    <3>3. j + 1 \in Nat /\ Chain(nodes, x)[j + 1] = e
      BY <3>1, <3>2, ChainShifts
    <3> QED
      BY <3>3
  <2> HIDE DEF A
  <2> QED
    BY <2>1, <2>2, SetInduction
<1>10. PICK j \in Nat : a[j] = e
  <2>1. \E i \in Nat : Chain(nodes, nodes[g].preferred.parent)[i] = e
    BY <1>2, <1>3, <1>9
  <2>2. PICK i \in Nat : Chain(nodes, nodes[g].preferred.parent)[i] = e
    BY <2>1
  <2>3. g \in DOMAIN nodes
    BY <1>1
  <2>4. i + 1 \in Nat /\ a[i + 1] = e
    BY <2>2, <2>3, ChainShifts
  <2> QED
    BY <2>4
<1>11. j <= k
  BY <1>1, <1>5, <1>7, <1>10
<1> HIDE DEF a, nodes
<1> DEFINE B == {i \in Nat : i <= j => a[j - i] \in G[i]}
<1>12. j \in B
  <2>1. 0 \in B
    BY <1>2, <1>10
  <2>2. ASSUME NEW i \in Nat, i \in B
        PROVE  i + 1 \in B
    <3> SUFFICES ASSUME i + 1 <= j
                 PROVE  a[j - (i + 1)] \in G[i + 1]
      OBVIOUS
    <3>1. j - (i + 1) \in 0 .. k /\ (j - (i + 1)) + 1 = j - i /\ i <= j
      BY <1>5, <1>11
    <3>2. a[j - i] \in G[i]
      BY <2>2, <3>1
    <3>3. a[j - (i + 1)] \in Placed(r) /\ a[j - i] = nodes[a[j - (i + 1)]].preferred.parent
      BY <1>6, <3>1
    <3>4. a[j - (i + 1)] \in Under(r, G[i])
      BY <3>2, <3>3 DEF Under, nodes
    <3> QED
      BY <1>2, <3>4
  <2> HIDE DEF B
  <2> QED
    BY <2>1, <2>2, SetInduction
<1>13. g \in G[j]
  BY <1>8, <1>12
<1> DEFINE M == {n \in Nat : G[j] \subseteq G[j + n]}
<1>14. MaxEntries - j \in M
  <2>1. 0 \in M
    OBVIOUS
  <2>2. ASSUME NEW n \in Nat, n \in M
        PROVE  n + 1 \in M
    <3>1. j + n \in Nat /\ (j + n) + 1 = j + (n + 1)
      OBVIOUS
    <3> QED
      BY <1>2, <2>2, <3>1
  <2>3. MaxEntries - j \in Nat
    BY <1>3, <1>5, <1>11
  <2> HIDE DEF M
  <2> QED
    BY <2>1, <2>2, <2>3, SetInduction
<1>15. j + (MaxEntries - j) = MaxEntries
  BY <1>3
<1> QED
  BY <1>2, <1>13, <1>14, <1>15

-------------------------------------------------------------------------------
(* Commands displace nothing.                                              *)

Touched(r, ev) == UNION {Below(r, ev[i].entry) : i \in DOMAIN ev}

(* The rows a plan would write move no placed entry but those it touches.  *)
Keeps(r, plan) ==
  \A e \in Placed(r) \ Touched(r, plan.ev) :
    Both(plan.changed, Rows(r))[e].projection = Rows(r)[e].projection

(* So it is of every open command while its replica knows what it knew.    *)
PlansKeep == \A p \in Open : prepared[p].head = known[home[p]] => Keeps(home[p], prepared[p])

(* An indexed command writes one row, of the entry it is about.            *)
LEMMA IndexedKeeps ==
  ASSUME NEW r, NEW e, NEW plan, NEW row, About(plan.ev, e), plan.changed = Single(e, row)
  PROVE  Keeps(r, plan)
<1>1. e \in Touched(r, plan.ev)
  <2>1. PICK i \in DOMAIN plan.ev : plan.ev[i].entry = e
    BY DEF About
  <2> QED
    BY <2>1, BelowHolds DEF Touched
<1> QED
  BY <1>1 DEF Keeps, Both, Single, Placed

(* None of the entries it changes wants, after it, the name of a placed    *)
(* entry that it did not want before.                                      *)
NoNewClaims(r, ev) ==
  LET more == Vault(Both(ev, events), Understood(r) \cup DOMAIN ev) IN
    \A i \in DOMAIN ev, g \in Placed(r) \ Touched(r, ev) :
      LET loc == Nodes(r)[g].preferred IN
        ev[i].entry \in Claimants(more, loc) => ev[i].entry \in Claimants(Nodes(r), loc)

LEMMA WholeKeeps ==
  ASSUME Tables, Sound(events), NEW r \in Replicas, FactsRight(r),
         NEW plan, Fits(events, plan.ev), Apart(events, plan.ev),
         OverKnown(plan.ev, events, Understood(r)), Foreseen(r, plan),
         NoNewClaims(r, plan.ev)
  PROVE  Keeps(r, plan)
<1> DEFINE ev == plan.ev
           W == Both(ev, events)
           R == Understood(r)
           Q == R \cup DOMAIN ev
           nodes == Nodes(r)
           more == Vault(W, Q)
           S == Placed(r) \ Touched(r, ev)
<1>1. /\ Complete(events, R) /\ nodes = Vault(events, R)
      /\ DOMAIN nodes = EntriesIn(events, R)
  BY RowsAre
<1>2. /\ Sound(W) /\ Complete(W, Q)
      /\ View(Part(W, known[r] \cup DOMAIN ev))
           = [entries |-> Shown(more), pending |-> facts[r].pending]
  BY AfterCommand
<1>3. Both(plan.changed, Rows(r)) = Shown(more)
  BY <1>2 DEF Foreseen
<1>4. /\ IsFiniteSet(DOMAIN nodes) /\ Root \notin DOMAIN nodes
      /\ \A g \in DOMAIN nodes : Rows(r)[g].projection = Projection(nodes, g)
      /\ Placed(r) = {g \in DOMAIN nodes : Projection(nodes, g).to = "normal"}
  BY RowsPlaced
<1>5. IsFiniteSet(DOMAIN more) /\ Root \notin DOMAIN more /\ DOMAIN more = EntriesIn(W, Q)
  <2>1. EntriesIn(W, Q) \subseteq EntryIds /\ Root \notin EntryIds
    BY <1>2, VaultFinite, FamilyGraphAssumption DEF EntryIds, Root
  <2> QED
    BY <1>2, <2>1, VaultFinite
<1>6. ASSUME NEW g \in EntriesIn(events, R), \A i \in DOMAIN ev : ev[i].entry # g
      PROVE  g \in DOMAIN more /\ more[g] = nodes[g]
  <2>1. g \in EntriesIn(W, Q) /\ Vault(W, Q)[g] = Vault(events, R)[g]
    BY <1>1, <1>2, <1>6, Untouched
  <2> QED
    BY <1>1, <1>5, <2>1
<1>7. \A i \in DOMAIN ev : ev[i].entry \in Touched(r, ev) /\ ev[i].entry \in EntryIds
  <2>1. \A i \in DOMAIN ev : ev[i].entry \in EntryIds
    BY DEF Fits, Event
  <2> QED
    BY <2>1, BelowHolds DEF Touched
<1>8. ASSUME NEW f \in DOMAIN more, \A i \in DOMAIN ev : ev[i].entry # f
      PROVE  f \in EntriesIn(events, R)
  <2>1. PICK i \in Q : f = W[i].entry
    BY <1>5 DEF EntriesIn
  <2>2. i \notin DOMAIN ev
    BY <1>8, <2>1 DEF Both
  <2>3. i \in R /\ i \in DOMAIN events
    BY <1>1, <2>2 DEF Complete
  <2> QED
    BY <2>1, <2>2, <2>3 DEF EntriesIn, Both
<1>9. ASSUME NEW g \in S
      PROVE  /\ g \in DOMAIN nodes /\ Projection(nodes, g).to = "normal"
             /\ g \in DOMAIN more /\ more[g] = nodes[g]
             /\ nodes[g].preferred.parent \in S \cup {Root}
             /\ Claimants(more, nodes[g].preferred) \subseteq Claimants(nodes, nodes[g].preferred)
  <2>1. g \in DOMAIN nodes /\ Projection(nodes, g).to = "normal"
    BY <1>4
  <2>2. g \in DOMAIN more /\ more[g] = nodes[g]
    BY <1>1, <1>6, <1>7, <2>1
  <2>3. nodes[g].preferred.parent \in S \cup {Root}
    <3> SUFFICES ASSUME nodes[g].preferred.parent # Root
                 PROVE  nodes[g].preferred.parent \in S
      OBVIOUS
    <3>1. nodes[g].preferred.parent \in Placed(r)
      BY PlacedParent
    <3>2. \A i \in DOMAIN ev : nodes[g].preferred.parent \notin Below(r, ev[i].entry)
      BY <1>7, BelowClosed DEF Touched
    <3> QED
      BY <3>1, <3>2 DEF Touched
  <2>4. ASSUME NEW f \in Claimants(more, nodes[g].preferred)
        PROVE  f \in Claimants(nodes, nodes[g].preferred)
    <3>1. CASE \E i \in DOMAIN ev : ev[i].entry = f
      BY <2>4, <3>1 DEF NoNewClaims
    <3>2. CASE \A i \in DOMAIN ev : ev[i].entry # f
      <4>1. f \in DOMAIN more /\ more[f].liveness = "live" /\ more[f].preferred = nodes[g].preferred
        BY <2>4 DEF Claimants
      <4>2. f \in DOMAIN nodes /\ more[f] = nodes[f]
        BY <1>1, <1>6, <1>8, <3>2, <4>1
      <4> QED
        BY <4>1, <4>2 DEF Claimants
    <3> QED
      BY <3>1, <3>2
  <2> QED
    BY <2>1, <2>2, <2>3, <2>4
<1>10. ASSUME NEW g \in S
       PROVE  Both(plan.changed, Rows(r))[g].projection = Rows(r)[g].projection
  <2> HIDE DEF more, nodes, S
  <2>0. Settled(nodes, more, S)
    BY <1>9 DEF Settled
  <2>1. Projection(more, g) = Projection(nodes, g)
    BY <1>4, <1>5, <2>0, PathsKept
  <2>2. Shown(more)[g].projection = Projection(more, g)
    BY <1>9 DEF Shown
  <2>3. Rows(r)[g].projection = Projection(nodes, g)
    BY <1>4, <1>9
  <2> QED
    BY <1>3, <2>1, <2>2, <2>3
<1> QED
  BY <1>10 DEF Keeps

(* A moved entry is where it was moved to.                                 *)
LEMMA MovedPlace ==
  ASSUME Tables, Sound(events), NEW r \in Replicas, FactsRight(r),
         NEW ev, Fits(events, ev), Apart(events, ev),
         OverKnown(ev, events, Understood(r)),
         NEW i, DOMAIN ev = {i}, NEW e \in DOMAIN Nodes(r), ev[i].entry = e,
         ev[i].effect = "move", ev[i].parents = Nodes(r)[e].heads
  PROVE  Vault(Both(ev, events), Understood(r) \cup DOMAIN ev)[e].preferred = ev[i].loc
<1> DEFINE W == Both(ev, events)
           R == Understood(r)
           Q == R \cup DOMAIN ev
           own == Own(events, R, e)
           own2 == Own(W, Q, e)
           b == RootOf(W, e)
           S == {j \in own2 : Placing(W[j].effect)}
           m == Largest(PlacingOf(W, own2))
<1>1. /\ Complete(events, R) /\ Nodes(r) = Vault(events, R)
      /\ DOMAIN Nodes(r) = EntriesIn(events, R) /\ R \subseteq DOMAIN events
  BY RowsAre DEF Complete
<1>2. Sound(W) /\ Complete(W, Q)
  BY AfterCommand
<1>3. /\ \A j \in DOMAIN events : W[j] = events[j] /\ j # i
      /\ W[i] = ev[i]
  BY DEF Both, Apart
<1>4. Past(W)[i] = ev[i].parents \cup UNION {Past(events)[p] : p \in ev[i].parents}
  <2>1. Changes(events, ev[i])
    BY DEF Fits, Starts, FirstContent, Create
  <2> QED
    BY <2>1, PastGrows
<1>5. own2 = own \cup {i} /\ i \in S
  BY <1>1, <1>3 DEF Own, Placing
<1>6. \A j \in own : j \in Past(W)[i]
  <2>1. \A j \in own : j \in Nodes(r)[e].heads \/ \E h \in Nodes(r)[e].heads : j \in Past(events)[h]
    BY <1>1, VaultNode
  <2> QED
    BY <1>4, <2>1
<1>7. e \in EntriesIn(W, Q)
  BY <1>3 DEF EntriesIn
<1>8. Grown(W, own2, b)
  BY <1>2, <1>7, VaultGrown
<1> HIDE DEF own, own2, b, W, Q
<1>9. PlacingOf(W, own2) \subseteq {i}
  BY <1>5, <1>6 DEF PlacingOf, Maximal
<1>10. m = i
  <2>1. PlacingOf(W, own2) # {} /\ PlacingOf(W, own2) \in SUBSET Ids
    <3>1. S \in SUBSET DOMAIN W
      BY <1>8 DEF Grown
    <3>2. \E x \in Maximal(Past(W), S) : i = x \/ i \in Past(W)[x]
      BY <1>2, <1>5, <3>1, HeadsCover
    <3>3. i \in Ids
      BY DEF Fits
    <3> QED
      BY <1>9, <3>2, <3>3 DEF PlacingOf
  <2>2. m \in PlacingOf(W, own2)
    BY <2>1, LargestOf
  <2> QED
    BY <1>9, <2>2
<1> HIDE DEF m
<1>11. Vault(W, Q)[e] = NodeOf(W, own2, b)
  BY <1>7 DEF Vault, own2, b
<1>12. Vault(W, Q)[e].preferred = W[m].loc
  BY <1>11 DEF NodeOf, m
<1> QED
  BY <1>3, <1>10, <1>12 DEF W, Q

(* A deleted entry is not live.                                            *)
LEMMA DeletedRow ==
  ASSUME Tables, Sound(events), NEW r \in Replicas, FactsRight(r),
         NEW ev, Fits(events, ev), Apart(events, ev),
         OverKnown(ev, events, Understood(r)),
         \A j \in DOMAIN ev : ev[j].effect = "delete", NEW i \in DOMAIN ev
  PROVE  Vault(Both(ev, events), Understood(r) \cup DOMAIN ev)[ev[i].entry].liveness # "live"
<1> DEFINE W == Both(ev, events)
           Q == Understood(r) \cup DOMAIN ev
           e == ev[i].entry
           own == Own(W, Q, e)
           n == Vault(W, Q)[e]
<1>1. Sound(W) /\ Complete(W, Q)
  BY AfterCommand
<1>2. /\ DOMAIN W = DOMAIN ev \cup DOMAIN events
      /\ \A j \in DOMAIN ev : W[j] = ev[j] /\ j \notin DOMAIN events
  BY DEF Both, Apart
<1>3. e \in EntriesIn(W, Q) /\ i \in own
  BY <1>2 DEF EntriesIn, Own
<1>4. /\ n.heads \subseteq own /\ own \subseteq Q
      /\ \A j \in own : j \in n.heads \/ \E h \in n.heads : j \in Past(W)[h]
      /\ n.liveness = "live" <=> \A h \in n.heads : W[h].effect # "delete"
  <2> HIDE DEF W, Q
  <2> QED
    BY <1>1, <1>3, VaultNode
<1>5. \A h \in DOMAIN W : Past(W)[h] \subseteq DOMAIN events
  <2>1. Past(events) \in [DOMAIN events -> SUBSET DOMAIN events]
    BY SoundOver
  <2>2. \A h \in DOMAIN events : Past(W)[h] = Past(events)[h]
    BY PastGrows
  <2>3. ASSUME NEW h \in DOMAIN ev
        PROVE  Past(W)[h] \subseteq DOMAIN events
    <3>1. Changes(events, ev[h])
      BY DEF Fits, Starts, FirstContent, Create
    <3>2. Past(W)[h] = ev[h].parents \cup UNION {Past(events)[p] : p \in ev[h].parents}
      BY <3>1, PastGrows
    <3>3. ev[h].parents \subseteq DOMAIN events
      BY <3>1 DEF Changes
    <3> HIDE DEF W
    <3> QED
      BY <2>1, <3>2, <3>3
  <2> HIDE DEF W
  <2> QED
    BY <1>2, <2>1, <2>2, <2>3
<1> HIDE DEF own, n, W, Q
<1>6. i \in n.heads
  BY <1>1, <1>2, <1>3, <1>4, <1>5 DEF Complete
<1>7. W[i].effect = "delete"
  BY <1>2
<1> QED
  BY <1>4, <1>6, <1>7 DEF n, W, Q

(* What a first transaction leaves behind.                                 *)
Opening(p) ==
  /\ UNCHANGED <<events, known, facts>>
  /\ \A q \in Processes : q # p => prepared'[q] = prepared[q]
  /\ Keeps(home[p], prepared'[p])

LEMMA PreparedOpens ==
  ASSUME Tables, NEW p \in Processes, NEW op, NEW ev, NEW changed,
         Prepare(p, op, ev, changed),
         \A plan : plan.ev = ev /\ plan.changed = changed => Keeps(home[p], plan)
  PROVE  Opening(p)
<1> DEFINE new == [op |-> op, ev |-> ev, changed |-> changed, head |-> known[home[p]]]
<1>1. /\ prepared' = [prepared EXCEPT ![p] = new]
      /\ UNCHANGED <<events, known, facts>> /\ DOMAIN prepared = Processes
  BY DEF Prepare, Tables
<1>2. prepared'[p] = new /\ \A q \in Processes : q # p => prepared'[q] = prepared[q]
  BY <1>1
<1>3. new.ev = ev /\ new.changed = changed
  OBVIOUS
<1> HIDE DEF new
<1> QED
  BY <1>1, <1>2, <1>3 DEF Opening

(* Nobody placed is where the command puts its entry.                      *)
LEMMA FreePlace ==
  ASSUME NEW r, NEW loc, NEW more, NEW ev, NEW e, About(ev, e),
         more = Vault(Both(ev, events), Understood(r) \cup DOMAIN ev),
         more[e].preferred = loc, At(r, loc) = {}
  PROVE  NoNewClaims(r, ev)
<1>1. ASSUME NEW g \in Placed(r), e \in Claimants(more, Nodes(r)[g].preferred)
      PROVE  FALSE
  <2>1. Nodes(r)[g].preferred = loc
    BY <1>1 DEF Claimants
  <2> QED
    BY <2>1 DEF At
<1> QED
  BY <1>1 DEF NoNewClaims, About

LEMMA FreshApart ==
  ASSUME NEW ev, DOMAIN ev \subseteq Unused
  PROVE  Apart(events, ev)
BY DEF Apart, Unused

LEMMA CreateOpens ==
  ASSUME IInv, NEW p \in Processes \ Open, NEW op \in Operations,
         NEW e \in FreshEntries, NEW i \in Fresh, NEW loc \in Location,
         PrepareCreate(p, op, e, i, loc)
  PROVE  Opening(p)
<1>1. PICK r \in Replicas : r = home[p]
  BY HomeReplica
<1>2. Tables /\ Sound(events) /\ FactsRight(r) /\ loc.parent \in FoldersOf(r)
  BY <1>1 DEF IInv, PrepareCreate
<1>3. ASSUME NEW ev, Beginning(r, op, i, e, loc, ev), PrepareIndexed(p, op, e, ev)
      PROVE  Opening(p)
  <2>1. About(ev, e)
    BY <1>2, <1>3, BeginningFits
  <2>2. PICK row : Prepare(p, op, ev, Single(e, row))
    BY <1>3 DEF PrepareIndexed
  <2>3. \A plan : plan.ev = ev /\ plan.changed = Single(e, row) => Keeps(home[p], plan)
    BY <2>1, IndexedKeeps
  <2> QED
    BY <1>2, <2>2, <2>3, PreparedOpens
<1>4. CASE PrepareIndexed(p, op, e, Creation(r, op, i, e, "create_folder", loc))
  BY <1>3, <1>4 DEF Beginning
<1>5. CASE \E j \in Draws[Unused \ {i}] :
             PrepareIndexed(p, op, e,
               Both(Creation(r, op, i, e, "create_text", loc),
                    Author(r, op, j, e, i, {i}, "activity", None)))
  BY <1>3, <1>5 DEF Beginning
<1>6. CASE /\ Covered(r, At(r, loc))
           /\ PrepareWhole(p, op, Creation(r, op, i, e, "create_binary", loc))
  <2>1. PICK ev : ev = Creation(r, op, i, e, "create_binary", loc)
    OBVIOUS
  <2>2. PICK changed : changed = View(Both(Held(r), ev)).entries
    OBVIOUS
  <2>3. Beginning(r, op, i, e, loc, ev) /\ Prepare(p, op, ev, changed)
    BY <1>1, <1>6, <2>1, <2>2 DEF PrepareWhole, Beginning
  <2>4. /\ Fits(events, ev) /\ About(ev, e) /\ Starts(events, ev, i)
        /\ \A j \in DOMAIN ev : Placing(ev[j].effect) => j = i
        /\ OverKnown(ev, events, Understood(r))
    BY <1>2, <2>3, BeginningFits
  <2>5. /\ Apart(events, ev) /\ i \in DOMAIN ev /\ ev[i].loc = loc
        /\ ev[i].effect \in {"create_folder", "create_text", "create_binary"}
    <3>1. /\ \A j \in DOMAIN ev : j \in Unused
          /\ i \in DOMAIN ev /\ ev[i].loc = loc
          /\ ev[i].effect \in {"create_folder", "create_text", "create_binary"}
      <4>1. /\ i \in DOMAIN ev /\ ev[i].loc = loc
            /\ ev[i].effect \in {"create_folder", "create_text", "create_binary"}
        BY <2>3, BeginningIs
      <4>2. \A j \in DOMAIN ev : j \in Unused
        BY <2>3, BeginningIs
      <4> QED
        BY <4>1, <4>2
    <3>2. Apart(events, ev)
      BY <3>1, FreshApart
    <3> QED
      BY <3>1, <3>2
  <2>6. PICK more : more = Vault(Both(ev, events), Understood(r) \cup DOMAIN ev)
    OBVIOUS
  <2>7. more[e].preferred = loc
    <3>1. Vault(Both(ev, events), Understood(r) \cup DOMAIN ev)[e].preferred = ev[i].loc
      BY <1>2, <2>4, <2>5, NewPlace
    <3> QED
      BY <2>5, <2>6, <3>1
  <2>8. At(r, loc) = {}
    BY <1>1, <1>6 DEF PrepareCreate, Covered
  <2>9. NoNewClaims(r, ev)
    BY <2>4, <2>6, <2>7, <2>8, FreePlace
  <2>10. ASSUME NEW plan, plan.ev = ev, plan.changed = changed
         PROVE  Keeps(r, plan)
    <3>1. Foreseen(r, plan)
      BY <1>2, <2>2, <2>4, <2>10, WholeForeseen
    <3> QED
      BY <1>2, <2>4, <2>5, <2>9, <2>10, <3>1, WholeKeeps
  <2> QED
    BY <1>1, <1>2, <2>3, <2>10, PreparedOpens
<1> QED
  BY <1>1, <1>4, <1>5, <1>6 DEF PrepareCreate

(* What it takes of a change planned over the whole graph.                 *)
LEMMA WholeOpens ==
  ASSUME Tables, Sound(events), NEW p \in Processes, NEW r \in Replicas, r = home[p],
         FactsRight(r), NEW op, NEW ev, Fits(events, ev), Apart(events, ev),
         OverKnown(ev, events, Understood(r)), NoNewClaims(r, ev),
         PrepareWhole(p, op, ev)
  PROVE  Opening(p)
<1>1. PICK changed : changed = View(Both(Held(r), ev)).entries
  OBVIOUS
<1>2. ASSUME NEW plan, plan.ev = ev, plan.changed = changed
      PROVE  Keeps(r, plan)
  <2>1. Foreseen(r, plan)
    BY <1>1, <1>2, WholeForeseen
  <2> QED
    BY <1>2, <2>1, WholeKeeps
<1>3. Prepare(p, op, ev, changed)
  BY <1>1 DEF PrepareWhole
<1> QED
  BY <1>2, <1>3, PreparedOpens

LEMMA WriteOpens ==
  ASSUME IInv, NEW p \in Processes \ Open, NEW op \in Operations,
         NEW e \in Visible(home[p]), NEW i \in Fresh, PrepareWrite(p, op, e, i)
  PROVE  Opening(p)
<1>1. PICK r \in Replicas : r = home[p]
  BY HomeReplica
<1>2. Tables /\ Sound(events) /\ FactsRight(r) /\ e \in Visible(r) /\ None \in Location \cup {None}
  BY <1>1 DEF IInv
<1>3. CASE PrepareIndexed(p, op, e, Change(r, op, i, e, "activity", None))
  <2>1. PICK ev : ev = Change(r, op, i, e, "activity", None)
    OBVIOUS
  <2>2. About(ev, e)
    <3>1. DOMAIN ev = {i} /\ ev[i].entry = e
      BY <2>1 DEF Change, Author, Single
    <3> QED
      BY <3>1 DEF About
  <2>3. PICK row : Prepare(p, op, ev, Single(e, row))
    BY <1>3, <2>1 DEF PrepareIndexed
  <2>4. \A plan : plan.ev = ev /\ plan.changed = Single(e, row) => Keeps(home[p], plan)
    BY <2>2, IndexedKeeps
  <2> QED
    BY <1>2, <2>3, <2>4, PreparedOpens
<1>4. CASE /\ Nodes(r)[e].kind = "binary"
           /\ PrepareWhole(p, op, Change(r, op, i, e, "set_content", None))
  <2>1. PICK ev : ev = Change(r, op, i, e, "set_content", None)
    OBVIOUS
  <2>2. /\ DOMAIN ev = {i} /\ ev[i].entry = e /\ ev[i].effect = "set_content"
        /\ Fits(events, ev) /\ About(ev, e) /\ OverKnown(ev, events, Understood(r))
    <3>1. Changing(r, op, i, e, "set_content", ev)
      BY <1>2, <1>4, <2>1, OneChange
    <3> QED
      BY <3>1 DEF Changing
  <2>3. Apart(events, ev)
    BY <2>2, Drawn, FreshApart
  <2>4. e \in DOMAIN Nodes(r) /\ Nodes(r)[e].liveness = "live"
    <3>1. DOMAIN Nodes(r) = EntriesIn(events, Understood(r))
      BY <1>2, RowsAre
    <3> QED
      BY <1>2, <3>1, VisibleIsLive
  <2>5. AsPlaced(Nodes(r), Vault(Both(ev, events), Understood(r) \cup DOMAIN ev))
    <3>1. ~ Placing(ev[i].effect) /\ ev[i].effect # "delete"
      BY <2>2 DEF Placing, Create
    <3> QED
      BY <1>2, <2>2, <2>3, <2>4, <3>1, WrittenRows
  <2>6. NoNewClaims(r, ev)
    BY <2>2, <2>4, <2>5 DEF NoNewClaims, Claimants, AsPlaced
  <2>7. PrepareWhole(p, op, ev)
    BY <1>4, <2>1
  <2> QED
    BY <1>1, <1>2, <2>2, <2>3, <2>6, <2>7, WholeOpens
<1> QED
  BY <1>1, <1>3, <1>4 DEF PrepareWrite

LEMMA MoveOpens ==
  ASSUME IInv, NEW p \in Processes \ Open, NEW op \in Operations,
         NEW e \in Visible(home[p]), NEW i \in Fresh, NEW loc \in Location,
         PrepareMove(p, op, e, i, loc)
  PROVE  Opening(p)
<1>1. PICK r \in Replicas : r = home[p]
  BY HomeReplica
<1>2. Tables /\ Sound(events) /\ FactsRight(r) /\ e \in Visible(r)
  BY <1>1 DEF IInv
<1>3. PICK ev : ev = Change(r, op, i, e, "move", loc)
  OBVIOUS
<1>4. /\ DOMAIN ev = {i} /\ ev[i].entry = e /\ ev[i].effect = "move"
      /\ ev[i].loc = loc /\ ev[i].parents = Nodes(r)[e].heads
  BY <1>3 DEF Change, Author, Single
<1>5. Fits(events, ev) /\ About(ev, e) /\ OverKnown(ev, events, Understood(r))
  <2>1. Rooted(events, loc)
    BY <1>1, <1>2, FolderRooted DEF PrepareMove
  <2>2. Changing(r, op, i, e, "move", ev)
    BY <1>2, <1>3, <2>1, OneChange
  <2> QED
    BY <2>2 DEF Changing
<1>6. Apart(events, ev)
  BY <1>4, Drawn, FreshApart
<1>7. PICK more : more = Vault(Both(ev, events), Understood(r) \cup DOMAIN ev)
  OBVIOUS
<1>8. more[e].preferred = loc
  <2>1. e \in DOMAIN Nodes(r)
    BY <1>2, RowsAre, VisibleIsLive
  <2>2. Vault(Both(ev, events), Understood(r) \cup DOMAIN ev)[e].preferred = ev[i].loc
    BY <1>2, <1>4, <1>5, <1>6, <2>1, MovedPlace
  <2> QED
    BY <1>4, <1>7, <2>2
<1>9. At(r, loc) = {} /\ PrepareWhole(p, op, ev)
  BY <1>1, <1>3 DEF PrepareMove, Covered
<1>10. NoNewClaims(r, ev)
  BY <1>5, <1>7, <1>8, <1>9, FreePlace
<1> QED
  BY <1>1, <1>2, <1>5, <1>6, <1>9, <1>10, WholeOpens

LEMMA DeleteOpens ==
  ASSUME IInv, NEW p \in Processes \ Open, NEW op \in Operations,
         NEW e \in Visible(home[p]), NEW id \in [Below(home[p], e) -> Unused],
         PrepareDelete(p, op, e, id)
  PROVE  Opening(p)
<1>1. PICK r \in Replicas : r = home[p]
  BY HomeReplica
<1>2. Tables /\ Sound(events) /\ FactsRight(r)
  BY DEF IInv
<1>3. PICK members : members = Below(r, e)
  OBVIOUS
<1>4. members \subseteq Visible(r) /\ members # {} /\ \A f \in members : id[f] \in Unused
  BY <1>1, <1>3, BelowHolds DEF PrepareDelete, Covered
<1>5. PICK ev : ev = Deletions(r, op, members, id)
  OBVIOUS
<1>6. /\ DOMAIN ev \subseteq Unused
      /\ \A i \in DOMAIN ev :
           \E f \in Visible(r) : ev[i] = ChangeIs(r, op, i, f, "delete", None)
  BY <1>4, <1>5, DeletionsAre
<1>7. Unused \subseteq Ids
  BY DEF Unused
<1>8. /\ Fits(events, ev) /\ OverKnown(ev, events, Understood(r))
      /\ \A i \in DOMAIN ev : ev[i].effect = "delete"
  BY <1>2, <1>6, <1>7, DeletionsFit
<1>9. Apart(events, ev)
  BY <1>6, FreshApart
<1>10. NoNewClaims(r, ev)
  <2>1. \A i \in DOMAIN ev :
          Vault(Both(ev, events), Understood(r) \cup DOMAIN ev)[ev[i].entry].liveness # "live"
    BY <1>2, <1>8, <1>9, DeletedRow
  <2> QED
    BY <2>1 DEF NoNewClaims, Claimants
<1>11. PrepareWhole(p, op, ev)
  BY <1>1, <1>3, <1>5 DEF PrepareDelete, Deletions
<1> QED
  BY <1>1, <1>2, <1>8, <1>9, <1>10, <1>11, WholeOpens

(* Every step keeps what open commands would do.                           *)
LEMMA KeepsStays ==
  ASSUME NEW r, NEW plan, facts'[r] = facts[r], Keeps(r, plan)
  PROVE  Keeps(r, plan)'
<1>1. Rows(r)' = Rows(r)
  BY DEF Rows
<1>2. Nodes(r)' = Nodes(r) /\ Placed(r)' = Placed(r)
  BY <1>1 DEF Nodes, Placed
<1>3. Touched(r, plan.ev)' = Touched(r, plan.ev)
  BY <1>2 DEF Touched, Below
<1> QED
  BY <1>1, <1>2, <1>3 DEF Keeps

(* A plan kept under its own name is kept where it is prepared.            *)
LEMMA KeptAsPrepared ==
  ASSUME NEW q, NEW plan, prepared'[q] = plan, NEW r, r = home[q], Keeps(r, plan)'
  PROVE  Keeps(home[q], prepared[q])'
BY DEF Keeps, Touched

LEMMA OpeningKeeps ==
  ASSUME IInv, PlansKeep, NEW p \in Processes, Opening(p)
  PROVE  PlansKeep'
<1> SUFFICES ASSUME NEW q \in Open', prepared'[q].head = known'[home[q]]
             PROVE  Keeps(home[q], prepared[q])'
  BY DEF PlansKeep
<1>1. UNCHANGED <<events, known, facts>>
  BY DEF Opening
<1>2. PICK plan : plan = prepared'[q]
  OBVIOUS
<1>3. PICK r : r = home[q]
  OBVIOUS
<1>4. Keeps(r, plan)
  <2>1. CASE q = p
    BY <1>2, <1>3, <2>1 DEF Opening
  <2>2. CASE q # p
    <3>1. q \in Open /\ plan = prepared[q]
      BY <1>2, <2>2 DEF Open, Opening
    <3> QED
      BY <1>1, <1>2, <1>3, <3>1 DEF PlansKeep
  <2> QED
    BY <2>1, <2>2
<1>5. Keeps(r, plan)'
  BY <1>1, <1>4, KeepsStays
<1> QED
  BY <1>2, <1>3, <1>5, KeptAsPrepared

(* A replica that learns nothing keeps its facts, and with them what its   *)
(* open commands would keep.                                               *)
LEMMA QuietKeeps ==
  ASSUME IInv, PlansKeep,
         \A q \in Open' : q \in Open /\ prepared'[q] = prepared[q],
         \A r \in Replicas : known[r] \subseteq known'[r],
         \A r \in Replicas : known'[r] = known[r] => facts'[r] = facts[r]
  PROVE  PlansKeep'
<1> SUFFICES ASSUME NEW q \in Open', prepared'[q].head = known'[home[q]]
             PROVE  Keeps(home[q], prepared[q])'
  BY DEF PlansKeep
<1>1. q \in Open /\ q \in Processes
  BY DEF Open
<1>2. PICK plan : plan = prepared[q] /\ prepared'[q] = plan
  OBVIOUS
<1>3. PICK r \in Replicas : r = home[q]
  BY <1>1, HomeReplica
<1>4. plan.head \subseteq known[r]
  BY <1>1, <1>2, <1>3 DEF IInv, PlanSound
<1>5. plan.head = known[r] /\ known'[r] = known[r]
  BY <1>2, <1>3, <1>4
<1>6. Keeps(r, plan)
  BY <1>1, <1>2, <1>3, <1>5 DEF PlansKeep
<1>7. Keeps(r, plan)'
  BY <1>5, <1>6, KeepsStays
<1> QED
  BY <1>2, <1>3, <1>7, KeptAsPrepared

(* What a commit stores.                                                   *)
LEMMA CommitStores ==
  ASSUME IInv, NEW p \in Processes, Commit(p), NEW plan, plan = prepared[p],
         NEW r, r = home[p]
  PROVE  /\ p \in Open /\ plan.head = known[r] /\ r \in Replicas
         /\ DOMAIN events' \ DOMAIN events = DOMAIN plan.ev
         /\ \A i \in DOMAIN plan.ev : events'[i] = plan.ev[i]
         /\ known[r] \subseteq known'[r] /\ known'[r] # known[r]
         /\ Rows(r)' = Both(plan.changed, Rows(r))
         /\ \A s \in Replicas \ {r} : known'[s] = known[s] /\ facts'[s] = facts[s]
         /\ \A q \in Open' : q \in Open /\ prepared'[q] = prepared[q]
         /\ UNCHANGED cursor
<1>1. /\ p \in Open /\ plan.head = known[r] /\ r \in Replicas
      /\ DOMAIN plan.ev \cap DOMAIN events = {}
      /\ events' = Both(plan.ev, events)
      /\ known' = [known EXCEPT ![r] = @ \cup DOMAIN plan.ev]
      /\ facts' = [facts EXCEPT ![r].entries = Both(plan.changed, Rows(r))]
      /\ prepared' = [prepared EXCEPT ![p] = None]
      /\ UNCHANGED cursor
  BY HomeReplica DEF Commit, Store, Ready, Open, Rows
<1>2. /\ known \in [Replicas -> SUBSET DOMAIN events] /\ DOMAIN facts = Replicas
      /\ DOMAIN prepared = Processes
  BY DEF IInv, Tables
<1>3. DOMAIN plan.ev # {}
  BY <1>1 DEF IInv, PlanSound
<1>4. DOMAIN events' \ DOMAIN events = DOMAIN plan.ev
  BY <1>1 DEF Both
<1>5. \A i \in DOMAIN plan.ev : events'[i] = plan.ev[i]
  BY <1>1 DEF Both
<1>6. known'[r] = known[r] \cup DOMAIN plan.ev /\ known[r] \subseteq DOMAIN events
  BY <1>1, <1>2
<1>7. known'[r] # known[r]
  BY <1>1, <1>3, <1>6
<1>8. Rows(r)' = Both(plan.changed, Rows(r))
  <2>1. facts'[r] = [facts[r] EXCEPT !.entries = Both(plan.changed, Rows(r))]
    BY <1>1, <1>2
  <2>2. "entries" \in DOMAIN facts[r]
    <3>1. facts[r] = View(Part(events, known[r]))
      BY <1>1 DEF IInv, FactsRight
    <3> QED
      BY <3>1 DEF View
  <2>3. facts'[r].entries = Both(plan.changed, Rows(r))
    BY <2>1, <2>2
  <2> QED
    BY <2>3 DEF Rows
<1>9. \A s \in Replicas \ {r} : known'[s] = known[s] /\ facts'[s] = facts[s]
  BY <1>1, <1>2
<1>10. \A q \in Open' : q \in Open /\ prepared'[q] = prepared[q]
  BY <1>1, <1>2 DEF Open
<1> QED
  BY <1>1, <1>4, <1>5, <1>6, <1>7, <1>8, <1>9, <1>10

LEMMA NextKept == IInv /\ PlansKeep /\ [Next]_vars => PlansKeep'
<1> SUFFICES ASSUME IInv, PlansKeep, [Next]_vars PROVE PlansKeep'
  OBVIOUS
<1>0. /\ known \in [Replicas -> SUBSET DOMAIN events] /\ DOMAIN facts = Replicas
      /\ DOMAIN prepared = Processes
  BY DEF IInv, Tables
<1>1. CASE UNCHANGED vars
  <2>1. UNCHANGED <<prepared, known, facts>> /\ Open' = Open
    BY <1>1 DEF vars, Open
  <2> QED
    BY <2>1, QuietKeeps
<1>2. ASSUME NEW p \in Processes \ Open, NEW op \in Operations,
             \E e \in FreshEntries, i \in Fresh, loc \in Location :
               PrepareCreate(p, op, e, i, loc)
      PROVE  PlansKeep'
  BY <1>2, CreateOpens, OpeningKeeps
<1>3. ASSUME NEW p \in Processes \ Open, NEW op \in Operations, NEW e \in Visible(home[p]),
             \E i \in Fresh : PrepareWrite(p, op, e, i)
      PROVE  PlansKeep'
  BY <1>3, WriteOpens, OpeningKeeps
<1>4. ASSUME NEW p \in Processes \ Open, NEW op \in Operations, NEW e \in Visible(home[p]),
             \E i \in Fresh, loc \in Location : PrepareMove(p, op, e, i, loc)
      PROVE  PlansKeep'
  BY <1>4, MoveOpens, OpeningKeeps
<1>5. ASSUME NEW p \in Processes \ Open, NEW op \in Operations, NEW e \in Visible(home[p]),
             \E id \in [Below(home[p], e) -> Unused] : PrepareDelete(p, op, e, id)
      PROVE  PlansKeep'
  BY <1>5, DeleteOpens, OpeningKeeps
<1>6. ASSUME NEW p \in Processes, Commit(p)
      PROVE  PlansKeep'
  <2>1. PICK r, plan : r = home[p] /\ plan = prepared[p]
    OBVIOUS
  <2>2. /\ \A q \in Open' : q \in Open /\ prepared'[q] = prepared[q]
        /\ \A s \in Replicas : known[s] \subseteq known'[s]
        /\ \A s \in Replicas : known'[s] = known[s] => facts'[s] = facts[s]
    BY <1>6, <2>1, CommitStores
  <2> QED
    BY <2>2, QuietKeeps
<1>7. ASSUME NEW p \in Processes, Discard(p)
      PROVE  PlansKeep'
  <2>1. UNCHANGED <<known, facts>> /\ prepared' = [prepared EXCEPT ![p] = None]
    BY <1>7 DEF Discard
  <2>2. \A q \in Open' : q \in Open /\ prepared'[q] = prepared[q]
    BY <1>0, <2>1 DEF Open
  <2> QED
    BY <2>1, <2>2, QuietKeeps
<1>8. ASSUME NEW r \in Replicas, Upload(r)
      PROVE  PlansKeep'
  <2>1. UNCHANGED <<prepared, known, facts>> /\ Open' = Open
    BY <1>8 DEF Upload, Open
  <2> QED
    BY <2>1, QuietKeeps
<1>9. ASSUME NEW r \in Replicas, Pull(r)
      PROVE  PlansKeep'
  <2>1. /\ UNCHANGED prepared /\ Open' = Open
        /\ known' = [known EXCEPT ![r] = Pulled(r)] /\ known[r] \subseteq Pulled(r)
    BY <1>9 DEF Pull, Open, Pulled
  <2>2. \A s \in Replicas : known'[s] = known[s] => facts'[s] = facts[s]
    <3>1. facts' = [facts EXCEPT ![r] = IF Pulled(r) = known[r] THEN facts[r]
                                        ELSE View([j \in Pulled(r) |-> events[j]])]
      BY <1>9 DEF Pull
    <3> QED
      BY <1>0, <2>1, <3>1
  <2>3. \A s \in Replicas : known[s] \subseteq known'[s]
    BY <1>0, <2>1
  <2> QED
    BY <2>1, <2>2, <2>3, QuietKeeps
<1> QED
  BY <1>1, <1>2, <1>3, <1>4, <1>5, <1>6, <1>7, <1>8, <1>9 DEF Next

(* A first transaction and a discard leave the rows; a pull moves the      *)
(* cursor.                                                                 *)
LEMMA RowsChange ==
  ASSUME IInv, [Next]_vars, NEW r \in Replicas, cursor'[r] = cursor[r]
  PROVE  \/ facts'[r] = facts[r]
         \/ \E p \in Processes : r = home[p] /\ Commit(p)
<1>0. cursor \in [Replicas -> Nat] /\ DOMAIN facts = Replicas
  BY DEF IInv, Tables
<1>1. CASE UNCHANGED facts
  BY <1>1
<1>2. ASSUME NEW p \in Processes, Commit(p)
      PROVE  facts'[r] = facts[r] \/ r = home[p]
  <2>1. PICK plan, s : plan = prepared[p] /\ s = home[p]
    OBVIOUS
  <2> QED
    BY <1>2, <2>1, CommitStores
<1>3. ASSUME NEW s \in Replicas, Pull(s)
      PROVE  facts'[r] = facts[r]
  <2>1. cursor' = [cursor EXCEPT ![s] = @ + 1]
    BY <1>3 DEF Pull
  <2>2. r # s
    <3>1. cursor[r] \in Nat
      BY <1>0
    <3>2. r = s => cursor'[r] = cursor[r] + 1
      BY <1>0, <2>1
    <3> QED
      BY <3>1, <3>2
  <2>3. \E new : facts' = [facts EXCEPT ![s] = new]
    <3>1. facts' = [facts EXCEPT ![s] = IF Pulled(s) = known[s] THEN facts[s]
                                        ELSE View([j \in Pulled(s) |-> events[j]])]
      BY <1>3 DEF Pull
    <3> QED
      BY <3>1
  <2> QED
    BY <2>2, <2>3
<1>4. \/ UNCHANGED facts
      \/ \E p \in Processes : Commit(p)
      \/ \E s \in Replicas : Pull(s)
  <2>1. CASE UNCHANGED vars
    BY <2>1 DEF vars
  <2>2. ASSUME NEW p, NEW op, NEW e, NEW i, NEW loc, PrepareCreate(p, op, e, i, loc)
        PROVE  UNCHANGED facts
    BY <2>2 DEF PrepareCreate, PrepareIndexed, PrepareWhole, Prepare
  <2>3. ASSUME NEW p, NEW op, NEW e, NEW i, PrepareWrite(p, op, e, i)
        PROVE  UNCHANGED facts
    BY <2>3 DEF PrepareWrite, PrepareIndexed, PrepareWhole, Prepare
  <2>4. ASSUME NEW p, NEW op, NEW e, NEW i, NEW loc, PrepareMove(p, op, e, i, loc)
        PROVE  UNCHANGED facts
    BY <2>4 DEF PrepareMove, PrepareWhole, Prepare
  <2>5. ASSUME NEW p, NEW op, NEW e, NEW id, PrepareDelete(p, op, e, id)
        PROVE  UNCHANGED facts
    BY <2>5 DEF PrepareDelete, PrepareWhole, Prepare
  <2>6. ASSUME NEW p, Discard(p)
        PROVE  UNCHANGED facts
    BY <2>6 DEF Discard
  <2>7. ASSUME NEW s, Upload(s)
        PROVE  UNCHANGED facts
    BY <2>7 DEF Upload
  <2> QED
    BY <2>1, <2>2, <2>3, <2>4, <2>5, <2>6, <2>7 DEF Next
<1> QED
  BY <1>1, <1>2, <1>3, <1>4

LEMMA StepDisplacesNothing ==
  ASSUME IInv, PlansKeep, [Next]_vars, NEW r \in Replicas, cursor'[r] = cursor[r]
  PROVE  LET touched == UNION {Below(r, events'[i].entry) : i \in DOMAIN events' \ DOMAIN events}
         IN \A e \in Visible(r) \ touched :
              Rows(r)'[e].projection = Rows(r)[e].projection
<1>1. CASE facts'[r] = facts[r]
  BY <1>1 DEF Rows
<1>2. ASSUME NEW p \in Processes, r = home[p], Commit(p)
      PROVE  \A e \in Visible(r) \ UNION {Below(r, events'[i].entry) :
                                            i \in DOMAIN events' \ DOMAIN events} :
               Rows(r)'[e].projection = Rows(r)[e].projection
  <2>1. PICK plan : plan = prepared[p]
    OBVIOUS
  <2>2. /\ p \in Open /\ plan.head = known[r]
        /\ DOMAIN events' \ DOMAIN events = DOMAIN plan.ev
        /\ \A i \in DOMAIN plan.ev : events'[i] = plan.ev[i]
        /\ Rows(r)' = Both(plan.changed, Rows(r))
    BY <1>2, <2>1, CommitStores
  <2>3. Keeps(r, plan)
    BY <1>2, <2>1, <2>2 DEF PlansKeep
  <2>4. Touched(r, plan.ev) = UNION {Below(r, events'[i].entry) :
                                       i \in DOMAIN events' \ DOMAIN events}
    BY <2>2 DEF Touched
  <2>5. Visible(r) \subseteq Placed(r)
    BY DEF Visible
  <2> QED
    BY <2>2, <2>3, <2>4, <2>5 DEF Keeps
<1> QED
  BY <1>1, <1>2, RowsChange

(* No two entries share a path, above a placed entry are only placed       *)
(* folders, and a command moves no entry its user sees but those it names. *)
THEOREM NamespaceKept == Spec => NamespaceIsKept
<1>1. Init => PlansKeep
  BY DEF Init, PlansKeep, Open
<1>2. IInv /\ PlansKeep /\ [Next]_vars => PlansKeep'
  BY NextKept
<1>3. IInv => PathsAreSound
  BY InvPaths
<1>4. IInv /\ PlansKeep /\ [Next]_vars =>
        [\A r \in Replicas : cursor'[r] = cursor[r] =>
           LET touched == UNION {Below(r, events'[i].entry) : i \in DOMAIN events' \ DOMAIN events}
           IN \A e \in Visible(r) \ touched :
                Rows(r)'[e].projection = Rows(r)[e].projection]_vars
  BY StepDisplacesNothing
<1> QED
  BY <1>1, <1>2, <1>3, <1>4, Invariance, PTL
     DEF Spec, NamespaceIsKept, CommandsDisplaceNothing
================================================================================
