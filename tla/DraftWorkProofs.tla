------------------------- MODULE DraftWorkProofs ----------------------------
(***************************************************************************)
(* Proofs about DraftWork and the reducer of DraftJobs, for every number   *)
(* of windows, phases and events, every need of the parser and every       *)
(* limit: what the reducer, the host and the windows know fits together,   *)
(* facts are shown for their own text only, and the host holds no more     *)
(* than is charged.                                                        *)
(***************************************************************************)
EXTENDS DraftWork, TLAPS, FiniteSetTheorems, FunctionTheorems, WellFoundedInduction

-------------------------------------------------------------------------------
(* Sums.                                                                   *)

Units(f) == UNION {{x} \X (1 .. f[x]) : x \in DOMAIN f}

LEMMA UnitsAre ==
  ASSUME NEW f
  PROVE  \A u : u \in Units(f) <=>
           \E x \in DOMAIN f : \E n \in 1 .. f[x] : u = <<x, n>>
  BY DEF Units

LEMMA UnitsFinite ==
  ASSUME NEW S, IsFiniteSet(S), NEW f \in [S -> Nat]
  PROVE  IsFiniteSet(Units(f))
<1> DEFINE T == {{x} \X (1 .. f[x]) : x \in S}
           F == [x \in S |-> {x} \X (1 .. f[x])]
<1>1. F \in Surjection(S, T)
  BY DEF Surjection
<1>2. IsFiniteSet(T)
  BY <1>1, FS_Surjection
<1>3. ASSUME NEW U \in T
      PROVE  IsFiniteSet(U)
  <2>1. PICK x \in S : U = {x} \X (1 .. f[x])
    OBVIOUS
  <2>2. f[x] \in Nat
    OBVIOUS
  <2>3. IsFiniteSet(1 .. f[x])
    BY <2>2, FS_Interval
  <2>4. IsFiniteSet({x})
    BY FS_Singleton
  <2>5. IsFiniteSet({x} \X (1 .. f[x]))
    BY <2>3, <2>4, FS_Product
  <2> QED
    BY <2>1, <2>5
<1>4. IsFiniteSet(UNION T)
  BY <1>2, <1>3, FS_UNION
<1>5. DOMAIN f = S
  OBVIOUS
<1> QED
  BY <1>4, <1>5 DEF Units

LEMMA TotalNat ==
  ASSUME NEW S, IsFiniteSet(S), NEW f \in [S -> Nat]
  PROVE  Total(f) \in Nat
<1>1. Total(f) = Cardinality(Units(f))
  BY DEF Total, Units
<1> QED
  BY <1>1, UnitsFinite, FS_CardinalityType

(* Who holds less in everything holds less in all.                         *)
LEMMA TotalLess ==
  ASSUME NEW S, IsFiniteSet(S), NEW f \in [S -> Nat],
         NEW R \in SUBSET S, NEW g \in [R -> Nat], \A x \in R : g[x] <= f[x]
  PROVE  Total(g) \in Nat /\ Total(f) \in Nat /\ Total(g) <= Total(f)
<1>1. IsFiniteSet(R)
  BY FS_Subset
<1>2. Units(g) \subseteq Units(f)
  <2>1. ASSUME NEW u \in Units(g)
        PROVE  u \in Units(f)
    <3>1. PICK x \in R : \E n \in 1 .. g[x] : u = <<x, n>>
      BY UnitsAre
    <3>2. x \in S /\ g[x] \in Nat /\ f[x] \in Nat /\ g[x] <= f[x]
      OBVIOUS
    <3>3. \E n \in 1 .. f[x] : u = <<x, n>>
      BY <3>1, <3>2
    <3> QED
      BY <3>2, <3>3, UnitsAre
  <2> QED
    BY <2>1
<1>3. Total(f) = Cardinality(Units(f)) /\ Total(g) = Cardinality(Units(g))
  BY DEF Total, Units
<1> QED
  BY <1>1, <1>2, <1>3, UnitsFinite, FS_Subset, TotalNat

(* One of them apart from the others.                                      *)
LEMMA TotalSplit ==
  ASSUME NEW S, IsFiniteSet(S), NEW f \in [S -> Nat], NEW x \in S,
         NEW g \in [S \ {x} -> Nat], \A y \in S \ {x} : g[y] = f[y]
  PROVE  Total(g) \in Nat /\ Total(f) \in Nat /\ Total(f) = Total(g) + f[x]
<1> DEFINE P == {x} \X (1 .. f[x])
<1>1. Units(f) = Units(g) \cup P
  <2>1. ASSUME NEW u
        PROVE  u \in Units(f) <=> u \in Units(g) \cup P
    <3>1. u \in P <=> \E n \in 1 .. f[x] : u = <<x, n>>
      OBVIOUS
    <3>2. u \in Units(f) <=> \E y \in S : \E n \in 1 .. f[y] : u = <<y, n>>
      BY UnitsAre
    <3>3. u \in Units(g) <=> \E y \in S \ {x} : \E n \in 1 .. f[y] : u = <<y, n>>
      BY UnitsAre
    <3> HIDE DEF P
    <3> QED
      BY <3>1, <3>2, <3>3
  <2> QED
    BY <2>1
<1>2. Units(g) \cap P = {}
  BY UnitsAre
<1>3. IsFiniteSet(S \ {x}) /\ IsFiniteSet(Units(g))
  BY FS_RemoveElement, UnitsFinite
<1>4. IsFiniteSet(P) /\ Cardinality(P) = f[x]
  <2>1. IsFiniteSet({x}) /\ Cardinality({x}) = 1
    BY FS_Singleton
  <2>2. f[x] \in Nat
    OBVIOUS
  <2>3. IsFiniteSet(1 .. f[x]) /\ Cardinality(1 .. f[x]) = f[x]
    BY <2>2, FS_Interval
  <2>4. /\ IsFiniteSet({x} \X (1 .. f[x]))
        /\ Cardinality({x} \X (1 .. f[x])) = Cardinality({x}) * Cardinality(1 .. f[x])
    BY <2>1, <2>3, FS_Product
  <2> QED
    BY <2>1, <2>2, <2>3, <2>4
<1>5. Cardinality(Units(f)) = Cardinality(Units(g)) + f[x]
  <2>1. Cardinality(Units(g)) \in Nat
    BY <1>3, FS_CardinalityType
  <2>2. Cardinality(Units(g) \cap P) = 0
    BY <1>2, FS_EmptySet
  <2>3. f[x] \in Nat
    OBVIOUS
  <2> HIDE DEF P
  <2> QED
    <3>1. Cardinality(Units(g) \cup P)
            = Cardinality(Units(g)) + Cardinality(P) - Cardinality(Units(g) \cap P)
      BY <1>3, <1>4, FS_Union
    <3> QED
      BY <1>1, <1>4, <2>1, <2>2, <2>3, <3>1
<1>6. Total(f) = Cardinality(Units(f)) /\ Total(g) = Cardinality(Units(g))
  BY DEF Total, Units
<1> QED
  BY <1>3, <1>5, <1>6, TotalNat

LEMMA TotalOfNone ==
  ASSUME NEW f, DOMAIN f = {}
  PROVE  Total(f) = 0
<1>1. UNION {{x} \X (1 .. f[x]) : x \in DOMAIN f} = {}
  OBVIOUS
<1> QED
  BY <1>1, FS_EmptySet DEF Total

-------------------------------------------------------------------------------
(* Queues.                                                                 *)

Queued(queue) == {queue[n] : n \in 1 .. Len(queue)}
Distinct(queue) == \A n, m \in 1 .. Len(queue) : queue[n] = queue[m] => n = m

(* What is left of a queue is each of the remaining ones, once.            *)
LEMMA DequeuedQueue ==
  ASSUME NEW queue \in Seq(Nat), NEW ids, NEW q, q = Dequeued(queue, ids)
  PROVE  /\ q \in Seq(Nat)
         /\ Queued(q) \subseteq Queued(queue) \ ids
         /\ Distinct(queue) => Distinct(q)
<1> DEFINE L == {i \in DOMAIN queue : queue[i] \notin ids}
           N == Cardinality(L)
           Upto(i) == {k \in L : k <= i}
           Rank == [i \in L |-> Cardinality(Upto(i))]
           At(n) == CHOOSE i \in L : Cardinality({k \in L : k <= i}) = n
<1>1. DOMAIN queue = 1 .. Len(queue) /\ Len(queue) \in Nat
  OBVIOUS
<1>2. IsFiniteSet(L) /\ N \in Nat
  <2>1. IsFiniteSet(1 .. Len(queue))
    BY <1>1, FS_Interval
  <2> QED
    BY <1>1, <2>1, FS_Subset, FS_CardinalityType
<1>3. \A i \in L : IsFiniteSet(Upto(i)) /\ Cardinality(Upto(i)) \in 1 .. N
  <2>1. SUFFICES ASSUME NEW i \in L
                 PROVE  IsFiniteSet(Upto(i)) /\ Cardinality(Upto(i)) \in 1 .. N
    OBVIOUS
  <2>2. i \in Upto(i) /\ Upto(i) \subseteq L
    BY <1>1
  <2>3. /\ IsFiniteSet(Upto(i)) /\ Cardinality(Upto(i)) \in Nat
        /\ Cardinality(Upto(i)) <= N
    BY <1>2, <2>2, FS_Subset, FS_CardinalityType
  <2>4. Cardinality(Upto(i)) # 0
    BY <2>2, <2>3, FS_EmptySet
  <2> QED
    BY <1>2, <2>3, <2>4
<1>4. \A i, k \in L : Cardinality(Upto(i)) = Cardinality(Upto(k)) => i = k
  <2>1. ASSUME NEW i \in L, NEW k \in L, i < k,
               Cardinality(Upto(i)) = Cardinality(Upto(k))
        PROVE  FALSE
    <3>1. Upto(i) \subseteq Upto(k) /\ k \in Upto(k) /\ k \notin Upto(i)
      BY <1>1, <2>1
    <3>2. Upto(i) = Upto(k)
      BY <1>3, <2>1, <3>1, FS_Subset
    <3> QED
      BY <3>1, <3>2
  <2>2. L \subseteq Nat
    BY <1>1
  <2> HIDE DEF L, Upto
  <2>3. SUFFICES ASSUME NEW i \in L, NEW k \in L, i # k,
                        Cardinality(Upto(i)) = Cardinality(Upto(k))
                 PROVE  FALSE
    OBVIOUS
  <2>4. i < k \/ k < i
    BY <2>2, <2>3
  <2> QED
    BY <2>1, <2>3, <2>4
<1>5. \A n \in 1 .. N : \E i \in L : Cardinality(Upto(i)) = n
  <2>1. Rank \in Injection(L, 1 .. N)
    <3>1. Rank \in [L -> 1 .. N]
      BY <1>3
    <3>2. \A i, k \in L : Rank[i] = Rank[k] => i = k
      BY <1>4
    <3> HIDE DEF Rank
    <3> QED
      BY <3>1, <3>2 DEF Injection, IsInjective
  <2>2. IsFiniteSet(1 .. N) /\ Cardinality(1 .. N) = N
    BY <1>2, FS_Interval
  <2>3. Rank \in Surjection(L, 1 .. N)
    <3> HIDE DEF Rank
    <3> QED
      BY <2>1, <2>2, FS_Injection
  <2> QED
    BY <2>3 DEF Surjection
<1>6. \A n \in 1 .. N : At(n) \in L /\ Cardinality(Upto(At(n))) = n
  BY <1>5
<1>7. q = [n \in 1 .. N |-> queue[At(n)]]
  BY DEF Dequeued
<1>8. \A n \in 1 .. N : /\ At(n) \in 1 .. Len(queue) /\ queue[At(n)] \notin ids
                        /\ queue[At(n)] \in Nat
  <2>1. \A i \in L : i \in 1 .. Len(queue) /\ queue[i] \notin ids /\ queue[i] \in Nat
    BY <1>1
  <2> HIDE DEF L, N, At, Upto
  <2> QED
    BY <1>6, <2>1
<1>9. \A n, m \in 1 .. N : At(n) = At(m) => n = m
  BY <1>6
<1> HIDE DEF L, N, At, Upto, Rank
<1>10. q \in Seq(Nat) /\ Len(q) = N
  BY <1>2, <1>7, <1>8
<1>11. \A n \in 1 .. N : q[n] = queue[At(n)]
  BY <1>7
<1>12. /\ \A n \in 1 .. N : q[n] \notin ids
       /\ \A n \in 1 .. N : \E i \in 1 .. Len(queue) : q[n] = queue[i]
  BY <1>8, <1>11
<1>13. ASSUME Distinct(queue), NEW n \in 1 .. N, NEW m \in 1 .. N, q[n] = q[m]
       PROVE  n = m
  BY <1>8, <1>9, <1>11, <1>13 DEF Distinct
<1>14. Queued(q) \subseteq Queued(queue) \ ids
  BY <1>10, <1>12 DEF Queued
<1>15. Distinct(queue) => Distinct(q)
  BY <1>10, <1>13 DEF Distinct
<1> QED
  BY <1>10, <1>14, <1>15
-------------------------------------------------------------------------------
(* The reducer: what its jobs, buffers, queue and effect are to each other.*)

JobTyped(j) ==
  /\ DOMAIN j = {"key", "revision", "sealed", "phase", "outcome", "drop", "acked",
                 "source", "scratch", "facts"}
  /\ j.revision \in Nat /\ j.phase \in Nat
  /\ j.sealed \in BOOLEAN /\ j.drop \in BOOLEAN /\ j.acked \in BOOLEAN
  /\ j.outcome \in Ends
  /\ j.source \in Nat /\ j.scratch \in Nat /\ j.facts \in Nat

Buffer == [revision : Nat, current : Nat, releasing : BOOLEAN]
Flight == [kind : {"none", "drop", "parse"}, job : Nat, phase : Nat,
           scratch : Nat, facts : Nat]

CoreTyped(c) ==
  /\ DOMAIN c = {"jobs", "buffers", "queue", "flight", "retired", "last"}
  /\ c.last \in Nat /\ Jobs(c) \subseteq 1 .. c.last
  /\ c.queue \in Seq(Nat) /\ c.retired \in BOOLEAN /\ c.flight \in Flight
  /\ \A id \in Jobs(c) : JobTyped(c.jobs[id])
  /\ \A k \in DOMAIN c.buffers : c.buffers[k] \in Buffer

(* The facts of a job are still wanted; the host holds something for it.   *)
Open(j) == j.outcome \in {"none", "ready"} /\ ~ j.acked
Live(j) == j.drop \/ Open(j)

(* A job whose facts are wanted is the current one of its buffer, of the   *)
(* buffer's text.                                                          *)
JobSound(c, id) ==
  LET j == c.jobs[id]
  IN  /\ j.key \in DOMAIN c.buffers
      /\ Open(j) => /\ c.buffers[j.key].revision = j.revision
                    /\ c.buffers[j.key].current = id
                    /\ ~ c.buffers[j.key].releasing
                    /\ ~ j.drop
      /\ j.outcome = "none" => /\ ~ j.acked
                               /\ j.source = SourceSize /\ j.phase \in 1 .. Phases

BufferSound(c, k) ==
  LET id == c.buffers[k].current
  IN  id # 0 => /\ id \in Jobs(c)
                /\ c.jobs[id].key = k
                /\ c.jobs[id].revision = c.buffers[k].revision

Parsing(c, id) == c.flight.kind = "parse" /\ c.flight.job = id

QueueSound(c) ==
  /\ \A id \in Queued(c.queue) :
       /\ id \in Jobs(c)
       /\ c.jobs[id].sealed /\ c.jobs[id].outcome = "none"
       /\ ~ Parsing(c, id)
  /\ Distinct(c.queue)

(* An effect is of a job that is there; a phase is of one that waits for   *)
(* it or has ended meanwhile.                                              *)
FlightSound(c) ==
  LET f == c.flight
  IN  /\ f.kind = "none" => f = NoFlight
      /\ f.kind # "none" => f.job \in Jobs(c)
      /\ f.kind = "drop" => c.jobs[f.job].drop
      /\ f.kind = "parse" => /\ c.jobs[f.job].sealed /\ c.jobs[f.job].outcome # "ready"
                             /\ Live(c.jobs[f.job]) /\ f.phase = c.jobs[f.job].phase

(* What some jobs hold of a size together.                                 *)
Holds(c, size, ids) == Total([id \in ids |-> c.jobs[id][size]])

(* A phase may bring the job to what is left by the others.                *)
BudgetSound(c) ==
  /\ SourceUsed(c) <= MaxSource
  /\ FactsUsed(c) <= MaxFacts
  /\ ScratchUsed(c) <= MaxScratch
  /\ c.flight.kind = "parse" =>
       /\ Holds(c, "facts", Jobs(c) \ {c.flight.job}) + c.flight.facts <= MaxFacts
       /\ Holds(c, "scratch", Jobs(c) \ {c.flight.job}) + c.flight.scratch <= MaxScratch

CoreSound(c) ==
  /\ CoreTyped(c)
  /\ \A id \in Jobs(c) : JobSound(c, id)
  /\ \A k \in DOMAIN c.buffers : BufferSound(c, k)
  /\ QueueSound(c)
  /\ FlightSound(c)
  /\ BudgetSound(c)

(* Facts that have been taken are to be dropped.                           *)
ReadyHeld(c) ==
  \A id \in Jobs(c) : c.jobs[id].outcome = "ready" /\ c.jobs[id].acked => c.jobs[id].drop

(* A retired reducer analyses nothing any more.                            *)
NoneLeft(c) == c.retired => \A id \in Jobs(c) : c.jobs[id].outcome # "none"

(* From c to d the reducer forgot and ended jobs only, and of those it     *)
(* forgot the host holds nothing.                                          *)
Eases(c, d) ==
  /\ c.last = d.last /\ Jobs(d) \subseteq Jobs(c)
  /\ \A id \in Jobs(d) :
       /\ d.jobs[id].revision = c.jobs[id].revision
       /\ d.jobs[id].source = c.jobs[id].source
       /\ d.jobs[id].scratch = c.jobs[id].scratch
       /\ d.jobs[id].facts = c.jobs[id].facts
       /\ d.jobs[id].outcome = "none" => c.jobs[id].outcome = "none"
  /\ \A id \in Jobs(c) : Live(c.jobs[id]) <=> id \in Jobs(d) /\ Live(d.jobs[id])
  /\ \A id \in Jobs(d) : Parsing(d, id) => Parsing(c, id) \/ c.jobs[id].outcome = "none"

-------------------------------------------------------------------------------
(* What jobs hold together.                                                *)

Sizes == {"source", "scratch", "facts"}

LEMMA FinitelyMany ==
  ASSUME NEW c, CoreTyped(c)
  PROVE  /\ IsFiniteSet(Jobs(c))
         /\ \A ids \in SUBSET Jobs(c) : IsFiniteSet(ids)
<1>1. IsFiniteSet(1 .. c.last)
  BY FS_Interval DEF CoreTyped
<1> QED
  BY <1>1, FS_Subset DEF CoreTyped

LEMMA SizesAreNaturals ==
  ASSUME NEW c, CoreTyped(c)
  PROVE  \A id \in Jobs(c), size \in Sizes : c.jobs[id][size] \in Nat
  BY DEF CoreTyped, JobTyped, Sizes

LEMMA UsesAre ==
  ASSUME NEW c
  PROVE  /\ SourceUsed(c) = Holds(c, "source", Jobs(c))
         /\ ScratchUsed(c) = Holds(c, "scratch", Jobs(c))
         /\ FactsUsed(c) = Holds(c, "facts", Jobs(c))
  BY DEF SourceUsed, ScratchUsed, FactsUsed, Holds

LEMMA HoldsNat ==
  ASSUME NEW c, CoreTyped(c), NEW size \in Sizes, NEW ids \in SUBSET Jobs(c)
  PROVE  Holds(c, size, ids) \in Nat
<1> DEFINE f == [id \in ids |-> c.jobs[id][size]]
<1>1. IsFiniteSet(ids)
  BY FinitelyMany
<1>2. f \in [ids -> Nat]
  BY SizesAreNaturals
<1>3. Total(f) \in Nat
  <2> HIDE DEF f
  <2> QED
    BY <1>1, <1>2, TotalNat
<1> QED
  BY <1>3 DEF Holds

LEMMA HoldsLess ==
  ASSUME NEW c, CoreTyped(c), NEW d, CoreTyped(d), NEW size \in Sizes,
         NEW S \in SUBSET Jobs(c), NEW R \in SUBSET S, R \subseteq Jobs(d),
         \A id \in R : d.jobs[id][size] <= c.jobs[id][size]
  PROVE  Holds(d, size, R) <= Holds(c, size, S)
<1> DEFINE f == [id \in S |-> c.jobs[id][size]]
           g == [id \in R |-> d.jobs[id][size]]
<1>1. IsFiniteSet(S)
  BY FinitelyMany
<1>2. f \in [S -> Nat] /\ g \in [R -> Nat]
  BY SizesAreNaturals
<1>3. \A id \in R : g[id] <= f[id]
  OBVIOUS
<1>4. Total(g) <= Total(f)
  <2> HIDE DEF f, g
  <2> QED
    BY <1>1, <1>2, <1>3, TotalLess
<1> QED
  BY <1>4 DEF Holds

LEMMA HoldsSplit ==
  ASSUME NEW c, CoreTyped(c), NEW size \in Sizes, NEW S \in SUBSET Jobs(c), NEW x \in S
  PROVE  Holds(c, size, S) = Holds(c, size, S \ {x}) + c.jobs[x][size]
<1> DEFINE f == [id \in S |-> c.jobs[id][size]]
           g == [id \in S \ {x} |-> c.jobs[id][size]]
<1>1. IsFiniteSet(S)
  BY FinitelyMany
<1>2. f \in [S -> Nat] /\ g \in [S \ {x} -> Nat] /\ x \in S
  BY SizesAreNaturals
<1>3. \A id \in S \ {x} : g[id] = f[id]
  OBVIOUS
<1>4. Total(f) = Total(g) + f[x]
  <2> HIDE DEF f, g
  <2> QED
    BY <1>1, <1>2, <1>3, TotalSplit
<1> QED
  BY <1>4 DEF Holds

(* Jobs that are as they were hold what they held.                         *)
LEMMA HoldsSame ==
  ASSUME NEW c, NEW d, NEW size, NEW S, \A id \in S : d.jobs[id][size] = c.jobs[id][size]
  PROVE  Holds(d, size, S) = Holds(c, size, S)
<1>1. [id \in S |-> d.jobs[id][size]] = [id \in S |-> c.jobs[id][size]]
  OBVIOUS
<1> QED
  BY <1>1 DEF Holds

(* Nothing is used up by forgetting jobs and by letting them hold less.    *)
LEMMA BudgetKept ==
  ASSUME NEW c, CoreTyped(c), BudgetSound(c), NEW d, CoreTyped(d),
         Jobs(d) \subseteq Jobs(c),
         \A id \in Jobs(d), size \in Sizes : d.jobs[id][size] <= c.jobs[id][size],
         d.flight.kind = "parse" => d.flight = c.flight
  PROVE  BudgetSound(d)
<1>1. \A size \in Sizes : Holds(d, size, Jobs(d)) <= Holds(c, size, Jobs(c))
  BY HoldsLess
<1>2. \A size \in Sizes : /\ Holds(d, size, Jobs(d)) \in Nat
                          /\ Holds(c, size, Jobs(c)) \in Nat
  BY HoldsNat
<1>3. ASSUME d.flight.kind = "parse", NEW size \in Sizes
      PROVE  /\ Holds(d, size, Jobs(d) \ {d.flight.job})
                  <= Holds(c, size, Jobs(c) \ {c.flight.job})
             /\ Holds(d, size, Jobs(d) \ {d.flight.job}) \in Nat
             /\ Holds(c, size, Jobs(c) \ {c.flight.job}) \in Nat
  <2>1. /\ d.flight.job = c.flight.job
        /\ Jobs(c) \ {c.flight.job} \in SUBSET Jobs(c)
        /\ Jobs(d) \ {d.flight.job} \in SUBSET (Jobs(c) \ {c.flight.job})
        /\ Jobs(d) \ {d.flight.job} \subseteq Jobs(d)
        /\ \A id \in Jobs(d) \ {d.flight.job} : d.jobs[id][size] <= c.jobs[id][size]
    BY <1>3
  <2> QED
    BY <2>1, HoldsLess, HoldsNat
<1>4. LimitsAssumption /\ "source" \in Sizes /\ "scratch" \in Sizes /\ "facts" \in Sizes
  BY LimitsAssumption DEF Sizes
<1>5. /\ SourceUsed(d) <= MaxSource /\ FactsUsed(d) <= MaxFacts
      /\ ScratchUsed(d) <= MaxScratch
  BY <1>1, <1>2, <1>4, UsesAre DEF BudgetSound, LimitsAssumption
<1>6. ASSUME d.flight.kind = "parse"
      PROVE  /\ Holds(d, "facts", Jobs(d) \ {d.flight.job}) + d.flight.facts <= MaxFacts
             /\ Holds(d, "scratch", Jobs(d) \ {d.flight.job}) + d.flight.scratch
                  <= MaxScratch
  <2>1. d.flight = c.flight /\ c.flight.facts \in Nat /\ c.flight.scratch \in Nat
    BY <1>6 DEF CoreTyped, Flight
  <2>2. ASSUME NEW size \in Sizes, NEW n \in Nat, NEW m \in Nat,
               Holds(c, size, Jobs(c) \ {c.flight.job}) + n <= m
        PROVE  Holds(d, size, Jobs(d) \ {d.flight.job}) + n <= m
    <3> DEFINE a == Holds(d, size, Jobs(d) \ {d.flight.job})
               b == Holds(c, size, Jobs(c) \ {c.flight.job})
    <3>1. a \in Nat /\ b \in Nat /\ a <= b
      BY <1>3, <1>6
    <3>2. b + n <= m
      BY <2>2
    <3>3. a + n <= m
      <4> HIDE DEF a, b
      <4> QED
        BY <3>1, <3>2
    <3> QED
      BY <3>3
  <2>3. /\ Holds(c, "facts", Jobs(c) \ {c.flight.job}) + d.flight.facts <= MaxFacts
        /\ Holds(c, "scratch", Jobs(c) \ {c.flight.job}) + d.flight.scratch <= MaxScratch
    BY <1>6, <2>1 DEF BudgetSound
  <2> QED
    BY <1>4, <2>1, <2>2, <2>3 DEF LimitsAssumption
<1> QED
  BY <1>5, <1>6 DEF BudgetSound

-------------------------------------------------------------------------------
(* Ending jobs.                                                            *)

LEMMA StoppedJobs ==
  ASSUME NEW c, CoreTyped(c), NEW ids, NEW reason \in Ends, NEW d,
         d = Stopped(c, ids, reason)
  PROVE  /\ DOMAIN d = DOMAIN c /\ Jobs(d) = Jobs(c) /\ d.buffers = c.buffers
         /\ d.flight = c.flight /\ d.retired = c.retired /\ d.last = c.last
         /\ d.queue = Dequeued(c.queue, ids)
         /\ \A id \in Jobs(c) :
              /\ id \in ids /\ c.jobs[id].outcome \in {"none", "ready"} =>
                   d.jobs[id] = Ended(c.jobs[id], reason)
              /\ ~ (id \in ids /\ c.jobs[id].outcome \in {"none", "ready"}) =>
                   d.jobs[id] = c.jobs[id]
<1>1. d = [c EXCEPT !.jobs = [id \in DOMAIN @ |->
              IF id \in ids /\ @[id].outcome \in {"none", "ready"}
                THEN Ended(@[id], reason) ELSE @[id]],
            !.queue = Dequeued(@, ids)]
  BY DEF Stopped
<1>2. /\ DOMAIN d = DOMAIN c /\ d.buffers = c.buffers /\ d.flight = c.flight
      /\ d.retired = c.retired /\ d.last = c.last /\ d.queue = Dequeued(c.queue, ids)
      /\ d.jobs = [id \in DOMAIN c.jobs |->
                     IF id \in ids /\ c.jobs[id].outcome \in {"none", "ready"}
                       THEN Ended(c.jobs[id], reason) ELSE c.jobs[id]]
  BY <1>1 DEF CoreTyped
<1> QED
  BY <1>2 DEF Jobs

LEMMA StoppedJob ==
  ASSUME NEW j, JobTyped(j), NEW reason \in Ends, NEW e,
         e = Ended(j, reason)
  PROVE  /\ JobTyped(e) /\ e.outcome = reason /\ e.drop
         /\ e.key = j.key /\ e.revision = j.revision /\ e.sealed = j.sealed
         /\ e.phase = j.phase /\ e.acked = j.acked
         /\ e.source = j.source /\ e.scratch = j.scratch /\ e.facts = j.facts
  BY DEF JobTyped, Ended

LEMMA Stopping ==
  ASSUME NEW c, CoreSound(c), NEW ids, NEW reason \in Ends \ {"none", "ready"}, NEW d,
         d = Stopped(c, ids, reason)
  PROVE  /\ CoreSound(d) /\ (ReadyHeld(c) => Eases(c, d) /\ ReadyHeld(d))
         /\ Jobs(d) = Jobs(c) /\ d.buffers = c.buffers /\ d.flight = c.flight
         /\ d.retired = c.retired
         /\ \A id \in Jobs(c) :
              /\ d.jobs[id].key = c.jobs[id].key
              /\ id \in ids => d.jobs[id].outcome \notin {"none", "ready"}
              /\ id \notin ids => d.jobs[id] = c.jobs[id]
<1> DEFINE Hit(id) == id \in ids /\ c.jobs[id].outcome \in {"none", "ready"}
<1>1. CoreTyped(c) /\ reason \in Ends
  BY DEF CoreSound
<1>2. /\ DOMAIN d = DOMAIN c /\ Jobs(d) = Jobs(c) /\ d.buffers = c.buffers
      /\ d.flight = c.flight /\ d.retired = c.retired /\ d.last = c.last
      /\ d.queue = Dequeued(c.queue, ids)
  BY <1>1, StoppedJobs
<1>3. \A id \in Jobs(c) :
        /\ Hit(id) => d.jobs[id] = Ended(c.jobs[id], reason)
        /\ ~ Hit(id) => d.jobs[id] = c.jobs[id]
  BY <1>1, StoppedJobs
<1>4. \A id \in Jobs(c) : JobTyped(c.jobs[id])
  BY <1>1 DEF CoreTyped
<1>5. ASSUME NEW id \in Jobs(c)
      PROVE  /\ JobTyped(d.jobs[id])
             /\ d.jobs[id].key = c.jobs[id].key
             /\ d.jobs[id].revision = c.jobs[id].revision
             /\ d.jobs[id].sealed = c.jobs[id].sealed
             /\ d.jobs[id].phase = c.jobs[id].phase
             /\ d.jobs[id].acked = c.jobs[id].acked
             /\ d.jobs[id].source = c.jobs[id].source
             /\ d.jobs[id].scratch = c.jobs[id].scratch
             /\ d.jobs[id].facts = c.jobs[id].facts
             /\ Hit(id) => d.jobs[id].outcome = reason /\ d.jobs[id].drop
             /\ ~ Hit(id) => d.jobs[id] = c.jobs[id]
  <2>1. CASE Hit(id)
    <3>1. d.jobs[id] = Ended(c.jobs[id], reason)
      BY <1>3, <2>1
    <3> HIDE DEF Hit
    <3> QED
      BY <1>4, <2>1, <3>1, StoppedJob
  <2>2. CASE ~ Hit(id)
    <3>1. d.jobs[id] = c.jobs[id]
      BY <1>3, <2>2
    <3> HIDE DEF Hit
    <3> QED
      BY <1>4, <2>2, <3>1
  <2> QED
    BY <2>1, <2>2
<1>6. \A id \in Jobs(c) : c.jobs[id].outcome \in {"none", "ready"} =>
        (id \in ids <=> Hit(id))
  OBVIOUS
<1>7. \A id \in Jobs(c) : id \in ids => d.jobs[id].outcome \notin {"none", "ready"}
  BY <1>5
<1> HIDE DEF Hit
<1>8. /\ d.queue \in Seq(Nat)
      /\ Queued(d.queue) \subseteq Queued(c.queue) \ ids
      /\ Distinct(c.queue) => Distinct(d.queue)
  <2>1. c.queue \in Seq(Nat)
    BY <1>1 DEF CoreTyped
  <2> QED
    BY <1>2, <2>1, DequeuedQueue
<1>9. CoreTyped(d)
  BY <1>1, <1>2, <1>5, <1>8 DEF CoreTyped
<1>10. \A id \in Jobs(d) : JobSound(d, id)
  <2>1. ASSUME NEW id \in Jobs(c)
        PROVE  JobSound(d, id)
    <3>1. JobSound(c, id)
      BY DEF CoreSound
    <3>2. CASE Hit(id)
      BY <1>2, <1>5, <3>1, <3>2 DEF JobSound, Open
    <3>3. CASE ~ Hit(id)
      BY <1>2, <1>5, <3>1, <3>3 DEF JobSound, Open
    <3> QED
      BY <3>2, <3>3
  <2> QED
    BY <1>2, <2>1
<1>11. \A k \in DOMAIN d.buffers : BufferSound(d, k)
  BY <1>2, <1>5 DEF CoreSound, BufferSound
<1>12. QueueSound(d)
  <2>1. QueueSound(c)
    BY DEF CoreSound
  <2>2. ASSUME NEW id \in Queued(d.queue)
        PROVE  /\ id \in Jobs(d)
               /\ d.jobs[id].sealed /\ d.jobs[id].outcome = "none"
               /\ ~ Parsing(d, id)
    <3>1. id \in Queued(c.queue) /\ id \notin ids
      BY <1>8
    <3>2. /\ id \in Jobs(c)
          /\ c.jobs[id].sealed /\ c.jobs[id].outcome = "none"
          /\ ~ Parsing(c, id)
      BY <2>1, <3>1 DEF QueueSound
    <3>3. ~ Hit(id)
      BY <3>1 DEF Hit
    <3> QED
      BY <1>2, <1>5, <3>2, <3>3 DEF Parsing
  <2>3. Distinct(d.queue)
    BY <1>8, <2>1 DEF QueueSound
  <2> QED
    BY <2>2, <2>3 DEF QueueSound
<1>13. FlightSound(d)
  <2>1. FlightSound(c)
    BY DEF CoreSound
  <2>2. CASE c.flight.kind = "none"
    BY <1>2, <2>1, <2>2 DEF FlightSound
  <2>3. CASE c.flight.kind # "none"
    <3>1. c.flight.job \in Jobs(c)
      BY <2>1, <2>3 DEF FlightSound
    <3>2. CASE Hit(c.flight.job)
      BY <1>2, <1>5, <2>1, <2>3, <3>1, <3>2 DEF FlightSound, Live, Open
    <3>3. CASE ~ Hit(c.flight.job)
      BY <1>2, <1>5, <2>1, <2>3, <3>1, <3>3 DEF FlightSound, Live, Open
    <3> QED
      BY <3>2, <3>3
  <2> QED
    BY <2>2, <2>3
<1>14. BudgetSound(d)
  <2>1. \A id \in Jobs(d), size \in Sizes : d.jobs[id][size] <= c.jobs[id][size]
    BY <1>2, <1>4, <1>5 DEF Sizes, JobTyped
  <2> QED
    BY <1>1, <1>2, <1>9, <2>1, BudgetKept DEF CoreSound
<1>15. ASSUME ReadyHeld(c)
       PROVE  Eases(c, d)
  <2>1. ASSUME NEW id \in Jobs(c)
        PROVE  /\ d.jobs[id].outcome = "none" => c.jobs[id].outcome = "none"
               /\ Live(c.jobs[id]) <=> Live(d.jobs[id])
    <3>1. CASE Hit(id)
      <4>1. c.jobs[id].outcome = "none" => ~ c.jobs[id].acked
        BY DEF CoreSound, JobSound
      <4>2. c.jobs[id].outcome = "ready" /\ c.jobs[id].acked => c.jobs[id].drop
        BY <1>15 DEF ReadyHeld
      <4> QED
        BY <1>5, <3>1, <4>1, <4>2 DEF Hit, Live, Open
    <3>2. CASE ~ Hit(id)
      BY <1>5, <3>2
    <3> QED
      BY <3>1, <3>2
  <2> QED
    BY <1>2, <1>5, <2>1 DEF Eases, Parsing
<1>16. ReadyHeld(c) => ReadyHeld(d)
  BY <1>2, <1>5 DEF ReadyHeld
<1>17. \A id \in Jobs(c) : id \notin ids => d.jobs[id] = c.jobs[id]
  BY <1>5 DEF Hit
<1> QED
  BY <1>2, <1>5, <1>7, <1>9, <1>10, <1>11, <1>12, <1>13, <1>14, <1>15, <1>16, <1>17
     DEF CoreSound

-------------------------------------------------------------------------------
(* Forgetting jobs and buffers.                                            *)

LEMMA Forgotten ==
  ASSUME NEW c, CoreTyped(c), NEW ids, NEW d, d = RemovedReleased(c, ids)
  PROVE  /\ DOMAIN d = DOMAIN c /\ d.queue = c.queue
         /\ d.flight = c.flight /\ d.retired = c.retired /\ d.last = c.last
         /\ \A id : id \in Jobs(d) <=> id \in Jobs(c) /\ ~ (id \in ids /\ MayGo(c, id))
         /\ \A id \in Jobs(d) : d.jobs[id] = c.jobs[id]
         /\ \A k \in DOMAIN c.buffers :
              (\E id \in Jobs(d) : c.jobs[id].key = k) \/ ~ c.buffers[k].releasing
                => k \in DOMAIN d.buffers
         /\ \A k \in DOMAIN d.buffers :
              /\ k \in DOMAIN c.buffers
              /\ d.buffers[k].revision = c.buffers[k].revision
              /\ d.buffers[k].releasing = c.buffers[k].releasing
              /\ d.buffers[k].current
                   = IF c.buffers[k].current \in ids /\ MayGo(c, c.buffers[k].current)
                       THEN 0 ELSE c.buffers[k].current
              /\ d.buffers[k] \in Buffer
<1> DEFINE gone == {id \in ids : MayGo(c, id)}
           jobs == Without(c.jobs, gone)
           buffers == [k \in DOMAIN c.buffers |->
                         IF c.buffers[k].current \in gone
                           THEN [c.buffers[k] EXCEPT !.current = 0] ELSE c.buffers[k]]
<1>1. PICK e : e = [c EXCEPT !.jobs = jobs, !.buffers = buffers]
  OBVIOUS
<1>2. /\ DOMAIN e = DOMAIN c /\ e.queue = c.queue
      /\ e.flight = c.flight /\ e.retired = c.retired /\ e.last = c.last
      /\ e.jobs = jobs /\ e.buffers = buffers
  <2> HIDE DEF jobs, buffers
  <2> QED
    BY <1>1 DEF CoreTyped
<1>3. d = Pruned(e)
  <2>1. d = Pruned([c EXCEPT !.jobs = jobs, !.buffers = buffers])
    BY DEF RemovedReleased
  <2> HIDE DEF jobs, buffers
  <2> QED
    BY <1>1, <2>1
<1> DEFINE dead == {k \in DOMAIN e.buffers :
                      e.buffers[k].releasing /\ \A id \in Jobs(e) : e.jobs[id].key # k}
<1>4. d = [e EXCEPT !.buffers = Without(@, dead)]
  BY <1>3 DEF Pruned
<1>5. /\ DOMAIN d = DOMAIN c /\ d.queue = c.queue
      /\ d.flight = c.flight /\ d.retired = c.retired /\ d.last = c.last
      /\ d.jobs = jobs /\ d.buffers = Without(buffers, dead)
  <2> HIDE DEF jobs, buffers, dead
  <2> QED
    BY <1>2, <1>4 DEF CoreTyped
<1>6. /\ DOMAIN jobs = Jobs(c) \ gone
      /\ \A id \in Jobs(c) \ gone : jobs[id] = c.jobs[id]
  BY DEF Without, Jobs
<1>7. /\ DOMAIN buffers = DOMAIN c.buffers
      /\ \A k \in DOMAIN c.buffers :
           /\ buffers[k].revision = c.buffers[k].revision
           /\ buffers[k].releasing = c.buffers[k].releasing
           /\ buffers[k].current = IF c.buffers[k].current \in gone
                                     THEN 0 ELSE c.buffers[k].current
           /\ buffers[k] \in Buffer
  <2>1. ASSUME NEW k \in DOMAIN c.buffers
        PROVE  /\ buffers[k].revision = c.buffers[k].revision
               /\ buffers[k].releasing = c.buffers[k].releasing
               /\ buffers[k].current = IF c.buffers[k].current \in gone
                                         THEN 0 ELSE c.buffers[k].current
               /\ buffers[k] \in Buffer
    <3>1. c.buffers[k] \in Buffer
      BY DEF CoreTyped
    <3>2. buffers[k] = IF c.buffers[k].current \in gone
                         THEN [c.buffers[k] EXCEPT !.current = 0] ELSE c.buffers[k]
      OBVIOUS
    <3> HIDE DEF buffers, gone
    <3> QED
      BY <3>1, <3>2 DEF Buffer
  <2> QED
    BY <2>1
<1>8. /\ DOMAIN d.buffers = DOMAIN buffers \ dead
      /\ \A k \in DOMAIN buffers \ dead : d.buffers[k] = buffers[k]
  <2> HIDE DEF buffers, dead
  <2> QED
    BY <1>5 DEF Without
<1>9. \A k \in DOMAIN c.buffers : k \in dead =>
        c.buffers[k].releasing /\ \A id \in Jobs(d) : c.jobs[id].key # k
  <2>1. ASSUME NEW k \in DOMAIN c.buffers, k \in dead
        PROVE  e.buffers[k].releasing /\ \A id \in Jobs(e) : e.jobs[id].key # k
    BY <2>1
  <2>2. Jobs(d) = Jobs(e) /\ Jobs(e) = DOMAIN jobs
    BY <1>2, <1>5 DEF Jobs
  <2> HIDE DEF dead, jobs, buffers, gone
  <2> QED
    BY <1>2, <1>6, <1>7, <2>1, <2>2
<1>10. Jobs(d) = Jobs(c) \ gone /\ \A id \in Jobs(d) : d.jobs[id] = c.jobs[id]
  BY <1>5, <1>6 DEF Jobs
<1>11. \A id : id \in gone <=> id \in ids /\ MayGo(c, id)
  OBVIOUS
<1> HIDE DEF gone, jobs, buffers, dead
<1> QED
  BY <1>5, <1>7, <1>8, <1>9, <1>10, <1>11

(* Whoever forgets what may go leaves the rest as it was.                  *)
LEMMA Forgetting ==
  ASSUME NEW c, CoreSound(c), NEW ids, NEW d, d = RemovedReleased(c, ids)
  PROVE  /\ CoreSound(d)
         /\ d.last = c.last /\ d.flight = c.flight /\ Jobs(d) \subseteq Jobs(c)
         /\ \A id \in Jobs(d) : d.jobs[id] = c.jobs[id]
         /\ \A id \in Jobs(c) : id \in Jobs(d) \/ (id \in ids /\ MayGo(c, id))
         /\ \A id \in Jobs(c) : id \in ids /\ MayGo(c, id) => id \notin Jobs(d)
         /\ Eases(c, d) /\ (ReadyHeld(c) => ReadyHeld(d))
<1>1. CoreTyped(c)
  BY DEF CoreSound
<1>2. /\ DOMAIN d = DOMAIN c /\ d.queue = c.queue
      /\ d.flight = c.flight /\ d.retired = c.retired /\ d.last = c.last
      /\ \A id : id \in Jobs(d) <=> id \in Jobs(c) /\ ~ (id \in ids /\ MayGo(c, id))
      /\ \A id \in Jobs(d) : d.jobs[id] = c.jobs[id]
  BY <1>1, Forgotten
<1>3. /\ \A k \in DOMAIN c.buffers :
           (\E id \in Jobs(d) : c.jobs[id].key = k) \/ ~ c.buffers[k].releasing
             => k \in DOMAIN d.buffers
      /\ \A k \in DOMAIN d.buffers :
           /\ k \in DOMAIN c.buffers
           /\ d.buffers[k].revision = c.buffers[k].revision
           /\ d.buffers[k].releasing = c.buffers[k].releasing
           /\ d.buffers[k].current
                = IF c.buffers[k].current \in ids /\ MayGo(c, c.buffers[k].current)
                    THEN 0 ELSE c.buffers[k].current
           /\ d.buffers[k] \in Buffer
  BY <1>1, Forgotten
<1>4. Jobs(d) \subseteq Jobs(c)
  BY <1>2
<1>5. CoreTyped(d)
  BY <1>1, <1>2, <1>3, <1>4 DEF CoreTyped
<1>6. ASSUME NEW id \in Jobs(d)
      PROVE  JobSound(d, id)
  <2>1. JobSound(c, id) /\ d.jobs[id] = c.jobs[id] /\ id \in Jobs(c)
    BY <1>2, <1>4 DEF CoreSound
  <2>2. c.jobs[id].key \in DOMAIN d.buffers
    BY <1>3, <2>1 DEF JobSound
  <2>3. ~ (id \in ids /\ MayGo(c, id))
    BY <1>2
  <2> QED
    BY <1>2, <1>3, <2>1, <2>2, <2>3 DEF JobSound
<1>7. ASSUME NEW k \in DOMAIN d.buffers
      PROVE  BufferSound(d, k)
  <2>1. BufferSound(c, k)
    BY <1>3 DEF CoreSound
  <2> QED
    BY <1>2, <1>3, <2>1 DEF BufferSound
<1>8. ASSUME NEW id \in Jobs(c), MayGo(c, id)
      PROVE  c.jobs[id].outcome # "none" /\ c.flight.job # id
  BY <1>8 DEF MayGo, CoreSound, JobSound
<1>9. QueueSound(d)
  BY <1>2, <1>8 DEF CoreSound, QueueSound, Parsing
<1>10. FlightSound(d)
  BY <1>2, <1>8 DEF CoreSound, FlightSound
<1>11. BudgetSound(d)
  <2>1. \A id \in Jobs(d), size \in Sizes : d.jobs[id][size] <= c.jobs[id][size]
    BY <1>1, <1>2, <1>4, SizesAreNaturals
  <2> QED
    BY <1>1, <1>2, <1>4, <1>5, <2>1, BudgetKept DEF CoreSound
<1>12. Eases(c, d)
  <2>1. ASSUME NEW id \in Jobs(c), MayGo(c, id)
        PROVE  ~ Live(c.jobs[id])
    BY <2>1 DEF MayGo, Live, Open
  <2> QED
    BY <1>2, <1>4, <2>1 DEF Eases, Parsing
<1>13. ReadyHeld(c) => ReadyHeld(d)
  BY <1>2, <1>4 DEF ReadyHeld
<1> QED
  BY <1>2, <1>4, <1>5, <1>6, <1>7, <1>9, <1>10, <1>11, <1>12, <1>13
     DEF CoreSound

-------------------------------------------------------------------------------
(* Releasing buffers.                                                      *)

LEMMA EasesOn ==
  ASSUME NEW c, NEW d, NEW e, Eases(c, d), Eases(d, e)
  PROVE  Eases(c, e)
<1>1. Jobs(e) \subseteq Jobs(d) /\ Jobs(d) \subseteq Jobs(c) /\ c.last = e.last
  BY DEF Eases
<1>2. ASSUME NEW id \in Jobs(e)
      PROVE  /\ e.jobs[id].revision = c.jobs[id].revision
             /\ e.jobs[id].source = c.jobs[id].source
             /\ e.jobs[id].scratch = c.jobs[id].scratch
             /\ e.jobs[id].facts = c.jobs[id].facts
             /\ e.jobs[id].outcome = "none" => c.jobs[id].outcome = "none"
             /\ Parsing(e, id) => Parsing(c, id) \/ c.jobs[id].outcome = "none"
  <2>1. id \in Jobs(d)
    BY <1>1
  <2> QED
    BY <2>1 DEF Eases
<1>3. ASSUME NEW id \in Jobs(c)
      PROVE  Live(c.jobs[id]) <=> id \in Jobs(e) /\ Live(e.jobs[id])
  BY <1>1 DEF Eases
<1> QED
  BY <1>1, <1>2, <1>3 DEF Eases

(* A change that leaves the sizes and the stages of the jobs alone.        *)
Relabels(c, d) ==
  /\ CoreTyped(d)
  /\ Jobs(d) = Jobs(c) /\ d.last = c.last /\ d.queue = c.queue /\ d.flight = c.flight
  /\ \A id \in Jobs(c) :
       /\ d.jobs[id].key = c.jobs[id].key
       /\ d.jobs[id].revision = c.jobs[id].revision
       /\ d.jobs[id].sealed = c.jobs[id].sealed
       /\ d.jobs[id].phase = c.jobs[id].phase
       /\ d.jobs[id].outcome = c.jobs[id].outcome
       /\ d.jobs[id].source = c.jobs[id].source
       /\ d.jobs[id].scratch = c.jobs[id].scratch
       /\ d.jobs[id].facts = c.jobs[id].facts
       /\ c.jobs[id].drop => d.jobs[id].drop
       /\ Live(c.jobs[id]) <=> Live(d.jobs[id])

LEMMA Relabelled ==
  ASSUME NEW c, CoreSound(c), NEW d, Relabels(c, d)
  PROVE  /\ QueueSound(d) /\ FlightSound(d) /\ BudgetSound(d) /\ Eases(c, d)
<1>1. CoreTyped(c) /\ CoreTyped(d)
  BY DEF CoreSound, Relabels
<1>2. QueueSound(d)
  BY DEF CoreSound, QueueSound, Relabels, Parsing
<1>3. FlightSound(d)
  BY DEF CoreSound, FlightSound, Relabels
<1>4. BudgetSound(d)
  <2>1. ASSUME NEW id \in Jobs(c)
        PROVE  /\ d.jobs[id].source = c.jobs[id].source
               /\ d.jobs[id].scratch = c.jobs[id].scratch
               /\ d.jobs[id].facts = c.jobs[id].facts
               /\ c.jobs[id].source \in Nat /\ c.jobs[id].scratch \in Nat
               /\ c.jobs[id].facts \in Nat
    BY <1>1 DEF Relabels, CoreTyped, JobTyped
  <2>2. \A id \in Jobs(d), size \in Sizes : d.jobs[id][size] <= c.jobs[id][size]
    BY <2>1 DEF Sizes, Relabels
  <2>3. BudgetSound(c) /\ Jobs(d) \subseteq Jobs(c) /\ d.flight = c.flight
    BY DEF CoreSound, Relabels
  <2> QED
    BY <1>1, <2>2, <2>3, BudgetKept
<1>5. Eases(c, d)
  BY DEF Relabels, Eases, Parsing
<1> QED
  BY <1>2, <1>3, <1>4, <1>5

LEMMA AckedJob ==
  ASSUME NEW j, JobTyped(j), NEW drop \in BOOLEAN, NEW e,
         e = [j EXCEPT !.acked = TRUE, !.drop = drop]
  PROVE  /\ JobTyped(e) /\ e.acked /\ e.drop = drop
         /\ e.key = j.key /\ e.revision = j.revision /\ e.sealed = j.sealed
         /\ e.phase = j.phase /\ e.outcome = j.outcome
         /\ e.source = j.source /\ e.scratch = j.scratch /\ e.facts = j.facts
  BY DEF JobTyped

LEMMA Releasing ==
  ASSUME NEW c, CoreSound(c), ReadyHeld(c), NEW keys, NEW d,
         d = ReleasedBuffers(c, keys)
  PROVE  /\ CoreSound(d) /\ ReadyHeld(d) /\ Eases(c, d)
         /\ d.retired = c.retired
         /\ \A id \in Jobs(d) : c.jobs[id].key \in keys => d.jobs[id].outcome # "none"
<1> DEFINE mine == {id \in Jobs(c) : c.jobs[id].key \in keys}
<1>1. PICK s : s = Stopped(c, mine, "retired")
  OBVIOUS
<1>2. "retired" \in Ends \ {"none", "ready"}
  BY DEF Ends
<1>3. /\ CoreSound(s) /\ Eases(c, s) /\ ReadyHeld(s)
      /\ Jobs(s) = Jobs(c) /\ s.buffers = c.buffers /\ s.flight = c.flight
      /\ s.retired = c.retired
      /\ \A id \in Jobs(c) :
           /\ s.jobs[id].key = c.jobs[id].key
           /\ id \in mine => s.jobs[id].outcome \notin {"none", "ready"}
           /\ id \notin mine => s.jobs[id] = c.jobs[id]
  <2> HIDE DEF mine
  <2> QED
    BY <1>1, <1>2, Stopping
<1> DEFINE jobs == [id \in DOMAIN s.jobs |->
                      IF id \in mine THEN [s.jobs[id] EXCEPT !.acked = TRUE] ELSE s.jobs[id]]
           buffers == [k \in DOMAIN s.buffers |->
                         IF k \in keys THEN [s.buffers[k] EXCEPT !.releasing = TRUE]
                                       ELSE s.buffers[k]]
<1>4. PICK e : e = [s EXCEPT !.jobs = jobs, !.buffers = buffers]
  OBVIOUS
<1>5. d = RemovedReleased(e, mine)
  <2>1. d = RemovedReleased([s EXCEPT !.jobs = jobs, !.buffers = buffers], mine)
    BY <1>1 DEF ReleasedBuffers
  <2> HIDE DEF jobs, buffers, mine
  <2> QED
    BY <1>4, <2>1
<1>6. CoreTyped(s)
  BY <1>3 DEF CoreSound
<1>7. /\ DOMAIN e = DOMAIN s /\ e.queue = s.queue
      /\ e.flight = s.flight /\ e.retired = s.retired /\ e.last = s.last
      /\ e.jobs = jobs /\ e.buffers = buffers
  <2> HIDE DEF jobs, buffers
  <2> QED
    BY <1>4, <1>6 DEF CoreTyped
<1>8. ASSUME NEW id \in Jobs(c)
      PROVE  /\ JobTyped(e.jobs[id])
             /\ e.jobs[id].key = s.jobs[id].key
             /\ e.jobs[id].revision = s.jobs[id].revision
             /\ e.jobs[id].sealed = s.jobs[id].sealed
             /\ e.jobs[id].phase = s.jobs[id].phase
             /\ e.jobs[id].outcome = s.jobs[id].outcome
             /\ e.jobs[id].source = s.jobs[id].source
             /\ e.jobs[id].scratch = s.jobs[id].scratch
             /\ e.jobs[id].facts = s.jobs[id].facts
             /\ e.jobs[id].drop = s.jobs[id].drop
             /\ id \notin mine => e.jobs[id] = c.jobs[id]
  <2>1. JobTyped(s.jobs[id])
    BY <1>3, <1>6 DEF CoreTyped
  <2>2. id \in DOMAIN s.jobs
    BY <1>3 DEF Jobs
  <2>3. CASE id \in mine
    <3>1. e.jobs[id] = [s.jobs[id] EXCEPT !.acked = TRUE]
      BY <1>7, <2>2, <2>3
    <3> HIDE DEF mine, jobs, buffers
    <3> QED
      BY <2>1, <2>3, <3>1 DEF JobTyped
  <2>4. CASE id \notin mine
    <3>1. e.jobs[id] = s.jobs[id]
      BY <1>7, <2>2, <2>4
    <3> HIDE DEF mine, jobs, buffers
    <3> QED
      BY <1>3, <2>1, <2>4, <3>1
  <2> QED
    BY <2>3, <2>4
<1>9. Jobs(e) = Jobs(c)
  BY <1>3, <1>7 DEF Jobs
<1>10. /\ DOMAIN e.buffers = DOMAIN s.buffers
       /\ \A k \in DOMAIN s.buffers :
            /\ e.buffers[k] \in Buffer
            /\ e.buffers[k].revision = s.buffers[k].revision
            /\ e.buffers[k].current = s.buffers[k].current
            /\ k \notin keys => e.buffers[k] = s.buffers[k]
  <2>1. \A k \in DOMAIN s.buffers : s.buffers[k] \in Buffer
    BY <1>6 DEF CoreTyped
  <2>2. /\ DOMAIN e.buffers = DOMAIN s.buffers
        /\ \A k \in DOMAIN s.buffers :
             e.buffers[k] = IF k \in keys THEN [s.buffers[k] EXCEPT !.releasing = TRUE]
                                          ELSE s.buffers[k]
    BY <1>7
  <2>3. ASSUME NEW b \in Buffer, NEW b2, b2 = [b EXCEPT !.releasing = TRUE]
        PROVE  b2 \in Buffer /\ b2.revision = b.revision /\ b2.current = b.current
    BY <2>3 DEF Buffer
  <2> HIDE DEF mine, jobs, buffers
  <2>4. ASSUME NEW k \in DOMAIN s.buffers
        PROVE  /\ e.buffers[k] \in Buffer
               /\ e.buffers[k].revision = s.buffers[k].revision
               /\ e.buffers[k].current = s.buffers[k].current
               /\ k \notin keys => e.buffers[k] = s.buffers[k]
    <3>1. CASE k \in keys
      BY <2>1, <2>2, <2>3, <3>1
    <3>2. CASE k \notin keys
      BY <2>1, <2>2, <3>2
    <3> QED
      BY <3>1, <3>2
  <2> QED
    BY <2>2, <2>4
<1>11. \A id \in Jobs(c) : id \in mine <=> c.jobs[id].key \in keys
  OBVIOUS
<1> HIDE DEF mine, jobs, buffers
<1>12. CoreTyped(e)
  BY <1>3, <1>6, <1>7, <1>8, <1>9, <1>10 DEF CoreTyped
<1>13. Relabels(s, e)
  BY <1>3, <1>7, <1>8, <1>9, <1>12 DEF Relabels, Live, Open
<1>14. ASSUME NEW id \in Jobs(e)
       PROVE  JobSound(e, id)
  <2>1. JobSound(s, id) /\ id \in Jobs(c)
    BY <1>3, <1>9 DEF CoreSound
  <2>2. CASE id \in mine
    BY <1>3, <1>8, <1>10, <2>1, <2>2 DEF JobSound, Open
  <2>3. CASE id \notin mine
    <3>1. c.jobs[id].key \notin keys /\ e.jobs[id] = s.jobs[id]
      BY <1>3, <1>8, <1>11, <2>1, <2>3
    <3> QED
      BY <1>3, <1>10, <2>1, <3>1 DEF JobSound
  <2> QED
    BY <2>2, <2>3
<1>15. \A k \in DOMAIN e.buffers : BufferSound(e, k)
  <2>1. \A k \in DOMAIN s.buffers : BufferSound(s, k)
    BY <1>3 DEF CoreSound
  <2> QED
    BY <1>3, <1>8, <1>9, <1>10, <2>1 DEF BufferSound
<1>16. CoreSound(e) /\ Eases(s, e)
  BY <1>3, <1>12, <1>13, <1>14, <1>15, Relabelled DEF CoreSound
<1>17. ReadyHeld(e)
  BY <1>3, <1>8, <1>9 DEF ReadyHeld
<1>18. /\ CoreSound(d) /\ ReadyHeld(d) /\ Eases(e, d)
       /\ Jobs(d) \subseteq Jobs(e) /\ \A id \in Jobs(d) : d.jobs[id] = e.jobs[id]
  BY <1>5, <1>16, <1>17, Forgetting
<1>19. d.retired = e.retired
  BY <1>5, <1>12, Forgotten
<1>20. Eases(c, d)
  <2>1. Eases(c, e)
    BY <1>3, <1>16, EasesOn
  <2> QED
    BY <1>18, <2>1, EasesOn
<1>21. \A id \in Jobs(d) : c.jobs[id].key \in keys => d.jobs[id].outcome # "none"
  BY <1>3, <1>8, <1>9, <1>11, <1>18
<1> QED
  BY <1>3, <1>7, <1>18, <1>19, <1>20, <1>21

LEMMA Retiring ==
  ASSUME NEW c, CoreSound(c), ReadyHeld(c), NEW d, d = Retired(c)
  PROVE  CoreSound(d) /\ ReadyHeld(d) /\ Eases(c, d) /\ NoneLeft(d)
<1>1. PICK s : s = [c EXCEPT !.retired = TRUE]
  OBVIOUS
<1>2. CoreTyped(c)
  BY DEF CoreSound
<1>3. /\ DOMAIN s = DOMAIN c /\ s.jobs = c.jobs /\ s.buffers = c.buffers
      /\ s.queue = c.queue /\ s.flight = c.flight /\ s.last = c.last /\ s.retired = TRUE
  BY <1>1, <1>2 DEF CoreTyped
<1>4. Jobs(s) = Jobs(c)
  BY <1>3 DEF Jobs
<1>5. CoreTyped(s)
  BY <1>2, <1>3, <1>4 DEF CoreTyped
<1>6. Relabels(c, s)
  BY <1>3, <1>4, <1>5 DEF Relabels
<1>7. QueueSound(s) /\ FlightSound(s) /\ BudgetSound(s) /\ Eases(c, s)
  BY <1>6, Relabelled
<1>8. \A id \in Jobs(s) : JobSound(s, id)
  BY <1>3, <1>4 DEF CoreSound, JobSound
<1>9. \A k \in DOMAIN s.buffers : BufferSound(s, k)
  BY <1>3, <1>4 DEF CoreSound, BufferSound
<1>10. CoreSound(s) /\ ReadyHeld(s)
  BY <1>3, <1>4, <1>5, <1>7, <1>8, <1>9 DEF CoreSound, ReadyHeld
<1>11. d = ReleasedBuffers(s, DOMAIN c.buffers)
  BY <1>1 DEF Retired
<1>12. /\ CoreSound(d) /\ ReadyHeld(d) /\ Eases(s, d)
       /\ \A id \in Jobs(d) : s.jobs[id].key \in DOMAIN c.buffers
                                => d.jobs[id].outcome # "none"
  BY <1>10, <1>11, Releasing
<1>13. \A id \in Jobs(s) : s.jobs[id].key \in DOMAIN c.buffers
  BY <1>3, <1>8 DEF JobSound
<1>14. Jobs(d) \subseteq Jobs(s)
  BY <1>12 DEF Eases
<1> QED
  BY <1>7, <1>12, <1>13, <1>14, EasesOn DEF NoneLeft

-------------------------------------------------------------------------------
(* Queues that grow and shrink at their ends.                              *)

LEMMA AppendedQueue ==
  ASSUME NEW queue \in Seq(Nat), NEW x \in Nat, x \notin Queued(queue), Distinct(queue),
         NEW q, q = Append(queue, x)
  PROVE  /\ q \in Seq(Nat) /\ Distinct(q)
         /\ \A y \in Queued(q) : y \in Queued(queue) \/ y = x
<1>1. /\ q \in Seq(Nat) /\ Len(q) = Len(queue) + 1 /\ Len(queue) \in Nat
      /\ \A n \in 1 .. Len(queue) : q[n] = queue[n]
      /\ q[Len(queue) + 1] = x
  OBVIOUS
<1>2. \A n \in 1 .. Len(q) : n \in 1 .. Len(queue) \/ n = Len(queue) + 1
  BY <1>1
<1>3. \A n \in 1 .. Len(queue) : queue[n] # x
  BY DEF Queued
<1>4. Distinct(q)
  BY <1>1, <1>2, <1>3 DEF Distinct
<1>5. \A y \in Queued(q) : y \in Queued(queue) \/ y = x
  BY <1>1, <1>2 DEF Queued
<1> QED
  BY <1>1, <1>4, <1>5

LEMMA ServedQueue ==
  ASSUME NEW queue \in Seq(Nat), queue # <<>>, Distinct(queue),
         NEW q, q = Tail(queue)
  PROVE  /\ q \in Seq(Nat) /\ Distinct(q)
         /\ Head(queue) \in Queued(queue)
         /\ Queued(q) \subseteq Queued(queue) \ {Head(queue)}
<1>1. /\ q \in Seq(Nat) /\ Len(queue) \in Nat \ {0} /\ Len(q) = Len(queue) - 1
      /\ \A n \in 1 .. Len(q) : q[n] = queue[n + 1] /\ n + 1 \in 1 .. Len(queue)
      /\ Head(queue) = queue[1] /\ 1 \in 1 .. Len(queue)
  OBVIOUS
<1>2. \A n \in 1 .. Len(q) : n + 1 # 1 /\ n \in Nat
  BY <1>1
<1>3. \A n \in 1 .. Len(q) : q[n] # Head(queue)
  BY <1>1, <1>2 DEF Distinct
<1>4. Distinct(q)
  <2>1. ASSUME NEW n \in 1 .. Len(q), NEW m \in 1 .. Len(q), q[n] = q[m]
        PROVE  n = m
    <3>1. n + 1 = m + 1
      BY <1>1, <2>1 DEF Distinct
    <3> QED
      BY <1>2, <3>1
  <2> QED
    BY <2>1 DEF Distinct
<1> QED
  BY <1>1, <1>3, <1>4 DEF Queued

-------------------------------------------------------------------------------
(* The commands of a client.                                               *)

LEMMA Acknowledging ==
  ASSUME NEW c, CoreSound(c), ReadyHeld(c), NEW id \in Jobs(c),
         c.jobs[id].outcome # "none", NEW d, d = Acknowledged(c, id)
  PROVE  CoreSound(d) /\ ReadyHeld(d) /\ Eases(c, d) /\ d.retired = c.retired
<1>1. PICK s : s = [c EXCEPT !.jobs[id].acked = TRUE,
                             !.jobs[id].drop = @ \/ c.jobs[id].outcome = "ready"]
  OBVIOUS
<1>2. d = RemovedReleased(s, {id})
  BY <1>1 DEF Acknowledged
<1>3. CoreTyped(c) /\ JobTyped(c.jobs[id]) /\ c.jobs[id].drop \in BOOLEAN
  BY DEF CoreSound, CoreTyped, JobTyped
<1>4. PICK drop \in BOOLEAN : drop = (c.jobs[id].drop \/ c.jobs[id].outcome = "ready")
  BY <1>3
<1>5. /\ DOMAIN s = DOMAIN c /\ s.buffers = c.buffers /\ s.retired = c.retired
      /\ s.queue = c.queue /\ s.flight = c.flight /\ s.last = c.last
      /\ DOMAIN s.jobs = Jobs(c)
      /\ s.jobs[id] = [c.jobs[id] EXCEPT !.acked = TRUE, !.drop = drop]
      /\ \A i \in Jobs(c) : i # id => s.jobs[i] = c.jobs[i]
  BY <1>1, <1>3, <1>4 DEF CoreTyped, Jobs
<1>6. Jobs(s) = Jobs(c)
  BY <1>5 DEF Jobs
<1>7. /\ JobTyped(s.jobs[id]) /\ s.jobs[id].acked /\ s.jobs[id].drop = drop
      /\ s.jobs[id].key = c.jobs[id].key /\ s.jobs[id].revision = c.jobs[id].revision
      /\ s.jobs[id].sealed = c.jobs[id].sealed /\ s.jobs[id].phase = c.jobs[id].phase
      /\ s.jobs[id].outcome = c.jobs[id].outcome
      /\ s.jobs[id].source = c.jobs[id].source /\ s.jobs[id].scratch = c.jobs[id].scratch
      /\ s.jobs[id].facts = c.jobs[id].facts
  <2>1. s.jobs[id] = [c.jobs[id] EXCEPT !.acked = TRUE, !.drop = drop]
    BY <1>5
  <2> QED
    BY <1>3, <2>1 DEF JobTyped
<1>8. CoreTyped(s)
  BY <1>3, <1>5, <1>6, <1>7 DEF CoreTyped
<1>9. Relabels(c, s)
  <2>1. Live(c.jobs[id]) <=> Live(s.jobs[id])
    BY <1>4, <1>7 DEF Live, Open, ReadyHeld
  <2>2. c.jobs[id].drop => s.jobs[id].drop
    BY <1>4, <1>7
  <2> QED
    BY <1>5, <1>6, <1>7, <1>8, <2>1, <2>2 DEF Relabels
<1>10. QueueSound(s) /\ FlightSound(s) /\ BudgetSound(s) /\ Eases(c, s)
  BY <1>9, Relabelled
<1>11. ASSUME NEW i \in Jobs(s)
       PROVE  JobSound(s, i)
  <2>1. JobSound(c, i)
    BY <1>6 DEF CoreSound
  <2>2. CASE i = id
    BY <1>5, <1>7, <2>1, <2>2 DEF JobSound, Open
  <2>3. CASE i # id
    BY <1>5, <1>6, <2>1, <2>3 DEF JobSound
  <2> QED
    BY <2>2, <2>3
<1>12. ASSUME NEW k \in DOMAIN s.buffers
       PROVE  BufferSound(s, k)
  <2>1. BufferSound(c, k) /\ s.buffers[k] = c.buffers[k]
    BY <1>5 DEF CoreSound
  <2>2. \A i \in Jobs(c) : /\ s.jobs[i].key = c.jobs[i].key
                           /\ s.jobs[i].revision = c.jobs[i].revision
    BY <1>5, <1>7
  <2> QED
    BY <1>6, <2>1, <2>2 DEF BufferSound
<1>13. CoreSound(s)
  BY <1>8, <1>10, <1>11, <1>12 DEF CoreSound
<1>14. ReadyHeld(s)
  <2>1. ASSUME NEW i \in Jobs(s), s.jobs[i].outcome = "ready", s.jobs[i].acked
        PROVE  s.jobs[i].drop
    <3>1. CASE i = id
      BY <1>4, <1>7, <2>1, <3>1
    <3>2. CASE i # id
      BY <1>5, <1>6, <2>1, <3>2 DEF ReadyHeld
    <3> QED
      BY <3>1, <3>2
  <2> QED
    BY <2>1 DEF ReadyHeld
<1>15. CoreSound(d) /\ ReadyHeld(d) /\ Eases(s, d)
  BY <1>2, <1>13, <1>14, Forgetting
<1>16. d.retired = s.retired
  BY <1>2, <1>8, Forgotten
<1> QED
  BY <1>5, <1>10, <1>15, <1>16, EasesOn

LEMMA Sealing ==
  ASSUME NEW c, CoreSound(c), ReadyHeld(c), NEW id \in Jobs(c),
         c.jobs[id].outcome = "none", NEW d, d = Sealed(c, id)
  PROVE  CoreSound(d) /\ ReadyHeld(d) /\ Eases(c, d) /\ d.retired = c.retired
<1>1. CASE c.jobs[id].sealed
  <2>1. d = c
    BY <1>1 DEF Sealed
  <2> QED
    BY <2>1 DEF Eases
<1>2. CASE ~ c.jobs[id].sealed
  <2>1. d = [c EXCEPT !.jobs[id].sealed = TRUE, !.queue = Append(@, id)]
    BY <1>2 DEF Sealed
  <2>2. CoreTyped(c) /\ JobTyped(c.jobs[id]) /\ JobSound(c, id)
    BY DEF CoreSound, CoreTyped
  <2>3. /\ DOMAIN d = DOMAIN c /\ d.buffers = c.buffers /\ d.retired = c.retired
        /\ d.queue = Append(c.queue, id) /\ d.flight = c.flight /\ d.last = c.last
        /\ DOMAIN d.jobs = Jobs(c)
        /\ d.jobs[id] = [c.jobs[id] EXCEPT !.sealed = TRUE]
        /\ \A i \in Jobs(c) : i # id => d.jobs[i] = c.jobs[i]
    BY <2>1, <2>2 DEF CoreTyped, Jobs
  <2>4. Jobs(d) = Jobs(c)
    BY <2>3 DEF Jobs
  <2>5. /\ JobTyped(d.jobs[id]) /\ d.jobs[id].sealed
        /\ d.jobs[id].key = c.jobs[id].key /\ d.jobs[id].revision = c.jobs[id].revision
        /\ d.jobs[id].acked = c.jobs[id].acked /\ d.jobs[id].phase = c.jobs[id].phase
        /\ d.jobs[id].outcome = c.jobs[id].outcome /\ d.jobs[id].drop = c.jobs[id].drop
        /\ d.jobs[id].source = c.jobs[id].source /\ d.jobs[id].scratch = c.jobs[id].scratch
        /\ d.jobs[id].facts = c.jobs[id].facts
    BY <2>2, <2>3 DEF JobTyped
  <2>6. c.queue \in Seq(Nat) /\ QueueSound(c) /\ id \in Nat /\ Distinct(c.queue)
    BY <2>2 DEF CoreSound, CoreTyped, QueueSound
  <2>7. id \notin Queued(c.queue)
    BY <1>2, <2>6 DEF QueueSound
  <2>8. /\ d.queue \in Seq(Nat) /\ Distinct(d.queue)
        /\ \A y \in Queued(d.queue) : y \in Queued(c.queue) \/ y = id
    <3>1. d.queue = Append(c.queue, id)
      BY <2>3
    <3> QED
      BY <2>6, <2>7, <3>1, AppendedQueue
  <2>9. CoreTyped(d)
    BY <2>2, <2>3, <2>4, <2>5, <2>8 DEF CoreTyped
  <2>10. ASSUME NEW i \in Jobs(d)
         PROVE  JobSound(d, i)
    <3>1. JobSound(c, i)
      BY <2>4 DEF CoreSound
    <3>2. CASE i = id
      <4>1. /\ d.jobs[i].key = c.jobs[i].key /\ d.jobs[i].revision = c.jobs[i].revision
            /\ d.jobs[i].acked = c.jobs[i].acked /\ d.jobs[i].phase = c.jobs[i].phase
            /\ d.jobs[i].outcome = c.jobs[i].outcome /\ d.jobs[i].drop = c.jobs[i].drop
            /\ d.jobs[i].source = c.jobs[i].source /\ d.buffers = c.buffers
        BY <2>3, <2>5, <3>2
      <4> QED
        BY <3>1, <4>1 DEF JobSound, Open
    <3>3. CASE i # id
      <4>1. d.jobs[i] = c.jobs[i] /\ d.buffers = c.buffers
        BY <2>3, <2>4, <3>3
      <4> QED
        BY <3>1, <4>1 DEF JobSound
    <3> QED
      BY <3>2, <3>3
  <2>11. ASSUME NEW k \in DOMAIN d.buffers
         PROVE  BufferSound(d, k)
    <3>1. BufferSound(c, k) /\ d.buffers[k] = c.buffers[k]
      BY <2>3 DEF CoreSound
    <3>2. \A i \in Jobs(c) : /\ d.jobs[i].key = c.jobs[i].key
                             /\ d.jobs[i].revision = c.jobs[i].revision
      BY <2>3, <2>5
    <3> QED
      BY <2>4, <3>1, <3>2 DEF BufferSound
  <2>12. FlightSound(c) /\ ~ Parsing(c, id)
    BY <1>2 DEF CoreSound, FlightSound, Parsing
  <2>13. FlightSound(d)
    <3>1. \A i \in Jobs(c) : /\ d.jobs[i].drop = c.jobs[i].drop
                             /\ d.jobs[i].acked = c.jobs[i].acked
                             /\ d.jobs[i].outcome = c.jobs[i].outcome
                             /\ d.jobs[i].phase = c.jobs[i].phase
                             /\ c.jobs[i].sealed => d.jobs[i].sealed
      BY <2>3, <2>5
    <3> QED
      BY <2>3, <2>4, <2>12, <3>1 DEF FlightSound, Live, Open
  <2>14. QueueSound(d)
    <3>1. ASSUME NEW y \in Queued(d.queue)
          PROVE  /\ y \in Jobs(d) /\ d.jobs[y].sealed /\ d.jobs[y].outcome = "none"
                 /\ ~ Parsing(d, y)
      <4>1. CASE y = id
        BY <2>3, <2>4, <2>5, <2>12, <4>1 DEF Parsing
      <4>2. CASE y # id
        BY <2>3, <2>4, <2>6, <2>8, <4>2 DEF Parsing, QueueSound
      <4> QED
        BY <4>1, <4>2
    <3> QED
      BY <2>8, <3>1 DEF QueueSound
  <2>15. BudgetSound(d)
    <3>1. ASSUME NEW i \in Jobs(c)
          PROVE  /\ d.jobs[i].source = c.jobs[i].source
                 /\ d.jobs[i].scratch = c.jobs[i].scratch
                 /\ d.jobs[i].facts = c.jobs[i].facts
                 /\ c.jobs[i].source \in Nat /\ c.jobs[i].scratch \in Nat
                 /\ c.jobs[i].facts \in Nat
      BY <2>2, <2>3, <2>5 DEF CoreTyped, JobTyped
    <3>2. \A i \in Jobs(d), size \in Sizes : d.jobs[i][size] <= c.jobs[i][size]
      BY <2>4, <3>1 DEF Sizes
    <3>3. BudgetSound(c) /\ Jobs(d) \subseteq Jobs(c) /\ d.flight = c.flight
      BY <2>3, <2>4 DEF CoreSound
    <3> QED
      BY <2>2, <2>9, <3>2, <3>3, BudgetKept
  <2>16. CoreSound(d)
    BY <2>9, <2>10, <2>11, <2>13, <2>14, <2>15 DEF CoreSound
  <2>17. \A i \in Jobs(c) : /\ d.jobs[i].drop = c.jobs[i].drop
                            /\ d.jobs[i].outcome = c.jobs[i].outcome
                            /\ d.jobs[i].acked = c.jobs[i].acked
                            /\ d.jobs[i].revision = c.jobs[i].revision
                            /\ d.jobs[i].source = c.jobs[i].source
                            /\ d.jobs[i].scratch = c.jobs[i].scratch
                            /\ d.jobs[i].facts = c.jobs[i].facts
    BY <2>3, <2>5
  <2>18. ReadyHeld(d)
    BY <2>4, <2>17 DEF ReadyHeld
  <2>19. Eases(c, d)
    BY <2>3, <2>4, <2>17 DEF Eases, Live, Open, Parsing
  <2> QED
    BY <2>3, <2>16, <2>18, <2>19
<1> QED
  BY <1>1, <1>2

-------------------------------------------------------------------------------
(* A request starts a job.                                                 *)

LEMMA WithIs ==
  ASSUME NEW f, NEW x, NEW v, NEW g, g = With(f, x, v)
  PROVE  /\ DOMAIN g = DOMAIN f \cup {x} /\ g[x] = v
         /\ \A y \in DOMAIN f : y # x => g[y] = f[y]
BY DEF With

LEMMA NewJobIs ==
  ASSUME NEW key, NEW revision \in Nat, NEW j, j = NewJob(key, revision)
  PROVE  /\ JobTyped(j) /\ j.key = key /\ j.revision = revision /\ ~ j.acked /\ ~ j.drop
         /\ j.outcome = "none" /\ j.phase = 1 /\ j.source = SourceSize
         /\ j.scratch = 0 /\ j.facts = 0
BY DEF NewJob, JobTyped, Ends, SourceSize

(* From s to d the reducer began one more job.                             *)
Begins(s, d, key, revision) ==
  /\ d.last = s.last + 1 /\ d.last \in Nat /\ d.last \notin Jobs(s)
  /\ Jobs(d) = Jobs(s) \cup {d.last} /\ d.flight = s.flight
  /\ d.jobs[d.last] = NewJob(key, revision)
  /\ \A i \in Jobs(s) : d.jobs[i] = s.jobs[i]

LEMMA BegunUses ==
  ASSUME NEW s, CoreTyped(s), NEW d, CoreTyped(d), NEW key, NEW revision \in Nat,
         Begins(s, d, key, revision), NEW size \in Sizes, NEW S \in SUBSET Jobs(s)
  PROVE  /\ Holds(d, size, S) = Holds(s, size, S)
         /\ Holds(d, size, S \cup {d.last})
              = Holds(s, size, S) + NewJob(key, revision)[size]
<1>1. Holds(d, size, S) = Holds(s, size, S)
  <2>1. \A id \in S : d.jobs[id][size] = s.jobs[id][size]
    BY DEF Begins
  <2> QED
    BY <2>1, HoldsSame
<1>2. PICK T : T = S \cup {d.last}
  OBVIOUS
<1>3. T \in SUBSET Jobs(d) /\ d.last \in T /\ T \ {d.last} = S
  BY <1>2 DEF Begins
<1>4. Holds(d, size, T) = Holds(d, size, T \ {d.last}) + d.jobs[d.last][size]
  BY <1>3, HoldsSplit
<1>5. d.jobs[d.last][size] = NewJob(key, revision)[size]
  BY DEF Begins
<1> QED
  BY <1>1, <1>2, <1>3, <1>4, <1>5

LEMMA Requesting ==
  ASSUME NEW c, CoreSound(c), ReadyHeld(c), NEW key, NEW revision \in Nat,
         ~ RequestRefused(c, key, revision), ~ Repeats(c, key, revision),
         NEW d, d = Requested(c, key, revision)
  PROVE  /\ CoreSound(d) /\ ReadyHeld(d) /\ ~ d.retired
         /\ \E s : CoreSound(s) /\ Eases(c, s) /\ Begins(s, d, key, revision)
<1> DEFINE current == IF key \in DOMAIN c.buffers THEN c.buffers[key].current ELSE 0
<1>1. PICK s : s = IF current = 0 THEN c ELSE Stopped(c, {current}, "superseded")
  OBVIOUS
<1>2. CoreTyped(c)
  BY DEF CoreSound
<1>3. /\ CoreSound(s) /\ ReadyHeld(s) /\ Eases(c, s)
      /\ Jobs(s) = Jobs(c) /\ s.buffers = c.buffers /\ s.flight = c.flight
      /\ s.retired = c.retired
      /\ current # 0 => \A i \in Jobs(c) : i = current =>
                          s.jobs[i].outcome \notin {"none", "ready"}
  <2>1. CASE current = 0
    BY <1>1, <2>1 DEF Eases
  <2>2. CASE current # 0
    <3>1. s = Stopped(c, {current}, "superseded")
      BY <1>1, <2>2
    <3>2. "superseded" \in Ends \ {"none", "ready"}
      BY DEF Ends
    <3> HIDE DEF current
    <3>3. /\ CoreSound(s) /\ ReadyHeld(s) /\ Eases(c, s)
          /\ Jobs(s) = Jobs(c) /\ s.buffers = c.buffers /\ s.flight = c.flight
          /\ s.retired = c.retired
          /\ \A i \in Jobs(c) : i \in {current} => s.jobs[i].outcome \notin {"none", "ready"}
      BY <3>1, <3>2, Stopping
    <3> QED
      BY <3>3
  <2> QED
    BY <2>1, <2>2
<1>4. PICK id : id = c.last + 1
  OBVIOUS
<1>5. CoreTyped(s) /\ s.last = c.last
  BY <1>3 DEF CoreSound, Eases
<1>6. id \in Nat /\ id # 0 /\ id \notin Jobs(s) /\ id > c.last /\ c.last \in Nat
  BY <1>2, <1>3, <1>4 DEF CoreTyped
<1>7. PICK b : b = [revision |-> revision, current |-> id, releasing |-> FALSE]
  OBVIOUS
<1>8. d = [s EXCEPT !.jobs = With(@, id, NewJob(key, revision)),
                    !.buffers = With(@, key, b), !.last = id]
  BY <1>1, <1>4, <1>7 DEF Requested
<1>9. /\ DOMAIN d = DOMAIN s /\ d.queue = s.queue /\ d.flight = s.flight
      /\ d.retired = s.retired /\ d.last = id
      /\ d.jobs = With(s.jobs, id, NewJob(key, revision))
      /\ d.buffers = With(s.buffers, key, b)
  BY <1>5, <1>8 DEF CoreTyped
<1>10. /\ Jobs(d) = Jobs(s) \cup {id} /\ d.jobs[id] = NewJob(key, revision)
       /\ \A i \in Jobs(s) : d.jobs[i] = s.jobs[i]
  <2>1. /\ DOMAIN d.jobs = DOMAIN s.jobs \cup {id} /\ d.jobs[id] = NewJob(key, revision)
        /\ \A y \in DOMAIN s.jobs : y # id => d.jobs[y] = s.jobs[y]
    <3>1. PICK j : j = NewJob(key, revision)
      OBVIOUS
    <3>2. d.jobs = With(s.jobs, id, j)
      BY <1>9, <3>1
    <3> QED
      BY <3>1, <3>2 DEF With
  <2> QED
    BY <1>6, <2>1 DEF Jobs
<1>11. /\ DOMAIN d.buffers = DOMAIN s.buffers \cup {key} /\ d.buffers[key] = b
       /\ \A k \in DOMAIN s.buffers : k # key => d.buffers[k] = s.buffers[k]
  BY <1>9, WithIs
<1>12. /\ JobTyped(d.jobs[id]) /\ d.jobs[id].key = key /\ d.jobs[id].revision = revision
       /\ ~ d.jobs[id].acked /\ ~ d.jobs[id].drop /\ d.jobs[id].outcome = "none"
       /\ d.jobs[id].phase = 1 /\ d.jobs[id].source = SourceSize
       /\ d.jobs[id].scratch = 0 /\ d.jobs[id].facts = 0
  BY <1>10, NewJobIs
<1>13. b \in Buffer /\ b.revision = revision /\ b.current = id /\ ~ b.releasing
  BY <1>6, <1>7 DEF Buffer
<1>14. CoreTyped(d)
  <2>1. Jobs(d) \subseteq 1 .. d.last
    BY <1>5, <1>6, <1>9, <1>10 DEF CoreTyped
  <2>2. \A i \in Jobs(d) : JobTyped(d.jobs[i])
    BY <1>5, <1>10, <1>12 DEF CoreTyped
  <2>3. \A k \in DOMAIN d.buffers : d.buffers[k] \in Buffer
    BY <1>5, <1>11, <1>13 DEF CoreTyped
  <2> QED
    BY <1>5, <1>6, <1>9, <2>1, <2>2, <2>3 DEF CoreTyped
<1>15. \A i \in Jobs(s) : JobSound(s, i) /\ i # 0
  BY <1>3, <1>5 DEF CoreSound, CoreTyped
<1>16. ASSUME NEW i \in Jobs(s), s.jobs[i].key = key
       PROVE  ~ Open(s.jobs[i])
  <2>1. SUFFICES ASSUME Open(s.jobs[i])
                 PROVE  FALSE
    OBVIOUS
  <2>2. key \in DOMAIN c.buffers /\ c.buffers[key].current = i
    BY <1>3, <1>15, <1>16, <2>1 DEF JobSound
  <2>3. current = i /\ current # 0 /\ i \in Jobs(c)
    BY <1>3, <1>15, <2>2
  <2>4. s.jobs[i].outcome \notin {"none", "ready"}
    BY <1>3, <2>3
  <2> QED
    BY <2>1, <2>4 DEF Open
<1> HIDE DEF current
<1>17. ASSUME NEW i \in Jobs(d)
       PROVE  JobSound(d, i)
  <2>1. CASE i = id
    <3>1. 1 \in 1 .. Phases
      BY LimitsAssumption DEF LimitsAssumption
    <3> QED
      BY <1>11, <1>12, <1>13, <2>1, <3>1 DEF JobSound
  <2>2. CASE i # id
    <3>1. i \in Jobs(s) /\ d.jobs[i] = s.jobs[i] /\ JobSound(s, i)
      BY <1>10, <1>15, <2>2
    <3>2. s.jobs[i].key = key => ~ Open(s.jobs[i])
      BY <1>16, <3>1
    <3>3. s.jobs[i].key \in DOMAIN d.buffers
      BY <1>11, <3>1 DEF JobSound
    <3>4. s.jobs[i].key # key => d.buffers[s.jobs[i].key] = s.buffers[s.jobs[i].key]
      BY <1>11, <3>1 DEF JobSound
    <3> QED
      BY <3>1, <3>2, <3>3, <3>4 DEF JobSound, Open
  <2> QED
    BY <2>1, <2>2
<1>18. ASSUME NEW k \in DOMAIN d.buffers
       PROVE  BufferSound(d, k)
  <2>1. CASE k = key
    BY <1>10, <1>11, <1>12, <1>13, <2>1 DEF BufferSound
  <2>2. CASE k # key
    <3>1. k \in DOMAIN s.buffers /\ d.buffers[k] = s.buffers[k] /\ BufferSound(s, k)
      BY <1>3, <1>11, <2>2 DEF CoreSound
    <3> QED
      BY <1>10, <3>1 DEF BufferSound
  <2> QED
    BY <2>1, <2>2
<1>19. QueueSound(d)
  BY <1>3, <1>9, <1>10 DEF CoreSound, QueueSound, Parsing
<1>20. FlightSound(d)
  BY <1>3, <1>9, <1>10 DEF CoreSound, FlightSound
<1>21. Begins(s, d, key, revision)
  BY <1>4, <1>5, <1>6, <1>9, <1>10 DEF Begins
<1>22. BudgetSound(d)
  <2>1. /\ "source" \in Sizes /\ "scratch" \in Sizes /\ "facts" \in Sizes
        /\ Jobs(s) \in SUBSET Jobs(s) /\ Jobs(d) = Jobs(s) \cup {d.last}
    BY <1>9, <1>10 DEF Sizes
  <2>2. PICK j : j = NewJob(key, revision)
    OBVIOUS
  <2>3. j["source"] = 1 /\ j["scratch"] = 0 /\ j["facts"] = 0
    BY <2>2 DEF NewJob, SourceSize
  <2>4. /\ Holds(d, "source", Jobs(d)) = Holds(s, "source", Jobs(s)) + j["source"]
        /\ Holds(d, "scratch", Jobs(d)) = Holds(s, "scratch", Jobs(s)) + j["scratch"]
        /\ Holds(d, "facts", Jobs(d)) = Holds(s, "facts", Jobs(s)) + j["facts"]
    BY <1>5, <1>14, <1>21, <2>1, <2>2, BegunUses
  <2>5. /\ Holds(s, "source", Jobs(s)) \in Nat /\ Holds(s, "scratch", Jobs(s)) \in Nat
        /\ Holds(s, "facts", Jobs(s)) \in Nat
        /\ Holds(c, "source", Jobs(c)) \in Nat
    BY <1>2, <1>5, <2>1, HoldsNat
  <2>6. Holds(s, "source", Jobs(s)) <= Holds(c, "source", Jobs(c))
    <3>1. \A i \in Jobs(s) : s.jobs[i].source = c.jobs[i].source /\ s.jobs[i].source \in Nat
      BY <1>3, <1>5 DEF Eases, CoreTyped, JobTyped
    <3>2. \A i \in Jobs(s) : s.jobs[i]["source"] <= c.jobs[i]["source"]
      BY <3>1
    <3> QED
      BY <1>2, <1>3, <1>5, <2>1, <3>2, HoldsLess
  <2>7. SourceSize <= MaxSource - SourceUsed(c)
    <3>1. Newer(c, key, revision)
      BY DEF RequestRefused
    <3>2. ~ (SourceSize > MaxSource - SourceUsed(c))
      BY <3>1 DEF RequestRefused
    <3>3. SourceUsed(c) \in Nat /\ MaxSource \in Nat
      BY <2>5, UsesAre, LimitsAssumption DEF LimitsAssumption
    <3> QED
      BY <3>2, <3>3 DEF SourceSize
  <2>8. MaxSource \in Nat /\ MaxScratch \in Nat /\ MaxFacts \in Nat
    BY LimitsAssumption DEF LimitsAssumption
  <2>9. SourceUsed(d) <= MaxSource
    BY <2>3, <2>4, <2>5, <2>6, <2>7, <2>8, UsesAre DEF SourceSize
  <2>10. ScratchUsed(d) <= MaxScratch /\ FactsUsed(d) <= MaxFacts
    BY <1>3, <2>3, <2>4, <2>5, UsesAre DEF CoreSound, BudgetSound
  <2>11. ASSUME d.flight.kind = "parse"
         PROVE  /\ Holds(d, "facts", Jobs(d) \ {d.flight.job}) + d.flight.facts <= MaxFacts
                /\ Holds(d, "scratch", Jobs(d) \ {d.flight.job}) + d.flight.scratch
                     <= MaxScratch
    <3>1. /\ s.flight = d.flight /\ s.flight.kind = "parse" /\ s.flight.job \in Jobs(s)
          /\ s.flight.job # d.last
      BY <1>3, <1>6, <1>9, <2>11 DEF CoreSound, FlightSound
    <3>2. PICK S : S = Jobs(s) \ {s.flight.job}
      OBVIOUS
    <3>3. S \in SUBSET Jobs(s) /\ S \cup {d.last} = Jobs(d) \ {d.flight.job}
      BY <1>9, <1>10, <3>1, <3>2
    <3>4. /\ Holds(d, "scratch", S \cup {d.last}) = Holds(s, "scratch", S) + j["scratch"]
          /\ Holds(d, "facts", S \cup {d.last}) = Holds(s, "facts", S) + j["facts"]
      BY <1>5, <1>14, <1>21, <2>1, <2>2, <3>3, BegunUses
    <3>5. Holds(s, "scratch", S) \in Nat /\ Holds(s, "facts", S) \in Nat
      BY <1>5, <2>1, <3>3, HoldsNat
    <3>6. /\ Holds(s, "facts", S) + s.flight.facts <= MaxFacts
          /\ Holds(s, "scratch", S) + s.flight.scratch <= MaxScratch
      BY <1>3, <3>1, <3>2 DEF CoreSound, BudgetSound
    <3> QED
      BY <2>3, <3>1, <3>3, <3>4, <3>5, <3>6
  <2> QED
    BY <2>9, <2>10, <2>11 DEF BudgetSound
<1>23. CoreSound(d)
  BY <1>14, <1>17, <1>18, <1>19, <1>20, <1>22 DEF CoreSound
<1>24. ReadyHeld(d)
  BY <1>3, <1>10, <1>12 DEF ReadyHeld
<1>25. ~ d.retired
  BY <1>3, <1>9 DEF RequestRefused
<1> QED
  BY <1>3, <1>21, <1>23, <1>24, <1>25

-------------------------------------------------------------------------------
(* What is done next.                                                      *)

(* A nonempty set of naturals has a smallest member.                       *)
LEMMA SmallestOf ==
  ASSUME NEW T, T \subseteq Nat, T # {}
  PROVE  Min(T) \in T
<1> DEFINE R == {ss \in Nat \X Nat : ss[1] < ss[2]}
<1>1. IsWellFoundedOn(R, Nat)
  BY NatLessThanWellFounded DEF OpToRel
<1>2. PICK x \in T : \A y \in T : ~ (<<y, x>> \in R)
  <2> HIDE DEF R
  <2> QED
    BY <1>1, WFMin
<1>3. \A y \in T : ~ (y < x)
  BY <1>2
<1>4. \A y \in T : x <= y
  BY <1>3
<1> QED
  BY <1>4 DEF Min

(* From c to d the reducer chose an effect.                                *)
Chooses(c, d) ==
  /\ CoreTyped(d) /\ QueueSound(d) /\ FlightSound(d) /\ BudgetSound(d)
  /\ d.jobs = c.jobs /\ d.buffers = c.buffers /\ d.retired = c.retired
  /\ d.last = c.last
  /\ \A id \in Jobs(c) : Parsing(d, id) => Parsing(c, id) \/ c.jobs[id].outcome = "none"

LEMMA Choosing ==
  ASSUME NEW c, CoreSound(c), ReadyHeld(c), NEW d, Chooses(c, d)
  PROVE  CoreSound(d) /\ ReadyHeld(d) /\ Eases(c, d) /\ d.retired = c.retired
<1>1. Jobs(d) = Jobs(c) /\ d.jobs = c.jobs /\ d.buffers = c.buffers /\ d.retired = c.retired
  BY DEF Chooses, Jobs
<1>2. \A id \in Jobs(d) : JobSound(d, id)
  BY <1>1 DEF CoreSound, JobSound
<1>3. \A k \in DOMAIN d.buffers : BufferSound(d, k)
  BY <1>1 DEF CoreSound, BufferSound
<1>4. CoreSound(d)
  BY <1>2, <1>3 DEF CoreSound, Chooses
<1>5. Eases(c, d) /\ ReadyHeld(d)
  BY <1>1 DEF Eases, ReadyHeld, Chooses
<1> QED
  BY <1>1, <1>4, <1>5

LEMMA DropIssued ==
  ASSUME NEW e, CoreTyped(e), NEW id \in Jobs(e), NEW d, d = Issued(e, id, "drop")
  PROVE  /\ DOMAIN d = DOMAIN e /\ d.jobs = e.jobs /\ d.buffers = e.buffers
         /\ d.queue = e.queue /\ d.retired = e.retired /\ d.last = e.last
         /\ d.flight = [kind |-> "drop", job |-> id, phase |-> 0, scratch |-> 0, facts |-> 0]
<1>1. PICK f : f = [kind |-> "drop", job |-> id, phase |-> 0, scratch |-> 0, facts |-> 0]
  OBVIOUS
<1>2. d = [e EXCEPT !.flight = f]
  BY <1>1 DEF Issued
<1> QED
  BY <1>1, <1>2 DEF CoreTyped

LEMMA PhaseIssued ==
  ASSUME NEW e, CoreTyped(e), NEW id \in Jobs(e), NEW d, d = Issued(e, id, "parse")
  PROVE  /\ DOMAIN d = DOMAIN e /\ d.jobs = e.jobs /\ d.buffers = e.buffers
         /\ d.queue = e.queue /\ d.retired = e.retired /\ d.last = e.last
         /\ d.flight = [kind |-> "parse", job |-> id, phase |-> e.jobs[id].phase,
                      scratch |-> MaxScratch - (ScratchUsed(e) - e.jobs[id].scratch),
                      facts |-> MaxFacts - (FactsUsed(e) - e.jobs[id].facts)]
<1>1. PICK f : f = [kind |-> "parse", job |-> id, phase |-> e.jobs[id].phase,
                    scratch |-> MaxScratch - (ScratchUsed(e) - e.jobs[id].scratch),
                    facts |-> MaxFacts - (FactsUsed(e) - e.jobs[id].facts)]
  OBVIOUS
<1>2. d = [e EXCEPT !.flight = f]
  BY <1>1 DEF Issued
<1> QED
  BY <1>1, <1>2 DEF CoreTyped

LEMMA Planning ==
  ASSUME NEW c, CoreSound(c), ReadyHeld(c), NEW d, d = Planned(c)
  PROVE  CoreSound(d) /\ ReadyHeld(d) /\ Eases(c, d) /\ d.retired = c.retired
<1> DEFINE drops == {id \in Jobs(c) : c.jobs[id].drop}
<1>1. CoreTyped(c) /\ QueueSound(c) /\ FlightSound(c) /\ BudgetSound(c)
  BY DEF CoreSound
<1>2. CASE d = c
  BY <1>1, <1>2, Choosing DEF Chooses
<1>3. CASE c.flight = NoFlight /\ drops # {}
  <2>1. drops \subseteq Nat
    BY <1>1 DEF CoreTyped
  <2>2. PICK id : id = Min(drops)
    OBVIOUS
  <2>3. id \in drops
    <3> HIDE DEF drops
    <3> QED
      BY <1>3, <2>1, <2>2, SmallestOf
  <2>4. d = Issued(c, id, "drop")
    BY <1>3, <2>2 DEF Planned
  <2>5. id \in Jobs(c) /\ c.jobs[id].drop /\ id \in Nat
    BY <2>1, <2>3
  <2> HIDE DEF drops
  <2>6. /\ DOMAIN d = DOMAIN c /\ d.jobs = c.jobs /\ d.buffers = c.buffers
        /\ d.queue = c.queue /\ d.retired = c.retired /\ d.last = c.last
        /\ d.flight = [kind |-> "drop", job |-> id, phase |-> 0, scratch |-> 0, facts |-> 0]
    BY <1>1, <2>4, <2>5, DropIssued
  <2>7. d.flight \in Flight /\ d.flight.kind = "drop" /\ d.flight.job = id
    BY <2>5, <2>6 DEF Flight
  <2>8. Jobs(d) = Jobs(c)
    BY <2>6 DEF Jobs
  <2>9. CoreTyped(d)
    BY <1>1, <2>6, <2>7, <2>8 DEF CoreTyped
  <2>10. QueueSound(d)
    BY <1>1, <2>6, <2>7, <2>8 DEF QueueSound, Parsing
  <2>11. FlightSound(d)
    BY <2>5, <2>6, <2>7, <2>8 DEF FlightSound
  <2>12. BudgetSound(d)
    <3>1. SourceUsed(d) = SourceUsed(c) /\ ScratchUsed(d) = ScratchUsed(c)
          /\ FactsUsed(d) = FactsUsed(c)
      BY <2>6, <2>8 DEF SourceUsed, ScratchUsed, FactsUsed
    <3> QED
      BY <1>1, <2>7, <3>1 DEF BudgetSound
  <2>13. Chooses(c, d)
    BY <2>6, <2>7, <2>9, <2>10, <2>11, <2>12 DEF Chooses, Parsing
  <2> QED
    BY <2>13, Choosing
<1>4. CASE c.flight = NoFlight /\ drops = {} /\ c.queue # <<>> /\ d # c
  <2>1. PICK e : e = [c EXCEPT !.queue = Tail(@)]
    OBVIOUS
  <2>2. PICK id : id = Head(c.queue)
    OBVIOUS
  <2>3. d = Issued(e, id, "parse")
    BY <1>4, <2>1, <2>2 DEF Planned
  <2>4. /\ DOMAIN e = DOMAIN c /\ e.jobs = c.jobs /\ e.buffers = c.buffers
        /\ e.queue = Tail(c.queue) /\ e.retired = c.retired /\ e.last = c.last
        /\ e.flight = c.flight /\ Jobs(e) = Jobs(c)
    BY <1>1, <2>1 DEF CoreTyped, Jobs
  <2>5. c.queue \in Seq(Nat) /\ Distinct(c.queue)
    BY <1>1 DEF CoreTyped, QueueSound
  <2>6. /\ e.queue \in Seq(Nat) /\ Distinct(e.queue) /\ id \in Queued(c.queue)
        /\ Queued(e.queue) \subseteq Queued(c.queue) \ {id}
    BY <1>4, <2>2, <2>4, <2>5, ServedQueue
  <2>7. /\ id \in Jobs(c) /\ c.jobs[id].sealed /\ c.jobs[id].outcome = "none"
        /\ ~ c.jobs[id].acked
    BY <1>1, <2>6 DEF QueueSound, CoreSound, JobSound
  <2>8. CoreTyped(e)
    BY <1>1, <2>4, <2>6 DEF CoreTyped
  <2>9. /\ DOMAIN d = DOMAIN e /\ d.jobs = e.jobs /\ d.buffers = e.buffers
        /\ d.queue = e.queue /\ d.retired = e.retired /\ d.last = e.last
        /\ d.flight = [kind |-> "parse", job |-> id, phase |-> e.jobs[id].phase,
                       scratch |-> MaxScratch - (ScratchUsed(e) - e.jobs[id].scratch),
                       facts |-> MaxFacts - (FactsUsed(e) - e.jobs[id].facts)]
    BY <2>3, <2>4, <2>7, <2>8, PhaseIssued
  <2>10. Jobs(d) = Jobs(c) /\ d.jobs = c.jobs
    BY <2>4, <2>9 DEF Jobs
  <2>11. /\ ScratchUsed(e) = ScratchUsed(c) /\ ScratchUsed(d) = ScratchUsed(c)
         /\ FactsUsed(e) = FactsUsed(c) /\ FactsUsed(d) = FactsUsed(c)
         /\ SourceUsed(d) = SourceUsed(c)
    BY <2>4, <2>10 DEF SourceUsed, ScratchUsed, FactsUsed
  <2> DEFINE a == Holds(c, "scratch", Jobs(c) \ {id})
             b == Holds(c, "facts", Jobs(c) \ {id})
             x == c.jobs[id].scratch
             y == c.jobs[id].facts
  <2>12. /\ a \in Nat /\ b \in Nat /\ x \in Nat /\ y \in Nat
         /\ ScratchUsed(c) = a + x /\ FactsUsed(c) = b + y
    <3>1. /\ "scratch" \in Sizes /\ "facts" \in Sizes /\ Jobs(c) \in SUBSET Jobs(c)
          /\ Jobs(c) \ {id} \in SUBSET Jobs(c)
      BY DEF Sizes
    <3>2. x \in Nat /\ y \in Nat
      BY <1>1, <2>7 DEF CoreTyped, JobTyped
    <3>3. a \in Nat /\ b \in Nat
      BY <1>1, <3>1, HoldsNat
    <3>4. /\ Holds(c, "scratch", Jobs(c)) = a + c.jobs[id]["scratch"]
          /\ Holds(c, "facts", Jobs(c)) = b + c.jobs[id]["facts"]
      BY <1>1, <2>7, <3>1, HoldsSplit
    <3> QED
      BY <3>2, <3>3, <3>4, UsesAre
  <2>13. /\ MaxScratch \in Nat /\ MaxFacts \in Nat
         /\ a + x <= MaxScratch /\ b + y <= MaxFacts
    BY <1>1, <2>12, LimitsAssumption DEF BudgetSound, LimitsAssumption
  <2>14. /\ d.flight.kind = "parse" /\ d.flight.job = id
         /\ d.flight.phase = c.jobs[id].phase
         /\ d.flight.scratch = MaxScratch - (a + x - x)
         /\ d.flight.facts = MaxFacts - (b + y - y)
         /\ DOMAIN d.flight = {"kind", "job", "phase", "scratch", "facts"}
    BY <2>4, <2>9, <2>11, <2>12
  <2>15. /\ Holds(d, "scratch", Jobs(d) \ {d.flight.job}) = a
         /\ Holds(d, "facts", Jobs(d) \ {d.flight.job}) = b
    BY <2>10, <2>14 DEF Holds
  <2> HIDE DEF a, b, x, y
  <2>16. /\ d.flight.scratch = MaxScratch - a /\ d.flight.scratch \in Nat
         /\ d.flight.facts = MaxFacts - b /\ d.flight.facts \in Nat
    BY <2>12, <2>13, <2>14
  <2>17. d.flight \in Flight
    <3>1. id \in Nat /\ c.jobs[id].phase \in Nat
      BY <1>1, <2>7 DEF CoreTyped, JobTyped
    <3>2. PICK f : f = d.flight
      OBVIOUS
    <3>3. f = [kind |-> "parse", job |-> id, phase |-> c.jobs[id].phase,
               scratch |-> f.scratch, facts |-> f.facts]
      BY <2>4, <2>9, <2>14, <3>2
    <3> QED
      BY <2>16, <3>1, <3>2, <3>3 DEF Flight
  <2>18. CoreTyped(d)
    BY <2>4, <2>8, <2>9, <2>10, <2>17 DEF CoreTyped
  <2>19. QueueSound(d)
    BY <1>1, <2>6, <2>9, <2>10, <2>14 DEF QueueSound, Parsing
  <2>20. FlightSound(d)
    BY <2>7, <2>10, <2>14 DEF FlightSound, Live, Open
  <2>21. BudgetSound(d)
    BY <1>1, <2>11, <2>12, <2>13, <2>15, <2>16 DEF BudgetSound
  <2>22. Chooses(c, d)
    BY <2>4, <2>7, <2>9, <2>14, <2>18, <2>19, <2>20, <2>21 DEF Chooses, Parsing
  <2> QED
    BY <2>22, Choosing
<1>5. d # c => c.flight = NoFlight /\ (drops # {} \/ c.queue # <<>>)
  BY DEF Planned
<1> QED
  BY <1>2, <1>3, <1>4, <1>5

-------------------------------------------------------------------------------
(* What the host holds for the jobs.                                       *)

Handle == [input : {"none", "upload", "parser"}, frame : Nat, scratch : Nat,
           facts : Nat, encoded : Nat]

(* The host holds no more for a job than the job is charged for; there are *)
(* facts to read only after the last phase.                                *)
HandleSound(c, h, id) ==
  /\ h[id] \in Handle
  /\ Held(h[id]) <= c.jobs[id].source
  /\ h[id].scratch <= c.jobs[id].scratch
  /\ h[id].facts <= c.jobs[id].facts
  /\ c.jobs[id].outcome = "none" \/ Parsing(c, id) => h[id].encoded = 0
  /\ h[id].encoded # 0 => h[id].encoded = h[id].facts

Transfers(h) == Total([id \in DOMAIN h |-> h[id].frame + h[id].encoded])

HandlesSound(c, h) ==
  /\ DOMAIN h = {id \in Jobs(c) : Live(c.jobs[id])}
  /\ \A id \in DOMAIN h : HandleSound(c, h, id)
  /\ ScratchUsed(c) + Transfers(h) <= MaxScratch

LEMMA TransfersNat ==
  ASSUME NEW S, IsFiniteSet(S), NEW h, DOMAIN h = S, \A id \in S : h[id] \in Handle
  PROVE  Transfers(h) \in Nat
<1> DEFINE f == [id \in DOMAIN h |-> h[id].frame + h[id].encoded]
<1>1. f \in [S -> Nat]
  BY DEF Handle
<1>2. Total(f) \in Nat
  <2> HIDE DEF f
  <2> QED
    BY <1>1, TotalNat
<1> QED
  BY <1>2 DEF Transfers

(* Fewer transfers, or the same ones.                                      *)
LEMMA TransfersLess ==
  ASSUME NEW S, IsFiniteSet(S), NEW h, DOMAIN h = S, \A id \in S : h[id] \in Handle,
         NEW g, DOMAIN g \subseteq S, \A id \in DOMAIN g : g[id] \in Handle,
         \A id \in DOMAIN g : /\ g[id].frame <= h[id].frame
                              /\ g[id].encoded <= h[id].encoded
  PROVE  Transfers(g) \in Nat /\ Transfers(g) <= Transfers(h)
<1> DEFINE f == [id \in DOMAIN h |-> h[id].frame + h[id].encoded]
           e == [id \in DOMAIN g |-> g[id].frame + g[id].encoded]
<1>1. f \in [S -> Nat] /\ e \in [DOMAIN g -> Nat]
  BY DEF Handle
<1>2. \A id \in DOMAIN g : e[id] <= f[id]
  BY DEF Handle
<1>3. Total(e) \in Nat /\ Total(e) <= Total(f)
  <2>1. PICK R \in SUBSET S : R = DOMAIN g
    OBVIOUS
  <2>2. e \in [R -> Nat] /\ \A id \in R : e[id] <= f[id]
    BY <1>1, <1>2, <2>1
  <2> HIDE DEF e, f
  <2> QED
    BY <1>1, <2>2, TotalLess
<1> QED
  BY <1>3 DEF Transfers

(* One of them changes.                                                    *)
LEMMA TransfersOfOne ==
  ASSUME NEW S, IsFiniteSet(S), NEW x \in S,
         NEW h, DOMAIN h = S, \A id \in S : h[id] \in Handle,
         NEW g, DOMAIN g = S, \A id \in S : g[id] \in Handle,
         \A id \in S \ {x} : g[id] = h[id]
  PROVE  Transfers(g) + (h[x].frame + h[x].encoded)
           = Transfers(h) + (g[x].frame + g[x].encoded)
<1> DEFINE f == [id \in DOMAIN h |-> h[id].frame + h[id].encoded]
           e == [id \in DOMAIN g |-> g[id].frame + g[id].encoded]
           r == [id \in S \ {x} |-> h[id].frame + h[id].encoded]
<1>1. f \in [S -> Nat] /\ e \in [S -> Nat] /\ r \in [S \ {x} -> Nat]
  BY DEF Handle
<1>2. \A id \in S \ {x} : r[id] = f[id] /\ r[id] = e[id]
  OBVIOUS
<1>3. f[x] = h[x].frame + h[x].encoded /\ e[x] = g[x].frame + g[x].encoded
  OBVIOUS
<1>4. f[x] \in Nat /\ e[x] \in Nat
  BY <1>1
<1>5. Transfers(h) = Total(f) /\ Transfers(g) = Total(e)
  BY DEF Transfers
<1> HIDE DEF e, f, r
<1>6. Total(f) = Total(r) + f[x] /\ Total(r) \in Nat
  BY <1>1, <1>2, TotalSplit
<1>7. Total(e) = Total(r) + e[x]
  BY <1>1, <1>2, TotalSplit
<1> QED
  BY <1>3, <1>4, <1>5, <1>6, <1>7

(* The host holds something for finitely many jobs.                        *)
LEMMA HandlesAre ==
  ASSUME NEW c, CoreTyped(c), NEW h, HandlesSound(c, h)
  PROVE  /\ DOMAIN h \subseteq Jobs(c) /\ IsFiniteSet(DOMAIN h)
         /\ \A id \in DOMAIN h : h[id] \in Handle /\ HandleSound(c, h, id)
         /\ Transfers(h) \in Nat /\ ScratchUsed(c) \in Nat
         /\ ScratchUsed(c) + Transfers(h) <= MaxScratch
         /\ MaxScratch \in Nat
<1>1. DOMAIN h \subseteq Jobs(c) /\ IsFiniteSet(DOMAIN h)
  BY FinitelyMany DEF HandlesSound
<1>2. \A id \in DOMAIN h : h[id] \in Handle /\ HandleSound(c, h, id)
  BY DEF HandlesSound, HandleSound
<1>3. Transfers(h) \in Nat
  BY <1>1, <1>2, TransfersNat
<1>4. "scratch" \in Sizes /\ Jobs(c) \in SUBSET Jobs(c)
  BY DEF Sizes
<1>5. ScratchUsed(c) \in Nat
  BY <1>4, HoldsNat, UsesAre
<1>6. MaxScratch \in Nat /\ ScratchUsed(c) + Transfers(h) <= MaxScratch
  BY LimitsAssumption DEF LimitsAssumption, HandlesSound
<1> QED
  BY <1>1, <1>2, <1>3, <1>5, <1>6

(* A reducer that only ends and forgets jobs leaves the host as it is.     *)
LEMMA HandlesEased ==
  ASSUME NEW c, CoreTyped(c), NEW d, CoreTyped(d), Eases(c, d), NEW h, HandlesSound(c, h)
  PROVE  HandlesSound(d, h)
<1>1. DOMAIN h = {id \in Jobs(d) : Live(d.jobs[id])}
  BY DEF HandlesSound, Eases
<1>2. ASSUME NEW id \in DOMAIN h
      PROVE  HandleSound(d, h, id)
  <2>1. id \in Jobs(d) /\ HandleSound(c, h, id)
    BY <1>1 DEF HandlesSound
  <2>2. /\ d.jobs[id].source = c.jobs[id].source
        /\ d.jobs[id].scratch = c.jobs[id].scratch
        /\ d.jobs[id].facts = c.jobs[id].facts
        /\ d.jobs[id].outcome = "none" \/ Parsing(d, id) =>
             c.jobs[id].outcome = "none" \/ Parsing(c, id)
    BY <2>1 DEF Eases
  <2> QED
    BY <2>1, <2>2 DEF HandleSound
<1>3. ScratchUsed(d) <= ScratchUsed(c) /\ ScratchUsed(d) \in Nat
  <2>1. /\ "scratch" \in Sizes /\ Jobs(c) \in SUBSET Jobs(c) /\ Jobs(d) \in SUBSET Jobs(c)
        /\ Jobs(d) \subseteq Jobs(d)
    BY DEF Sizes, Eases
  <2>2. \A id \in Jobs(d) : d.jobs[id]["scratch"] <= c.jobs[id]["scratch"]
    BY DEF Eases, CoreTyped, JobTyped
  <2>3. Holds(d, "scratch", Jobs(d)) <= Holds(c, "scratch", Jobs(c))
    BY <2>1, <2>2, HoldsLess
  <2>4. Holds(d, "scratch", Jobs(d)) \in Nat
    BY <2>1, HoldsNat
  <2> QED
    BY <2>3, <2>4, UsesAre
<1>4. ScratchUsed(d) + Transfers(h) <= MaxScratch
  BY <1>3, HandlesAre
<1> QED
  BY <1>1, <1>2, <1>4 DEF HandlesSound

(* A handle that changes while the reducer stays as it is.                 *)
LEMMA HandleChanged ==
  ASSUME NEW c, CoreTyped(c), NEW h, HandlesSound(c, h), NEW id \in DOMAIN h,
         NEW g, DOMAIN g = DOMAIN h, \A i \in DOMAIN h : i # id => g[i] = h[i],
         HandleSound(c, g, id),
         g[id].frame + g[id].encoded <=
           h[id].frame + h[id].encoded + (MaxScratch - ScratchUsed(c) - Transfers(h))
  PROVE  HandlesSound(c, g)
<1>1. /\ IsFiniteSet(DOMAIN h) /\ \A i \in DOMAIN h : h[i] \in Handle
      /\ Transfers(h) \in Nat /\ ScratchUsed(c) \in Nat /\ MaxScratch \in Nat
  BY HandlesAre
<1>2. \A i \in DOMAIN h : HandleSound(c, g, i)
  BY DEF HandlesSound, HandleSound
<1>3. \A i \in DOMAIN h : g[i] \in Handle
  BY <1>2 DEF HandleSound
<1>4. Transfers(g) + (h[id].frame + h[id].encoded)
        = Transfers(h) + (g[id].frame + g[id].encoded)
  BY <1>1, <1>3, TransfersOfOne
<1>5. Transfers(g) \in Nat
  BY <1>1, <1>3, TransfersNat
<1>6. /\ h[id].frame \in Nat /\ h[id].encoded \in Nat
      /\ g[id].frame \in Nat /\ g[id].encoded \in Nat
  BY <1>1, <1>3 DEF Handle
<1>7. ScratchUsed(c) + Transfers(g) <= MaxScratch
  BY <1>1, <1>4, <1>5, <1>6
<1> QED
  BY <1>2, <1>7 DEF HandlesSound

-------------------------------------------------------------------------------
(* An effect has been executed.                                            *)

(* Jobs the windows know of are what they were.                            *)
Extends(c, d) ==
  /\ 1 .. c.last \subseteq 1 .. d.last
  /\ \A id \in Jobs(d) : id \in 1 .. c.last =>
       id \in Jobs(c) /\ d.jobs[id].revision = c.jobs[id].revision

LEMMA EasedExtends ==
  ASSUME NEW c, NEW d, Eases(c, d)
  PROVE  Extends(c, d)
BY DEF Eases, Extends

(* The completion of an effect for job id, before anything is forgotten.   *)
Completes(c, e, id, j, queue) ==
  /\ DOMAIN e = DOMAIN c /\ e.buffers = c.buffers /\ e.retired = c.retired
  /\ e.last = c.last /\ e.flight = NoFlight /\ e.queue = queue
  /\ DOMAIN e.jobs = DOMAIN c.jobs /\ e.jobs[id] = j
  /\ \A i \in Jobs(c) : i # id => e.jobs[i] = c.jobs[i]

(* What may become of a job.                                               *)
Follows(c, id, j, queue) ==
  LET k == c.jobs[id]
  IN  /\ JobTyped(j) /\ j.key = k.key /\ j.revision = k.revision
      /\ Open(j) => Open(k) /\ ~ j.drop
      /\ j.outcome = "none" => /\ k.outcome = "none" /\ ~ j.acked
                               /\ j.source = SourceSize /\ j.phase \in 1 .. Phases
      /\ queue \in Seq(Nat) /\ Distinct(queue)
      /\ \A i \in Queued(queue) : /\ i # id => i \in Queued(c.queue)
                                  /\ i = id => j.sealed /\ j.outcome = "none"
      /\ j.source <= k.source
      /\ Holds(c, "facts", Jobs(c) \ {id}) + j.facts <= MaxFacts
      /\ Holds(c, "scratch", Jobs(c) \ {id}) + j.scratch <= MaxScratch

(* The reducer is sound then, and has changed in this job only.            *)
CompletedTo(c, e, id, j) ==
  /\ CoreSound(e) /\ Jobs(e) = Jobs(c) /\ e.jobs[id] = j
  /\ \A i \in Jobs(c) : i # id => e.jobs[i] = c.jobs[i]
  /\ ScratchUsed(e) = Holds(c, "scratch", Jobs(c) \ {id}) + j.scratch
  /\ e.flight = NoFlight /\ e.last = c.last /\ e.retired = c.retired

LEMMA Completed ==
  ASSUME NEW c, CoreSound(c), NEW id \in Jobs(c), c.flight.job = id, NEW j, NEW queue,
         Follows(c, id, j, queue), NEW e, Completes(c, e, id, j, queue)
  PROVE  CompletedTo(c, e, id, j)
<1>1. CoreTyped(c)
  BY DEF CoreSound
<1>2. Jobs(e) = Jobs(c)
  BY DEF Jobs, Completes
<1>3. /\ DOMAIN e = DOMAIN c /\ e.buffers = c.buffers /\ e.retired = c.retired
      /\ e.last = c.last /\ e.flight = NoFlight /\ e.queue = queue
      /\ e.jobs[id] = j
      /\ \A i \in Jobs(c) : i # id => e.jobs[i] = c.jobs[i]
  BY DEF Completes
<1>4. NoFlight \in Flight /\ NoFlight.kind = "none"
  BY DEF NoFlight, Flight
<1>5. CoreTyped(e)
  <2>1. \A i \in Jobs(e) : JobTyped(e.jobs[i])
    BY <1>1, <1>2, <1>3 DEF CoreTyped, Follows
  <2> QED
    BY <1>1, <1>2, <1>3, <1>4, <2>1 DEF CoreTyped, Follows
<1>6. ASSUME NEW i \in Jobs(e)
      PROVE  JobSound(e, i)
  <2>1. JobSound(c, i)
    BY <1>2 DEF CoreSound
  <2>2. CASE i = id
    BY <1>3, <2>1, <2>2 DEF JobSound, Follows
  <2>3. CASE i # id
    BY <1>2, <1>3, <2>1, <2>3 DEF JobSound
  <2> QED
    BY <2>2, <2>3
<1>7. ASSUME NEW k \in DOMAIN e.buffers
      PROVE  BufferSound(e, k)
  <2>1. BufferSound(c, k)
    BY <1>3 DEF CoreSound
  <2>2. \A i \in Jobs(c) : /\ e.jobs[i].key = c.jobs[i].key
                           /\ e.jobs[i].revision = c.jobs[i].revision
    BY <1>3 DEF Follows
  <2> QED
    BY <1>2, <1>3, <2>1, <2>2 DEF BufferSound
<1>8. QueueSound(e)
  <2>1. QueueSound(c)
    BY DEF CoreSound
  <2>2. ASSUME NEW i \in Queued(e.queue)
        PROVE  /\ i \in Jobs(e) /\ e.jobs[i].sealed /\ e.jobs[i].outcome = "none"
               /\ ~ Parsing(e, i)
    <3>1. CASE i = id
      BY <1>2, <1>3, <1>4, <2>2, <3>1 DEF Follows, Parsing
    <3>2. CASE i # id
      <4>1. i \in Queued(c.queue)
        BY <1>3, <2>2, <3>2 DEF Follows
      <4> QED
        BY <1>2, <1>3, <1>4, <2>1, <3>2, <4>1 DEF QueueSound, Parsing
    <3> QED
      BY <3>1, <3>2
  <2>3. Distinct(e.queue)
    BY <1>3 DEF Follows
  <2> QED
    BY <2>2, <2>3 DEF QueueSound
<1>9. FlightSound(e)
  BY <1>3, <1>4 DEF FlightSound
<1>10. /\ "source" \in Sizes /\ "scratch" \in Sizes /\ "facts" \in Sizes
       /\ Jobs(c) \in SUBSET Jobs(c) /\ Jobs(e) \in SUBSET Jobs(e)
       /\ Jobs(c) \ {id} \in SUBSET Jobs(c)
  BY DEF Sizes
<1>11. ASSUME NEW size \in Sizes
       PROVE  /\ Holds(e, size, Jobs(e)) = Holds(c, size, Jobs(c) \ {id}) + j[size]
              /\ Holds(c, size, Jobs(c)) = Holds(c, size, Jobs(c) \ {id}) + c.jobs[id][size]
              /\ Holds(c, size, Jobs(c) \ {id}) \in Nat
  <2>1. Holds(e, size, Jobs(e) \ {id}) = Holds(c, size, Jobs(c) \ {id})
    <3>1. \A i \in Jobs(c) \ {id} : e.jobs[i][size] = c.jobs[i][size]
      BY <1>3
    <3> QED
      BY <1>2, <3>1, HoldsSame
  <2>2. Holds(e, size, Jobs(e)) = Holds(e, size, Jobs(e) \ {id}) + e.jobs[id][size]
    BY <1>2, <1>5, <1>10, HoldsSplit
  <2>3. Holds(c, size, Jobs(c)) = Holds(c, size, Jobs(c) \ {id}) + c.jobs[id][size]
    BY <1>1, <1>10, HoldsSplit
  <2>4. Holds(c, size, Jobs(c) \ {id}) \in Nat
    BY <1>1, <1>10, HoldsNat
  <2> QED
    BY <1>3, <2>1, <2>2, <2>3, <2>4
<1>12. BudgetSound(e)
  <2>1. /\ j["source"] = j.source /\ j["scratch"] = j.scratch /\ j["facts"] = j.facts
        /\ c.jobs[id]["source"] = c.jobs[id].source
        /\ j.source \in Nat /\ c.jobs[id].source \in Nat
    BY <1>1 DEF Follows, JobTyped, CoreTyped
  <2>2. SourceUsed(c) <= MaxSource /\ MaxSource \in Nat
    BY LimitsAssumption DEF CoreSound, BudgetSound, LimitsAssumption
  <2>3. SourceUsed(e) <= MaxSource
    <3>1. /\ SourceUsed(e) = Holds(c, "source", Jobs(c) \ {id}) + j.source
          /\ SourceUsed(c) = Holds(c, "source", Jobs(c) \ {id}) + c.jobs[id].source
          /\ Holds(c, "source", Jobs(c) \ {id}) \in Nat
      BY <1>10, <1>11, <2>1, UsesAre
    <3>2. j.source <= c.jobs[id].source
      BY DEF Follows
    <3> QED
      BY <2>1, <2>2, <3>1, <3>2
  <2>4. FactsUsed(e) <= MaxFacts /\ ScratchUsed(e) <= MaxScratch
    BY <1>10, <1>11, UsesAre DEF Follows
  <2> QED
    BY <1>3, <1>4, <2>3, <2>4 DEF BudgetSound
<1>13. ScratchUsed(e) = Holds(c, "scratch", Jobs(c) \ {id}) + j.scratch
  BY <1>10, <1>11, UsesAre
<1>14. CoreSound(e)
  BY <1>5, <1>6, <1>7, <1>8, <1>9, <1>12 DEF CoreSound
<1> QED
  BY <1>2, <1>3, <1>13, <1>14 DEF CompletedTo

(* The host holds for the job what it is charged for now.                  *)
Keeping(c, h, id, j, g) ==
  /\ Live(j) => /\ DOMAIN g = DOMAIN h
                /\ g[id] \in Handle
                /\ Held(g[id]) <= j.source
                /\ g[id].scratch <= j.scratch /\ g[id].facts <= j.facts
                /\ g[id].encoded = 0
  /\ ~ Live(j) => DOMAIN g = DOMAIN h \ {id}
  /\ j.outcome = "ready" /\ j.acked =>
       j.drop \/ (j.source = 0 /\ j.scratch = 0 /\ j.facts = 0)
  /\ \A i \in DOMAIN h : i # id => g[i] = h[i]
  /\ Holds(c, "scratch", Jobs(c) \ {id}) + j.scratch + Transfers(g) <= MaxScratch

LEMMA Completing ==
  ASSUME NEW c, CoreSound(c), ReadyHeld(c), NoneLeft(c), NEW h, HandlesSound(c, h),
         NEW id \in Jobs(c), c.flight.job = id, id \in DOMAIN h, NEW j, NEW queue,
         Follows(c, id, j, queue), NEW e, Completes(c, e, id, j, queue),
         NEW g, Keeping(c, h, id, j, g),
         NEW d, d = RemovedReleased(e, {id})
  PROVE  /\ CoreSound(d) /\ ReadyHeld(d) /\ NoneLeft(d) /\ HandlesSound(d, g)
         /\ Extends(c, d)
<1>1. /\ CoreSound(e) /\ Jobs(e) = Jobs(c) /\ e.jobs[id] = j
      /\ \A i \in Jobs(c) : i # id => e.jobs[i] = c.jobs[i]
      /\ ScratchUsed(e) = Holds(c, "scratch", Jobs(c) \ {id}) + j.scratch
      /\ e.flight = NoFlight /\ e.last = c.last /\ e.retired = c.retired
  <2>1. CompletedTo(c, e, id, j)
    BY Completed
  <2> QED
    BY <2>1 DEF CompletedTo
<1>2. /\ CoreSound(d) /\ Eases(e, d) /\ Jobs(d) \subseteq Jobs(e)
      /\ \A i \in Jobs(d) : d.jobs[i] = e.jobs[i]
      /\ \A i \in Jobs(e) : i \in {id} /\ MayGo(e, i) => i \notin Jobs(d)
  BY <1>1, Forgetting
<1>3. CoreSound(d) /\ ReadyHeld(d) /\ Eases(e, d)
  <2>1. ASSUME NEW i \in Jobs(d), d.jobs[i].outcome = "ready", d.jobs[i].acked
        PROVE  d.jobs[i].drop
    <3>1. CASE i = id
      <4>1. d.jobs[i] = j /\ ~ MayGo(e, id)
        BY <1>1, <1>2, <3>1
      <4>2. id # 0
        BY DEF CoreSound, CoreTyped
      <4> QED
        BY <1>1, <2>1, <4>1, <4>2 DEF MayGo, NoFlight, Keeping
    <3>2. CASE i # id
      BY <1>1, <1>2, <2>1, <3>2 DEF ReadyHeld
    <3> QED
      BY <3>1, <3>2
  <2> QED
    BY <1>2, <2>1 DEF ReadyHeld
<1>4. CoreTyped(c) /\ CoreTyped(e) /\ CoreTyped(d)
  BY <1>1, <1>3 DEF CoreSound
<1>5. d.retired = e.retired
  BY <1>4, Forgotten
<1>6. \A i \in Jobs(e) : e.jobs[i].outcome = "none" => c.jobs[i].outcome = "none"
  BY <1>1 DEF Follows
<1>7. NoneLeft(d)
  BY <1>1, <1>3, <1>5, <1>6 DEF NoneLeft, Eases
<1>8. HandlesSound(e, g)
  <2>1. DOMAIN h = {i \in Jobs(c) : Live(c.jobs[i])}
    BY DEF HandlesSound
  <2>2. DOMAIN g = {i \in Jobs(e) : Live(e.jobs[i])}
    <3>1. CASE Live(j)
      BY <1>1, <2>1, <3>1 DEF Keeping
    <3>2. CASE ~ Live(j)
      BY <1>1, <2>1, <3>2 DEF Keeping
    <3> QED
      BY <3>1, <3>2
  <2>3. ASSUME NEW i \in DOMAIN g
        PROVE  HandleSound(e, g, i)
    <3>1. CASE i = id
      <4>1. Live(j)
        BY <1>1, <2>2, <3>1
      <4> QED
        BY <1>1, <3>1, <4>1 DEF Keeping, HandleSound
    <3>2. CASE i # id
      <4>1. i \in DOMAIN h /\ g[i] = h[i] /\ e.jobs[i] = c.jobs[i] /\ HandleSound(c, h, i)
        BY <1>1, <2>1, <2>2, <3>2 DEF Keeping, HandlesSound
      <4>2. ~ Parsing(e, i)
        BY <1>1 DEF Parsing, NoFlight
      <4> QED
        BY <4>1, <4>2 DEF HandleSound
    <3> QED
      BY <3>1, <3>2
  <2>4. ScratchUsed(e) + Transfers(g) <= MaxScratch
    BY <1>1 DEF Keeping
  <2> QED
    BY <2>2, <2>3, <2>4 DEF HandlesSound
<1>9. HandlesSound(d, g)
  BY <1>3, <1>4, <1>8, HandlesEased
<1>10. Extends(c, d)
  <2>1. Extends(e, d)
    BY <1>3, EasedExtends
  <2>2. \A i \in Jobs(c) : e.jobs[i].revision = c.jobs[i].revision
    BY <1>1 DEF Follows
  <2> QED
    BY <1>1, <2>1, <2>2 DEF Extends
<1> QED
  BY <1>3, <1>7, <1>9, <1>10

-------------------------------------------------------------------------------
(* The four ways an effect ends.                                           *)

(* The reducer with another record for a job and another queue.            *)
Altered(c, x, id, j, queue) ==
  /\ DOMAIN x = DOMAIN c /\ x.buffers = c.buffers /\ x.retired = c.retired
  /\ x.last = c.last /\ x.flight = c.flight /\ x.queue = queue
  /\ DOMAIN x.jobs = DOMAIN c.jobs /\ x.jobs[id] = j
  /\ \A i \in Jobs(c) : i # id => x.jobs[i] = c.jobs[i]

Finished(c, d, g) ==
  /\ CoreSound(d) /\ ReadyHeld(d) /\ NoneLeft(d) /\ HandlesSound(d, g)
  /\ Extends(c, d)

LEMMA Finishing ==
  ASSUME NEW c, CoreSound(c), ReadyHeld(c), NoneLeft(c), NEW h, HandlesSound(c, h),
         NEW id \in Jobs(c), c.flight.job = id, id \in DOMAIN h, NEW j, NEW queue,
         Follows(c, id, j, queue), NEW x, Altered(c, x, id, j, queue),
         NEW g, Keeping(c, h, id, j, g),
         NEW d, d = Settled(x)
  PROVE  Finished(c, d, g)
<1>1. PICK e : e = [x EXCEPT !.flight = NoFlight]
  OBVIOUS
<1>2. d = RemovedReleased(e, {id})
  BY <1>1 DEF Settled, Altered
<1>3. CoreTyped(c)
  BY DEF CoreSound
<1>4. Completes(c, e, id, j, queue)
  BY <1>1, <1>3 DEF Altered, Completes, CoreTyped
<1>5. /\ CoreSound(d) /\ ReadyHeld(d) /\ NoneLeft(d) /\ HandlesSound(d, g)
      /\ Extends(c, d)
  BY <1>2, <1>4, Completing
<1> QED
  BY <1>5 DEF Finished

LEMMA UnusedIs ==
  ASSUME NEW c, CoreTyped(c), NEW id \in Jobs(c), NEW u, u = Unused(c, id), NEW j,
         j = [c.jobs[id] EXCEPT !.source = 0, !.scratch = 0, !.facts = 0]
  PROVE  Altered(c, u, id, j, c.queue)
<1>1. u = [c EXCEPT !.jobs[id].source = 0, !.jobs[id].scratch = 0, !.jobs[id].facts = 0]
  BY DEF Unused
<1>2. /\ DOMAIN u = DOMAIN c /\ u.buffers = c.buffers /\ u.retired = c.retired
      /\ u.last = c.last /\ u.flight = c.flight /\ u.queue = c.queue
      /\ DOMAIN u.jobs = DOMAIN c.jobs
      /\ u.jobs[id] = [c.jobs[id] EXCEPT !.source = 0, !.scratch = 0, !.facts = 0]
      /\ \A i \in Jobs(c) : i # id => u.jobs[i] = c.jobs[i]
  BY <1>1 DEF CoreTyped, Jobs
<1> QED
  BY <1>2 DEF Altered

LEMMA UnusedJob ==
  ASSUME NEW k, JobTyped(k), NEW j,
         j = [k EXCEPT !.source = 0, !.scratch = 0, !.facts = 0]
  PROVE  /\ JobTyped(j) /\ j.key = k.key /\ j.revision = k.revision
         /\ j.sealed = k.sealed /\ j.phase = k.phase /\ j.outcome = k.outcome
         /\ j.drop = k.drop /\ j.acked = k.acked
         /\ j.source = 0 /\ j.scratch = 0 /\ j.facts = 0
BY DEF JobTyped

(* What the others and one job hold.                                       *)
Others(c, id) ==
  /\ Holds(c, "scratch", Jobs(c) \ {id}) \in Nat
  /\ Holds(c, "facts", Jobs(c) \ {id}) \in Nat
  /\ c.jobs[id].scratch \in Nat /\ c.jobs[id].facts \in Nat
  /\ ScratchUsed(c) = Holds(c, "scratch", Jobs(c) \ {id}) + c.jobs[id].scratch
  /\ FactsUsed(c) = Holds(c, "facts", Jobs(c) \ {id}) + c.jobs[id].facts
  /\ ScratchUsed(c) <= MaxScratch /\ FactsUsed(c) <= MaxFacts
  /\ MaxScratch \in Nat /\ MaxFacts \in Nat

LEMMA WithOthers ==
  ASSUME NEW c, CoreSound(c), NEW id \in Jobs(c)
  PROVE  Others(c, id)
<1>1. CoreTyped(c) /\ BudgetSound(c)
  BY DEF CoreSound
<1>2. /\ "scratch" \in Sizes /\ "facts" \in Sizes /\ Jobs(c) \in SUBSET Jobs(c)
      /\ Jobs(c) \ {id} \in SUBSET Jobs(c)
  BY DEF Sizes
<1>3. /\ Holds(c, "scratch", Jobs(c) \ {id}) \in Nat
      /\ Holds(c, "facts", Jobs(c) \ {id}) \in Nat
  BY <1>1, <1>2, HoldsNat
<1>4. /\ Holds(c, "scratch", Jobs(c))
           = Holds(c, "scratch", Jobs(c) \ {id}) + c.jobs[id]["scratch"]
      /\ Holds(c, "facts", Jobs(c))
           = Holds(c, "facts", Jobs(c) \ {id}) + c.jobs[id]["facts"]
  BY <1>1, <1>2, HoldsSplit
<1>5. c.jobs[id].scratch \in Nat /\ c.jobs[id].facts \in Nat
  BY <1>1 DEF CoreTyped, JobTyped
<1>6. ScratchUsed(c) <= MaxScratch /\ FactsUsed(c) <= MaxFacts
  BY <1>1 DEF BudgetSound
<1>7. MaxScratch \in Nat /\ MaxFacts \in Nat
  BY LimitsAssumption DEF LimitsAssumption
<1> QED
  BY <1>3, <1>4, <1>5, <1>6, <1>7, UsesAre DEF Others

(* The effect is of a job the host holds something for.                    *)
LEMMA InFlight ==
  ASSUME NEW c, CoreSound(c), c.flight.kind # "none", NEW h, HandlesSound(c, h),
         NEW id, id = c.flight.job
  PROVE  /\ id \in Jobs(c) /\ id \in DOMAIN h /\ Live(c.jobs[id])
         /\ JobTyped(c.jobs[id]) /\ JobSound(c, id)
         /\ c.queue \in Seq(Nat) /\ Distinct(c.queue) /\ id \notin Queued(c.queue)
<1>1. FlightSound(c) /\ QueueSound(c) /\ CoreTyped(c)
  BY DEF CoreSound
<1>2. c.flight.kind \in {"drop", "parse"}
  BY <1>1 DEF CoreTyped, Flight
<1>3. id \in Jobs(c) /\ Live(c.jobs[id])
  BY <1>1, <1>2 DEF FlightSound, Live
<1>4. JobTyped(c.jobs[id]) /\ JobSound(c, id)
  BY <1>1, <1>3 DEF CoreTyped, CoreSound
<1>5. c.queue \in Seq(Nat) /\ Distinct(c.queue)
  BY <1>1 DEF CoreTyped, QueueSound
<1>6. id \notin Queued(c.queue)
  <2>1. SUFFICES ASSUME id \in Queued(c.queue)
                 PROVE  FALSE
    OBVIOUS
  <2>2. c.jobs[id].outcome = "none" /\ ~ Parsing(c, id)
    BY <1>1, <2>1 DEF QueueSound
  <2>3. c.flight.kind = "drop"
    BY <1>2, <2>2 DEF Parsing
  <2>4. c.jobs[id].drop /\ Open(c.jobs[id]) /\ ~ c.jobs[id].drop
    BY <1>1, <1>4, <2>2, <2>3 DEF FlightSound, JobSound, Open
  <2> QED
    BY <2>4
<1>7. id \in DOMAIN h
  BY <1>3 DEF HandlesSound
<1> QED
  BY <1>3, <1>4, <1>5, <1>6, <1>7

(* The host let go of everything it held for a job.                        *)
LEMMA Dropping ==
  ASSUME NEW c, CoreSound(c), ReadyHeld(c), NoneLeft(c), NEW h, HandlesSound(c, h),
         c.flight.kind = "drop", NEW d, d = Dropped(c),
         NEW g, g = Without(h, {c.flight.job})
  PROVE  Finished(c, d, g)
<1>1. PICK id : id = c.flight.job
  OBVIOUS
<1>2. /\ id \in Jobs(c) /\ id \in DOMAIN h /\ JobTyped(c.jobs[id]) /\ JobSound(c, id)
      /\ c.queue \in Seq(Nat) /\ Distinct(c.queue) /\ id \notin Queued(c.queue)
      /\ CoreTyped(c) /\ c.jobs[id].drop
  <2>1. CoreTyped(c) /\ c.jobs[id].drop
    BY <1>1 DEF CoreSound, FlightSound
  <2> QED
    BY <1>1, <2>1, InFlight
<1>0. PICK k : k = c.jobs[id]
  OBVIOUS
<1>3. PICK i : i = [k EXCEPT !.source = 0, !.scratch = 0, !.facts = 0]
  OBVIOUS
<1>4. PICK j : j = [i EXCEPT !.drop = FALSE]
  OBVIOUS
<1>5. /\ JobTyped(i) /\ i.key = c.jobs[id].key /\ i.revision = c.jobs[id].revision
      /\ i.sealed = c.jobs[id].sealed /\ i.phase = c.jobs[id].phase
      /\ i.outcome = c.jobs[id].outcome /\ i.acked = c.jobs[id].acked
      /\ i.source = 0 /\ i.scratch = 0 /\ i.facts = 0
  <2>1. JobTyped(k)
    BY <1>0, <1>2
  <2> QED
    BY ZenonT(40), <1>0, <1>3, <2>1, UnusedJob
<1>6. /\ JobTyped(j) /\ j.key = c.jobs[id].key /\ j.revision = c.jobs[id].revision
      /\ j.outcome = c.jobs[id].outcome /\ j.acked = c.jobs[id].acked
      /\ j.source = 0 /\ j.scratch = 0 /\ j.facts = 0 /\ ~ j.drop
  BY <1>4, <1>5 DEF JobTyped
<1>7. PICK u : u = Unused(c, id)
  OBVIOUS
<1>8. PICK x : x = [u EXCEPT !.jobs[id].drop = FALSE]
  OBVIOUS
<1>9. d = Settled(x)
  BY <1>1, <1>7, <1>8 DEF Dropped
<1>10. Altered(c, u, id, i, c.queue)
  BY <1>0, <1>2, <1>3, <1>7, UnusedIs
<1>11. Altered(c, x, id, j, c.queue)
  BY <1>2, <1>4, <1>8, <1>10 DEF Altered, CoreTyped, Jobs
<1>12. ~ Open(c.jobs[id]) /\ c.jobs[id].outcome # "none"
  BY <1>2 DEF JobSound, Open
<1>13. ~ Open(j) /\ ~ Live(j) /\ j.outcome # "none"
  BY <1>6, <1>12 DEF Open, Live
<1>18. Others(c, id)
  BY <1>2, WithOthers
<1>14. Follows(c, id, j, c.queue)
  <2>1. /\ Holds(c, "facts", Jobs(c) \ {id}) + 0 <= MaxFacts
        /\ Holds(c, "scratch", Jobs(c) \ {id}) + 0 <= MaxScratch
    BY <1>18 DEF Others
  <2>2. 0 <= c.jobs[id].source
    BY <1>2 DEF JobTyped
  <2> QED
    BY <1>2, <1>6, <1>13, <2>1, <2>2 DEF Follows
<1>15. /\ DOMAIN g = DOMAIN h \ {id}
       /\ \A y \in DOMAIN h : y # id => g[y] = h[y]
  BY <1>1 DEF Without
<1>16. Holds(c, "scratch", Jobs(c) \ {id}) + 0 + Transfers(g) <= MaxScratch
  <2>1. /\ IsFiniteSet(DOMAIN h) /\ \A y \in DOMAIN h : h[y] \in Handle
        /\ Transfers(h) \in Nat /\ ScratchUsed(c) + Transfers(h) <= MaxScratch
    BY <1>2, HandlesAre
  <2>2. \A y \in DOMAIN g : /\ g[y] \in Handle
                            /\ g[y].frame <= h[y].frame /\ g[y].encoded <= h[y].encoded
    BY <1>15, <2>1 DEF Handle
  <2>3. Transfers(g) \in Nat /\ Transfers(g) <= Transfers(h)
    BY <1>15, <2>1, <2>2, TransfersLess
  <2> QED
    BY <1>18, <2>1, <2>3 DEF Others
<1>17. Keeping(c, h, id, j, g)
  BY <1>6, <1>13, <1>15, <1>16 DEF Keeping
<1> QED
  BY <1>1, <1>2, <1>9, <1>11, <1>14, <1>17, Finishing

LEMMA SameTransfers ==
  ASSUME NEW h, NEW g, DOMAIN g = DOMAIN h,
         \A i \in DOMAIN h : g[i].frame = h[i].frame /\ g[i].encoded = h[i].encoded
  PROVE  Transfers(g) = Transfers(h)
<1>1. [i \in DOMAIN g |-> g[i].frame + g[i].encoded]
        = [i \in DOMAIN h |-> h[i].frame + h[i].encoded]
  OBVIOUS
<1> QED
  BY <1>1 DEF Transfers

LEMMA EmptiedIs ==
  ASSUME NEW k \in Handle, NEW e, e = Emptied(k)
  PROVE  /\ e \in Handle /\ Held(e) = 0 /\ e.scratch = 0 /\ e.facts = 0
         /\ e.frame = k.frame /\ e.encoded = k.encoded
BY DEF Emptied, Handle, Held

(* The parser has used up what it could, or there was no need to go on.    *)
Spent(c, id, j) ==
  /\ id = c.flight.job /\ c.flight.kind = "parse"
  /\ JobTyped(j) /\ j.key = c.jobs[id].key /\ j.revision = c.jobs[id].revision
  /\ j.outcome # "none" /\ ~ Open(j) /\ j.drop
  /\ j.source = 0 /\ j.scratch = 0 /\ j.facts = 0

EmptiedAt(h, id, g) ==
  /\ DOMAIN g = DOMAIN h /\ (id \in DOMAIN h => g[id] = Emptied(h[id]))
  /\ \A i \in DOMAIN h : i # id => g[i] = h[i]

(* The parser has let go of everything: the job waits to be dropped.       *)
LEMMA Emptying ==
  ASSUME NEW c, CoreSound(c), ReadyHeld(c), NoneLeft(c), NEW h, HandlesSound(c, h),
         NEW id, NEW j, Spent(c, id, j),
         NEW x, Altered(c, x, id, j, c.queue), NEW d, d = Settled(x),
         NEW g, EmptiedAt(h, id, g)
  PROVE  Finished(c, d, g)
<1>1. /\ id \in Jobs(c) /\ id \in DOMAIN h /\ JobTyped(c.jobs[id])
      /\ c.queue \in Seq(Nat) /\ Distinct(c.queue) /\ id \notin Queued(c.queue)
      /\ CoreTyped(c)
  <2>1. c.flight.kind # "none" /\ CoreTyped(c) /\ id = c.flight.job
    BY DEF CoreSound, Spent
  <2> QED
    BY <2>1, InFlight
<1>2. Others(c, id)
  BY <1>1, WithOthers
<1>3. Follows(c, id, j, c.queue)
  <2>1. /\ Holds(c, "facts", Jobs(c) \ {id}) + j.facts <= MaxFacts
        /\ Holds(c, "scratch", Jobs(c) \ {id}) + j.scratch <= MaxScratch
    BY <1>2 DEF Others, Spent
  <2>2. j.source <= c.jobs[id].source
    BY <1>1 DEF JobTyped, Spent
  <2> QED
    BY <1>1, <2>1, <2>2 DEF Follows, Spent
<1>4. /\ \A i \in DOMAIN h : h[i] \in Handle /\ HandleSound(c, h, i)
      /\ Transfers(h) \in Nat /\ ScratchUsed(c) + Transfers(h) <= MaxScratch
  BY <1>1, HandlesAre
<1>5. h[id] \in Handle /\ h[id].encoded = 0
  BY <1>1, <1>4 DEF HandleSound, Parsing, Spent
<1>6. /\ DOMAIN g = DOMAIN h /\ g[id] = Emptied(h[id])
      /\ \A i \in DOMAIN h : i # id => g[i] = h[i]
  BY <1>1 DEF EmptiedAt
<1>7. /\ g[id] \in Handle /\ Held(g[id]) = 0 /\ g[id].scratch = 0 /\ g[id].facts = 0
      /\ g[id].frame = h[id].frame /\ g[id].encoded = h[id].encoded
  BY <1>5, <1>6, EmptiedIs
<1>8. Transfers(g) = Transfers(h)
  <2>1. DOMAIN g = DOMAIN h
    BY <1>6
  <2>2. \A i \in DOMAIN h : g[i].frame = h[i].frame /\ g[i].encoded = h[i].encoded
    BY <1>6, <1>7
  <2> QED
    BY <2>1, <2>2, SameTransfers
<1>9. Holds(c, "scratch", Jobs(c) \ {id}) + j.scratch + Transfers(g) <= MaxScratch
  BY <1>2, <1>4, <1>8 DEF Others, Spent
<1>10. Keeping(c, h, id, j, g)
  BY <1>5, <1>6, <1>7, <1>9 DEF Keeping, Live, Spent
<1>11. c.flight.job = id
  BY DEF Spent
<1> QED
  BY <1>1, <1>3, <1>10, <1>11, Finishing

LEMMA Skipping ==
  ASSUME NEW c, CoreSound(c), ReadyHeld(c), NoneLeft(c), NEW h, HandlesSound(c, h),
         c.flight.kind = "parse", ~ PhaseIsCurrent(c, c.flight.job),
         NEW d, d = Skipped(c),
         NEW g, g = [h EXCEPT ![c.flight.job] = Emptied(@)]
  PROVE  Finished(c, d, g)
<1>1. PICK id : id = c.flight.job
  OBVIOUS
<1>2. PICK k : k = c.jobs[id]
  OBVIOUS
<1>3. CoreTyped(c) /\ id \in Jobs(c) /\ JobTyped(k) /\ Live(k) /\ k.outcome # "ready"
  <2>1. c.flight.kind # "none" /\ CoreTyped(c)
    BY DEF CoreSound
  <2>2. k.outcome # "ready"
    BY <1>1, <1>2 DEF CoreSound, FlightSound
  <2> QED
    BY <1>1, <1>2, <2>1, <2>2, InFlight
<1>4. k.outcome # "none"
  BY <1>1, <1>2, <1>3 DEF PhaseIsCurrent, NoneLeft
<1>5. k.drop
  BY <1>3, <1>4 DEF Live, Open
<1>6. PICK j : j = [k EXCEPT !.source = 0, !.scratch = 0, !.facts = 0]
  OBVIOUS
<1>7. /\ JobTyped(j) /\ j.key = k.key /\ j.revision = k.revision
      /\ j.outcome = k.outcome /\ j.drop = k.drop
      /\ j.source = 0 /\ j.scratch = 0 /\ j.facts = 0
  BY <1>3, <1>6, UnusedJob
<1>8. PICK x : x = Unused(c, id)
  OBVIOUS
<1>9. d = Settled(x)
  BY <1>1, <1>8 DEF Skipped
<1>10. Altered(c, x, id, j, c.queue)
  BY <1>2, <1>3, <1>6, <1>8, UnusedIs
<1>11. ~ Open(j)
  BY <1>3, <1>4, <1>7 DEF Open
<1>12. EmptiedAt(h, id, g)
  BY <1>1 DEF EmptiedAt
<1>13. Spent(c, id, j)
  BY <1>1, <1>2, <1>4, <1>5, <1>7, <1>11 DEF Spent
<1> QED
  BY <1>9, <1>10, <1>12, <1>13, Emptying

LEMMA RunningOut ==
  ASSUME NEW c, CoreSound(c), ReadyHeld(c), NoneLeft(c), NEW h, HandlesSound(c, h),
         c.flight.kind = "parse", PhaseIsCurrent(c, c.flight.job),
         NEW d, d = OutOfSpace(c),
         NEW g, g = [h EXCEPT ![c.flight.job] = Emptied(@)]
  PROVE  Finished(c, d, g)
<1>1. PICK id : id = c.flight.job
  OBVIOUS
<1>2. PICK k : k = c.jobs[id]
  OBVIOUS
<1>3. CoreTyped(c) /\ id \in Jobs(c) /\ JobTyped(k)
  <2>1. c.flight.kind # "none" /\ CoreTyped(c)
    BY DEF CoreSound
  <2> QED
    BY <1>1, <1>2, <2>1, InFlight
<1>4. k.outcome = "none"
  BY <1>1, <1>2 DEF PhaseIsCurrent
<1>5. PICK i : i = [k EXCEPT !.source = 0, !.scratch = 0, !.facts = 0]
  OBVIOUS
<1>6. PICK j : j = [i EXCEPT !.outcome = "unavailable", !.drop = TRUE]
  OBVIOUS
<1>7. /\ JobTyped(i) /\ i.key = k.key /\ i.revision = k.revision
      /\ i.outcome = k.outcome
      /\ i.source = 0 /\ i.scratch = 0 /\ i.facts = 0
  BY <1>3, <1>5, UnusedJob
<1>8. /\ JobTyped(j) /\ j.key = k.key /\ j.revision = k.revision
      /\ j.outcome = "unavailable" /\ j.drop
      /\ j.source = 0 /\ j.scratch = 0 /\ j.facts = 0
  BY <1>6, <1>7 DEF JobTyped, Ends
<1>9. PICK u : u = Unused(c, id)
  OBVIOUS
<1>10. PICK x : x = [u EXCEPT !.jobs[id].outcome = IF @ = "none" THEN "unavailable" ELSE @,
                              !.jobs[id].drop = TRUE]
  OBVIOUS
<1>11. d = Settled(x)
  BY <1>1, <1>9, <1>10 DEF OutOfSpace
<1>12. Altered(c, u, id, i, c.queue)
  BY <1>2, <1>3, <1>5, <1>9, UnusedIs
<1>13. Altered(c, x, id, j, c.queue)
  <2>1. u.jobs[id] = i /\ i.outcome = "none"
    BY <1>4, <1>7, <1>12 DEF Altered
  <2>2. /\ DOMAIN x = DOMAIN u /\ x.buffers = u.buffers /\ x.retired = u.retired
        /\ x.last = u.last /\ x.flight = u.flight /\ x.queue = u.queue
        /\ DOMAIN x.jobs = DOMAIN u.jobs
        /\ \A y \in DOMAIN u.jobs : y # id => x.jobs[y] = u.jobs[y]
    BY <1>3, <1>10, <1>12 DEF Altered, CoreTyped
  <2>3. x.jobs[id] = j
    BY <1>3, <1>6, <1>10, <1>12, <2>1 DEF Altered, CoreTyped, Jobs
  <2> QED
    BY <1>12, <2>2, <2>3 DEF Altered, Jobs
<1>14. ~ Open(j)
  BY <1>8 DEF Open
<1>15. EmptiedAt(h, id, g)
  BY <1>1 DEF EmptiedAt
<1>16. Spent(c, id, j)
  BY <1>1, <1>2, <1>8, <1>14 DEF Spent
<1> QED
  BY <1>11, <1>13, <1>15, <1>16, Emptying

LastPhase(c) == c.flight.phase = Phases

(* The record of a job after a phase.                                      *)
NextPhase(c, id, scratch, facts, j) ==
  LET k == c.jobs[id]
      last == LastPhase(c)
  IN  /\ JobTyped(j) /\ j.key = k.key /\ j.revision = k.revision
      /\ j.sealed = k.sealed /\ j.drop = k.drop /\ j.acked = k.acked
      /\ j.phase = k.phase + 1 /\ j.scratch = scratch /\ j.facts = facts
      /\ last => j.source = 0 /\ j.outcome = "ready"
      /\ ~ last => j.source = k.source /\ j.outcome = "none"

LEMMA NextPhaseIs ==
  ASSUME NEW c, NEW id, JobTyped(c.jobs[id]), c.jobs[id].outcome = "none",
         NEW scratch \in Nat, NEW facts \in Nat,
         NEW j, j = AfterPhase(c.jobs[id], c.flight.phase, scratch, facts)
  PROVE  NextPhase(c, id, scratch, facts, j)
<1>1. PICK k : k = c.jobs[id]
  OBVIOUS
<1>2. PICK phase : phase = c.flight.phase
  OBVIOUS
<1>3. j = [k EXCEPT !.source = IF phase = Phases THEN 0 ELSE @,
                    !.scratch = scratch, !.facts = facts, !.phase = @ + 1,
                    !.outcome = IF @ = "none" /\ phase = Phases THEN "ready" ELSE @]
  BY <1>1, <1>2 DEF AfterPhase
<1>4. CASE phase = Phases
  BY <1>1, <1>2, <1>3, <1>4 DEF NextPhase, LastPhase, JobTyped, Ends
<1>5. CASE phase # Phases
  BY <1>1, <1>2, <1>3, <1>5 DEF NextPhase, LastPhase, JobTyped, Ends
<1> QED
  BY <1>4, <1>5

(* The phase is charged within what its plan left it.                      *)
Fits(c, h, scratch, facts) ==
  /\ scratch \in Nat /\ facts \in Nat
  /\ scratch = 0 \/ scratch + Transfers(h) <= c.flight.scratch
  /\ facts <= c.flight.facts

LEMMA FitsIn ==
  ASSUME NEW c, CoreSound(c), c.flight.kind = "parse", NEW h, HandlesSound(c, h),
         NEW id \in Jobs(c), id = c.flight.job,
         NEW scratch, NEW facts, Fits(c, h, scratch, facts)
  PROVE  /\ Holds(c, "facts", Jobs(c) \ {id}) + facts <= MaxFacts
         /\ Holds(c, "scratch", Jobs(c) \ {id}) + scratch <= MaxScratch
         /\ Holds(c, "scratch", Jobs(c) \ {id}) + scratch + Transfers(h) <= MaxScratch
<1> DEFINE a == Holds(c, "facts", Jobs(c) \ {id})
           b == Holds(c, "scratch", Jobs(c) \ {id})
<1>1. CoreTyped(c)
  BY DEF CoreSound
<1>2. /\ Transfers(h) \in Nat /\ MaxScratch \in Nat
      /\ ScratchUsed(c) + Transfers(h) <= MaxScratch
  BY <1>1, HandlesAre
<1>3. /\ a \in Nat /\ b \in Nat /\ c.jobs[id].scratch \in Nat
      /\ ScratchUsed(c) = b + c.jobs[id].scratch /\ MaxFacts \in Nat
  BY WithOthers DEF Others
<1>4. /\ a + c.flight.facts <= MaxFacts /\ b + c.flight.scratch <= MaxScratch
      /\ c.flight.facts \in Nat /\ c.flight.scratch \in Nat
  BY <1>1 DEF CoreSound, BudgetSound, CoreTyped, Flight
<1> HIDE DEF a, b
<1>5. /\ scratch \in Nat /\ facts \in Nat /\ facts <= c.flight.facts
      /\ scratch = 0 \/ scratch + Transfers(h) <= c.flight.scratch
  BY DEF Fits
<1>6. a + facts <= MaxFacts
  BY <1>3, <1>4, <1>5
<1>7. b + scratch + Transfers(h) <= MaxScratch
  BY <1>2, <1>3, <1>4, <1>5
<1>8. b + scratch <= MaxScratch
  BY <1>2, <1>3, <1>5, <1>7
<1> QED
  BY <1>6, <1>7, <1>8 DEF a, b

(* What the host holds for the job after a phase.                          *)
ParsedAt(c, h, id, scratch, facts, g) ==
  /\ DOMAIN g = DOMAIN h
  /\ id \in DOMAIN h => g[id] = Filled(h[id], c.flight.phase, scratch, facts)
  /\ \A i \in DOMAIN h : i # id => g[i] = h[i]

(* The queue takes the job again until its last phase.                     *)
Requeued(c, id, queue) ==
  IF LastPhase(c) THEN queue = c.queue ELSE queue = Append(c.queue, id)

LEMMA RequeuedIs ==
  ASSUME NEW c, c.queue \in Seq(Nat), Distinct(c.queue),
         NEW id \in Nat, id \notin Queued(c.queue),
         NEW queue, Requeued(c, id, queue)
  PROVE  /\ queue \in Seq(Nat) /\ Distinct(queue)
         /\ \A i \in Queued(queue) : \/ i \in Queued(c.queue)
                                     \/ i = id /\ ~ LastPhase(c)
<1>1. CASE LastPhase(c)
  BY <1>1 DEF Requeued
<1>2. CASE ~ LastPhase(c)
  <2>1. queue = Append(c.queue, id)
    BY <1>2 DEF Requeued
  <2>2. /\ queue \in Seq(Nat) /\ Distinct(queue)
        /\ \A i \in Queued(queue) : i \in Queued(c.queue) \/ i = id
    BY <2>1, AppendedQueue
  <2> QED
    BY <1>2, <2>2
<1> QED
  BY <1>1, <1>2

(* A phase ran: the job has its facts or waits for the next phase.         *)
LEMMA Phasing ==
  ASSUME NEW c, CoreSound(c), ReadyHeld(c), NoneLeft(c), NEW h, HandlesSound(c, h),
         c.flight.kind = "parse", NEW id, id = c.flight.job, PhaseIsCurrent(c, id),
         NEW scratch, NEW facts, Fits(c, h, scratch, facts),
         NEW j, NextPhase(c, id, scratch, facts, j),
         NEW queue, Requeued(c, id, queue),
         NEW x, Altered(c, x, id, j, queue), NEW d, d = Settled(x),
         NEW g, ParsedAt(c, h, id, scratch, facts, g)
  PROVE  Finished(c, d, g)
<1>1. /\ id \in Jobs(c) /\ id \in DOMAIN h /\ JobTyped(c.jobs[id]) /\ JobSound(c, id)
      /\ c.queue \in Seq(Nat) /\ Distinct(c.queue) /\ id \notin Queued(c.queue)
      /\ CoreTyped(c)
  <2>1. c.flight.kind # "none" /\ CoreTyped(c)
    BY DEF CoreSound
  <2> QED
    BY <2>1, InFlight
<1>2. /\ c.jobs[id].outcome = "none" /\ ~ c.jobs[id].acked /\ ~ c.jobs[id].drop
      /\ c.jobs[id].source = SourceSize /\ c.jobs[id].phase \in 1 .. Phases
      /\ c.jobs[id].sealed /\ c.jobs[id].phase = c.flight.phase
  <2>1. c.jobs[id].outcome = "none"
    BY DEF PhaseIsCurrent
  <2>2. c.jobs[id].sealed /\ c.jobs[id].phase = c.flight.phase
    BY DEF CoreSound, FlightSound
  <2> QED
    BY <1>1, <2>1, <2>2 DEF JobSound, Open
<1>3. /\ scratch \in Nat /\ facts \in Nat
      /\ Holds(c, "facts", Jobs(c) \ {id}) + facts <= MaxFacts
      /\ Holds(c, "scratch", Jobs(c) \ {id}) + scratch <= MaxScratch
      /\ Holds(c, "scratch", Jobs(c) \ {id}) + scratch + Transfers(h) <= MaxScratch
  BY <1>1, FitsIn DEF Fits
<1>4. id \in Nat
  BY <1>1 DEF CoreTyped
<1>5. /\ queue \in Seq(Nat) /\ Distinct(queue)
      /\ \A i \in Queued(queue) : \/ i \in Queued(c.queue)
                                  \/ i = id /\ ~ LastPhase(c)
  BY <1>1, <1>4, RequeuedIs
<1>6. /\ JobTyped(j) /\ j.key = c.jobs[id].key /\ j.revision = c.jobs[id].revision
      /\ j.sealed /\ ~ j.drop /\ ~ j.acked
      /\ j.phase = c.jobs[id].phase + 1 /\ j.scratch = scratch /\ j.facts = facts
      /\ LastPhase(c) => j.source = 0 /\ j.outcome = "ready"
      /\ ~ LastPhase(c) => j.source = SourceSize /\ j.outcome = "none"
  BY <1>2 DEF NextPhase
<1>7. ~ LastPhase(c) => j.phase \in 1 .. Phases
  BY <1>2, <1>6, LimitsAssumption DEF LimitsAssumption, LastPhase
<1>8. j.source <= c.jobs[id].source
  BY <1>2, <1>6 DEF SourceSize
<1>9. Follows(c, id, j, queue)
  <2>1. \A i \in Queued(queue) : /\ i # id => i \in Queued(c.queue)
                                 /\ i = id => j.sealed /\ j.outcome = "none"
    BY <1>1, <1>5, <1>6
  <2>2. Open(c.jobs[id]) /\ ~ j.drop
    BY <1>2, <1>6 DEF Open
  <2>3. j.outcome = "none" => /\ c.jobs[id].outcome = "none" /\ ~ j.acked
                              /\ j.source = SourceSize /\ j.phase \in 1 .. Phases
    BY <1>2, <1>6, <1>7
  <2> QED
    BY <1>3, <1>5, <1>6, <1>8, <2>1, <2>2, <2>3 DEF Follows
<1>10. /\ h[id] \in Handle /\ h[id].encoded = 0 /\ Held(h[id]) <= SourceSize
       /\ \A i \in DOMAIN h : h[i] \in Handle
  <2>1. \A i \in DOMAIN h : h[i] \in Handle /\ HandleSound(c, h, i)
    BY <1>1, HandlesAre
  <2> QED
    BY <1>1, <1>2, <2>1 DEF HandleSound
<1>11. /\ DOMAIN g = DOMAIN h /\ \A i \in DOMAIN h : i # id => g[i] = h[i]
       /\ g[id] = Filled(h[id], c.flight.phase, scratch, facts)
  BY <1>1 DEF ParsedAt
<1>12. /\ g[id] \in Handle /\ g[id].scratch = scratch /\ g[id].facts = facts
       /\ g[id].frame = h[id].frame /\ g[id].encoded = h[id].encoded
       /\ LastPhase(c) => Held(g[id]) = 0
       /\ ~ LastPhase(c) => Held(g[id]) = Held(h[id])
  <2>1. PICK k \in Handle : k = h[id]
    BY <1>10
  <2>2. PICK input \in {"none", "upload", "parser"} :
          input = IF LastPhase(c) THEN "none" ELSE k.input
    BY DEF Handle
  <2>3. PICK e : e = g[id]
    OBVIOUS
  <2>6. e = [k EXCEPT !.input = input, !.scratch = scratch, !.facts = facts]
    BY <1>11, <2>1, <2>2, <2>3 DEF Filled, LastPhase
  <2>4. /\ e \in Handle /\ e.scratch = scratch /\ e.facts = facts
        /\ e.frame = k.frame /\ e.encoded = k.encoded
        /\ input = "none" => Held(e) = 0
        /\ input # "none" => Held(e) = SourceSize
    <3>1. scratch \in Nat /\ facts \in Nat
      BY <1>3
    <3>2. /\ e \in Handle /\ e.scratch = scratch /\ e.facts = facts
          /\ e.frame = k.frame /\ e.encoded = k.encoded
      BY <2>6, <3>1 DEF Handle
    <3>3. e.input = input
      BY <2>6 DEF Handle
    <3> QED
      BY <3>2, <3>3 DEF Held
  <2>5. Held(k) = IF k.input = "none" THEN 0 ELSE SourceSize
    BY DEF Held
  <2> QED
    BY <2>1, <2>2, <2>3, <2>4, <2>5
<1>13. Transfers(g) = Transfers(h)
  <2>1. \A i \in DOMAIN h : g[i].frame = h[i].frame /\ g[i].encoded = h[i].encoded
    BY <1>11, <1>12
  <2> QED
    BY <1>11, <2>1, SameTransfers
<1>14. Keeping(c, h, id, j, g)
  <2>1. Live(j)
    BY <1>6 DEF Live, Open
  <2>2. Held(g[id]) <= j.source
    BY <1>6, <1>10, <1>12
  <2>3. /\ g[id].scratch <= j.scratch /\ g[id].facts <= j.facts /\ g[id].encoded = 0
    BY <1>3, <1>6, <1>10, <1>12
  <2>4. Holds(c, "scratch", Jobs(c) \ {id}) + j.scratch + Transfers(g) <= MaxScratch
    BY <1>3, <1>6, <1>13
  <2> QED
    BY <1>6, <1>11, <1>12, <2>1, <2>2, <2>3, <2>4 DEF Keeping
<1> QED
  BY <1>1, <1>9, <1>14, Finishing

LEMMA ParsedFinishes ==
  ASSUME NEW c, CoreSound(c), ReadyHeld(c), NoneLeft(c), NEW h, HandlesSound(c, h),
         c.flight.kind = "parse", NEW id, id = c.flight.job, PhaseIsCurrent(c, id),
         NEW scratch, NEW facts, Fits(c, h, scratch, facts),
         NEW d, d = Parsed(c, scratch, facts),
         NEW g, ParsedAt(c, h, id, scratch, facts, g)
  PROVE  Finished(c, d, g)
<1>1. /\ id \in Jobs(c) /\ JobTyped(c.jobs[id]) /\ CoreTyped(c)
      /\ c.jobs[id].outcome = "none"
  <2>1. c.flight.kind # "none" /\ CoreTyped(c)
    BY DEF CoreSound
  <2>2. c.jobs[id].outcome = "none"
    BY DEF PhaseIsCurrent
  <2> QED
    BY <2>1, <2>2, InFlight
<1>2. PICK j : j = AfterPhase(c.jobs[id], c.flight.phase, scratch, facts)
  OBVIOUS
<1>3. NextPhase(c, id, scratch, facts, j)
  BY <1>1, <1>2, NextPhaseIs DEF Fits
<1>4. PICK queue : queue = IF ~ LastPhase(c) THEN Append(c.queue, id) ELSE c.queue
  OBVIOUS
<1>5. Requeued(c, id, queue)
  BY <1>4 DEF Requeued
<1>6. PICK x : x =
        [c EXCEPT
          !.jobs[id] = AfterPhase(@, c.flight.phase, scratch, facts),
          !.queue = IF c.jobs[id].outcome = "none" /\ c.flight.phase # Phases
                      THEN Append(@, id) ELSE @]
  OBVIOUS
<1>7. d = Settled(x)
  BY <1>6 DEF Parsed
<1>8. Altered(c, x, id, j, queue)
  <2>1. x.jobs[id] = j
    BY <1>1, <1>2, <1>6 DEF CoreTyped, Jobs
  <2>2. x.queue = queue
    BY <1>1, <1>4, <1>6 DEF LastPhase, CoreTyped
  <2>3. /\ DOMAIN x = DOMAIN c /\ x.buffers = c.buffers /\ x.retired = c.retired
        /\ x.last = c.last /\ x.flight = c.flight
        /\ DOMAIN x.jobs = DOMAIN c.jobs
        /\ \A i \in Jobs(c) : i # id => x.jobs[i] = c.jobs[i]
    BY <1>1, <1>6 DEF CoreTyped, Jobs
  <2> QED
    BY <2>1, <2>2, <2>3 DEF Altered
<1> QED
  BY <1>3, <1>5, <1>7, <1>8, Phasing

-------------------------------------------------------------------------------
(* What the host's calls do to the reducer and to what it holds.           *)

LEMMA ExtendsOn ==
  ASSUME NEW c, NEW d, NEW e, Extends(c, d), Extends(d, e)
  PROVE  Extends(c, e)
BY DEF Extends

LEMMA Easing ==
  ASSUME NEW c, CoreSound(c), NoneLeft(c), NEW h, HandlesSound(c, h),
         NEW d, CoreSound(d), ReadyHeld(d), Eases(c, d), d.retired = c.retired
  PROVE  Finished(c, d, h)
<1>1. NoneLeft(d)
  BY DEF NoneLeft, Eases
<1>2. HandlesSound(d, h)
  <2>1. CoreTyped(c) /\ CoreTyped(d)
    BY DEF CoreSound
  <2> QED
    BY <2>1, HandlesEased
<1>3. Extends(c, d)
  BY EasedExtends
<1> QED
  BY <1>1, <1>2, <1>3 DEF Finished

LEMMA ThenPlanned ==
  ASSUME NEW c, NEW d, NEW h, Finished(c, d, h), NEW e, e = Planned(d)
  PROVE  Finished(c, e, h) /\ Extends(d, e)
<1>1. /\ CoreSound(d) /\ ReadyHeld(d) /\ NoneLeft(d) /\ HandlesSound(d, h)
      /\ Extends(c, d)
  BY DEF Finished
<1>2. CoreSound(e) /\ ReadyHeld(e) /\ Eases(d, e) /\ e.retired = d.retired
  BY <1>1, Planning
<1>3. Finished(d, e, h)
  BY <1>1, <1>2, Easing
<1>4. Extends(c, e)
  BY <1>1, <1>3, ExtendsOn DEF Finished
<1> QED
  BY <1>3, <1>4 DEF Finished

(* The host and its reducer are sound.                                     *)
HostSound(c, h) == CoreSound(c) /\ ReadyHeld(c) /\ NoneLeft(c) /\ HandlesSound(c, h)

LEMMA SameHost ==
  ASSUME NEW c, NEW h, HostSound(c, h)
  PROVE  Finished(c, c, h)
<1>1. Extends(c, c)
  BY DEF Extends
<1> QED
  BY <1>1 DEF HostSound, Finished

LEMMA StoppingFinishes ==
  ASSUME NEW c, NEW h, HostSound(c, h), NEW ids, NEW reason \in Ends \ {"none", "ready"},
         NEW d, d = Stopped(c, ids, reason)
  PROVE  Finished(c, d, h)
<1>1. CoreSound(c) /\ ReadyHeld(c) /\ NoneLeft(c) /\ HandlesSound(c, h)
  BY DEF HostSound
<1>2. CoreSound(d) /\ ReadyHeld(d) /\ Eases(c, d) /\ d.retired = c.retired
  BY <1>1, Stopping
<1> QED
  BY <1>1, <1>2, Easing

LEMMA AcknowledgingFinishes ==
  ASSUME NEW c, NEW h, HostSound(c, h), NEW id \in Jobs(c), c.jobs[id].outcome # "none",
         NEW d, d = Acknowledged(c, id)
  PROVE  Finished(c, d, h)
<1>1. CoreSound(c) /\ ReadyHeld(c) /\ NoneLeft(c) /\ HandlesSound(c, h)
  BY DEF HostSound
<1>2. CoreSound(d) /\ ReadyHeld(d) /\ Eases(c, d) /\ d.retired = c.retired
  BY <1>1, Acknowledging
<1> QED
  BY <1>1, <1>2, Easing

LEMMA ReleasingFinishes ==
  ASSUME NEW c, NEW h, HostSound(c, h), NEW keys, NEW d, d = ReleasedBuffers(c, keys)
  PROVE  Finished(c, d, h)
<1>1. CoreSound(c) /\ ReadyHeld(c) /\ NoneLeft(c) /\ HandlesSound(c, h)
  BY DEF HostSound
<1>2. CoreSound(d) /\ ReadyHeld(d) /\ Eases(c, d) /\ d.retired = c.retired
  BY <1>1, Releasing
<1> QED
  BY <1>1, <1>2, Easing

LEMMA RetiringFinishes ==
  ASSUME NEW c, NEW h, HostSound(c, h), NEW d, d = Retired(c)
  PROVE  Finished(c, d, h)
<1>1. CoreSound(c) /\ ReadyHeld(c) /\ HandlesSound(c, h)
  BY DEF HostSound
<1>2. CoreSound(d) /\ ReadyHeld(d) /\ Eases(c, d) /\ NoneLeft(d)
  BY <1>1, Retiring
<1>3. HandlesSound(d, h)
  <2>1. CoreTyped(c) /\ CoreTyped(d)
    BY <1>1, <1>2 DEF CoreSound
  <2> QED
    BY <1>1, <1>2, <2>1, HandlesEased
<1>4. Extends(c, d)
  BY <1>2, EasedExtends
<1> QED
  BY <1>2, <1>3, <1>4 DEF Finished

(* What a current job is, and what the host holds for it.                  *)
LEMMA UploadHandle ==
  ASSUME NEW c, NEW h, HostSound(c, h), NEW id \in DOMAIN h, IsCurrent(c, id)
  PROVE  /\ id \in Jobs(c) /\ c.jobs[id].outcome = "none" /\ c.jobs[id].source = SourceSize
         /\ h[id] \in Handle /\ h[id].encoded = 0
         /\ h[id].scratch <= c.jobs[id].scratch /\ h[id].facts <= c.jobs[id].facts
         /\ ScratchUsed(c) \in Nat /\ Transfers(h) \in Nat /\ MaxScratch \in Nat
         /\ ScratchUsed(c) + Transfers(h) <= MaxScratch
<1>1. id \in Jobs(c) /\ c.jobs[id].outcome = "none" /\ CoreTyped(c) /\ HandlesSound(c, h)
  BY DEF HostSound, CoreSound, IsCurrent
<1>2. c.jobs[id].source = SourceSize
  BY <1>1 DEF HostSound, CoreSound, JobSound
<1>3. HandleSound(c, h, id)
  BY <1>1 DEF HandlesSound
<1>4. /\ ScratchUsed(c) \in Nat /\ Transfers(h) \in Nat /\ MaxScratch \in Nat
      /\ ScratchUsed(c) + Transfers(h) <= MaxScratch
  BY <1>1, HandlesAre
<1> QED
  BY <1>1, <1>2, <1>3, <1>4 DEF HandleSound

(* The handle of a job has another input and another frame.                *)
Refilled(h, id, input, frame, g) ==
  /\ DOMAIN g = DOMAIN h /\ \A i \in DOMAIN h : i # id => g[i] = h[i]
  /\ g[id].input = input /\ g[id].frame = frame
  /\ g[id].scratch = h[id].scratch /\ g[id].facts = h[id].facts
  /\ g[id].encoded = h[id].encoded /\ g[id] \in Handle

LEMMA Refilling ==
  ASSUME NEW c, NEW h, HostSound(c, h), NEW id \in DOMAIN h, IsCurrent(c, id),
         NEW input \in {"upload", "parser"}, NEW frame \in Nat,
         \/ frame <= h[id].frame
         \/ frame = SourceSize /\ MaxScratch - ScratchUsed(c) - Transfers(h) >= SourceSize,
         NEW g, Refilled(h, id, input, frame, g)
  PROVE  HostSound(c, g)
<1>1. /\ id \in Jobs(c) /\ c.jobs[id].outcome = "none" /\ c.jobs[id].source = SourceSize
      /\ h[id] \in Handle /\ h[id].encoded = 0
      /\ h[id].scratch <= c.jobs[id].scratch /\ h[id].facts <= c.jobs[id].facts
      /\ ScratchUsed(c) \in Nat /\ Transfers(h) \in Nat /\ MaxScratch \in Nat
      /\ ScratchUsed(c) + Transfers(h) <= MaxScratch
  BY UploadHandle
<1>2. HandleSound(c, g, id)
  <2>1. Held(g[id]) = SourceSize
    BY DEF Refilled, Held
  <2> QED
    BY <1>1, <2>1 DEF HandleSound, Refilled, SourceSize
<1>3. g[id].frame + g[id].encoded <=
        h[id].frame + h[id].encoded + (MaxScratch - ScratchUsed(c) - Transfers(h))
  <2>1. h[id].frame \in Nat /\ g[id].frame = frame /\ g[id].encoded = 0
    BY <1>1 DEF Refilled, Handle
  <2>2. SourceSize \in Nat
    BY DEF SourceSize
  <2> QED
    BY <1>1, <2>1, <2>2
<1>4. CoreTyped(c) /\ HandlesSound(c, h)
  BY DEF HostSound, CoreSound
<1>5. DOMAIN g = DOMAIN h /\ \A i \in DOMAIN h : i # id => g[i] = h[i]
  BY DEF Refilled
<1>6. HandlesSound(c, g)
  BY <1>2, <1>3, <1>4, <1>5, HandleChanged
<1> QED
  BY <1>6 DEF HostSound

LEMMA SealingFinishes ==
  ASSUME NEW c, NEW h, HostSound(c, h), NEW id \in Jobs(c), c.jobs[id].outcome = "none",
         NEW d, d = Sealed(c, id)
  PROVE  Finished(c, d, h)
<1>1. CoreSound(c) /\ ReadyHeld(c) /\ NoneLeft(c) /\ HandlesSound(c, h)
  BY DEF HostSound
<1>2. CoreSound(d) /\ ReadyHeld(d) /\ Eases(c, d) /\ d.retired = c.retired
  BY <1>1, Sealing
<1> QED
  BY <1>1, <1>2, Easing

(* The facts of a job are encoded to be read.                              *)
LEMMA Encoding ==
  ASSUME NEW c, NEW h, HostSound(c, h), NEW id \in DOMAIN h, c.jobs[id].outcome = "ready",
         h[id].encoded # 0 \/ MaxScratch - ScratchUsed(c) - Transfers(h) >= h[id].facts,
         NEW g, g = [h EXCEPT ![id].encoded = h[id].facts]
  PROVE  HostSound(c, g)
<1>1. CoreTyped(c) /\ HandlesSound(c, h) /\ FlightSound(c)
  BY DEF HostSound, CoreSound
<1>2. /\ h[id] \in Handle /\ HandleSound(c, h, id)
      /\ ScratchUsed(c) \in Nat /\ Transfers(h) \in Nat /\ MaxScratch \in Nat
      /\ ScratchUsed(c) + Transfers(h) <= MaxScratch
  BY <1>1, HandlesAre
<1>3. /\ DOMAIN g = DOMAIN h /\ \A i \in DOMAIN h : i # id => g[i] = h[i]
      /\ g[id] = [h[id] EXCEPT !.encoded = h[id].facts]
  OBVIOUS
<1>4. /\ g[id] \in Handle /\ g[id].input = h[id].input /\ g[id].frame = h[id].frame
      /\ g[id].scratch = h[id].scratch /\ g[id].facts = h[id].facts
      /\ g[id].encoded = h[id].facts
  BY <1>2, <1>3 DEF Handle
<1>5. ~ Parsing(c, id)
  BY <1>1 DEF FlightSound, Parsing
<1>6. HandleSound(c, g, id)
  <2>1. Held(g[id]) = Held(h[id])
    BY <1>4 DEF Held
  <2> QED
    BY <1>2, <1>4, <1>5, <2>1 DEF HandleSound
<1>7. g[id].frame + g[id].encoded <=
        h[id].frame + h[id].encoded + (MaxScratch - ScratchUsed(c) - Transfers(h))
  <2>1. h[id].frame \in Nat /\ h[id].encoded \in Nat /\ h[id].facts \in Nat
    BY <1>2 DEF Handle
  <2>2. h[id].encoded # 0 => h[id].encoded = h[id].facts
    BY <1>2 DEF HandleSound
  <2> QED
    BY <1>2, <1>4, <2>1, <2>2
<1>8. HandlesSound(c, g)
  BY <1>1, <1>3, <1>6, <1>7, HandleChanged
<1> QED
  BY <1>8 DEF HostSound

(* A job the window has been told of has the text of the window's run, for *)
(* as long as it is there.                                                 *)
IsOf(c, id, revision) ==
  /\ id \in 1 .. c.last
  /\ id \in Jobs(c) => c.jobs[id].revision = revision

LEMMA StillIsOf ==
  ASSUME NEW c, NEW d, Extends(c, d), NEW id, NEW revision, IsOf(c, id, revision)
  PROVE  IsOf(d, id, revision)
BY DEF Extends, IsOf

(* A handle that holds nothing.                                            *)
LEMMA OneMoreHandle ==
  ASSUME NEW S, IsFiniteSet(S), NEW h, DOMAIN h = S, \A i \in S : h[i] \in Handle,
         NEW x, x \notin S, NEW g, DOMAIN g = S \cup {x}, \A i \in S : g[i] = h[i],
         g[x] = NewHandle
  PROVE  Transfers(g) = Transfers(h)
<1> DEFINE f == [id \in DOMAIN g |-> g[id].frame + g[id].encoded]
           e == [id \in DOMAIN h |-> h[id].frame + h[id].encoded]
<1>1. NewHandle \in Handle /\ NewHandle.frame + NewHandle.encoded = 0
  BY DEF NewHandle, Handle
<1>2. PICK R : R = S \cup {x}
  OBVIOUS
<1>3. IsFiniteSet(R) /\ x \in R /\ R \ {x} = S
  BY <1>2, FS_AddElement
<1>4. f \in [R -> Nat] /\ e \in [R \ {x} -> Nat]
  BY <1>1, <1>2, <1>3 DEF Handle
<1>5. \A i \in R \ {x} : e[i] = f[i]
  BY <1>3
<1>6. f[x] = 0
  BY <1>1
<1>7. Transfers(g) = Total(f) /\ Transfers(h) = Total(e)
  BY DEF Transfers
<1> HIDE DEF e, f
<1>8. Total(f) = Total(e) + f[x] /\ Total(e) \in Nat
  BY <1>3, <1>4, <1>5, TotalSplit
<1> QED
  BY <1>6, <1>7, <1>8

LEMMA NewHandleIs ==
  /\ NewHandle \in Handle /\ Held(NewHandle) = 0 /\ NewHandle.scratch = 0
  /\ NewHandle.facts = 0 /\ NewHandle.frame = 0 /\ NewHandle.encoded = 0
BY DEF NewHandle, Handle, Held

LEMMA RequestingFinishes ==
  ASSUME NEW c, NEW h, HostSound(c, h), NEW key, NEW revision \in Nat,
         ~ RequestRefused(c, key, revision), ~ Repeats(c, key, revision),
         NEW d, d = Requested(c, key, revision),
         NEW g, g = With(h, c.last + 1, NewHandle)
  PROVE  Finished(c, d, g) /\ IsOf(d, c.last + 1, revision)
<1>1. CoreSound(c) /\ ReadyHeld(c) /\ HandlesSound(c, h) /\ CoreTyped(c)
  BY DEF HostSound, CoreSound
<1>2. /\ CoreSound(d) /\ ReadyHeld(d) /\ ~ d.retired
      /\ \E s : CoreSound(s) /\ Eases(c, s) /\ Begins(s, d, key, revision)
  BY <1>1, Requesting
<1>3. PICK s : CoreSound(s) /\ Eases(c, s) /\ Begins(s, d, key, revision)
  BY <1>2
<1>4. CoreTyped(s) /\ CoreTyped(d)
  BY <1>2, <1>3 DEF CoreSound
<1>5. HandlesSound(s, h)
  BY <1>1, <1>3, <1>4, HandlesEased
<1>6. PICK id : id = c.last + 1
  OBVIOUS
<1>7. /\ d.last = id /\ id \in Nat /\ c.last \in Nat /\ s.last = c.last
      /\ id \notin Jobs(s) /\ Jobs(d) = Jobs(s) \cup {id} /\ d.flight = s.flight
      /\ d.jobs[id] = NewJob(key, revision) /\ \A i \in Jobs(s) : d.jobs[i] = s.jobs[i]
  BY <1>1, <1>3, <1>6 DEF Begins, Eases, CoreTyped
<1>8. /\ DOMAIN g = DOMAIN h \cup {id} /\ g[id] = NewHandle
      /\ \A i \in DOMAIN h : i # id => g[i] = h[i]
  <2>1. g = With(h, id, NewHandle)
    BY <1>6
  <2> QED
    BY <2>1 DEF With
<1>9. /\ DOMAIN h \subseteq Jobs(s) /\ IsFiniteSet(DOMAIN h)
      /\ \A i \in DOMAIN h : h[i] \in Handle /\ HandleSound(s, h, i)
      /\ ScratchUsed(s) + Transfers(h) <= MaxScratch
      /\ ScratchUsed(s) \in Nat
  BY <1>4, <1>5, HandlesAre
<1>10. /\ d.jobs[id].outcome = "none" /\ ~ d.jobs[id].acked
       /\ d.jobs[id].revision = revision /\ d.jobs[id].source = SourceSize
       /\ d.jobs[id].scratch = 0 /\ d.jobs[id].facts = 0
  BY <1>7, NewJobIs
<1>11. DOMAIN g = {i \in Jobs(d) : Live(d.jobs[i])}
  <2>1. Live(d.jobs[id])
    BY <1>10 DEF Live, Open
  <2>2. DOMAIN h = {i \in Jobs(s) : Live(s.jobs[i])}
    BY <1>5 DEF HandlesSound
  <2> QED
    BY <1>7, <1>8, <2>1, <2>2
<1>12. ASSUME NEW i \in DOMAIN g
       PROVE  HandleSound(d, g, i)
  <2>1. CASE i = id
    BY <1>8, <1>10, <2>1, NewHandleIs DEF HandleSound, SourceSize
  <2>2. CASE i # id
    <3>1. i \in DOMAIN h /\ g[i] = h[i] /\ d.jobs[i] = s.jobs[i] /\ HandleSound(s, h, i)
      BY <1>7, <1>8, <1>9, <2>2
    <3>2. Parsing(d, i) <=> Parsing(s, i)
      BY <1>7 DEF Parsing
    <3> QED
      BY <3>1, <3>2 DEF HandleSound
  <2> QED
    BY <2>1, <2>2
<1>13. Transfers(g) = Transfers(h)
  <2>1. id \notin DOMAIN h
    BY <1>7, <1>9
  <2>2. \A i \in DOMAIN h : g[i] = h[i]
    BY <1>8, <2>1
  <2> QED
    BY <1>8, <1>9, <2>1, <2>2, OneMoreHandle
<1>14. ScratchUsed(d) = ScratchUsed(s)
  <2>1. "scratch" \in Sizes /\ Jobs(s) \in SUBSET Jobs(s) /\ Jobs(d) = Jobs(s) \cup {d.last}
    BY <1>3 DEF Sizes, Begins
  <2>2. Holds(d, "scratch", Jobs(s) \cup {d.last})
          = Holds(s, "scratch", Jobs(s)) + NewJob(key, revision)["scratch"]
    BY <1>3, <1>4, <2>1, BegunUses
  <2>3. NewJob(key, revision)["scratch"] = 0
    BY DEF NewJob
  <2> QED
    BY <1>9, <2>1, <2>2, <2>3, UsesAre
<1>15. HandlesSound(d, g)
  BY <1>9, <1>11, <1>12, <1>13, <1>14 DEF HandlesSound
<1>16. Extends(c, d)
  <2>1. 1 .. c.last \subseteq 1 .. d.last /\ id \notin 1 .. c.last
    BY <1>6, <1>7
  <2>2. Extends(c, s)
    BY <1>3, EasedExtends
  <2> QED
    BY <1>7, <2>1, <2>2 DEF Extends
<1>17. IsOf(d, id, revision)
  <2>1. id \in 1 .. d.last
    BY <1>6, <1>7
  <2> QED
    BY <1>10, <2>1 DEF IsOf
<1>18. NoneLeft(d)
  BY <1>2 DEF NoneLeft
<1> QED
  BY <1>2, <1>6, <1>15, <1>16, <1>17, <1>18 DEF Finished

(* A repeated revision has a job.                                          *)
LEMMA RepeatedIsOf ==
  ASSUME NEW c, CoreSound(c), NEW key, NEW revision, Repeats(c, key, revision)
  PROVE  IsOf(c, c.buffers[key].current, revision)
<1>1. BufferSound(c, key) /\ c.buffers[key].current # 0 /\ Jobs(c) \subseteq 1 .. c.last
      /\ c.buffers[key].revision = revision
  BY DEF CoreSound, CoreTyped, Repeats
<1> QED
  BY <1>1 DEF BufferSound, IsOf

-------------------------------------------------------------------------------
(* Every step leaves the host sound.                                       *)

LEMMA TransferUsedIs == TransferUsed = Transfers(handles)
BY DEF TransferUsed, Transfers

LEMMA PlansFinishes ==
  ASSUME NEW d, NEW h, Finished(core, d, h), Plans(d)
  PROVE  Finished(core, core', h) /\ Extends(d, core')
<1>1. core' = Planned(d)
  BY DEF Plans
<1> QED
  BY <1>1, ThenPlanned

(* A phase runs when it fits in what its plan and the transfers left.      *)
LEMMA PhaseFits ==
  ASSUME HostSound(core, handles), core.flight.kind = "parse",
         PhaseIsCurrent(core, core.flight.job),
         NEW phase, phase = core.flight.phase,
         ScratchOf[phase] <= ScratchLeft, FactsOf[phase] <= core.flight.facts,
         NEW scratch, scratch = IF phase = Phases THEN 0 ELSE ScratchOf[phase]
  PROVE  Fits(core, handles, scratch, FactsOf[phase])
<1>1. CoreSound(core) /\ HandlesSound(core, handles) /\ CoreTyped(core)
  BY DEF HostSound, CoreSound
<1>2. PICK id : id = core.flight.job
  OBVIOUS
<1>3. id \in Jobs(core) /\ JobSound(core, id)
  <2>1. core.flight.kind # "none"
    OBVIOUS
  <2> QED
    BY <1>1, <1>2, <2>1, InFlight
<1>4. phase \in 1 .. Phases
  <2>1. core.jobs[id].outcome = "none" /\ phase = core.jobs[id].phase
    BY <1>1, <1>2 DEF PhaseIsCurrent, CoreSound, FlightSound
  <2> QED
    BY <1>3, <2>1 DEF JobSound
<1>5. ScratchOf[phase] \in Nat /\ FactsOf[phase] \in Nat
  BY <1>4, NeedsAssumption DEF NeedsAssumption
<1>6. Transfers(handles) \in Nat /\ core.flight.scratch \in Nat
  BY <1>1, HandlesAre DEF CoreTyped, Flight
<1>7. ScratchLeft = IF core.flight.scratch > Transfers(handles)
                      THEN core.flight.scratch - Transfers(handles) ELSE 0
  BY TransferUsedIs DEF ScratchLeft
<1>8. scratch \in Nat
  BY <1>5
<1>9. scratch = 0 \/ scratch + Transfers(handles) <= core.flight.scratch
  BY <1>5, <1>6, <1>7
<1> QED
  BY <1>5, <1>8, <1>9 DEF Fits

LEMMA EffectFinishes ==
  ASSUME HostSound(core, handles), DropJob \/ SkipPhase \/ ParsePhase
  PROVE  Finished(core, core', handles')
<1>1. /\ CoreSound(core) /\ ReadyHeld(core) /\ NoneLeft(core)
      /\ HandlesSound(core, handles)
  BY DEF HostSound
<1>2. CASE DropJob
  <2>1. PICK d : d = Dropped(core)
    OBVIOUS
  <2>2. /\ core.flight.kind = "drop" /\ Plans(d)
        /\ handles' = Without(handles, {core.flight.job})
    BY <1>2, <2>1 DEF DropJob
  <2>3. Finished(core, d, handles')
    BY <1>1, <2>1, <2>2, Dropping
  <2> QED
    BY <2>2, <2>3, PlansFinishes
<1>3. CASE SkipPhase
  <2>1. PICK d : d = Skipped(core)
    OBVIOUS
  <2>2. /\ core.flight.kind = "parse" /\ ~ PhaseIsCurrent(core, core.flight.job)
        /\ Plans(d)
        /\ handles' = [handles EXCEPT ![core.flight.job] = Emptied(@)]
    BY <1>3, <2>1 DEF SkipPhase
  <2>3. Finished(core, d, handles')
    BY <1>1, <2>1, <2>2, Skipping
  <2> QED
    BY <2>2, <2>3, PlansFinishes
<1>4. CASE ParsePhase
  <2> DEFINE phase == core.flight.phase
             id == core.flight.job
             fits == ScratchOf[phase] <= ScratchLeft /\ FactsOf[phase] <= core.flight.facts
  <2>1. core.flight.kind = "parse" /\ PhaseIsCurrent(core, id)
    BY <1>4 DEF ParsePhase
  <2>2. PICK scratch : scratch = IF phase = Phases THEN 0 ELSE ScratchOf[phase]
    OBVIOUS
  <2>3. CASE fits
    <3>1. PICK d : d = Parsed(core, scratch, FactsOf[phase])
      OBVIOUS
    <3>2. Plans(d)
      BY <1>4, <2>2, <2>3, <3>1 DEF ParsePhase
    <3>3. handles' = [handles EXCEPT ![id] =
            Filled(@, phase, scratch, FactsOf[phase])]
      BY <1>4, <2>2, <2>3 DEF ParsePhase
    <3>4. ParsedAt(core, handles, id, scratch, FactsOf[phase], handles')
      BY <3>3 DEF ParsedAt
    <3>5. Fits(core, handles, scratch, FactsOf[phase])
      BY <2>1, <2>2, <2>3, PhaseFits
    <3>6. Finished(core, d, handles')
      BY <1>1, <2>1, <3>1, <3>4, <3>5, ParsedFinishes
    <3> QED
      BY <3>2, <3>6, PlansFinishes
  <2>4. CASE ~ fits
    <3>1. PICK d : d = OutOfSpace(core)
      OBVIOUS
    <3>2. Plans(d)
      BY <1>4, <2>4, <3>1 DEF ParsePhase
    <3>3. handles' = [handles EXCEPT ![core.flight.job] = Emptied(@)]
      BY <1>4, <2>4 DEF ParsePhase
    <3>4. Finished(core, d, handles')
      BY <1>1, <2>1, <3>1, <3>3, RunningOut
    <3> QED
      BY <3>2, <3>4, PlansFinishes
  <2> QED
    BY <2>3, <2>4
<1> QED
  BY <1>2, <1>3, <1>4

LEMMA ReducesTo ==
  ASSUME NEW w, NEW c, NEW d, NEW result, Reduces(w, c, d, result)
  PROVE  Plans(d)
BY DEF Reduces, Answers, Plans

LEMMA ServeFinishes ==
  ASSUME HostSound(core, handles), NEW w \in Windows, win[w].run.revision \in Nat, Serve(w)
  PROVE  Finished(core, core', handles')
<1>0. CoreSound(core) /\ CoreTyped(core)
  BY DEF HostSound, CoreSound
<1>1. ASSUME UNCHANGED <<core, handles>>
      PROVE  Finished(core, core', handles')
  BY <1>1, SameHost
<1>2. ASSUME ServeRequest(w)
      PROVE  Finished(core, core', handles')
  <2>1. PICK c \in Sent(w, "request") :
          LET key == <<w, c.of>>
              revision == win[w].run.revision
              id == IF Repeats(core, key, revision) THEN core.buffers[key].current
                                                    ELSE core.last + 1
          IN  IF work.closing \/ RequestRefused(core, key, revision) THEN Refuses(w, c)
              ELSE /\ Reduces(w, c, Requested(core, key, revision), id)
                   /\ handles' = IF Repeats(core, key, revision) THEN handles
                                   ELSE With(handles, id, NewHandle)
    BY <1>2 DEF ServeRequest
  <2>2. PICK key : key = <<w, c.of>>
    OBVIOUS
  <2>3. PICK revision \in Nat : revision = win[w].run.revision
    OBVIOUS
  <2>4. PICK d : d = Requested(core, key, revision)
    OBVIOUS
  <2>5. CASE work.closing \/ RequestRefused(core, key, revision)
    <3>1. Refuses(w, c)
      BY <2>1, <2>2, <2>3, <2>5
    <3> QED
      BY <1>1, <3>1 DEF Refuses
  <2>6. CASE /\ ~ (work.closing \/ RequestRefused(core, key, revision))
             /\ Repeats(core, key, revision)
    <3>1. PICK id : Reduces(w, c, d, id)
      BY <2>1, <2>2, <2>3, <2>4, <2>6
    <3>2. handles' = handles
      BY <2>1, <2>2, <2>3, <2>6
    <3>3. d = core
      BY <2>4, <2>6 DEF Requested
    <3>4. Finished(core, d, handles')
      BY <3>2, <3>3, SameHost
    <3> QED
      BY <3>1, <3>4, ReducesTo, PlansFinishes
  <2>7. CASE /\ ~ (work.closing \/ RequestRefused(core, key, revision))
             /\ ~ Repeats(core, key, revision)
    <3>1. Reduces(w, c, d, core.last + 1)
      BY <2>1, <2>2, <2>3, <2>4, <2>7
    <3>2. handles' = With(handles, core.last + 1, NewHandle)
      BY <2>1, <2>2, <2>3, <2>7
    <3>3. Finished(core, d, handles')
      BY <2>4, <2>7, <3>2, RequestingFinishes
    <3> QED
      BY <3>1, <3>3, ReducesTo, PlansFinishes
  <2> QED
    BY <2>5, <2>6, <2>7
<1>3. ASSUME ServeUpload(w)
      PROVE  Finished(core, core', handles')
  <2>1. PICK c \in Sent(w, "upload") :
          LET room == Headroom >= SourceSize
          IN  IF ~ MayUpload(c.of) THEN Refuses(w, c)
              ELSE /\ handles' = [handles EXCEPT
                                    ![c.of].input = "upload",
                                    ![c.of].frame = IF room THEN SourceSize ELSE @]
                   /\ core' = core
    BY <1>3 DEF ServeUpload, Answers
  <2>2. CASE ~ MayUpload(c.of)
    BY <1>1, <2>1, <2>2 DEF Refuses
  <2>3. CASE MayUpload(c.of)
    <3>1. PICK id : id = c.of
      OBVIOUS
    <3>2. IsCurrent(core, id) /\ id \in DOMAIN handles
      BY <2>3, <3>1 DEF MayUpload
    <3>3. handles[id] \in Handle
      BY <3>2, UploadHandle
    <3>4. PICK frame : frame = IF Headroom >= SourceSize THEN SourceSize
                               ELSE handles[id].frame
      OBVIOUS
    <3>5. /\ DOMAIN handles' = DOMAIN handles
          /\ \A i \in DOMAIN handles : i # id => handles'[i] = handles[i]
          /\ handles'[id] = [handles[id] EXCEPT !.input = "upload", !.frame = frame]
      BY <2>1, <2>3, <3>1, <3>2, <3>4
    <3>6. frame \in Nat
      BY <3>3, <3>4 DEF SourceSize, Handle
    <3>7. Refilled(handles, id, "upload", frame, handles')
      BY <3>3, <3>5, <3>6 DEF Refilled, Handle
    <3>8. \/ frame <= handles[id].frame
          \/ /\ frame = SourceSize
             /\ MaxScratch - ScratchUsed(core) - Transfers(handles) >= SourceSize
      BY <3>3, <3>4, TransferUsedIs DEF Headroom, Handle
    <3>9. HostSound(core, handles')
      BY <3>2, <3>6, <3>7, <3>8, Refilling
    <3>10. core' = core
      BY <2>1, <2>3
    <3> QED
      BY <3>9, <3>10, SameHost
  <2> QED
    BY <2>2, <2>3
<1>4. ASSUME ServeSeal(w)
      PROVE  Finished(core, core', handles')
  <2>1. PICK c \in Sent(w, "seal") :
          IF ~ MayUpload(c.of) \/ Headroom < SourceSize THEN Refuses(w, c)
          ELSE /\ handles' = [handles EXCEPT ![c.of].input = "parser", ![c.of].frame = 0]
               /\ Reduces(w, c, Sealed(core, c.of), 0)
    BY <1>4 DEF ServeSeal
  <2>2. CASE ~ MayUpload(c.of) \/ Headroom < SourceSize
    BY <1>1, <2>1, <2>2 DEF Refuses
  <2>3. CASE ~ (~ MayUpload(c.of) \/ Headroom < SourceSize)
    <3>1. PICK id : id = c.of
      OBVIOUS
    <3>2. IsCurrent(core, id) /\ id \in DOMAIN handles
      BY <2>3, <3>1 DEF MayUpload
    <3>3. /\ handles[id] \in Handle /\ id \in Jobs(core)
          /\ core.jobs[id].outcome = "none"
      BY <3>2, UploadHandle
    <3>4. /\ DOMAIN handles' = DOMAIN handles
          /\ \A i \in DOMAIN handles : i # id => handles'[i] = handles[i]
          /\ handles'[id] = [handles[id] EXCEPT !.input = "parser", !.frame = 0]
      BY <2>1, <2>3, <3>1, <3>2
    <3>5. PICK frame \in Nat : frame = 0
      OBVIOUS
    <3>6. frame <= handles[id].frame
      BY <3>3, <3>5 DEF Handle
    <3>11. /\ handles'[id].input = "parser" /\ handles'[id].frame = frame
           /\ handles'[id].scratch = handles[id].scratch
           /\ handles'[id].facts = handles[id].facts
           /\ handles'[id].encoded = handles[id].encoded /\ handles'[id] \in Handle
      BY <3>3, <3>4, <3>5 DEF Handle
    <3>12. Refilled(handles, id, "parser", frame, handles')
      BY <3>4, <3>11 DEF Refilled
    <3>7. HostSound(core, handles')
      BY <3>2, <3>6, <3>12, Refilling
    <3>8. PICK d : d = Sealed(core, id)
      OBVIOUS
    <3>9. Finished(core, d, handles')
      BY <3>3, <3>7, <3>8, SealingFinishes
    <3>10. Reduces(w, c, d, 0)
      BY <2>1, <2>3, <3>1, <3>8
    <3> QED
      BY <3>9, <3>10, ReducesTo, PlansFinishes
  <2> QED
    BY <2>2, <2>3
<1>5. ASSUME ServePrepare(w)
      PROVE  Finished(core, core', handles')
  <2>1. PICK c \in Sent(w, "prepare") :
          IF ~ MayRead(c.of) \/ (handles[c.of].encoded = 0 /\ Headroom < handles[c.of].facts)
            THEN Refuses(w, c)
          ELSE /\ handles' = [handles EXCEPT ![c.of].encoded = handles[c.of].facts]
               /\ core' = core
    BY <1>5 DEF ServePrepare, Answers
  <2>2. CASE \/ ~ MayRead(c.of)
             \/ handles[c.of].encoded = 0 /\ Headroom < handles[c.of].facts
    BY <1>1, <2>1, <2>2 DEF Refuses
  <2>3. CASE ~ (\/ ~ MayRead(c.of)
                \/ handles[c.of].encoded = 0 /\ Headroom < handles[c.of].facts)
    <3>1. PICK id : id = c.of
      OBVIOUS
    <3>2. core.jobs[id].outcome = "ready" /\ id \in DOMAIN handles
      BY <2>3, <3>1 DEF MayRead
    <3>3. \/ handles[id].encoded # 0
          \/ MaxScratch - ScratchUsed(core) - Transfers(handles) >= handles[id].facts
      <4>1. /\ handles[id] \in Handle /\ Transfers(handles) \in Nat
            /\ ScratchUsed(core) \in Nat /\ MaxScratch \in Nat
        BY <1>0, <3>2, HandlesAre DEF HostSound
      <4>2. handles[id].encoded # 0 \/ ~ (Headroom < handles[id].facts)
        BY <2>3, <3>1
      <4> QED
        BY <4>1, <4>2, TransferUsedIs DEF Headroom, Handle
    <3>4. handles' = [handles EXCEPT ![id].encoded = handles[id].facts] /\ core' = core
      BY <2>1, <2>3, <3>1
    <3>5. HostSound(core, handles')
      BY <3>2, <3>3, <3>4, Encoding
    <3> QED
      BY <3>4, <3>5, SameHost
  <2> QED
    BY <2>2, <2>3
<1>6. ASSUME ServeRead(w)
      PROVE  Finished(core, core', handles')
  BY <1>1, <1>6 DEF ServeRead, Refuses, Tells
<1>7. ASSUME ServeCancel(w)
      PROVE  Finished(core, core', handles')
  <2>1. handles' = handles
    BY <1>7 DEF ServeCancel
  <2>2. core' = core \/ \E id : core' = Planned(Stopped(core, {id}, "cancelled"))
    BY <1>7 DEF ServeCancel
  <2>3. CASE core' = core
    BY <1>1, <2>1, <2>3
  <2>4. ASSUME NEW id, core' = Planned(Stopped(core, {id}, "cancelled"))
        PROVE  Finished(core, core', handles')
    <3>1. PICK d : d = Stopped(core, {id}, "cancelled")
      OBVIOUS
    <3>2. Finished(core, d, handles)
      BY <3>1, StoppingFinishes DEF Ends
    <3>3. core' = Planned(d)
      BY <2>4, <3>1
    <3> QED
      BY <2>1, <3>2, <3>3, ThenPlanned
  <2> QED
    BY <2>2, <2>3, <2>4
<1>8. ASSUME ServeAcknowledge(w)
      PROVE  Finished(core, core', handles')
  <2>1. PICK c \in Sent(w, "acknowledge") :
          IF c.of \notin Jobs(core) \/ core.jobs[c.of].outcome = "none" THEN Refuses(w, c)
          ELSE UNCHANGED handles /\ Reduces(w, c, Acknowledged(core, c.of), 0)
    BY <1>8 DEF ServeAcknowledge
  <2>2. CASE c.of \notin Jobs(core) \/ core.jobs[c.of].outcome = "none"
    BY <1>1, <2>1, <2>2 DEF Refuses
  <2>3. CASE ~ (c.of \notin Jobs(core) \/ core.jobs[c.of].outcome = "none")
    <3>1. PICK d : d = Acknowledged(core, c.of)
      OBVIOUS
    <3>2. Finished(core, d, handles)
      BY <2>3, <3>1, AcknowledgingFinishes
    <3>3. Reduces(w, c, d, 0) /\ handles' = handles
      BY <2>1, <2>3, <3>1
    <3> QED
      BY <3>2, <3>3, ReducesTo, PlansFinishes
  <2> QED
    BY <2>2, <2>3
<1>9. ASSUME ServeRelease(w)
      PROVE  Finished(core, core', handles')
  <2>1. PICK c \in Sent(w, "release") :
          UNCHANGED handles /\ Reduces(w, c, ReleasedBuffers(core, {<<w, c.of>>}), 0)
    BY <1>9 DEF ServeRelease
  <2>2. PICK d : d = ReleasedBuffers(core, {<<w, c.of>>})
    OBVIOUS
  <2>3. Finished(core, d, handles)
    BY <2>2, ReleasingFinishes
  <2>4. Reduces(w, c, d, 0) /\ handles' = handles
    BY <2>1, <2>2
  <2> QED
    BY <2>3, <2>4, ReducesTo, PlansFinishes
<1> QED
  BY <1>2, <1>3, <1>4, <1>5, <1>6, <1>7, <1>8, <1>9 DEF Serve

(* Whatever happens, the host stays sound, and what windows know of its    *)
(* jobs stays true.                                                        *)
LEMMA HostStep ==
  ASSUME HostSound(core, handles), \A w \in Windows : win[w].run.revision \in Nat,
         [Next]_vars
  PROVE  Finished(core, core', handles')
<1>1. ASSUME UNCHANGED <<core, handles>>
      PROVE  Finished(core, core', handles')
  BY <1>1, SameHost
<1>2. ASSUME NEW w \in Windows,
             \/ Update(w) \/ Encode(w) \/ Woken(w) \/ Close(w) \/ JoinClose(w)
             \/ Reply(w) \/ Observe(w) \/ Lose(w)
      PROVE  Finished(core, core', handles')
  BY <1>1, <1>2 DEF Update, Encode, Woken, Close, JoinClose, Reply, Replied, Observe, Lose
<1>3. ASSUME NEW w \in Windows, Vanish(w)
      PROVE  Finished(core, core', handles')
  <2>1. PICK d : d = ReleasedBuffers(core, Keys(w))
    OBVIOUS
  <2>2. Plans(d) /\ handles' = handles
    BY <1>3, <2>1 DEF Vanish
  <2>3. Finished(core, d, handles)
    BY <2>1, ReleasingFinishes
  <2> QED
    BY <2>2, <2>3, PlansFinishes
<1>4. ASSUME BeginClose
      PROVE  Finished(core, core', handles')
  <2>1. PICK d : d = Retired(core)
    OBVIOUS
  <2>2. Plans(d) /\ handles' = handles
    BY <1>4, <2>1 DEF BeginClose
  <2>3. Finished(core, d, handles)
    BY <2>1, RetiringFinishes
  <2> QED
    BY <2>2, <2>3, PlansFinishes
<1>5. ASSUME Turn
      PROVE  Finished(core, core', handles')
  BY <1>1, <1>5, EffectFinishes DEF Turn, StepIndex, StepDraft, NoWork
<1>6. ASSUME Quit \/ UNCHANGED vars
      PROVE  Finished(core, core', handles')
  BY <1>1, <1>6 DEF Quit, vars
<1>7. ASSUME NEW w \in Windows, Serve(w)
      PROVE  Finished(core, core', handles')
  BY <1>7, ServeFinishes
<1> QED
  BY <1>2, <1>3, <1>4, <1>5, <1>6, <1>7 DEF Next

-------------------------------------------------------------------------------
(* What a window may rely on.                                              *)

WindowFields == {"revision", "demanded", "closed", "gone", "closing", "status", "view",
                 "next", "run", "slots", "leases", "lease", "leaseRetired", "lastLease",
                 "hint", "failed", "calls"}
JobOps == {"upload", "seal", "prepare", "read"}
RunOps == JobOps \cup {"request"}

CallFields == {"op", "of", "stage", "outcomes", "result"}

(* A call that no run waits for, and the calls of a run.                   *)
Aside(c) == DOMAIN c = CallFields /\ c.op \notin RunOps
RunCalls(p) == {c \in p.calls : ~ Aside(c)}

RunSound(run) ==
  /\ run = [f \in DOMAIN NoRun |-> run[f]]
  /\ run.pc \in {"none", "source", "wait", "ack"} \cup RunOps
  /\ run.stale \in BOOLEAN /\ run.woken \in BOOLEAN /\ run.revision \in Nat
  /\ run.pc = "none" => run = NoRun
  /\ run.woken => run.pc = "wait"

WinShape(p) ==
  /\ DOMAIN p = WindowFields /\ RunSound(p.run)
  /\ p.closed \in BOOLEAN /\ p.revision \in Nat
  /\ p.status \in {"unsupported", "pending", "current", "unavailable"}
  /\ p.closing \in {"no", "early", "final", "done"}
  /\ p.view.text = p.view.revision

(* What is shown as current is of the window's text.                       *)
Shows(p) == p.status = "current" => p.view.revision = p.revision

(* A call of a run is the one the run waits for; what it brings is about   *)
(* the text of the run.                                                    *)
CallSound(d, run, c) ==
  /\ DOMAIN c = CallFields
  /\ c.stage \in {"sent", "ok", "error"}
  /\ c.op = run.pc
  /\ c.op \in JobOps => c.of = run.job
  /\ c.op = "request" /\ c.stage = "ok" => IsOf(d, c.result, run.revision)
  /\ c.op = "read" /\ c.stage = "ok" => c.result = run.revision

(* The job of a run has the text of the run, which is the window's as long *)
(* as the run is not stale.                                                *)
RunIs(d, p) ==
  /\ p.run.pc # "none" /\ ~ IsStale(p) => p.run.revision = p.revision
  /\ p.run.pc \in JobOps \cup {"wait"} => IsOf(d, p.run.job, p.run.revision)
  /\ \A c \in RunCalls(p) : CallSound(d, p.run, c)
  /\ \A c, e \in RunCalls(p) : c = e

WinSound(d, p) == WinShape(p) /\ Shows(p) /\ RunIs(d, p)

(* q is p but for what the invariant does not speak of.                    *)
Kin(p, q) ==
  /\ DOMAIN q = WindowFields
  /\ q.closed = p.closed /\ q.revision = p.revision /\ q.status = p.status
  /\ q.closing = p.closing /\ q.view = p.view
  /\ RunSound(q.run) /\ q.run.pc = p.run.pc /\ q.run.stale = p.run.stale
  /\ q.run.revision = p.run.revision /\ q.run.job = p.run.job
  /\ RunCalls(q) = RunCalls(p)

LEMMA KinShape ==
  ASSUME NEW p, WinShape(p), NEW q, Kin(p, q)
  PROVE  WinShape(q) /\ (Shows(p) => Shows(q))
BY DEF WinShape, Shows, Kin

LEMMA KinSound ==
  ASSUME NEW d, NEW p, WinSound(d, p), NEW q, Kin(p, q)
  PROVE  WinSound(d, q)
<1>1. WinShape(q) /\ Shows(q)
  BY KinShape DEF WinSound
<1>2. ASSUME NEW c \in RunCalls(q)
      PROVE  CallSound(d, q.run, c)
  BY DEF Kin, WinSound, RunIs, CallSound
<1>3. RunIs(d, q)
  BY <1>2 DEF Kin, WinSound, RunIs, IsStale
<1> QED
  BY <1>1, <1>3 DEF WinSound

LEMMA WinStands ==
  ASSUME NEW c, NEW d, Extends(c, d), NEW p, WinSound(c, p)
  PROVE  WinSound(d, p)
<1>1. \A id, revision : IsOf(c, id, revision) => IsOf(d, id, revision)
  BY StillIsOf
<1>2. ASSUME NEW x \in RunCalls(p)
      PROVE  CallSound(d, p.run, x)
  BY <1>1 DEF WinSound, RunIs, CallSound
<1> QED
  BY <1>1, <1>2 DEF WinSound, RunIs

-------------------------------------------------------------------------------
(* The operations of a window that leave its run alone.                    *)

LEMMA OtherCalls ==
  ASSUME NEW p, NEW q, NEW X, q.calls = p.calls \cup X, \A x \in X : Aside(x)
  PROVE  RunCalls(q) = RunCalls(p)
BY DEF RunCalls

LEMMA NotRunOps ==
  /\ "acknowledge" \notin RunOps /\ "cancel" \notin RunOps /\ "snapshot" \notin RunOps
  /\ "release" \notin RunOps
BY DEF RunOps, JobOps

LEMMA NewAside ==
  ASSUME NEW op, op \notin RunOps, NEW of
  PROVE  Aside(NewCall(op, of))
BY DEF Aside, NewCall, CallFields

LEMMA NewCallsAside ==
  ASSUME NEW p, NEW op, op \notin RunOps, NEW S, NEW c \in NewCalls(p, op, S)
  PROVE  Aside(c)
BY NewAside DEF NewCalls

LEMMA AcksAside ==
  ASSUME NEW p, NEW jobs, NEW c \in Acks(p, jobs)
  PROVE  Aside(c)
BY NewCallsAside, NotRunOps DEF Acks

LEMMA WokeIs ==
  ASSUME NEW run, RunSound(run), NEW r, r = Woke(run)
  PROVE  /\ RunSound(r) /\ r.pc = run.pc /\ r.stale = run.stale
         /\ r.revision = run.revision /\ r.job = run.job
<1>1. DOMAIN NoRun = {"pc", "stale", "woken", "revision", "lease", "job"}
  BY DEF NoRun
<1>2. /\ DOMAIN run = {"pc", "stale", "woken", "revision", "lease", "job"}
      /\ run = [f \in DOMAIN run |-> run[f]]
  BY <1>1 DEF RunSound
<1>3. r = [run EXCEPT !.woken = run.woken \/ run.pc = "wait"]
  BY DEF Woke
<1>4. /\ r.pc = run.pc /\ r.stale = run.stale /\ r.revision = run.revision
      /\ r.job = run.job /\ r.lease = run.lease
      /\ r = [f \in DOMAIN NoRun |-> r[f]]
  BY <1>1, <1>2, <1>3
<1>5. r.woken \in BOOLEAN /\ (r.woken => r.pc = "wait")
  BY <1>2, <1>3, <1>4 DEF RunSound
<1>6. run.pc = "none" => r = NoRun
  <2>1. SUFFICES ASSUME run.pc = "none"
                 PROVE  r = NoRun
    OBVIOUS
  <2>2. run = NoRun
    BY <2>1 DEF RunSound
  <2> QED
    BY <1>3, <2>1, <2>2 DEF NoRun
<1> QED
  BY <1>4, <1>5, <1>6 DEF RunSound

(* A window whose run is as it was, or woken.                              *)
LEMMA KinIf ==
  ASSUME NEW p, WinShape(p), NEW q, DOMAIN q = DOMAIN p,
         q.closed = p.closed, q.revision = p.revision, q.status = p.status,
         q.closing = p.closing, q.view = p.view,
         q.run = p.run \/ q.run = Woke(p.run),
         RunCalls(q) = RunCalls(p)
  PROVE  Kin(p, q)
<1>1. /\ RunSound(q.run) /\ q.run.pc = p.run.pc /\ q.run.stale = p.run.stale
      /\ q.run.revision = p.run.revision /\ q.run.job = p.run.job
  <2>1. CASE q.run = p.run
    BY <2>1 DEF WinShape
  <2>2. CASE q.run = Woke(p.run)
    BY <2>2, WokeIs DEF WinShape
  <2> QED
    BY <2>1, <2>2
<1> QED
  BY <1>1 DEF Kin, WinShape

LEMMA WakeKin ==
  ASSUME NEW p, WinShape(p), NEW q, q = Wake(p)
  PROVE  Kin(p, q)
<1>1. /\ DOMAIN q = DOMAIN p /\ q.closed = p.closed /\ q.revision = p.revision
      /\ q.status = p.status /\ q.closing = p.closing /\ q.view = p.view
      /\ q.run = Woke(p.run) /\ q.calls = p.calls
  BY DEF Wake, WinShape, WindowFields
<1>2. RunCalls(q) = RunCalls(p)
  BY <1>1 DEF RunCalls
<1> QED
  BY <1>1, <1>2, KinIf

LEMMA RetireKin ==
  ASSUME NEW p, WinShape(p), NEW jobs, NEW q, q = RetireSlots(p, jobs)
  PROVE  Kin(p, q)
<1>1. PICK mine : mine = jobs \cap DOMAIN p.slots
  OBVIOUS
<1>2. PICK ended : ended = {job \in mine : p.slots[job].outcome # "none"}
  OBVIOUS
<1>3. PICK X : X = NewCalls(p, "cancel", mine \ ended)
                     \cup Acks(p, {job \in ended : ~ p.slots[job].ackFailed})
  OBVIOUS
<1>4. /\ DOMAIN q = DOMAIN p /\ q.closed = p.closed /\ q.revision = p.revision
      /\ q.status = p.status /\ q.closing = p.closing /\ q.view = p.view
      /\ q.run = p.run
  BY DEF RetireSlots, WinShape, WindowFields
<1>5. q.calls = p.calls \/ q.calls = p.calls \cup X
  BY <1>1, <1>2, <1>3 DEF RetireSlots, WinShape, WindowFields
<1>6. \A x \in X : Aside(x)
  BY <1>3, NewCallsAside, AcksAside, NotRunOps
<1>7. RunCalls(q) = RunCalls(p)
  <2>1. CASE q.calls = p.calls
    BY <2>1 DEF RunCalls
  <2>2. CASE q.calls = p.calls \cup X
    BY <1>6, <2>2, OtherCalls
  <2> QED
    BY <1>5, <2>1, <2>2
<1> QED
  BY <1>4, <1>7, KinIf

LEMMA AcceptKin ==
  ASSUME NEW p, WinShape(p), NEW outcomes, NEW q, q = Accept(p, outcomes)
  PROVE  Kin(p, q)
<1>1. PICK told : told = DOMAIN outcomes \cap DOMAIN p.slots
  OBVIOUS
<1>2. PICK X : X = Acks(p, {job \in told : /\ p.slots[job].retired
                                           /\ ~ p.slots[job].ackFailed})
  OBVIOUS
<1>3. /\ DOMAIN q = DOMAIN p /\ q.closed = p.closed /\ q.revision = p.revision
      /\ q.status = p.status /\ q.closing = p.closing /\ q.view = p.view
      /\ q.run = Woke(p.run)
  BY DEF Accept, WinShape, WindowFields
<1>4. q.calls = p.calls \cup X
  BY <1>1, <1>2 DEF Accept, WinShape, WindowFields
<1>5. \A x \in X : Aside(x)
  BY <1>2, AcksAside
<1>6. RunCalls(q) = RunCalls(p)
  BY <1>4, <1>5, OtherCalls
<1> QED
  BY <1>3, <1>6, KinIf

LEMMA HintKin ==
  ASSUME NEW p, WinShape(p), NEW q, q = ObserveHint(p)
  PROVE  Kin(p, q)
<1>1. /\ DOMAIN q = DOMAIN p /\ q.closed = p.closed /\ q.revision = p.revision
      /\ q.status = p.status /\ q.closing = p.closing /\ q.view = p.view
      /\ q.run = p.run
  BY DEF ObserveHint, Call, WinShape, WindowFields
<1>2. q.calls = p.calls \/ q.calls = p.calls \cup {NewCall("snapshot", 0)}
  BY DEF ObserveHint, Call, WinShape, WindowFields
<1>5. PICK X : X = {NewCall("snapshot", 0)}
  OBVIOUS
<1>3. \A x \in X : Aside(x)
  BY <1>5, NotRunOps, NewAside
<1>4. RunCalls(q) = RunCalls(p)
  <2>1. CASE q.calls = p.calls
    BY <2>1 DEF RunCalls
  <2>2. CASE q.calls = p.calls \cup X
    BY <1>3, <2>2, OtherCalls
  <2> QED
    BY <1>2, <1>5, <2>1, <2>2
<1> QED
  BY <1>1, <1>4, KinIf

LEMMA ReleaseKin ==
  ASSUME NEW p, WinShape(p), NEW leases, NEW q, q = ReleaseLeases(p, leases)
  PROVE  Kin(p, q)
<1>1. PICK first : first = {l \in leases : p.leases[l].releasing = "no"}
  OBVIOUS
<1>2. PICK X : X = {NewCall("release", l) : l \in first}
  OBVIOUS
<1>3. /\ DOMAIN q = DOMAIN p /\ q.closed = p.closed /\ q.revision = p.revision
      /\ q.status = p.status /\ q.closing = p.closing /\ q.view = p.view
      /\ q.run = p.run
  BY DEF ReleaseLeases, WinShape, WindowFields
<1>4. q.calls = p.calls \cup X
  BY <1>1, <1>2 DEF ReleaseLeases, WinShape, WindowFields
<1>5. \A x \in X : Aside(x)
  BY <1>2, NotRunOps, NewAside
<1>6. RunCalls(q) = RunCalls(p)
  BY <1>4, <1>5, OtherCalls
<1> QED
  BY <1>3, <1>6, KinIf

LEMMA KinOn ==
  ASSUME NEW p, NEW q, NEW r, Kin(p, q), Kin(q, r)
  PROVE  Kin(p, r)
BY DEF Kin

LEMMA StartKin ==
  ASSUME NEW p, WinShape(p), NEW l, NEW q, q = StartSettled(p, l)
  PROVE  Kin(p, q)
<1>1. /\ DOMAIN q = DOMAIN p /\ q.closed = p.closed /\ q.revision = p.revision
      /\ q.status = p.status /\ q.closing = p.closing /\ q.view = p.view
      /\ q.run = p.run
  BY DEF StartSettled, Call, WinShape, WindowFields
<1>2. q.calls = p.calls \/ q.calls = p.calls \cup {NewCall("release", l)}
  BY DEF StartSettled, Call, WinShape, WindowFields
<1>5. PICK X : X = {NewCall("release", l)}
  OBVIOUS
<1>3. \A x \in X : Aside(x)
  BY <1>5, NotRunOps, NewAside
<1>4. RunCalls(q) = RunCalls(p)
  <2>1. CASE q.calls = p.calls
    BY <2>1 DEF RunCalls
  <2>2. CASE q.calls = p.calls \cup X
    BY <1>3, <2>2, OtherCalls
  <2> QED
    BY <1>2, <1>5, <2>1, <2>2
<1> QED
  BY <1>1, <1>4, KinIf

-------------------------------------------------------------------------------
(* The run of a window.                                                    *)

LEMMA NoRunIs ==
  /\ RunSound(NoRun) /\ NoRun.pc = "none" /\ ~ NoRun.stale
  /\ DOMAIN NoRun = {"pc", "stale", "woken", "revision", "lease", "job"}
BY DEF NoRun, RunSound

LEMMA NotACall ==
  /\ "none" \notin RunOps /\ "source" \notin RunOps /\ "wait" \notin RunOps
  /\ "ack" \notin RunOps /\ RunOps = JobOps \cup {"request"} /\ "request" \notin JobOps
BY DEF RunOps, JobOps

(* A run that does not wait for a call has none.                           *)
LEMMA NoCallOf ==
  ASSUME NEW d, NEW p, WinSound(d, p), p.run.pc \notin RunOps
  PROVE  RunCalls(p) = {}
BY DEF WinSound, RunIs, CallSound, RunCalls, Aside

(* The run of a window is put to another place.                            *)
Moved(p, pc, q) ==
  /\ DOMAIN q = WindowFields
  /\ q.closed = p.closed /\ q.revision = p.revision /\ q.closing = p.closing
  /\ q.view = p.view /\ q.status = p.status /\ q.calls = p.calls
  /\ RunSound(q.run) /\ q.run.pc = pc /\ q.run.stale = p.run.stale
  /\ q.run.revision = p.run.revision /\ q.run.job = p.run.job

LEMMA Moving ==
  ASSUME NEW p, WinShape(p), NEW pc \in {"wait", "ack"} \cup RunOps,
         pc # "wait" => ~ p.run.woken, p.run.pc # "none",
         NEW q, q = [p EXCEPT !.run.pc = pc]
  PROVE  Moved(p, pc, q)
<1>1. /\ DOMAIN q = DOMAIN p /\ q.closed = p.closed /\ q.revision = p.revision
      /\ q.closing = p.closing /\ q.view = p.view /\ q.status = p.status
      /\ q.calls = p.calls /\ q.run = [p.run EXCEPT !.pc = pc]
  BY DEF WinShape, WindowFields
<1>2. PICK run : run = p.run
  OBVIOUS
<1>3. RunSound(run)
  BY <1>2 DEF WinShape
<1>4. /\ DOMAIN run = {"pc", "stale", "woken", "revision", "lease", "job"}
      /\ run = [f \in DOMAIN run |-> run[f]]
  BY <1>3, NoRunIs DEF RunSound
<1>5. PICK r : r = [run EXCEPT !.pc = pc]
  OBVIOUS
<1>6. /\ r = [f \in DOMAIN NoRun |-> r[f]] /\ r.pc = pc /\ r.stale = run.stale
      /\ r.woken = run.woken /\ r.revision = run.revision /\ r.job = run.job
  BY <1>4, <1>5, NoRunIs
<1>7. RunSound(r)
  <2>1. pc # "none"
    BY NotACall
  <2> QED
    BY <1>2, <1>3, <1>6, <2>1 DEF RunSound
<1> QED
  BY ZenonT(40), <1>1, <1>2, <1>5, <1>6, <1>7 DEF Moved, WinShape

LEMMA RunlessSound ==
  ASSUME NEW d, NEW p, WinShape(p), Shows(p), p.run.pc \in {"none", "source", "ack"},
         RunCalls(p) = {},
         p.run.pc # "none" /\ ~ IsStale(p) => p.run.revision = p.revision
  PROVE  WinSound(d, p)
BY NotACall DEF WinSound, RunIs

LEMMA Driving ==
  ASSUME NEW d, NEW p, WinSound(d, p), NEW q, q = Drive(p)
  PROVE  WinSound(d, q)
<1>1. CASE p.run # NoRun \/ ~ p.next \/ p.closed
  BY <1>1 DEF Drive
<1>2. CASE ~ (p.run # NoRun \/ ~ p.next \/ p.closed)
  <2>1. PICK run : run = [NoRun EXCEPT !.pc = "source", !.revision = p.revision]
    OBVIOUS
  <2>2. q = [p EXCEPT !.next = FALSE, !.run = run]
    BY <1>2, <2>1 DEF Drive
  <2>3. WinShape(p) /\ Shows(p) /\ p.revision \in Nat
    BY DEF WinSound, WinShape
  <2>4. /\ DOMAIN q = DOMAIN p /\ q.closed = p.closed /\ q.revision = p.revision
        /\ q.closing = p.closing /\ q.view = p.view /\ q.status = p.status
        /\ q.calls = p.calls /\ q.run = run
    BY <2>2, <2>3 DEF WinShape, WindowFields
  <2>5. /\ run.pc = "source" /\ run.revision = p.revision /\ RunSound(run)
    BY <2>1, <2>3 DEF NoRun, RunSound
  <2>6. WinShape(q) /\ Shows(q)
    BY <2>3, <2>4, <2>5 DEF WinShape, Shows
  <2>7. RunCalls(q) = {}
    <3>1. RunCalls(p) = {}
      BY <1>2, NoCallOf, NoRunIs, NotACall
    <3> QED
      BY <2>4, <3>1 DEF RunCalls
  <2> QED
    BY <2>4, <2>5, <2>6, <2>7, RunlessSound
<1> QED
  BY <1>1, <1>2

(* A run ends when no call of it is under way.                             *)
LEMMA Ending ==
  ASSUME NEW d, NEW p, WinShape(p), Shows(p), RunCalls(p) = {}, NEW q, q = End(p)
  PROVE  WinSound(d, q)
<1>1. PICK a : a = RetireSlots(p, {p.run.job})
  OBVIOUS
<1>2. Kin(p, a)
  BY <1>1, RetireKin
<1>3. WinShape(a) /\ Shows(a) /\ RunCalls(a) = {}
  BY <1>2, KinShape DEF Kin
<1>4. PICK b : b = [a EXCEPT !.run = NoRun]
  OBVIOUS
<1>5. /\ DOMAIN b = DOMAIN a /\ b.closed = a.closed /\ b.revision = a.revision
      /\ b.closing = a.closing /\ b.view = a.view /\ b.status = a.status
      /\ b.calls = a.calls /\ b.run = NoRun
  BY <1>3, <1>4 DEF WinShape, WindowFields
<1>6. WinShape(b) /\ Shows(b) /\ RunCalls(b) = {}
  BY <1>3, <1>5, NoRunIs DEF WinShape, Shows, RunCalls
<1>7. WinSound(d, b)
  BY <1>5, <1>6, NoRunIs, RunlessSound
<1>8. q = Drive(b)
  BY <1>1, <1>4 DEF End
<1> QED
  BY <1>7, <1>8, Driving

LEMMA Publishing ==
  ASSUME NEW p, WinShape(p), NEW status \in {"unsupported", "pending", "current", "unavailable"},
         NEW q, q = Publish(p, status)
  PROVE  /\ WinShape(q) /\ q.status = status /\ RunCalls(q) = RunCalls(p)
         /\ status # "current" \/ p.view.revision = p.revision => Shows(q)
         /\ q.run = p.run /\ q.revision = p.revision /\ q.closed = p.closed
<1>1. /\ DOMAIN q = DOMAIN p /\ q.closed = p.closed /\ q.revision = p.revision
      /\ q.closing = p.closing /\ q.view = p.view /\ q.status = status
      /\ q.calls = p.calls /\ q.run = p.run
  BY DEF Publish, WinShape, WindowFields
<1> QED
  BY <1>1 DEF WinShape, Shows, RunCalls

LEMMA Throwing ==
  ASSUME NEW d, NEW p, WinShape(p), Shows(p), RunCalls(p) = {}, NEW q, q = Throw(p)
  PROVE  WinSound(d, q)
<1>1. PICK a : a = IF p.closed \/ p.run.stale THEN p ELSE Publish(p, "unavailable")
  OBVIOUS
<1>2. WinShape(a) /\ Shows(a) /\ RunCalls(a) = {}
  <2>1. PICK status \in {"unsupported", "pending", "current", "unavailable"} :
          status = "unavailable"
    OBVIOUS
  <2>2. CASE p.closed \/ p.run.stale
    BY <1>1, <2>2
  <2>3. CASE ~ (p.closed \/ p.run.stale)
    <3>1. a = Publish(p, status)
      BY <1>1, <2>1, <2>3
    <3> QED
      BY <2>1, <3>1, Publishing
  <2> QED
    BY <2>2, <2>3
<1>3. q = End(a)
  BY <1>1 DEF Throw
<1> QED
  BY <1>2, <1>3, Ending

(* The run calls the host.                                                 *)
LEMMA Calls ==
  ASSUME NEW d, NEW p, WinShape(p), Shows(p), RunCalls(p) = {},
         NEW op \in RunOps, p.run.pc = op, NEW of,
         op \in JobOps => of = p.run.job /\ IsOf(d, of, p.run.revision),
         ~ IsStale(p) => p.run.revision = p.revision,
         NEW q, q = Call(p, op, of)
  PROVE  WinSound(d, q)
<1>1. PICK c : c = NewCall(op, of)
  OBVIOUS
<1>2. /\ DOMAIN q = DOMAIN p /\ q.closed = p.closed /\ q.revision = p.revision
      /\ q.closing = p.closing /\ q.view = p.view /\ q.status = p.status
      /\ q.calls = p.calls \cup {c} /\ q.run = p.run
  BY <1>1 DEF Call, WinShape, WindowFields
<1>3. WinShape(q) /\ Shows(q)
  BY <1>2 DEF WinShape, Shows
<1>4. DOMAIN c = CallFields /\ c.op = op /\ c.of = of /\ c.stage = "sent"
  BY <1>1 DEF NewCall, CallFields
<1>5. RunCalls(q) = {c}
  BY <1>2, <1>4 DEF RunCalls, Aside
<1>6. CallSound(d, q.run, c)
  BY <1>2, <1>4 DEF CallSound
<1>7. q.run.pc \in JobOps \cup {"wait"} => IsOf(d, q.run.job, q.run.revision)
  BY <1>2, NotACall
<1>8. RunIs(d, q)
  BY <1>2, <1>5, <1>6, <1>7 DEF RunIs, IsStale
<1> QED
  BY <1>3, <1>8 DEF WinSound

(* A run that knows its job and waits for no call.                         *)
Knows(d, p) ==
  /\ WinShape(p) /\ Shows(p) /\ RunCalls(p) = {} /\ p.run.pc # "none"
  /\ IsOf(d, p.run.job, p.run.revision)
  /\ ~ IsStale(p) => p.run.revision = p.revision

LEMMA KinKnows ==
  ASSUME NEW d, NEW p, Knows(d, p), NEW q, Kin(p, q)
  PROVE  Knows(d, q)
<1>1. WinShape(q) /\ Shows(q)
  BY KinShape DEF Knows
<1> QED
  BY <1>1 DEF Knows, Kin, IsStale

(* It calls for the job.                                                   *)
LEMMA GoesOn ==
  ASSUME NEW d, NEW p, Knows(d, p), ~ p.run.woken, NEW op \in JobOps,
         NEW of, of = p.run.job,
         NEW q, q = Call([p EXCEPT !.run.pc = op], op, of)
  PROVE  WinSound(d, q)
<1>1. PICK a : a = [p EXCEPT !.run.pc = op]
  OBVIOUS
<1>2. op \in RunOps /\ op # "wait"
  BY NotACall
<1>3. Moved(p, op, a)
  BY <1>1, <1>2, Moving DEF Knows
<1>4. WinShape(a) /\ Shows(a) /\ RunCalls(a) = {}
  BY <1>3 DEF Moved, Knows, WinShape, Shows, RunCalls
<1>5. /\ a.run.pc = op /\ of = a.run.job /\ IsOf(d, of, a.run.revision)
      /\ ~ IsStale(a) => a.run.revision = a.revision
  BY <1>3 DEF Moved, Knows, IsStale
<1>6. q = Call(a, op, of)
  BY <1>1
<1> QED
  BY <1>2, <1>4, <1>5, <1>6, Calls

LEMMA Waiting ==
  ASSUME NEW d, NEW p, Knows(d, p),
         NEW q, q = [p EXCEPT !.run.pc = "wait", !.run.woken = FALSE]
  PROVE  Knows(d, q) /\ WinSound(d, q) /\ ~ q.run.woken /\ q.run.job = p.run.job
<1>1. PICK run : run = p.run
  OBVIOUS
<1>2. PICK r : r = [run EXCEPT !.pc = "wait", !.woken = FALSE]
  OBVIOUS
<1>3. WinShape(p)
  BY DEF Knows
<1>4. /\ DOMAIN q = DOMAIN p /\ q.closed = p.closed /\ q.revision = p.revision
      /\ q.closing = p.closing /\ q.view = p.view /\ q.status = p.status
      /\ q.calls = p.calls /\ q.run = r
  BY <1>1, <1>2, <1>3 DEF WinShape, WindowFields
<1>5. RunSound(run)
  BY <1>1, <1>3 DEF WinShape
<1>6. /\ DOMAIN run = {"pc", "stale", "woken", "revision", "lease", "job"}
      /\ run = [f \in DOMAIN run |-> run[f]]
  BY <1>5, NoRunIs DEF RunSound
<1>7. /\ r = [f \in DOMAIN NoRun |-> r[f]] /\ r.pc = "wait" /\ r.stale = run.stale
      /\ ~ r.woken /\ r.woken \in BOOLEAN /\ r.revision = run.revision /\ r.job = run.job
  BY <1>2, <1>6, NoRunIs
<1>8. RunSound(r)
  BY <1>5, <1>7 DEF RunSound
<1>9. WinShape(q) /\ Shows(q) /\ RunCalls(q) = {}
  BY <1>4, <1>8 DEF Knows, WinShape, Shows, RunCalls
<1>10. /\ q.run.pc = "wait" /\ IsOf(d, q.run.job, q.run.revision)
       /\ ~ IsStale(q) => q.run.revision = q.revision
  BY <1>1, <1>4, <1>7 DEF Knows, IsStale
<1>11. WinSound(d, q)
  BY <1>9, <1>10 DEF WinSound, RunIs
<1> QED
  BY <1>1, <1>4, <1>7, <1>9, <1>10, <1>11 DEF Knows

LEMMA Awaiting ==
  ASSUME NEW d, NEW p, Knows(d, p), NEW r, r = Awaited(p)
  PROVE  WinSound(d, r)
<1>1. PICK q : q = [p EXCEPT !.run.pc = "wait", !.run.woken = FALSE]
  OBVIOUS
<1>2. Knows(d, q) /\ WinSound(d, q) /\ ~ q.run.woken /\ q.run.job = p.run.job
  BY <1>1, Waiting
<1>3. WinShape(q) /\ Shows(q) /\ RunCalls(q) = {}
  BY <1>2 DEF Knows
<1>4. WinSound(d, End(q)) /\ WinSound(d, Throw(q))
  BY <1>3, Ending, Throwing
<1>5. WinSound(d, End(Publish(q, "unavailable")))
  <2>1. PICK status \in {"unsupported", "pending", "current", "unavailable"} :
          status = "unavailable"
    OBVIOUS
  <2>2. PICK a : a = Publish(q, status)
    OBVIOUS
  <2>3. WinShape(a) /\ Shows(a) /\ RunCalls(a) = {}
    BY <1>3, <2>1, <2>2, Publishing
  <2> QED
    BY <2>1, <2>2, <2>3, Ending
<1>6. WinSound(d, Call([q EXCEPT !.run.pc = "prepare"], "prepare", p.run.job))
  <2>1. PICK op \in JobOps : op = "prepare"
    BY DEF JobOps
  <2>2. p.run.job = q.run.job
    BY <1>2
  <2>3. WinSound(d, Call([q EXCEPT !.run.pc = op], op, p.run.job))
    BY <1>2, <2>2, GoesOn
  <2> QED
    BY <2>1, <2>3
<1>7. \/ r = End(q) \/ r = Throw(q) \/ r = q \/ r = End(Publish(q, "unavailable"))
      \/ r = Call([q EXCEPT !.run.pc = "prepare"], "prepare", p.run.job)
  BY <1>1 DEF Awaited
<1> QED
  BY <1>2, <1>4, <1>5, <1>6, <1>7

-------------------------------------------------------------------------------
(* What the user does.                                                     *)

(* A run that is under way gets stale.                                     *)
Staled(p, q) ==
  /\ DOMAIN q = WindowFields /\ q.view = p.view /\ q.status = p.status
  /\ q.calls = p.calls
  /\ q.run = [p.run EXCEPT !.stale = p.run # NoRun]

LEMMA StaledRun ==
  ASSUME NEW run, RunSound(run), NEW r, r = [run EXCEPT !.stale = run # NoRun]
  PROVE  /\ RunSound(r) /\ r.pc = run.pc /\ (r.pc # "none" => r.stale)
         /\ r.revision = run.revision /\ r.job = run.job
<1>1. /\ DOMAIN run = {"pc", "stale", "woken", "revision", "lease", "job"}
      /\ run = [f \in DOMAIN run |-> run[f]]
  BY NoRunIs DEF RunSound
<1>2. CASE run = NoRun
  BY <1>2, NoRunIs DEF NoRun
<1>3. CASE run # NoRun
  <2>1. r = [run EXCEPT !.stale = TRUE]
    BY <1>3
  <2>2. /\ r = [f \in DOMAIN NoRun |-> r[f]] /\ r.pc = run.pc /\ r.stale
        /\ r.woken = run.woken /\ r.revision = run.revision /\ r.job = run.job
    BY <1>1, <2>1, NoRunIs
  <2>3. run.pc # "none"
    BY <1>3 DEF RunSound
  <2> QED
    BY <2>2, <2>3 DEF RunSound
<1> QED
  BY <1>2, <1>3

LEMMA StaledIs ==
  ASSUME NEW d, NEW p, WinSound(d, p), NEW q, Staled(p, q), q.revision \in Nat,
         q.closed \in BOOLEAN, q.closing \in {"no", "early", "final", "done"}
  PROVE  WinShape(q) /\ RunIs(d, q)
<1>1. /\ RunSound(q.run) /\ q.run.pc = p.run.pc /\ (q.run.pc # "none" => q.run.stale)
      /\ q.run.revision = p.run.revision /\ q.run.job = p.run.job
  BY StaledRun DEF WinSound, WinShape, Staled
<1>2. WinShape(q)
  BY <1>1 DEF WinShape, WinSound, Staled
<1>3. RunCalls(q) = RunCalls(p)
  BY DEF RunCalls, Staled
<1>4. ASSUME NEW c \in RunCalls(q)
      PROVE  CallSound(d, q.run, c)
  BY <1>1, <1>3, <1>4 DEF WinSound, RunIs, CallSound
<1>5. RunIs(d, q)
  BY <1>1, <1>3, <1>4 DEF WinSound, RunIs, IsStale
<1> QED
  BY <1>2, <1>5

LEMMA KinRun ==
  ASSUME NEW d, NEW p, WinShape(p), RunIs(d, p), NEW q, Kin(p, q)
  PROVE  WinShape(q) /\ RunIs(d, q)
<1>1. WinShape(q)
  BY KinShape
<1>2. ASSUME NEW c \in RunCalls(q)
      PROVE  CallSound(d, q.run, c)
  BY DEF Kin, RunIs, CallSound
<1> QED
  BY <1>1, <1>2 DEF Kin, RunIs, IsStale

LEMMA PublishedSound ==
  ASSUME NEW d, NEW p, WinShape(p), RunIs(d, p),
         NEW status \in {"unsupported", "pending", "current", "unavailable"},
         status # "current" \/ p.view.revision = p.revision,
         NEW q, q = Publish(p, status)
  PROVE  WinSound(d, q)
<1>1. /\ DOMAIN q = DOMAIN p /\ q.closed = p.closed /\ q.revision = p.revision
      /\ q.closing = p.closing /\ q.view = p.view /\ q.status = status
      /\ q.calls = p.calls /\ q.run = p.run
  BY DEF Publish, WinShape, WindowFields
<1>3. WinShape(q) /\ Shows(q) /\ RunCalls(q) = RunCalls(p)
  BY <1>1 DEF WinShape, Shows, RunCalls
<1>2. RunIs(d, q)
  BY <1>1, <1>3 DEF RunIs, IsStale
<1> QED
  BY <1>2, <1>3 DEF WinSound

LEMMA Updating ==
  ASSUME NEW d, NEW p, WinSound(d, p), NEW changed \in BOOLEAN, NEW demand \in BOOLEAN,
         NEW r, r = Updated(p, changed, demand)
  PROVE  WinSound(d, r)
<1>1. PICK revision : revision = IF changed THEN p.revision + 1 ELSE p.revision
  OBVIOUS
<1>2. PICK a : a = [p EXCEPT !.revision = revision, !.demanded = demand,
                             !.next = FALSE, !.run.stale = p.run # NoRun]
  OBVIOUS
<1>3. revision \in Nat /\ WinShape(p)
  BY <1>1 DEF WinSound, WinShape
<1>4. /\ Staled(p, a) /\ a.revision = revision /\ a.closed = p.closed
      /\ a.closing = p.closing
  BY <1>2, <1>3 DEF Staled, WinShape, WindowFields
<1>5. WinShape(a) /\ RunIs(d, a)
  BY <1>3, <1>4, StaledIs DEF WinShape
<1>6. PICK b : b = Wake(a)
  OBVIOUS
<1>7. Kin(a, b) /\ WinShape(b) /\ RunIs(d, b)
  BY <1>5, <1>6, WakeKin, KinRun
<1>8. PICK q : q = RetireSlots(b, DOMAIN p.slots)
  OBVIOUS
<1>9. Kin(b, q) /\ WinShape(q) /\ RunIs(d, q)
  BY <1>7, <1>8, RetireKin, KinRun
<1>10. q.revision = revision /\ q.view = p.view
  BY <1>4, <1>7, <1>9 DEF Kin, Staled
<1>11. q = RetireSlots(Wake([p EXCEPT !.revision = revision, !.demanded = demand,
                                      !.next = FALSE, !.run.stale = p.run # NoRun]),
                       DOMAIN p.slots)
  BY <1>2, <1>6, <1>8
<1>12. CASE ~ demand
  <2>1. PICK x : x = IF q.lease \in DOMAIN q.leases THEN ReleaseLeases(q, {q.lease}) ELSE q
    OBVIOUS
  <2>2. WinShape(x) /\ RunIs(d, x)
    BY <1>9, <2>1, ReleaseKin, KinRun
  <2>3. PICK status \in {"unsupported", "pending", "current", "unavailable"} :
          status = "unsupported"
    OBVIOUS
  <2>4. r = Publish(x, status)
    BY <1>1, <1>11, <1>12, <2>1, <2>3 DEF Updated
  <2> QED
    BY <2>2, <2>3, <2>4, PublishedSound
<1>13. CASE demand /\ p.view.revision = revision
  <2>1. PICK status \in {"unsupported", "pending", "current", "unavailable"} :
          status = "current"
    OBVIOUS
  <2>2. r = Publish(q, status)
    BY <1>1, <1>11, <1>13, <2>1 DEF Updated
  <2>3. q.view.revision = q.revision
    BY <1>10, <1>13
  <2> QED
    BY <1>9, <2>2, <2>3, PublishedSound
<1>14. CASE demand /\ p.view.revision # revision
  <2>1. PICK status \in {"unsupported", "pending", "current", "unavailable"} :
          status = "pending"
    OBVIOUS
  <2>2. PICK x : x = [q EXCEPT !.next = TRUE]
    OBVIOUS
  <2>3. /\ DOMAIN x = DOMAIN q /\ x.closed = q.closed /\ x.revision = q.revision
        /\ x.closing = q.closing /\ x.view = q.view /\ x.status = q.status
        /\ x.calls = q.calls /\ x.run = q.run
    BY <1>9, <2>2 DEF WinShape, WindowFields
  <2>4. RunCalls(x) = RunCalls(q)
    BY <2>3 DEF RunCalls
  <2>5. WinShape(x) /\ RunIs(d, x)
    BY <1>9, <2>3, <2>4, KinIf, KinRun
  <2>6. PICK y : y = Publish(x, status)
    OBVIOUS
  <2>7. WinSound(d, y)
    BY <2>1, <2>5, <2>6, PublishedSound
  <2>8. r = Drive(y)
    BY <1>1, <1>11, <1>14, <2>1, <2>2, <2>6 DEF Updated
  <2> QED
    BY <2>7, <2>8, Driving
<1> QED
  BY <1>12, <1>13, <1>14

LEMMA Closing ==
  ASSUME NEW d, NEW p, WinSound(d, p),
         NEW a, a = [p EXCEPT !.closed = TRUE, !.next = FALSE, !.closing = "early",
                              !.run.stale = p.run # NoRun],
         NEW r, r = AllLeasesReleased(Wake(a))
  PROVE  WinSound(d, r)
<1>1. WinShape(p) /\ Shows(p)
  BY DEF WinSound
<1>2. /\ Staled(p, a) /\ a.revision = p.revision /\ a.closed = TRUE /\ a.closing = "early"
  BY <1>1 DEF Staled, WinShape, WindowFields
<1>3. WinShape(a) /\ RunIs(d, a)
  BY <1>1, <1>2, StaledIs DEF WinShape
<1>4. WinSound(d, a)
  BY <1>1, <1>2, <1>3 DEF WinSound, Shows, Staled
<1>5. PICK b : b = Wake(a)
  OBVIOUS
<1>6. WinSound(d, b) /\ WinShape(b)
  <2>1. WinSound(d, b)
    BY <1>3, <1>4, <1>5, WakeKin, KinSound
  <2> QED
    BY <2>1 DEF WinSound
<1>7. r = ReleaseLeases(b, DOMAIN b.leases)
  BY <1>5 DEF AllLeasesReleased
<1> QED
  BY <1>6, <1>7, ReleaseKin, KinSound

(* A window without runs and calls.                                        *)
LEMMA EndedWindow ==
  ASSUME NEW d, NEW p, p.revision \in Nat, NEW q, DOMAIN q = WindowFields,
         q.revision = p.revision, q.closed \in BOOLEAN, q.closing \in {"no", "done"},
         q.status \in {"unsupported", "unavailable"}, q.view = NoView, q.run = NoRun,
         q.calls = {}
  PROVE  WinSound(d, q)
<1>1. WinShape(q) /\ Shows(q)
  BY NoRunIs DEF WinShape, Shows, NoView
<1>2. RunCalls(q) = {}
  BY DEF RunCalls
<1> QED
  BY <1>1, <1>2, NoRunIs, RunlessSound

LEMMA NewWindowIs ==
  /\ DOMAIN NewWindow = WindowFields /\ NewWindow.revision = 1
  /\ NewWindow.closed = FALSE /\ NewWindow.closing = "no"
  /\ NewWindow.status = "unsupported" /\ NewWindow.view = NoView
  /\ NewWindow.run = NoRun /\ NewWindow.calls = {}
  /\ NewWindow = [f \in DOMAIN NewWindow |-> NewWindow[f]]
BY DEF NewWindow, WindowFields

LEMMA GoneSound ==
  ASSUME NEW d, NEW p, p.revision \in Nat, NEW q, q = Gone(p)
  PROVE  WinSound(d, q)
<1>1. q = [NewWindow EXCEPT !.revision = p.revision, !.closed = TRUE, !.gone = TRUE,
                            !.status = "unavailable"]
  BY DEF Gone
<1>2. /\ DOMAIN q = WindowFields /\ q.revision = p.revision /\ q.closed = TRUE
      /\ q.closing = "no" /\ q.status = "unavailable" /\ q.view = NoView
      /\ q.run = NoRun /\ q.calls = {}
  BY <1>1, NewWindowIs DEF WindowFields
<1> QED
  BY <1>2, EndedWindow

-------------------------------------------------------------------------------
(* The run of a window goes on.                                            *)

LEMMA LeaseRun ==
  ASSUME NEW run, RunSound(run), run.pc # "none", NEW l, NEW r, r = [run EXCEPT !.lease = l]
  PROVE  /\ RunSound(r) /\ r.pc = run.pc /\ r.stale = run.stale /\ r.woken = run.woken
         /\ r.revision = run.revision /\ r.job = run.job
<1>1. /\ DOMAIN run = {"pc", "stale", "woken", "revision", "lease", "job"}
      /\ run = [f \in DOMAIN run |-> run[f]]
  BY NoRunIs DEF RunSound
<1>2. /\ r = [f \in DOMAIN NoRun |-> r[f]] /\ r.pc = run.pc /\ r.stale = run.stale
      /\ r.woken = run.woken /\ r.revision = run.revision /\ r.job = run.job
  BY <1>1, NoRunIs
<1> QED
  BY <1>2 DEF RunSound

LEMMA LeaseKin ==
  ASSUME NEW p, WinShape(p), p.run.pc # "none", NEW r, r = LeaseFor(p)
  PROVE  Kin(p, r)
<1>1. PICK q : q = IF p.lease \in DOMAIN p.leases /\ (p.leases[p.lease].retired
                          \/ p.leases[p.lease].last = p.run.revision)
                     THEN ReleaseLeases(p, {p.lease}) ELSE p
  OBVIOUS
<1>2. Kin(p, q) /\ WinShape(q)
  <2>1. Kin(p, p)
    BY DEF Kin, WinShape
  <2> QED
    BY <1>1, <2>1, ReleaseKin, KinShape
<1>3. /\ DOMAIN r = DOMAIN q /\ r.closed = q.closed /\ r.revision = q.revision
      /\ r.status = q.status /\ r.closing = q.closing /\ r.view = q.view
      /\ r.calls = q.calls /\ \E l : r.run = [q.run EXCEPT !.lease = l]
  <2>1. DOMAIN q = WindowFields
    BY <1>2 DEF WinShape
  <2> QED
    BY <1>1, <2>1 DEF LeaseFor, WindowFields
<1>4. PICK l : r.run = [q.run EXCEPT !.lease = l]
  BY <1>3
<1>5. PICK run : run = q.run
  OBVIOUS
<1>6. RunSound(run) /\ run.pc # "none"
  BY <1>2, <1>5 DEF Kin
<1>7. /\ RunSound(r.run) /\ r.run.pc = run.pc /\ r.run.stale = run.stale
      /\ r.run.revision = run.revision /\ r.run.job = run.job
  BY <1>4, <1>5, <1>6, LeaseRun
<1>8. RunCalls(r) = RunCalls(q)
  BY <1>3 DEF RunCalls
<1>9. Kin(q, r)
  BY <1>2, <1>3, <1>5, <1>7, <1>8 DEF Kin
<1> QED
  BY <1>2, <1>9, KinOn

LEMMA Encoded ==
  ASSUME NEW d, NEW p, WinSound(d, p), p.run.pc = "source",
         NEW q, q = LeaseFor(p),
         NEW r, r = IF IsStale(p) THEN End(p)
                    ELSE Call([q EXCEPT !.run.pc = "request"], "request", q.run.lease)
  PROVE  WinSound(d, r)
<1>1. WinShape(p) /\ Shows(p) /\ RunCalls(p) = {}
  BY NoCallOf, NotACall DEF WinSound
<1>2. CASE IsStale(p)
  BY <1>1, <1>2, Ending
<1>3. CASE ~ IsStale(p)
  <2>1. Kin(p, q)
    BY <1>1, LeaseKin
  <2>2. WinShape(q) /\ Shows(q) /\ RunCalls(q) = {} /\ q.run.pc = "source"
    BY <1>1, <2>1, KinShape DEF Kin
  <2>3. PICK op \in RunOps : op = "request"
    BY DEF RunOps
  <2>4. PICK a : a = [q EXCEPT !.run.pc = op]
    OBVIOUS
  <2>5. Moved(q, op, a)
    <3>1. ~ q.run.woken
      BY <2>2 DEF WinShape, RunSound
    <3> QED
      BY <2>2, <2>3, <2>4, <3>1, Moving
  <2>6. WinShape(a) /\ Shows(a) /\ RunCalls(a) = {}
    BY <2>2, <2>5 DEF Moved, WinShape, Shows, RunCalls
  <2>7. p.run.revision = p.revision
    BY <1>3 DEF WinSound, RunIs
  <2>8. a.run.pc = op /\ (~ IsStale(a) => a.run.revision = a.revision)
    BY <2>1, <2>5, <2>7 DEF Moved, Kin
  <2>9. r = Call(a, op, q.run.lease)
    BY <1>3, <2>3, <2>4
  <2> QED
    BY <2>3, <2>6, <2>8, <2>9, NotACall, Calls
<1> QED
  BY <1>2, <1>3

-------------------------------------------------------------------------------
(* An answer has been taken.                                               *)

HasAnswer(d, p, c) ==
  /\ WinSound(d, p) /\ RunCalls(p) = {} /\ CallSound(d, p.run, c) /\ c.op \in RunOps

LEMMA Taking ==
  ASSUME NEW d, NEW v, WinSound(d, v), NEW c \in v.calls,
         NEW p, p = [v EXCEPT !.calls = v.calls \ {c}]
  PROVE  WinSound(d, p) /\ (c.op \in RunOps => HasAnswer(d, p, c))
<1>1. /\ DOMAIN p = DOMAIN v /\ p.closed = v.closed /\ p.revision = v.revision
      /\ p.closing = v.closing /\ p.view = v.view /\ p.status = v.status
      /\ p.calls = v.calls \ {c} /\ p.run = v.run
  BY DEF WinSound, WinShape, WindowFields
<1>2. WinShape(p) /\ Shows(p)
  BY <1>1 DEF WinSound, WinShape, Shows
<1>3. RunCalls(p) \subseteq RunCalls(v)
  BY <1>1 DEF RunCalls
<1>4. RunIs(d, p)
  BY <1>1, <1>3 DEF WinSound, RunIs, IsStale
<1>5. WinSound(d, p)
  BY <1>2, <1>4 DEF WinSound
<1>6. ASSUME c \in RunCalls(v)
      PROVE  HasAnswer(d, p, c)
  <2>1. RunCalls(p) = {}
    BY <1>1, <1>6 DEF WinSound, RunIs, RunCalls
  <2>2. CallSound(d, p.run, c)
    BY <1>1, <1>6 DEF WinSound, RunIs
  <2>3. c.op \in RunOps
    BY <1>6, <2>2 DEF RunCalls, CallSound, Aside
  <2> QED
    BY <1>5, <2>1, <2>2, <2>3 DEF HasAnswer
<1>7. c.op \in RunOps => c \in RunCalls(v)
  BY DEF RunCalls, Aside
<1> QED
  BY <1>5, <1>6, <1>7

LEMMA AnswerKnows ==
  ASSUME NEW d, NEW p, NEW c, HasAnswer(d, p, c), c.op \in JobOps
  PROVE  Knows(d, p) /\ c.of = p.run.job /\ p.run.pc = c.op
BY NotACall DEF HasAnswer, WinSound, RunIs, CallSound, Knows

LEMMA NotWoken ==
  ASSUME NEW d, NEW p, Knows(d, p), p.run.pc # "wait"
  PROVE  ~ p.run.woken
BY DEF Knows, WinShape, RunSound

LEMMA KnowsEnds ==
  ASSUME NEW d, NEW p, Knows(d, p), NEW q, q = End(p) \/ q = Throw(p)
  PROVE  WinSound(d, q)
BY Ending, Throwing DEF Knows

(* The run goes on with the next call for its job, or ends.                *)
LEMMA NextCall ==
  ASSUME NEW d, NEW p, Knows(d, p), p.run.pc # "wait", NEW of, of = p.run.job,
         NEW outcomes, NEW q, q = Accept(p, outcomes), NEW op \in JobOps,
         NEW r, r = IF IsStale(q) THEN End(q) ELSE Call([q EXCEPT !.run.pc = op], op, of)
  PROVE  WinSound(d, r)
<1>1. Kin(p, q)
  BY AcceptKin DEF Knows
<1>2. Knows(d, q) /\ q.run.pc # "wait" /\ of = q.run.job
  BY <1>1, KinKnows DEF Kin
<1>3. CASE IsStale(q)
  BY <1>2, <1>3, KnowsEnds
<1>4. CASE ~ IsStale(q)
  <2>1. ~ q.run.woken
    BY <1>2, NotWoken
  <2> QED
    BY <1>2, <1>4, <2>1, GoesOn
<1> QED
  BY <1>3, <1>4

LEMMA RequestAnswered ==
  ASSUME NEW d, NEW p, NEW c, HasAnswer(d, p, c), c.op = "request", c.stage # "sent",
         NEW r, r = AfterRequest(p, c)
  PROVE  WinSound(d, r)
<1>1. /\ WinShape(p) /\ Shows(p) /\ RunCalls(p) = {} /\ p.run.pc = "request"
      /\ c.stage \in {"ok", "error"}
  BY DEF HasAnswer, WinSound, CallSound
<1>2. CASE c.stage = "error"
  <2>1. PICK a : a = StartSettled(p, c.of)
    OBVIOUS
  <2>2. Kin(p, a)
    BY <1>1, <2>1, StartKin
  <2>3. WinShape(a) /\ Shows(a) /\ RunCalls(a) = {}
    BY <1>1, <2>2, KinShape DEF Kin
  <2>4. r = Throw(a)
    BY <1>2, <2>1 DEF AfterRequest
  <2> QED
    BY <2>3, <2>4, Throwing
<1>3. CASE c.stage = "ok"
  <2>1. PICK a : a = [p EXCEPT !.slots = With(@, c.result, NewSlot(c.of)),
                               !.run.job = c.result]
    OBVIOUS
  <2>2. /\ DOMAIN a = DOMAIN p /\ a.closed = p.closed /\ a.revision = p.revision
        /\ a.closing = p.closing /\ a.view = p.view /\ a.status = p.status
        /\ a.calls = p.calls /\ a.run = [p.run EXCEPT !.job = c.result]
    BY <1>1, <2>1 DEF WinShape, WindowFields
  <2>3. /\ RunSound(a.run) /\ a.run.pc = "request" /\ a.run.stale = p.run.stale
        /\ a.run.revision = p.run.revision /\ a.run.job = c.result
    <3>1. PICK run : run = p.run
      OBVIOUS
    <3>2. RunSound(run) /\ run.pc = "request"
      BY <1>1, <3>1 DEF WinShape
    <3>3. /\ DOMAIN run = {"pc", "stale", "woken", "revision", "lease", "job"}
          /\ run = [f \in DOMAIN run |-> run[f]]
      BY <3>2, NoRunIs DEF RunSound
    <3>4. PICK s : s = [run EXCEPT !.job = c.result]
      OBVIOUS
    <3>5. /\ s = [f \in DOMAIN NoRun |-> s[f]] /\ s.pc = run.pc /\ s.stale = run.stale
          /\ s.woken = run.woken /\ s.revision = run.revision /\ s.job = c.result
      BY <3>3, <3>4, NoRunIs
    <3>6. RunSound(s)
      BY <3>2, <3>5 DEF RunSound
    <3> QED
      BY <2>2, <3>1, <3>2, <3>4, <3>5, <3>6
  <2>4. Knows(d, a)
    <3>1. WinShape(a) /\ Shows(a) /\ RunCalls(a) = {}
      BY <1>1, <2>2, <2>3 DEF WinShape, Shows, RunCalls
    <3>2. IsOf(d, c.result, p.run.revision)
      BY <1>3 DEF HasAnswer, CallSound
    <3>3. ~ IsStale(a) => a.run.revision = a.revision
      BY <1>1, <2>2, <2>3 DEF HasAnswer, WinSound, RunIs, IsStale
    <3> QED
      BY <2>3, <3>1, <3>2, <3>3 DEF Knows
  <2>5. PICK b : b = Accept(a, c.outcomes)
    OBVIOUS
  <2>6. Kin(a, b) /\ Knows(d, b)
    BY <2>4, <2>5, AcceptKin, KinKnows DEF Knows
  <2>7. PICK q : q = StartSettled(b, c.of)
    OBVIOUS
  <2>8. Kin(b, q) /\ Knows(d, q)
    BY <2>6, <2>7, StartKin, KinKnows DEF Knows
  <2>9. q.run.pc = "request" /\ q.run.job = c.result
    BY <2>3, <2>6, <2>8 DEF Kin
  <2>10. r = IF IsStale(q) THEN End(q)
             ELSE Call([q EXCEPT !.run.pc = "upload"], "upload", c.result)
    BY <1>3, <2>1, <2>5, <2>7 DEF AfterRequest
  <2>11. CASE IsStale(q)
    BY <2>8, <2>10, <2>11, KnowsEnds
  <2>12. CASE ~ IsStale(q)
    <3>1. PICK op \in JobOps : op = "upload"
      BY DEF JobOps
    <3>2. ~ q.run.woken
      BY <2>8, <2>9, NotWoken
    <3>3. r = Call([q EXCEPT !.run.pc = op], op, c.result)
      BY <2>10, <2>12, <3>1
    <3> QED
      BY <2>8, <2>9, <3>2, <3>3, GoesOn
  <2> QED
    BY <2>11, <2>12
<1> QED
  BY <1>1, <1>2, <1>3

LEMMA UploadAnswered ==
  ASSUME NEW d, NEW p, NEW c, HasAnswer(d, p, c), c.op = "upload",
         NEW r, r = AfterUpload(p, c)
  PROVE  WinSound(d, r)
<1>1. Knows(d, p) /\ c.of = p.run.job /\ p.run.pc # "wait"
  BY AnswerKnows DEF JobOps
<1>2. CASE c.stage = "error"
  BY <1>1, <1>2, KnowsEnds DEF AfterUpload
<1>3. CASE c.stage # "error"
  <2>1. PICK q : q = Accept(p, c.outcomes)
    OBVIOUS
  <2>2. PICK op \in JobOps : op = "seal"
    BY DEF JobOps
  <2>3. r = IF IsStale(q) THEN End(q) ELSE Call([q EXCEPT !.run.pc = op], op, c.of)
    BY <1>3, <2>1, <2>2 DEF AfterUpload
  <2> QED
    BY <1>1, <2>1, <2>3, NextCall
<1> QED
  BY <1>2, <1>3

LEMMA PrepareAnswered ==
  ASSUME NEW d, NEW p, NEW c, HasAnswer(d, p, c), c.op = "prepare",
         NEW r, r = AfterPrepare(p, c)
  PROVE  WinSound(d, r)
<1>1. Knows(d, p) /\ c.of = p.run.job /\ p.run.pc # "wait"
  BY AnswerKnows DEF JobOps
<1>2. CASE c.stage = "error"
  BY <1>1, <1>2, KnowsEnds DEF AfterPrepare
<1>3. CASE c.stage # "error"
  <2>1. PICK q : q = Accept(p, c.outcomes)
    OBVIOUS
  <2>2. PICK op \in JobOps : op = "read"
    BY DEF JobOps
  <2>3. r = IF IsStale(q) THEN End(q) ELSE Call([q EXCEPT !.run.pc = op], op, c.of)
    BY <1>3, <2>1, <2>2 DEF AfterPrepare
  <2> QED
    BY <1>1, <2>1, <2>3, NextCall
<1> QED
  BY <1>2, <1>3

LEMMA SealAnswered ==
  ASSUME NEW d, NEW p, NEW c, HasAnswer(d, p, c), c.op = "seal",
         NEW r, r = AfterSeal(p, c)
  PROVE  WinSound(d, r)
<1>1. Knows(d, p) /\ p.run.pc # "wait"
  BY AnswerKnows DEF JobOps
<1>2. CASE c.stage = "error"
  BY <1>1, <1>2, KnowsEnds DEF AfterSeal
<1>3. CASE c.stage # "error"
  <2>1. PICK q : q = Accept(p, c.outcomes)
    OBVIOUS
  <2>2. Knows(d, q)
    BY <1>1, <2>1, AcceptKin, KinKnows DEF Knows
  <2>3. PICK a : a = ObserveHint(q)
    OBVIOUS
  <2>4. Knows(d, a)
    BY <2>2, <2>3, HintKin, KinKnows DEF Knows
  <2>5. r = End(q) \/ r = Awaited(a)
    BY <1>3, <2>1, <2>3 DEF AfterSeal
  <2> QED
    BY <2>2, <2>4, <2>5, KnowsEnds, Awaiting
<1> QED
  BY <1>2, <1>3

(* The facts become the view.                                              *)
LEMMA ReadAnswered ==
  ASSUME NEW d, NEW p, NEW c, HasAnswer(d, p, c), c.op = "read", c.stage # "sent",
         NEW r, r = AfterRead(p, c)
  PROVE  WinSound(d, r)
<1>1. Knows(d, p) /\ p.run.pc = "read" /\ ~ p.run.woken
  BY AnswerKnows, NotWoken DEF JobOps
<1>2. CASE c.stage = "error"
  BY <1>1, <1>2, KnowsEnds DEF AfterRead
<1>3. CASE c.stage # "error" /\ IsStale(p)
  BY <1>1, <1>3, KnowsEnds DEF AfterRead
<1>4. CASE c.stage # "error" /\ ~ IsStale(p)
  <2>1. p.run.revision = p.revision /\ c.result = p.revision
    <3>1. c.stage = "ok"
      BY <1>4 DEF HasAnswer, CallSound
    <3> QED
      BY <1>1, <1>4, <3>1 DEF HasAnswer, CallSound, Knows
  <2>2. WinShape(p) /\ RunCalls(p) = {}
    BY <1>1 DEF Knows
  <2>3. PICK pc \in {"wait", "ack"} \cup RunOps : pc = "ack"
    OBVIOUS
  <2>4. PICK a : a = [p EXCEPT !.run.pc = pc]
    OBVIOUS
  <2>5. Moved(p, pc, a)
    BY <1>1, <2>2, <2>4, Moving
  <2>6. PICK b : b = [p EXCEPT !.view = [text |-> c.result, revision |-> p.revision],
                               !.run.pc = "ack"]
    OBVIOUS
  <2>7. /\ DOMAIN b = DOMAIN p /\ b.closed = p.closed /\ b.revision = p.revision
        /\ b.closing = p.closing /\ b.status = p.status /\ b.calls = p.calls
        /\ b.view = [text |-> c.result, revision |-> p.revision]
        /\ b.run = a.run
    BY <2>2, <2>3, <2>4, <2>6 DEF WinShape, WindowFields
  <2>8. WinShape(b) /\ RunCalls(b) = {} /\ b.view.revision = b.revision
    BY <2>1, <2>2, <2>5, <2>7 DEF Moved, WinShape, RunCalls
  <2>9. /\ b.run.pc = "ack" /\ b.run.revision = b.revision
    BY <2>1, <2>3, <2>5, <2>7 DEF Moved
  <2>10. PICK status \in {"unsupported", "pending", "current", "unavailable"} :
           status = "current"
    OBVIOUS
  <2>11. PICK q : q = Publish(b, status)
    OBVIOUS
  <2>12. /\ WinShape(q) /\ Shows(q) /\ RunCalls(q) = {} /\ q.run = b.run
         /\ q.revision = b.revision
    <3>1. /\ DOMAIN q = DOMAIN b /\ q.closed = b.closed /\ q.revision = b.revision
          /\ q.closing = b.closing /\ q.view = b.view /\ q.status = status
          /\ q.calls = b.calls /\ q.run = b.run
      BY <2>8, <2>11 DEF Publish, WinShape, WindowFields
    <3>2. WinShape(q)
      BY <2>8, <2>10, <3>1 DEF WinShape
    <3> QED
      BY <2>8, <3>1, <3>2 DEF Shows, RunCalls
  <2>13. PICK X : X = Acks(q, {c.of})
    OBVIOUS
  <2>14. PICK x : x = [q EXCEPT !.calls = q.calls \cup X]
    OBVIOUS
  <2>15. Kin(q, x)
    <3>1. /\ DOMAIN x = DOMAIN q /\ x.closed = q.closed /\ x.revision = q.revision
          /\ x.closing = q.closing /\ x.view = q.view /\ x.status = q.status
          /\ x.calls = q.calls \cup X /\ x.run = q.run
      BY <2>12, <2>14 DEF WinShape, WindowFields
    <3>2. \A e \in X : Aside(e)
      BY <2>13, AcksAside
    <3>3. RunCalls(x) = RunCalls(q)
      BY <3>1, <3>2, OtherCalls
    <3> QED
      BY <2>12, <3>1, <3>3, KinIf
  <2>16. WinShape(x) /\ Shows(x) /\ RunCalls(x) = {}
    BY <2>12, <2>15, KinShape DEF Kin
  <2>17. x.run.pc = "ack" /\ x.run.revision = x.revision
    BY <2>9, <2>12, <2>15 DEF Kin
  <2>18. WinSound(d, x)
    BY <2>16, <2>17, RunlessSound
  <2>19. WinSound(d, End(x))
    BY <2>16, Ending
  <2>20. r = x \/ r = End(x)
    BY <1>4, <2>6, <2>10, <2>11, <2>13, <2>14 DEF AfterRead
  <2> QED
    BY <2>18, <2>19, <2>20
<1> QED
  BY <1>2, <1>3, <1>4

(* A window whose slots, leases and observations change.                   *)
LEMMA PartsKin ==
  ASSUME NEW p, WinShape(p), NEW q, DOMAIN q = DOMAIN p,
         q.closed = p.closed, q.revision = p.revision, q.status = p.status,
         q.closing = p.closing, q.view = p.view, q.run = p.run, q.calls = p.calls
  PROVE  Kin(p, q)
<1>1. RunCalls(q) = RunCalls(p)
  BY DEF RunCalls
<1> QED
  BY <1>1, KinIf

LEMMA AcknowledgeAnswered ==
  ASSUME NEW d, NEW p, WinSound(d, p), NEW c, NEW r, r = AfterAcknowledge(p, c)
  PROVE  WinSound(d, r)
<1>1. WinShape(p) /\ Shows(p)
  BY DEF WinSound
<1>2. p.run.pc = "ack" => RunCalls(p) = {}
  BY NoCallOf, NotACall
<1>3. CASE c.stage = "error"
  <2>1. PICK q : q = IF c.of \in DOMAIN p.slots
                       THEN [p EXCEPT !.slots[c.of].ackFailed = TRUE] ELSE p
    OBVIOUS
  <2>2. /\ DOMAIN q = DOMAIN p /\ q.closed = p.closed /\ q.revision = p.revision
        /\ q.closing = p.closing /\ q.view = p.view /\ q.status = p.status
        /\ q.calls = p.calls /\ q.run = p.run
    BY <1>1, <2>1 DEF WinShape, WindowFields
  <2>3. Kin(p, q)
    BY <1>1, <2>2, PartsKin
  <2>4. WinSound(d, q) /\ WinShape(q) /\ Shows(q) /\ RunCalls(q) = RunCalls(p)
    <3>1. WinSound(d, q)
      BY <2>3, KinSound
    <3> QED
      BY <2>3, <3>1 DEF WinSound, Kin
  <2>5. r = q \/ (p.run.pc = "ack" /\ r = Throw(q))
    BY <1>3, <2>1 DEF AfterAcknowledge
  <2>6. ASSUME RunCalls(q) = {}
        PROVE  WinSound(d, Throw(q))
    BY <2>4, <2>6, Throwing
  <2> QED
    BY <1>2, <2>4, <2>5, <2>6
<1>4. CASE c.stage # "error"
  <2>1. PICK a : a = [p EXCEPT !.slots = Without(@, {c.of})]
    OBVIOUS
  <2>2. /\ DOMAIN a = DOMAIN p /\ a.closed = p.closed /\ a.revision = p.revision
        /\ a.closing = p.closing /\ a.view = p.view /\ a.status = p.status
        /\ a.calls = p.calls /\ a.run = p.run
    BY <1>1, <2>1 DEF WinShape, WindowFields
  <2>3. Kin(p, a) /\ WinShape(a)
    <3>1. Kin(p, a)
      BY <1>1, <2>2, PartsKin
    <3> QED
      BY <1>1, <3>1, KinShape
  <2>4. PICK q : q = Accept(a, c.outcomes)
    OBVIOUS
  <2>5. Kin(p, q)
    <3>1. Kin(a, q)
      BY <2>3, <2>4, AcceptKin
    <3> QED
      BY <2>3, <3>1, KinOn
  <2>6. WinSound(d, q) /\ WinShape(q) /\ Shows(q) /\ RunCalls(q) = RunCalls(p)
    <3>1. WinSound(d, q)
      BY <2>5, KinSound
    <3> QED
      BY <2>5, <3>1 DEF WinSound, Kin
  <2>7. r = q \/ (p.run.pc = "ack" /\ r = End(q))
    BY <1>4, <2>1, <2>4 DEF AfterAcknowledge
  <2>8. ASSUME RunCalls(q) = {}
        PROVE  WinSound(d, End(q))
    BY <2>6, <2>8, Ending
  <2> QED
    BY <1>2, <2>6, <2>7, <2>8
<1> QED
  BY <1>3, <1>4

(* A window calls for something else than its run.                         *)
LEMMA CallKin ==
  ASSUME NEW p, WinShape(p), NEW op, op \notin RunOps, NEW of, NEW q, q = Call(p, op, of)
  PROVE  Kin(p, q)
<1>1. PICK X : X = {NewCall(op, of)}
  OBVIOUS
<1>2. /\ DOMAIN q = DOMAIN p /\ q.closed = p.closed /\ q.revision = p.revision
      /\ q.status = p.status /\ q.closing = p.closing /\ q.view = p.view
      /\ q.run = p.run /\ q.calls = p.calls \cup X
  BY <1>1 DEF Call, WinShape, WindowFields
<1>3. \A x \in X : Aside(x)
  BY <1>1, NewAside
<1>4. RunCalls(q) = RunCalls(p)
  BY <1>2, <1>3, OtherCalls
<1> QED
  BY <1>2, <1>4, KinIf

LEMMA SnapshotAnswered ==
  ASSUME NEW p, WinShape(p), NEW c, NEW r, r = AfterSnapshot(p, c)
  PROVE  Kin(p, r)
<1>1. PICK a : a = [p EXCEPT !.failed = TRUE]
  OBVIOUS
<1>2. /\ DOMAIN a = DOMAIN p /\ a.closed = p.closed /\ a.revision = p.revision
      /\ a.closing = p.closing /\ a.view = p.view /\ a.status = p.status
      /\ a.calls = p.calls /\ a.run = p.run
  BY <1>1 DEF WinShape, WindowFields
<1>3. Kin(p, a) /\ WinShape(a)
  <2>1. Kin(p, a)
    BY <1>2, PartsKin
  <2> QED
    BY <2>1, KinShape
<1>4. PICK q : q = IF c.stage = "error" THEN Wake(a) ELSE Accept(p, c.outcomes)
  OBVIOUS
<1>5. Kin(p, q) /\ WinShape(q)
  <2>1. CASE c.stage = "error"
    <3>1. Kin(a, q)
      BY <1>3, <1>4, <2>1, WakeKin
    <3> QED
      BY <1>3, <3>1, KinOn, KinShape
  <2>2. CASE c.stage # "error"
    BY <1>4, <2>2, AcceptKin, KinShape
  <2> QED
    BY <2>1, <2>2
<1>6. PICK b : b = [q EXCEPT !.hint = FALSE]
  OBVIOUS
<1>7. Kin(q, b) /\ WinShape(b)
  <2>1. /\ DOMAIN b = DOMAIN q /\ b.closed = q.closed /\ b.revision = q.revision
        /\ b.closing = q.closing /\ b.view = q.view /\ b.status = q.status
        /\ b.calls = q.calls /\ b.run = q.run
    BY <1>5, <1>6 DEF WinShape, WindowFields
  <2>2. Kin(q, b)
    BY <1>5, <2>1, PartsKin
  <2> QED
    BY <1>5, <2>2, KinShape
<1>8. Kin(b, Call(b, "snapshot", 0))
  BY <1>7, NotRunOps, CallKin
<1>9. r = q \/ r = Call(b, "snapshot", 0)
  BY <1>1, <1>4, <1>6 DEF AfterSnapshot
<1> QED
  BY <1>5, <1>7, <1>8, <1>9, KinOn

LEMMA ReleaseAnswered ==
  ASSUME NEW p, WinShape(p), NEW c, NEW r, r = AfterRelease(p, c)
  PROVE  Kin(p, r)
<1>1. ASSUME NEW a, DOMAIN a = DOMAIN p, a.closed = p.closed, a.revision = p.revision,
             a.closing = p.closing, a.view = p.view, a.status = p.status,
             a.calls = p.calls, a.run = p.run
      PROVE  Kin(p, a) /\ WinShape(a)
  <2>1. Kin(p, a)
    BY <1>1, PartsKin
  <2> QED
    BY <2>1, KinShape
<1>2. CASE c.stage = "error"
  <2>1. r = [p EXCEPT !.leases[c.of].releasing = "no"]
    BY <1>2 DEF AfterRelease
  <2>2. /\ DOMAIN r = DOMAIN p /\ r.closed = p.closed /\ r.revision = p.revision
        /\ r.closing = p.closing /\ r.view = p.view /\ r.status = p.status
        /\ r.calls = p.calls /\ r.run = p.run
    BY <2>1 DEF WinShape, WindowFields
  <2> QED
    BY <1>1, <2>2
<1>3. CASE r = [p EXCEPT !.leases[c.of].releasing = "await"]
  <2>2. /\ DOMAIN r = DOMAIN p /\ r.closed = p.closed /\ r.revision = p.revision
        /\ r.closing = p.closing /\ r.view = p.view /\ r.status = p.status
        /\ r.calls = p.calls /\ r.run = p.run
    BY <1>3 DEF WinShape, WindowFields
  <2> QED
    BY <1>1, <2>2
<1>4. CASE r = Call([p EXCEPT !.leases[c.of].releasing = "second"], "release", c.of)
  <2>1. PICK a : a = [p EXCEPT !.leases[c.of].releasing = "second"]
    OBVIOUS
  <2>2. /\ DOMAIN a = DOMAIN p /\ a.closed = p.closed /\ a.revision = p.revision
        /\ a.closing = p.closing /\ a.view = p.view /\ a.status = p.status
        /\ a.calls = p.calls /\ a.run = p.run
    BY <2>1 DEF WinShape, WindowFields
  <2>3. Kin(p, a) /\ WinShape(a)
    BY <1>1, <2>2
  <2>4. Kin(a, Call(a, "release", c.of))
    BY <2>3, NotRunOps, CallKin
  <2> QED
    BY <1>4, <2>1, <2>3, <2>4, KinOn
<1>5. CASE r = Wake([p EXCEPT !.leases = Without(@, {c.of}),
                         !.slots = Without(@, {j \in DOMAIN @ : @[j].lease = c.of})])
  <2>1. PICK a : a = [p EXCEPT !.leases = Without(@, {c.of}),
                         !.slots = Without(@, {j \in DOMAIN @ : @[j].lease = c.of})]
    OBVIOUS
  <2>2. /\ DOMAIN a = DOMAIN p /\ a.closed = p.closed /\ a.revision = p.revision
        /\ a.closing = p.closing /\ a.view = p.view /\ a.status = p.status
        /\ a.calls = p.calls /\ a.run = p.run
    BY <2>1 DEF WinShape, WindowFields
  <2>3. Kin(p, a) /\ WinShape(a)
    BY <1>1, <2>2
  <2>4. Kin(a, Wake(a))
    BY <2>3, WakeKin
  <2> QED
    BY <1>5, <2>1, <2>3, <2>4, KinOn
<1> QED
  BY <1>2, <1>3, <1>4, <1>5 DEF AfterRelease

-------------------------------------------------------------------------------
(* All windows together.                                                   *)

AllSound(d, ws) == DOMAIN ws = Windows /\ \A v \in Windows : WinSound(d, ws[v])

LEMMA AllStand ==
  ASSUME NEW c, NEW d, Extends(c, d), NEW ws, AllSound(c, ws)
  PROVE  AllSound(d, ws)
BY WinStands DEF AllSound

LEMMA OnePut ==
  ASSUME NEW d, NEW ws, AllSound(d, ws), NEW w \in Windows, NEW p, WinSound(d, p),
         NEW xs, xs = [ws EXCEPT ![w] = p]
  PROVE  AllSound(d, xs)
BY DEF AllSound

LEMMA AllNudged ==
  ASSUME NEW d, NEW ws, AllSound(d, ws), NEW xs, xs = Nudged(ws)
  PROVE  AllSound(d, xs)
<1>1. ASSUME NEW v \in Windows
      PROVE  WinSound(d, xs[v])
  <2>1. PICK p : p = ws[v]
    OBVIOUS
  <2>2. PICK q : q = ObserveHint(p)
    OBVIOUS
  <2>3. WinSound(d, p) /\ WinShape(p)
    BY <2>1 DEF AllSound, WinSound
  <2>4. WinSound(d, q)
    BY <2>2, <2>3, HintKin, KinSound
  <2> QED
    BY <2>1, <2>2, <2>4 DEF Nudged
<1> QED
  BY <1>1 DEF AllSound, Nudged

LEMMA HasFields ==
  ASSUME NEW d, NEW v, WinSound(d, v), NEW c \in v.calls
  PROVE  DOMAIN c = CallFields
BY DEF WinSound, RunIs, RunCalls, CallSound, Aside

(* What an answer brings is about the text of the run.                     *)
Brings(d, run, c, result) ==
  /\ c.op = "request" => IsOf(d, result, run.revision)
  /\ c.op = "read" => result = run.revision

(* A call is answered or lost.                                             *)
LEMMA Exchanging ==
  ASSUME NEW d, NEW v, WinSound(d, v), NEW c \in v.calls,
         NEW e, DOMAIN e = CallFields, e.op = c.op, e.of = c.of, e.stage \in {"ok", "error"},
         e.stage = "error" \/ Brings(d, v.run, c, e.result),
         NEW p, p = [v EXCEPT !.calls = (v.calls \ {c}) \cup {e}]
  PROVE  WinSound(d, p)
<1>1. /\ DOMAIN p = DOMAIN v /\ p.closed = v.closed /\ p.revision = v.revision
      /\ p.closing = v.closing /\ p.view = v.view /\ p.status = v.status
      /\ p.calls = (v.calls \ {c}) \cup {e} /\ p.run = v.run
  BY DEF WinSound, WinShape, WindowFields
<1>2. WinShape(p) /\ Shows(p)
  BY <1>1 DEF WinSound, WinShape, Shows
<1>3. CASE Aside(c)
  <2>1. Aside(e)
    BY <1>3 DEF Aside
  <2>2. RunCalls(p) = RunCalls(v)
    BY <1>1, <1>3, <2>1 DEF RunCalls
  <2>3. RunIs(d, p)
    BY <1>1, <2>2 DEF WinSound, RunIs, IsStale
  <2> QED
    BY <1>2, <2>3 DEF WinSound
<1>4. CASE ~ Aside(c)
  <2>1. c \in RunCalls(v)
    BY <1>4 DEF RunCalls
  <2>2. CallSound(d, v.run, c) /\ \A x \in RunCalls(v) : x = c
    BY <2>1 DEF WinSound, RunIs
  <2>3. \A x \in RunCalls(p) : x = e
    BY <1>1, <2>2 DEF RunCalls
  <2>4. CallSound(d, p.run, e)
    BY <1>1, <2>2 DEF CallSound, Brings
  <2>5. RunIs(d, p)
    BY <1>1, <2>3, <2>4 DEF WinSound, RunIs, IsStale
  <2> QED
    BY <1>2, <2>5 DEF WinSound
<1> QED
  BY <1>3, <1>4

LEMMA LostSound ==
  ASSUME NEW d, AllSound(d, win), NEW w \in Windows, NEW c \in win[w].calls,
         win' = [win EXCEPT ![w].calls = (@ \ {c}) \cup {[c EXCEPT !.stage = "error"]}]
  PROVE  AllSound(d, win')
<1>1. PICK v : v = win[w]
  OBVIOUS
<1>2. PICK e : e = [c EXCEPT !.stage = "error"]
  OBVIOUS
<1>3. PICK p : p = [v EXCEPT !.calls = (v.calls \ {c}) \cup {e}]
  OBVIOUS
<1>4. WinSound(d, v) /\ c \in v.calls
  BY <1>1 DEF AllSound
<1>5. /\ DOMAIN e = CallFields /\ e.op = c.op /\ e.of = c.of /\ e.stage = "error"
  BY <1>2, <1>4, HasFields DEF CallFields
<1>6. WinSound(d, p)
  BY <1>3, <1>4, <1>5, Exchanging
<1>7. win' = [win EXCEPT ![w] = p]
  BY <1>1, <1>2, <1>3 DEF AllSound
<1> QED
  BY <1>6, <1>7, OnePut

LEMMA AnsweredSound ==
  ASSUME NEW d, AllSound(d, win), NEW w \in Windows, NEW c \in win[w].calls,
         NEW next, NEW result, Brings(d, win[w].run, c, result),
         NEW ws, ws = Answered(w, c, next, result)
  PROVE  AllSound(d, ws)
<1>1. PICK v : v = win[w]
  OBVIOUS
<1>2. PICK outcomes : outcomes = Outcomes(next, KeysOf(w, next))
  OBVIOUS
<1>3. PICK e : e = [c EXCEPT !.stage = "ok", !.outcomes = outcomes, !.result = result]
  OBVIOUS
<1>4. PICK p : p = [v EXCEPT !.calls = (v.calls \ {c}) \cup {e}]
  OBVIOUS
<1>5. WinSound(d, v) /\ c \in v.calls
  BY <1>1 DEF AllSound
<1>6. /\ DOMAIN e = CallFields /\ e.op = c.op /\ e.of = c.of /\ e.stage = "ok"
      /\ e.result = result
  BY <1>3, <1>5, HasFields DEF CallFields
<1>7. Brings(d, v.run, c, e.result)
  BY <1>1, <1>6
<1>8. WinSound(d, p)
  BY <1>4, <1>5, <1>6, <1>7, Exchanging
<1>9. ws = [win EXCEPT ![w] = p]
  BY <1>1, <1>2, <1>3, <1>4 DEF AllSound, Answered
<1> QED
  BY <1>8, <1>9, OnePut

LEMMA AnswersSound ==
  ASSUME NEW d, AllSound(d, win), NEW w \in Windows, NEW c \in win[w].calls,
         NEW next, NEW result, Brings(d, win[w].run, c, result),
         Answers(w, c, next, result)
  PROVE  AllSound(d, win')
<1>1. PICK ws : ws = Answered(w, c, next, result) /\ win' = Nudged(ws)
  BY DEF Answers
<1>2. AllSound(d, ws)
  BY <1>1, AnsweredSound
<1> QED
  BY <1>1, <1>2, AllNudged

LEMMA ReducesSound ==
  ASSUME NEW d, AllSound(d, win), NEW w \in Windows, NEW c \in win[w].calls,
         NEW f, NEW result, Brings(d, win[w].run, c, result),
         Reduces(w, c, f, result)
  PROVE  AllSound(d, win')
<1>1. PICK next : Answers(w, c, next, result)
  BY DEF Reduces
<1> QED
  BY <1>1, AnswersSound

LEMMA SentCall ==
  ASSUME NEW w, NEW op, NEW c \in Sent(w, op)
  PROVE  c \in win[w].calls /\ c.op = op /\ c.stage = "sent"
BY DEF Sent

(* Only requests and readings bring something.                             *)
LEMMA BringsNothing ==
  ASSUME NEW d, NEW run, NEW c, c.op \notin {"request", "read"}, NEW result
  PROVE  Brings(d, run, c, result)
BY DEF Brings

(* The host executes a call.                                               *)
LEMMA ServeSound ==
  ASSUME HostSound(core, handles), AllSound(core, win), AllSound(core', win),
         NEW w \in Windows, win[w].run.revision \in Nat, Serve(w)
  PROVE  AllSound(core', win')
<1>1. ASSUME NEW c \in win[w].calls, Refuses(w, c)
      PROVE  AllSound(core', win')
  BY <1>1, LostSound DEF Refuses
<1>2. ASSUME ServeRequest(w)
      PROVE  AllSound(core', win')
  <2>1. PICK c \in Sent(w, "request") :
          LET key == <<w, c.of>>
              revision == win[w].run.revision
              id == IF Repeats(core, key, revision) THEN core.buffers[key].current
                                                    ELSE core.last + 1
          IN  IF work.closing \/ RequestRefused(core, key, revision) THEN Refuses(w, c)
              ELSE /\ Reduces(w, c, Requested(core, key, revision), id)
                   /\ handles' = IF Repeats(core, key, revision) THEN handles
                                   ELSE With(handles, id, NewHandle)
    BY <1>2 DEF ServeRequest
  <2>2. PICK key : key = <<w, c.of>>
    OBVIOUS
  <2>3. PICK revision \in Nat : revision = win[w].run.revision
    OBVIOUS
  <2>4. PICK d : d = Requested(core, key, revision)
    OBVIOUS
  <2>5. c \in win[w].calls /\ c.op = "request"
    BY SentCall
  <2>6. CASE work.closing \/ RequestRefused(core, key, revision)
    <3>1. Refuses(w, c)
      BY <2>1, <2>2, <2>3, <2>6
    <3> QED
      BY <1>1, <2>5, <3>1
  <2>7. ASSUME NEW id, Reduces(w, c, d, id), IsOf(core', id, revision)
        PROVE  AllSound(core', win')
    <3>1. Brings(core', win[w].run, c, id)
      BY <2>3, <2>5, <2>7 DEF Brings
    <3> QED
      BY <2>5, <2>7, <3>1, ReducesSound
  <2>8. CASE /\ ~ (work.closing \/ RequestRefused(core, key, revision))
             /\ Repeats(core, key, revision)
    <3>1. PICK id : id = core.buffers[key].current
      OBVIOUS
    <3>2. Reduces(w, c, d, id)
      BY <2>1, <2>2, <2>3, <2>4, <2>8, <3>1
    <3>3. d = core
      BY <2>4, <2>8 DEF Requested
    <3>4. Finished(core, d, handles)
      BY <3>3, SameHost
    <3>5. Extends(d, core')
      BY <3>2, <3>4, ReducesTo, PlansFinishes
    <3>6. IsOf(core, id, revision)
      BY <2>8, <3>1, RepeatedIsOf DEF HostSound
    <3>7. IsOf(core', id, revision)
      BY <3>3, <3>5, <3>6, StillIsOf
    <3> QED
      BY <2>7, <3>2, <3>7
  <2>9. CASE /\ ~ (work.closing \/ RequestRefused(core, key, revision))
             /\ ~ Repeats(core, key, revision)
    <3>1. PICK id : id = core.last + 1
      OBVIOUS
    <3>2. Reduces(w, c, d, id)
      BY <2>1, <2>2, <2>3, <2>4, <2>9, <3>1
    <3>3. PICK h : h = With(handles, core.last + 1, NewHandle)
      OBVIOUS
    <3>4. Finished(core, d, h) /\ IsOf(d, core.last + 1, revision)
      BY <2>4, <2>9, <3>3, RequestingFinishes
    <3>5. Extends(d, core')
      BY <3>2, <3>4, ReducesTo, PlansFinishes
    <3>6. IsOf(core', id, revision)
      BY <3>1, <3>4, <3>5, StillIsOf
    <3> QED
      BY <2>7, <3>2, <3>6
  <2> QED
    BY <2>6, <2>8, <2>9
<1>3. ASSUME NEW c \in win[w].calls, c.op \notin {"request", "read"}, NEW next,
             Answers(w, c, next, 0)
      PROVE  AllSound(core', win')
  BY <1>3, BringsNothing, AnswersSound
<1>4. ASSUME NEW c \in win[w].calls, c.op \notin {"request", "read"}, NEW d,
             Reduces(w, c, d, 0)
      PROVE  AllSound(core', win')
  BY <1>4, BringsNothing, ReducesSound
<1>5. ASSUME ServeUpload(w)
      PROVE  AllSound(core', win')
  <2>1. PICK c \in Sent(w, "upload") :
          \/ Refuses(w, c) \/ Answers(w, c, core, 0)
          \/ win' = [win EXCEPT ![w].calls = (@ \ {c}) \cup {[c EXCEPT !.stage = "error"]}]
    BY <1>5 DEF ServeUpload
  <2>2. c \in win[w].calls /\ c.op \notin {"request", "read"}
    BY SentCall
  <2>3. CASE Refuses(w, c)
    BY <1>1, <2>2, <2>3
  <2>4. CASE Answers(w, c, core, 0)
    BY <1>3, <2>2, <2>4
  <2>5. CASE win' = [win EXCEPT ![w].calls =
                       (@ \ {c}) \cup {[c EXCEPT !.stage = "error"]}]
    BY <2>2, <2>5, LostSound
  <2> QED
    BY <2>1, <2>3, <2>4, <2>5
<1>6. ASSUME ServeSeal(w) \/ ServePrepare(w) \/ ServeAcknowledge(w) \/ ServeRelease(w)
      PROVE  AllSound(core', win')
  <2>1. PICK c \in win[w].calls :
          /\ c.op \in {"seal", "prepare", "acknowledge", "release"}
          /\ Refuses(w, c) \/ Answers(w, c, core, 0) \/ \E d : Reduces(w, c, d, 0)
    BY <1>6 DEF ServeSeal, ServePrepare, ServeAcknowledge, ServeRelease, Sent
  <2>2. c.op \notin {"request", "read"}
    BY <2>1
  <2>3. CASE Refuses(w, c)
    BY <1>1, <2>2, <2>3
  <2>4. CASE Answers(w, c, core, 0)
    BY <1>3, <2>2, <2>4
  <2>5. CASE \E d : Reduces(w, c, d, 0)
    BY <1>4, <2>2, <2>5
  <2> QED
    BY <2>1, <2>3, <2>4, <2>5
<1>7. ASSUME ServeRead(w)
      PROVE  AllSound(core', win')
  <2>1. PICK c \in Sent(w, "read") :
          IF ~ MayRead(c.of) THEN Refuses(w, c) ELSE Tells(w, c, core.jobs[c.of].revision)
    BY <1>7 DEF ServeRead
  <2>2. c \in win[w].calls /\ c.op = "read"
    BY SentCall
  <2>3. CASE ~ MayRead(c.of)
    BY <1>1, <2>1, <2>2, <2>3
  <2>4. CASE MayRead(c.of)
    <3>1. PICK result : result = core.jobs[c.of].revision
      OBVIOUS
    <3>2. WinSound(core, win[w])
      BY DEF AllSound
    <3>3. result = win[w].run.revision
      <4>1. c \in RunCalls(win[w]) /\ "read" \in JobOps
        BY <2>2 DEF RunCalls, Aside, RunOps, JobOps
      <4>2. CallSound(core, win[w].run, c)
        BY <3>2, <4>1 DEF WinSound, RunIs
      <4>3. c.of = win[w].run.job /\ win[w].run.pc \in JobOps
        BY <2>2, <4>1, <4>2 DEF CallSound
      <4>4. IsOf(core, c.of, win[w].run.revision)
        BY <3>2, <4>3 DEF WinSound, RunIs
      <4> QED
        BY <2>4, <3>1, <4>4 DEF MayRead, IsOf
    <3>4. Brings(core', win[w].run, c, result)
      BY <2>2, <3>3 DEF Brings
    <3>5. win' = Answered(w, c, core, result)
      BY <2>1, <2>4, <3>1 DEF Tells
    <3> QED
      BY <2>2, <3>4, <3>5, AnsweredSound
  <2> QED
    BY <2>3, <2>4
<1>8. ASSUME ServeCancel(w)
      PROVE  AllSound(core', win')
  <2>1. PICK c \in win[w].calls :
          LET p == [win[w] EXCEPT !.calls = @ \ {c}]
          IN  \/ Changes(w, p)
              \/ \E outcomes : \E q \in {Accept(p, outcomes)} :
                   win' = Nudged([win EXCEPT ![w] = q])
    BY <1>8 DEF ServeCancel
  <2>2. PICK v : v = win[w]
    OBVIOUS
  <2>3. PICK p : p = [v EXCEPT !.calls = v.calls \ {c}]
    OBVIOUS
  <2>4. WinSound(core', p) /\ WinShape(p)
    <3>1. WinSound(core', v) /\ c \in v.calls
      BY <2>2 DEF AllSound
    <3>2. WinSound(core', p)
      BY <2>3, <3>1, Taking
    <3> QED
      BY <3>2 DEF WinSound
  <2>5. ASSUME Changes(w, p)
        PROVE  AllSound(core', win')
    BY <2>4, <2>5, OnePut DEF Changes
  <2>6. ASSUME NEW outcomes, win' = Nudged([win EXCEPT ![w] = Accept(p, outcomes)])
        PROVE  AllSound(core', win')
    <3>1. PICK q : q = Accept(p, outcomes)
      OBVIOUS
    <3>2. WinSound(core', q)
      BY <2>4, <3>1, AcceptKin, KinSound
    <3>3. PICK ws : ws = [win EXCEPT ![w] = q]
      OBVIOUS
    <3>4. AllSound(core', ws)
      BY <3>2, <3>3, OnePut
    <3>5. win' = Nudged(ws)
      BY <2>6, <3>1, <3>3
    <3> QED
      BY <3>4, <3>5, AllNudged
  <2> QED
    BY <2>1, <2>2, <2>3, <2>5, <2>6
<1> QED
  BY <1>2, <1>5, <1>6, <1>7, <1>8 DEF Serve

(* A window goes on with an answer.                                        *)
LEMMA ReplySound ==
  ASSUME NEW d, AllSound(d, win), NEW w \in Windows, Reply(w) \/ Observe(w)
  PROVE  AllSound(d, win')
<1>1. PICK v : v = win[w]
  OBVIOUS
<1>2. WinSound(d, v)
  BY <1>1 DEF AllSound
<1>3. ASSUME NEW p, WinSound(d, p), Changes(w, p)
      PROVE  AllSound(d, win')
  BY <1>3, OnePut DEF Changes
<1>4. ASSUME NEW c \in v.calls, NEW p, p = [v EXCEPT !.calls = v.calls \ {c}]
      PROVE  /\ WinSound(d, p) /\ WinShape(p)
             /\ c.op \in RunOps => HasAnswer(d, p, c)
  <2>1. WinSound(d, p) /\ (c.op \in RunOps => HasAnswer(d, p, c))
    BY <1>2, <1>4, Taking
  <2> QED
    BY <2>1 DEF WinSound
<1>5. ASSUME Replied(w, "request", AfterRequest)
      PROVE  AllSound(d, win')
  <2>1. PICK c, p : /\ c \in v.calls /\ c.op = "request" /\ c.stage # "sent"
                    /\ p = [v EXCEPT !.calls = v.calls \ {c}]
                    /\ Changes(w, AfterRequest(p, c))
    BY <1>1, <1>5 DEF Replied
  <2>2. HasAnswer(d, p, c)
    BY <1>4, <2>1 DEF RunOps
  <2> QED
    BY <1>3, <2>1, <2>2, RequestAnswered
<1>6. ASSUME Replied(w, "upload", AfterUpload)
      PROVE  AllSound(d, win')
  <2>1. PICK c, p : /\ c \in v.calls /\ c.op = "upload" /\ c.stage # "sent"
                    /\ p = [v EXCEPT !.calls = v.calls \ {c}]
                    /\ Changes(w, AfterUpload(p, c))
    BY <1>1, <1>6 DEF Replied
  <2>2. HasAnswer(d, p, c)
    BY <1>4, <2>1 DEF RunOps, JobOps
  <2> QED
    BY <1>3, <2>1, <2>2, UploadAnswered
<1>7. ASSUME Replied(w, "seal", AfterSeal)
      PROVE  AllSound(d, win')
  <2>1. PICK c, p : /\ c \in v.calls /\ c.op = "seal" /\ c.stage # "sent"
                    /\ p = [v EXCEPT !.calls = v.calls \ {c}]
                    /\ Changes(w, AfterSeal(p, c))
    BY <1>1, <1>7 DEF Replied
  <2>2. HasAnswer(d, p, c)
    BY <1>4, <2>1 DEF RunOps, JobOps
  <2> QED
    BY <1>3, <2>1, <2>2, SealAnswered
<1>8. ASSUME Replied(w, "prepare", AfterPrepare)
      PROVE  AllSound(d, win')
  <2>1. PICK c, p : /\ c \in v.calls /\ c.op = "prepare" /\ c.stage # "sent"
                    /\ p = [v EXCEPT !.calls = v.calls \ {c}]
                    /\ Changes(w, AfterPrepare(p, c))
    BY <1>1, <1>8 DEF Replied
  <2>2. HasAnswer(d, p, c)
    BY <1>4, <2>1 DEF RunOps, JobOps
  <2> QED
    BY <1>3, <2>1, <2>2, PrepareAnswered
<1>9. ASSUME Replied(w, "read", AfterRead)
      PROVE  AllSound(d, win')
  <2>1. PICK c, p : /\ c \in v.calls /\ c.op = "read" /\ c.stage # "sent"
                    /\ p = [v EXCEPT !.calls = v.calls \ {c}]
                    /\ Changes(w, AfterRead(p, c))
    BY <1>1, <1>9 DEF Replied
  <2>2. HasAnswer(d, p, c)
    BY <1>4, <2>1 DEF RunOps, JobOps
  <2> QED
    BY <1>3, <2>1, <2>2, ReadAnswered
<1>10. ASSUME Replied(w, "acknowledge", AfterAcknowledge)
       PROVE  AllSound(d, win')
  <2>1. PICK c, p : /\ c \in v.calls /\ p = [v EXCEPT !.calls = v.calls \ {c}]
                    /\ Changes(w, AfterAcknowledge(p, c))
    BY <1>1, <1>10 DEF Replied
  <2>2. WinSound(d, p)
    BY <1>4, <2>1
  <2> QED
    BY <1>3, <2>1, <2>2, AcknowledgeAnswered
<1>11. ASSUME Replied(w, "release", AfterRelease)
       PROVE  AllSound(d, win')
  <2>1. PICK c, p : /\ c \in v.calls /\ p = [v EXCEPT !.calls = v.calls \ {c}]
                    /\ Changes(w, AfterRelease(p, c))
    BY <1>1, <1>11 DEF Replied
  <2>2. WinSound(d, p) /\ WinShape(p)
    BY <1>4, <2>1
  <2>3. WinSound(d, AfterRelease(p, c))
    BY <2>2, ReleaseAnswered, KinSound
  <2> QED
    BY <1>3, <2>1, <2>3
<1>12. ASSUME Observe(w)
       PROVE  AllSound(d, win')
  <2>1. PICK c, e, p : /\ c \in v.calls /\ p = [v EXCEPT !.calls = v.calls \ {c}]
                       /\ Changes(w, AfterSnapshot(p, e))
    BY <1>1, <1>12 DEF Observe
  <2>2. WinSound(d, p) /\ WinShape(p)
    BY <1>4, <2>1
  <2>3. WinSound(d, AfterSnapshot(p, e))
    BY <2>2, SnapshotAnswered, KinSound
  <2> QED
    BY <1>3, <2>1, <2>3
<1> QED
  BY <1>5, <1>6, <1>7, <1>8, <1>9, <1>10, <1>11, <1>12 DEF Reply

LEMMA ClosingChange ==
  ASSUME NEW d, NEW p, WinSound(d, p), NEW closing \in {"no", "early", "final", "done"},
         NEW q, q = [p EXCEPT !.closing = closing]
  PROVE  WinSound(d, q)
<1>1. /\ DOMAIN q = DOMAIN p /\ q.closed = p.closed /\ q.revision = p.revision
      /\ q.closing = closing /\ q.view = p.view /\ q.status = p.status
      /\ q.calls = p.calls /\ q.run = p.run
  BY DEF WinSound, WinShape, WindowFields
<1>2. RunCalls(q) = RunCalls(p)
  BY <1>1 DEF RunCalls
<1> QED
  BY <1>1, <1>2 DEF WinSound, WinShape, Shows, RunIs, IsStale

(* A window that has been closed lets go of what it left with the host.    *)
LEMMA Joining ==
  ASSUME NEW d, NEW p, WinSound(d, p),
         NEW q, q = IF p.leases = Empty
                      THEN [NewWindow EXCEPT !.revision = p.revision,
                              !.closed = TRUE, !.closing = "done"]
                    ELSE IF p.closing = "final" THEN [p EXCEPT !.closing = "no"]
                    ELSE AllLeasesReleased([p EXCEPT !.closing = "final"])
  PROVE  WinSound(d, q)
<1>1. CASE q = [NewWindow EXCEPT !.revision = p.revision, !.closed = TRUE,
                                 !.closing = "done"]
  <2>1. /\ DOMAIN q = WindowFields /\ q.revision = p.revision /\ q.closed = TRUE
        /\ q.closing = "done" /\ q.status = "unsupported" /\ q.view = NoView
        /\ q.run = NoRun /\ q.calls = {}
    BY <1>1, NewWindowIs DEF WindowFields
  <2>2. p.revision \in Nat
    BY DEF WinSound, WinShape
  <2> QED
    BY <2>1, <2>2, EndedWindow
<1>2. CASE q = [p EXCEPT !.closing = "no"]
  <2>1. PICK closing \in {"no", "early", "final", "done"} : closing = "no"
    OBVIOUS
  <2> QED
    BY <1>2, <2>1, ClosingChange
<1>3. CASE q = AllLeasesReleased([p EXCEPT !.closing = "final"])
  <2>1. PICK closing \in {"no", "early", "final", "done"} : closing = "final"
    OBVIOUS
  <2>2. PICK a : a = [p EXCEPT !.closing = closing]
    OBVIOUS
  <2>3. WinSound(d, a) /\ WinShape(a)
    <3>1. WinSound(d, a)
      BY <2>1, <2>2, ClosingChange
    <3> QED
      BY <3>1 DEF WinSound
  <2>4. q = ReleaseLeases(a, DOMAIN a.leases)
    BY <1>3, <2>1, <2>2 DEF AllLeasesReleased
  <2> QED
    BY <2>3, <2>4, ReleaseKin, KinSound
<1> QED
  BY <1>1, <1>2, <1>3

(* A window that was woken looks at what has become of its job.            *)
LEMMA WokenKnows ==
  ASSUME NEW d, NEW p, WinSound(d, p), p.run.woken
  PROVE  Knows(d, p)
<1>1. p.run.pc = "wait"
  BY DEF WinSound, WinShape, RunSound
<1>2. RunCalls(p) = {}
  BY <1>1, NoCallOf, NotACall
<1> QED
  BY <1>1, <1>2 DEF WinSound, RunIs, Knows

-------------------------------------------------------------------------------
(* What a step does to the windows, when what they know stays true.        *)

LEMMA WindowStep ==
  ASSUME NEW d, AllSound(d, win), NEW w \in Windows,
         \/ Update(w) \/ Encode(w) \/ Woken(w) \/ Close(w) \/ JoinClose(w)
         \/ Lose(w) \/ Vanish(w)
  PROVE  AllSound(d, win')
<1>1. PICK v : v = win[w]
  OBVIOUS
<1>2. WinSound(d, v) /\ v.revision \in Nat
  BY <1>1 DEF AllSound, WinSound, WinShape
<1>3. ASSUME NEW p, WinSound(d, p), Changes(w, p)
      PROVE  AllSound(d, win')
  BY <1>3, OnePut DEF Changes
<1>4. ASSUME Update(w)
      PROVE  AllSound(d, win')
  <2>1. ASSUME NEW changed \in BOOLEAN, NEW demand \in BOOLEAN,
               Changes(w, Updated(v, changed, demand))
        PROVE  AllSound(d, win')
    BY <1>2, <1>3, <2>1, Updating
  <2>2. ASSUME Changes(w, Updated(Updated(v, FALSE, FALSE), FALSE, TRUE))
        PROVE  AllSound(d, win')
    <3>1. PICK no \in BOOLEAN, yes \in BOOLEAN : no = FALSE /\ yes = TRUE
      OBVIOUS
    <3>2. PICK a : a = Updated(v, no, no)
      OBVIOUS
    <3>3. WinSound(d, a)
      BY <1>2, <3>1, <3>2, Updating
    <3>4. WinSound(d, Updated(a, no, yes))
      BY <3>1, <3>3, Updating
    <3>5. Changes(w, Updated(a, no, yes))
      BY <2>2, <3>1, <3>2
    <3> QED
      BY <1>3, <3>4, <3>5
  <2> QED
    BY <1>1, <1>4, <2>1, <2>2 DEF Update
<1>5. ASSUME Encode(w)
      PROVE  AllSound(d, win')
  <2>1. PICK q : q = LeaseFor(v)
    OBVIOUS
  <2>2. PICK r : r = IF IsStale(v) THEN End(v)
                     ELSE Call([q EXCEPT !.run.pc = "request"], "request", q.run.lease)
    OBVIOUS
  <2>3. v.run.pc = "source" /\ Changes(w, r)
    BY <1>1, <1>5, <2>1, <2>2 DEF Encode
  <2>4. WinSound(d, r)
    BY <1>2, <2>1, <2>2, <2>3, Encoded
  <2> QED
    BY <1>3, <2>3, <2>4
<1>6. ASSUME Woken(w)
      PROVE  AllSound(d, win')
  <2>1. v.run.woken /\ Changes(w, Awaited(v))
    BY <1>1, <1>6 DEF Woken
  <2>2. Knows(d, v)
    BY <1>2, <2>1, WokenKnows
  <2> QED
    BY <1>3, <2>1, <2>2, Awaiting
<1>7. ASSUME Close(w)
      PROVE  AllSound(d, win')
  <2>1. PICK a : a = [v EXCEPT !.closed = TRUE, !.next = FALSE, !.closing = "early",
                               !.run.stale = v.run # NoRun]
    OBVIOUS
  <2>2. Changes(w, AllLeasesReleased(Wake(a)))
    BY <1>1, <1>7, <2>1 DEF Close
  <2>3. WinSound(d, AllLeasesReleased(Wake(a)))
    BY <1>2, <2>1, Closing
  <2> QED
    BY <1>3, <2>2, <2>3
<1>8. ASSUME JoinClose(w)
      PROVE  AllSound(d, win')
  <2>1. PICK q : q = IF v.leases = Empty
                       THEN [NewWindow EXCEPT !.revision = v.revision,
                               !.closed = TRUE, !.closing = "done"]
                     ELSE IF v.closing = "final" THEN [v EXCEPT !.closing = "no"]
                     ELSE AllLeasesReleased([v EXCEPT !.closing = "final"])
    OBVIOUS
  <2>2. Changes(w, q)
    BY <1>1, <1>8, <2>1 DEF JoinClose
  <2>3. WinSound(d, q)
    BY <1>2, <2>1, Joining
  <2> QED
    BY <1>3, <2>2, <2>3
<1>9. ASSUME Lose(w)
      PROVE  AllSound(d, win')
  BY <1>9, LostSound DEF Lose
<1>10. ASSUME Vanish(w)
       PROVE  AllSound(d, win')
  <2>1. Changes(w, Gone(v))
    BY <1>1, <1>10 DEF Vanish
  <2>2. WinSound(d, Gone(v))
    BY <1>2, GoneSound
  <2> QED
    BY <1>3, <2>1, <2>2
<1> QED
  BY <1>4, <1>5, <1>6, <1>7, <1>8, <1>9, <1>10

(* What a step of the host does to them.                                   *)
LEMMA TurnsSound ==
  ASSUME NEW d, AllSound(d, win), Turn \/ BeginClose \/ Quit \/ UNCHANGED vars
  PROVE  AllSound(d, win')
<1>1. CASE win' = Nudged(win)
  BY <1>1, AllNudged
<1>2. CASE win' = [w \in Windows |-> Gone(win[w])]
  <2>1. ASSUME NEW w \in Windows
        PROVE  WinSound(d, win'[w])
    <3>1. PICK p : p = win[w]
      OBVIOUS
    <3>2. p.revision \in Nat
      BY <3>1 DEF AllSound, WinSound, WinShape
    <3>3. WinSound(d, Gone(p))
      BY <3>2, GoneSound
    <3> QED
      BY <1>2, <3>1, <3>3
  <2> QED
    BY <1>2, <2>1 DEF AllSound
<1>3. CASE win' = win
  BY <1>3
<1> QED
  BY <1>1, <1>2, <1>3 DEF Turn, StepIndex, StepDraft, NoWork, Served, BeginClose, Quit, vars

-------------------------------------------------------------------------------
(* The whole.                                                              *)

WorkTyped ==
  /\ DOMAIN work = {"closing", "served", "wanted"}
  /\ work.served \in {"none", "index", "draft"}
  /\ index \in {"idle", "issued", "quiesced"}

(* The inductive invariant: the host is sound, and what the windows know of*)
(* it and of their texts is true.                                          *)
IInv == HostSound(core, handles) /\ AllSound(core, win) /\ WorkTyped

LEMMA NewCoreSound == HostSound(NewCore, Empty)
<1>1. /\ DOMAIN NewCore = {"jobs", "buffers", "queue", "flight", "retired", "last"}
      /\ Jobs(NewCore) = {} /\ NewCore.jobs = Empty /\ NewCore.buffers = Empty
      /\ NewCore.queue = <<>> /\ NewCore.flight = NoFlight /\ NewCore.retired = FALSE
      /\ NewCore.last = 0 /\ DOMAIN Empty = {}
  BY DEF NewCore, Jobs, Empty
<1>2. CoreTyped(NewCore)
  <2>1. NoFlight \in Flight
    BY DEF Flight, NoFlight
  <2>2. NewCore.queue \in Seq(Nat) /\ NewCore.retired \in BOOLEAN
    BY DEF NewCore
  <2> QED
    BY <1>1, <2>1, <2>2 DEF CoreTyped
<1>3. QueueSound(NewCore) /\ FlightSound(NewCore)
  BY <1>1 DEF QueueSound, Queued, Distinct, FlightSound, NoFlight
<1>4. BudgetSound(NewCore)
  <2>1. SourceUsed(NewCore) = 0 /\ FactsUsed(NewCore) = 0 /\ ScratchUsed(NewCore) = 0
    BY <1>1, TotalOfNone DEF SourceUsed, FactsUsed, ScratchUsed
  <2>2. NewCore.flight.kind # "parse"
    BY <1>1 DEF NoFlight
  <2>3. 0 <= MaxSource /\ 0 <= MaxFacts /\ 0 <= MaxScratch
    BY LimitsAssumption
  <2> QED
    BY <2>1, <2>2, <2>3 DEF BudgetSound
<1>5. CoreSound(NewCore) /\ ReadyHeld(NewCore) /\ NoneLeft(NewCore)
  BY <1>1, <1>2, <1>3, <1>4 DEF CoreSound, ReadyHeld, NoneLeft
<1>6. HandlesSound(NewCore, Empty)
  <2>1. ScratchUsed(NewCore) = 0
    BY <1>1, TotalOfNone DEF ScratchUsed
  <2>2. Transfers(Empty) = 0
    BY <1>1, TotalOfNone DEF Transfers
  <2>3. 0 <= MaxScratch
    BY LimitsAssumption
  <2> QED
    BY <1>1, <2>1, <2>2, <2>3 DEF HandlesSound
<1> QED
  BY <1>5, <1>6 DEF HostSound

LEMMA InitInv == Init => IInv
<1> SUFFICES ASSUME Init
             PROVE  IInv
  OBVIOUS
<1>1. HostSound(core, handles)
  BY NewCoreSound DEF Init
<1>2. PICK p : p = NewWindow
  OBVIOUS
<1>3. /\ DOMAIN p = WindowFields /\ p.revision = 1 /\ p.closed = FALSE
      /\ p.closing = "no" /\ p.status = "unsupported" /\ p.view = NoView
      /\ p.run = NoRun /\ p.calls = {}
  BY <1>2, NewWindowIs
<1>4. WinSound(core, p)
  <2>0. p.closed \in BOOLEAN
    BY <1>2 DEF NewWindow
  <2>1. PICK v : v.revision = 1
    <3>1. [revision |-> 1].revision = 1
      OBVIOUS
    <3> QED
      BY <3>1
  <2>2. p.revision = v.revision /\ v.revision \in Nat /\ p.closed \in BOOLEAN
    BY <1>3, <2>0, <2>1
  <2> QED
    BY <1>3, <2>2, EndedWindow
<1>5. AllSound(core, win)
  BY <1>2, <1>4 DEF Init, AllSound
<1>6. WorkTyped
  BY DEF Init, WorkTyped
<1> QED
  BY <1>1, <1>5, <1>6 DEF IInv

LEMMA WorkStep ==
  ASSUME WorkTyped, [Next]_vars
  PROVE  WorkTyped'
<1>1. ASSUME UNCHANGED <<work, index>>
      PROVE  WorkTyped'
  BY <1>1 DEF WorkTyped
<1>2. ASSUME Wanted \/ work' = work, index' = index
      PROVE  WorkTyped'
  BY <1>2 DEF WorkTyped, Wanted
<1>3. ASSUME NEW w \in Windows,
             \/ Update(w) \/ Encode(w) \/ Woken(w) \/ Close(w) \/ JoinClose(w)
             \/ Reply(w) \/ Observe(w) \/ Lose(w)
      PROVE  WorkTyped'
  BY <1>1, <1>3 DEF Update, Encode, Woken, Close, JoinClose, Reply, Replied, Observe, Lose
<1>4. ASSUME NEW w \in Windows, Vanish(w)
      PROVE  WorkTyped'
  BY <1>2, <1>4 DEF Vanish
<1>5. ASSUME NEW w \in Windows, Serve(w)
      PROVE  WorkTyped'
  <2>1. \A c, d, r : Reduces(w, c, d, r) => Wanted /\ index' = index
    BY DEF Reduces, Answers
  <2>2. \A c, d, r : Answers(w, c, d, r) => Wanted /\ index' = index
    BY DEF Answers
  <2>3. \A c : Refuses(w, c) => work' = work /\ index' = index
    BY DEF Refuses
  <2>4. \A c, r : Tells(w, c, r) => work' = work /\ index' = index
    BY DEF Tells
  <2>5. (Wanted \/ work' = work) /\ index' = index
    BY <1>5, <2>1, <2>2, <2>3, <2>4
       DEF Serve, ServeRequest, ServeUpload, ServeSeal, ServePrepare, ServeRead,
           ServeCancel, ServeAcknowledge, ServeRelease
  <2> QED
    BY <1>2, <2>5
<1>6. ASSUME Turn
      PROVE  WorkTyped'
  <2>1. CASE StepIndex
    BY <2>1 DEF StepIndex, Served, WorkTyped
  <2>2. CASE StepDraft
    BY <2>2 DEF StepDraft, Served, WorkTyped
  <2>3. CASE NoWork
    BY <2>3 DEF NoWork, WorkTyped
  <2> QED
    BY <1>6, <2>1, <2>2, <2>3 DEF Turn
<1>7. ASSUME BeginClose
      PROVE  WorkTyped'
  BY <1>7 DEF BeginClose, WorkTyped
<1>8. ASSUME Quit \/ UNCHANGED vars
      PROVE  WorkTyped'
  BY <1>1, <1>8 DEF Quit, vars
<1> QED
  BY <1>3, <1>4, <1>5, <1>6, <1>7, <1>8 DEF Next

LEMMA StepInv ==
  ASSUME IInv, [Next]_vars
  PROVE  IInv'
<1>1. HostSound(core, handles) /\ AllSound(core, win) /\ WorkTyped
  BY DEF IInv
<1>2. \A w \in Windows : win[w].run.revision \in Nat
  BY <1>1 DEF AllSound, WinSound, WinShape, RunSound
<1>3. Finished(core, core', handles')
  BY <1>1, <1>2, HostStep
<1>4. HostSound(core', handles') /\ Extends(core, core')
  BY <1>3 DEF Finished, HostSound
<1>5. AllSound(core', win)
  BY <1>1, <1>4, AllStand
<1>6. ASSUME NEW w \in Windows,
             \/ Update(w) \/ Encode(w) \/ Woken(w) \/ Close(w) \/ JoinClose(w)
             \/ Lose(w) \/ Vanish(w)
      PROVE  AllSound(core', win')
  BY <1>5, <1>6, WindowStep
<1>7. ASSUME NEW w \in Windows, Serve(w)
      PROVE  AllSound(core', win')
  BY <1>1, <1>2, <1>5, <1>7, ServeSound
<1>8. ASSUME NEW w \in Windows, Reply(w) \/ Observe(w)
      PROVE  AllSound(core', win')
  BY <1>5, <1>8, ReplySound
<1>9. ASSUME Turn \/ BeginClose \/ Quit \/ UNCHANGED vars
      PROVE  AllSound(core', win')
  BY <1>5, <1>9, TurnsSound
<1>10. AllSound(core', win')
  BY <1>6, <1>7, <1>8, <1>9 DEF Next
<1>11. WorkTyped'
  BY <1>1, WorkStep
<1>12. HostSound(core, handles)' /\ AllSound(core, win)'
  BY <1>4, <1>10
<1> QED
  BY <1>11, <1>12 DEF IInv

(* What follows from the invariant.                                        *)
LEMMA InvTypes ==
  ASSUME IInv
  PROVE  TypeOK
<1>1. CoreSound(core) /\ CoreTyped(core) /\ AllSound(core, win) /\ WorkTyped
  BY DEF IInv, HostSound, CoreSound
<1>2. ASSUME NEW id \in Jobs(core)
      PROVE  /\ core.jobs[id].key \in DOMAIN core.buffers
             /\ core.jobs[id].outcome \in Ends
             /\ {core.jobs[id].source, core.jobs[id].scratch, core.jobs[id].facts}
                  \subseteq Nat
  <2>1. JobTyped(core.jobs[id]) /\ JobSound(core, id)
    BY <1>1 DEF CoreSound, CoreTyped
  <2> QED
    BY <2>1 DEF JobTyped, JobSound
<1>3. ASSUME NEW i \in 1 .. Len(core.queue)
      PROVE  /\ core.jobs[core.queue[i]].sealed
             /\ core.jobs[core.queue[i]].outcome = "none"
  BY <1>1 DEF CoreSound, QueueSound, Queued
<1>4. core.flight.kind \in {"none", "drop", "parse"}
  BY <1>1 DEF CoreTyped, Flight
<1>5. ASSUME NEW w \in Windows
      PROVE  /\ win[w].status \in {"unsupported", "pending", "current", "unavailable"}
             /\ win[w].closing \in {"no", "early", "final", "done"}
  BY <1>1 DEF AllSound, WinSound, WinShape
<1> QED
  BY <1>1, <1>2, <1>3, <1>4, <1>5 DEF TypeOK, WorkTyped

LEMMA InvExact ==
  ASSUME IInv
  PROVE  FactsAreExact
<1>1. /\ CoreSound(core) /\ CoreTyped(core) /\ AllSound(core, win)
      /\ HandlesSound(core, handles)
  BY DEF IInv, HostSound, CoreSound
<1>2. ASSUME NEW w \in Windows, win[w].status = "current"
      PROVE  win[w].view.text = win[w].revision /\ win[w].view.revision = win[w].revision
  BY <1>1, <1>2 DEF AllSound, WinSound, WinShape, Shows
<1>3. ASSUME NEW id \in Jobs(core), core.jobs[id].outcome = "ready",
             ~ core.jobs[id].acked
      PROVE  /\ core.buffers[core.jobs[id].key] =
                  [revision |-> core.jobs[id].revision, current |-> id, releasing |-> FALSE]
             /\ id \in DOMAIN handles
  <2>1. JobSound(core, id)
    BY <1>1 DEF CoreSound
  <2>2. Open(core.jobs[id])
    BY <1>3 DEF Open
  <2>3. PICK b : b = core.buffers[core.jobs[id].key]
    OBVIOUS
  <2>4. /\ b \in Buffer /\ b.revision = core.jobs[id].revision /\ b.current = id
        /\ ~ b.releasing
    BY <1>1, <2>1, <2>2, <2>3 DEF JobSound, CoreTyped
  <2>5. b = [revision |-> core.jobs[id].revision, current |-> id, releasing |-> FALSE]
    BY <2>4 DEF Buffer
  <2>6. id \in DOMAIN handles
    BY <1>1, <2>2 DEF HandlesSound, Live
  <2> QED
    BY <2>3, <2>5, <2>6
<1> QED
  BY <1>2, <1>3 DEF FactsAreExact

LEMMA InvHolds ==
  ASSUME IInv
  PROVE  HoldsWhatIsCharged
<1>1. CoreSound(core) /\ CoreTyped(core) /\ HandlesSound(core, handles)
  BY DEF IInv, HostSound, CoreSound
<1>2. /\ DOMAIN handles \subseteq Jobs(core)
      /\ \A id \in DOMAIN handles : HandleSound(core, handles, id)
      /\ ScratchUsed(core) + Transfers(handles) <= MaxScratch
  BY <1>1, HandlesAre
<1>3. SourceUsed(core) <= MaxSource /\ FactsUsed(core) <= MaxFacts
  BY <1>1 DEF CoreSound, BudgetSound
<1>4. ScratchUsed(core) + TransferUsed <= MaxScratch
  BY <1>2, TransferUsedIs
<1> QED
  BY <1>2, <1>3, <1>4 DEF HoldsWhatIsCharged, HandleSound

(* In every reachable state the reducer, what the host holds and what the  *)
(* windows know fit together (document_draft_executor.rs,                  *)
(* draft_runtime.rs, document-draft-projection.ts).                        *)
THEOREM DraftInvariant == Spec => []IInv
<1>1. IInv /\ [Next]_vars => IInv'
  BY StepInv
<1> QED
  BY InitInv, <1>1, PTL DEF Spec

(* Jobs, the queue, the effect, turns and windows are of their types, and  *)
(* only jobs that wait for the parser are in the queue.                    *)
THEOREM DraftTypes == Spec => []TypeOK
BY DraftInvariant, InvTypes, PTL

(* Facts that a window shows as current are about its text, whatever was   *)
(* sent, parsed, answered or lost meanwhile; and a result that may be read *)
(* is of the latest text of its buffer and is still held (check(run) after *)
(* every wait; supersede and stop_job).                                    *)
THEOREM DraftFactsAreExact == Spec => []FactsAreExact
BY DraftInvariant, InvExact, PTL

(* What the host holds for a job is charged to it, and all charges with    *)
(* the transfers under way stay within the limits (the budgets of          *)
(* draft_runtime.rs, the headroom of document_draft_executor.rs).          *)
THEOREM DraftHoldsWhatIsCharged == Spec => []HoldsWhatIsCharged
BY DraftInvariant, InvHolds, PTL
=============================================================================
