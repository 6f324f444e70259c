------------------------- MODULE DocumentRuntimeProofs -------------------------
(***************************************************************************)
(* Proofs about DocumentRuntime and the cache of DocumentIndex, for every  *)
(* set of documents, owners and requests and every bound: what the cache   *)
(* serves is whole and true, its head never goes back, and a request is    *)
(* answered with a look at the vault that is not older than itself.        *)
(***************************************************************************)
EXTENDS DocumentRuntime, TLAPS, FiniteSetTheorems, WellFoundedInduction

-------------------------------------------------------------------------------
(* The inductive invariant: the cache.                                     *)

(* Rows of the bodies the documents had at watermark s. *)
RowsRight(rows, s) == rows = [d \in DOMAIN rows |-> Revision(d, s)]

GenerationSound(n, g) ==
  /\ g \in [expected : Nat, source : Nat, published : BOOLEAN, rows : {g.rows}]
  /\ g.expected < n /\ g.source <= Source
  /\ DOMAIN g.rows \subseteq Documents /\ RowsRight(g.rows, g.source)
  /\ g.published => DOMAIN g.rows = Documents

Shown(gens) == {n \in DOMAIN gens : gens[n].published}
Staged(gens) == DOMAIN gens \ Shown(gens)

(* The head is the newest published generation. *)
HeadSound(head, gens) ==
  IF head = NoHead THEN Shown(gens) = {}
  ELSE head \in Shown(gens) /\ \A n \in Shown(gens) : n <= head

CacheSound(c) ==
  /\ c \in [tables : {"none", "broken", "sound"}, epoch : Nat, allocated : Nat, head : Nat,
            generations : {c.generations}]
  /\ DOMAIN c.generations \subseteq 1 .. c.allocated
  /\ \A n \in DOMAIN c.generations : GenerationSound(n, c.generations[n])
  /\ HeadSound(c.head, c.generations)
  /\ Cardinality(Shown(c.generations)) <= RetainedGenerations
  /\ Cardinality(Staged(c.generations)) <= RetainedStages

-------------------------------------------------------------------------------
(* The inductive invariant: the owners.                                    *)

Snapshots == [epoch : Nat, generation : Nat]
Observations == [source : Nat, head : Snapshots, current : BOOLEAN, rebuild : BOOLEAN]
StageRefs == [snapshot : Snapshots, source : Nat, ready : BOOLEAN]
Kinds == {"Observe", "Discard", "Rebuild", "Initialize", "RecoverStage", "Begin",
          "Publish", "Pump"}
Effects == [kind : Kinds \cup {"none"}, hinted : BOOLEAN]
Cycles == [open : BOOLEAN, foreground : BOOLEAN, pumps : Nat, restarts : Nat,
           maxPumps : Nat, maxRestarts : Nat, finish : BOOLEAN]
Outcomes == {"none", "Finished", "Failed", "Cancelled", "Retired", "Lost"}
Tellings == [request : Requests, outcome : Outcomes, observation : Observations]
Headers == [expected : Nat, source : Nat, published : BOOLEAN]

OwnerShape(r) ==
  r \in [observation : Observations, stage : StageRefs, pending : Effects,
         requests : Seq(Requests), cycle : Cycles, needsObserve : BOOLEAN,
         recovered : BOOLEAN, initialized : BOOLEAN, latched : BOOLEAN,
         explicit : BOOLEAN, discard : BOOLEAN, yielded : BOOLEAN, blocked : BOOLEAN,
         retired : BOOLEAN, work : {r.work}, told : SUBSET Tellings]

(* What an owner is in the middle of belongs to the effect it issued. *)
WorkFits(w, kind) ==
  \/ w = NoWork
  \/ kind = "Observe" /\ w \in [phase : {"observe"}, seen : Observations]
  \/ kind = "Pump" /\ w \in [phase : {"pump"}, header : Headers,
                             previous : [snapshot : Snapshots, source : Nat],
                             pending : SUBSET Documents, rows : {w.rows}]
  \/ kind = "Publish" /\ w \in [phase : {"publish"}, header : Headers]

Ordered(r) ==
  /\ r.pending # NoEffect => r.cycle.open
  /\ r.pending.kind = "none" => r.pending = NoEffect
  /\ WorkFits(r.work, r.pending.kind)

(* A request that waits will be answered with a look that follows it, or   *)
(* there is one already.  a says when each request was made.               *)
FreshFor(r, a) ==
  /\ \A q \in Waiting(r) :
       /\ a[q] # 0
       /\ r.needsObserve \/ r.observation.source >= a[q]
       /\ r.work.phase = "observe" => r.pending.hinted \/ r.work.seen.source >= a[q]

ToldFor(r, a) ==
  \A t \in r.told :
    /\ a[t.request] # 0
    /\ t.outcome = "Finished" => t.observation.source >= a[t.request]

(* A snapshot of this cache, whose generation is not given out again. *)
Behind(s) ==
  /\ s.epoch <= cache.epoch
  /\ s.epoch = cache.epoch => s.generation <= cache.allocated

(* The rows a pump holds are right for its stage, and what it reuses comes *)
(* from a whole generation; a stage that was found whole stays whole.      *)
WorkSound(w, stage) ==
  /\ w.phase = "pump" =>
       /\ w.header.source <= Source /\ w.previous.source <= Source
       /\ DOMAIN w.rows \subseteq w.pending /\ RowsRight(w.rows, w.header.source)
       /\ Behind(w.previous.snapshot)
       /\ IsThere(w.previous.snapshot) =>
            /\ Generation(w.previous.snapshot).published
            /\ Generation(w.previous.snapshot).source = w.previous.source
  /\ w.phase = "publish" =>
       /\ Behind(stage.snapshot)
       /\ IsThere(stage.snapshot) => Missing(Generation(stage.snapshot)) = {}

OwnerSound(r) ==
  /\ OwnerShape(r) /\ Ordered(r) /\ FreshFor(r, asked)
  /\ WorkSound(r.work, r.stage)
  /\ r.told = {}

Owned == owners = [o \in Owners |-> owners[o]]

Answered ==
  /\ answers \in [Requests -> [outcome : Outcomes, observation : Observations]]
  /\ \A q \in Requests : answers[q].outcome = "Finished" =>
       asked[q] # 0 /\ answers[q].observation.source >= asked[q]

IInv ==
  /\ journal \in Seq(Documents) /\ Len(journal) <= MaxCommits
  /\ CacheSound(cache) /\ cache.epoch <= MaxEpochs /\ cache.allocated <= MaxGenerations
  /\ Owned /\ \A o \in Owners : OwnerSound(owners[o])
  /\ asked \in [Requests -> Nat] /\ \A q \in Requests : asked[q] <= Source
  /\ Answered

-------------------------------------------------------------------------------
(* Generations: the newest of a kind stay.                                 *)

(* A nonempty set of naturals has a smallest member.                       *)
LEMMA SmallestOf ==
  ASSUME NEW T, T \subseteq Nat, T # {}
  PROVE  \E x \in T : \A y \in T : x <= y
<1> DEFINE R == {ss \in Nat \X Nat : ss[1] < ss[2]}
<1>1. IsWellFoundedOn(R, Nat)
  BY NatLessThanWellFounded DEF OpToRel
<1>2. PICK x \in T : \A y \in T : ~ (<<y, x>> \in R)
  <2> HIDE DEF R
  <2> QED
    BY <1>1, WFMin
<1>3. \A y \in T : ~ (y < x)
  BY <1>2
<1> QED
  BY <1>3

(* The newest members of a kind, no more of them than retain.              *)
Newest(kind, retain) == {n \in kind : Cardinality({m \in kind : m > n}) < retain}

(* Pruning keeps the newest generations of the kind it prunes, leaves the  *)
(* others alone and keeps no more than it is told to.                      *)
LEMMA Pruning ==
  ASSUME NEW gens, NEW kind \in SUBSET DOMAIN gens, NEW retain \in Nat \ {0},
         DOMAIN gens \subseteq Nat, IsFiniteSet(DOMAIN gens),
         NEW r, DOMAIN r = (DOMAIN gens \ kind) \cup Newest(kind, retain),
         \A n \in DOMAIN r : r[n] = gens[n]
  PROVE  /\ DOMAIN r \subseteq DOMAIN gens /\ DOMAIN gens \ kind \subseteq DOMAIN r
         /\ \A n \in kind : (\A m \in kind : m <= n) => n \in DOMAIN r
         /\ Cardinality(kind \cap DOMAIN r) <= retain
<1> DEFINE newer(n) == {m \in kind : m > n}
           kept == {n \in kind : Cardinality(newer(n)) < retain}
<1>1. DOMAIN r = (DOMAIN gens \ kind) \cup kept
  BY DEF Newest
<1>2. kept \subseteq kind /\ kind \subseteq Nat
  OBVIOUS
<1>3. IsFiniteSet(kind) /\ IsFiniteSet(kept)
  <2> HIDE DEF kept
  <2> QED
    BY <1>2, FS_Subset
<1>4. ASSUME NEW n \in kind, \A m \in kind : m <= n
      PROVE  n \in kept
  <2>1. newer(n) = {}
    BY <1>2, <1>4
  <2> QED
    BY <2>1, FS_EmptySet
<1>5. kind \cap DOMAIN r = kept
  BY <1>1, <1>2
<1>6. Cardinality(kept) <= retain
  <2>1. CASE kept = {}
    <3> HIDE DEF kept
    <3> QED
      BY <2>1, FS_EmptySet
  <2>2. CASE kept # {}
    <3>1. PICK x \in kept : \A y \in kept : x <= y
      <4> HIDE DEF kept
      <4> QED
        BY <1>2, <2>2, SmallestOf
    <3>2. kept \ {x} \subseteq newer(x)
      <4> HIDE DEF kept
      <4>1. x \in Nat
        BY <1>2
      <4>2. ASSUME NEW y \in kept \ {x}
            PROVE  y \in kind /\ y > x
        <5>1. y \in Nat /\ y \in kind /\ y # x /\ x <= y
          BY <1>2, <3>1
        <5> QED
          BY <4>1, <5>1
      <4> QED
        BY <4>2
    <3>3. IsFiniteSet(newer(x)) /\ Cardinality(newer(x)) \in Nat
      <4>1. newer(x) \subseteq kind
        OBVIOUS
      <4> QED
        BY <4>1, <1>3, FS_Subset, FS_CardinalityType
    <3>4. Cardinality(newer(x)) < retain
      BY <3>1
    <3> HIDE DEF kept, newer
    <3>5. Cardinality(kept \ {x}) <= Cardinality(newer(x))
      BY <3>2, <3>3, FS_Subset
    <3>6. /\ Cardinality(kept \ {x}) = Cardinality(kept) - 1
          /\ Cardinality(kept) \in Nat
      BY <1>3, <3>1, FS_RemoveElement, FS_CardinalityType
    <3> QED
      BY <3>3, <3>4, <3>5, <3>6
  <2> QED
    BY <2>1, <2>2
<1> QED
  BY <1>1, <1>2, <1>4, <1>5, <1>6

-------------------------------------------------------------------------------
(* The journal only grows.                                                 *)

Grows == \/ journal' = journal
         \/ \E e \in Documents : journal' = Append(journal, e)

(* A new entry of the journal changes no revision before it.               *)
LEMMA RevisionStays ==
  ASSUME journal \in Seq(Documents), Grows, NEW d, NEW s \in Nat, s <= Source
  PROVE  Revision(d, s)' = Revision(d, s)
<1>1. {t \in 2 .. s : journal'[t - 1] = d} = {t \in 2 .. s : journal[t - 1] = d}
  BY SMTT(30) DEF Grows, Source
<1> QED
  BY <1>1 DEF Revision

LEMMA SourceGrows ==
  ASSUME journal \in Seq(Documents), Grows
  PROVE  Source \in Nat /\ Source' \in Nat /\ Source <= Source' /\ journal' \in Seq(Documents)
BY DEF Grows, Source

LEMMA RowsStay ==
  ASSUME journal \in Seq(Documents), Grows, NEW rows, NEW s \in Nat, s <= Source,
         RowsRight(rows, s)
  PROVE  RowsRight(rows, s)'
<1>1. \A d : Revision(d, s)' = Revision(d, s)
  BY RevisionStays
<1>2. [d \in DOMAIN rows |-> Revision(d, s)'] = [d \in DOMAIN rows |-> Revision(d, s)]
  BY <1>1
<1> QED
  BY <1>2 DEF RowsRight

LEMMA GenerationStays ==
  ASSUME journal \in Seq(Documents), Grows, NEW n, NEW g, GenerationSound(n, g)
  PROVE  GenerationSound(n, g)'
<1>1. g.source \in Nat /\ g.source <= Source
  BY DEF GenerationSound
<1>2. RowsRight(g.rows, g.source)'
  BY <1>1, RowsStay DEF GenerationSound
<1>3. g.source <= Source'
  BY <1>1, SourceGrows
<1> QED
  BY <1>2, <1>3 DEF GenerationSound

LEMMA CacheStays ==
  ASSUME journal \in Seq(Documents), Grows, NEW c, CacheSound(c)
  PROVE  CacheSound(c)'
<1>1. \A n \in DOMAIN c.generations : GenerationSound(n, c.generations[n])'
  BY GenerationStays DEF CacheSound
<1> QED
  BY <1>1 DEF CacheSound, HeadSound, Shown, Staged

-------------------------------------------------------------------------------
(* What a transaction leaves of the cache.                                 *)

(* Within an epoch no number is given out twice, and a generation that is  *)
(* still there has its source, stays published and only gains rows.        *)
Keeps(c, r) ==
  \/ r.epoch > c.epoch
  \/ /\ r.epoch = c.epoch /\ r.allocated >= c.allocated
     /\ \A n \in DOMAIN r.generations : n <= c.allocated =>
          /\ n \in DOMAIN c.generations
          /\ r.generations[n].source = c.generations[n].source
          /\ c.generations[n].published => r.generations[n].published
          /\ DOMAIN c.generations[n].rows \subseteq DOMAIN r.generations[n].rows

LEMMA KeepsItself ==
  ASSUME NEW c, CacheSound(c)
  PROVE  Keeps(c, c)
BY DEF Keeps, CacheSound

(* The generations of a sound cache are finitely many.                     *)
LEMMA FewGenerations ==
  ASSUME NEW c, CacheSound(c)
  PROVE  /\ DOMAIN c.generations \subseteq Nat /\ IsFiniteSet(DOMAIN c.generations)
         /\ \A n \in DOMAIN c.generations : n >= 1 /\ n <= c.allocated
         /\ c.head <= c.allocated
<1>1. c.allocated \in Nat /\ DOMAIN c.generations \subseteq 1 .. c.allocated
  BY DEF CacheSound
<1>2. IsFiniteSet(1 .. c.allocated)
  BY <1>1, FS_Interval
<1>3. IsFiniteSet(DOMAIN c.generations)
  BY <1>1, <1>2, FS_Subset
<1>4. c.head <= c.allocated
  BY <1>1 DEF CacheSound, HeadSound, Shown, Staged, NoHead
<1> QED
  BY <1>1, <1>3, <1>4

LEMMA CacheTypes ==
  ASSUME NEW c, CacheSound(c)
  PROVE  /\ c.tables \in {"none", "broken", "sound"}
         /\ c.epoch \in Nat /\ c.allocated \in Nat /\ c.head \in Nat
         /\ \A n \in DOMAIN c.generations : GenerationSound(n, c.generations[n])
BY DEF CacheSound

LEMMA FreshIsSound ==
  ASSUME NEW c, c.epoch \in Nat, NEW r, r = FreshCache(c)
  PROVE  CacheSound(r) /\ Keeps(c, r) /\ r.epoch = c.epoch + 1 /\ r.allocated = 0
<1>1. r = [tables |-> "sound", epoch |-> c.epoch + 1, allocated |-> 0,
           head |-> NoHead, generations |-> Empty]
  BY DEF FreshCache
<1>2. DOMAIN r.generations = {} /\ r.head = NoHead /\ r.epoch = c.epoch + 1 /\ r.allocated = 0
  BY <1>1 DEF Empty
<1>3. r \in [tables : {"none", "broken", "sound"}, epoch : Nat, allocated : Nat, head : Nat,
             generations : {r.generations}]
  BY <1>1 DEF NoHead
<1>4. /\ Shown(r.generations) = {}
      /\ Cardinality(Shown(r.generations)) <= RetainedGenerations
      /\ Cardinality(Staged(r.generations)) <= RetainedStages
  <2>1. Shown(r.generations) = {} /\ Staged(r.generations) = {}
    BY <1>2 DEF Shown, Staged
  <2>2. 0 <= RetainedGenerations /\ 0 <= RetainedStages
    BY RetentionAssumption
  <2> QED
    BY <2>1, <2>2, FS_EmptySet
<1>5. CacheSound(r)
  BY <1>2, <1>3, <1>4 DEF CacheSound, HeadSound
<1> QED
  BY <1>2, <1>5 DEF Keeps

LEMMA NoCacheIsSound ==
  CacheSound(NoCache)
<1> DEFINE r == NoCache
<1>1. r = [tables |-> "none", epoch |-> 0, allocated |-> 0, head |-> NoHead,
           generations |-> Empty]
  BY DEF NoCache
<1> HIDE DEF r
<1>2. DOMAIN r.generations = {} /\ r.head = NoHead
  BY <1>1 DEF Empty
<1>3. r \in [tables : {"none", "broken", "sound"}, epoch : Nat, allocated : Nat, head : Nat,
             generations : {r.generations}]
  BY <1>1 DEF NoHead
<1>4. /\ Shown(r.generations) = {}
      /\ Cardinality(Shown(r.generations)) <= RetainedGenerations
      /\ Cardinality(Staged(r.generations)) <= RetainedStages
  <2>1. Shown(r.generations) = {} /\ Staged(r.generations) = {}
    BY <1>2 DEF Shown, Staged
  <2>2. 0 <= RetainedGenerations /\ 0 <= RetainedStages
    BY RetentionAssumption
  <2> QED
    BY <2>1, <2>2, FS_EmptySet
<1>5. CacheSound(r)
  BY <1>2, <1>3, <1>4 DEF CacheSound, HeadSound
<1> QED
  BY <1>5 DEF r

LEMMA DamageIsSound ==
  ASSUME NEW c, CacheSound(c), NEW r, r = [c EXCEPT !.tables = "broken"]
  PROVE  CacheSound(r) /\ Keeps(c, r) /\ r.epoch = c.epoch /\ r.allocated = c.allocated
<1>1. /\ r \in [tables : {"none", "broken", "sound"}, epoch : Nat, allocated : Nat, head : Nat,
                generations : {r.generations}]
      /\ r.epoch = c.epoch /\ r.allocated = c.allocated /\ r.head = c.head
      /\ r.generations = c.generations
  BY DEF CacheSound
<1>2. CacheSound(r)
  BY <1>1 DEF CacheSound
<1> QED
  BY <1>1, <1>2, CacheTypes DEF Keeps

-------------------------------------------------------------------------------
(* The transactions that change the generations.                           *)

(* A stage is begun: the next number, nothing else of the cache moves.     *)
LEMMA StageIsSound ==
  ASSUME journal \in Seq(Documents), NEW c, CacheSound(c), NEW r, r = WithStage(c)
  PROVE  /\ CacheSound(r) /\ Keeps(c, r) /\ r.epoch = c.epoch
         /\ r.allocated = c.allocated + 1 /\ r.head = c.head
<1> DEFINE n == c.allocated + 1
           g == [expected |-> c.head, source |-> Source, published |-> FALSE, rows |-> Empty]
           all == [m \in DOMAIN c.generations \cup {n} |->
                     IF m = n THEN g ELSE c.generations[m]]
           G == Pruned(all, FALSE, RetainedStages)
<1>1. r = [c EXCEPT !.allocated = n, !.generations = G]
  BY DEF WithStage
<1>2. /\ DOMAIN c.generations \subseteq Nat /\ IsFiniteSet(DOMAIN c.generations)
      /\ \A m \in DOMAIN c.generations : m >= 1 /\ m <= c.allocated
      /\ c.head <= c.allocated /\ c.allocated \in Nat /\ c.head \in Nat
  BY FewGenerations, CacheTypes
<1>3. /\ DOMAIN all = DOMAIN c.generations \cup {n} /\ all[n] = g
      /\ \A m \in DOMAIN c.generations : all[m] = c.generations[m]
  BY <1>2
<1>4. GenerationSound(n, g)
  <2>1. /\ DOMAIN Empty = {}
        /\ RowsRight(Empty, Source)
    BY DEF Empty, RowsRight
  <2>2. Source \in Nat
    BY DEF Source
  <2> QED
    BY <1>2, <2>1, <2>2 DEF GenerationSound
<1>5. g.published = FALSE
  OBVIOUS
<1> HIDE DEF g, all
<1>6. DOMAIN all \subseteq Nat /\ IsFiniteSet(DOMAIN all)
  BY <1>2, <1>3, FS_AddElement
<1>7. RetainedStages \in Nat \ {0}
  BY RetentionAssumption
<1> DEFINE kind == {m \in DOMAIN all : all[m].published = FALSE}
<1>16. G = [m \in (DOMAIN all \ kind) \cup Newest(kind, RetainedStages) |-> all[m]]
  BY DEF Pruned, Newest
<1>18. /\ DOMAIN G = (DOMAIN all \ kind) \cup Newest(kind, RetainedStages)
       /\ \A m \in DOMAIN G : G[m] = all[m]
  BY <1>16 DEF Newest
<1>17. kind \subseteq DOMAIN all
  OBVIOUS
<1> HIDE DEF G, kind
<1>8. /\ DOMAIN G \subseteq DOMAIN all /\ DOMAIN all \ kind \subseteq DOMAIN G
      /\ \A m \in DOMAIN G : G[m] = all[m]
      /\ Cardinality(kind \cap DOMAIN G) <= RetainedStages
  BY <1>6, <1>7, <1>17, <1>18, Pruning
<1>9. /\ r \in [tables : {"none", "broken", "sound"}, epoch : Nat, allocated : Nat, head : Nat,
                generations : {r.generations}]
      /\ r.epoch = c.epoch /\ r.allocated = n /\ r.head = c.head /\ r.generations = G
  <2>1. c \in [tables : {"none", "broken", "sound"}, epoch : Nat, allocated : Nat,
               head : Nat, generations : {c.generations}]
    BY DEF CacheSound
  <2>2. n \in Nat
    BY <1>2
  <2> HIDE DEF n
  <2> QED
    BY <1>1, <2>1, <2>2
<1>10. \A m \in DOMAIN G : GenerationSound(m, G[m])
  BY <1>3, <1>4, <1>8 DEF CacheSound
<1>11. Shown(G) = Shown(c.generations)
  BY <1>3, <1>5, <1>8 DEF Shown, kind
<1>12. DOMAIN G \subseteq 1 .. n
  BY <1>2, <1>3, <1>8
<1>15. Cardinality(Staged(G)) <= RetainedStages
  <2>1. Staged(G) = kind \cap DOMAIN G
    BY <1>8, <1>10 DEF Staged, Shown, GenerationSound, kind
  <2> QED
    BY <1>8, <2>1
<1>13. CacheSound(r)
  BY <1>9, <1>10, <1>11, <1>12, <1>15 DEF CacheSound, HeadSound
<1>14. Keeps(c, r)
  BY <1>2, <1>3, <1>8, <1>9 DEF Keeps
<1> QED
  BY <1>9, <1>13, <1>14

(* A stage that was not published is thrown away.                          *)
LEMMA WithoutIsSound ==
  ASSUME NEW c, CacheSound(c), NEW n, NEW r, r = Without(c, n),
         n \in DOMAIN c.generations, ~ c.generations[n].published
  PROVE  /\ CacheSound(r) /\ Keeps(c, r) /\ r.epoch = c.epoch
         /\ r.allocated = c.allocated /\ r.head = c.head
<1> DEFINE G == [m \in DOMAIN c.generations \ {n} |-> c.generations[m]]
<1>1. r = [c EXCEPT !.generations = G]
  BY DEF Without
<1>2. /\ DOMAIN c.generations \subseteq Nat /\ IsFiniteSet(DOMAIN c.generations)
      /\ \A m \in DOMAIN c.generations : m >= 1 /\ m <= c.allocated
      /\ c.head <= c.allocated /\ c.allocated \in Nat /\ c.head \in Nat /\ c.epoch \in Nat
  BY FewGenerations, CacheTypes
<1>3. /\ DOMAIN G = DOMAIN c.generations \ {n}
      /\ \A m \in DOMAIN G : G[m] = c.generations[m]
  OBVIOUS
<1> HIDE DEF G
<1>4. /\ r \in [tables : {"none", "broken", "sound"}, epoch : Nat, allocated : Nat, head : Nat,
                generations : {r.generations}]
      /\ r.epoch = c.epoch /\ r.allocated = c.allocated /\ r.head = c.head
      /\ r.generations = G
  BY <1>1, <1>2 DEF CacheSound
<1>5. \A m \in DOMAIN G : GenerationSound(m, G[m])
  BY <1>3 DEF CacheSound
<1>6. Shown(G) = Shown(c.generations)
  BY <1>3 DEF Shown, Staged
<1>7. Cardinality(Staged(G)) <= RetainedStages
  <2>1. Staged(G) \subseteq Staged(c.generations)
    BY <1>3 DEF Shown, Staged
  <2>2. IsFiniteSet(Staged(c.generations))
    BY <1>2, FS_Subset DEF Shown, Staged
  <2>3. /\ Cardinality(Staged(G)) <= Cardinality(Staged(c.generations))
        /\ Cardinality(Staged(G)) \in Nat
        /\ Cardinality(Staged(c.generations)) \in Nat
    BY <2>1, <2>2, FS_Subset, FS_CardinalityType
  <2>4. Cardinality(Staged(c.generations)) <= RetainedStages
    BY DEF CacheSound
  <2>5. RetainedStages \in Nat
    BY RetentionAssumption
  <2> QED
    BY <2>3, <2>4, <2>5
<1>8. DOMAIN G \subseteq 1 .. c.allocated
  BY <1>2, <1>3
<1>9. CacheSound(r)
  BY <1>4, <1>5, <1>6, <1>7, <1>8 DEF CacheSound, HeadSound
<1>10. Keeps(c, r)
  BY <1>2, <1>3, <1>4 DEF Keeps
<1> QED
  BY <1>4, <1>9, <1>10

(* Rows of a stage are written: right ones, for its watermark.             *)
LEMMA RowsAreSound ==
  ASSUME NEW c, CacheSound(c), NEW n \in DOMAIN c.generations, NEW rows,
         DOMAIN rows \subseteq Documents, RowsRight(rows, c.generations[n].source),
         NEW r, r = WithRows(c, n, rows)
  PROVE  /\ CacheSound(r) /\ Keeps(c, r) /\ r.epoch = c.epoch
         /\ r.allocated = c.allocated /\ r.head = c.head
<1> DEFINE g == c.generations[n]
           new == [d \in DOMAIN g.rows \cup DOMAIN rows |->
                     IF d \in DOMAIN rows THEN rows[d] ELSE g.rows[d]]
           h == [g EXCEPT !.rows = new]
           G == [c.generations EXCEPT ![n] = h]
<1>1. r = [c EXCEPT !.generations = G]
  BY DEF WithRows
<1>2. GenerationSound(n, g) /\ n \in Nat /\ n <= c.allocated
  BY CacheTypes, FewGenerations
<1>3. /\ DOMAIN new = DOMAIN g.rows \cup DOMAIN rows
      /\ RowsRight(new, g.source)
  <2>1. \A d \in DOMAIN g.rows : g.rows[d] = Revision(d, g.source)
    BY <1>2 DEF GenerationSound, RowsRight
  <2>2. \A d \in DOMAIN rows : rows[d] = Revision(d, g.source)
    BY DEF RowsRight
  <2> QED
    BY <2>1, <2>2 DEF RowsRight
<1> HIDE DEF new
<1>4. /\ h.rows = new /\ h.source = g.source /\ h.published = g.published
      /\ h.expected = g.expected
      /\ h \in [expected : Nat, source : Nat, published : BOOLEAN, rows : {h.rows}]
  BY <1>2 DEF GenerationSound
<1>5. GenerationSound(n, h)
  BY <1>2, <1>3, <1>4 DEF GenerationSound
<1> HIDE DEF h
<1>6. /\ DOMAIN G = DOMAIN c.generations /\ G[n] = h
      /\ \A m \in DOMAIN c.generations : m # n => G[m] = c.generations[m]
  OBVIOUS
<1> HIDE DEF G
<1>7. /\ r \in [tables : {"none", "broken", "sound"}, epoch : Nat, allocated : Nat, head : Nat,
                generations : {r.generations}]
      /\ r.epoch = c.epoch /\ r.allocated = c.allocated /\ r.head = c.head
      /\ r.generations = G
  BY <1>1 DEF CacheSound
<1>8. \A m \in DOMAIN G : GenerationSound(m, G[m])
  BY <1>5, <1>6, CacheTypes
<1>9. Shown(G) = Shown(c.generations) /\ Staged(G) = Staged(c.generations)
  BY <1>4, <1>6 DEF Shown, Staged
<1>10. CacheSound(r)
  BY <1>6, <1>7, <1>8, <1>9 DEF CacheSound, HeadSound
<1>11. Keeps(c, r)
  BY <1>3, <1>4, <1>6, <1>7, CacheTypes DEF Keeps
<1> QED
  BY <1>7, <1>10, <1>11

(* A whole stage of the current watermark that expects the current head is *)
(* published: it is the newest of the published ones.                      *)
LEMMA HeadIsSound ==
  ASSUME NEW c, CacheSound(c), NEW n \in DOMAIN c.generations,
         c.generations[n].expected = c.head, DOMAIN c.generations[n].rows = Documents,
         NEW r, r = WithHead(c, n)
  PROVE  /\ CacheSound(r) /\ Keeps(c, r) /\ r.epoch = c.epoch
         /\ r.allocated = c.allocated /\ r.head = n
         /\ n \in DOMAIN r.generations
         /\ r.generations[n].source = c.generations[n].source
<1> DEFINE g == c.generations[n]
           h == [g EXCEPT !.published = TRUE]
           all == [c.generations EXCEPT ![n].published = TRUE]
           G == Pruned(all, TRUE, RetainedGenerations)
           kind == {m \in DOMAIN all : all[m].published = TRUE}
<1>1. r = [c EXCEPT !.head = n, !.generations = G]
  BY DEF WithHead
<1>2. /\ DOMAIN c.generations \subseteq Nat /\ IsFiniteSet(DOMAIN c.generations)
      /\ \A m \in DOMAIN c.generations : m >= 1 /\ m <= c.allocated
      /\ c.allocated \in Nat /\ c.head \in Nat /\ c.epoch \in Nat /\ n \in Nat /\ n # 0
      /\ GenerationSound(n, g)
  BY FewGenerations, CacheTypes
<1>3. /\ h.rows = g.rows /\ h.source = g.source /\ h.published = TRUE
      /\ h.expected = g.expected
      /\ h \in [expected : Nat, source : Nat, published : BOOLEAN, rows : {h.rows}]
  BY <1>2 DEF GenerationSound
<1>4. /\ DOMAIN all = DOMAIN c.generations /\ all[n] = h
      /\ \A m \in DOMAIN c.generations : m # n => all[m] = c.generations[m]
  OBVIOUS
<1>5. GenerationSound(n, h)
  BY <1>2, <1>3 DEF GenerationSound
<1> HIDE DEF h, all
<1>6. \A m \in DOMAIN all : GenerationSound(m, all[m])
  BY <1>4, <1>5, CacheTypes
<1>7. /\ G = [m \in (DOMAIN all \ kind) \cup Newest(kind, RetainedGenerations) |-> all[m]]
  BY DEF Pruned, Newest
<1>8. /\ DOMAIN G = (DOMAIN all \ kind) \cup Newest(kind, RetainedGenerations)
      /\ \A m \in DOMAIN G : G[m] = all[m]
  BY <1>7
<1>9. kind = Shown(all)
  BY <1>6 DEF Shown, GenerationSound
<1>10. Shown(all) = Shown(c.generations) \cup {n}
  BY <1>3, <1>4 DEF Shown
<1>11. \A m \in Shown(all) : m <= n
  <2>1. HeadSound(c.head, c.generations) /\ c.head < n
    BY <1>2 DEF CacheSound, GenerationSound
  <2>2. \A m \in Shown(c.generations) : m <= c.head
    BY <2>1 DEF HeadSound
  <2>3. Shown(c.generations) \subseteq Nat
    BY <1>2 DEF Shown
  <2> QED
    BY <1>2, <1>10, <2>1, <2>2, <2>3
<1>12. kind \subseteq DOMAIN all
  OBVIOUS
<1>13. RetainedGenerations \in Nat \ {0}
  BY RetentionAssumption
<1> HIDE DEF G, kind
<1>14. /\ DOMAIN G \subseteq DOMAIN all /\ DOMAIN all \ kind \subseteq DOMAIN G
       /\ \A m \in kind : (\A k \in kind : k <= m) => m \in DOMAIN G
       /\ Cardinality(kind \cap DOMAIN G) <= RetainedGenerations
  BY <1>2, <1>4, <1>8, <1>12, <1>13, Pruning
<1>15. n \in Shown(G)
  BY <1>3, <1>4, <1>8, <1>9, <1>10, <1>11, <1>14 DEF Shown
<1>16. Shown(G) = kind \cap DOMAIN G
  BY <1>8, <1>9, <1>14 DEF Shown
<1>17. HeadSound(n, G)
  BY <1>2, <1>9, <1>11, <1>15, <1>16 DEF HeadSound, NoHead
<1>18. Staged(G) = Staged(c.generations) \ {n}
  BY <1>4, <1>8, <1>9, <1>10, <1>14, <1>16 DEF Staged, Shown
<1>19. Cardinality(Staged(G)) <= RetainedStages
  <2>1. IsFiniteSet(Staged(c.generations)) /\ Staged(G) \subseteq Staged(c.generations)
    BY <1>2, <1>18, FS_Subset DEF Staged
  <2>2. /\ Cardinality(Staged(G)) <= Cardinality(Staged(c.generations))
        /\ Cardinality(Staged(G)) \in Nat
        /\ Cardinality(Staged(c.generations)) \in Nat
    BY <2>1, FS_Subset, FS_CardinalityType
  <2>3. Cardinality(Staged(c.generations)) <= RetainedStages
    BY DEF CacheSound
  <2>4. RetainedStages \in Nat
    BY RetentionAssumption
  <2> QED
    BY <2>2, <2>3, <2>4
<1>20. /\ r \in [tables : {"none", "broken", "sound"}, epoch : Nat, allocated : Nat, head : Nat,
                 generations : {r.generations}]
       /\ r.epoch = c.epoch /\ r.allocated = c.allocated /\ r.head = n
       /\ r.generations = G
  <2>1. c \in [tables : {"none", "broken", "sound"}, epoch : Nat, allocated : Nat,
               head : Nat, generations : {c.generations}]
    BY DEF CacheSound
  <2> QED
    BY <1>1, <1>2, <2>1
<1>21. CacheSound(r)
  <2>1. \A m \in DOMAIN G : GenerationSound(m, G[m])
    BY <1>6, <1>8, <1>14
  <2>2. DOMAIN G \subseteq 1 .. c.allocated
    BY <1>2, <1>4, <1>14
  <2> QED
    BY <1>14, <1>16, <1>17, <1>19, <1>20, <2>1, <2>2 DEF CacheSound
<1>22. Keeps(c, r)
  BY <1>2, <1>3, <1>4, <1>8, <1>14, <1>20 DEF Keeps
<1> QED
  BY <1>3, <1>4, <1>8, <1>15, <1>20, <1>21, <1>22 DEF Shown

-------------------------------------------------------------------------------
(* The reducer: what it decides keeps an owner sound, whatever the times a *)
(* at which the requests were made.                                        *)

Good(r, a) == OwnerShape(r) /\ Ordered(r) /\ FreshFor(r, a) /\ ToldFor(r, a)

LEMMA NoEffectShape ==
  /\ NoEffect \in Effects /\ NoEffect.kind = "none" /\ NoEffect.hinted = FALSE
  /\ NoWork.phase = "none" /\ "none" \notin Kinds
BY DEF NoEffect, Effects, NoWork, Kinds

LEMMA NoCycleShape ==
  NoCycle \in Cycles /\ ~ NoCycle.open
BY DEF NoCycle, Cycles

LEMMA AtRest ==
  ASSUME NEW r, OwnerShape(r), Ordered(r), r.pending = NoEffect
  PROVE  r.work = NoWork
BY NoEffectShape DEF Ordered, WorkFits

LEMMA StartedIsGood ==
  ASSUME NEW a, NEW r, Good(r, a), r.pending = NoEffect, NEW s, s = StartedCycle(r)
  PROVE  /\ Good(s, a) /\ s.cycle.open /\ s.stage = r.stage /\ s.work = NoWork
         /\ s.pending = NoEffect
<1>1. r.work = NoWork
  BY AtRest DEF Good
<1>2. CASE r.cycle.open
  BY <1>1, <1>2 DEF StartedCycle
<1>3. CASE ~ r.cycle.open
  <2>1. PICK k \in Cycles : s = [r EXCEPT !.cycle = k] /\ k.open
    <3> DEFINE foreground == r.requests # <<>>
               k == [NoCycle EXCEPT !.open = TRUE, !.foreground = foreground,
                       !.maxPumps = IF foreground THEN MaxPumps ELSE 1,
                       !.maxRestarts = IF foreground THEN MaxRestarts ELSE 1]
    <3>1. k \in Cycles /\ k.open
      BY BoundsAssumption DEF NoCycle, Cycles
    <3> QED
      BY <1>3, <3>1 DEF StartedCycle
  <2>2. /\ OwnerShape(s) /\ s.pending = NoEffect /\ s.work = NoWork /\ s.stage = r.stage
        /\ s.requests = r.requests /\ s.told = r.told /\ s.needsObserve = r.needsObserve
        /\ s.observation = r.observation /\ s.cycle = k
    BY <1>1, <2>1 DEF Good, OwnerShape
  <2>3. Ordered(s)
    BY <2>1, <2>2, NoEffectShape DEF Ordered, WorkFits
  <2>4. FreshFor(s, a) /\ ToldFor(s, a)
    BY <2>2, NoEffectShape DEF Good, FreshFor, ToldFor, Waiting
  <2> QED
    BY <2>1, <2>2, <2>3, <2>4 DEF Good
<1> QED
  BY <1>2, <1>3

LEMMA IssuedIsGood ==
  ASSUME NEW a, NEW r, Good(r, a), r.cycle.open, r.work = NoWork,
         NEW kind \in Kinds, NEW s, s = Issued(r, kind)
  PROVE  Good(s, a) /\ s.stage = r.stage /\ s.work = NoWork
<1> DEFINE e == [kind |-> kind, hinted |-> FALSE]
<1>1. e \in Effects /\ e.kind = kind
  BY DEF Effects
<1>2. s = [r EXCEPT !.pending = e]
  BY DEF Issued
<1> HIDE DEF e
<1>3. /\ OwnerShape(s) /\ s.pending = e /\ s.work = NoWork /\ s.stage = r.stage
      /\ s.requests = r.requests /\ s.told = r.told /\ s.needsObserve = r.needsObserve
      /\ s.observation = r.observation /\ s.cycle = r.cycle
  BY <1>1, <1>2 DEF Good, OwnerShape
<1>4. Ordered(s)
  BY <1>1, <1>3, NoEffectShape DEF Ordered, WorkFits
<1>5. FreshFor(s, a) /\ ToldFor(s, a)
  BY <1>3, NoEffectShape DEF Good, FreshFor, ToldFor, Waiting
<1> QED
  BY <1>3, <1>4, <1>5 DEF Good

LEMMA ToldIsGood ==
  ASSUME NEW a, NEW r, Good(r, a), NEW outcome \in Outcomes,
         outcome = "Finished" => ~ r.needsObserve, NEW s, s = Told(r, outcome)
  PROVE  /\ Good(s, a) /\ s.requests = <<>> /\ s.stage = r.stage /\ s.work = r.work
         /\ s.pending = r.pending /\ s.observation = r.observation
         /\ s.needsObserve = r.needsObserve
<1> DEFINE new == {[request |-> q, outcome |-> outcome,
                    observation |-> r.observation] : q \in Waiting(r)}
<1>1. s = [r EXCEPT !.requests = <<>>, !.told = r.told \cup new]
  BY DEF Told
<1>2. Waiting(r) \subseteq Requests /\ r.observation \in Observations /\ r.told \subseteq Tellings
  BY DEF Good, OwnerShape, Waiting
<1>3. new \subseteq Tellings
  BY <1>2 DEF Tellings
<1>4. \A t \in new : /\ a[t.request] # 0
                     /\ t.outcome = "Finished" => t.observation.source >= a[t.request]
  BY DEF Good, FreshFor
<1> HIDE DEF new
<1>5. <<>> \in Seq(Requests)
  OBVIOUS
<1>6. /\ OwnerShape(s) /\ s.requests = <<>> /\ s.told = r.told \cup new
      /\ s.pending = r.pending /\ s.work = r.work /\ s.stage = r.stage
      /\ s.needsObserve = r.needsObserve /\ s.observation = r.observation
      /\ s.cycle = r.cycle
  BY <1>1, <1>2, <1>3, <1>5 DEF Good, OwnerShape
<1>7. Ordered(s)
  BY <1>6 DEF Good, Ordered
<1>8. FreshFor(s, a)
  BY <1>6 DEF FreshFor, Waiting
<1>9. ToldFor(s, a)
  BY <1>4, <1>6 DEF Good, ToldFor
<1> QED
  BY <1>6, <1>7, <1>8, <1>9 DEF Good

(* What does not touch the demand: flags, the stage and the cycle.         *)
LEMMA FlagsAreGood ==
  ASSUME NEW a, NEW r, Good(r, a), NEW s, OwnerShape(s),
         s.pending = r.pending, s.work = r.work, s.requests = r.requests,
         s.told = r.told, s.observation = r.observation,
         r.needsObserve => s.needsObserve, s.pending # NoEffect => s.cycle.open
  PROVE  Good(s, a)
<1>1. Ordered(s)
  BY DEF Good, Ordered
<1>2. FreshFor(s, a) /\ ToldFor(s, a)
  BY DEF Good, FreshFor, ToldFor, Waiting
<1> QED
  BY <1>1, <1>2 DEF Good

LEMMA FinishedIsGood ==
  ASSUME NEW a, NEW r, Good(r, a), r.pending = NoEffect, ~ r.needsObserve,
         NEW s, s = FinishedCycle(r)
  PROVE  Good(s, a) /\ s.stage = r.stage /\ s.work = NoWork
<1> DEFINE t == IF r.cycle.foreground THEN Told(r, "Finished") ELSE r
<1>1. "Finished" \in Outcomes
  BY DEF Outcomes
<1>2. /\ Good(t, a) /\ t.stage = r.stage /\ t.pending = NoEffect
      /\ t.observation = r.observation
  BY <1>1, ToldIsGood
<1>3. t.work = NoWork
  BY <1>2, AtRest DEF Good
<1>4. s = [t EXCEPT !.cycle = NoCycle,
                    !.yielded = t.requests # <<>> \/ ~ r.observation.current]
  BY DEF FinishedCycle
<1> HIDE DEF t
<1>5. PICK y \in BOOLEAN : s = [t EXCEPT !.cycle = NoCycle, !.yielded = y]
  BY <1>4
<1>6. /\ OwnerShape(s) /\ s.pending = t.pending /\ s.work = t.work
      /\ s.requests = t.requests /\ s.told = t.told /\ s.observation = t.observation
      /\ s.needsObserve = t.needsObserve /\ s.stage = t.stage
  BY <1>2, <1>5, NoCycleShape DEF Good, OwnerShape
<1>7. Good(s, a)
  BY <1>2, <1>6, FlagsAreGood
<1> QED
  BY <1>2, <1>3, <1>6, <1>7

LEMMA FailedIsGood ==
  ASSUME NEW a, NEW r, Good(r, a), r.pending = NoEffect, NEW s, s = FailedCycle(r)
  PROVE  Good(s, a) /\ s.stage = r.stage /\ s.work = NoWork /\ s.pending = NoEffect
<1> DEFINE t == Told(r, "Failed")
<1>1. "Failed" \in Outcomes /\ "Failed" # "Finished"
  BY DEF Outcomes
<1>2. Good(t, a) /\ t.stage = r.stage /\ t.pending = NoEffect
  BY <1>1, ToldIsGood
<1>3. t.work = NoWork
  BY <1>2, AtRest DEF Good
<1>4. s = [t EXCEPT !.cycle = NoCycle, !.blocked = TRUE]
  BY DEF FailedCycle
<1> HIDE DEF t
<1>5. /\ OwnerShape(s) /\ s.pending = t.pending /\ s.work = t.work
      /\ s.requests = t.requests /\ s.told = t.told /\ s.observation = t.observation
      /\ s.needsObserve = t.needsObserve /\ s.stage = t.stage
  BY <1>2, <1>4, NoCycleShape DEF Good, OwnerShape
<1>6. Good(s, a)
  BY <1>2, <1>5, FlagsAreGood
<1> QED
  BY <1>2, <1>3, <1>5, <1>6

(* A cycle that is open and whose observation is good goes on or ends.     *)
LEMMA AdvancedIsGood ==
  ASSUME NEW a, NEW r, Good(r, a), r.pending = NoEffect, r.cycle.open, ~ r.needsObserve,
         NEW s, s = Advanced(r)
  PROVE  Good(s, a) /\ s.stage = r.stage /\ s.work = NoWork
<1>1. r.work = NoWork
  BY AtRest DEF Good
<1> DEFINE Goes(u) == /\ Good(u, a) /\ u.cycle.open /\ u.work = NoWork
                      /\ u.stage = r.stage /\ u.pending = NoEffect
<1>2. ASSUME NEW u, Goes(u), NEW kind \in Kinds, s = Issued(u, kind)
      PROVE  Good(s, a) /\ s.stage = r.stage /\ s.work = NoWork
  BY <1>2, IssuedIsGood
<1>3. Goes(r)
  BY <1>1
<1>4. Goes([r EXCEPT !.latched = TRUE])
  <2>1. PICK u : u = [r EXCEPT !.latched = TRUE]
    OBVIOUS
  <2>2. /\ OwnerShape(u) /\ u.pending = r.pending /\ u.work = r.work
        /\ u.requests = r.requests /\ u.told = r.told /\ u.observation = r.observation
        /\ u.needsObserve = r.needsObserve /\ u.stage = r.stage /\ u.cycle = r.cycle
    BY <2>1 DEF Good, OwnerShape
  <2>3. Good(u, a)
    BY <2>2, FlagsAreGood
  <2> QED
    BY <1>1, <2>1, <2>2, <2>3
<1>5. Goes([r EXCEPT !.cycle.restarts = @ + 1, !.discard = TRUE])
  <2>1. PICK u : u = [r EXCEPT !.cycle.restarts = @ + 1, !.discard = TRUE]
    OBVIOUS
  <2>2. PICK k \in Cycles : u = [r EXCEPT !.cycle = k, !.discard = TRUE] /\ k.open
    <3>1. [r.cycle EXCEPT !.restarts = @ + 1] \in Cycles
      BY DEF Good, OwnerShape, Cycles
    <3>2. [r.cycle EXCEPT !.restarts = @ + 1].open
      BY DEF Good, OwnerShape, Cycles
    <3> QED
      BY <2>1, <3>1, <3>2
  <2>3. /\ OwnerShape(u) /\ u.pending = r.pending /\ u.work = r.work
        /\ u.requests = r.requests /\ u.told = r.told /\ u.observation = r.observation
        /\ u.needsObserve = r.needsObserve /\ u.stage = r.stage /\ u.cycle = k
    BY <2>2 DEF Good, OwnerShape
  <2>4. Good(u, a)
    BY <2>3, FlagsAreGood
  <2> QED
    BY <1>1, <2>1, <2>2, <2>3, <2>4
<1>6. Goes([r EXCEPT !.cycle.finish = TRUE, !.needsObserve = TRUE])
  <2>1. PICK u : u = [r EXCEPT !.cycle.finish = TRUE, !.needsObserve = TRUE]
    OBVIOUS
  <2>2. PICK k \in Cycles : u = [r EXCEPT !.cycle = k, !.needsObserve = TRUE] /\ k.open
    <3>1. [r.cycle EXCEPT !.finish = TRUE] \in Cycles
      BY DEF Good, OwnerShape, Cycles
    <3>2. [r.cycle EXCEPT !.finish = TRUE].open
      BY DEF Good, OwnerShape, Cycles
    <3> QED
      BY <2>1, <3>1, <3>2
  <2>3. /\ OwnerShape(u) /\ u.pending = r.pending /\ u.work = r.work
        /\ u.requests = r.requests /\ u.told = r.told /\ u.observation = r.observation
        /\ u.needsObserve = TRUE /\ u.stage = r.stage /\ u.cycle = k
    BY <2>2 DEF Good, OwnerShape
  <2>4. Good(u, a)
    BY <2>3, FlagsAreGood
  <2> QED
    BY <1>1, <2>1, <2>2, <2>3, <2>4
<1> HIDE DEF Goes
<1>7. \/ s = FinishedCycle(r) \/ s = FailedCycle(r)
      \/ s = Issued([r EXCEPT !.latched = TRUE], "Rebuild")
      \/ s = Issued([r EXCEPT !.cycle.restarts = @ + 1, !.discard = TRUE], "Discard")
      \/ s = Issued([r EXCEPT !.cycle.finish = TRUE, !.needsObserve = TRUE], "Observe")
      \/ s = Issued(r, "Discard") \/ s = Issued(r, "Initialize")
      \/ s = Issued(r, "RecoverStage") \/ s = Issued(r, "Begin")
      \/ s = Issued(r, "Publish") \/ s = Issued(r, "Pump")
  <2> DEFINE cur == r.observation.current
             reb == r.observation.rebuild
             B == Issued([r EXCEPT !.latched = TRUE], "Rebuild")
             C == Issued([r EXCEPT !.cycle.restarts = @ + 1, !.discard = TRUE], "Discard")
             D == Issued([r EXCEPT !.cycle.finish = TRUE, !.needsObserve = TRUE], "Observe")
  <2>1. cur \in BOOLEAN /\ reb \in BOOLEAN /\ r.latched \in BOOLEAN
    BY DEF Good, OwnerShape, Observations
  <2>2. s = CASE cur /\ r.stage # NoStage -> Issued(r, "Discard")
            [] cur /\ r.stage = NoStage -> FinishedCycle(r)
            [] reb /\ r.latched -> FailedCycle(r)
            [] reb /\ ~ r.latched -> B
            [] OTHER ->
                 IF r.cycle.finish THEN FinishedCycle(r)
                 ELSE IF r.observation.head = NoSnapshot /\ r.stage = NoStage /\ ~r.initialized
                   THEN Issued(r, "Initialize")
                 ELSE IF ~r.recovered THEN Issued(r, "RecoverStage")
                 ELSE IF r.stage = NoStage THEN Issued(r, "Begin")
                 ELSE IF r.stage.source # r.observation.source
                   THEN IF r.cycle.restarts >= r.cycle.maxRestarts THEN FailedCycle(r) ELSE C
                 ELSE IF r.stage.ready THEN Issued(r, "Publish")
                 ELSE IF r.cycle.pumps >= r.cycle.maxPumps THEN D
                 ELSE Issued(r, "Pump")
    BY DEF Advanced
  <2> HIDE DEF cur, reb, B, C, D
  <2>3. \/ s = FinishedCycle(r) \/ s = FailedCycle(r)
        \/ s = B \/ s = C \/ s = D
        \/ s = Issued(r, "Discard") \/ s = Issued(r, "Initialize")
        \/ s = Issued(r, "RecoverStage") \/ s = Issued(r, "Begin")
        \/ s = Issued(r, "Publish") \/ s = Issued(r, "Pump")
    BY <2>1, <2>2
  <2> USE DEF B, C, D
  <2> QED
    BY <2>3
<1>8. {"Rebuild", "Discard", "Observe", "Initialize", "RecoverStage", "Begin", "Publish",
       "Pump"} \subseteq Kinds
  BY DEF Kinds
<1>9. CASE s = FinishedCycle(r) \/ s = FailedCycle(r)
  BY <1>9, FinishedIsGood, FailedIsGood
<1>10. CASE s = Issued([r EXCEPT !.latched = TRUE], "Rebuild")
  BY <1>2, <1>4, <1>8, <1>10
<1>11. CASE s = Issued([r EXCEPT !.cycle.restarts = @ + 1, !.discard = TRUE], "Discard")
  BY <1>2, <1>5, <1>8, <1>11
<1>12. CASE s = Issued([r EXCEPT !.cycle.finish = TRUE, !.needsObserve = TRUE], "Observe")
  BY <1>2, <1>6, <1>8, <1>12
<1>13. CASE \E kind \in Kinds : s = Issued(r, kind)
  BY <1>2, <1>3, <1>13
<1> QED
  BY <1>7, <1>8, <1>9, <1>10, <1>11, <1>12, <1>13

LEMMA ChosenIsGood ==
  ASSUME NEW a, NEW r, Good(r, a), r.pending = NoEffect, r.cycle.open,
         NEW s, s = Chosen(r)
  PROVE  Good(s, a) /\ s.stage = r.stage /\ s.work = NoWork
<1>1. r.work = NoWork
  BY AtRest DEF Good
<1>2. CASE r.explicit
  <2>1. PICK u : u = [r EXCEPT !.explicit = FALSE, !.latched = TRUE]
    OBVIOUS
  <2>2. /\ OwnerShape(u) /\ u.pending = r.pending /\ u.work = r.work
        /\ u.requests = r.requests /\ u.told = r.told /\ u.observation = r.observation
        /\ u.needsObserve = r.needsObserve /\ u.stage = r.stage /\ u.cycle = r.cycle
    BY <2>1 DEF Good, OwnerShape
  <2>3. Good(u, a)
    BY <2>2, FlagsAreGood
  <2>4. s = Issued(u, "Rebuild") /\ "Rebuild" \in Kinds
    BY <1>2, <2>1 DEF Chosen, Kinds
  <2> QED
    BY <1>1, <2>2, <2>3, <2>4, IssuedIsGood
<1>3. CASE ~ r.explicit /\ r.discard /\ r.stage # NoStage
  <2>1. s = Issued(r, "Discard") /\ "Discard" \in Kinds
    BY <1>3 DEF Chosen, Kinds
  <2> QED
    BY <1>1, <2>1, IssuedIsGood
<1>4. CASE ~ r.explicit /\ ~ (r.discard /\ r.stage # NoStage)
  <2>1. PICK u : u = [r EXCEPT !.discard = FALSE]
    OBVIOUS
  <2>2. /\ OwnerShape(u) /\ u.pending = r.pending /\ u.work = r.work
        /\ u.requests = r.requests /\ u.told = r.told /\ u.observation = r.observation
        /\ u.needsObserve = r.needsObserve /\ u.stage = r.stage /\ u.cycle = r.cycle
    BY <2>1 DEF Good, OwnerShape
  <2>3. Good(u, a)
    BY <2>2, FlagsAreGood
  <2>4. \/ s = Issued(u, "Observe")
        \/ ~ u.needsObserve /\ s = Advanced(u)
    BY <1>4, <2>1 DEF Chosen
  <2>5. "Observe" \in Kinds
    BY DEF Kinds
  <2> QED
    BY <1>1, <2>2, <2>3, <2>4, <2>5, IssuedIsGood, AdvancedIsGood
<1> QED
  BY <1>2, <1>3, <1>4

(* What the reducer decides at the end of a reduction.                     *)
LEMMA PlannedIsGood ==
  ASSUME NEW a, NEW r, Good(r, a), NEW s, s = Planned(r)
  PROVE  Good(s, a) /\ s.stage = r.stage /\ s.work = r.work
<1>1. CASE MayPlan(r)
  <2>1. r.pending = NoEffect
    BY <1>1 DEF MayPlan
  <2>2. PICK u : u = StartedCycle(r)
    OBVIOUS
  <2>3. /\ Good(u, a) /\ u.cycle.open /\ u.stage = r.stage /\ u.work = NoWork
        /\ u.pending = NoEffect
    BY <2>1, <2>2, StartedIsGood
  <2>4. s = Chosen(u)
    BY <1>1, <2>2 DEF Planned
  <2>5. r.work = NoWork
    BY <2>1, AtRest DEF Good
  <2> QED
    BY <2>3, <2>4, <2>5, ChosenIsGood
<1>2. CASE ~ MayPlan(r)
  BY <1>2 DEF Planned
<1> QED
  BY <1>1, <1>2

-------------------------------------------------------------------------------
(* The reducer: the results of effects.                                    *)

Settled(r) == [r EXCEPT !.pending = NoEffect, !.work = NoWork]

(* The owner without its effect, which is what a result is reduced into.   *)
LEMMA SettledIsGood ==
  ASSUME NEW a, NEW r, Good(r, a), NEW s, s = Settled(r)
  PROVE  /\ Good(s, a) /\ s.pending = NoEffect /\ s.work = NoWork
         /\ s.requests = r.requests /\ s.told = r.told /\ s.needsObserve = r.needsObserve
         /\ s.observation = r.observation /\ s.stage = r.stage /\ s.cycle = r.cycle
<1>1. s = [r EXCEPT !.pending = NoEffect, !.work = NoWork]
  BY DEF Settled
<1>2. /\ OwnerShape(s) /\ s.pending = NoEffect /\ s.work = NoWork
      /\ s.requests = r.requests /\ s.told = r.told /\ s.needsObserve = r.needsObserve
      /\ s.observation = r.observation /\ s.stage = r.stage /\ s.cycle = r.cycle
  BY ZenonT(40), <1>1, NoEffectShape DEF Good, OwnerShape
<1>3. Ordered(s)
  BY <1>2 DEF Ordered, WorkFits
<1>4. FreshFor(s, a) /\ ToldFor(s, a)
  BY <1>2, NoEffectShape DEF Good, FreshFor, ToldFor, Waiting
<1> QED
  BY <1>2, <1>3, <1>4 DEF Good

(* What is being observed is an observation.                               *)
LEMMA SeenShape ==
  ASSUME NEW r, Ordered(r), r.work.phase = "observe"
  PROVE  /\ r.pending.kind = "Observe" /\ r.pending # NoEffect
         /\ r.work.seen \in Observations
BY NoEffectShape DEF Ordered, WorkFits

LEMMA ObservedIsGood ==
  ASSUME NEW a \in [Requests -> Nat], NEW r, Good(r, a), r.work.phase = "observe",
         NEW s, s = AfterObserve(Settled(r), r.pending, r.work.seen)
  PROVE  Good(s, a) /\ s.work = NoWork
<1>1. PICK t : t = Settled(r)
  OBVIOUS
<1>2. /\ Good(t, a) /\ t.pending = NoEffect /\ t.work = NoWork
      /\ t.requests = r.requests /\ t.told = r.told /\ t.cycle = r.cycle
  BY <1>1, SettledIsGood
<1>3. r.pending.hinted \in BOOLEAN /\ r.work.seen \in Observations
  BY SeenShape DEF Good, OwnerShape, Effects
<1>4. NoStage \in StageRefs
  BY DEF NoStage, NoSnapshot, StageRefs, Snapshots
<1>5. PICK stage \in StageRefs, k \in Cycles, latched \in BOOLEAN :
        s = [t EXCEPT !.stage = stage, !.cycle = k, !.latched = latched,
                      !.needsObserve = r.pending.hinted, !.observation = r.work.seen]
  <2> DEFINE o == r.work.seen
             published == o.head # NoSnapshot /\ t.stage.snapshot = o.head
             stage == IF published THEN NoStage ELSE t.stage
             k == [t.cycle EXCEPT !.finish = @ \/ (published /\ t.cycle.open)]
             latched == t.latched /\ ~ o.current
  <2>1. stage \in StageRefs /\ latched \in BOOLEAN
    BY <1>2, <1>4 DEF Good, OwnerShape
  <2>2. k \in Cycles
    <3>1. PICK f \in BOOLEAN : k = [t.cycle EXCEPT !.finish = f]
      OBVIOUS
    <3>2. t.cycle \in Cycles
      BY <1>2 DEF Good, OwnerShape
    <3> HIDE DEF k
    <3> QED
      BY <3>1, <3>2 DEF Cycles
  <2>3. s = [t EXCEPT !.stage = stage, !.cycle = k, !.latched = latched,
                      !.needsObserve = r.pending.hinted, !.observation = o]
    BY <1>1 DEF AfterObserve
  <2> HIDE DEF stage, k, latched
  <2> QED
    BY <2>1, <2>2, <2>3
<1>6. /\ OwnerShape(s) /\ s.pending = NoEffect /\ s.work = NoWork
      /\ s.requests = r.requests /\ s.told = r.told
      /\ s.needsObserve = r.pending.hinted /\ s.observation = r.work.seen
  BY <1>2, <1>3, <1>5 DEF Good, OwnerShape
<1>7. Ordered(s)
  BY <1>6 DEF Ordered, WorkFits
<1>8. FreshFor(s, a)
  BY <1>6, NoEffectShape DEF Good, FreshFor, Waiting
<1>9. ToldFor(s, a)
  BY <1>6 DEF Good, ToldFor
<1> QED
  BY <1>6, <1>7, <1>8, <1>9 DEF Good

LEMMA RecoveredIsGood ==
  ASSUME NEW a, NEW r, Good(r, a), NEW stage \in StageRefs,
         NEW s, s = AfterRecover(Settled(r), stage)
  PROVE  Good(s, a) /\ s.work = NoWork
<1>1. PICK t : t = Settled(r)
  OBVIOUS
<1>2. Good(t, a) /\ t.pending = NoEffect /\ t.work = NoWork
  BY <1>1, SettledIsGood
<1>3. PICK n \in BOOLEAN :
        /\ s = [t EXCEPT !.stage = stage, !.recovered = TRUE, !.needsObserve = n]
        /\ t.needsObserve => n
  BY <1>1 DEF AfterRecover
<1>4. /\ OwnerShape(s) /\ s.pending = t.pending /\ s.work = t.work
      /\ s.requests = t.requests /\ s.told = t.told /\ s.observation = t.observation
      /\ s.needsObserve = n
  BY <1>2, <1>3 DEF Good, OwnerShape
<1> QED
  BY <1>2, <1>3, <1>4, FlagsAreGood

LEMMA BegunIsGood ==
  ASSUME NEW a, NEW r, Good(r, a), NEW stage \in StageRefs,
         NEW s, s = AfterBegin(Settled(r), stage)
  PROVE  /\ Good(s, a) /\ s.work = NoWork /\ s.pending = NoEffect
         /\ s.cycle = r.cycle
<1>1. PICK t : t = Settled(r)
  OBVIOUS
<1>2. Good(t, a) /\ t.pending = NoEffect /\ t.work = NoWork /\ t.cycle = r.cycle
  BY <1>1, SettledIsGood
<1>3. PICK n \in BOOLEAN : /\ s = [t EXCEPT !.stage = stage, !.needsObserve = n]
                           /\ t.needsObserve => n
  BY <1>1 DEF AfterBegin
<1>4. /\ OwnerShape(s) /\ s.pending = t.pending /\ s.work = t.work
      /\ s.requests = t.requests /\ s.told = t.told /\ s.observation = t.observation
      /\ s.needsObserve = n /\ s.cycle = t.cycle
  BY <1>2, <1>3 DEF Good, OwnerShape
<1> QED
  BY <1>2, <1>3, <1>4, FlagsAreGood

LEMMA PumpedIsGood ==
  ASSUME NEW a, NEW r, Good(r, a), NEW stage \in StageRefs,
         NEW s, s = AfterPump(Settled(r), stage)
  PROVE  Good(s, a) /\ s.work = NoWork
<1>1. PICK t : t = AfterBegin(Settled(r), stage)
  OBVIOUS
<1>2. Good(t, a) /\ t.pending = NoEffect /\ t.work = NoWork /\ t.cycle = r.cycle
  BY <1>1, BegunIsGood
<1>3. PICK k \in Cycles, n \in BOOLEAN :
        /\ s = [t EXCEPT !.cycle = k, !.needsObserve = n, !.yielded = TRUE]
        /\ t.needsObserve => n
  <2> DEFINE spent == /\ Settled(r).cycle.open
                      /\ Settled(r).cycle.pumps + 1 >= Settled(r).cycle.maxPumps
                      /\ ~ stage.ready
             open == Settled(r).cycle.open
             p == IF open THEN t.cycle.pumps + 1 ELSE t.cycle.pumps
             f == t.cycle.finish \/ spent
             n == t.needsObserve \/ spent
             k == [t.cycle EXCEPT !.pumps = p, !.finish = f]
  <2>1. s = [t EXCEPT !.cycle = k, !.needsObserve = n, !.yielded = TRUE]
    BY <1>1 DEF AfterPump
  <2>2. k \in Cycles
    <3>1. t.cycle \in Cycles /\ p \in Nat
      BY <1>2 DEF Good, OwnerShape, Cycles
    <3>2. PICK g \in BOOLEAN : k = [t.cycle EXCEPT !.pumps = p, !.finish = g]
      OBVIOUS
    <3> HIDE DEF k, p
    <3> QED
      BY <3>1, <3>2 DEF Cycles
  <2>3. t.needsObserve => n
    OBVIOUS
  <2>4. n \in BOOLEAN
    OBVIOUS
  <2> HIDE DEF k, n
  <2> QED
    BY <2>1, <2>2, <2>3, <2>4
<1>4. /\ OwnerShape(s) /\ s.pending = t.pending /\ s.work = t.work
      /\ s.requests = t.requests /\ s.told = t.told /\ s.observation = t.observation
      /\ s.needsObserve = n
  BY <1>2, <1>3 DEF Good, OwnerShape
<1> QED
  BY <1>2, <1>3, <1>4, FlagsAreGood

LEMMA PublishedIsGood ==
  ASSUME NEW a, NEW r, Good(r, a), NEW s, s = AfterPublish(Settled(r))
  PROVE  Good(s, a) /\ s.work = NoWork
<1>1. PICK t : t = Settled(r)
  OBVIOUS
<1>2. Good(t, a) /\ t.pending = NoEffect /\ t.work = NoWork
  BY <1>1, SettledIsGood
<1>3. NoStage \in StageRefs
  BY DEF NoStage, NoSnapshot, StageRefs, Snapshots
<1>4. PICK k \in Cycles : s = [t EXCEPT !.stage = NoStage, !.needsObserve = TRUE, !.cycle = k]
  <2>1. [t.cycle EXCEPT !.finish = t.cycle.open] \in Cycles
    BY <1>2 DEF Good, OwnerShape, Cycles
  <2> QED
    BY <1>1, <2>1 DEF AfterPublish
<1>5. /\ OwnerShape(s) /\ s.pending = t.pending /\ s.work = t.work
      /\ s.requests = t.requests /\ s.told = t.told /\ s.observation = t.observation
      /\ s.needsObserve = TRUE
  BY <1>2, <1>3, <1>4 DEF Good, OwnerShape
<1> QED
  BY <1>2, <1>5, FlagsAreGood

LEMMA InitializedIsGood ==
  ASSUME NEW a, NEW r, Good(r, a), NEW s, s = AfterInitialize(Settled(r))
  PROVE  Good(s, a) /\ s.work = NoWork
<1>1. PICK t : t = Settled(r)
  OBVIOUS
<1>2. Good(t, a) /\ t.pending = NoEffect /\ t.work = NoWork
  BY <1>1, SettledIsGood
<1>3. s = [t EXCEPT !.initialized = TRUE]
  BY <1>1 DEF AfterInitialize
<1>4. /\ OwnerShape(s) /\ s.pending = t.pending /\ s.work = t.work
      /\ s.requests = t.requests /\ s.told = t.told /\ s.observation = t.observation
      /\ s.needsObserve = t.needsObserve
  BY <1>2, <1>3 DEF Good, OwnerShape
<1> QED
  BY <1>2, <1>4, FlagsAreGood

LEMMA RebuiltIsGood ==
  ASSUME NEW a, NEW r, Good(r, a), NEW s, s = AfterRebuild(Settled(r))
  PROVE  Good(s, a) /\ s.work = NoWork
<1>1. PICK t : t = Settled(r)
  OBVIOUS
<1>2. Good(t, a) /\ t.pending = NoEffect /\ t.work = NoWork
  BY <1>1, SettledIsGood
<1>3. NoStage \in StageRefs
  BY DEF NoStage, NoSnapshot, StageRefs, Snapshots
<1>4. s = [t EXCEPT !.stage = NoStage, !.initialized = TRUE, !.recovered = FALSE,
                    !.needsObserve = TRUE]
  BY <1>1 DEF AfterRebuild
<1>5. /\ OwnerShape(s) /\ s.pending = t.pending /\ s.work = t.work
      /\ s.requests = t.requests /\ s.told = t.told /\ s.observation = t.observation
      /\ s.needsObserve = TRUE
  BY <1>2, <1>3, <1>4 DEF Good, OwnerShape
<1> QED
  BY <1>2, <1>5, FlagsAreGood

LEMMA DiscardedIsGood ==
  ASSUME NEW a, NEW r, Good(r, a), NEW s, s = AfterDiscard(Settled(r))
  PROVE  Good(s, a) /\ s.work = NoWork
<1>1. PICK t : t = Settled(r)
  OBVIOUS
<1>2. Good(t, a) /\ t.pending = NoEffect /\ t.work = NoWork
  BY <1>1, SettledIsGood
<1>3. NoStage \in StageRefs
  BY DEF NoStage, NoSnapshot, StageRefs, Snapshots
<1>4. PICK n \in BOOLEAN, y \in BOOLEAN :
        /\ s = [t EXCEPT !.stage = NoStage, !.discard = FALSE, !.needsObserve = n,
                         !.yielded = y]
        /\ t.needsObserve => n
  <2> DEFINE lagging == t.observation # NoObservation /\ ~ t.observation.current
             n == t.needsObserve \/ lagging
             y == t.yielded \/ lagging
  <2>1. s = [t EXCEPT !.stage = NoStage, !.discard = FALSE, !.needsObserve = n, !.yielded = y]
    BY <1>1 DEF AfterDiscard
  <2>2. t.needsObserve => n
    OBVIOUS
  <2>3. n \in BOOLEAN /\ y \in BOOLEAN
    OBVIOUS
  <2> HIDE DEF n, y
  <2> QED
    BY <2>1, <2>2, <2>3
<1>5. /\ OwnerShape(s) /\ s.pending = t.pending /\ s.work = t.work
      /\ s.requests = t.requests /\ s.told = t.told /\ s.observation = t.observation
      /\ s.needsObserve = n
  BY <1>2, <1>3, <1>4 DEF Good, OwnerShape
<1> QED
  BY <1>2, <1>4, <1>5, FlagsAreGood

LEMMA FailureIsGood ==
  ASSUME NEW a, NEW r, Good(r, a), NEW p, NEW error,
         NEW s, s = AfterFailure(Settled(r), p, error)
  PROVE  Good(s, a) /\ s.work = NoWork
<1>1. PICK t : t = Settled(r)
  OBVIOUS
<1>2. Good(t, a) /\ t.pending = NoEffect /\ t.work = NoWork
  BY <1>1, SettledIsGood
<1>3. \/ s = t
      \/ s = [t EXCEPT !.explicit = TRUE]
      \/ s = [t EXCEPT !.cycle.restarts = @ + 1, !.discard = t.stage # NoStage,
                       !.recovered = FALSE, !.needsObserve = TRUE, !.yielded = TRUE]
      \/ s = FailedCycle(t)
  BY <1>1 DEF AfterFailure
<1>4. CASE s = [t EXCEPT !.explicit = TRUE]
  <2>1. /\ OwnerShape(s) /\ s.pending = t.pending /\ s.work = t.work
        /\ s.requests = t.requests /\ s.told = t.told /\ s.observation = t.observation
        /\ s.needsObserve = t.needsObserve
    BY <1>2, <1>4 DEF Good, OwnerShape
  <2> QED
    BY <1>2, <2>1, FlagsAreGood
<1>5. CASE s = [t EXCEPT !.cycle.restarts = @ + 1, !.discard = t.stage # NoStage,
                         !.recovered = FALSE, !.needsObserve = TRUE, !.yielded = TRUE]
  <2>1. PICK k \in Cycles, d \in BOOLEAN :
          s = [t EXCEPT !.cycle = k, !.discard = d, !.recovered = FALSE,
                        !.needsObserve = TRUE, !.yielded = TRUE]
    <3>1. t.cycle \in Cycles
      BY <1>2 DEF Good, OwnerShape
    <3>2. [t.cycle EXCEPT !.restarts = @ + 1] \in Cycles
      BY <3>1 DEF Cycles
    <3> QED
      BY <1>5, <3>2
  <2>2. /\ OwnerShape(s) /\ s.pending = t.pending /\ s.work = t.work
        /\ s.requests = t.requests /\ s.told = t.told /\ s.observation = t.observation
        /\ s.needsObserve = TRUE
    BY <1>2, <2>1 DEF Good, OwnerShape
  <2> QED
    BY <1>2, <2>2, FlagsAreGood
<1> QED
  BY <1>2, <1>3, <1>4, <1>5, FailedIsGood

-------------------------------------------------------------------------------
(* The reducer: its inputs.                                                *)

LEMMA FreshOwnerIsGood ==
  ASSUME NEW a
  PROVE  /\ Good(FreshOwner, a) /\ FreshOwner.work = NoWork /\ FreshOwner.pending = NoEffect
         /\ FreshOwner.told = {} /\ FreshOwner.requests = <<>>
<1>1. PICK s : s = FreshOwner
  OBVIOUS
<1>2. NoObservation \in Observations /\ NoStage \in StageRefs
  BY DEF NoObservation, NoStage, NoSnapshot, Observations, StageRefs, Snapshots
<1>3. /\ OwnerShape(s) /\ s.pending = NoEffect /\ s.work = NoWork
      /\ s.requests = <<>> /\ s.told = {}
  BY <1>1, <1>2, NoEffectShape, NoCycleShape DEF FreshOwner, OwnerShape
<1>4. Ordered(s)
  BY <1>3 DEF Ordered, WorkFits
<1>5. FreshFor(s, a) /\ ToldFor(s, a)
  BY <1>3 DEF FreshFor, ToldFor, Waiting
<1> QED
  BY <1>1, <1>3, <1>4, <1>5 DEF Good

(* After a hint nothing seen before it answers a request.                  *)
LEMMA HintedIsGood ==
  ASSUME NEW a, NEW r, OwnerShape(r), Ordered(r), ToldFor(r, a),
         \A q \in Waiting(r) : a[q] # 0, NEW s, s = Hinted(r)
  PROVE  Good(s, a) /\ s.work = r.work /\ s.stage = r.stage
<1> DEFINE e == [r.pending EXCEPT !.hinted = r.pending # NoEffect]
<1>1. s = [r EXCEPT !.needsObserve = TRUE, !.pending = e]
  BY DEF Hinted, OwnerShape
<1>2. r.pending \in Effects
  BY DEF OwnerShape
<1>3. e \in Effects /\ e.kind = r.pending.kind
  <2>1. PICK h \in BOOLEAN : e = [r.pending EXCEPT !.hinted = h]
    OBVIOUS
  <2> HIDE DEF e
  <2> QED
    BY <1>2, <2>1 DEF Effects
<1>4. r.pending # NoEffect => e.hinted
  BY <1>2 DEF Effects
<1>5. r.pending = NoEffect => e = NoEffect
  <2>1. ASSUME NEW x \in Effects, NEW y \in Effects, x.kind = y.kind, x.hinted = y.hinted
        PROVE  x = y
    BY <2>1 DEF Effects
  <2>2. ASSUME r.pending = NoEffect
        PROVE  e.hinted = FALSE
    BY <1>2, <2>2 DEF Effects
  <2> HIDE DEF e
  <2> QED
    BY <1>3, <2>1, <2>2, NoEffectShape
<1> HIDE DEF e
<1>6. /\ OwnerShape(s) /\ s.pending = e /\ s.work = r.work /\ s.stage = r.stage
      /\ s.requests = r.requests /\ s.told = r.told /\ s.needsObserve = TRUE
      /\ s.observation = r.observation /\ s.cycle = r.cycle
  BY <1>1, <1>3 DEF OwnerShape
<1>7. Ordered(s)
  <2>1. s.pending # NoEffect => s.cycle.open
    BY <1>5, <1>6 DEF Ordered
  <2>2. s.pending.kind = "none" => s.pending = NoEffect
    BY <1>3, <1>5, <1>6 DEF Ordered
  <2>3. WorkFits(s.work, s.pending.kind)
    BY <1>3, <1>6 DEF Ordered
  <2> QED
    BY <2>1, <2>2, <2>3 DEF Ordered
<1>8. FreshFor(s, a)
  BY <1>4, <1>6, SeenShape DEF FreshFor, Waiting
<1>9. ToldFor(s, a)
  BY <1>6 DEF ToldFor
<1> QED
  BY <1>6, <1>7, <1>8, <1>9 DEF Good

(* A wake, a continuation: flags only.                                     *)
LEMMA WokenIsGood ==
  ASSUME NEW a, NEW r, Good(r, a), NEW s,
         s = [r EXCEPT !.yielded = FALSE] \/ s = [r EXCEPT !.yielded = FALSE, !.blocked = FALSE]
  PROVE  /\ Good(s, a) /\ s.work = r.work /\ s.stage = r.stage /\ s.pending = r.pending
<1>1. /\ OwnerShape(s) /\ s.pending = r.pending /\ s.work = r.work
      /\ s.requests = r.requests /\ s.told = r.told /\ s.observation = r.observation
      /\ s.needsObserve = r.needsObserve /\ s.cycle = r.cycle /\ s.stage = r.stage
  BY DEF Good, OwnerShape
<1>2. Good(s, a)
  BY <1>1, FlagsAreGood DEF Good, Ordered
<1> QED
  BY <1>1, <1>2

(* What is left of a queue when one of its members is taken out.           *)
LEMMA LeftOf ==
  ASSUME NEW S, NEW u \in Seq(S), NEW at \in 1 .. Len(u), NEW left, left = RemoveAt(u, at)
  PROVE  /\ left \in Seq(S)
         /\ \A i \in DOMAIN left : \E j \in DOMAIN u : left[i] = u[j]
<1> DEFINE x == SubSeq(u, 1, at - 1)
           y == SubSeq(u, at + 1, Len(u))
<1>1. /\ x \in Seq(S) /\ y \in Seq(S)
      /\ \A i \in DOMAIN x : \E j \in DOMAIN u : x[i] = u[j]
      /\ \A i \in DOMAIN y : \E j \in DOMAIN u : y[i] = u[j]
  OBVIOUS
<1>2. left = x \o y
  BY DEF RemoveAt
<1> HIDE DEF x, y
<1>3. left \in Seq(S)
  BY <1>1, <1>2
<1>4. \A i \in DOMAIN left : (i \in DOMAIN x /\ left[i] = x[i])
                             \/ \E k \in DOMAIN y : left[i] = y[k]
  BY <1>1, <1>2
<1> QED
  BY <1>1, <1>3, <1>4

LEMMA RetiredIsGood ==
  ASSUME NEW a, NEW r, Good(r, a), NEW s, s = [Told(r, "Retired") EXCEPT !.retired = TRUE]
  PROVE  Good(s, a) /\ s.work = r.work /\ s.stage = r.stage
<1>1. PICK t : t = Told(r, "Retired")
  OBVIOUS
<1>2. "Retired" \in Outcomes /\ "Retired" # "Finished"
  BY DEF Outcomes
<1>3. Good(t, a) /\ t.work = r.work /\ t.stage = r.stage
  BY <1>1, <1>2, ToldIsGood
<1>4. s = [t EXCEPT !.retired = TRUE]
  BY <1>1
<1>5. /\ OwnerShape(s) /\ s.pending = t.pending /\ s.work = t.work
      /\ s.requests = t.requests /\ s.told = t.told /\ s.observation = t.observation
      /\ s.needsObserve = t.needsObserve /\ s.cycle = t.cycle /\ s.stage = t.stage
  BY <1>3, <1>4 DEF Good, OwnerShape
<1>6. Good(s, a)
  BY <1>3, <1>5, FlagsAreGood DEF Good, Ordered
<1> QED
  BY <1>3, <1>5, <1>6

-------------------------------------------------------------------------------
(* A step of one owner, seen by all.                                       *)

(* What a pump or a publication in progress holds stays right while others *)
(* change the vault and the cache.                                         *)
LEMMA WorkStays ==
  ASSUME journal \in Seq(Documents), Grows, CacheSound(cache), CacheSound(cache)',
         Keeps(cache, cache'), NEW w, NEW kind, WorkFits(w, kind),
         NEW stage \in StageRefs, WorkSound(w, stage)
  PROVE  WorkSound(w, stage)'
<1>1. Source \in Nat /\ Source' \in Nat /\ Source <= Source'
  BY SourceGrows
<1>2. /\ cache.epoch \in Nat /\ cache.allocated \in Nat
      /\ cache'.epoch \in Nat /\ cache'.allocated \in Nat
  BY DEF CacheSound
<1>3. ASSUME NEW s \in Snapshots, Behind(s)
      PROVE  /\ Behind(s)'
             /\ IsThere(s)' => /\ IsThere(s)
                               /\ Generation(s)'.source = Generation(s).source
                               /\ Generation(s).published => Generation(s)'.published
                               /\ DOMAIN Generation(s).rows \subseteq DOMAIN Generation(s)'.rows
  <2>1. s.epoch \in Nat /\ s.generation \in Nat
    BY DEF Snapshots
  <2> QED
    BY <1>2, <1>3, <2>1 DEF Behind, Keeps, IsThere, Generation
<1>4. CASE w.phase = "pump"
  <2>1. /\ w.header \in Headers /\ w.previous.snapshot \in Snapshots
        /\ w.previous.source \in Nat
    BY <1>4 DEF WorkFits, NoWork
  <2>2. w.header.source \in Nat
    BY <2>1 DEF Headers
  <2>3. /\ w.header.source <= Source /\ w.previous.source <= Source
        /\ DOMAIN w.rows \subseteq w.pending /\ RowsRight(w.rows, w.header.source)
        /\ Behind(w.previous.snapshot)
        /\ IsThere(w.previous.snapshot) =>
             /\ Generation(w.previous.snapshot).published
             /\ Generation(w.previous.snapshot).source = w.previous.source
    BY <1>4 DEF WorkSound
  <2>4. RowsRight(w.rows, w.header.source)'
    BY <2>2, <2>3, RowsStay
  <2>5. w.header.source <= Source' /\ w.previous.source <= Source'
    BY <1>1, <2>1, <2>2, <2>3
  <2>6. /\ Behind(w.previous.snapshot)'
        /\ IsThere(w.previous.snapshot)' =>
             /\ Generation(w.previous.snapshot)'.published
             /\ Generation(w.previous.snapshot)'.source = w.previous.source
    BY <1>3, <2>1, <2>3
  <2> QED
    BY <1>4, <2>3, <2>4, <2>5, <2>6 DEF WorkSound
<1>5. CASE w.phase = "publish"
  <2>1. stage.snapshot \in Snapshots
    BY DEF StageRefs
  <2>2. /\ Behind(stage.snapshot)
        /\ IsThere(stage.snapshot) => Missing(Generation(stage.snapshot)) = {}
    BY <1>5 DEF WorkSound
  <2>3. /\ Behind(stage.snapshot)'
        /\ IsThere(stage.snapshot)' => Missing(Generation(stage.snapshot))' = {}
    BY <1>3, <2>1, <2>2 DEF Missing
  <2> QED
    BY <1>5, <2>3 DEF WorkSound
<1> QED
  BY <1>4, <1>5 DEF WorkSound

(* The time of a request does not change once it is made.                  *)
AskedKept == /\ asked' \in [Requests -> Nat]
             /\ \A q \in Requests : asked[q] # 0 => asked'[q] = asked[q]

LEMMA OwnerStays ==
  ASSUME journal \in Seq(Documents), Grows, CacheSound(cache), CacheSound(cache)',
         Keeps(cache, cache'), AskedKept, NEW r, OwnerSound(r)
  PROVE  OwnerSound(r)'
<1>1. /\ OwnerShape(r) /\ Ordered(r) /\ FreshFor(r, asked) /\ WorkSound(r.work, r.stage)
      /\ r.told = {} /\ r.stage \in StageRefs /\ WorkFits(r.work, r.pending.kind)
  BY DEF OwnerSound, OwnerShape, Ordered
<1>2. WorkSound(r.work, r.stage)'
  BY <1>1, WorkStays
<1>3. Waiting(r) \subseteq Requests
  BY <1>1 DEF OwnerShape, Waiting
<1>4. FreshFor(r, asked')
  BY <1>1, <1>3 DEF FreshFor, AskedKept
<1> QED
  BY <1>1, <1>2, <1>4 DEF OwnerSound, OwnerShape, Ordered, FreshFor, Waiting, WorkFits

Sound == Owned /\ \A o \in Owners : OwnerSound(owners[o])

(* The owners while none of them moves.                                    *)
LEMMA OwnersStay ==
  ASSUME journal \in Seq(Documents), Grows, CacheSound(cache), CacheSound(cache)',
         Keeps(cache, cache'), AskedKept, Sound, owners' = owners
  PROVE  Sound'
<1>1. PICK u : u = owners
  OBVIOUS
<1>2. \A o \in Owners : OwnerSound(u[o])
  BY <1>1 DEF Sound
<1>3. \A o \in Owners : OwnerSound(u[o])'
  BY <1>2, OwnerStays
<1>4. PICK v : v = owners'
  OBVIOUS
<1>5. v = [o \in Owners |-> v[o]] /\ \A o \in Owners : OwnerSound(v[o])'
  BY <1>1, <1>3, <1>4 DEF Sound, Owned
<1> QED
  BY <1>4, <1>5 DEF Sound, Owned

(* One owner is replaced.                                                  *)
LEMMA OwnerMoves ==
  ASSUME journal \in Seq(Documents), Grows, CacheSound(cache), CacheSound(cache)',
         Keeps(cache, cache'), AskedKept, Sound, NEW o \in Owners, NEW r,
         OwnerSound(r)', owners' = [owners EXCEPT ![o] = r]
  PROVE  Sound'
<1>1. PICK u : u = owners
  OBVIOUS
<1>2. \A p \in Owners : OwnerSound(u[p])
  BY <1>1 DEF Sound
<1>3. \A p \in Owners : OwnerSound(u[p])'
  BY <1>2, OwnerStays
<1>4. PICK v : v = owners'
  OBVIOUS
<1>5. DOMAIN u = Owners /\ u = [p \in Owners |-> u[p]]
  BY <1>1 DEF Sound, Owned
<1>6. /\ v = [p \in Owners |-> v[p]] /\ v[o] = r
      /\ \A p \in Owners : p # o => v[p] = u[p]
  BY <1>1, <1>4, <1>5
<1>7. \A p \in Owners : OwnerSound(v[p])'
  BY <1>3, <1>6
<1> QED
  BY <1>4, <1>6, <1>7 DEF Sound, Owned

LEMMA AnsweredStays ==
  ASSUME Answered, AskedKept, answers' = answers
  PROVE  Answered'
BY DEF Answered, AskedKept

(* A reduction: the owner it leaves is sound, and so are the answers.      *)
LEMMA ReducedIsSound ==
  ASSUME journal \in Seq(Documents), Grows, CacheSound(cache), CacheSound(cache)',
         Keeps(cache, cache'), AskedKept, Sound, Answered,
         NEW o \in Owners, NEW r, Good(r, asked'),
         \/ r.work = NoWork
         \/ r.work = owners[o].work /\ r.stage = owners[o].stage,
         Reduced(o, r)
  PROVE  Sound' /\ Answered'
<1>1. PICK s : /\ s = Planned(r)
               /\ owners' = [owners EXCEPT ![o] = [s EXCEPT !.told = {}]]
               /\ answers' = [q \in Requests |->
                    IF \E t \in s.told : t.request = q
                      THEN LET t == CHOOSE t \in s.told : t.request = q
                           IN  [outcome |-> t.outcome, observation |-> t.observation]
                      ELSE answers[q]]
  <2>1. PICK x \in {r} : \E s \in {Planned(x)} :
          /\ owners' = [owners EXCEPT ![o] = [s EXCEPT !.told = {}]]
          /\ answers' = [q \in Requests |->
               IF \E t \in s.told : t.request = q
                 THEN LET t == CHOOSE t \in s.told : t.request = q
                      IN  [outcome |-> t.outcome, observation |-> t.observation]
                 ELSE answers[q]]
    BY DEF Reduced
  <2>2. x = r
    OBVIOUS
  <2> QED
    BY <2>1, <2>2
<1>2. PICK a : a = asked'
  OBVIOUS
<1>3. Good(s, a) /\ s.stage = r.stage /\ s.work = r.work
  BY <1>1, <1>2, PlannedIsGood
<1>4. PICK n : n = [s EXCEPT !.told = {}]
  OBVIOUS
<1>5. /\ OwnerShape(n) /\ n.told = {} /\ n.stage = s.stage /\ n.work = s.work
      /\ n.pending = s.pending /\ n.requests = s.requests /\ n.cycle = s.cycle
      /\ n.needsObserve = s.needsObserve /\ n.observation = s.observation
  BY <1>3, <1>4 DEF Good, OwnerShape
<1>6. Ordered(n) /\ FreshFor(n, a)
  BY <1>3, <1>5 DEF Good, Ordered, FreshFor, Waiting
<1>7. WorkSound(n.work, n.stage)'
  <2>1. CASE r.work = NoWork
    BY <1>3, <1>5, <2>1, NoEffectShape DEF WorkSound
  <2>2. CASE r.work = owners[o].work /\ r.stage = owners[o].stage
    <3>1. WorkSound(n.work, n.stage)
      BY <1>3, <1>5, <2>2 DEF Sound, OwnerSound
    <3>2. n.stage \in StageRefs /\ WorkFits(n.work, n.pending.kind)
      BY <1>5, <1>6 DEF OwnerShape, Ordered
    <3> QED
      BY <3>1, <3>2, WorkStays
  <2> QED
    BY <2>1, <2>2
<1>8. OwnerSound(n)'
  BY <1>2, <1>5, <1>6, <1>7
     DEF OwnerSound, OwnerShape, Ordered, FreshFor, Waiting, WorkFits
<1>9. Sound'
  BY <1>1, <1>4, <1>8, OwnerMoves
<1>10. Answered'
  <2>1. s.told \subseteq Tellings /\ ToldFor(s, a)
    BY <1>3 DEF Good, OwnerShape
  <2>2. ASSUME NEW q \in Requests
        PROVE  /\ answers'[q] \in [outcome : Outcomes, observation : Observations]
               /\ answers'[q].outcome = "Finished" =>
                    asked'[q] # 0 /\ answers'[q].observation.source >= asked'[q]
    <3>1. CASE \E t \in s.told : t.request = q
      <4>1. PICK t \in s.told : /\ t.request = q
                                /\ answers'[q] = [outcome |-> t.outcome,
                                                  observation |-> t.observation]
        BY <1>1, <3>1
      <4>2. t.outcome \in Outcomes /\ t.observation \in Observations
        BY <2>1 DEF Tellings
      <4>3. t.outcome = "Finished" => a[q] # 0 /\ t.observation.source >= a[q]
        BY <2>1, <4>1 DEF ToldFor
      <4> QED
        BY <1>2, <4>1, <4>2, <4>3
    <3>2. CASE ~ \E t \in s.told : t.request = q
      <4>1. answers'[q] = answers[q]
        BY <1>1, <3>2
      <4> QED
        BY <4>1 DEF Answered, AskedKept
    <3> QED
      BY <3>1, <3>2
  <2>3. answers' = [q \in Requests |-> answers'[q]]
    BY <1>1
  <2> QED
    BY <2>2, <2>3 DEF Answered
<1> QED
  BY <1>9, <1>10

-------------------------------------------------------------------------------
(* Steps that end an effect.                                               *)

LEMMA OwnerFacts ==
  ASSUME IInv, NEW o \in Owners
  PROVE  /\ Good(owners[o], asked) /\ OwnerSound(owners[o]) /\ owners[o].told = {}
         /\ Settling(o) = Settled(owners[o])
         /\ owners[o].stage \in StageRefs /\ owners[o].stage.snapshot \in Snapshots
<1>1. OwnerSound(owners[o])
  BY DEF IInv
<1>2. Settling(o) = Settled(owners[o])
  BY DEF Settling, Settled
<1>3. Good(owners[o], asked)
  BY <1>1 DEF Good, OwnerSound, ToldFor
<1> QED
  BY <1>1, <1>2, <1>3 DEF OwnerSound, OwnerShape, StageRefs

LEMMA VaultFacts ==
  ASSUME IInv
  PROVE  /\ journal \in Seq(Documents) /\ Len(journal) <= MaxCommits
         /\ CacheSound(cache) /\ cache.epoch <= MaxEpochs /\ cache.allocated <= MaxGenerations
         /\ Source \in Nat /\ Sound /\ Answered
         /\ asked \in [Requests -> Nat] /\ \A q \in Requests : asked[q] <= Source
BY DEF IInv, Source, Sound

(* The effect of owner o is settled as r while the cache becomes c.        *)
LEMMA SettlesSound ==
  ASSUME IInv, NEW o \in Owners, UNCHANGED <<journal, asked>>,
         NEW c, CacheSound(c), Keeps(cache, c), c.epoch <= MaxEpochs,
         c.allocated <= MaxGenerations, cache' = c,
         NEW r, Good(r, asked),
         \/ r.work = NoWork
         \/ r.work = owners[o].work /\ r.stage = owners[o].stage,
         Reduced(o, r)
  PROVE  IInv'
<1>1. Grows /\ AskedKept
  BY VaultFacts DEF Grows, AskedKept
<1>2. CacheSound(c)'
  BY <1>1, VaultFacts, CacheStays
<1>3. CacheSound(cache)'
  BY <1>2
<1>4. Good(r, asked') /\ Keeps(cache, cache')
  OBVIOUS
<1>5. Sound' /\ Answered'
  BY <1>1, <1>3, <1>4, VaultFacts, ReducedIsSound
<1> QED
  BY <1>3, <1>5, VaultFacts DEF IInv, Sound, Source

LEMMA FailsSound ==
  ASSUME IInv, NEW o \in Owners, UNCHANGED <<journal, cache, asked>>,
         NEW error, Fails(o, error)
  PROVE  IInv'
<1>1. PICK r : r = AfterFailure(Settling(o), owners[o].pending, error)
  OBVIOUS
<1>2. Good(r, asked) /\ r.work = NoWork
  <2>1. r = AfterFailure(Settled(owners[o]), owners[o].pending, error)
    BY <1>1, OwnerFacts
  <2> QED
    BY <2>1, OwnerFacts, FailureIsGood
<1>3. Reduced(o, r)
  BY <1>1 DEF Fails
<1>4. PICK c : c = cache
  OBVIOUS
<1>5. /\ CacheSound(c) /\ Keeps(cache, c) /\ c.epoch <= MaxEpochs
      /\ c.allocated <= MaxGenerations /\ cache' = c
  BY <1>4, VaultFacts, KeepsItself
<1> QED
  BY <1>2, <1>3, <1>5, SettlesSound

LEMMA TransactionSound ==
  ASSUME IInv, NEW o \in Owners, UNCHANGED <<journal, asked>>,
         NEW error, NEW c, NEW r, Transaction(o, error, c, r),
         error = "none" => /\ CacheSound(c) /\ Keeps(cache, c) /\ c.epoch <= MaxEpochs
                           /\ c.allocated <= MaxGenerations
                           /\ Good(r, asked) /\ r.work = NoWork
  PROVE  IInv'
<1>1. CASE error # "none" /\ Fails(o, error) /\ UNCHANGED cache
  BY <1>1, FailsSound
<1>2. CASE error = "none" /\ cache' = c /\ Reduced(o, r)
  BY <1>2, SettlesSound
<1> QED
  BY <1>1, <1>2 DEF Transaction

(* An owner goes on with its effect.                                       *)
LEMMA GoesOnSound ==
  ASSUME IInv, NEW o \in Owners, UNCHANGED <<journal, cache, asked, answers>>,
         NEW r, OwnerSound(r), owners' = [owners EXCEPT ![o] = r]
  PROVE  IInv'
<1>1. Grows /\ AskedKept
  BY VaultFacts DEF Grows, AskedKept
<1>2. PICK c : c = cache
  OBVIOUS
<1>3. CacheSound(c)'
  BY <1>1, <1>2, VaultFacts, CacheStays
<1>4. CacheSound(cache)' /\ Keeps(cache, cache')
  BY <1>2, <1>3, VaultFacts, KeepsItself
<1>5. OwnerSound(r)'
  BY <1>1, <1>4, VaultFacts, OwnerStays
<1>6. Sound'
  BY <1>1, <1>4, <1>5, VaultFacts, OwnerMoves
<1>7. Answered'
  BY <1>1, VaultFacts, AnsweredStays
<1> QED
  BY <1>4, <1>6, <1>7, VaultFacts DEF IInv, Sound, Source

(* Only the work of an owner changes.                                      *)
LEMMA WorkMoves ==
  ASSUME IInv, NEW o \in Owners, UNCHANGED <<journal, cache, asked, answers>>,
         NEW w, owners' = [owners EXCEPT ![o].work = w],
         owners[o].pending.kind \in Kinds, WorkFits(w, owners[o].pending.kind),
         WorkSound(w, owners[o].stage),
         w.phase = "observe" => \A q \in Waiting(owners[o]) : w.seen.source >= asked[q]
  PROVE  IInv'
<1>1. PICK r : r = [owners[o] EXCEPT !.work = w]
  OBVIOUS
<1>2. /\ OwnerShape(owners[o]) /\ Ordered(owners[o]) /\ FreshFor(owners[o], asked)
      /\ owners[o].told = {}
  BY OwnerFacts DEF OwnerSound
<1>3. /\ OwnerShape(r) /\ r.work = w /\ r.pending = owners[o].pending
      /\ r.requests = owners[o].requests /\ r.told = {} /\ r.stage = owners[o].stage
      /\ r.cycle = owners[o].cycle /\ r.needsObserve = owners[o].needsObserve
      /\ r.observation = owners[o].observation
  BY <1>1, <1>2 DEF OwnerShape
<1>4. Ordered(r)
  BY <1>2, <1>3 DEF Ordered
<1>5. FreshFor(r, asked)
  BY <1>2, <1>3 DEF FreshFor, Waiting
<1>6. OwnerSound(r)
  BY <1>3, <1>4, <1>5 DEF OwnerSound
<1>7. owners' = [owners EXCEPT ![o] = r]
  BY <1>1
<1> QED
  BY <1>6, <1>7, GoesOnSound

-------------------------------------------------------------------------------
(* Steps: observation, recovery, initialization, a stage begun.            *)

(* What holds of a generation that is there.                               *)
LEMMA ThereFacts ==
  ASSUME IInv, NEW s \in Snapshots, IsThere(s)
  PROVE  /\ s.generation \in DOMAIN cache.generations
         /\ Generation(s) = cache.generations[s.generation]
         /\ GenerationSound(s.generation, Generation(s))
         /\ Generation(s).source \in Nat /\ Generation(s).source <= Source
         /\ Descriptor(Generation(s)) \in Headers
         /\ Missing(Generation(s)) \subseteq Documents
         /\ Behind(s)
<1>1. /\ s.epoch = cache.epoch /\ s.generation \in DOMAIN cache.generations
      /\ Generation(s) = cache.generations[s.generation]
  BY DEF IsThere, Generation
<1>2. GenerationSound(s.generation, Generation(s))
  BY <1>1, VaultFacts, CacheTypes
<1>3. Behind(s)
  BY <1>1, VaultFacts, FewGenerations DEF Behind, CacheSound
<1> QED
  BY <1>1, <1>2, <1>3 DEF GenerationSound, Descriptor, Headers, Missing

LEMMA SnapshotShape ==
  ASSUME IInv
  PROVE  /\ NoSnapshot \in Snapshots /\ ~ IsThere(NoSnapshot) /\ Behind(NoSnapshot)
         /\ \A n \in Nat : SnapshotOf(n) \in Snapshots /\ SnapshotOf(n).generation = n
                           /\ SnapshotOf(n).epoch = cache.epoch
<1>1. /\ cache.epoch \in Nat /\ cache.allocated \in Nat
      /\ \A n \in DOMAIN cache.generations : n >= 1
  BY VaultFacts, CacheTypes, FewGenerations
<1> QED
  BY <1>1 DEF NoSnapshot, Snapshots, SnapshotOf, IsThere, Behind

LEMMA ObservationShape ==
  ASSUME IInv
  PROVE  Observation \in Observations /\ Observation.source = Source
<1> DEFINE shown == cache.tables = "sound" /\ cache.head # NoHead
           there == shown /\ IsThere(SnapshotOf(cache.head))
           h == IF there THEN SnapshotOf(cache.head) ELSE NoSnapshot
           c == there /\ cache.generations[cache.head].source = Source
           b == cache.tables = "broken" \/ (shown /\ ~there)
<1>1. Observation = [source |-> Source, head |-> h, current |-> c, rebuild |-> b]
  BY DEF Observation
<1>2. h \in Snapshots
  BY SnapshotShape, VaultFacts, CacheTypes
<1>3. PICK x \in BOOLEAN, y \in BOOLEAN :
        Observation = [source |-> Source, head |-> h, current |-> x, rebuild |-> y]
  BY <1>1
<1> HIDE DEF h
<1> QED
  BY <1>2, <1>3, VaultFacts DEF Observations

LEMMA LookStep ==
  ASSUME IInv, NEW o \in Owners, Look(o)
  PROVE  IInv'
<1>1. PICK w : w = [phase |-> "observe", seen |-> Observation]
  OBVIOUS
<1>2. w \in [phase : {"observe"}, seen : Observations] /\ w.seen.source = Source
  BY <1>1, ObservationShape
<1>3. owners[o].pending.kind = "Observe"
  BY DEF Look, Executes
<1>4. WorkFits(w, owners[o].pending.kind) /\ owners[o].pending.kind \in Kinds
  BY <1>2, <1>3 DEF WorkFits, Kinds
<1>5. WorkSound(w, owners[o].stage)
  BY <1>2 DEF WorkSound
<1>6. \A q \in Waiting(owners[o]) : w.seen.source >= asked[q]
  <2>1. Waiting(owners[o]) \subseteq Requests
    BY OwnerFacts DEF Good, OwnerShape, Waiting
  <2> QED
    BY <1>2, <2>1, VaultFacts
<1>7. /\ UNCHANGED <<journal, cache, asked, answers>>
      /\ owners' = [owners EXCEPT ![o].work = w]
  BY <1>1 DEF Look
<1> QED
  BY <1>4, <1>5, <1>6, <1>7, WorkMoves

(* A step that reduces and leaves the rest alone.                          *)
LEMMA InputSound ==
  ASSUME IInv, NEW o \in Owners, UNCHANGED <<journal, cache, asked>>,
         NEW r, Good(r, asked),
         \/ r.work = NoWork
         \/ r.work = owners[o].work /\ r.stage = owners[o].stage,
         Reduced(o, r)
  PROVE  IInv'
<1>1. PICK c : c = cache
  OBVIOUS
<1>2. /\ CacheSound(c) /\ Keeps(cache, c) /\ c.epoch <= MaxEpochs
      /\ c.allocated <= MaxGenerations /\ cache' = c
  BY <1>1, VaultFacts, KeepsItself
<1> QED
  BY <1>2, SettlesSound

LEMMA ObserveStep ==
  ASSUME IInv, NEW o \in Owners, Observe(o)
  PROVE  IInv'
<1>1. PICK r : r = AfterObserve(Settling(o), owners[o].pending, owners[o].work.seen)
  OBVIOUS
<1>2. r = AfterObserve(Settled(owners[o]), owners[o].pending, owners[o].work.seen)
  BY <1>1, OwnerFacts
<1>3. owners[o].work.phase = "observe" /\ Reduced(o, r) /\ UNCHANGED <<journal, cache, asked>>
  BY <1>1 DEF Observe
<1>4. Good(r, asked) /\ r.work = NoWork
  BY <1>2, <1>3, OwnerFacts, VaultFacts, ObservedIsGood
<1> QED
  BY <1>3, <1>4, InputSound

(* A nonempty set of naturals below a bound has a greatest member.         *)
LEMMA GreatestOf ==
  ASSUME NEW T, T \subseteq Nat, T # {}, NEW b \in Nat, \A t \in T : t <= b
  PROVE  Max(T) \in T /\ \A t \in T : t <= Max(T)
<1> DEFINE D == {b - t : t \in T}
<1>1. D \subseteq Nat /\ D # {}
  <2>1. \A t \in T : t \in Nat /\ t <= b
    OBVIOUS
  <2>2. \A t \in T : b - t \in Nat
    BY <2>1
  <2> QED
    BY <2>2
<1>2. PICK m \in D : \A d \in D : m <= d
  <2> HIDE DEF D
  <2> QED
    BY <1>1, SmallestOf
<1>3. PICK t \in T : m = b - t
  OBVIOUS
<1>4. \A u \in T : t >= u
  <2>1. \A u \in T : b - t <= b - u
    BY <1>2, <1>3
  <2> QED
    BY <2>1
<1>5. Max(T) \in T /\ \A u \in T : Max(T) >= u
  BY <1>4 DEF Max
<1> QED
  BY <1>5

LEMMA RecoverStageStep ==
  ASSUME IInv, NEW o \in Owners, RecoverStage(o)
  PROVE  IInv'
<1>1. PICK stage : stage = IF Usable = {} THEN NoStage ELSE StageAt(Max(Usable))
  OBVIOUS
<1>2. stage \in StageRefs
  <2>1. CASE Usable = {}
    BY <1>1, <2>1 DEF NoStage, NoSnapshot, StageRefs, Snapshots
  <2>2. CASE Usable # {}
    <3>1. Usable \subseteq DOMAIN cache.generations
      BY DEF Usable
    <3>2. Max(Usable) \in DOMAIN cache.generations
      BY <2>2, <3>1, VaultFacts, FewGenerations, CacheTypes, GreatestOf
    <3>3. PICK n \in DOMAIN cache.generations : n = Max(Usable)
      BY <3>2
    <3>4. n \in Nat /\ cache.generations[n].source \in Nat
      BY VaultFacts, FewGenerations, CacheTypes DEF GenerationSound
    <3>5. PICK b \in BOOLEAN : StageAt(n) = [snapshot |-> SnapshotOf(n),
                                             source |-> cache.generations[n].source,
                                             ready |-> b]
      BY DEF StageAt
    <3> QED
      BY <1>1, <2>2, <3>3, <3>4, <3>5, SnapshotShape DEF StageRefs
  <2> QED
    BY <2>1, <2>2
<1>3. PICK r : r = AfterRecover(Settling(o), stage)
  OBVIOUS
<1>4. Good(r, asked) /\ r.work = NoWork
  <2>1. r = AfterRecover(Settled(owners[o]), stage)
    BY <1>3, OwnerFacts
  <2> QED
    BY <1>2, <2>1, OwnerFacts, RecoveredIsGood
<1>5. PICK e, c : e = ControlError /\ c = cache
  OBVIOUS
<1>6. Transaction(o, e, c, r) /\ UNCHANGED <<journal, asked>>
  BY <1>1, <1>3, <1>5 DEF RecoverStage
<1> QED
  BY <1>4, <1>5, <1>6, VaultFacts, KeepsItself, TransactionSound

LEMMA InitializeStep ==
  ASSUME IInv, NEW o \in Owners, Initialize(o)
  PROVE  IInv'
<1>1. PICK r : r = AfterInitialize(Settling(o))
  OBVIOUS
<1>2. Good(r, asked) /\ r.work = NoWork
  <2>1. r = AfterInitialize(Settled(owners[o]))
    BY <1>1, OwnerFacts
  <2> QED
    BY <2>1, OwnerFacts, InitializedIsGood
<1>3. PICK e, c : /\ e = IF cache.tables = "broken" THEN "RebuildRequired" ELSE "none"
                  /\ c = IF cache.tables = "none" THEN FreshCache(cache) ELSE cache
  OBVIOUS
<1>4. /\ Transaction(o, e, c, r) /\ UNCHANGED <<journal, asked>> /\ cache.epoch < MaxEpochs
  BY <1>1, <1>3 DEF Initialize
<1>5. /\ CacheSound(c) /\ Keeps(cache, c) /\ c.epoch <= MaxEpochs
      /\ c.allocated <= MaxGenerations
  <2>1. CASE c = cache
    BY <2>1, VaultFacts, KeepsItself
  <2>2. CASE c = FreshCache(cache)
    BY <1>4, <2>2, VaultFacts, CacheTypes, FreshIsSound, BoundsAssumption
  <2> QED
    BY <1>3, <2>1, <2>2
<1> QED
  BY <1>2, <1>4, <1>5, TransactionSound

LEMMA RebuildStep ==
  ASSUME IInv, NEW o \in Owners, Rebuild(o)
  PROVE  IInv'
<1>1. PICK r : r = AfterRebuild(Settling(o))
  OBVIOUS
<1>2. Good(r, asked) /\ r.work = NoWork
  <2>1. r = AfterRebuild(Settled(owners[o]))
    BY <1>1, OwnerFacts
  <2> QED
    BY <2>1, OwnerFacts, RebuiltIsGood
<1>3. PICK c : c = FreshCache(cache)
  OBVIOUS
<1>4. /\ Transaction(o, "none", c, r) /\ UNCHANGED <<journal, asked>>
      /\ cache.epoch < MaxEpochs
  BY <1>1, <1>3 DEF Rebuild
<1>5. /\ CacheSound(c) /\ Keeps(cache, c) /\ c.epoch <= MaxEpochs
      /\ c.allocated <= MaxGenerations
  BY <1>3, <1>4, VaultFacts, CacheTypes, FreshIsSound, BoundsAssumption
<1> QED
  BY <1>2, <1>4, <1>5, TransactionSound

LEMMA BeginStep ==
  ASSUME IInv, NEW o \in Owners, Begin(o)
  PROVE  IInv'
<1>1. PICK stage : stage = BegunStage
  OBVIOUS
<1>2. stage \in StageRefs
  BY <1>1, VaultFacts, CacheTypes, SnapshotShape DEF BegunStage, StageRefs
<1>3. PICK r : r = AfterBegin(Settling(o), stage)
  OBVIOUS
<1>4. Good(r, asked) /\ r.work = NoWork
  <2>1. r = AfterBegin(Settled(owners[o]), stage)
    BY <1>3, OwnerFacts
  <2> QED
    BY <1>2, <2>1, OwnerFacts, BegunIsGood
<1>5. PICK e, c : e = ControlError /\ c = WithStage(cache)
  OBVIOUS
<1>6. /\ Transaction(o, e, c, r) /\ UNCHANGED <<journal, asked>>
      /\ cache.allocated < MaxGenerations
  BY <1>1, <1>3, <1>5 DEF Begin
<1>7. CacheSound(c) /\ Keeps(cache, c) /\ c.epoch = cache.epoch
      /\ c.allocated = cache.allocated + 1
  BY <1>5, VaultFacts, StageIsSound
<1>8. c.epoch <= MaxEpochs /\ c.allocated <= MaxGenerations
  BY <1>6, <1>7, VaultFacts, CacheTypes, BoundsAssumption
<1> QED
  BY <1>4, <1>6, <1>7, <1>8, TransactionSound

-------------------------------------------------------------------------------
(* Steps: a pump.                                                          *)

LEMMA PumpAdmitStep ==
  ASSUME IInv, NEW o \in Owners, PumpAdmit(o)
  PROVE  IInv'
<1>1. PICK s : s = owners[o].stage.snapshot
  OBVIOUS
<1>2. s \in Snapshots
  BY <1>1, OwnerFacts
<1>3. owners[o].pending.kind = "Pump" /\ UNCHANGED <<journal, cache, asked>>
  BY DEF PumpAdmit, Executes
<1>4. CASE Fails(o, StageError(s))
  <2>1. PICK e : e = StageError(s)
    OBVIOUS
  <2> QED
    BY <1>3, <1>4, <2>1, FailsSound
<1>5. CASE /\ StageError(s) = "none"
           /\ owners' = [owners EXCEPT ![o].work =
                [phase |-> "pump", header |-> Descriptor(Generation(s)),
                 previous |-> Previous(Generation(s)),
                 pending |-> Missing(Generation(s)), rows |-> Empty]]
           /\ UNCHANGED answers
  <2>1. HeaderError(s) = "none" /\ FenceError(Generation(s)) = "none"
    BY <1>5 DEF StageError
  <2>2. IsThere(s)
    BY <2>1 DEF HeaderError
  <2>3. Generation(s).expected = cache.head
    BY <2>1 DEF FenceError
  <2>4. PICK g : g = Generation(s)
    OBVIOUS
  <2>5. /\ g.source <= Source /\ Descriptor(g) \in Headers /\ Missing(g) \subseteq Documents
        /\ Descriptor(g).source = g.source
    BY <1>2, <2>2, <2>4, ThereFacts DEF Descriptor
  <2>6. PICK v : v = Previous(g)
    OBVIOUS
  <2>7. /\ v \in [snapshot : Snapshots, source : Nat] /\ v.source <= Source
        /\ Behind(v.snapshot)
        /\ IsThere(v.snapshot) => /\ Generation(v.snapshot).published
                                  /\ Generation(v.snapshot).source = v.source
    <3>1. CASE g.expected = NoHead
      BY <2>6, <3>1, SnapshotShape, VaultFacts DEF Previous
    <3>2. CASE g.expected # NoHead
      <4>1. PICK n : n = cache.head
        OBVIOUS
      <4>2. n \in DOMAIN cache.generations /\ cache.generations[n].published
        BY <2>3, <2>4, <3>2, <4>1, VaultFacts DEF CacheSound, HeadSound, Shown
      <4>3. v = [snapshot |-> SnapshotOf(n), source |-> cache.generations[n].source]
        BY <2>3, <2>4, <2>6, <3>2, <4>1 DEF Previous
      <4>4. /\ SnapshotOf(n) \in Snapshots /\ IsThere(SnapshotOf(n))
            /\ Generation(SnapshotOf(n)) = cache.generations[n]
        BY <4>1, <4>2, SnapshotShape, VaultFacts, CacheTypes DEF IsThere, Generation
      <4> QED
        BY <4>2, <4>3, <4>4, ThereFacts
    <3> QED
      BY <3>1, <3>2
  <2>8. PICK w : w = [phase |-> "pump", header |-> Descriptor(g), previous |-> v,
                      pending |-> Missing(g), rows |-> Empty]
    OBVIOUS
  <2>9. DOMAIN Empty = {} /\ RowsRight(Empty, g.source)
    BY DEF Empty, RowsRight
  <2>10. WorkFits(w, owners[o].pending.kind) /\ owners[o].pending.kind \in Kinds
    BY <1>3, <2>5, <2>7, <2>8 DEF WorkFits, Kinds
  <2>11. WorkSound(w, owners[o].stage)
    BY <2>5, <2>7, <2>8, <2>9 DEF WorkSound
  <2>12. owners' = [owners EXCEPT ![o].work = w]
    BY <1>5, <2>4, <2>6, <2>8
  <2>13. w.phase = "pump"
    BY <2>8
  <2> QED
    BY <1>3, <1>5, <2>10, <2>11, <2>12, <2>13, WorkMoves
<1> QED
  BY <1>1, <1>4, <1>5 DEF PumpAdmit

(* What a pump holds.                                                      *)
LEMMA PumpFacts ==
  ASSUME IInv, NEW o \in Owners, NEW w, w = owners[o].work, w.phase = "pump"
  PROVE  /\ owners[o].pending.kind = "Pump"
         /\ w \in [phase : {"pump"}, header : Headers,
                   previous : [snapshot : Snapshots, source : Nat],
                   pending : SUBSET Documents, rows : {w.rows}]
         /\ w.header.source <= Source /\ w.previous.source <= Source
         /\ DOMAIN w.rows \subseteq w.pending /\ RowsRight(w.rows, w.header.source)
         /\ Behind(w.previous.snapshot)
         /\ IsThere(w.previous.snapshot) =>
              /\ Generation(w.previous.snapshot).published
              /\ Generation(w.previous.snapshot).source = w.previous.source
<1>1. WorkFits(w, owners[o].pending.kind) /\ WorkSound(w, owners[o].stage)
  BY OwnerFacts DEF OwnerSound, Ordered
<1> QED
  BY <1>1 DEF WorkFits, WorkSound, NoWork

(* The row of a document, reused or read, is the row at the watermark.     *)
LEMMA RowIsRight ==
  ASSUME IInv, NEW v, v \in [snapshot : Snapshots, source : Nat],
         IsThere(v.snapshot) => /\ Generation(v.snapshot).published
                                /\ Generation(v.snapshot).source = v.source,
         NEW h \in Headers, NEW d \in Documents, ReadError(v, h, d) = "none"
  PROVE  RowFor(v, h, d) = Revision(d, h.source)
<1>1. /\ h.source = Source
      /\ Reusable(v, h, d) => IsThere(v.snapshot)
  BY DEF ReadError
<1>2. CASE Reusable(v, h, d)
  <2>1. Generation(v.snapshot).published /\ Generation(v.snapshot).source = v.source
    BY <1>1, <1>2
  <2>2. GenerationSound(v.snapshot.generation, Generation(v.snapshot))
    BY <1>1, <1>2, ThereFacts
  <2>3. Generation(v.snapshot).rows[d] = Revision(d, v.source)
    BY <2>1, <2>2 DEF GenerationSound, RowsRight
  <2> QED
    BY <1>2, <2>3 DEF RowFor, Reusable
<1>3. CASE ~ Reusable(v, h, d)
  BY <1>1, <1>3 DEF RowFor
<1> QED
  BY <1>2, <1>3

LEMMA PumpReadStep ==
  ASSUME IInv, NEW o \in Owners, NEW d \in Documents, PumpRead(o, d)
  PROVE  IInv'
<1>1. PICK w, e : w = owners[o].work /\ e = ReadError(w.previous, w.header, d)
  OBVIOUS
<1>2. /\ w.phase = "pump" /\ d \in w.pending \ DOMAIN w.rows
      /\ UNCHANGED <<journal, cache, asked>>
      /\ \/ e # "none" /\ Fails(o, e)
         \/ /\ e = "none"
            /\ owners' = [owners EXCEPT ![o].work.rows =
                 [x \in DOMAIN w.rows \cup {d} |->
                    IF x = d THEN RowFor(w.previous, w.header, d) ELSE w.rows[x]]]
            /\ UNCHANGED answers
  BY <1>1 DEF PumpRead
<1>3. CASE Fails(o, e)
  BY <1>2, <1>3, FailsSound
<1>4. CASE /\ e = "none"
           /\ owners' = [owners EXCEPT ![o].work.rows =
                [x \in DOMAIN w.rows \cup {d} |->
                   IF x = d THEN RowFor(w.previous, w.header, d) ELSE w.rows[x]]]
           /\ UNCHANGED answers
  <2>1. /\ owners[o].pending.kind = "Pump"
        /\ w \in [phase : {"pump"}, header : Headers,
                  previous : [snapshot : Snapshots, source : Nat],
                  pending : SUBSET Documents, rows : {w.rows}]
        /\ w.header.source <= Source /\ w.previous.source <= Source
        /\ DOMAIN w.rows \subseteq w.pending /\ RowsRight(w.rows, w.header.source)
        /\ Behind(w.previous.snapshot)
        /\ IsThere(w.previous.snapshot) =>
             /\ Generation(w.previous.snapshot).published
             /\ Generation(w.previous.snapshot).source = w.previous.source
    BY <1>1, <1>2, PumpFacts
  <2>2. RowFor(w.previous, w.header, d) = Revision(d, w.header.source)
    <3>1. PICK p, h : p = w.previous /\ h = w.header
      OBVIOUS
    <3>2. p \in [snapshot : Snapshots, source : Nat] /\ h \in Headers
      BY <2>1, <3>1
    <3>3. ReadError(p, h, d) = "none"
      BY <1>1, <1>4, <3>1
    <3>4. IsThere(p.snapshot) => /\ Generation(p.snapshot).published
                                 /\ Generation(p.snapshot).source = p.source
      BY <2>1, <3>1
    <3>5. RowFor(p, h, d) = Revision(d, h.source)
      BY <3>2, <3>3, <3>4, RowIsRight
    <3> QED
      BY <3>1, <3>5
  <2>3. PICK rows : rows = [x \in DOMAIN w.rows \cup {d} |->
                              IF x = d THEN RowFor(w.previous, w.header, d) ELSE w.rows[x]]
    OBVIOUS
  <2>4. DOMAIN rows \subseteq w.pending /\ RowsRight(rows, w.header.source)
    BY <1>2, <2>1, <2>2, <2>3 DEF RowsRight
  <2>5. PICK v : v = [w EXCEPT !.rows = rows]
    OBVIOUS
  <2>6. /\ v \in [phase : {"pump"}, header : Headers,
                  previous : [snapshot : Snapshots, source : Nat],
                  pending : SUBSET Documents, rows : {v.rows}]
        /\ v.header = w.header /\ v.previous = w.previous /\ v.pending = w.pending
        /\ v.rows = rows
    BY <2>1, <2>5
  <2>7. v.phase = "pump"
    BY <2>6
  <2>8. WorkFits(v, owners[o].pending.kind) /\ owners[o].pending.kind \in Kinds
    BY <2>1, <2>6 DEF WorkFits, Kinds
  <2>9. WorkSound(v, owners[o].stage)
    BY <2>1, <2>4, <2>6, <2>7 DEF WorkSound
  <2>10. owners' = [owners EXCEPT ![o].work = v]
    BY <1>1, <1>4, <2>3, <2>5
  <2> QED
    BY <1>2, <1>4, <2>7, <2>8, <2>9, <2>10, WorkMoves
<1> QED
  BY <1>2, <1>3, <1>4

LEMMA RecheckFacts ==
  ASSUME NEW s, NEW h, RecheckError(s, h) = "none"
  PROVE  /\ IsThere(s) /\ Descriptor(Generation(s)) = h
         /\ ~ h.published /\ h.source = Source /\ h.expected = cache.head
BY DEF RecheckError, FenceError

LEMMA PumpCommitStep ==
  ASSUME IInv, NEW o \in Owners, PumpCommit(o)
  PROVE  IInv'
<1>1. PICK w, stage : w = owners[o].work /\ stage = owners[o].stage
  OBVIOUS
<1>2. PICK n : n = stage.snapshot.generation
  OBVIOUS
<1>3. PICK k : k = RecheckError(stage.snapshot, w.header)
  OBVIOUS
<1>4. PICK e : e = IF k = "none" /\ DOMAIN w.rows \cap DOMAIN cache.generations[n].rows # {}
                   THEN "StaleIndex" ELSE k
  OBVIOUS
<1>5. PICK after : after = [stage EXCEPT !.ready = w.pending \subseteq DOMAIN w.rows]
  OBVIOUS
<1>6. PICK c, r : c = WithRows(cache, n, w.rows) /\ r = AfterPump(Settling(o), after)
  OBVIOUS
<1>7. /\ w.phase = "pump" /\ Transaction(o, e, c, r) /\ UNCHANGED <<journal, asked>>
  BY <1>1, <1>2, <1>3, <1>4, <1>5, <1>6 DEF PumpCommit
<1>8. stage \in StageRefs /\ stage.snapshot \in Snapshots
  BY <1>1, OwnerFacts
<1>9. after \in StageRefs
  <2>1. PICK b \in BOOLEAN : after = [stage EXCEPT !.ready = b]
    BY <1>5
  <2> QED
    BY <1>8, <2>1 DEF StageRefs
<1>10. Good(r, asked) /\ r.work = NoWork
  <2>1. r = AfterPump(Settled(owners[o]), after)
    BY <1>6, OwnerFacts
  <2> QED
    BY <1>9, <2>1, OwnerFacts, PumpedIsGood
<1>11. ASSUME e = "none"
       PROVE  /\ CacheSound(c) /\ Keeps(cache, c) /\ c.epoch <= MaxEpochs
              /\ c.allocated <= MaxGenerations
  <2>1. k = "none"
    BY <1>4, <1>11
  <2>2. IsThere(stage.snapshot) /\ Descriptor(Generation(stage.snapshot)) = w.header
    BY <1>3, <2>1, RecheckFacts
  <2>3. n \in DOMAIN cache.generations /\ Generation(stage.snapshot) = cache.generations[n]
    BY <1>2, <1>8, <2>2, ThereFacts
  <2>4. cache.generations[n].source = w.header.source
    BY <2>2, <2>3 DEF Descriptor
  <2>5. DOMAIN w.rows \subseteq Documents /\ RowsRight(w.rows, w.header.source)
    BY <1>1, <1>7, PumpFacts
  <2>6. /\ CacheSound(c) /\ Keeps(cache, c) /\ c.epoch = cache.epoch
        /\ c.allocated = cache.allocated
    BY <1>6, <2>3, <2>4, <2>5, VaultFacts, RowsAreSound
  <2> QED
    BY <2>6, VaultFacts
<1> QED
  BY <1>7, <1>10, <1>11, TransactionSound

-------------------------------------------------------------------------------
(* Steps: a publication, a discard.                                        *)

LEMMA PublishReadStep ==
  ASSUME IInv, NEW o \in Owners, PublishRead(o)
  PROVE  IInv'
<1>1. PICK s : s = owners[o].stage.snapshot
  OBVIOUS
<1>2. s \in Snapshots
  BY <1>1, OwnerFacts
<1>3. PICK e : e = IF HeaderError(s) # "none" THEN HeaderError(s)
                   ELSE IF Generation(s).published THEN "StaleIndex"
                   ELSE IF Missing(Generation(s)) # {} THEN "NotReady" ELSE "none"
  OBVIOUS
<1>4. /\ owners[o].pending.kind = "Publish" /\ UNCHANGED <<journal, cache, asked>>
      /\ \/ e # "none" /\ Fails(o, e)
         \/ /\ e = "none"
            /\ owners' = [owners EXCEPT ![o].work =
                 [phase |-> "publish", header |-> Descriptor(Generation(s))]]
            /\ UNCHANGED answers
  BY <1>1, <1>3 DEF PublishRead, Executes
<1>5. CASE Fails(o, e)
  BY <1>4, <1>5, FailsSound
<1>6. CASE /\ e = "none"
           /\ owners' = [owners EXCEPT ![o].work =
                [phase |-> "publish", header |-> Descriptor(Generation(s))]]
           /\ UNCHANGED answers
  <2>1. HeaderError(s) = "none" /\ Missing(Generation(s)) = {}
    BY <1>3, <1>6
  <2>2. IsThere(s)
    BY <2>1 DEF HeaderError
  <2>3. Descriptor(Generation(s)) \in Headers /\ Behind(s)
    BY <1>2, <2>2, ThereFacts
  <2>4. PICK w : w = [phase |-> "publish", header |-> Descriptor(Generation(s))]
    OBVIOUS
  <2>5. WorkFits(w, owners[o].pending.kind) /\ owners[o].pending.kind \in Kinds
    BY <1>4, <2>3, <2>4 DEF WorkFits, Kinds
  <2>6. w.phase = "publish"
    BY <2>4
  <2>7. WorkSound(w, owners[o].stage)
    BY <1>1, <2>1, <2>3, <2>6 DEF WorkSound
  <2>8. owners' = [owners EXCEPT ![o].work = w]
    BY <1>6, <2>4
  <2> QED
    BY <1>4, <1>6, <2>5, <2>6, <2>7, <2>8, WorkMoves
<1> QED
  BY <1>4, <1>5, <1>6

(* What passes the recheck of a publication is whole and expects the head. *)
LEMMA PublishFacts ==
  ASSUME IInv, NEW o \in Owners, NEW w, w = owners[o].work, w.phase = "publish",
         NEW s, s = owners[o].stage.snapshot, RecheckError(s, w.header) = "none"
  PROVE  /\ s.generation \in DOMAIN cache.generations
         /\ cache.generations[s.generation].expected = cache.head
         /\ cache.generations[s.generation].source = Source
         /\ DOMAIN cache.generations[s.generation].rows = Documents
<1>1. s \in Snapshots
  BY OwnerFacts
<1>2. /\ IsThere(s) /\ Descriptor(Generation(s)) = w.header
      /\ w.header.source = Source /\ w.header.expected = cache.head
  BY RecheckFacts
<1>3. /\ s.generation \in DOMAIN cache.generations
      /\ Generation(s) = cache.generations[s.generation]
      /\ GenerationSound(s.generation, Generation(s))
  BY <1>1, <1>2, ThereFacts
<1>4. Missing(Generation(s)) = {}
  BY <1>2, OwnerFacts DEF OwnerSound, WorkSound
<1>5. DOMAIN Generation(s).rows = Documents
  BY <1>3, <1>4 DEF Missing, GenerationSound
<1> QED
  BY SMTT(30), <1>2, <1>3, <1>5 DEF Descriptor

LEMMA PublishCommitStep ==
  ASSUME IInv, NEW o \in Owners, PublishCommit(o)
  PROVE  IInv'
<1>1. PICK w, s : w = owners[o].work /\ s = owners[o].stage.snapshot
  OBVIOUS
<1>2. PICK e, c, r : /\ e = RecheckError(s, w.header) /\ c = WithHead(cache, s.generation)
                     /\ r = AfterPublish(Settling(o))
  OBVIOUS
<1>3. /\ w.phase = "publish" /\ Transaction(o, e, c, r) /\ UNCHANGED <<journal, asked>>
  BY <1>1, <1>2 DEF PublishCommit
<1>4. Good(r, asked) /\ r.work = NoWork
  <2>1. r = AfterPublish(Settled(owners[o]))
    BY <1>2, OwnerFacts
  <2> QED
    BY <2>1, OwnerFacts, PublishedIsGood
<1>5. ASSUME e = "none"
      PROVE  /\ CacheSound(c) /\ Keeps(cache, c) /\ c.epoch <= MaxEpochs
             /\ c.allocated <= MaxGenerations
  <2>1. /\ s.generation \in DOMAIN cache.generations
        /\ cache.generations[s.generation].expected = cache.head
        /\ DOMAIN cache.generations[s.generation].rows = Documents
    <3>1. RecheckError(s, w.header) = "none"
      BY <1>2, <1>5
    <3> QED
      BY <1>1, <1>3, <3>1, PublishFacts
  <2>2. /\ CacheSound(c) /\ Keeps(cache, c) /\ c.epoch = cache.epoch
        /\ c.allocated = cache.allocated
    BY <1>2, <2>1, VaultFacts, HeadIsSound
  <2> QED
    BY <2>2, VaultFacts
<1> QED
  BY <1>3, <1>4, <1>5, TransactionSound

LEMMA DiscardStep ==
  ASSUME IInv, NEW o \in Owners, Discard(o)
  PROVE  IInv'
<1>1. PICK s : s = owners[o].stage.snapshot
  OBVIOUS
<1>2. PICK e, c, r : /\ e = DiscardError(s) /\ c = Discarded(s)
                     /\ r = AfterDiscard(Settling(o))
  OBVIOUS
<1>3. Transaction(o, e, c, r) /\ UNCHANGED <<journal, asked>>
  BY <1>1, <1>2 DEF Discard
<1>4. Good(r, asked) /\ r.work = NoWork
  <2>1. r = AfterDiscard(Settled(owners[o]))
    BY <1>2, OwnerFacts
  <2> QED
    BY <2>1, OwnerFacts, DiscardedIsGood
<1>5. /\ CacheSound(c) /\ Keeps(cache, c) /\ c.epoch <= MaxEpochs
      /\ c.allocated <= MaxGenerations
  <2>1. CASE c = cache
    BY <2>1, VaultFacts, KeepsItself
  <2>2. CASE IsThere(s) /\ ~ Generation(s).published /\ c = Without(cache, s.generation)
    <3>1. /\ s.generation \in DOMAIN cache.generations
          /\ ~ cache.generations[s.generation].published
      BY <2>2 DEF IsThere, Generation
    <3>2. /\ CacheSound(c) /\ Keeps(cache, c) /\ c.epoch = cache.epoch
          /\ c.allocated = cache.allocated
      BY <2>2, <3>1, VaultFacts, WithoutIsSound
    <3> QED
      BY <3>2, VaultFacts
  <2> QED
    BY <1>2, <2>1, <2>2 DEF Discarded
<1> QED
  BY <1>3, <1>4, <1>5, TransactionSound

LEMMA UnavailableStep ==
  ASSUME IInv, NEW o \in Owners, Unavailable(o)
  PROVE  IInv'
<1>1. PICK e : e = "Unavailable"
  OBVIOUS
<1>2. Fails(o, e) /\ UNCHANGED <<journal, cache, asked>>
  BY <1>1 DEF Unavailable
<1> QED
  BY <1>2, FailsSound

-------------------------------------------------------------------------------
(* Steps: the inputs of the reducer, and the vault.                        *)

LEMMA HintFacts ==
  ASSUME NEW a, NEW r, Good(r, a)
  PROVE  /\ OwnerShape(r) /\ Ordered(r) /\ ToldFor(r, a) /\ \A q \in Waiting(r) : a[q] # 0
BY DEF Good, FreshFor

LEMMA WakeStep ==
  ASSUME IInv, NEW o \in Owners, Wake(o)
  PROVE  IInv'
<1>1. PICK b : b = IF owners[o].retired THEN FreshOwner ELSE owners[o]
  OBVIOUS
<1>2. owners[o].pending = NoEffect /\ UNCHANGED <<journal, cache, asked>>
  BY DEF Wake
<1>3. PICK a : a = asked
  OBVIOUS
<1>4. Good(b, a) /\ b.work = NoWork
  BY <1>1, <1>2, <1>3, OwnerFacts, FreshOwnerIsGood, AtRest DEF Good
<1>5. PICK t : t = [b EXCEPT !.yielded = FALSE, !.blocked = FALSE]
  OBVIOUS
<1>6. Good(t, a) /\ t.work = NoWork
  BY <1>4, <1>5, WokenIsGood
<1>7. PICK r : r = Hinted(t)
  OBVIOUS
<1>8. Good(r, a) /\ r.work = NoWork
  BY <1>6, <1>7, HintFacts, HintedIsGood
<1>9. Reduced(o, r)
  BY <1>1, <1>5, <1>7 DEF Wake
<1> QED
  BY <1>2, <1>3, <1>8, <1>9, InputSound

LEMMA WatchCycleStep ==
  ASSUME IInv, NEW o \in Owners, WatchCycle(o)
  PROVE  IInv'
<1>1. PICK b, a : b = FreshOwner /\ a = asked
  OBVIOUS
<1>2. Good(b, a) /\ b.work = NoWork
  BY <1>1, FreshOwnerIsGood
<1>3. PICK r : r = Hinted(b)
  OBVIOUS
<1>4. Good(r, a) /\ r.work = NoWork
  BY <1>2, <1>3, HintFacts, HintedIsGood
<1>5. Reduced(o, r) /\ UNCHANGED <<journal, cache, asked>>
  BY <1>1, <1>3 DEF WatchCycle
<1> QED
  BY <1>1, <1>4, <1>5, InputSound

LEMMA SourceHintStep ==
  ASSUME IInv, NEW o \in Owners, SourceHint(o)
  PROVE  IInv'
<1>1. PICK b, a : b = owners[o] /\ a = asked
  OBVIOUS
<1>2. Good(b, a)
  BY <1>1, OwnerFacts
<1>3. PICK r : r = Hinted(b)
  OBVIOUS
<1>4. Good(r, a) /\ r.work = b.work /\ r.stage = b.stage
  BY <1>2, <1>3, HintFacts, HintedIsGood
<1>5. Reduced(o, r) /\ UNCHANGED <<journal, cache, asked>>
  BY <1>1, <1>3 DEF SourceHint
<1> QED
  BY <1>1, <1>4, <1>5, InputSound

LEMMA ContinueStep ==
  ASSUME IInv, NEW o \in Owners, Continue(o)
  PROVE  IInv'
<1>1. PICK b, a : b = owners[o] /\ a = asked
  OBVIOUS
<1>2. Good(b, a)
  BY <1>1, OwnerFacts
<1>3. PICK r : r = [b EXCEPT !.yielded = FALSE]
  OBVIOUS
<1>4. Good(r, a) /\ r.work = b.work /\ r.stage = b.stage
  BY <1>2, <1>3, WokenIsGood
<1>5. Reduced(o, r) /\ UNCHANGED <<journal, cache, asked>>
  BY <1>1, <1>3 DEF Continue
<1> QED
  BY <1>1, <1>4, <1>5, InputSound

LEMMA CancelRequestStep ==
  ASSUME IInv, NEW o \in Owners, NEW q \in Requests, CancelRequest(o, q)
  PROVE  IInv'
<1>1. PICK b, a : b = owners[o] /\ a = asked
  OBVIOUS
<1>2. Good(b, a)
  BY <1>1, OwnerFacts
<1>3. UNCHANGED <<journal, cache, asked>>
  BY DEF CancelRequest
<1>4. PICK at \in DOMAIN b.requests :
        /\ b.requests[at] = q
        /\ Reduced(o, [b EXCEPT !.requests = RemoveAt(@, at),
                                !.told = {[request |-> q, outcome |-> "Cancelled",
                                           observation |-> NoObservation]}])
  BY <1>1 DEF CancelRequest
<1>5. PICK r : r = [b EXCEPT !.requests = RemoveAt(@, at),
                             !.told = {[request |-> q, outcome |-> "Cancelled",
                                        observation |-> NoObservation]}]
  OBVIOUS
<1>6. Reduced(o, r)
  BY <1>4, <1>5
<1>7. PICK left, t : /\ left = RemoveAt(b.requests, at)
                     /\ t = [request |-> b.requests[at], outcome |-> "Cancelled",
                             observation |-> NoObservation]
  OBVIOUS
<1>8. /\ left \in Seq(Requests) /\ {t} \in SUBSET Tellings
      /\ t.request \in Waiting(b) /\ t.outcome # "Finished"
      /\ \A i \in DOMAIN left : left[i] \in Waiting(b)
  <2>1. b.requests \in Seq(Requests) /\ at \in 1 .. Len(b.requests)
    BY <1>2 DEF Good, OwnerShape
  <2>2. t \in Tellings
    BY <1>4, <1>7 DEF Tellings, Outcomes, NoObservation, NoSnapshot, Observations, Snapshots
  <2> QED
    BY <1>7, <2>1, <2>2, LeftOf DEF Waiting
<1>9. Good(r, a) /\ r.work = b.work /\ r.stage = b.stage
  <2>1. PICK told \in SUBSET Tellings :
          r = [b EXCEPT !.requests = left, !.told = told] /\ told = {t}
    BY <1>4, <1>5, <1>7, <1>8
  <2>2. /\ OwnerShape(r) /\ r.pending = b.pending /\ r.work = b.work /\ r.requests = left
        /\ r.told = told /\ r.observation = b.observation /\ r.stage = b.stage
        /\ r.needsObserve = b.needsObserve /\ r.cycle = b.cycle
    BY <1>2, <1>8, <2>1 DEF Good, OwnerShape
  <2>3. Ordered(r)
    BY <1>2, <2>2 DEF Good, Ordered
  <2>4. Waiting(r) \subseteq Waiting(b)
    BY <1>8, <2>2 DEF Waiting
  <2>5. FreshFor(r, a)
    BY <1>2, <2>2, <2>4 DEF Good, FreshFor
  <2>6. ToldFor(r, a)
    BY <1>2, <1>8, <2>1, <2>2 DEF Good, ToldFor, FreshFor
  <2> QED
    BY <2>2, <2>3, <2>5, <2>6 DEF Good
<1> QED
  BY <1>1, <1>3, <1>6, <1>9, InputSound

LEMMA RetireStep ==
  ASSUME IInv, NEW o \in Owners, Retire(o)
  PROVE  IInv'
<1>1. PICK b, a : b = owners[o] /\ a = asked
  OBVIOUS
<1>2. Good(b, a)
  BY <1>1, OwnerFacts
<1>3. PICK r : r = [Told(b, "Retired") EXCEPT !.retired = TRUE]
  OBVIOUS
<1>4. Good(r, a) /\ r.work = b.work /\ r.stage = b.stage
  BY <1>2, <1>3, RetiredIsGood
<1>5. Reduced(o, r) /\ UNCHANGED <<journal, cache, asked>>
  BY <1>1, <1>3 DEF Retire
<1> QED
  BY <1>1, <1>4, <1>5, InputSound

(* A request is made: it is stamped with the watermark of its moment.      *)
LEMMA RequestStep ==
  ASSUME IInv, NEW o \in Owners, NEW q \in Requests, Request(o, q)
  PROVE  IInv'
<1>1. PICK b, a : b = owners[o] /\ a = asked'
  OBVIOUS
<1>2. /\ asked[q] = 0 /\ asked' = [asked EXCEPT ![q] = Source]
      /\ UNCHANGED <<journal, cache>>
  BY DEF Request
<1>3. Source \in Nat /\ Source # 0
  BY VaultFacts DEF Source
<1>4. /\ AskedKept /\ a[q] # 0 /\ a \in [Requests -> Nat]
      /\ \A x \in Requests : a[x] <= Source /\ (asked[x] # 0 => a[x] = asked[x])
  BY <1>1, <1>2, <1>3, VaultFacts DEF AskedKept
<1>5. OwnerShape(b) /\ Ordered(b) /\ b.told = {} /\ \A x \in Waiting(b) : asked[x] # 0
  BY <1>1, OwnerFacts DEF Good, FreshFor
<1>6. ToldFor(b, a) /\ \A x \in Waiting(b) : a[x] # 0
  BY SMTT(30), <1>4, <1>5 DEF ToldFor, OwnerShape, Waiting
<1>7. PICK e \in BOOLEAN : e = (b.explicit \/ (q \in Forced /\ b.pending.kind # "Rebuild"))
  OBVIOUS
<1>17. PICK t : t = [b EXCEPT !.requests = Append(@, q), !.explicit = e, !.blocked = FALSE]
  OBVIOUS
<1>8. PICK r : r = Hinted(t)
  OBVIOUS
<1>9. Good(r, a) /\ r.work = b.work /\ r.stage = b.stage
  <2>1. Append(b.requests, q) \in Seq(Requests)
    BY <1>5 DEF OwnerShape
  <2>2. /\ OwnerShape(t) /\ t.requests = Append(b.requests, q) /\ t.pending = b.pending
        /\ t.work = b.work /\ t.stage = b.stage /\ t.told = b.told /\ t.cycle = b.cycle
    BY <1>5, <1>17, <2>1 DEF OwnerShape
  <2>3. Ordered(t) /\ ToldFor(t, a)
    BY <1>5, <1>6, <2>2 DEF Ordered, ToldFor
  <2>4. \A x \in Waiting(t) : x = q \/ x \in Waiting(b)
    <3>1. b.requests \in Seq(Requests)
      BY <1>5 DEF OwnerShape
    <3> QED
      BY <2>2, <3>1 DEF Waiting
  <2>5. \A x \in Waiting(t) : a[x] # 0
    BY <1>4, <1>6, <2>4
  <2>6. Good(r, a) /\ r.work = t.work /\ r.stage = t.stage
    BY <1>8, <2>2, <2>3, <2>5, HintedIsGood
  <2> QED
    BY <2>2, <2>6
<1>10. Reduced(o, r)
  <2>1. Reduced(o, Hinted([owners[o] EXCEPT
               !.requests = Append(@, q),
               !.explicit = @ \/ (q \in Forced /\ owners[o].pending.kind # "Rebuild"),
               !.blocked = FALSE]))
    BY DEF Request
  <2>2. r = Hinted([owners[o] EXCEPT
               !.requests = Append(@, q),
               !.explicit = @ \/ (q \in Forced /\ owners[o].pending.kind # "Rebuild"),
               !.blocked = FALSE])
    BY <1>1, <1>7, <1>8, <1>17
  <2> QED
    BY <2>1, <2>2
<1>11. Grows
  BY <1>2 DEF Grows
<1>12. PICK c : c = cache
  OBVIOUS
<1>13. CacheSound(c)'
  BY <1>11, <1>12, VaultFacts, CacheStays
<1>14. CacheSound(cache)' /\ Keeps(cache, cache')
  BY <1>2, <1>12, <1>13, VaultFacts, KeepsItself
<1>15. Sound' /\ Answered'
  BY <1>1, <1>4, <1>9, <1>10, <1>11, <1>14, VaultFacts, ReducedIsSound
<1>16. Source' = Source
  BY <1>2 DEF Source
<1> QED
  BY <1>1, <1>2, <1>4, <1>14, <1>15, <1>16, VaultFacts DEF IInv, Sound

LEMMA CrashStep ==
  ASSUME IInv, NEW o \in Owners, Crash(o)
  PROVE  IInv'
<1>1. UNCHANGED <<journal, cache, asked>> /\ owners' = [owners EXCEPT ![o] = FreshOwner]
  BY DEF Crash
<1>2. Grows /\ AskedKept
  BY <1>1, VaultFacts DEF Grows, AskedKept
<1>3. PICK c : c = cache
  OBVIOUS
<1>4. CacheSound(c)'
  BY <1>2, <1>3, VaultFacts, CacheStays
<1>5. CacheSound(cache)' /\ Keeps(cache, cache')
  BY <1>1, <1>3, <1>4, VaultFacts, KeepsItself
<1>6. PICK r, a : r = FreshOwner /\ a = asked'
  OBVIOUS
<1>7. Good(r, a) /\ r.work = NoWork /\ r.told = {}
  BY <1>6, FreshOwnerIsGood
<1>8. OwnerSound(r)'
  BY <1>6, <1>7, NoEffectShape
     DEF Good, OwnerSound, OwnerShape, Ordered, FreshFor, Waiting, WorkFits, WorkSound
<1>9. Sound'
  BY <1>1, <1>2, <1>5, <1>6, <1>8, VaultFacts, OwnerMoves
<1>10. Answered'
  <2>1. answers' = [q \in Requests |->
          IF q \in Waiting(owners[o]) THEN [NoAnswer EXCEPT !.outcome = "Lost"]
                                      ELSE answers[q]]
    BY DEF Crash
  <2>2. /\ [NoAnswer EXCEPT !.outcome = "Lost"] \in
             [outcome : Outcomes, observation : Observations]
        /\ [NoAnswer EXCEPT !.outcome = "Lost"].outcome # "Finished"
    BY DEF NoAnswer, Outcomes, NoObservation, NoSnapshot, Observations, Snapshots
  <2> QED
    BY <1>1, <2>1, <2>2, VaultFacts DEF Answered
<1> QED
  BY <1>1, <1>5, <1>9, <1>10, VaultFacts DEF IInv, Sound, Source

(* The vault commits a change: what was right at a watermark stays right.  *)
LEMMA CommitStep ==
  ASSUME IInv, NEW d \in Documents, Commit(d)
  PROVE  IInv'
<1>1. /\ journal' = Append(journal, d) /\ Len(journal) < MaxCommits
      /\ UNCHANGED <<cache, owners, asked, answers>>
  BY DEF Commit
<1>2. Grows /\ AskedKept
  BY <1>1, VaultFacts DEF Grows, AskedKept
<1>3. PICK c : c = cache
  OBVIOUS
<1>4. CacheSound(c)'
  BY <1>2, <1>3, VaultFacts, CacheStays
<1>5. CacheSound(cache)' /\ Keeps(cache, cache')
  BY <1>1, <1>3, <1>4, VaultFacts, KeepsItself
<1>6. Sound'
  BY <1>1, <1>2, <1>5, VaultFacts, OwnersStay
<1>7. Answered'
  BY <1>1, <1>2, VaultFacts, AnsweredStays
<1>8. journal' \in Seq(Documents) /\ Len(journal') <= MaxCommits /\ Source <= Source'
      /\ Source' \in Nat
  BY <1>1, <1>2, VaultFacts, SourceGrows, BoundsAssumption
<1>9. \A q \in Requests : asked'[q] <= Source'
  <2>1. \A q \in Requests : asked[q] \in Nat /\ asked[q] <= Source /\ Source \in Nat
    BY VaultFacts
  <2> QED
    BY <1>1, <1>8, <2>1
<1> QED
  BY <1>1, <1>5, <1>6, <1>7, <1>8, <1>9, VaultFacts DEF IInv, Sound

LEMMA DamageStep ==
  ASSUME IInv, Damage
  PROVE  IInv'
<1>1. UNCHANGED <<journal, owners, asked, answers>>
  BY DEF Damage
<1>2. Grows /\ AskedKept
  BY <1>1, VaultFacts DEF Grows, AskedKept
<1>3. PICK c : c = [cache EXCEPT !.tables = "broken"]
  OBVIOUS
<1>4. cache' = c
  BY <1>3 DEF Damage
<1>5. CacheSound(c) /\ Keeps(cache, c) /\ c.epoch = cache.epoch /\ c.allocated = cache.allocated
  BY <1>3, VaultFacts, DamageIsSound
<1>6. CacheSound(c)'
  BY <1>2, <1>5, VaultFacts, CacheStays
<1>7. CacheSound(cache)' /\ Keeps(cache, cache')
  BY <1>4, <1>5, <1>6
<1>8. Sound'
  BY <1>1, <1>2, <1>7, VaultFacts, OwnersStay
<1>9. Answered'
  BY <1>1, <1>2, VaultFacts, AnsweredStays
<1> QED
  BY <1>1, <1>4, <1>5, <1>7, <1>8, <1>9, VaultFacts DEF IInv, Sound, Source

LEMMA NothingMoves ==
  ASSUME IInv, UNCHANGED vars
  PROVE  IInv'
<1>1. UNCHANGED <<journal, cache, owners, asked, answers>>
  BY DEF vars
<1>2. Grows /\ AskedKept
  BY <1>1, VaultFacts DEF Grows, AskedKept
<1>3. PICK c : c = cache
  OBVIOUS
<1>4. CacheSound(c)'
  BY <1>2, <1>3, VaultFacts, CacheStays
<1>5. CacheSound(cache)' /\ Keeps(cache, cache')
  BY <1>1, <1>3, <1>4, VaultFacts, KeepsItself
<1>6. Sound'
  BY <1>1, <1>2, <1>5, VaultFacts, OwnersStay
<1>7. Answered'
  BY <1>1, <1>2, VaultFacts, AnsweredStays
<1> QED
  BY <1>1, <1>5, <1>6, <1>7, VaultFacts DEF IInv, Sound, Source

-------------------------------------------------------------------------------
(* The theorems.                                                           *)

LEMMA InitialInvariant ==
  Init => IInv
<1> SUFFICES ASSUME Init PROVE IInv
  OBVIOUS
<1>1. /\ journal = <<>> /\ cache = NoCache /\ owners = [o \in Owners |-> FreshOwner]
      /\ asked = [q \in Requests |-> 0] /\ answers = [q \in Requests |-> NoAnswer]
  BY DEF Init
<1>2. journal \in Seq(Documents) /\ Len(journal) <= MaxCommits
  BY <1>1, BoundsAssumption
<1>3. CacheSound(cache)
  BY <1>1, NoCacheIsSound
<1>4. cache.epoch <= MaxEpochs /\ cache.allocated <= MaxGenerations
  BY <1>1, BoundsAssumption DEF NoCache
<1>5. \A o \in Owners : OwnerSound(owners[o])
  <2>1. PICK r, a : r = FreshOwner /\ a = asked
    OBVIOUS
  <2>2. Good(r, a) /\ r.work = NoWork /\ r.told = {}
    BY <2>1, FreshOwnerIsGood
  <2>3. OwnerSound(r)
    BY <2>1, <2>2, NoEffectShape DEF Good, OwnerSound, WorkSound
  <2> QED
    BY <1>1, <2>1, <2>3
<1>6. Owned
  BY <1>1 DEF Owned
<1>7. asked \in [Requests -> Nat] /\ \A q \in Requests : asked[q] <= Source
  BY <1>1 DEF Source
<1>8. Answered
  <2>1. NoAnswer \in [outcome : Outcomes, observation : Observations]
        /\ NoAnswer.outcome # "Finished"
    BY DEF NoAnswer, Outcomes, NoObservation, NoSnapshot, Observations, Snapshots
  <2> QED
    BY <1>1, <2>1 DEF Answered
<1> QED
  BY <1>2, <1>3, <1>4, <1>5, <1>6, <1>7, <1>8 DEF IInv

LEMMA InvariantStep ==
  IInv /\ [Next]_vars => IInv'
<1> SUFFICES ASSUME IInv, [Next]_vars PROVE IInv'
  OBVIOUS
<1>1. Hosts \subseteq Owners /\ Watchers \subseteq Owners
  BY DEF Owners
<1>2. ASSUME NEW o \in Owners, Execute(o)
      PROVE  IInv'
  BY <1>2, LookStep, ObserveStep, RecoverStageStep, InitializeStep, BeginStep, PumpAdmitStep,
     PumpReadStep, PumpCommitStep, PublishReadStep, PublishCommitStep, DiscardStep, RebuildStep
     DEF Execute
<1>3. ASSUME NEW o \in Owners, Unavailable(o) \/ Crash(o)
      PROVE  IInv'
  BY <1>3, UnavailableStep, CrashStep
<1>4. ASSUME NEW o \in Hosts, Wake(o) \/ SourceHint(o) \/ Continue(o) \/ Retire(o)
      PROVE  IInv'
  BY <1>1, <1>4, WakeStep, SourceHintStep, ContinueStep, RetireStep
<1>5. ASSUME NEW o \in Hosts, NEW q \in Requests, Request(o, q) \/ CancelRequest(o, q)
      PROVE  IInv'
  BY <1>1, <1>5, RequestStep, CancelRequestStep
<1>6. ASSUME NEW o \in Watchers, WatchCycle(o)
      PROVE  IInv'
  BY <1>1, <1>6, WatchCycleStep
<1>7. ASSUME NEW d \in Documents, Commit(d)
      PROVE  IInv'
  BY <1>7, CommitStep
<1>8. CASE Damage
  BY <1>8, DamageStep
<1>9. CASE UNCHANGED vars
  BY <1>9, NothingMoves
<1> QED
  BY <1>2, <1>3, <1>4, <1>5, <1>6, <1>7, <1>8, <1>9 DEF Next

(* The inductive invariant holds in every reachable state: the cache is    *)
(* sound, every owner's effect belongs to it, and no request that waits    *)
(* will be answered from a look that is older than itself.                 *)
THEOREM IndexInvariant ==
  Spec => []IInv
<1>1. Init => IInv
  BY InitialInvariant
<1>2. IInv /\ [Next]_vars => IInv'
  BY InvariantStep
<1> QED
  BY <1>1, <1>2, PTL DEF Spec

(* The variables have their types, an effect is only pending inside a      *)
(* cycle, and only an effect of more than one transaction is ever half     *)
(* done.                                                                   *)
THEOREM IndexTypes ==
  Spec => []TypeOK
<1>1. IInv => TypeOK
  <2> SUFFICES ASSUME IInv PROVE TypeOK
    OBVIOUS
  <2>1. /\ journal \in Seq(Documents) /\ cache.tables \in {"none", "broken", "sound"}
        /\ cache.epoch \in 0 .. MaxEpochs /\ cache.allocated \in 0 .. MaxGenerations
        /\ DOMAIN cache.generations \subseteq 1 .. cache.allocated
    BY VaultFacts, CacheTypes, BoundsAssumption DEF CacheSound
  <2>2. ASSUME NEW o \in Owners
        PROVE  /\ owners[o].pending # NoEffect => owners[o].cycle.open
               /\ owners[o].work # NoWork => owners[o].pending.kind \in
                    {"Observe", "Pump", "Publish"}
               /\ owners[o].told = {}
    BY OwnerFacts DEF OwnerSound, Ordered, WorkFits
  <2>3. asked \in [Requests -> 0 .. MaxCommits + 1]
    BY VaultFacts, BoundsAssumption DEF Source
  <2> QED
    BY <2>1, <2>2, <2>3 DEF TypeOK
<1> QED
  BY <1>1, IndexInvariant, PTL

(* Whatever owners pump, publish, prune, discard and rebuild, and whenever *)
(* they crash: a published generation has the right row of every document  *)
(* at its watermark, and the head is the newest published one.             *)
THEOREM IndexServesWholeDocuments ==
  Spec => []ServesWholeDocuments
<1>1. IInv => ServesWholeDocuments
  <2> SUFFICES ASSUME IInv PROVE ServesWholeDocuments
    OBVIOUS
  <2>1. PICK gens : gens = cache.generations
    OBVIOUS
  <2>2. PICK shown : shown = {n \in DOMAIN gens : gens[n].published}
    OBVIOUS
  <2>3. shown = Shown(gens) /\ DOMAIN gens \ shown = Staged(gens)
    BY <2>2 DEF Shown, Staged
  <2>4. ASSUME NEW n \in shown
        PROVE  gens[n].rows = Manifest(gens[n].source)
    <3>1. GenerationSound(n, gens[n]) /\ gens[n].published
      BY <2>1, <2>2, VaultFacts, CacheTypes
    <3> QED
      BY <3>1 DEF GenerationSound, RowsRight, Manifest
  <2>5. HeadSound(cache.head, gens)
    BY <2>1, VaultFacts DEF CacheSound
  <2>6. IF cache.head = NoHead THEN shown = {} ELSE cache.head = Max(shown)
    <3>1. CASE cache.head = NoHead
      BY <2>3, <2>5, <3>1 DEF HeadSound
    <3>2. CASE cache.head # NoHead
      <4>1. /\ cache.head \in shown /\ \A n \in shown : n <= cache.head
            /\ shown \subseteq Nat
        BY <2>1, <2>2, <2>3, <2>5, <3>2, VaultFacts, FewGenerations DEF HeadSound
      <4>2. /\ Max(shown) \in shown /\ \A n \in shown : n <= Max(shown)
        BY <4>1, VaultFacts, CacheTypes, GreatestOf
      <4>3. cache.head \in Nat /\ Max(shown) \in Nat
        BY <4>1, <4>2
      <4>4. cache.head = Max(shown)
        BY <4>1, <4>2, <4>3
      <4> QED
        BY <3>2, <4>4
    <3> QED
      BY <3>1, <3>2
  <2>7. /\ Cardinality(shown) <= RetainedGenerations
        /\ Cardinality(DOMAIN gens \ shown) <= RetainedStages
    BY <2>1, <2>3, VaultFacts DEF CacheSound
  <2> QED
    BY <2>1, <2>2, <2>4, <2>6, <2>7 DEF ServesWholeDocuments
<1> QED
  BY <1>1, IndexInvariant, PTL

(* A request that is told it has finished is told of a look at the vault   *)
(* that is not older than the request.                                     *)
THEOREM IndexAnswersAreFresh ==
  Spec => []AnswersAreFresh
<1>1. IInv => AnswersAreFresh
  BY DEF IInv, Answered, AnswersAreFresh
<1> QED
  BY <1>1, IndexInvariant, PTL

-------------------------------------------------------------------------------
(* The head of an epoch only moves forward.                                *)

HeadStays == cache'.epoch = cache.epoch => cache'.head = cache.head

LEMMA TransactionHead ==
  ASSUME NEW o, NEW error, NEW c, NEW r, Transaction(o, error, c, r),
         c.head = cache.head \/ c.epoch # cache.epoch
  PROVE  HeadStays
BY DEF Transaction, HeadStays

(* Every effect but a publication leaves the head of the epoch.            *)
LEMMA HeadStaysIn ==
  ASSUME IInv, NEW o \in Owners, Execute(o), ~ PublishCommit(o)
  PROVE  HeadStays
<1>1. CASE \/ Look(o) \/ Observe(o) \/ PumpAdmit(o) \/ PublishRead(o)
           \/ \E d \in Documents : PumpRead(o, d)
  <2>1. UNCHANGED cache
    BY <1>1 DEF Look, Observe, PumpAdmit, PublishRead, PumpRead
  <2> QED
    BY <2>1 DEF HeadStays
<1>2. CASE RecoverStage(o)
  <2>1. PICK e, c, r : /\ c = cache /\ e = ControlError
                       /\ r = AfterRecover(Settling(o), IF Usable = {} THEN NoStage
                                                        ELSE StageAt(Max(Usable)))
    OBVIOUS
  <2>2. Transaction(o, e, c, r)
    BY <1>2, <2>1 DEF RecoverStage
  <2> QED
    BY <2>1, <2>2, TransactionHead
<1>3. CASE Initialize(o)
  <2>1. PICK e, c, r : /\ e = IF cache.tables = "broken" THEN "RebuildRequired" ELSE "none"
                       /\ c = IF cache.tables = "none" THEN FreshCache(cache) ELSE cache
                       /\ r = AfterInitialize(Settling(o))
    OBVIOUS
  <2>2. Transaction(o, e, c, r)
    BY <1>3, <2>1 DEF Initialize
  <2>3. c.head = cache.head \/ c.epoch # cache.epoch
    BY <2>1, VaultFacts, CacheTypes, FreshIsSound
  <2> QED
    BY <2>2, <2>3, TransactionHead
<1>4. CASE Begin(o)
  <2>1. PICK e, c, r : /\ e = ControlError /\ c = WithStage(cache)
                       /\ r = AfterBegin(Settling(o), BegunStage)
    OBVIOUS
  <2>2. Transaction(o, e, c, r)
    BY <1>4, <2>1 DEF Begin
  <2> QED
    BY <2>1, <2>2, VaultFacts, StageIsSound, TransactionHead
<1>5. CASE PumpCommit(o)
  <2>1. PICK n, rows : n = owners[o].stage.snapshot.generation /\ rows = owners[o].work.rows
    OBVIOUS
  <2>2. PICK c : c = WithRows(cache, n, rows)
    OBVIOUS
  <2>3. c.head = cache.head
    BY <2>2, VaultFacts DEF WithRows, CacheSound
  <2>4. cache' = cache \/ cache' = c
    BY <1>5, <2>1, <2>2 DEF PumpCommit, Transaction
  <2> QED
    BY <2>3, <2>4 DEF HeadStays
<1>6. CASE Discard(o)
  <2>1. PICK s : s = owners[o].stage.snapshot
    OBVIOUS
  <2>2. PICK c : c = Discarded(s)
    OBVIOUS
  <2>3. c.head = cache.head
    BY <2>2, VaultFacts DEF Discarded, Without, CacheSound
  <2>4. cache' = cache \/ cache' = c
    BY <1>6, <2>1, <2>2 DEF Discard, Transaction
  <2> QED
    BY <2>3, <2>4 DEF HeadStays
<1>7. CASE Rebuild(o)
  <2>1. PICK c, r : c = FreshCache(cache) /\ r = AfterRebuild(Settling(o))
    OBVIOUS
  <2>2. Transaction(o, "none", c, r)
    BY <1>7, <2>1 DEF Rebuild
  <2>3. c.epoch # cache.epoch
    BY <2>1, VaultFacts, CacheTypes, FreshIsSound
  <2> QED
    BY <2>2, <2>3, TransactionHead
<1> QED
  BY <1>1, <1>2, <1>3, <1>4, <1>5, <1>6, <1>7 DEF Execute

(* A publication moves it to a whole generation of the whole journal.      *)
LEMMA PublicationAdvances ==
  ASSUME IInv, NEW o \in Owners, PublishCommit(o)
  PROVE  HeadAdvances
<1>1. PICK w, s : w = owners[o].work /\ s = owners[o].stage.snapshot
  OBVIOUS
<1>2. PICK e, c, r : /\ e = RecheckError(s, w.header) /\ c = WithHead(cache, s.generation)
                     /\ r = AfterPublish(Settling(o))
  OBVIOUS
<1>3. w.phase = "publish" /\ Transaction(o, e, c, r)
  BY <1>1, <1>2 DEF PublishCommit
<1>4. CASE cache' = cache
  BY <1>4 DEF HeadAdvances
<1>5. CASE e = "none" /\ cache' = c
  <2>1. RecheckError(s, w.header) = "none"
    BY <1>2, <1>5
  <2>2. /\ s.generation \in DOMAIN cache.generations
        /\ cache.generations[s.generation].expected = cache.head
        /\ cache.generations[s.generation].source = Source
        /\ DOMAIN cache.generations[s.generation].rows = Documents
    BY <1>1, <1>3, <2>1, PublishFacts
  <2>3. c.head = s.generation /\ c.generations[c.head].source = Source
    BY <1>2, <2>2, VaultFacts, HeadIsSound
  <2>4. cache.head # NoHead => cache.generations[cache.head].source <= Source
    BY VaultFacts, CacheTypes DEF CacheSound, HeadSound, Shown, GenerationSound
  <2>5. cache.head # NoHead => cache.generations[cache.head].source \in Nat
    BY VaultFacts, CacheTypes DEF CacheSound, HeadSound, Shown, GenerationSound
  <2> QED
    BY <1>5, <2>3, <2>4, <2>5, VaultFacts DEF HeadAdvances
<1> QED
  BY <1>3, <1>4, <1>5 DEF Transaction

(* Within one epoch the head only moves to a generation that covers the    *)
(* whole journal of that moment, so a query is never sent back to an older *)
(* state of the vault, whoever publishes and whatever it began from.       *)
THEOREM IndexNeverGoesBack ==
  Spec => NeverGoesBack
<1>1. IInv /\ [Next]_vars => [HeadAdvances]_<<journal, cache>>
  <2> SUFFICES ASSUME IInv, [Next]_vars
               PROVE  [HeadAdvances]_<<journal, cache>>
    OBVIOUS
  <2>1. HeadStays => HeadAdvances
    BY DEF HeadStays, HeadAdvances
  <2>2. ASSUME NEW o \in Owners, Execute(o)
        PROVE  HeadAdvances
    BY <2>1, <2>2, HeadStaysIn, PublicationAdvances
  <2>3. CASE UNCHANGED cache
    BY <2>1, <2>3 DEF HeadStays
  <2>4. CASE Damage
    <3>1. cache'.head = cache.head
      BY <2>4, VaultFacts DEF Damage, CacheSound
    <3> QED
      BY <2>1, <3>1 DEF HeadStays
  <2>5. \/ \E o \in Owners : Execute(o)
        \/ UNCHANGED cache
        \/ Damage
    BY DEF Next, Unavailable, Crash, Wake, SourceHint, Continue, Retire, Request,
           CancelRequest, WatchCycle, Commit, vars
  <2> QED
    BY <2>2, <2>3, <2>4, <2>5
<1> QED
  BY <1>1, IndexInvariant, PTL DEF Spec, NeverGoesBack
====
