-------------------------- MODULE DocumentRuntime --------------------------
(***************************************************************************)
(* The owners that keep the document index current.  An owner is the       *)
(* reducer of crates/zorid-index/src/document_runtime.rs together with the *)
(* adapter that executes its effects against the cache                     *)
(* (crates/zorid-native/src/document_runtime.rs).  The reducer issues one  *)
(* effect at a time and decides the next one when that effect is settled;  *)
(* requests, source hints and wakes arrive at any time in between.         *)
(*                                                                         *)
(* Several owners work on one cache: the desktop host keeps one for as     *)
(* long as it runs and continues it after every yield; the command line's  *)
(* watcher opens a fresh one for every cycle and drops it at the first     *)
(* yield (crates/zorid-cli/src/document_runtime.rs:274-305).               *)
(*                                                                         *)
(* Abstractions: hints are counted only as "since the pending effect was   *)
(* issued"; counters do not run out; no adapter in the repository answers  *)
(* Uncertain, so that result is left out; a request's budget is a constant.*)
(***************************************************************************)
EXTENDS DocumentIndex, SequencesExt

CONSTANTS
  Hosts, Watchers,     \* long-lived owners, owners made for one cycle
  Requests,            \* identities of foreground requests
  Forced,              \* the requests with force_rebuild
  MaxPumps,            \* max_pumps of a request
  MaxRestarts,         \* max_restarts of a request
  MaxCommits,          \* bound: changes of the vault
  MaxOf,               \* bound: disturbances of each kind
  MaxDisturbances,     \* bound: disturbances of all kinds together
  MaxEpochs,           \* bound: epochs of the cache
  MaxGenerations       \* bound: generations allocated in an epoch

VARIABLES
  owners,   \* the state of every owner
  asked,    \* request -> the watermark when it was accepted, 0 before
  answers,  \* request -> its outcome
  faults    \* disturbance -> how often it happened

Owners == Hosts \cup Watchers
Disturbances == {"damage", "failure", "crash", "retirement", "cycle"}
ASSUME DisturbancesAssumption == MaxOf \in [Disturbances -> Nat]
ASSUME BoundsAssumption ==
  /\ MaxPumps \in Nat /\ MaxRestarts \in Nat /\ MaxCommits \in Nat
  /\ MaxEpochs \in Nat /\ MaxGenerations \in Nat

vars == <<journal, cache, owners, asked, answers, faults>>

NoObservation == [source |-> 0, head |-> NoSnapshot, current |-> FALSE, rebuild |-> FALSE]
NoStage == [snapshot |-> NoSnapshot, source |-> 0, ready |-> FALSE]
NoCycle == [open |-> FALSE, foreground |-> FALSE, pumps |-> 0, restarts |-> 0,
            maxPumps |-> 0, maxRestarts |-> 0, finish |-> FALSE]
NoEffect == [kind |-> "none", hinted |-> FALSE]
NoWork == [phase |-> "none"]
NoAnswer == [outcome |-> "none", observation |-> NoObservation]

\* DocumentRuntime::new, with the adapter at rest.  told: the outcomes that the
\* reduction in progress hands to the waiting requests.
FreshOwner ==
  [observation |-> NoObservation, stage |-> NoStage, pending |-> NoEffect,
   requests |-> <<>>, cycle |-> NoCycle, needsObserve |-> TRUE, recovered |-> FALSE,
   initialized |-> FALSE, latched |-> FALSE, explicit |-> FALSE, discard |-> FALSE,
   yielded |-> FALSE, blocked |-> FALSE, retired |-> FALSE, work |-> NoWork,
   told |-> {}]

Waiting(r) == {r.requests[i] : i \in DOMAIN r.requests}

\* Every waiting request gets the outcome and leaves the queue.
Told(r, outcome) ==
  [r EXCEPT !.requests = <<>>,
            !.told = @ \cup {[request |-> q, outcome |-> outcome,
                              observation |-> r.observation] : q \in Waiting(r)}]

----------------------------------------------------------------------------
\* The reducer: what an owner does next.

StartedCycle(r) ==
  IF r.cycle.open THEN r
  ELSE LET foreground == r.requests # <<>>
       IN  [r EXCEPT !.cycle = [NoCycle EXCEPT !.open = TRUE, !.foreground = foreground,
                                  !.maxPumps = IF foreground THEN MaxPumps ELSE 1,
                                  !.maxRestarts = IF foreground THEN MaxRestarts ELSE 1]]

FinishedCycle(r) ==
  LET told == IF r.cycle.foreground THEN Told(r, "Finished") ELSE r
  IN  [told EXCEPT !.cycle = NoCycle,
                   !.yielded = told.requests # <<>> \/ ~r.observation.current]

FailedCycle(r) == [Told(r, "Failed") EXCEPT !.cycle = NoCycle, !.blocked = TRUE]

Issued(r, kind) == [r EXCEPT !.pending = [kind |-> kind, hinted |-> FALSE]]

\* The choice between the effects that go on with a cycle, from an observation
\* that is still good.
Advanced(r) ==
  CASE r.observation.current /\ r.stage # NoStage -> Issued(r, "Discard")
    [] r.observation.current /\ r.stage = NoStage -> FinishedCycle(r)
    [] r.observation.rebuild /\ r.latched -> FailedCycle(r)
    [] r.observation.rebuild /\ ~r.latched -> Issued([r EXCEPT !.latched = TRUE], "Rebuild")
    [] OTHER ->
         IF r.cycle.finish THEN FinishedCycle(r)
         ELSE IF r.observation.head = NoSnapshot /\ r.stage = NoStage /\ ~r.initialized
           THEN Issued(r, "Initialize")
         ELSE IF ~r.recovered THEN Issued(r, "RecoverStage")
         ELSE IF r.stage = NoStage THEN Issued(r, "Begin")
         ELSE IF r.stage.source # r.observation.source
           THEN IF r.cycle.restarts >= r.cycle.maxRestarts THEN FailedCycle(r)
                ELSE Issued([r EXCEPT !.cycle.restarts = @ + 1, !.discard = TRUE], "Discard")
         ELSE IF r.stage.ready THEN Issued(r, "Publish")
         ELSE IF r.cycle.pumps >= r.cycle.maxPumps
           THEN Issued([r EXCEPT !.cycle.finish = TRUE, !.needsObserve = TRUE], "Observe")
         ELSE Issued(r, "Pump")

Chosen(r) ==
  IF r.explicit THEN Issued([r EXCEPT !.explicit = FALSE, !.latched = TRUE], "Rebuild")
  ELSE IF r.discard /\ r.stage # NoStage THEN Issued(r, "Discard")
  ELSE LET s == [r EXCEPT !.discard = FALSE]
       IN  IF s.needsObserve \/ s.observation = NoObservation THEN Issued(s, "Observe")
                                                            ELSE Advanced(s)

MayPlan(r) == ~r.retired /\ r.pending = NoEffect /\ ~r.blocked /\ ~r.yielded
Planned(r) == IF MayPlan(r) THEN Chosen(StartedCycle(r)) ELSE r

\* Demand that arrives while an effect is pending outdates what it will report.
Hinted(r) ==
  [r EXCEPT !.needsObserve = TRUE,
            !.pending.hinted = r.pending # NoEffect]

----------------------------------------------------------------------------
\* The reducer: what the result of the pending effect changes.  r is the owner
\* without the effect, p the effect.

\* Mistake: a hint that came while the index was observed is forgotten.
ObservedForgetting(r, p, o) ==
  LET published == o.head # NoSnapshot /\ r.stage.snapshot = o.head
  IN  [r EXCEPT !.stage = IF published THEN NoStage ELSE @,
                !.cycle.finish = @ \/ (published /\ r.cycle.open),
                !.latched = @ /\ ~o.current,
                !.needsObserve = FALSE,
                !.observation = o]

AfterObserve(r, p, o) ==
  LET published == o.head # NoSnapshot /\ r.stage.snapshot = o.head
  IN  [r EXCEPT !.stage = IF published THEN NoStage ELSE @,
                !.cycle.finish = @ \/ (published /\ r.cycle.open),
                !.latched = @ /\ ~o.current,
                !.needsObserve = p.hinted,
                !.observation = o]

AfterRecover(r, stage) ==
  [r EXCEPT !.stage = stage, !.recovered = TRUE,
            !.needsObserve = @ \/ (stage # NoStage /\ stage.source # r.observation.source)]

AfterBegin(r, stage) ==
  [r EXCEPT !.stage = stage,
            !.needsObserve = @ \/ stage.source # r.observation.source]

AfterPump(r, stage) ==
  LET spent == r.cycle.open /\ r.cycle.pumps + 1 >= r.cycle.maxPumps /\ ~stage.ready
  IN  [AfterBegin(r, stage) EXCEPT !.cycle.pumps = IF r.cycle.open THEN @ + 1 ELSE @,
                                   !.cycle.finish = @ \/ spent,
                                   !.needsObserve = @ \/ spent,
                                   !.yielded = TRUE]

AfterPublish(r) ==
  [r EXCEPT !.stage = NoStage, !.needsObserve = TRUE, !.cycle.finish = r.cycle.open]

AfterInitialize(r) == [r EXCEPT !.initialized = TRUE]

AfterRebuild(r) ==
  [r EXCEPT !.stage = NoStage, !.initialized = TRUE, !.recovered = FALSE,
            !.needsObserve = TRUE]

AfterDiscard(r) ==
  LET lagging == r.observation # NoObservation /\ ~r.observation.current
  IN  [r EXCEPT !.stage = NoStage, !.discard = FALSE,
                !.needsObserve = @ \/ lagging, !.yielded = @ \/ lagging]

Stale == {"StaleSource", "StaleIndex", "SnapshotExpired"}

AfterFailure(r, p, error) ==
  IF r.retired THEN r
  ELSE IF error = "RebuildRequired" /\ ~r.latched /\ p.kind # "Rebuild"
    THEN [r EXCEPT !.explicit = TRUE]
  ELSE IF /\ error \in Stale
          /\ p.kind # "Discard"
          /\ r.cycle.open
          /\ r.cycle.restarts < r.cycle.maxRestarts
    THEN [r EXCEPT !.cycle.restarts = @ + 1, !.discard = r.stage # NoStage,
                   !.recovered = FALSE, !.needsObserve = TRUE, !.yielded = TRUE]
  ELSE FailedCycle(r)

----------------------------------------------------------------------------
\* One reduction: the new state of owner o, and the outcomes it hands out.
\* (The bound names stand for one value each, so that TLC computes it once.)

Reduced(o, changed) ==
  \E r \in {changed} : \E next \in {Planned(r)} :
    /\ owners' = [owners EXCEPT ![o] = [next EXCEPT !.told = {}]]
    /\ answers' = [q \in Requests |->
         IF \E t \in next.told : t.request = q
           THEN LET t == CHOOSE t \in next.told : t.request = q
                IN  [outcome |-> t.outcome, observation |-> t.observation]
           ELSE answers[q]]

Executes(o, kind) == /\ owners[o].pending.kind = kind
                     /\ owners[o].work = NoWork

\* Input::Complete: the owner without the effect it had pending.
Settling(o) == [owners[o] EXCEPT !.pending = NoEffect, !.work = NoWork]

Fails(o, error) == Reduced(o, AfterFailure(Settling(o), owners[o].pending, error))

\* An effect that is one transaction: it fails with the error, or changes the
\* cache to c and settles the owner as r.
Transaction(o, error, c, r) ==
  \/ error # "none" /\ Fails(o, error) /\ UNCHANGED cache
  \/ error = "none" /\ cache' = c /\ Reduced(o, r)

Init ==
  /\ journal = <<>>
  /\ cache = NoCache
  /\ owners = [o \in Owners |-> FreshOwner]
  /\ asked = [q \in Requests |-> 0]
  /\ answers = [q \in Requests |-> NoAnswer]
  /\ faults = [k \in Disturbances |-> 0]

----------------------------------------------------------------------------
\* Effects, executed by the adapter in one or more transactions.

\* What was observed reaches the reducer later (the browser's adapter awaits
\* it); requests and hints may come in between.
Look(o) ==
  /\ Executes(o, "Observe")
  /\ owners' = [owners EXCEPT ![o].work = [phase |-> "observe", seen |-> Observation]]
  /\ UNCHANGED <<journal, cache, asked, answers, faults>>

Observe(o) ==
  /\ owners[o].work.phase = "observe"
  /\ Reduced(o, AfterObserve(Settling(o), owners[o].pending, owners[o].work.seen))
  /\ UNCHANGED <<journal, cache, asked, faults>>

StageAt(n) == [snapshot |-> SnapshotOf(n), source |-> cache.generations[n].source,
               ready |-> Missing(cache.generations[n]) = {}]

RecoverStage(o) ==
  /\ Executes(o, "RecoverStage")
  /\ Transaction(o, ControlError, cache,
       AfterRecover(Settling(o), IF Usable = {} THEN NoStage ELSE StageAt(Max(Usable))))
  /\ UNCHANGED <<journal, asked, faults>>

Initialize(o) ==
  /\ Executes(o, "Initialize")
  /\ cache.epoch < MaxEpochs
  /\ Transaction(o, IF cache.tables = "broken" THEN "RebuildRequired" ELSE "none",
                 IF cache.tables = "none" THEN FreshCache(cache) ELSE cache,
                 AfterInitialize(Settling(o)))
  /\ UNCHANGED <<journal, asked, faults>>

BegunStage == [snapshot |-> SnapshotOf(cache.allocated + 1), source |-> Source,
               ready |-> FALSE]

Begin(o) ==
  /\ Executes(o, "Begin")
  /\ cache.allocated < MaxGenerations
  /\ Transaction(o, ControlError, WithStage(cache), AfterBegin(Settling(o), BegunStage))
  /\ UNCHANGED <<journal, asked, faults>>

\* pump_document_index: a read transaction admits the stage and captures its
\* header and what is missing; one read transaction per document; one write
\* transaction that checks everything again.
PumpAdmit(o) ==
  LET snapshot == owners[o].stage.snapshot
  IN  /\ Executes(o, "Pump")
      /\ \/ /\ StageError(snapshot) # "none"
            /\ Fails(o, StageError(snapshot))
         \/ /\ StageError(snapshot) = "none"
            /\ owners' = [owners EXCEPT ![o].work =
                 [phase |-> "pump", header |-> Descriptor(Generation(snapshot)),
                  previous |-> Previous(Generation(snapshot)),
                  pending |-> Missing(Generation(snapshot)), rows |-> Empty]]
            /\ UNCHANGED answers
      /\ UNCHANGED <<journal, cache, asked, faults>>

PumpRead(o, d) ==
  LET w == owners[o].work
      error == ReadError(w.previous, w.header, d)
  IN  /\ w.phase = "pump"
      /\ d \in w.pending \ DOMAIN w.rows
      /\ Cardinality(DOMAIN w.rows) < PumpSlice
      /\ \/ error # "none" /\ Fails(o, error)
         \/ /\ error = "none"
            /\ owners' = [owners EXCEPT ![o].work.rows =
                 [e \in DOMAIN w.rows \cup {d} |->
                    IF e = d THEN RowFor(w.previous, w.header, d) ELSE w.rows[e]]]
            /\ UNCHANGED answers
      /\ UNCHANGED <<journal, cache, asked, faults>>

\* Rows another owner wrote to the same stage meanwhile make this pump stale.
PumpCommit(o) ==
  LET w == owners[o].work
      stage == owners[o].stage
      n == stage.snapshot.generation
      checked == RecheckError(stage.snapshot, w.header)
      error == IF /\ checked = "none"
                  /\ DOMAIN w.rows \cap DOMAIN cache.generations[n].rows # {}
                 THEN "StaleIndex" ELSE checked
  IN  /\ w.phase = "pump"
      /\ w.pending \subseteq DOMAIN w.rows \/ Cardinality(DOMAIN w.rows) = PumpSlice
      /\ Transaction(o, error, WithRows(cache, n, w.rows),
           AfterPump(Settling(o), [stage EXCEPT !.ready = w.pending \subseteq DOMAIN w.rows]))
      /\ UNCHANGED <<journal, asked, faults>>

\* publish_document_index: the whole stage is read and checked, then published.
PublishRead(o) ==
  LET snapshot == owners[o].stage.snapshot
      error == IF HeaderError(snapshot) # "none" THEN HeaderError(snapshot)
               ELSE IF Generation(snapshot).published THEN "StaleIndex"
               ELSE IF Missing(Generation(snapshot)) # {} THEN "NotReady" ELSE "none"
  IN  /\ Executes(o, "Publish")
      /\ \/ error # "none" /\ Fails(o, error)
         \/ /\ error = "none"
            /\ owners' = [owners EXCEPT ![o].work =
                 [phase |-> "publish", header |-> Descriptor(Generation(snapshot))]]
            /\ UNCHANGED answers
      /\ UNCHANGED <<journal, cache, asked, faults>>

\* Mistake: the stage checked before the transaction is published as it is.
PublishUnchecked(o) ==
  /\ owners[o].work.phase = "publish"
  /\ Transaction(o, HeaderError(owners[o].stage.snapshot),
                 WithHead(cache, owners[o].stage.snapshot.generation),
                 AfterPublish(Settling(o)))
  /\ UNCHANGED <<journal, asked, faults>>

PublishCommit(o) ==
  LET w == owners[o].work
      snapshot == owners[o].stage.snapshot
  IN  /\ w.phase = "publish"
      /\ Transaction(o, RecheckError(snapshot, w.header),
                     WithHead(cache, snapshot.generation), AfterPublish(Settling(o)))
      /\ UNCHANGED <<journal, asked, faults>>

Discard(o) ==
  LET snapshot == owners[o].stage.snapshot
  IN  /\ Executes(o, "Discard")
      /\ Transaction(o, DiscardError(snapshot), Discarded(snapshot),
                     AfterDiscard(Settling(o)))
      /\ UNCHANGED <<journal, asked, faults>>

Rebuild(o) ==
  /\ Executes(o, "Rebuild")
  /\ cache.epoch < MaxEpochs
  /\ Transaction(o, "none", FreshCache(cache), AfterRebuild(Settling(o)))
  /\ UNCHANGED <<journal, asked, faults>>

Execute(o) ==
  \/ Look(o) \/ Observe(o) \/ RecoverStage(o) \/ Initialize(o) \/ Begin(o)
  \/ PumpAdmit(o) \/ (\E d \in Documents : PumpRead(o, d)) \/ PumpCommit(o)
  \/ PublishRead(o) \/ PublishCommit(o) \/ Discard(o) \/ Rebuild(o)

\* What the environment does to the owners, each kind a bounded number of times.
Disturbs(kind) ==
  /\ faults[kind] < MaxOf[kind]
  /\ FoldFunction(+, 0, faults) < MaxDisturbances
  /\ faults' = [faults EXCEPT ![kind] = @ + 1]

\* A lock that times out or a busy file: the effect in progress fails.
Unavailable(o) ==
  /\ owners[o].pending # NoEffect
  /\ Disturbs("failure")
  /\ Fails(o, "Unavailable")
  /\ UNCHANGED <<journal, cache, asked>>

----------------------------------------------------------------------------
\* Inputs of the reducer.

\* Mistake: a wake does not lift the block of a failed cycle.
WakeBlocked(o) ==
  /\ o \in Hosts
  /\ owners[o].pending = NoEffect
  /\ Reduced(o, Hinted([(IF owners[o].retired THEN FreshOwner ELSE owners[o])
                          EXCEPT !.yielded = FALSE]))
  /\ UNCHANGED <<journal, cache, asked, faults>>

\* The 30-second repair wake of a host; a retired owner that has come to rest
\* is first replaced by a fresh one.
Wake(o) ==
  /\ o \in Hosts
  /\ owners[o].pending = NoEffect
  /\ Reduced(o, Hinted([(IF owners[o].retired THEN FreshOwner ELSE owners[o])
                          EXCEPT !.yielded = FALSE, !.blocked = FALSE]))
  /\ UNCHANGED <<journal, cache, asked, faults>>

\* Each cycle of the watcher opens the vault anew and wakes a fresh owner.
WatchCycle(o) ==
  /\ o \in Watchers
  /\ owners[o].pending = NoEffect
  /\ Disturbs("cycle")
  /\ Reduced(o, Hinted(FreshOwner))
  /\ UNCHANGED <<journal, cache, asked>>

\* The host is told of a change it has not observed yet; hints may be lost.
SourceHint(o) ==
  /\ o \in Hosts
  /\ ~owners[o].retired
  /\ owners[o].observation.source < Source
  /\ Reduced(o, Hinted(owners[o]))
  /\ UNCHANGED <<journal, cache, asked, faults>>

Continue(o) ==
  /\ o \in Hosts
  /\ owners[o].yielded
  /\ ~owners[o].retired
  /\ Reduced(o, [owners[o] EXCEPT !.yielded = FALSE])
  /\ UNCHANGED <<journal, cache, asked, faults>>

Request(o, q) ==
  /\ o \in Hosts
  /\ ~owners[o].retired
  /\ asked[q] = 0
  /\ asked' = [asked EXCEPT ![q] = Source]
  /\ Reduced(o, Hinted([owners[o] EXCEPT
       !.requests = Append(@, q),
       !.explicit = @ \/ (q \in Forced /\ owners[o].pending.kind # "Rebuild"),
       !.blocked = FALSE]))
  /\ UNCHANGED <<journal, cache, faults>>

CancelRequest(o, q) ==
  LET r == owners[o]
  IN  /\ \E at \in DOMAIN r.requests :
           /\ r.requests[at] = q
           /\ Reduced(o, [r EXCEPT !.requests = RemoveAt(@, at),
                                   !.told = {[request |-> q, outcome |-> "Cancelled",
                                              observation |-> NoObservation]}])
      /\ UNCHANGED <<journal, cache, asked, faults>>

\* The last client of a host leaves: nothing is issued any more.
Retire(o) ==
  /\ o \in Hosts
  /\ ~owners[o].retired
  /\ Disturbs("retirement")
  /\ Reduced(o, [Told(owners[o], "Retired") EXCEPT !.retired = TRUE])
  /\ UNCHANGED <<journal, cache, asked>>

\* A process dies; what it had staged stays in the cache, and the clients that
\* waited for an answer lose their connection.
Crash(o) ==
  /\ Disturbs("crash")
  /\ owners' = [owners EXCEPT ![o] = FreshOwner]
  /\ answers' = [q \in Requests |->
       IF q \in Waiting(owners[o]) THEN [NoAnswer EXCEPT !.outcome = "Lost"] ELSE answers[q]]
  /\ UNCHANGED <<journal, cache, asked>>

\* The vault commits a change of one document.
Commit(d) ==
  /\ Len(journal) < MaxCommits
  /\ journal' = Append(journal, d)
  /\ UNCHANGED <<cache, owners, asked, answers, faults>>

\* The cache file loses a table or its control row.
Damage ==
  /\ cache.tables = "sound"
  /\ Disturbs("damage")
  /\ cache' = [cache EXCEPT !.tables = "broken"]
  /\ UNCHANGED <<journal, owners, asked, answers>>

Next ==
  \/ \E o \in Owners : Execute(o) \/ Unavailable(o) \/ Crash(o)
  \/ \E o \in Hosts : Wake(o) \/ SourceHint(o) \/ Continue(o) \/ Retire(o)
  \/ \E o \in Hosts, q \in Requests : Request(o, q) \/ CancelRequest(o, q)
  \/ \E o \in Watchers : WatchCycle(o)
  \/ \E d \in Documents : Commit(d)
  \/ Damage

\* A host executes what it issued and, when it is at rest, is continued or woken
\* by its timer; nothing is assumed of the watcher, of clients or of hints.
Runs(o) == Execute(o) \/ Wake(o)
Fairness == \A o \in Hosts : WF_vars(Runs(o))

Spec == Init /\ [][Next]_vars /\ Fairness

----------------------------------------------------------------------------
\* Properties.

TypeOK ==
  /\ journal \in Seq(Documents)
  /\ cache.tables \in {"none", "broken", "sound"}
  /\ cache.epoch \in 0..MaxEpochs
  /\ cache.allocated \in 0..MaxGenerations
  /\ DOMAIN cache.generations \subseteq 1..cache.allocated
  /\ \A o \in Owners : /\ owners[o].pending # NoEffect => owners[o].cycle.open
                       /\ owners[o].work # NoWork => owners[o].pending.kind \in
                            {"Observe", "Pump", "Publish"}
                       /\ owners[o].told = {}
  /\ asked \in [Requests -> 0..MaxCommits + 1]

\* A request that is told it has finished is told of a look at the vault that
\* was taken after the request was made; if the answer says the index is
\* current, the index then covered everything the caller had written
\* (document_runtime.rs:320-332, 475-500, 643-659).
AnswersAreFresh ==
  \A q \in Requests : answers[q].outcome = "Finished" =>
    answers[q].observation.source >= asked[q]

IndexIsCurrent == /\ cache.tables = "sound"
                  /\ cache.head # NoHead
                  /\ cache.generations[cache.head].source = Source

\* Once the vault stops changing, the index catches up and stays current, and
\* every request is answered (document_runtime.rs:628-767).
CatchesUp ==
  /\ <>[]IndexIsCurrent
  /\ \A q \in Requests : asked[q] # 0 ~> answers[q].outcome # "none"

\* The whole cache, with all published generations, is thrown away only when
\* it was damaged or a caller asked for it
\* (crates/zorid-native/src/document_runtime.rs:386: "Only explicit
\* disposable-cache corruption requests rebuild").
RebuildsAreForDamage ==
  [][cache'.epoch > cache.epoch =>
       \/ cache.tables # "sound"
       \/ \E q \in Forced : asked[q] # 0]_vars
=============================================================================
