------------------------------ MODULE DraftJobs ------------------------------
(***************************************************************************)
(* The reducer of draft analysis (crates/zorid-index/src/draft_runtime.rs):*)
(* which drafts are analysed, in which order, and what each may hold.  A   *)
(* job is one text of one buffer.  A newer text of the buffer supersedes   *)
(* it, also when it has ended.  What a job holds stays charged until the   *)
(* host has really dropped it.                                             *)
(*                                                                         *)
(* The operators take and return the state c of a reducer, so that a host  *)
(* may change it together with what it holds.                              *)
(*                                                                         *)
(* Abstractions: the text of a buffer is its revision; a size is a small   *)
(* number; counters do not run out.                                        *)
(***************************************************************************)
EXTENDS Naturals, Sequences, FiniteSets, FiniteSetsExt

CONSTANTS
  Phases,       \* the phases of the parser, the last one yields the facts
  MaxRequests,  \* MAX_DRAFT_REQUESTS: retained jobs
  MaxBuffers,   \* MAX_DRAFT_BUFFERS
  MaxSource,    \* MAX_DRAFT_INPUT_BYTES: sources of all jobs together
  MaxScratch,   \* MAX_DRAFT_SCRATCH_BYTES
  MaxFacts      \* MAX_DRAFT_FACTS_BYTES

ASSUME LimitsAssumption ==
  /\ Phases \in Nat \ {0}
  /\ {MaxRequests, MaxBuffers, MaxSource, MaxScratch, MaxFacts} \subseteq Nat

NoFlight == [kind |-> "none", job |-> 0, phase |-> 0, scratch |-> 0, facts |-> 0]
Empty == [id \in {} |-> id]
NewCore == [jobs |-> Empty, buffers |-> Empty, queue |-> <<>>, flight |-> NoFlight,
            retired |-> FALSE, last |-> 0]

\* The size of a text; empty texts need no analysis.
SourceSize == 1

Jobs(c) == DOMAIN c.jobs

\* The units that all x together hold, when each holds f[x] of them.
Total(f) == Cardinality(UNION {{x} \X (1 .. f[x]) : x \in DOMAIN f})

SourceUsed(c) == Total([id \in Jobs(c) |-> c.jobs[id].source])
ScratchUsed(c) == Total([id \in Jobs(c) |-> c.jobs[id].scratch])
FactsUsed(c) == Total([id \in Jobs(c) |-> c.jobs[id].facts])

Without(f, S) == [x \in DOMAIN f \ S |-> f[x]]
With(f, x, v) == [y \in DOMAIN f \cup {x} |-> IF y = x THEN v ELSE f[y]]

----------------------------------------------------------------------------
\* Ending and forgetting jobs.

\* The queue without some jobs, in its order.
Dequeued(queue, ids) ==
  LET left == {i \in DOMAIN queue : queue[i] \notin ids}
  IN  [n \in 1 .. Cardinality(left) |->
         queue[CHOOSE i \in left : Cardinality({k \in left : k <= i}) = n]]

Ended(j, reason) == [j EXCEPT !.outcome = reason, !.drop = TRUE]

\* Mistake: a result that is there already survives a newer text.
StoppedUnfinished(c, ids, reason) ==
  [c EXCEPT !.jobs = [id \in DOMAIN @ |->
              IF id \in ids /\ @[id].outcome = "none" THEN Ended(@[id], reason) ELSE @[id]],
            !.queue = Dequeued(@, ids)]

\* Mistake: a job that has ended keeps its turn.
StoppedInQueue(c, ids, reason) ==
  [c EXCEPT !.jobs = [id \in DOMAIN @ |->
              IF id \in ids /\ @[id].outcome \in {"none", "ready"}
                THEN Ended(@[id], reason) ELSE @[id]]]

\* Jobs end that have not ended otherwise, also those whose facts are ready.
Stopped(c, ids, reason) ==
  [c EXCEPT !.jobs = [id \in DOMAIN @ |->
              IF id \in ids /\ @[id].outcome \in {"none", "ready"}
                THEN Ended(@[id], reason) ELSE @[id]],
            !.queue = Dequeued(@, ids)]

Pruned(c) ==
  [c EXCEPT !.buffers = Without(@, {k \in DOMAIN @ :
     @[k].releasing /\ \A id \in Jobs(c) : c.jobs[id].key # k})]

\* Mistake: a job is forgotten while the host still holds something for it.
MayGoHeld(c, id) == id \in Jobs(c) /\ c.jobs[id].acked /\ c.flight.job # id

\* A job is forgotten when its owner knows the outcome and nothing is held.
MayGo(c, id) ==
  /\ id \in Jobs(c)
  /\ LET j == c.jobs[id]
     IN  j.acked /\ ~j.drop /\ j.source + j.scratch + j.facts = 0
  /\ c.flight.job # id

RemovedReleased(c, ids) ==
  LET gone == {id \in ids : MayGo(c, id)}
  IN  Pruned([c EXCEPT
        !.jobs = Without(@, gone),
        !.buffers = [k \in DOMAIN @ |-> IF @[k].current \in gone
                                          THEN [@[k] EXCEPT !.current = 0] ELSE @[k]]])

\* Input::ReleaseBuffer, ReleaseClient and Retire differ in the buffers only.
ReleasedBuffers(c, keys) ==
  LET mine == {id \in Jobs(c) : c.jobs[id].key \in keys}
      stopped == Stopped(c, mine, "retired")
  IN  RemovedReleased(
        [stopped EXCEPT
           !.jobs = [id \in DOMAIN @ |->
                       IF id \in mine THEN [@[id] EXCEPT !.acked = TRUE] ELSE @[id]],
           !.buffers = [k \in DOMAIN @ |->
                          IF k \in keys THEN [@[k] EXCEPT !.releasing = TRUE] ELSE @[k]]],
        mine)

Retired(c) == ReleasedBuffers([c EXCEPT !.retired = TRUE], DOMAIN c.buffers)

----------------------------------------------------------------------------
\* Commands of a client.

Newer(c, key, revision) ==
  key \notin DOMAIN c.buffers \/ revision > c.buffers[key].revision

\* A repeated revision is answered with the job it has.
Repeats(c, key, revision) ==
  /\ key \in DOMAIN c.buffers
  /\ revision = c.buffers[key].revision
  /\ c.buffers[key].current # 0

RequestRefused(c, key, revision) ==
  \/ c.retired
  \/ key \in DOMAIN c.buffers /\ c.buffers[key].releasing
  \/ ~Newer(c, key, revision) /\ ~Repeats(c, key, revision)
  \/ Newer(c, key, revision) /\
       \/ key \notin DOMAIN c.buffers /\ Cardinality(DOMAIN c.buffers) >= MaxBuffers
       \/ Cardinality(Jobs(c)) >= MaxRequests
       \/ SourceSize > MaxSource - SourceUsed(c)

NewJob(key, revision) ==
  [key |-> key, revision |-> revision, sealed |-> FALSE, phase |-> 1,
   outcome |-> "none", drop |-> FALSE, acked |-> FALSE,
   source |-> SourceSize, scratch |-> 0, facts |-> 0]

Requested(c, key, revision) ==
  IF Repeats(c, key, revision) THEN c
  ELSE LET current == IF key \in DOMAIN c.buffers THEN c.buffers[key].current ELSE 0
           before == IF current = 0 THEN c ELSE Stopped(c, {current}, "superseded")
           id == c.last + 1
       IN  [before EXCEPT
              !.jobs = With(@, id, NewJob(key, revision)),
              !.buffers = With(@, key, [revision |-> revision, current |-> id,
                                        releasing |-> FALSE]),
              !.last = id]

Sealed(c, id) ==
  IF c.jobs[id].sealed THEN c
  ELSE [c EXCEPT !.jobs[id].sealed = TRUE, !.queue = Append(@, id)]

Acknowledged(c, id) ==
  RemovedReleased([c EXCEPT !.jobs[id].acked = TRUE,
                            !.jobs[id].drop = @ \/ c.jobs[id].outcome = "ready"], {id})

\* job_is_current
IsCurrent(c, id) ==
  /\ id \in Jobs(c)
  /\ ~c.retired
  /\ LET j == c.jobs[id]
     IN  /\ j.outcome = "none"
         /\ j.key \in DOMAIN c.buffers
         /\ c.buffers[j.key] = [revision |-> j.revision, current |-> id, releasing |-> FALSE]

\* phase_is_current
PhaseIsCurrent(c, id) == c.jobs[id].outcome = "none" /\ ~c.retired

----------------------------------------------------------------------------
\* What is done next: drops first, then the phases of the queued jobs in turn.

Issued(c, id, kind) ==
  LET j == c.jobs[id]
      phase == kind = "parse"
  IN  [c EXCEPT !.flight = [kind |-> kind, job |-> id,
         phase |-> IF phase THEN j.phase ELSE 0,
         scratch |-> IF phase THEN MaxScratch - (ScratchUsed(c) - j.scratch) ELSE 0,
         facts |-> IF phase THEN MaxFacts - (FactsUsed(c) - j.facts) ELSE 0]]

\* Facts nobody has acknowledged fill the space: no phase is tried.
FactsAreFull(c) ==
  /\ FactsUsed(c) = MaxFacts
  /\ \E id \in Jobs(c) : c.jobs[id].outcome = "ready" /\ c.jobs[id].facts > 0

Planned(c) ==
  LET drops == {id \in Jobs(c) : c.jobs[id].drop}
  IN  IF c.flight # NoFlight THEN c
      ELSE IF drops # {} THEN Issued(c, Min(drops), "drop")
      ELSE IF c.retired \/ FactsAreFull(c) \/ c.queue = <<>> THEN c
      ELSE Issued([c EXCEPT !.queue = Tail(@)], Head(c.queue), "parse")

\* Execution::Quiesced
IsQuiesced(c) == c.flight = NoFlight /\ c.retired /\ Jobs(c) = {}

----------------------------------------------------------------------------
\* Completions of the effect in flight.

Settled(c) == RemovedReleased([c EXCEPT !.flight = NoFlight], {c.flight.job})

Unused(c, id) == [c EXCEPT !.jobs[id].source = 0, !.jobs[id].scratch = 0,
                           !.jobs[id].facts = 0]

Dropped(c) ==
  Settled([Unused(c, c.flight.job) EXCEPT !.jobs[c.flight.job].drop = FALSE])

\* A phase ran and left the job with this much.  The last phase gives up the
\* source and the scratch.
AfterPhase(j, phase, scratch, facts) ==
  [j EXCEPT !.source = IF phase = Phases THEN 0 ELSE @,
            !.scratch = scratch, !.facts = facts, !.phase = @ + 1,
            !.outcome = IF @ = "none" /\ phase = Phases THEN "ready" ELSE @]

Parsed(c, scratch, facts) ==
  LET id == c.flight.job
      phase == c.flight.phase
  IN  Settled([c EXCEPT
        !.jobs[id] = AfterPhase(@, phase, scratch, facts),
        !.queue = IF c.jobs[id].outcome = "none" /\ phase # Phases
                    THEN Append(@, id) ELSE @])

\* The parser needed more than there was and has let go of everything.
OutOfSpace(c) ==
  LET id == c.flight.job
  IN  Settled([Unused(c, id) EXCEPT
        !.jobs[id].outcome = IF @ = "none" THEN "unavailable" ELSE @,
        !.jobs[id].drop = TRUE])

\* A phase of a job that has ended meanwhile is not run.
Skipped(c) == Settled(Unused(c, c.flight.job))

----------------------------------------------------------------------------
\* What a client is told: the outcomes of its jobs that it has not acknowledged.
Outcomes(c, mine) ==
  [id \in {i \in Jobs(c) : c.jobs[i].key \in mine /\ ~c.jobs[i].acked
                             /\ c.jobs[i].outcome # "none"} |-> c.jobs[id].outcome]
=============================================================================
