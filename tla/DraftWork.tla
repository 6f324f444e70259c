----------------------------- MODULE DraftWork -----------------------------
(***************************************************************************)
(* Analysis of drafts.  A window shows facts about the text its user is    *)
(* typing (src/src/ui/document-draft-projection.ts).  It asks the vault's  *)
(* host for them, uploads the text, waits, reads the facts and lets go.    *)
(* The host owns what has been uploaded and parsed                         *)
(* (crates/zorid-index/src/document_draft_executor.rs) and runs one effect *)
(* at a time, of the drafts or of the document index, in turns             *)
(* (document_work_runtime.rs).                                             *)
(*                                                                         *)
(* A call of a window is sent, executed by the host at once, and answered  *)
(* later; other things happen in between, on both sides.  Each calls at    *)
(* most once for the same purpose, so a call is named by op and target.    *)
(*                                                                         *)
(* Abstractions: hints are heard at once, and cancels and observations are *)
(* answered as they are executed; an upload and a reading are one chunk;   *)
(* encoding fails like a call; selecting an effect and executing it are    *)
(* one turn; the index always has an effect to execute or never has one    *)
(* (DocumentRuntime has the rest); a window whose host was replaced under  *)
(* it, and the memory it accounts for, are left out.                       *)
(***************************************************************************)
EXTENDS DraftJobs

CONSTANTS
  Windows,     \* each with one note
  ScratchOf,   \* what each phase of the parser needs
  FactsOf,
  Vault,
  MaxEventsOf, \* bound: changes of a text or of a demand, failing calls and ends of
               \* a window, and ends of the vault
  MaxEvents    \* bound: all of them together

ASSUME EventsAssumption ==
  Vault \notin Windows /\ MaxEventsOf \in [Windows \cup {Vault} -> Nat]
ASSUME NeedsAssumption == {ScratchOf, FactsOf} \subseteq [1 .. Phases -> Nat]

VARIABLES
  core,     \* the reducer
  work,     \* the turns: closing, last served lane, wanted
  handles,  \* job -> what the host holds for it
  index,    \* "idle", "issued" or "quiesced"
  win,      \* the windows
  events    \* of each window and of the vault, so far

vars == <<core, work, handles, index, win, events>>

----------------------------------------------------------------------------
\* A window.  p is the state of one.

NoRun == [pc |-> "none", stale |-> FALSE, woken |-> FALSE, revision |-> 0,
          lease |-> 0, job |-> 0]
NoView == [text |-> 0, revision |-> 0]
NewWindow ==
  [revision |-> 1, demanded |-> FALSE, closed |-> FALSE,
   gone |-> FALSE, closing |-> "no", status |-> "unsupported", view |-> NoView,
   next |-> FALSE, run |-> NoRun, slots |-> Empty, leases |-> Empty, lease |-> 1,
   leaseRetired |-> FALSE, lastLease |-> 1, hint |-> FALSE, failed |-> FALSE,
   calls |-> {}]

NewCall(op, of) == [op |-> op, of |-> of, stage |-> "sent", outcomes |-> Empty, result |-> 0]
Call(p, op, of) == [p EXCEPT !.calls = @ \cup {NewCall(op, of)}]
Calling(p, op, of) == \E c \in p.calls : c.op = op /\ c.of = of
NewCalls(p, op, S) == {NewCall(op, of) : of \in {x \in S : ~Calling(p, op, x)}}

Woke(run) == [run EXCEPT !.woken = @ \/ run.pc = "wait"]
Wake(p) == [p EXCEPT !.run = Woke(@)]
Publish(p, status) == [p EXCEPT !.status = status]

\* ackSlot
Acks(p, jobs) ==
  IF p.closed THEN {} ELSE NewCalls(p, "acknowledge", jobs \cap DOMAIN p.slots)

\* retireSlot, for several of them.
RetireSlots(p, jobs) ==
  LET mine == jobs \cap DOMAIN p.slots
      ended == {job \in mine : p.slots[job].outcome # "none"}
  IN  [p EXCEPT !.slots = [job \in DOMAIN @ |->
                  IF job \in mine THEN [@[job] EXCEPT !.retired = TRUE] ELSE @[job]],
                !.calls = IF p.closed THEN @
                          ELSE @ \cup NewCalls(p, "cancel", mine \ ended)
                                 \cup Acks(p, {job \in ended : ~p.slots[job].ackFailed})]

\* What a reply tells about the window's jobs.
Accept(p, outcomes) ==
  LET told == DOMAIN outcomes \cap DOMAIN p.slots
  IN  [p EXCEPT !.run = Woke(@),
                !.slots = [job \in DOMAIN @ |->
                  IF job \in told THEN [@[job] EXCEPT !.outcome = outcomes[job]] ELSE @[job]],
                !.calls = @ \cup Acks(p, {job \in told : /\ p.slots[job].retired
                                                         /\ ~p.slots[job].ackFailed})]

\* A hint asks for one observation, and for another one after that when it
\* came meanwhile.
ObserveHint(p) ==
  IF p.closed \/ ~p.demanded \/ p.slots = Empty THEN p
  ELSE IF Calling(p, "snapshot", 0) THEN [p EXCEPT !.hint = TRUE]
  ELSE Call([p EXCEPT !.hint = FALSE, !.failed = FALSE], "snapshot", 0)

\* releaseLease, for several of them.
ReleaseLeases(p, leases) ==
  LET first == {l \in leases : p.leases[l].releasing = "no"}
  IN  [p EXCEPT !.leases = [l \in DOMAIN @ |->
                  IF l \in first
                    THEN [@[l] EXCEPT !.retired = TRUE, !.releasing = "first",
                                      !.again = p.leases[l].start]
                  ELSE IF l \in leases THEN [@[l] EXCEPT !.retired = TRUE] ELSE @[l]],
                !.leaseRetired = @ \/ p.lease \in leases,
                !.calls = @ \cup {NewCall("release", l) : l \in first}]

\* A lease carries one text after the other, but no text twice.
LeaseFor(p) ==
  LET usable == p.lease \in DOMAIN p.leases
      worn == usable /\ (p.leases[p.lease].retired
                            \/ p.leases[p.lease].last = p.run.revision)
      q == IF worn THEN ReleaseLeases(p, {p.lease}) ELSE p
      renew == worn \/ (~usable /\ p.leaseRetired)
      l == IF renew THEN p.lastLease + 1 ELSE p.lease
      fresh == [retired |-> FALSE, last |-> p.run.revision, start |-> TRUE,
                releasing |-> "no", again |-> FALSE]
  IN  [q EXCEPT !.lease = l,
                !.lastLease = IF renew THEN l ELSE @,
                !.leaseRetired = IF renew THEN FALSE ELSE @,
                !.run.lease = l,
                !.leases = IF usable /\ ~worn
                             THEN [@ EXCEPT ![l].last = p.run.revision, ![l].start = TRUE]
                             ELSE With(@, l, fresh)]

\* drive: the next run starts when the one before has ended.
Drive(p) ==
  IF p.run # NoRun \/ ~p.next \/ p.closed THEN p
  ELSE [p EXCEPT !.next = FALSE,
                 !.run = [NoRun EXCEPT !.pc = "source", !.revision = p.revision]]

\* The end of a run, with an error or without.
End(p) == Drive([RetireSlots(p, {p.run.job}) EXCEPT !.run = NoRun])
Throw(p) == End(IF p.closed \/ p.run.stale THEN p ELSE Publish(p, "unavailable"))

\* check(run), after every wait: go on only when nothing has changed.
IsStale(p) == p.closed \/ p.run.stale

\* The loop that waits for the outcome.
Awaited(p) ==
  LET job == p.run.job
      outcome == IF job \in DOMAIN p.slots THEN p.slots[job].outcome ELSE "none"
      q == [p EXCEPT !.run.pc = "wait", !.run.woken = FALSE]
  IN  IF IsStale(p) THEN End(q)
      ELSE IF outcome = "none" THEN IF p.failed THEN Throw(q) ELSE q
      ELSE IF outcome # "ready" THEN End(Publish(q, "unavailable"))
      ELSE Call([q EXCEPT !.run.pc = "prepare"], "prepare", job)

----------------------------------------------------------------------------
\* What the user and the platform do with a window.

Event(x) ==
  /\ events[x] < MaxEventsOf[x]
  /\ Total(events) < MaxEvents
  /\ events' = [events EXCEPT ![x] = @ + 1]
Changes(w, p) == \E q \in {p} : win' = [win EXCEPT ![w] = q]

\* update(): another text, or the facts are wanted or no longer wanted.
Updated(p, changed, demand) ==
  LET revision == IF changed THEN p.revision + 1 ELSE p.revision
      q == RetireSlots(Wake([p EXCEPT !.revision = revision, !.demanded = demand,
                                      !.next = FALSE, !.run.stale = p.run # NoRun]),
                       DOMAIN p.slots)
  IN  IF ~demand
        THEN Publish(IF q.lease \in DOMAIN q.leases THEN ReleaseLeases(q, {q.lease}) ELSE q,
                     "unsupported")
      ELSE IF p.view.revision = revision THEN Publish(q, "current")
      ELSE Drive(Publish([q EXCEPT !.next = TRUE], "pending"))

Update(w) ==
  LET p == win[w]
  IN  /\ ~p.closed
      /\ Event(w)
      /\ \/ \E changed, demand \in BOOLEAN :
             /\ changed \/ demand # p.demanded
             /\ Changes(w, Updated(p, changed, demand))
         \/ /\ p.demanded  \* off and on again
            /\ Changes(w, Updated(Updated(p, FALSE, FALSE), FALSE, TRUE))
      /\ UNCHANGED <<core, work, handles, index>>

\* The text is encoded and hashed over several turns of the event loop.
Encode(w) ==
  /\ win[w].run.pc = "source"
  /\ \E p \in {win[w]} :
       Changes(w, IF IsStale(p) THEN End(p)
                  ELSE LET q == LeaseFor(p)
                       IN  Call([q EXCEPT !.run.pc = "request"], "request", q.run.lease))
  /\ UNCHANGED <<core, work, handles, index, events>>

Woken(w) ==
  /\ win[w].run.woken
  /\ Changes(w, Awaited(win[w]))
  /\ UNCHANGED <<core, work, handles, index, events>>

AllLeasesReleased(p) == ReleaseLeases(p, DOMAIN p.leases)

\* close(): the leases are released early, and once more when nothing is
\* awaited any longer.
Close(w) ==
  LET p == win[w]
  IN  /\ p.closing = "no" /\ ~p.gone
      /\ Event(w)
      /\ Changes(w, AllLeasesReleased(Wake([p EXCEPT
           !.closed = TRUE, !.next = FALSE, !.closing = "early",
           !.run.stale = p.run # NoRun])))
      /\ UNCHANGED <<core, work, handles, index>>

JoinClose(w) ==
  LET p == win[w]
  IN  /\ p.closing \in {"early", "final"}
      /\ p.run = NoRun /\ p.calls = {}
      /\ Changes(w, IF p.leases = Empty
                      THEN [NewWindow EXCEPT !.revision = p.revision,
                              !.closed = TRUE, !.closing = "done"]
                    ELSE IF p.closing = "final" THEN [p EXCEPT !.closing = "no"]
                    ELSE AllLeasesReleased([p EXCEPT !.closing = "final"]))
      /\ UNCHANGED <<core, work, handles, index, events>>

----------------------------------------------------------------------------
\* The host: calls, each executed at once.

NewHandle == [input |-> "none", frame |-> 0, scratch |-> 0, facts |-> 0, encoded |-> 0]
Held(h) == IF h.input = "none" THEN 0 ELSE SourceSize
TransferUsed == Total([id \in DOMAIN handles |-> handles[id].frame + handles[id].encoded])
Headroom == MaxScratch - ScratchUsed(core) - TransferUsed

Keys(w) == {k \in DOMAIN core.buffers : k[1] = w}
KeysOf(w, c) == {k \in DOMAIN c.buffers : k[1] = w}

\* Current input, and facts that may be read.
MayUpload(id) == ~work.closing /\ IsCurrent(core, id) /\ id \in DOMAIN handles
MayRead(id) == /\ ~work.closing
               /\ id \in Jobs(core)
               /\ core.jobs[id].outcome = "ready"
               /\ ~core.jobs[id].acked
               /\ id \in DOMAIN handles

Sent(w, op) == {c \in win[w].calls : c.op = op /\ c.stage = "sent"}

\* The listeners of every window are told that something has happened.
Nudged(ws) == [v \in Windows |-> ObserveHint(ws[v])]
Wanted == work' = [work EXCEPT !.wanted = TRUE]

\* The host has executed call c of window w, leaving its reducer in state next.
\* Whatever is no mere reading wakes the turns and the windows.
Answered(w, c, next, result) ==
  [win EXCEPT ![w].calls = (@ \ {c}) \cup
     {[c EXCEPT !.stage = "ok", !.outcomes = Outcomes(next, KeysOf(w, next)),
                !.result = result]}]

Answers(w, c, next, result) ==
  /\ core' = next
  /\ \E ws \in {Answered(w, c, next, result)} : win' = Nudged(ws)
  /\ Wanted
  /\ UNCHANGED <<index, events>>

\* A command is reduced to state d, and what comes next is planned.
Plans(d) == \E e \in {d} : core' = Planned(e)
Reduces(w, c, d, result) ==
  \E e \in {d} : \E next \in {Planned(e)} : Answers(w, c, next, result)

Tells(w, c, result) ==
  /\ win' = Answered(w, c, core, result)
  /\ UNCHANGED <<core, work, handles, index, events>>

Refuses(w, c) ==
  /\ win' = [win EXCEPT ![w].calls = (@ \ {c}) \cup {[c EXCEPT !.stage = "error"]}]
  /\ UNCHANGED <<core, work, handles, index, events>>

ServeRequest(w) == \E c \in Sent(w, "request") :
  LET key == <<w, c.of>>
      revision == win[w].run.revision
      id == IF Repeats(core, key, revision) THEN core.buffers[key].current
                                            ELSE core.last + 1
  IN  IF work.closing \/ RequestRefused(core, key, revision) THEN Refuses(w, c)
      ELSE /\ Reduces(w, c, Requested(core, key, revision), id)
           /\ handles' = IF Repeats(core, key, revision) THEN handles
                                                         ELSE With(handles, id, NewHandle)

\* begin_source_upload and read_source_upload_chunk: the frame of the chunk is
\* kept until the source is sealed.
ServeUpload(w) == \E c \in Sent(w, "upload") :
  LET room == Headroom >= SourceSize
  IN  IF ~MayUpload(c.of) THEN Refuses(w, c)
      ELSE /\ handles' = [handles EXCEPT ![c.of].input = "upload",
                                         ![c.of].frame = IF room THEN SourceSize ELSE @]
           /\ IF room THEN Answers(w, c, core, 0)
              ELSE /\ win' = [win EXCEPT ![w].calls =
                                (@ \ {c}) \cup {[c EXCEPT !.stage = "error"]}]
                   /\ UNCHANGED <<core, work, index, events>>

\* seal_source_upload: the copy into the parser needs room beside the upload.
ServeSeal(w) == \E c \in Sent(w, "seal") :
  IF ~MayUpload(c.of) \/ Headroom < SourceSize THEN Refuses(w, c)
  ELSE /\ handles' = [handles EXCEPT ![c.of].input = "parser", ![c.of].frame = 0]
       /\ Reduces(w, c, Sealed(core, c.of), 0)

ServePrepare(w) == \E c \in Sent(w, "prepare") :
  IF ~MayRead(c.of) \/ (handles[c.of].encoded = 0 /\ Headroom < handles[c.of].facts)
    THEN Refuses(w, c)
  ELSE /\ handles' = [handles EXCEPT ![c.of].encoded = handles[c.of].facts]
       /\ Answers(w, c, core, 0)

\* Facts name the text they are about.
ServeRead(w) == \E c \in Sent(w, "read") :
  IF ~MayRead(c.of) THEN Refuses(w, c)
  ELSE Tells(w, c, core.jobs[c.of].revision)

\* Cancel and Snapshot only bring outcomes: their answers are heard at once.
ServeCancel(w) == \E c \in {x \in win[w].calls : x.op = "cancel"} :
  LET p == [win[w] EXCEPT !.calls = @ \ {c}]
  IN  /\ IF c.stage = "error" \/ c.of \notin Jobs(core)
            THEN Changes(w, p) /\ UNCHANGED <<core, work>>
          ELSE \E d \in {Stopped(core, {c.of}, "cancelled")} : \E next \in {Planned(d)} :
                 /\ core' = next
                 /\ \E q \in {Accept(p, Outcomes(next, KeysOf(w, next)))} :
                      win' = Nudged([win EXCEPT ![w] = q])
                 /\ Wanted
      /\ UNCHANGED <<handles, index, events>>

ServeAcknowledge(w) == \E c \in Sent(w, "acknowledge") :
  IF c.of \notin Jobs(core) \/ core.jobs[c.of].outcome = "none" THEN Refuses(w, c)
  ELSE UNCHANGED handles /\ Reduces(w, c, Acknowledged(core, c.of), 0)

ServeRelease(w) == \E c \in Sent(w, "release") :
  UNCHANGED handles /\ Reduces(w, c, ReleasedBuffers(core, {<<w, c.of>>}), 0)

Serve(w) ==
  \/ ServeRequest(w) \/ ServeUpload(w) \/ ServeSeal(w) \/ ServePrepare(w)
  \/ ServeRead(w) \/ ServeCancel(w) \/ ServeAcknowledge(w) \/ ServeRelease(w)

\* A call or its answer is lost.
Lose(w) == \E c \in win[w].calls :
  /\ c.stage # "error"
  /\ Event(w)
  /\ win' = [win EXCEPT ![w].calls = (@ \ {c}) \cup {[c EXCEPT !.stage = "error"]}]
  /\ UNCHANGED <<core, work, handles, index>>

----------------------------------------------------------------------------
\* The answers, as the window goes on after its await.

Replied(w, op, Next(_, _)) == \E c \in win[w].calls :
  /\ c.op = op /\ c.stage # "sent"
  /\ \E p \in {[win[w] EXCEPT !.calls = @ \ {c}]} : Changes(w, Next(p, c))
  /\ UNCHANGED <<core, work, handles, index, events>>

StartSettled(p, l) ==
  IF l \notin DOMAIN p.leases THEN p
  ELSE LET q == [p EXCEPT !.leases[l].start = FALSE]
       IN  IF p.leases[l].releasing # "await" THEN q
           ELSE Call([q EXCEPT !.leases[l].releasing = "second"], "release", l)

NewSlot(l) == [lease |-> l, retired |-> FALSE, outcome |-> "none", ackFailed |-> FALSE]

AfterRequest(p, c) ==
  IF c.stage = "error" THEN Throw(StartSettled(p, c.of))
  ELSE LET q == StartSettled(
                  Accept([p EXCEPT !.slots = With(@, c.result, NewSlot(c.of)),
                                   !.run.job = c.result], c.outcomes), c.of)
       IN  IF IsStale(q) THEN End(q)
           ELSE Call([q EXCEPT !.run.pc = "upload"], "upload", c.result)

AfterUpload(p, c) ==
  IF c.stage = "error" THEN Throw(p)
  ELSE LET q == Accept(p, c.outcomes)
       IN  IF IsStale(q) THEN End(q)
           ELSE Call([q EXCEPT !.run.pc = "seal"], "seal", c.of)

AfterSeal(p, c) ==
  IF c.stage = "error" THEN Throw(p)
  ELSE LET q == Accept(p, c.outcomes)
       IN  IF IsStale(q) THEN End(q) ELSE Awaited(ObserveHint(q))

AfterPrepare(p, c) ==
  IF c.stage = "error" THEN Throw(p)
  ELSE LET q == Accept(p, c.outcomes)
       IN  IF IsStale(q) THEN End(q)
           ELSE Call([q EXCEPT !.run.pc = "read"], "read", c.of)

\* The facts become the view; then the job is acknowledged.
AfterRead(p, c) ==
  IF c.stage = "error" THEN Throw(p)
  ELSE IF IsStale(p) THEN End(p)
  ELSE LET q == Publish([p EXCEPT !.view = [text |-> c.result, revision |-> p.revision],
                                  !.run.pc = "ack"], "current")
           r == [q EXCEPT !.calls = @ \cup Acks(q, {c.of})]
       IN  IF Calling(r, "acknowledge", c.of) THEN r ELSE End(r)

AfterAcknowledge(p, c) ==
  LET mine == p.run.pc = "ack" /\ p.run.job = c.of
  IN  IF c.stage = "error"
        THEN LET q == IF c.of \in DOMAIN p.slots
                        THEN [p EXCEPT !.slots[c.of].ackFailed = TRUE] ELSE p
             IN  IF mine THEN Throw(q) ELSE q
      ELSE LET q == Accept([p EXCEPT !.slots = Without(@, {c.of})], c.outcomes)
           IN  IF mine THEN End(q) ELSE q

AfterSnapshot(p, c) ==
  LET q == IF c.stage = "error" THEN Wake([p EXCEPT !.failed = TRUE])
                                ELSE Accept(p, c.outcomes)
  IN  IF q.hint /\ ~q.closed THEN Call([q EXCEPT !.hint = FALSE], "snapshot", 0) ELSE q

\* A lease with a request under way is released again after that request.
AfterRelease(p, c) ==
  LET l == p.leases[c.of]
  IN  IF c.stage = "error" THEN [p EXCEPT !.leases[c.of].releasing = "no"]
      ELSE IF l.releasing = "first" /\ l.again
        THEN IF l.start THEN [p EXCEPT !.leases[c.of].releasing = "await"]
             ELSE Call([p EXCEPT !.leases[c.of].releasing = "second"], "release", c.of)
      ELSE Wake([p EXCEPT !.leases = Without(@, {c.of}),
                          !.slots = Without(@, {j \in DOMAIN @ : @[j].lease = c.of})])

Reply(w) ==
  \/ Replied(w, "request", AfterRequest) \/ Replied(w, "upload", AfterUpload)
  \/ Replied(w, "seal", AfterSeal) \/ Replied(w, "prepare", AfterPrepare)
  \/ Replied(w, "read", AfterRead) \/ Replied(w, "acknowledge", AfterAcknowledge)
  \/ Replied(w, "release", AfterRelease)

\* An observation is answered as it is executed.
Observe(w) == \E c \in {x \in win[w].calls : x.op = "snapshot"} :
  /\ Changes(w, AfterSnapshot([win[w] EXCEPT !.calls = @ \ {c}],
       IF c.stage = "error" THEN c
       ELSE [c EXCEPT !.outcomes = Outcomes(core, Keys(w))]))
  /\ UNCHANGED <<core, work, handles, index, events>>

----------------------------------------------------------------------------
\* The turns of the host, taken while they are wanted.  Selecting an effect and
\* executing it are one: the effect was planned before.

Lanes == {lane \in {"index", "draft"} :
            IF lane = "index" THEN index = "issued" ELSE core.flight # NoFlight}

\* Mistake: the index always comes first.
IndexFirst(lane) == lane \in Lanes /\ ("index" \in Lanes => lane = "index")

\* select_next_turn: of two lanes with an effect the one that was not served
\* last comes first.
Chosen(lane) == lane \in Lanes /\ (lane = work.served => Lanes = {lane})

Served(lane) ==
  /\ work.wanted
  /\ Chosen(lane)
  /\ work' = [work EXCEPT !.served = lane]
  /\ win' = Nudged(win)
  /\ UNCHANGED events

StepIndex ==
  /\ Served("index")
  /\ index' \in IF work.closing THEN {"quiesced"} ELSE {"issued"}
  /\ UNCHANGED <<core, handles>>

NoWork ==
  /\ work.wanted
  /\ Lanes = {}
  /\ work' = [work EXCEPT !.wanted = FALSE]
  /\ win' = Nudged(win)
  /\ UNCHANGED <<core, handles, index, events>>

\* execute_draft_effect, which settles at once and plans the next effect.
DropJob ==
  /\ core.flight.kind = "drop"
  /\ Plans(Dropped(core))
  /\ handles' = Without(handles, {core.flight.job})

Emptied(h) == [h EXCEPT !.input = "none", !.scratch = 0, !.facts = 0]

SkipPhase ==
  /\ core.flight.kind = "parse" /\ ~PhaseIsCurrent(core, core.flight.job)
  /\ Plans(Skipped(core))
  /\ handles' = [handles EXCEPT ![core.flight.job] = Emptied(@)]

\* What the parser may use is what the plan left, less the transfers.
ScratchLeft ==
  IF core.flight.scratch > TransferUsed THEN core.flight.scratch - TransferUsed ELSE 0

\* What the parser leaves of a handle after a phase.
Filled(h, phase, scratch, facts) ==
  [h EXCEPT !.input = IF phase = Phases THEN "none" ELSE @,
            !.scratch = scratch, !.facts = facts]

ParsePhase ==
  LET phase == core.flight.phase
      id == core.flight.job
      scratch == IF phase = Phases THEN 0 ELSE ScratchOf[phase]
      fits == ScratchOf[phase] <= ScratchLeft /\ FactsOf[phase] <= core.flight.facts
  IN  /\ core.flight.kind = "parse" /\ PhaseIsCurrent(core, id)
      /\ handles[id].input = "parser"
      /\ Plans(IF fits THEN Parsed(core, scratch, FactsOf[phase]) ELSE OutOfSpace(core))
      /\ handles' = [handles EXCEPT ![id] =
           IF fits THEN Filled(@, phase, scratch, FactsOf[phase]) ELSE Emptied(@)]

StepDraft ==
  /\ Served("draft")
  /\ DropJob \/ SkipPhase \/ ParsePhase
  /\ UNCHANGED index

Turn == StepIndex \/ StepDraft \/ NoWork

----------------------------------------------------------------------------
\* Ends.

Gone(p) == [NewWindow EXCEPT !.revision = p.revision,
              !.closed = TRUE, !.gone = TRUE, !.status = "unavailable"]

\* A window disappears: its client is released for it.
Vanish(w) ==
  /\ ~win[w].gone
  /\ Event(w)
  /\ Plans(ReleasedBuffers(core, Keys(w)))
  /\ Changes(w, Gone(win[w]))
  /\ Wanted
  /\ UNCHANGED <<handles, index>>

\* The vault is closed: what is selected is still executed, and what the host
\* holds is dropped effect by effect.
BeginClose ==
  /\ ~work.closing
  /\ Event(Vault)
  /\ Plans(Retired(core))
  /\ index' = IF index = "issued" THEN index ELSE "quiesced"
  /\ work' = [work EXCEPT !.closing = TRUE, !.wanted = TRUE]
  /\ win' = Nudged(win)
  /\ UNCHANGED handles

CloseReady ==
  /\ work.closing
  /\ index = "quiesced"
  /\ IsQuiesced(core)
  /\ handles = Empty

Quit ==
  /\ CloseReady
  /\ \E w \in Windows : ~win[w].gone
  /\ win' = [w \in Windows |-> Gone(win[w])]
  /\ UNCHANGED <<core, work, handles, index, events>>

----------------------------------------------------------------------------
Init ==
  /\ core = NewCore
  /\ work = [closing |-> FALSE, served |-> "none", wanted |-> TRUE]
  /\ handles = Empty
  /\ index \in {"issued", "idle"}
  /\ win = [w \in Windows |-> NewWindow]
  /\ events = [x \in DOMAIN MaxEventsOf |-> 0]

Next ==
  \/ \E w \in Windows :
       \/ Update(w) \/ Encode(w) \/ Woken(w) \/ Close(w) \/ JoinClose(w)
       \/ Serve(w) \/ Reply(w) \/ Observe(w)
       \/ Lose(w) \/ Vanish(w)
  \/ Turn \/ BeginClose \/ Quit

\* The event loops and the host run what is ready, calls in their order, so that
\* observations, which never end, do not keep back other calls.  A user, the
\* index and the faults owe nothing.
Runs(w) == Encode(w) \/ JoinClose(w) \/ Serve(w) \/ Reply(w)
Fairness ==
  /\ \A w \in Windows : WF_vars(Runs(w)) /\ WF_vars(Woken(w)) /\ WF_vars(Observe(w))
  /\ WF_vars(Turn \/ Quit)

Spec == Init /\ [][Next]_vars /\ Fairness

----------------------------------------------------------------------------
Ends == {"none", "ready", "superseded", "cancelled", "retired", "unavailable"}

TypeOK ==
  /\ \A id \in Jobs(core) :
       LET j == core.jobs[id]
       IN  /\ j.key \in DOMAIN core.buffers
           /\ j.outcome \in Ends
           /\ {j.source, j.scratch, j.facts} \subseteq Nat
  /\ \A i \in 1 .. Len(core.queue) :
       LET j == core.jobs[core.queue[i]] IN j.sealed /\ j.outcome = "none"
  /\ core.flight.kind \in {"none", "drop", "parse"}
  /\ work.served \in {"none", "index", "draft"}
  /\ index \in {"idle", "issued", "quiesced"}
  /\ \A w \in Windows :
       /\ win[w].status \in {"unsupported", "pending", "current", "unavailable"}
       /\ win[w].closing \in {"no", "early", "final", "done"}

\* Facts that are shown as current are about the text in the window, also when
\* the text changed while the source was sent, parsed or read; and a result
\* that may be read is of the latest text its buffer has announced.
FactsAreExact ==
  /\ \A w \in Windows :
       win[w].status = "current" =>
         win[w].view.text = win[w].revision /\ win[w].view.revision = win[w].revision
  /\ \A id \in Jobs(core) :
       LET j == core.jobs[id]
       IN  j.outcome = "ready" /\ ~j.acked =>
             /\ core.buffers[j.key] =
                  [revision |-> j.revision, current |-> id, releasing |-> FALSE]
             /\ id \in DOMAIN handles

\* What the host really holds for a job is charged to it until it has been
\* dropped, and everything charged and under way in transfers stays within the
\* limits: the parser, the uploads and the readings compete for them.
HoldsWhatIsCharged ==
  /\ DOMAIN handles \subseteq Jobs(core)
  /\ \A id \in DOMAIN handles :
       /\ Held(handles[id]) <= core.jobs[id].source
       /\ handles[id].scratch <= core.jobs[id].scratch
       /\ handles[id].facts <= core.jobs[id].facts
  /\ SourceUsed(core) <= MaxSource
  /\ FactsUsed(core) <= MaxFacts
  /\ ScratchUsed(core) + TransferUsed <= MaxScratch

\* "Finished unacknowledged facts can legitimately block new work"
\* (draft_runtime.rs:639): the text of the window is queued, and facts of other
\* windows, which these have not acknowledged, fill the space.
WaitsForSpace(w) ==
  /\ FactsAreFull(core)
  /\ \E i \in 1 .. Len(core.queue) : core.queue[i] \in DOMAIN win[w].slots
  /\ \A id \in Jobs(core) : core.jobs[id].facts > 0 =>
       core.jobs[id].key[1] # w /\ ~core.jobs[id].acked

\* Nobody waits: no window for facts that the host could compute or for its
\* end, and nobody for what a window has left with the host or for the host to
\* be drained.
AtRest ==
  /\ \A w \in Windows :
       /\ win[w].status = "pending" => WaitsForSpace(w)
       /\ win[w].closing \notin {"early", "final"}
       /\ win[w].gone \/ win[w].closing = "done" => Keys(w) = {}
  /\ work.closing => CloseReady

\* Once the users and the faults stop, a window that waited for facts has got
\* them or knows that there are none, whatever else the host has to do; only
\* while another window keeps facts that it failed to acknowledge, and these
\* leave no space, it goes on waiting, and no longer than that window lets go
\* of them, because of a newer text, of its end or of the end of the vault.  A
\* window that is closed or lost leaves nothing with the host, though its last
\* request may have reached it after its buffer had been released.  A vault
\* that is closed is drained.
DraftsEnd == <>[]AtRest
=============================================================================
