------------------------------- MODULE BinaryStage ------------------------------
(***************************************************************************)
(* Staged uploads of binary files (crates/zorid-store, blob_stage.rs and   *)
(* binary_commit.rs), driven by the inline adapter of ordinary mutations   *)
(* and by the importer of the desktop host (staged_import.rs).             *)
(*                                                                         *)
(* A stage receives the chunks of one operation in order, is sealed in two *)
(* transactions, authorized against a cut of the graph in a read and a     *)
(* write transaction and published in another such pair.  A call can die   *)
(* between any two transactions and is then repeated under the same        *)
(* operation.  Every action is one transaction, or several reads that      *)
(* follow each other; calls interleave as if the lock of the vault were    *)
(* not there.                                                              *)
(*                                                                         *)
(* The graph is abstracted to the sequence of what was committed: its      *)
(* length is the cut, and the position of an event its identity.  Physical *)
(* captures, pages and the byte quota are left out.                        *)
(***************************************************************************)
EXTENDS Integers, Sequences, FiniteSets

CONSTANTS
  Processes,
  Operations,
  Entries,
  call,        \* per process: the call it makes and repeats
  MaxActive,   \* max_active_stages
  MaxChunks,   \* max_chunk_records
  Oversized,   \* operations whose receipt exceeds its limit
  MaxLog,      \* bound: commits
  MaxFaults,   \* bound: crashes of processes
  MaxCancels,  \* bound: cancelled imports
  None

(* A chunk is named by a number.  The host keeps the selection of an       *)
(* import, digest included, under its operation and refuses another one    *)
(* (load_plan in staged_import.rs).                                        *)
ASSUME BinaryStageAssumption ==
  /\ MaxActive \in Nat /\ MaxChunks \in Nat /\ MaxLog \in Nat
  /\ MaxFaults \in Nat /\ MaxCancels \in Nat
  /\ \A p \in Processes :
       /\ call[p].op \in Operations /\ call[p].entry \in Entries
       /\ call[p].kind \in {"inline", "import"}
       /\ call[p].expects \in {None} \cup Nat
       /\ call[p].kind = "import" => call[p].expects = None
       /\ call[p].content \in Seq(Nat) /\ call[p].bytes \in Seq(Nat)
       /\ Len(call[p].content) = Len(call[p].bytes)
       /\ call[p].kind = "inline" => call[p].bytes = call[p].content
  /\ \A p, q \in Processes :
       call[p].op = call[q].op /\ call[p].kind = "import" /\ call[q].kind = "import" =>
         call[p].content = call[q].content

VARIABLES
  log,       \* the graph: what was committed, in order
  heads,     \* per entry: its selected content event, or None
  stages,    \* per operation: its stage, or None
  plans,     \* per operation: its durable commit plan, or None
  proc,      \* per process: where its call stands
  told,      \* per operation: the outcomes callers were told, and their content
  faults, cancels

vars == <<log, heads, stages, plans, proc, told, faults, cancels>>

Cut == Len(log)
UnresolvedRejected(o) == plans[o] # None /\ plans[o].state = "rejected"

Committed(o) == \E k \in 1 .. Cut : log[k].by = o
Rejected(o) == plans[o] # None /\ plans[o].rejected
Phases == {"receiving", "sealed", "commit_requested", "committed", "rejected", "aborted"}

Op(p) == call[p].op
Inline(p) == call[p].kind = "inline"
Content(p) == call[p].content
Bytes(p) == call[p].bytes    \* the file an import reads may have changed
Target(p) == [owner |-> call[p].kind, entry |-> call[p].entry,
              expects |-> call[p].expects, length |-> Len(call[p].content)]
Original(p) == IF Inline(p) THEN Content(p) ELSE None

AnyCall(plan, p) == TRUE

SameCall(plan, p) == plan.original = Original(p)

(* The record of a plan is compared without the rejection beside it.      *)
Record(plan) == IF plan = None THEN None ELSE [plan EXCEPT !.rejected = FALSE]

Versions == [by : Operations \cup {None}, entry : Entries \cup {None},
             content : Seq(Nat) \cup {None}]
Targets == [owner : {"inline", "import"}, entry : Entries,
            expects : Nat \cup {None}, length : Nat]
Stages == [phase : Phases, target : Targets, chunks : Seq(Nat), seal : Seq(Nat) \cup {None}]
Plans == [state : {"inline", "authorized", "rejected"}, target : Targets,
          original : Seq(Nat) \cup {None}, cut : Nat, rejected : BOOLEAN]
Points == {"idle", "begin", "bind", "look", "step", "append", "seal", "verify", "authorize",
           "decide", "commit", "prepare", "finish", "oversized", "done"}
Attempts == [pc : Points, next : Nat, cut : Nat, plan : Plans \cup {None}, again : BOOLEAN]
Outcomes == {"committed", "rejected", "aborted"}

ASSUME NoneAssumption ==
  /\ None \notin Operations /\ None \notin Seq(Nat)
  /\ None \notin Stages /\ None \notin Plans

Idle == [pc |-> "idle", next |-> 0, cut |-> 0, plan |-> None, again |-> FALSE]

TypeOK ==
  /\ log \in Seq(Versions)
  /\ heads \in [Entries -> {None} \cup 0 .. Cut]
  /\ stages \in [Operations -> Stages \cup {None}]
  /\ plans \in [Operations -> Plans \cup {None}]
  /\ proc \in [Processes -> Attempts]
  /\ told \in [Operations -> SUBSET (Outcomes \X Seq(Nat))]
  /\ \A o \in Operations : stages[o] # None =>
       /\ stages[o].phase \in Phases
       /\ Len(stages[o].chunks) <= stages[o].target.length
       /\ stages[o].phase \in {"sealed", "commit_requested", "committed"} =>
            stages[o].chunks = stages[o].seal
       /\ stages[o].phase = "committed" <=> Committed(o)
  /\ \A o \in Operations : plans[o] # None => stages[o] # None

(* Only the given processes make their calls; an entry is free or stored.  *)
Starts(callers) ==
  /\ log = <<>>
  /\ heads \in [Entries -> {None, 0}]
  /\ stages = [o \in Operations |-> None]
  /\ plans = [o \in Operations |-> None]
  /\ proc = [p \in Processes |->
              IF p \in callers THEN Idle ELSE [Idle EXCEPT !.pc = "done"]]
  /\ told = [o \in Operations |-> {}]
  /\ faults = 0 /\ cancels = 0

Init == Starts(Processes)

-----------------------------------------------------------------------------
Goto(p, pc) == proc' = [proc EXCEPT ![p].pc = pc]

(* The call fails with an error; its caller may repeat it.                 *)
Fail(p) == proc' = [proc EXCEPT ![p] = Idle]

(* The call ends for good: with an outcome of its operation, or because    *)
(* another call owns the operation.                                        *)
End(p, outcome) ==
  /\ proc' = [proc EXCEPT ![p] = [Idle EXCEPT !.pc = "done"]]
  /\ told' = [told EXCEPT ![Op(p)] = @ \cup {<<end, Content(p)>> : end \in outcome}]

Durable == <<log, heads, stages, plans>>
Bounds == <<faults, cancels>>

AnyTarget(target) == TRUE

(* target_rejection, against the graph of now.                             *)
Fits(target) == heads[target.entry] = target.expects

(* After the bytes of a stage: the inline adapter goes on with the next    *)
(* call of the store, the importer looks at the stage again.               *)
Then(p, pc) == Goto(p, IF Inline(p) THEN pc ELSE "step")

-----------------------------------------------------------------------------
(* A call begins or is repeated.  An inline call replays its receipt, and  *)
(* takes the target of its first attempt rather than the one of now.       *)
StartInline(p) ==
  LET o == Op(p) IN
    /\ proc[p].pc = "idle" /\ Inline(p)
    /\ UNCHANGED <<Durable, Bounds>>
    /\ \/ /\ Committed(o)
          /\ End(p, IF SameCall(plans[o], p) THEN {"committed"} ELSE {})
       \/ /\ ~ Committed(o) /\ plans[o] # None
          /\ IF SameCall(plans[o], p)
             THEN Goto(p, "bind") /\ UNCHANGED told
             ELSE End(p, {})
       \/ /\ ~ Committed(o) /\ plans[o] = None
          /\ IF call[p].expects # None /\ ~ Fits(Target(p))
             THEN End(p, {})
             ELSE /\ Goto(p, IF stages[o] = None THEN "begin" ELSE "bind")
                  /\ UNCHANGED told

StartImport(p) ==
  /\ proc[p].pc = "idle" /\ ~ Inline(p)
  /\ IF stages[Op(p)] # None /\ stages[Op(p)].target # Target(p)
     THEN End(p, {})
     ELSE /\ Goto(p, IF stages[Op(p)] = None THEN "begin" ELSE "step")
          /\ UNCHANGED told
  /\ UNCHANGED <<Durable, Bounds>>

Active == {o \in Operations :
             stages[o] # None /\ stages[o].phase \in {"receiving", "sealed", "commit_requested"}}

Begin(p) ==
  LET o == Op(p) IN
    /\ proc[p].pc = "begin"
    /\ UNCHANGED <<log, heads, plans, Bounds>>
    /\ \/ /\ stages[o] # None
          /\ IF stages[o].target = Target(p)
             THEN Then(p, "bind") /\ UNCHANGED told
             ELSE End(p, {})
          /\ UNCHANGED stages
       \/ /\ stages[o] = None /\ Cardinality(Active) >= MaxActive
          /\ Fail(p) /\ UNCHANGED <<stages, told>>
       \/ /\ stages[o] = None /\ Cardinality(Active) < MaxActive
          /\ stages' = [stages EXCEPT ![o] =
               [phase |-> "receiving", target |-> Target(p), chunks |-> <<>>, seal |-> None]]
          /\ Then(p, "bind") /\ UNCHANGED told

(* The complete inline call is durable before its first byte.              *)
Bind(p) ==
  LET o == Op(p)
      mine == [state |-> "inline", target |-> Target(p), original |-> Original(p),
               cut |-> 0, rejected |-> FALSE]
  IN
    /\ proc[p].pc = "bind"
    /\ UNCHANGED <<log, heads, stages, Bounds>>
    /\ \/ /\ plans[o] # None
          /\ IF SameCall(plans[o], p) /\ plans[o].target = Target(p)
             THEN Goto(p, "look") /\ UNCHANGED told
             ELSE End(p, {})
          /\ UNCHANGED plans
       \/ /\ plans[o] = None
          /\ IF /\ stages[o].target = Target(p) /\ stages[o].phase = "receiving"
                /\ stages[o].chunks = <<>>
             THEN /\ plans' = [plans EXCEPT ![o] = mine]
                  /\ Goto(p, "look") /\ UNCHANGED told
             ELSE End(p, {}) /\ UNCHANGED plans

(* Where an inline call resumes: it appends again whatever it finds in a   *)
(* receiving stage, sealed half-way or not.                                *)
Look(p) ==
  LET o == Op(p) IN
    /\ proc[p].pc = "look"
    /\ UNCHANGED <<Durable, Bounds>>
    /\ \/ Rejected(o) /\ End(p, {"rejected"})
       \/ /\ ~ Rejected(o)
          /\ \/ stages[o].phase = "receiving" /\ Goto(p, IF Content(p) = <<>> THEN "seal" ELSE "append")
             \/ stages[o].phase = "sealed" /\ Goto(p, "seal")
             \/ stages[o].phase = "commit_requested" /\ Goto(p, "authorize")
             \/ stages[o].phase \in {"committed", "rejected", "aborted"} /\ Fail(p)
          /\ UNCHANGED told

(* The importer asks whether the end is frozen before it sends more.       *)
MoreBytes(p) == proc[p].next < Len(Content(p))
Sends(p) == MoreBytes(p) /\ stages[Op(p)].seal = None

(* One step of an import: ask for the state of the stage, then act on it.  *)
Step(p) ==
  LET o == Op(p) IN
    /\ proc[p].pc = "step"
    /\ UNCHANGED <<Durable, Bounds>>
    /\ \/ Committed(o) /\ End(p, {"committed"})
       \/ ~ Committed(o) /\ Rejected(o) /\ End(p, {"rejected"})
       \/ /\ ~ Committed(o) /\ ~ Rejected(o)
          /\ \/ stages[o].phase = "aborted" /\ End(p, {"aborted"})
             \/ /\ stages[o].phase = "receiving"
                /\ Goto(p, IF Sends(p) THEN "append" ELSE "seal")
                /\ UNCHANGED told
             \/ stages[o].phase = "sealed" /\ Goto(p, "authorize") /\ UNCHANGED told
             \/ stages[o].phase = "commit_requested" /\ Goto(p, "commit") /\ UNCHANGED told

-----------------------------------------------------------------------------
(* append_binary_chunk.  A chunk that is stored already must be the same.  *)
Receives(s) == s.phase = "receiving" /\ s.seal = None
Chunks == {c \in Operations \X (1 .. MaxChunks) :
             stages[c[1]] # None /\ c[2] <= Len(stages[c[1]].chunks)}

Append_(p) ==
  LET o == Op(p)
      s == stages[o]
      k == proc[p].next + 1
      more == IF Inline(p) THEN IF k = Len(Content(p)) THEN "seal" ELSE "append" ELSE "step"
      received == proc' = [proc EXCEPT ![p].next = k, ![p].pc = more]
  IN
    /\ proc[p].pc = "append"
    /\ \/ /\ Receives(s) /\ k <= Len(s.chunks)
          /\ IF s.chunks[k] = Bytes(p)[k] THEN received ELSE Fail(p)
          /\ UNCHANGED stages
       \/ /\ Receives(s) /\ k = Len(s.chunks) + 1 /\ Cardinality(Chunks) < MaxChunks
          /\ stages' = [stages EXCEPT ![o].chunks = Append(@, Bytes(p)[k])]
          /\ received
       \/ /\ \/ ~ Receives(s)
             \/ k > Len(s.chunks) + 1
             \/ k = Len(s.chunks) + 1 /\ Cardinality(Chunks) >= MaxChunks
          /\ Fail(p) /\ UNCHANGED stages
    /\ UNCHANGED <<log, heads, plans, told, Bounds>>

(* seal_binary_stage, first transaction: freeze the end and the digest.    *)
Seal(p) ==
  LET s == stages[Op(p)]
      fits == /\ s.phase \in {"receiving", "sealed"}
              /\ IF s.seal = None THEN Len(s.chunks) = Len(Content(p))
                                  ELSE s.seal = Content(p)
  IN
    /\ proc[p].pc = "seal"
    /\ IF fits THEN /\ stages' = [stages EXCEPT ![Op(p)].seal = Content(p)]
                    /\ Goto(p, "verify")
               ELSE Fail(p) /\ UNCHANGED stages
    /\ UNCHANGED <<log, heads, plans, told, Bounds>>

Trusted(s, content) == s.phase \in {"receiving", "sealed"} /\ s.seal = content
Verified(s, content) ==
  s.phase \in {"receiving", "sealed"} /\ s.seal = content /\ s.chunks = s.seal

(* ... second: verify the stored bytes against it.                         *)
Verify(p) ==
  LET s == stages[Op(p)] IN
    /\ proc[p].pc = "verify"
    /\ IF Verified(s, Content(p))
       THEN /\ stages' = [stages EXCEPT ![Op(p)].phase = "sealed"]
            /\ Then(p, "authorize")
       ELSE Fail(p) /\ UNCHANGED stages
    /\ UNCHANGED <<log, heads, plans, told, Bounds>>

-----------------------------------------------------------------------------
(* authorize, first transaction: decide on the original target against a   *)
(* cut of the graph.  "again" repeats it for a plan whose cut is outdated. *)
Authorized(o) == plans[o] # None /\ plans[o].state = "authorized"

Settled(p) ==
  \/ Committed(Op(p)) /\ End(p, {"committed"})
  \/ ~ Committed(Op(p)) /\ Rejected(Op(p)) /\ End(p, {"rejected"})

Authorize(p) ==
  LET o == Op(p) IN
    /\ proc[p].pc = "authorize"
    /\ UNCHANGED <<Durable, Bounds>>
    /\ \/ Settled(p)
       \/ /\ ~ Committed(o) /\ ~ Rejected(o) /\ UNCHANGED told
          /\ \/ /\ Authorized(o) /\ ~ proc[p].again
                /\ IF SameCall(plans[o], p) THEN Then(p, "commit") ELSE Fail(p)
             \/ /\ ~ Authorized(o) \/ proc[p].again
                /\ IF /\ plans[o] = None \/ SameCall(plans[o], p)
                      /\ stages[o].phase \in {"sealed", "commit_requested"}
                   THEN proc' = [proc EXCEPT ![p].pc = "decide", ![p].cut = Cut,
                                             ![p].plan = plans[o]]
                   ELSE Fail(p)

(* ... second: store the authorization, or the rejection, of that cut.     *)
Decide(p) ==
  LET o == Op(p)
      target == stages[o].target
      plan == [state |-> "authorized", target |-> target, original |-> Original(p),
               cut |-> Cut, rejected |-> FALSE]
  IN
    /\ proc[p].pc = "decide"
    /\ UNCHANGED <<log, heads, told, Bounds>>
    /\ \/ /\ \/ Committed(o)
             \/ Record(plans[o]) # Record(proc[p].plan) \/ proc[p].cut # Cut
          /\ Goto(p, IF Committed(o) THEN "commit" ELSE "authorize")
          /\ UNCHANGED <<stages, plans>>
       \/ /\ ~ Committed(o) /\ Record(plans[o]) = Record(proc[p].plan) /\ proc[p].cut = Cut
          /\ stages[o].phase \in {"sealed", "commit_requested"}
          /\ IF Fits(target)
             THEN /\ plans' = [plans EXCEPT ![o] = plan]
                  /\ stages' = [stages EXCEPT ![o].phase = "commit_requested"]
                  /\ proc' = [proc EXCEPT ![p].pc =
                       IF proc[p].again THEN "prepare" ELSE IF Inline(p) THEN "commit" ELSE "step",
                       ![p].again = FALSE]
             ELSE /\ plans' = [plans EXCEPT ![o] =
                       IF Authorized(o) THEN [@ EXCEPT !.rejected = TRUE]
                       ELSE [plan EXCEPT !.state = "rejected", !.rejected = TRUE]]
                  /\ stages' = [stages EXCEPT ![o].phase = "rejected"]
                  /\ Then(p, "commit")
       \/ /\ ~ Committed(o) /\ Record(plans[o]) = Record(proc[p].plan) /\ proc[p].cut = Cut
          /\ stages[o].phase \notin {"sealed", "commit_requested"}
          /\ Fail(p) /\ UNCHANGED <<stages, plans>>

-----------------------------------------------------------------------------
(* commit: look, authorize again if the graph moved on, prepare, finish.   *)
Commit(p) ==
  LET o == Op(p) IN
    /\ proc[p].pc = "commit"
    /\ UNCHANGED <<Durable, Bounds>>
    /\ \/ Settled(p)
       \/ /\ ~ Committed(o) /\ ~ Rejected(o) /\ UNCHANGED told
          /\ \/ ~ Authorized(o) /\ Fail(p)
             \/ /\ Authorized(o)
                /\ proc' = [proc EXCEPT ![p].again = plans[o].cut # Cut,
                     ![p].pc = IF plans[o].cut # Cut THEN "authorize" ELSE "prepare"]

Prepare(p) ==
  LET o == Op(p) IN
    /\ proc[p].pc = "prepare"
    /\ UNCHANGED <<Durable, Bounds>>
    /\ \/ Committed(o) /\ End(p, {"committed"})
       \/ /\ ~ Committed(o) /\ UNCHANGED told
          /\ \/ /\ ~ Authorized(o) \/ stages[o].phase # "commit_requested"
                /\ Fail(p)
             \/ /\ Authorized(o) /\ stages[o].phase = "commit_requested"
                /\ proc' = [proc EXCEPT
                     ![p].pc = IF plans[o].cut = Cut THEN "finish" ELSE "commit",
                     ![p].plan = plans[o]]

(* The final writer: everything becomes visible in one transaction.        *)
Finish(p) ==
  LET o == Op(p)
      target == plans[o].target
  IN
    /\ proc[p].pc = "finish"
    /\ UNCHANGED <<plans, Bounds>>
    /\ \/ Settled(p) /\ UNCHANGED <<log, heads, stages>>
       \/ /\ ~ Committed(o) /\ ~ Rejected(o)
          /\ \/ /\ Record(plans[o]) # Record(proc[p].plan) \/ plans[o].cut # Cut
                /\ Goto(p, "commit")
                /\ UNCHANGED <<log, heads, stages, told>>
             \/ /\ Record(plans[o]) = Record(proc[p].plan) /\ plans[o].cut = Cut
                /\ o \in Oversized
                /\ Goto(p, "oversized")
                /\ UNCHANGED <<log, heads, stages, told>>
             \/ /\ Record(plans[o]) = Record(proc[p].plan) /\ plans[o].cut = Cut
                /\ o \notin Oversized
                /\ log' = Append(log, [by |-> o, entry |-> target.entry,
                                       content |-> stages[o].seal])
                /\ heads' = [heads EXCEPT ![target.entry] = Cut + 1]
                /\ stages' = [stages EXCEPT ![o].phase = "committed"]
                /\ End(p, {"committed"})

(* A receipt that is too large was rolled back; the rejection follows.     *)
RejectOversized(p) ==
  LET o == Op(p) IN
    /\ proc[p].pc = "oversized"
    /\ UNCHANGED <<log, heads, Bounds>>
    /\ \/ Settled(p) /\ UNCHANGED <<stages, plans>>
       \/ /\ ~ Committed(o) /\ ~ Rejected(o) /\ Authorized(o)
          /\ plans' = [plans EXCEPT ![o].rejected = TRUE]
          /\ stages' = [stages EXCEPT ![o].phase = "rejected"]
          /\ End(p, {"rejected"})

-----------------------------------------------------------------------------
(* The user cancels an import that was not authorized yet.                 *)
Cancel(p) ==
  LET o == Op(p) IN
    /\ cancels < MaxCancels
    /\ proc[p].pc = "step"
    /\ ~ Committed(o) /\ ~ Rejected(o)
    /\ stages[o].phase \in {"receiving", "sealed"}
    /\ stages' = [stages EXCEPT ![o].phase = "aborted"]
    /\ cancels' = cancels + 1
    /\ UNCHANGED <<log, heads, plans, proc, told, faults>>

Crash(p) ==
  /\ faults < MaxFaults
  /\ proc[p].pc \notin {"idle", "done"}
  /\ Fail(p)
  /\ faults' = faults + 1
  /\ UNCHANGED <<Durable, told, cancels>>

(* Another command commits, on this file or on something else.             *)
Foreign(e) ==
  /\ Cut < MaxLog
  /\ log' = Append(log, [by |-> None, entry |-> e, content |-> None])
  /\ heads' = [heads EXCEPT ![e] = Cut + 1]
  /\ UNCHANGED <<stages, plans, proc, told, Bounds>>

Unrelated ==
  /\ Cut < MaxLog
  /\ log' = Append(log, [by |-> None, entry |-> None, content |-> None])
  /\ UNCHANGED <<heads, stages, plans, proc, told, Bounds>>

Works(p) ==
  \/ StartInline(p) \/ StartImport(p) \/ Begin(p) \/ Bind(p) \/ Look(p) \/ Step(p)
  \/ Append_(p) \/ Seal(p) \/ Verify(p) \/ Authorize(p) \/ Decide(p)
  \/ Commit(p) \/ Prepare(p) \/ Finish(p) \/ RejectOversized(p)

Next ==
  \/ \E p \in Processes : Works(p) \/ Cancel(p) \/ Crash(p)
  \/ \E e \in Entries : Foreign(e)
  \/ Unrelated

Spec == Init /\ [][Next]_vars

(* Callers repeat a call that failed or died.                              *)
Repeats == \A p \in Processes : WF_vars(Works(p))
FairSpec == Spec /\ Repeats

-----------------------------------------------------------------------------
(* Staged uploads implement FileVersions: whatever dies, is repeated or    *)
(* races, a call publishes its whole content once, on the version it       *)
(* names, or ends without effect for good.                                 *)
Outcome(o) ==
  IF Committed(o) THEN "committed"
  ELSE IF Rejected(o) THEN "rejected"
  ELSE IF stages[o] # None /\ stages[o].phase = "aborted" THEN "aborted"
  ELSE "open"

Callers(o) == {p \in Processes : Op(p) = o}

Files == INSTANCE FileVersions WITH
  calls    <- [o \in Operations |->
                {[entry |-> call[p].entry, expects |-> call[p].expects,
                  content |-> Content(p)] : p \in Callers(o)}],
  versions <- log,
  head     <- heads,
  outcome  <- [o \in Operations |-> Outcome(o)]

StoresFiles == Files!AbsSpec

(* Callers of one operation are never told different outcomes: what they   *)
(* were told is what the database says, and nobody is told that bytes are  *)
(* stored that are not the ones of the call.                               *)
Stored(o, content) == \E k \in 1 .. Cut : log[k].by = o /\ log[k].content = content

ToldTheOutcome ==
  \A o \in Operations : \A t \in told[o] :
    /\ t[1] = Outcome(o)
    /\ t[1] = "committed" => Stored(o, t[2])

(* An import of a file that holds still ends, however often its host dies  *)
(* between two transactions: committed, rejected or aborted.               *)
HoldsStill(o) == \A p \in Callers(o) : Bytes(p) = Content(p)
ImportsEnd ==
  \A p \in Processes : ~ Inline(p) /\ HoldsStill(Op(p)) => <>(proc[p].pc = "done")

(* "Unknown append/seal/commit outcomes query/retry the same stage and     *)
(* operation": so an inline call that is repeated ends as well.            *)
InlineCallsEnd == \A p \in Processes : Inline(p) => <>(proc[p].pc = "done")
=============================================================================
