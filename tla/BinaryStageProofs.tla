--------------------------- MODULE BinaryStageProofs ---------------------------
(***************************************************************************)
(* Proofs about BinaryStage, for every set of processes, operations and    *)
(* entries, whatever the processes call, repeat and race with.             *)
(***************************************************************************)
EXTENDS BinaryStage, TLAPS, SequenceTheorems

-------------------------------------------------------------------------------
(* The inductive invariant.                                                *)

Typed ==
  /\ log \in Seq(Versions)
  /\ heads \in [Entries -> {None} \cup 0 .. Cut]
  /\ stages \in [Operations -> Stages \cup {None}]
  /\ plans \in [Operations -> Plans \cup {None}]
  /\ proc \in [Processes -> Attempts]
  /\ told \in [Operations -> SUBSET (Outcomes \X Seq(Nat))]

(* The rows of an operation, the stage s and its plan, agree with each     *)
(* other and with the graph: what is sealed are the bytes of a call for    *)
(* the target of the stage, only an authorized plan is behind a stage that *)
(* may be published, and while the graph is the one the plan was           *)
(* authorized on, the version it names is the current one.                 *)
StageSound(o, s, plan) ==
  /\ Len(s.chunks) <= s.target.length
  /\ s.phase \in {"sealed", "commit_requested", "committed"} =>
       s.seal # None /\ s.chunks = s.seal
  /\ s.phase = "committed" => Committed(o)
  /\ s.seal # None => \E p \in Callers(o) : Target(p) = s.target /\ s.seal = Content(p)
  /\ s.seal # None /\ s.target.owner = "inline" => plan # None /\ s.seal = plan.original
  /\ s.phase \in {"commit_requested", "committed"} =>
       plan # None /\ plan.state = "authorized"
  /\ s.phase = "rejected" => plan # None /\ plan.rejected

PlanSound(s, plan) ==
  /\ s # None /\ plan.target = s.target
  /\ plan.original # None <=> s.target.owner = "inline"
  /\ plan.rejected => s.phase = "rejected"
  /\ plan.state = "authorized" => s.phase \in {"commit_requested", "committed", "rejected"}
  /\ plan.state = "rejected" => plan.rejected
  /\ plan.cut <= Cut
  /\ plan.state = "authorized" /\ plan.cut = Cut => Fits(plan.target)

RowsSound(o, s, plan) ==
  /\ s # None => StageSound(o, s, plan)
  /\ plan # None => PlanSound(s, plan)
  /\ Committed(o) => s # None /\ s.phase = "committed"
  /\ \A k \in 1 .. Cut : log[k].by = o => log[k].content = s.seal

Sound(o) == RowsSound(o, stages[o], plans[o])

(* The call of p found the stage of its operation to be its own.           *)
Past == {"look", "step", "append", "seal", "verify", "authorize", "decide", "commit",
         "prepare", "finish", "oversized"}

Owns(p) ==
  /\ stages[Op(p)] # None /\ stages[Op(p)].target = Target(p)
  /\ Inline(p) => plans[Op(p)] # None /\ plans[Op(p)].original = Content(p)

(* Where p may stand in its call, as c says.                               *)
Stands(p, c) ==
  /\ c.pc \in Past => Owns(p)
  /\ c.pc \in {"idle", "begin", "bind", "look"} => c.next = 0
  /\ c.pc = "append" => c.next < Len(Content(p))
  /\ c.pc = "bind" => Inline(p) /\ stages[Op(p)] # None
  /\ c.pc = "look" => Inline(p)
  /\ c.pc = "finish" => c.plan # None /\ c.plan.state = "authorized"

Standing(p) == Stands(p, proc[p])

IInv ==
  /\ Typed
  /\ \A o \in Operations : Sound(o)
  /\ \A p \in Processes : Standing(p)
  /\ ToldTheOutcome

LEMMA InvariantsFollow ==
  ASSUME IInv
  PROVE  TypeOK /\ ToldTheOutcome
<1>1. ASSUME NEW o \in Operations, stages[o] # None
      PROVE  /\ stages[o].phase \in Phases
             /\ Len(stages[o].chunks) <= stages[o].target.length
             /\ stages[o].phase \in {"sealed", "commit_requested", "committed"} =>
                  stages[o].chunks = stages[o].seal
             /\ stages[o].phase = "committed" <=> Committed(o)
  <2>1. stages[o] \in Stages
    BY <1>1 DEF IInv, Typed
  <2>2. RowsSound(o, stages[o], plans[o])
    BY DEF IInv, Sound
  <2> QED
    BY <1>1, <2>1, <2>2 DEF Stages, RowsSound, StageSound
<1>2. ASSUME NEW o \in Operations, plans[o] # None
      PROVE  stages[o] # None
  BY <1>2 DEF IInv, Sound, RowsSound, PlanSound
<1> QED
  BY <1>1, <1>2 DEF IInv, Typed, TypeOK

-------------------------------------------------------------------------------
(* Calls and rows.                                                         *)

LEMMA CallFacts ==
  ASSUME NEW p \in Processes
  PROVE  /\ Op(p) \in Operations /\ p \in Callers(Op(p))
         /\ Content(p) \in Seq(Nat) /\ Bytes(p) \in Seq(Nat)
         /\ Len(Bytes(p)) = Len(Content(p))
         /\ Content(p) # None
         /\ Target(p) \in Targets
         /\ Target(p).owner = "inline" <=> Inline(p)
         /\ Target(p).length = Len(Content(p))
         /\ Target(p).entry = call[p].entry /\ Target(p).expects = call[p].expects
<1>1. /\ Op(p) \in Operations /\ p \in Callers(Op(p))
      /\ Content(p) \in Seq(Nat) /\ Bytes(p) \in Seq(Nat)
      /\ Len(Bytes(p)) = Len(Content(p))
  BY BinaryStageAssumption DEF Op, Callers, Content, Bytes
<1>2. Content(p) # None
  BY <1>1, NoneAssumption
<1>3. Len(Content(p)) \in Nat
  BY <1>1
<1>4. /\ call[p].kind \in {"inline", "import"} /\ call[p].entry \in Entries
      /\ call[p].expects \in Nat \cup {None}
  BY BinaryStageAssumption
<1> QED
  BY <1>1, <1>2, <1>3, <1>4 DEF Target, Targets, Inline, Content

LEMMA RowFacts ==
  ASSUME Typed, NEW o \in Operations
  PROVE  /\ stages[o] # None => stages[o] \in Stages
         /\ plans[o] # None => plans[o] \in Plans
         /\ Cut \in Nat
BY DEF Typed, Cut

(* An operation that owns its stage finds its own bytes sealed.            *)
LEMMA OwnSeal ==
  ASSUME NEW p \in Processes, Sound(Op(p)), Owns(p), stages[Op(p)].seal # None
  PROVE  stages[Op(p)].seal = Content(p)
<1> DEFINE o == Op(p)
<1>1. CASE Inline(p)
  BY <1>1, CallFacts DEF Sound, RowsSound, StageSound, Owns
<1>2. CASE ~ Inline(p)
  <2>1. PICK q \in Callers(o) : Target(q) = stages[o].target /\ stages[o].seal = Content(q)
    BY DEF Sound, RowsSound, StageSound, Owns
  <2>2. q \in Processes /\ Op(q) = o
    BY DEF Callers
  <2>3. call[q].kind = "import" /\ call[p].kind = "import"
    BY <1>2, <2>1, <2>2, BinaryStageAssumption DEF Owns, Target, Inline
  <2>4. Content(p) = Content(q)
    BY <2>2, <2>3, BinaryStageAssumption DEF Op, Content
  <2> QED
    BY <2>1, <2>4
<1> QED
  BY <1>1, <1>2

(* A plan that p finds on its own stage is the plan of its own call.       *)
LEMMA OwnPlan ==
  ASSUME NEW p \in Processes, Sound(Op(p)), Owns(p), plans[Op(p)] # None
  PROVE  SameCall(plans[Op(p)], p) /\ plans[Op(p)].original = Original(p)
<1>1. CASE Inline(p)
  BY <1>1 DEF Owns, SameCall, Original
<1>2. CASE ~ Inline(p)
  BY <1>2, CallFacts DEF Owns, SameCall, Original, Sound, RowsSound, PlanSound
<1> QED
  BY <1>1, <1>2

(* The outcome of an operation is what its rows say.                       *)
LEMMA OutcomeFacts ==
  ASSUME NEW o \in Operations, Sound(o), Typed
  PROVE  /\ Outcome(o) = "committed" <=> Committed(o)
         /\ Outcome(o) = "rejected" <=> Rejected(o)
         /\ Outcome(o) = "aborted" <=> stages[o] # None /\ stages[o].phase = "aborted"
         /\ Outcome(o) \in Outcomes \cup {"open"}
<1>1. Committed(o) => stages[o] # None /\ stages[o].phase = "committed"
  BY DEF Sound, RowsSound
<1>2. Rejected(o) => stages[o] # None /\ stages[o].phase = "rejected"
  BY DEF Sound, RowsSound, PlanSound, Rejected
<1> QED
  BY <1>1, <1>2 DEF Outcome, Outcomes

(* What holds of an operation whose stage may be published.                *)
LEMMA AuthorizedFacts ==
  ASSUME NEW o \in Operations, Sound(o), Authorized(o), ~ Committed(o), ~ Rejected(o)
  PROVE  /\ stages[o] # None /\ stages[o].phase = "commit_requested"
         /\ stages[o].seal # None /\ plans[o].target = stages[o].target
         /\ plans[o] # None
BY DEF Sound, RowsSound, StageSound, PlanSound, Authorized, Rejected

-------------------------------------------------------------------------------
(* What every step of a call keeps.                                        *)

(* A stage keeps its target and its seal, a plan its call.                 *)
Grows(o) ==
  /\ stages[o] # None =>
       /\ stages'[o] # None /\ stages'[o].target = stages[o].target
       /\ stages[o].seal # None => stages'[o].seal = stages[o].seal
  /\ plans[o] # None => plans'[o] # None /\ plans'[o].original = plans[o].original

OthersStay(p) == \A o \in Operations \ {Op(p)} : Outcome(o)' = Outcome(o)

(* What FileVersions sees of a step: nothing, an end, or a new version.    *)
Hidden == UNCHANGED <<log, heads>> /\ \A o \in Operations : Outcome(o)' = Outcome(o)

Ended(p) ==
  /\ UNCHANGED <<log, heads>>
  /\ Outcome(Op(p)) = "open" /\ Outcome(Op(p))' \in {"rejected", "aborted"}
  /\ OthersStay(p)

Published(p) ==
  /\ log' = Append(log, [by |-> Op(p), entry |-> call[p].entry, content |-> Content(p)])
  /\ heads[call[p].entry] = call[p].expects
  /\ heads' = [heads EXCEPT ![call[p].entry] = Cut + 1]
  /\ Outcome(Op(p)) = "open" /\ Outcome(Op(p))' = "committed"
  /\ OthersStay(p)

(* A caller that is told something is told the outcome of its operation,   *)
(* and that its own bytes are stored.                                      *)
Tells(p) ==
  \A o \in Operations : \A t \in told'[o] :
    \/ t \in told[o]
    \/ /\ o = Op(p) /\ t = <<Outcome(o)', Content(p)>>
       /\ Outcome(o)' \in Outcomes
       /\ Outcome(o)' = "committed" => stages'[o].seal = Content(p)

Keeps(p) ==
  /\ Typed'
  /\ \A o \in Operations : Sound(o)' /\ Grows(o)
  /\ Hidden \/ Ended(p) \/ Published(p)
  /\ \A q \in Processes \ {p} : proc'[q] = proc[q]
  /\ Standing(p)'
  /\ Tells(p)

LEMMA OwnsStays ==
  ASSUME NEW p \in Processes, Owns(p), Grows(Op(p))
  PROVE  Owns(p)'
BY DEF Owns, Grows

LEMMA StandingStays ==
  ASSUME NEW p \in Processes, Standing(p), Grows(Op(p)), proc'[p] = proc[p]
  PROVE  Standing(p)'
<1>1. Owns(p) => Owns(p)'
  BY OwnsStays
<1>2. stages[Op(p)] # None => stages'[Op(p)] # None
  BY DEF Grows
<1>3. Stands(p, proc[p])
  BY DEF Standing
<1> HIDE DEF Owns, Grows
<1> QED
  BY <1>1, <1>2, <1>3 DEF Standing, Stands

LEMMA LogGrows ==
  ASSUME Typed, NEW v \in Versions, log' = Append(log, v)
  PROVE  /\ Cut \in Nat /\ Cut' = Cut + 1
         /\ \A k \in 1 .. Cut : log'[k] = log[k]
         /\ log'[Cut + 1] = v
         /\ log' \in Seq(Versions)
         /\ \A o \in Operations : v.by # o => (Committed(o)' <=> Committed(o))
         /\ v.by \in Operations => Committed(v.by)'
<1>1. /\ Cut \in Nat /\ Cut' = Cut + 1
      /\ \A k \in 1 .. Cut : log'[k] = log[k]
      /\ log'[Cut + 1] = v
      /\ log' \in Seq(Versions)
  BY DEF Typed, Cut
<1>2. \A k : k \in 1 .. Cut' <=> k \in 1 .. Cut \/ k = Cut + 1
  BY <1>1
<1>3. ASSUME NEW o \in Operations, v.by # o
      PROVE  Committed(o)' <=> Committed(o)
  <2>1. Committed(o)' => Committed(o)
    <3> SUFFICES ASSUME NEW k \in 1 .. Cut', log'[k].by = o
                 PROVE  Committed(o)
      BY DEF Committed
    <3> QED
      BY <1>1, <1>2, <1>3 DEF Committed
  <2>2. Committed(o) => Committed(o)'
    <3> SUFFICES ASSUME NEW k \in 1 .. Cut, log[k].by = o
                 PROVE  Committed(o)'
      BY DEF Committed
    <3> QED
      BY <1>1, <1>2 DEF Committed
  <2> QED
    BY <2>1, <2>2
<1>4. v.by \in Operations => Committed(v.by)'
  BY <1>1, <1>2 DEF Committed
<1> QED
  BY <1>1, <1>3, <1>4

LEMMA VersionOf ==
  ASSUME NEW p \in Processes
  PROVE  [by |-> Op(p), entry |-> call[p].entry, content |-> Content(p)] \in Versions
BY CallFacts, BinaryStageAssumption DEF Versions

(* What a caller was told stays true, and what it is told is true.         *)
LEMMA ToldStays ==
  ASSUME IInv, NEW p \in Processes, Keeps(p)
  PROVE  ToldTheOutcome'
<1> SUFFICES ASSUME NEW o \in Operations, NEW t \in told'[o]
             PROVE  /\ t[1] = Outcome(o)'
                    /\ t[1] = "committed" => Stored(o, t[2])'
  BY DEF ToldTheOutcome
<1>1. CASE t \in told[o]
  <2>1. /\ t[1] = Outcome(o) /\ t[1] \in Outcomes
        /\ t[1] = "committed" => Stored(o, t[2])
    BY <1>1 DEF IInv, ToldTheOutcome, Typed
  <2>2. Outcome(o) # "open"
    BY <2>1 DEF Outcomes
  <2>3. Outcome(o)' = Outcome(o)
    BY <2>2 DEF Keeps, Hidden, Ended, Published, OthersStay
  <2>4. ASSUME Stored(o, t[2])
        PROVE  Stored(o, t[2])'
    <3>1. PICK k \in 1 .. Cut : log[k].by = o /\ log[k].content = t[2]
      BY <2>4 DEF Stored
    <3>2. CASE log' = log
      BY <3>1, <3>2 DEF Stored, Cut
    <3>3. CASE log' = Append(log, [by |-> Op(p), entry |-> call[p].entry,
                                   content |-> Content(p)])
      <4>1. Cut \in Nat /\ Cut' = Cut + 1 /\ \A j \in 1 .. Cut : log'[j] = log[j]
        BY <3>3, VersionOf, LogGrows DEF IInv
      <4>2. k \in 1 .. Cut'
        BY <4>1
      <4> QED
        BY <3>1, <4>1, <4>2 DEF Stored
    <3> QED
      BY <3>2, <3>3 DEF Keeps, Hidden, Ended, Published
  <2> QED
    BY <2>1, <2>3, <2>4
<1>2. CASE t \notin told[o]
  <2>1. /\ o = Op(p) /\ t = <<Outcome(o)', Content(p)>>
        /\ Outcome(o)' = "committed" => stages'[o].seal = Content(p)
    BY <1>2 DEF Keeps, Tells
  <2>2. ASSUME Outcome(o)' = "committed"
        PROVE  Stored(o, Content(p))'
    <3>1. Committed(o)'
      BY <2>2 DEF Outcome
    <3>2. PICK k \in 1 .. Cut' : log'[k].by = o
      BY <3>1 DEF Committed
    <3>3. log'[k].content = stages'[o].seal
      BY <3>2 DEF Keeps, Sound, RowsSound
    <3> QED
      BY <2>1, <2>2, <3>2, <3>3 DEF Stored
  <2> QED
    BY <2>1, <2>2
<1> QED
  BY <1>1, <1>2

LEMMA KeepsInvariant ==
  ASSUME IInv, NEW p \in Processes, Keeps(p)
  PROVE  IInv'
<1>1. ASSUME NEW q \in Processes
      PROVE  Standing(q)'
  <2>1. CASE q = p
    BY <2>1 DEF Keeps
  <2>2. CASE q # p
    <3>1. Standing(q) /\ Op(q) \in Operations
      BY CallFacts DEF IInv
    <3>2. Grows(Op(q)) /\ proc'[q] = proc[q]
      BY <2>2, <3>1 DEF Keeps
    <3> QED
      BY <3>1, <3>2, StandingStays
  <2> QED
    BY <2>1, <2>2
<1>2. Typed' /\ \A o \in Operations : Sound(o)'
  BY DEF Keeps
<1> QED
  BY <1>1, <1>2, ToldStays DEF IInv

-------------------------------------------------------------------------------
(* Steps that leave the rows alone.                                        *)

LEMMA IdleTyped ==
  /\ Idle \in Attempts /\ [Idle EXCEPT !.pc = "done"] \in Attempts
  /\ Idle.pc = "idle" /\ Idle.next = 0
BY DEF Idle, Attempts, Points

LEMMA DoneStands ==
  ASSUME NEW p
  PROVE  Stands(p, [Idle EXCEPT !.pc = "done"]) /\ Stands(p, Idle)
BY DEF Idle, Stands, Past

LEMMA EndTells ==
  ASSUME Typed, NEW p \in Processes, NEW outcome, End(p, outcome),
         \A end \in outcome :
           /\ end = Outcome(Op(p))' /\ end \in Outcomes
           /\ end = "committed" => stages'[Op(p)].seal = Content(p)
  PROVE  /\ Tells(p) /\ told' \in [Operations -> SUBSET (Outcomes \X Seq(Nat))]
         /\ proc' \in [Processes -> Attempts]
         /\ \A q \in Processes \ {p} : proc'[q] = proc[q]
         /\ proc'[p] = [Idle EXCEPT !.pc = "done"]
<1> DEFINE o == Op(p)
           new == {<<end, Content(p)>> : end \in outcome}
<1>1. told' = [told EXCEPT ![o] = told[o] \cup new]
  BY DEF End
<1>2. told \in [Operations -> SUBSET (Outcomes \X Seq(Nat))] /\ o \in Operations
  BY CallFacts DEF Typed
<1>3. new \subseteq Outcomes \X Seq(Nat)
  BY CallFacts
<1>4. \A t \in new : /\ t = <<Outcome(o)', Content(p)>> /\ Outcome(o)' \in Outcomes
                     /\ Outcome(o)' = "committed" => stages'[o].seal = Content(p)
  OBVIOUS
<1> HIDE DEF new
<1>5. told' \in [Operations -> SUBSET (Outcomes \X Seq(Nat))]
  BY <1>1, <1>2, <1>3
<1>6. Tells(p)
  <2> SUFFICES ASSUME NEW x \in Operations, NEW t \in told'[x], t \notin told[x]
               PROVE  /\ x = o /\ t = <<Outcome(x)', Content(p)>>
                      /\ Outcome(x)' \in Outcomes
                      /\ Outcome(x)' = "committed" => stages'[x].seal = Content(p)
    BY DEF Tells
  <2>1. x = o
    BY <1>1, <1>2
  <2>2. t \in new
    BY <1>1, <1>2, <2>1
  <2> QED
    BY <1>4, <2>1, <2>2
<1>7. /\ proc' \in [Processes -> Attempts]
      /\ \A q \in Processes \ {p} : proc'[q] = proc[q]
      /\ proc'[p] = [Idle EXCEPT !.pc = "done"]
  BY IdleTyped DEF End, Typed
<1> QED
  BY <1>5, <1>6, <1>7

LEMMA MoveTells ==
  ASSUME Typed, NEW p, told' = told
  PROVE  Tells(p) /\ told' \in [Operations -> SUBSET (Outcomes \X Seq(Nat))]
BY DEF Tells, Typed

LEMMA DurableStays ==
  ASSUME IInv, UNCHANGED Durable
  PROVE  /\ log' \in Seq(Versions) /\ heads' \in [Entries -> {None} \cup 0 .. Cut']
         /\ stages' \in [Operations -> Stages \cup {None}]
         /\ plans' \in [Operations -> Plans \cup {None}]
         /\ \A o \in Operations : Sound(o)' /\ Grows(o)
         /\ Hidden
<1>1. /\ log' = log /\ heads' = heads /\ stages' = stages /\ plans' = plans
  BY DEF Durable
<1>2. Cut' = Cut /\ \A o : Committed(o)' = Committed(o) /\ Rejected(o)' = Rejected(o)
  BY <1>1 DEF Cut, Committed, Rejected
<1>3. \A o \in Operations : Outcome(o)' = Outcome(o)
  BY <1>1, <1>2 DEF Outcome
<1>4. \A o \in Operations : Grows(o)
  BY <1>1 DEF Grows
<1>5. ASSUME NEW o \in Operations
      PROVE  Sound(o)'
  <2>1. RowsSound(o, stages[o], plans[o])
    BY DEF IInv, Sound
  <2> QED
    BY <1>1, <1>2, <2>1 DEF Sound, RowsSound, StageSound, PlanSound, Fits
<1> QED
  BY <1>1, <1>2, <1>3, <1>4, <1>5 DEF IInv, Typed, Hidden

LEMMA QuietEnd ==
  ASSUME IInv, NEW p \in Processes, NEW outcome, UNCHANGED Durable, End(p, outcome),
         \A end \in outcome :
           /\ end = Outcome(Op(p)) /\ end \in Outcomes
           /\ end = "committed" => stages[Op(p)].seal = Content(p)
  PROVE  Keeps(p)
<1>1. Typed
  BY DEF IInv
<1>2. Outcome(Op(p))' = Outcome(Op(p)) /\ stages' = stages
  BY DurableStays, CallFacts DEF Hidden, Durable
<1>3. /\ Tells(p) /\ told' \in [Operations -> SUBSET (Outcomes \X Seq(Nat))]
      /\ proc' \in [Processes -> Attempts]
      /\ \A q \in Processes \ {p} : proc'[q] = proc[q]
      /\ proc'[p] = [Idle EXCEPT !.pc = "done"]
  BY <1>1, <1>2, EndTells
<1>4. Standing(p)'
  BY <1>3 DEF Standing, Stands, Idle, Past
<1> QED
  BY <1>3, <1>4, DurableStays DEF Keeps, Typed

LEMMA QuietMove ==
  ASSUME IInv, NEW p \in Processes, NEW c \in Attempts, UNCHANGED Durable, told' = told,
         proc' = [proc EXCEPT ![p] = c], Stands(p, c)
  PROVE  Keeps(p)
<1>1. Typed
  BY DEF IInv
<1>2. stages' = stages /\ plans' = plans
  BY DEF Durable
<1>3. /\ proc' \in [Processes -> Attempts] /\ proc'[p] = c
      /\ \A q \in Processes \ {p} : proc'[q] = proc[q]
  BY <1>1 DEF Typed
<1>4. Owns(p)' <=> Owns(p)
  BY <1>2 DEF Owns
<1>5. Standing(p)'
  BY <1>2, <1>3, <1>4 DEF Standing, Stands
<1> QED
  BY <1>1, <1>3, <1>5, DurableStays, MoveTells DEF Keeps, Typed

(* The point of a call, as a record.                                       *)
LEMMA GotoRecord ==
  ASSUME Typed, NEW p \in Processes, NEW pc \in Points, Goto(p, pc)
  PROVE  \E c \in Attempts :
           /\ proc' = [proc EXCEPT ![p] = c] /\ c.pc = pc
           /\ c.next = proc[p].next /\ c.plan = proc[p].plan
<1> DEFINE c == [proc[p] EXCEPT !.pc = pc]
<1>1. proc[p] \in Attempts
  BY DEF Typed
<1>2. c \in Attempts /\ c.pc = pc /\ c.next = proc[p].next /\ c.plan = proc[p].plan
  BY <1>1 DEF Attempts
<1>3. proc' = [proc EXCEPT ![p] = c]
  BY DEF Goto
<1> HIDE DEF c
<1> QED
  BY <1>2, <1>3

LEMMA QuietFail ==
  ASSUME IInv, NEW p \in Processes, UNCHANGED Durable, told' = told, Fail(p)
  PROVE  Keeps(p)
BY QuietMove, IdleTyped, DoneStands DEF Fail

LEMMA QuietGoto ==
  ASSUME IInv, NEW p \in Processes, NEW pc \in Points, UNCHANGED Durable, told' = told,
         Goto(p, pc),
         pc \in Past => Owns(p),
         pc \in {"idle", "begin", "bind", "look"} => proc[p].next = 0,
         pc = "append" => proc[p].next < Len(Content(p)),
         pc = "bind" => Inline(p) /\ stages[Op(p)] # None,
         pc = "look" => Inline(p),
         pc # "finish"
  PROVE  Keeps(p)
<1>1. PICK c \in Attempts :
         /\ proc' = [proc EXCEPT ![p] = c] /\ c.pc = pc
         /\ c.next = proc[p].next /\ c.plan = proc[p].plan
  BY GotoRecord DEF IInv
<1>2. Stands(p, c)
  BY <1>1 DEF Stands
<1> QED
  BY <1>1, <1>2, QuietMove

(* What p is told about an operation whose stage is its own.               *)
LEMMA OwnEnd ==
  ASSUME IInv, NEW p \in Processes, Owns(p)
  PROVE  /\ Committed(Op(p)) => Outcome(Op(p)) = "committed" /\ stages[Op(p)].seal = Content(p)
         /\ Rejected(Op(p)) => Outcome(Op(p)) = "rejected"
         /\ stages[Op(p)].phase = "aborted" => Outcome(Op(p)) = "aborted"
<1> DEFINE o == Op(p)
<1>1. o \in Operations /\ Typed /\ Sound(o)
  BY CallFacts DEF IInv
<1>2. ASSUME Committed(o)
      PROVE  stages[o].seal = Content(p)
  <2>1. stages[o].seal # None
    BY <1>1, <1>2 DEF Sound, RowsSound, StageSound
  <2> QED
    BY <1>1, <2>1, OwnSeal
<1> QED
  BY <1>1, <1>2, OutcomeFacts DEF Owns

LEMMA SettledKeeps ==
  ASSUME IInv, NEW p \in Processes, Owns(p), UNCHANGED Durable, Settled(p)
  PROVE  Keeps(p)
<1>1. CASE Committed(Op(p)) /\ End(p, {"committed"})
  BY <1>1, OwnEnd, QuietEnd DEF Outcomes
<1>2. CASE Rejected(Op(p)) /\ End(p, {"rejected"})
  BY <1>2, OwnEnd, QuietEnd DEF Outcomes
<1> QED
  BY <1>1, <1>2 DEF Settled

LEMMA Stands_ ==
  ASSUME IInv, NEW p \in Processes
  PROVE  /\ Stands(p, proc[p]) /\ proc[p] \in Attempts /\ Typed /\ Op(p) \in Operations
         /\ Sound(Op(p))
BY CallFacts DEF IInv, Typed, Standing

LEMMA StartInlineKeeps ==
  ASSUME IInv, NEW p \in Processes, StartInline(p)
  PROVE  Keeps(p)
<1> DEFINE o == Op(p)
<1>1. /\ UNCHANGED Durable /\ Inline(p) /\ proc[p].next = 0
      /\ o \in Operations /\ Typed /\ Sound(o)
  BY Stands_ DEF StartInline, Stands
<1>2. CASE Committed(o) /\ End(p, IF SameCall(plans[o], p) THEN {"committed"} ELSE {})
  <2>1. CASE SameCall(plans[o], p)
    <3>1. stages[o] # None /\ stages[o].phase = "committed"
      BY <1>1, <1>2 DEF Sound, RowsSound
    <3>2. /\ stages[o].seal # None
          /\ plans[o] # None /\ plans[o].original = Content(p)
      BY <1>1, <2>1, <3>1 DEF Sound, RowsSound, StageSound, SameCall, Original
    <3>3. stages[o].target.owner = "inline"
      BY <1>1, <3>2, CallFacts DEF Sound, RowsSound, PlanSound
    <3>4. stages[o].seal = Content(p)
      BY <1>1, <3>1, <3>2, <3>3 DEF Sound, RowsSound, StageSound
    <3>5. Outcome(o) = "committed"
      BY <1>2 DEF Outcome
    <3> QED
      BY <1>1, <1>2, <2>1, <3>4, <3>5, QuietEnd DEF Outcomes
  <2>2. CASE ~ SameCall(plans[o], p)
    BY <1>1, <1>2, <2>2, QuietEnd
  <2> QED
    BY <2>1, <2>2
<1>3. CASE End(p, {})
  BY <1>1, <1>3, QuietEnd
<1>4. CASE Goto(p, "bind") /\ stages[o] # None /\ UNCHANGED told
  BY <1>1, <1>4, QuietGoto DEF Points, Past
<1>5. CASE Goto(p, "begin") /\ UNCHANGED told
  BY <1>1, <1>5, QuietGoto DEF Points, Past
<1>6. plans[o] # None => stages[o] # None
  BY <1>1 DEF Sound, RowsSound, PlanSound
<1>7. \/ Committed(o) /\ End(p, IF SameCall(plans[o], p) THEN {"committed"} ELSE {})
      \/ End(p, {})
      \/ Goto(p, "bind") /\ stages[o] # None /\ UNCHANGED told
      \/ Goto(p, "begin") /\ UNCHANGED told
  BY <1>6 DEF StartInline
<1> QED
  BY <1>2, <1>3, <1>4, <1>5, <1>7

LEMMA StartImportKeeps ==
  ASSUME IInv, NEW p \in Processes, StartImport(p)
  PROVE  Keeps(p)
<1> DEFINE o == Op(p)
<1>1. /\ UNCHANGED Durable /\ ~ Inline(p) /\ proc[p].next = 0
  BY Stands_ DEF StartImport, Stands
<1>2. \/ End(p, {})
      \/ Goto(p, "begin") /\ UNCHANGED told
      \/ Goto(p, "step") /\ Owns(p) /\ UNCHANGED told
  BY <1>1 DEF StartImport, Owns
<1>3. CASE End(p, {})
  BY <1>1, <1>3, QuietEnd
<1>4. CASE Goto(p, "begin") /\ UNCHANGED told
  BY <1>1, <1>4, QuietGoto DEF Points, Past
<1>5. CASE Goto(p, "step") /\ Owns(p) /\ UNCHANGED told
  BY <1>1, <1>5, QuietGoto DEF Points, Past
<1> QED
  BY <1>2, <1>3, <1>4, <1>5

LEMMA LookKeeps ==
  ASSUME IInv, NEW p \in Processes, Look(p)
  PROVE  Keeps(p)
<1>1. /\ UNCHANGED Durable /\ Owns(p) /\ Inline(p) /\ proc[p].next = 0
  BY Stands_ DEF Look, Stands, Past
<1>2. Content(p) # <<>> => 0 < Len(Content(p))
  BY CallFacts
<1>3. CASE Rejected(Op(p)) /\ End(p, {"rejected"})
  BY <1>1, <1>3, OwnEnd, QuietEnd DEF Outcomes
<1>4. CASE Goto(p, "append") /\ Content(p) # <<>> /\ UNCHANGED told
  BY <1>1, <1>2, <1>4, QuietGoto DEF Points, Past
<1>5. CASE Goto(p, "seal") /\ UNCHANGED told
  BY <1>1, <1>5, QuietGoto DEF Points, Past
<1>6. CASE Goto(p, "authorize") /\ UNCHANGED told
  BY <1>1, <1>6, QuietGoto DEF Points, Past
<1>7. CASE Fail(p) /\ UNCHANGED told
  BY <1>1, <1>7, QuietFail
<1> QED
  BY <1>3, <1>4, <1>5, <1>6, <1>7 DEF Look

LEMMA StepKeeps ==
  ASSUME IInv, NEW p \in Processes, Step(p)
  PROVE  Keeps(p)
<1>1. UNCHANGED Durable /\ Owns(p)
  BY Stands_ DEF Step, Stands, Past
<1>2. CASE Committed(Op(p)) /\ End(p, {"committed"})
  BY <1>1, <1>2, OwnEnd, QuietEnd DEF Outcomes
<1>3. CASE Rejected(Op(p)) /\ End(p, {"rejected"})
  BY <1>1, <1>3, OwnEnd, QuietEnd DEF Outcomes
<1>4. CASE stages[Op(p)].phase = "aborted" /\ End(p, {"aborted"})
  BY <1>1, <1>4, OwnEnd, QuietEnd DEF Outcomes
<1>5. CASE Goto(p, "append") /\ proc[p].next < Len(Content(p)) /\ UNCHANGED told
  BY <1>1, <1>5, QuietGoto DEF Points, Past
<1>6. CASE \E pc \in {"seal", "authorize", "commit"} : Goto(p, pc) /\ UNCHANGED told
  BY <1>1, <1>6, QuietGoto DEF Points, Past
<1> QED
  BY <1>2, <1>3, <1>4, <1>5, <1>6 DEF Step, Sends, MoreBytes

LEMMA AuthorizeKeeps ==
  ASSUME IInv, NEW p \in Processes, Authorize(p)
  PROVE  Keeps(p)
<1>1. UNCHANGED Durable /\ Owns(p) /\ Typed /\ proc[p] \in Attempts /\ Op(p) \in Operations
  BY Stands_ DEF Authorize, Stands, Past
<1>2. CASE Settled(p)
  BY <1>1, <1>2, SettledKeeps
<1>3. CASE Goto(p, "commit") /\ UNCHANGED told
  BY <1>1, <1>3, QuietGoto DEF Points, Past
<1>4. CASE Goto(p, "step") /\ ~ Inline(p) /\ UNCHANGED told
  BY <1>1, <1>4, QuietGoto DEF Points, Past
<1>5. CASE Fail(p) /\ UNCHANGED told
  BY <1>1, <1>5, QuietFail
<1>6. CASE /\ proc' = [proc EXCEPT ![p].pc = "decide", ![p].cut = Cut, ![p].plan = plans[Op(p)]]
           /\ UNCHANGED told
  <2> DEFINE c == [proc[p] EXCEPT !.pc = "decide", !.cut = Cut, !.plan = plans[Op(p)]]
  <2>1. plans[Op(p)] \in Plans \cup {None} /\ Cut \in Nat
    BY <1>1, RowFacts
  <2>2. c \in Attempts /\ c.pc = "decide"
    BY <1>1, <2>1 DEF Attempts, Points
  <2>3. proc' = [proc EXCEPT ![p] = c]
    BY <1>6
  <2>4. Stands(p, c)
    BY <1>1, <2>2 DEF Stands
  <2> HIDE DEF c
  <2> QED
    BY <1>1, <1>6, <2>2, <2>3, <2>4, QuietMove
<1> QED
  BY <1>2, <1>3, <1>4, <1>5, <1>6 DEF Authorize, Then

LEMMA CommitKeeps ==
  ASSUME IInv, NEW p \in Processes, Commit(p)
  PROVE  Keeps(p)
<1>1. UNCHANGED Durable /\ Owns(p) /\ Typed /\ proc[p] \in Attempts /\ Op(p) \in Operations
  BY Stands_ DEF Commit, Stands, Past
<1>2. CASE Settled(p)
  BY <1>1, <1>2, SettledKeeps
<1>3. CASE Fail(p) /\ UNCHANGED told
  BY <1>1, <1>3, QuietFail
<1>4. ASSUME NEW again \in BOOLEAN, NEW pc \in {"authorize", "prepare"}, UNCHANGED told,
             proc' = [proc EXCEPT ![p].again = again, ![p].pc = pc]
      PROVE  Keeps(p)
  <2> DEFINE c == [proc[p] EXCEPT !.again = again, !.pc = pc]
  <2>1. c \in Attempts /\ c.pc = pc
    BY <1>1 DEF Attempts, Points
  <2>2. proc' = [proc EXCEPT ![p] = c]
    BY <1>4
  <2>3. Stands(p, c)
    BY <1>1, <2>1 DEF Stands
  <2> HIDE DEF c
  <2> QED
    BY <1>1, <1>4, <2>1, <2>2, <2>3, QuietMove
<1>5. CASE /\ proc' = [proc EXCEPT ![p].again = plans[Op(p)].cut # Cut,
                         ![p].pc = IF plans[Op(p)].cut # Cut THEN "authorize" ELSE "prepare"]
           /\ UNCHANGED told
  <2>1. CASE plans[Op(p)].cut # Cut
    BY <1>4, <1>5, <2>1
  <2>2. CASE plans[Op(p)].cut = Cut
    BY <1>4, <1>5, <2>2
  <2> QED
    BY <2>1, <2>2
<1> QED
  BY <1>2, <1>3, <1>5 DEF Commit

LEMMA PrepareKeeps ==
  ASSUME IInv, NEW p \in Processes, Prepare(p)
  PROVE  Keeps(p)
<1> DEFINE o == Op(p)
<1>1. UNCHANGED Durable /\ Owns(p) /\ Typed /\ proc[p] \in Attempts /\ o \in Operations
  BY Stands_ DEF Prepare, Stands, Past
<1>2. CASE Committed(o) /\ End(p, {"committed"})
  BY <1>1, <1>2, OwnEnd, QuietEnd DEF Outcomes
<1>3. CASE Fail(p) /\ UNCHANGED told
  BY <1>1, <1>3, QuietFail
<1>4. ASSUME NEW pc \in {"finish", "commit"}, Authorized(o), UNCHANGED told,
             proc' = [proc EXCEPT ![p].pc = pc, ![p].plan = plans[o]]
      PROVE  Keeps(p)
  <2> DEFINE c == [proc[p] EXCEPT !.pc = pc, !.plan = plans[o]]
  <2>1. plans[o] \in Plans \cup {None}
    BY <1>1, RowFacts
  <2>2. c \in Attempts /\ c.pc = pc /\ c.plan = plans[o]
    BY <1>1, <2>1 DEF Attempts, Points
  <2>3. proc' = [proc EXCEPT ![p] = c]
    BY <1>4
  <2> HIDE DEF c
  <2>4. Stands(p, c)
    BY <1>1, <1>4, <2>2 DEF Stands, Authorized
  <2> QED
    BY <1>1, <1>4, <2>2, <2>3, <2>4, QuietMove
<1>5. CASE /\ Authorized(o) /\ UNCHANGED told
           /\ proc' = [proc EXCEPT ![p].pc = IF plans[o].cut = Cut THEN "finish" ELSE "commit",
                                   ![p].plan = plans[o]]
  <2>1. CASE plans[o].cut = Cut
    BY <1>4, <1>5, <2>1
  <2>2. CASE plans[o].cut # Cut
    BY <1>4, <1>5, <2>2
  <2> QED
    BY <2>1, <2>2
<1> QED
  BY <1>2, <1>3, <1>5 DEF Prepare

LEMMA CrashKeeps ==
  ASSUME IInv, NEW p \in Processes, Crash(p)
  PROVE  Keeps(p)
BY QuietFail DEF Crash

-------------------------------------------------------------------------------
(* Steps that change the rows of their operation.                          *)

GrowsTo(o, s, plan) ==
  /\ stages[o] # None =>
       s.target = stages[o].target /\ (stages[o].seal # None => s.seal = stages[o].seal)
  /\ plans[o] # None => plan # None /\ plan.original = plans[o].original

(* The outcome stays as it is, or an open operation ends without effect.   *)
SameEnd(o, s, plan) ==
  /\ s.phase = "aborted" <=> stages[o] # None /\ stages[o].phase = "aborted"
  /\ plan # None /\ plan.rejected <=> Rejected(o)
EndsNow(o, s, plan) ==
  /\ Outcome(o) = "open"
  /\ (plan # None /\ plan.rejected) \/ s.phase = "aborted"

LEMMA RowStep ==
  ASSUME IInv, NEW o \in Operations, NEW s \in Stages, NEW plan \in Plans \cup {None},
         stages' = [stages EXCEPT ![o] = s], plans' = [plans EXCEPT ![o] = plan],
         UNCHANGED <<log, heads>>, RowsSound(o, s, plan), GrowsTo(o, s, plan)
  PROVE  /\ log' \in Seq(Versions) /\ heads' \in [Entries -> {None} \cup 0 .. Cut']
         /\ stages' \in [Operations -> Stages \cup {None}]
         /\ plans' \in [Operations -> Plans \cup {None}]
         /\ \A x \in Operations : Sound(x)' /\ Grows(x)
         /\ \A x \in Operations \ {o} : Outcome(x)' = Outcome(x)
         /\ stages'[o] = s /\ plans'[o] = plan /\ s # None
         /\ SameEnd(o, s, plan) => Outcome(o)' = Outcome(o)
         /\ EndsNow(o, s, plan) => Outcome(o)' \in {"rejected", "aborted"}
<1>1. /\ log' = log /\ heads' = heads
      /\ stages' \in [Operations -> Stages \cup {None}]
      /\ plans' \in [Operations -> Plans \cup {None}]
      /\ stages'[o] = s /\ plans'[o] = plan
      /\ \A x \in Operations \ {o} : stages'[x] = stages[x] /\ plans'[x] = plans[x]
  BY DEF IInv, Typed
<1>2. Cut' = Cut /\ \A x : Committed(x)' = Committed(x)
  BY <1>1 DEF Cut, Committed
<1>3. s # None
  BY NoneAssumption
<1>4. ASSUME NEW x \in Operations
      PROVE  Sound(x)'
  <2>1. RowsSound(x, stages'[x], plans'[x])
    <3>1. CASE x = o
      BY <1>1, <3>1
    <3>2. CASE x # o
      BY <1>1, <3>2 DEF IInv, Sound
    <3> QED
      BY <3>1, <3>2
  <2> QED
    BY <1>1, <1>2, <2>1 DEF Sound, RowsSound, StageSound, PlanSound, Fits
<1>5. ASSUME NEW x \in Operations
      PROVE  Grows(x)
  <2>1. CASE x = o
    BY <1>1, <1>3, <2>1 DEF Grows, GrowsTo
  <2>2. CASE x # o
    BY <1>1, <2>2 DEF Grows
  <2> QED
    BY <2>1, <2>2
<1>6. ASSUME NEW x \in Operations \ {o}
      PROVE  Outcome(x)' = Outcome(x)
  BY <1>1, <1>2 DEF Outcome, Rejected
<1>7. ASSUME SameEnd(o, s, plan)
      PROVE  Outcome(o)' = Outcome(o)
  BY <1>1, <1>2, <1>3, <1>7 DEF Outcome, Rejected, SameEnd
<1>8. ASSUME EndsNow(o, s, plan)
      PROVE  Outcome(o)' \in {"rejected", "aborted"}
  BY <1>1, <1>2, <1>3, <1>8 DEF Outcome, Rejected, EndsNow
<1> QED
  BY <1>1, <1>2, <1>3, <1>4, <1>5, <1>6, <1>7, <1>8 DEF IInv, Typed

LEMMA RowMove ==
  ASSUME IInv, NEW p \in Processes, NEW s \in Stages, NEW plan \in Plans \cup {None},
         NEW c \in Attempts,
         stages' = [stages EXCEPT ![Op(p)] = s], plans' = [plans EXCEPT ![Op(p)] = plan],
         UNCHANGED <<log, heads, told>>, proc' = [proc EXCEPT ![p] = c],
         RowsSound(Op(p), s, plan), GrowsTo(Op(p), s, plan),
         SameEnd(Op(p), s, plan) \/ EndsNow(Op(p), s, plan),
         s.target = Target(p),
         c.pc \in Past /\ Inline(p) => plan # None /\ plan.original = Content(p),
         c.pc \in {"idle", "begin", "bind", "look"} => c.next = 0,
         c.pc = "append" => c.next < Len(Content(p)),
         c.pc \in {"bind", "look"} => Inline(p),
         c.pc # "finish"
  PROVE  Keeps(p)
<1> DEFINE o == Op(p)
<1>1. Typed /\ o \in Operations
  BY Stands_
<1>2. /\ log' \in Seq(Versions) /\ heads' \in [Entries -> {None} \cup 0 .. Cut']
      /\ stages' \in [Operations -> Stages \cup {None}]
      /\ plans' \in [Operations -> Plans \cup {None}]
      /\ \A x \in Operations : Sound(x)' /\ Grows(x)
      /\ \A x \in Operations \ {o} : Outcome(x)' = Outcome(x)
      /\ stages'[o] = s /\ plans'[o] = plan /\ s # None
      /\ SameEnd(o, s, plan) => Outcome(o)' = Outcome(o)
      /\ EndsNow(o, s, plan) => Outcome(o)' \in {"rejected", "aborted"}
  BY <1>1, RowStep
<1>3. /\ proc' \in [Processes -> Attempts] /\ proc'[p] = c
      /\ \A q \in Processes \ {p} : proc'[q] = proc[q]
  BY <1>1 DEF Typed
<1>4. Standing(p)'
  BY <1>2, <1>3 DEF Standing, Stands, Owns
<1>5. Hidden \/ Ended(p)
  BY <1>2 DEF Hidden, Ended, OthersStay, EndsNow
<1>6. Tells(p) /\ told' \in [Operations -> SUBSET (Outcomes \X Seq(Nat))]
  BY <1>1, MoveTells
<1> QED
  BY <1>2, <1>3, <1>4, <1>5, <1>6 DEF Keeps, Typed

LEMMA SamePlans ==
  ASSUME Typed, NEW o, plans' = plans
  PROVE  plans' = [plans EXCEPT ![o] = plans[o]]
BY DEF Typed

LEMMA SameStages ==
  ASSUME Typed, NEW o, stages' = stages
  PROVE  stages' = [stages EXCEPT ![o] = stages[o]]
BY DEF Typed

LEMMA BeginKeeps ==
  ASSUME IInv, NEW p \in Processes, Begin(p)
  PROVE  Keeps(p)
<1> DEFINE o == Op(p)
<1>1. /\ Typed /\ o \in Operations /\ Sound(o) /\ proc[p].next = 0
      /\ UNCHANGED <<log, heads, plans>>
  BY Stands_ DEF Begin, Stands
<1>2. CASE stages[o] # None /\ stages[o].target = Target(p) /\ Then(p, "bind")
           /\ UNCHANGED <<stages, told>>
  <2>1. UNCHANGED Durable
    BY <1>1, <1>2 DEF Durable
  <2>2. CASE Inline(p)
    BY <1>1, <1>2, <2>1, <2>2, QuietGoto DEF Then, Points, Past
  <2>3. CASE ~ Inline(p)
    BY <1>1, <1>2, <2>1, <2>3, QuietGoto DEF Then, Points, Past, Owns
  <2> QED
    BY <2>2, <2>3
<1>3. CASE End(p, {}) /\ UNCHANGED stages
  BY <1>1, <1>3, QuietEnd DEF Durable
<1>4. CASE Fail(p) /\ UNCHANGED <<stages, told>>
  BY <1>1, <1>4, QuietFail DEF Durable
<1>5. CASE /\ stages[o] = None
           /\ stages' = [stages EXCEPT ![o] =
                [phase |-> "receiving", target |-> Target(p), chunks |-> <<>>, seal |-> None]]
           /\ Then(p, "bind") /\ UNCHANGED told
  <2> DEFINE s == [phase |-> "receiving", target |-> Target(p), chunks |-> <<>>, seal |-> None]
  <2>1. /\ s \in Stages /\ s.phase = "receiving" /\ s.target = Target(p)
        /\ s.chunks = <<>> /\ s.seal = None
    BY CallFacts DEF Stages, Phases
  <2>2. stages' = [stages EXCEPT ![o] = s]
    BY <1>5
  <2> HIDE DEF s
  <2>3. plans[o] = None /\ ~ Committed(o) /\ ~ Rejected(o)
    BY <1>1, <1>5 DEF Sound, RowsSound, PlanSound, Rejected
  <2>4. Len(s.chunks) <= s.target.length
    BY <2>1, CallFacts
  <2>5. RowsSound(o, s, plans[o])
    BY <2>1, <2>3, <2>4 DEF RowsSound, StageSound, Committed
  <2>6. GrowsTo(o, s, plans[o]) /\ SameEnd(o, s, plans[o])
    BY <1>5, <2>1, <2>3 DEF GrowsTo, SameEnd
  <2>7. PICK c \in Attempts : /\ proc' = [proc EXCEPT ![p] = c]
                              /\ c.pc = (IF Inline(p) THEN "bind" ELSE "step")
                              /\ c.next = proc[p].next
    BY <1>1, <1>5, GotoRecord DEF Then, Points
  <2>8. plans' = [plans EXCEPT ![o] = plans[o]]
    BY <1>1, SamePlans
  <2> QED
    BY <1>1, <1>5, <2>1, <2>2, <2>3, <2>5, <2>6, <2>7, <2>8, RowMove DEF Past
<1> QED
  BY <1>2, <1>3, <1>4, <1>5 DEF Begin

LEMMA BindKeeps ==
  ASSUME IInv, NEW p \in Processes, Bind(p)
  PROVE  Keeps(p)
<1> DEFINE o == Op(p)
<1>1. /\ Typed /\ o \in Operations /\ Sound(o) /\ proc[p].next = 0 /\ Inline(p)
      /\ stages[o] # None /\ UNCHANGED <<log, heads, stages>>
  BY Stands_ DEF Bind, Stands
<1>2. CASE /\ plans[o] # None /\ SameCall(plans[o], p) /\ plans[o].target = Target(p)
           /\ Goto(p, "look") /\ UNCHANGED <<plans, told>>
  <2>1. Owns(p)
    BY <1>1, <1>2 DEF Owns, SameCall, Original, Sound, RowsSound, PlanSound
  <2> QED
    BY <1>1, <1>2, <2>1, QuietGoto DEF Durable, Points, Past
<1>3. CASE End(p, {}) /\ UNCHANGED plans
  BY <1>1, <1>3, QuietEnd DEF Durable
<1>4. CASE /\ plans[o] = None
           /\ stages[o].target = Target(p) /\ stages[o].phase = "receiving"
           /\ plans' = [plans EXCEPT ![o] =
                [state |-> "inline", target |-> Target(p), original |-> Original(p),
                 cut |-> 0, rejected |-> FALSE]]
           /\ Goto(p, "look") /\ UNCHANGED told
  <2> DEFINE plan == [state |-> "inline", target |-> Target(p), original |-> Original(p),
                      cut |-> 0, rejected |-> FALSE]
  <2>1. /\ plan \in Plans /\ plan.state = "inline" /\ plan.target = Target(p)
        /\ plan.original = Content(p) /\ plan.cut = 0 /\ ~ plan.rejected
    BY <1>1, CallFacts DEF Plans, Original
  <2>2. plans' = [plans EXCEPT ![o] = plan]
    BY <1>4
  <2> HIDE DEF plan
  <2>3. stages[o] \in Stages /\ Cut \in Nat
    BY <1>1, RowFacts
  <2>4. StageSound(o, stages[o], plans[o]) /\ stages[o].seal = None
    BY <1>1, <1>4, CallFacts DEF Sound, RowsSound, StageSound
  <2>5. StageSound(o, stages[o], plan)
    BY <1>4, <2>4 DEF StageSound
  <2>6. PlanSound(stages[o], plan)
    BY <1>1, <1>4, <2>1, <2>3, CallFacts DEF PlanSound
  <2>7. RowsSound(o, stages[o], plan)
    BY <1>1, <2>5, <2>6 DEF Sound, RowsSound
  <2>8. GrowsTo(o, stages[o], plan) /\ SameEnd(o, stages[o], plan)
    BY <1>1, <1>4, <2>1 DEF GrowsTo, SameEnd, Rejected
  <2>9. PICK c \in Attempts : /\ proc' = [proc EXCEPT ![p] = c]
                              /\ c.pc = "look" /\ c.next = proc[p].next
    BY <1>1, <1>4, GotoRecord DEF Points
  <2>10. stages' = [stages EXCEPT ![o] = stages[o]] /\ plan # None
    BY <1>1, <2>1, SameStages, NoneAssumption
  <2> QED
    BY <1>1, <1>4, <2>1, <2>2, <2>3, <2>7, <2>8, <2>9, <2>10, RowMove
<1> QED
  BY <1>2, <1>3, <1>4 DEF Bind

LEMMA AppendKeeps ==
  ASSUME IInv, NEW p \in Processes, Append_(p)
  PROVE  Keeps(p)
<1> DEFINE o == Op(p)
           k == proc[p].next + 1
           more == IF Inline(p) THEN IF k = Len(Content(p)) THEN "seal" ELSE "append" ELSE "step"
           c == [proc[p] EXCEPT !.next = k, !.pc = more]
<1>1. /\ Typed /\ o \in Operations /\ Sound(o) /\ Owns(p) /\ proc[p] \in Attempts
      /\ proc[p].next < Len(Content(p))
      /\ UNCHANGED <<log, heads, plans, told>>
  BY Stands_ DEF Append_, Stands, Past
<1>2. Len(Content(p)) \in Nat /\ Len(Bytes(p)) = Len(Content(p)) /\ Bytes(p) \in Seq(Nat)
  BY CallFacts
<1>3. k \in Nat /\ k \in 1 .. Len(Content(p)) /\ proc[p].next \in Nat
  BY <1>1, <1>2 DEF Attempts
<1>4. c \in Attempts /\ c.next = k /\ c.pc = more
  BY <1>1, <1>3 DEF Attempts, Points
<1>5. more \in {"seal", "append", "step"} /\ (more = "append" => k < Len(Content(p)))
  BY <1>2, <1>3
<1>6. CASE proc' = [proc EXCEPT ![p].next = k, ![p].pc = more] /\ UNCHANGED stages
  <2>1. proc' = [proc EXCEPT ![p] = c]
    BY <1>6
  <2>2. Stands(p, c)
    BY <1>1, <1>4, <1>5 DEF Stands
  <2> HIDE DEF c
  <2> QED
    BY <1>1, <1>4, <1>6, <2>1, <2>2, QuietMove DEF Durable
<1>7. CASE Fail(p) /\ UNCHANGED stages
  BY <1>1, <1>7, QuietFail DEF Durable
<1>8. CASE /\ Receives(stages[o]) /\ k = Len(stages[o].chunks) + 1
           /\ stages' = [stages EXCEPT ![o].chunks = Append(@, Bytes(p)[k])]
           /\ proc' = [proc EXCEPT ![p].next = k, ![p].pc = more]
  <2> DEFINE s == [stages[o] EXCEPT !.chunks = Append(@, Bytes(p)[k])]
  <2>1. stages[o] \in Stages
    BY <1>1, RowFacts DEF Owns
  <2>2. Bytes(p)[k] \in Nat
    BY <1>2, <1>3
  <2>3. stages[o].chunks \in Seq(Nat)
    BY <2>1 DEF Stages
  <2>4. /\ Append(stages[o].chunks, Bytes(p)[k]) \in Seq(Nat)
        /\ Len(Append(stages[o].chunks, Bytes(p)[k])) = k
    BY <1>8, <2>2, <2>3
  <2>5. /\ s \in Stages /\ s.phase = "receiving" /\ s.target = stages[o].target
        /\ s.seal = None /\ Len(s.chunks) = k
    BY <1>8, <2>1, <2>4 DEF Stages, Receives
  <2>6. stages' = [stages EXCEPT ![o] = s]
    BY <1>8
  <2>7. proc' = [proc EXCEPT ![p] = c]
    BY <1>8
  <2> HIDE DEF s, c
  <2>8. Len(s.chunks) <= s.target.length
    BY <1>1, <1>2, <1>3, <2>5, CallFacts DEF Owns
  <2>9. RowsSound(o, stages[o], plans[o]) /\ stages[o] # None /\ stages[o].phase = "receiving"
    BY <1>1, <1>8 DEF Sound, Owns, Receives
  <2>10. RowsSound(o, s, plans[o])
    <3>1. StageSound(o, s, plans[o])
      BY <2>5, <2>8 DEF StageSound
    <3>2. plans[o] # None => PlanSound(s, plans[o])
      BY <2>5, <2>9, NoneAssumption DEF RowsSound, PlanSound
    <3>3. ~ Committed(o)
      BY <2>9 DEF RowsSound
    <3> QED
      BY <3>1, <3>2, <3>3 DEF RowsSound, Committed
  <2>11. GrowsTo(o, s, plans[o]) /\ SameEnd(o, s, plans[o])
    BY <1>8, <2>5, <2>9 DEF GrowsTo, SameEnd, Rejected, Receives
  <2>12. plans' = [plans EXCEPT ![o] = plans[o]] /\ plans[o] \in Plans \cup {None}
    BY <1>1, SamePlans, RowFacts
  <2>13. s.target = Target(p) /\ (Inline(p) => plans[o] # None /\ plans[o].original = Content(p))
    BY <1>1, <2>5 DEF Owns
  <2>14. UNCHANGED <<log, heads, told>>
    BY <1>1
  <2> HIDE DEF more, k
  <2> QED
    BY <1>4, <1>5, <2>5, <2>6, <2>7, <2>10, <2>11, <2>12, <2>13, <2>14, RowMove
<1> QED
  BY <1>6, <1>7, <1>8 DEF Append_

LEMMA SealKeeps ==
  ASSUME IInv, NEW p \in Processes, Seal(p)
  PROVE  Keeps(p)
<1> DEFINE o == Op(p)
<1>1. /\ Typed /\ o \in Operations /\ Sound(o) /\ Owns(p)
      /\ UNCHANGED <<log, heads, plans, told>>
  BY Stands_ DEF Seal, Stands, Past
<1>2. CASE Fail(p) /\ UNCHANGED stages
  BY <1>1, <1>2, QuietFail DEF Durable
<1>3. CASE /\ stages[o].phase \in {"receiving", "sealed"}
           /\ stages[o].seal # None => stages[o].seal = Content(p)
           /\ stages' = [stages EXCEPT ![o].seal = Content(p)]
           /\ Goto(p, "verify")
  <2> DEFINE s == [stages[o] EXCEPT !.seal = Content(p)]
  <2>1. stages[o] \in Stages
    BY <1>1, RowFacts DEF Owns
  <2>2. /\ s \in Stages /\ s.phase = stages[o].phase /\ s.target = stages[o].target
        /\ s.seal = Content(p) /\ s.chunks = stages[o].chunks
    BY <2>1, CallFacts DEF Stages
  <2>3. stages' = [stages EXCEPT ![o] = s]
    BY <1>3
  <2> HIDE DEF s
  <2>4. RowsSound(o, stages[o], plans[o]) /\ stages[o] # None /\ s # None
    BY <1>1, <2>2, NoneAssumption DEF Sound, Owns
  <2>5. RowsSound(o, s, plans[o])
    <3>1. StageSound(o, stages[o], plans[o])
      BY <2>4 DEF RowsSound
    <3>2. \E q \in Callers(o) : Target(q) = s.target /\ s.seal = Content(q)
      BY <1>1, <2>2, CallFacts DEF Owns
    <3>3. s.target.owner = "inline" => plans[o] # None /\ s.seal = plans[o].original
      BY <1>1, <2>2, CallFacts DEF Owns
    <3>4. StageSound(o, s, plans[o])
      BY <1>3, <2>2, <3>1, <3>2, <3>3, CallFacts DEF StageSound
    <3>5. plans[o] # None => PlanSound(s, plans[o])
      BY <2>2, <2>4 DEF RowsSound, PlanSound
    <3>6. ~ Committed(o)
      BY <1>3, <2>4 DEF RowsSound
    <3> QED
      BY <3>4, <3>5, <3>6 DEF RowsSound, Committed
  <2>6. GrowsTo(o, s, plans[o]) /\ SameEnd(o, s, plans[o])
    BY <1>3, <2>2, <2>4 DEF GrowsTo, SameEnd, Rejected
  <2>7. plans' = [plans EXCEPT ![o] = plans[o]] /\ plans[o] \in Plans \cup {None}
    BY <1>1, SamePlans, RowFacts
  <2>8. s.target = Target(p) /\ (Inline(p) => plans[o] # None /\ plans[o].original = Content(p))
    BY <1>1, <2>2 DEF Owns
  <2>9. PICK c \in Attempts : proc' = [proc EXCEPT ![p] = c] /\ c.pc = "verify"
    BY <1>1, <1>3, GotoRecord DEF Points
  <2> QED
    BY <1>1, <2>2, <2>3, <2>5, <2>6, <2>7, <2>8, <2>9, RowMove
<1> QED
  BY <1>2, <1>3 DEF Seal

LEMMA VerifyKeeps ==
  ASSUME IInv, NEW p \in Processes, Verify(p)
  PROVE  Keeps(p)
<1> DEFINE o == Op(p)
<1>1. /\ Typed /\ o \in Operations /\ Sound(o) /\ Owns(p)
      /\ UNCHANGED <<log, heads, plans, told>>
  BY Stands_ DEF Verify, Stands, Past
<1>2. CASE Fail(p) /\ UNCHANGED stages
  BY <1>1, <1>2, QuietFail DEF Durable
<1>3. CASE /\ Verified(stages[o], Content(p))
           /\ stages' = [stages EXCEPT ![o].phase = "sealed"]
           /\ Then(p, "authorize")
  <2> DEFINE s == [stages[o] EXCEPT !.phase = "sealed"]
  <2>1. stages[o] \in Stages
    BY <1>1, RowFacts DEF Owns
  <2>2. /\ s \in Stages /\ s.phase = "sealed" /\ s.target = stages[o].target
        /\ s.seal = stages[o].seal /\ s.chunks = stages[o].chunks
    BY <2>1 DEF Stages, Phases
  <2>3. stages' = [stages EXCEPT ![o] = s]
    BY <1>3
  <2> HIDE DEF s
  <2>4. RowsSound(o, stages[o], plans[o]) /\ stages[o] # None /\ s # None
    BY <1>1, <2>2, NoneAssumption DEF Sound, Owns
  <2>5. /\ stages[o].phase \in {"receiving", "sealed"}
        /\ stages[o].seal # None /\ stages[o].chunks = stages[o].seal
    BY <1>3, CallFacts DEF Verified
  <2>6. RowsSound(o, s, plans[o])
    <3>1. StageSound(o, stages[o], plans[o])
      BY <2>4 DEF RowsSound
    <3>2. StageSound(o, s, plans[o])
      BY <2>2, <2>5, <3>1 DEF StageSound
    <3>3. plans[o] # None => PlanSound(s, plans[o])
      BY <2>2, <2>4, <2>5 DEF RowsSound, PlanSound
    <3>4. ~ Committed(o)
      BY <2>4, <2>5 DEF RowsSound
    <3> QED
      BY <3>2, <3>3, <3>4 DEF RowsSound, Committed
  <2>7. GrowsTo(o, s, plans[o]) /\ SameEnd(o, s, plans[o])
    BY <2>2, <2>4, <2>5 DEF GrowsTo, SameEnd, Rejected
  <2>8. plans' = [plans EXCEPT ![o] = plans[o]] /\ plans[o] \in Plans \cup {None}
    BY <1>1, SamePlans, RowFacts
  <2>9. s.target = Target(p) /\ (Inline(p) => plans[o] # None /\ plans[o].original = Content(p))
    BY <1>1, <2>2 DEF Owns
  <2>10. PICK c \in Attempts : /\ proc' = [proc EXCEPT ![p] = c]
                               /\ c.pc = (IF Inline(p) THEN "authorize" ELSE "step")
    BY <1>1, <1>3, GotoRecord DEF Points, Then
  <2> QED
    BY <1>1, <2>2, <2>3, <2>6, <2>7, <2>8, <2>9, <2>10, RowMove
<1> QED
  BY <1>2, <1>3 DEF Verify

LEMMA CancelKeeps ==
  ASSUME IInv, NEW p \in Processes, Cancel(p)
  PROVE  Keeps(p)
<1> DEFINE o == Op(p)
           s == [stages[o] EXCEPT !.phase = "aborted"]
<1>1. /\ Typed /\ o \in Operations /\ Sound(o) /\ Owns(p) /\ Stands(p, proc[p])
      /\ proc[p] \in Attempts /\ proc[p].pc = "step"
      /\ UNCHANGED <<log, heads, plans, proc, told>>
      /\ ~ Committed(o) /\ ~ Rejected(o) /\ stages[o].phase \in {"receiving", "sealed"}
  BY Stands_ DEF Cancel, Stands, Past
<1>2. stages[o] \in Stages
  BY <1>1, RowFacts DEF Owns
<1>3. /\ s \in Stages /\ s.phase = "aborted" /\ s.target = stages[o].target
      /\ s.seal = stages[o].seal /\ s.chunks = stages[o].chunks
  BY <1>2 DEF Stages, Phases
<1>4. stages' = [stages EXCEPT ![o] = s]
  BY DEF Cancel
<1> HIDE DEF s
<1>5. RowsSound(o, stages[o], plans[o]) /\ stages[o] # None /\ s # None
  BY <1>1, <1>3, NoneAssumption DEF Sound, Owns
<1>6. RowsSound(o, s, plans[o])
  <2>1. StageSound(o, stages[o], plans[o])
    BY <1>5 DEF RowsSound
  <2>2. StageSound(o, s, plans[o])
    BY <1>3, <2>1 DEF StageSound
  <2>3. plans[o] # None => PlanSound(s, plans[o])
    BY <1>1, <1>3, <1>5 DEF RowsSound, PlanSound
  <2> QED
    BY <1>1, <2>2, <2>3 DEF RowsSound, Committed
<1>7. GrowsTo(o, s, plans[o]) /\ EndsNow(o, s, plans[o])
  BY <1>1, <1>3, <1>5 DEF GrowsTo, EndsNow, Outcome
<1>8. plans' = [plans EXCEPT ![o] = plans[o]] /\ plans[o] \in Plans \cup {None}
  BY <1>1, SamePlans, RowFacts
<1>9. s.target = Target(p) /\ (Inline(p) => plans[o] # None /\ plans[o].original = Content(p))
  BY <1>1, <1>3 DEF Owns
<1>10. proc' = [proc EXCEPT ![p] = proc[p]]
  BY <1>1 DEF Typed
<1> QED
  BY <1>1, <1>3, <1>4, <1>6, <1>7, <1>8, <1>9, <1>10, RowMove

(* A plan of p for the stage as it is, authorized or rejected against the  *)
(* graph of now.                                                           *)
LEMMA DecidedRows ==
  ASSUME IInv, NEW p \in Processes, Owns(p), ~ Committed(Op(p)),
         stages[Op(p)].phase \in {"sealed", "commit_requested"},
         NEW s \in Stages, NEW plan \in Plans,
         s.target = stages[Op(p)].target, s.seal = stages[Op(p)].seal,
         s.chunks = stages[Op(p)].chunks,
         plan.target = s.target, plan.original = Original(p), plan.cut <= Cut,
         \/ /\ s.phase = "commit_requested" /\ plan.state = "authorized" /\ ~ plan.rejected
            /\ plan.cut = Cut => Fits(plan.target)
         \/ /\ s.phase = "rejected" /\ plan.state \in {"authorized", "rejected"} /\ plan.rejected
            /\ plan.state = "authorized" /\ plan.cut = Cut => Fits(plan.target)
  PROVE  /\ RowsSound(Op(p), s, plan) /\ GrowsTo(Op(p), s, plan)
         /\ SameEnd(Op(p), s, plan) \/ EndsNow(Op(p), s, plan)
         /\ Outcome(Op(p)) = "open" /\ plan # None
         /\ s.phase = "rejected" => EndsNow(Op(p), s, plan)
<1> DEFINE o == Op(p)
<1>1. /\ Typed /\ o \in Operations /\ Sound(o)
      /\ RowsSound(o, stages[o], plans[o]) /\ stages[o] # None
      /\ s # None /\ plan # None
  BY Stands_, NoneAssumption DEF Owns, Sound
<1>2. StageSound(o, stages[o], plans[o]) /\ stages[o].seal # None
  BY <1>1 DEF RowsSound, StageSound
<1>3. ~ Rejected(o)
  BY <1>1 DEF RowsSound, PlanSound, Rejected
<1>4. s.target.owner = "inline" => s.seal = plan.original
  <2>1. ASSUME s.target.owner = "inline"
        PROVE  s.seal = plan.original
    BY <1>1, <1>2, <2>1, CallFacts, OwnSeal DEF Owns, Original
  <2> QED
    BY <2>1
<1>5. StageSound(o, s, plan)
  BY <1>1, <1>2, <1>4 DEF StageSound
<1>6. plan.original # None <=> s.target.owner = "inline"
  BY CallFacts DEF Owns, Original
<1>7. PlanSound(s, plan)
  BY <1>1, <1>6 DEF PlanSound
<1>8. RowsSound(o, s, plan)
  BY <1>5, <1>7 DEF RowsSound, Committed
<1>9. GrowsTo(o, s, plan)
  BY <1>1, OwnPlan DEF GrowsTo
<1>10. Outcome(o) = "open"
  BY <1>3 DEF Outcome
<1>11. SameEnd(o, s, plan) \/ EndsNow(o, s, plan)
  BY <1>1, <1>3, <1>10 DEF SameEnd, EndsNow
<1>12. s.phase = "rejected" => EndsNow(o, s, plan)
  BY <1>1, <1>10 DEF EndsNow
<1> QED
  BY <1>1, <1>8, <1>9, <1>10, <1>11, <1>12

LEMMA DecideKeeps ==
  ASSUME IInv, NEW p \in Processes, Decide(p)
  PROVE  Keeps(p)
<1> DEFINE o == Op(p)
           plan == [state |-> "authorized", target |-> stages[o].target,
                    original |-> Original(p), cut |-> Cut, rejected |-> FALSE]
<1>1. /\ Typed /\ o \in Operations /\ Sound(o) /\ Owns(p) /\ proc[p] \in Attempts
      /\ UNCHANGED <<log, heads, told>>
  BY Stands_ DEF Decide, Stands, Past
<1>2. CASE Fail(p) /\ UNCHANGED <<stages, plans>>
  BY <1>1, <1>2, QuietFail DEF Durable
<1>3. CASE /\ Goto(p, IF Committed(o) THEN "commit" ELSE "authorize")
           /\ UNCHANGED <<stages, plans>>
  BY <1>1, <1>3, QuietGoto DEF Durable, Points, Past
<1>4. stages[o] \in Stages /\ stages[o] # None /\ Cut \in Nat
      /\ (plans[o] # None => plans[o] \in Plans)
  BY <1>1, RowFacts DEF Owns
<1>5. /\ plan \in Plans /\ plan.state = "authorized" /\ plan.target = stages[o].target
      /\ plan.original = Original(p) /\ plan.cut = Cut /\ plan.rejected = FALSE
  BY <1>4, CallFacts DEF Plans, Stages, Original
<1>6. Inline(p) => Original(p) = Content(p)
  BY DEF Original
<1>7. CASE /\ ~ Committed(o) /\ stages[o].phase \in {"sealed", "commit_requested"}
           /\ Fits(stages[o].target)
           /\ plans' = [plans EXCEPT ![o] = plan]
           /\ stages' = [stages EXCEPT ![o].phase = "commit_requested"]
           /\ proc' = [proc EXCEPT ![p].pc =
                IF proc[p].again THEN "prepare" ELSE IF Inline(p) THEN "commit" ELSE "step",
                ![p].again = FALSE]
  <2> DEFINE s == [stages[o] EXCEPT !.phase = "commit_requested"]
             pc == IF proc[p].again THEN "prepare" ELSE IF Inline(p) THEN "commit" ELSE "step"
             c == [proc[p] EXCEPT !.pc = pc, !.again = FALSE]
  <2>1. /\ s \in Stages /\ s.phase = "commit_requested" /\ s.target = stages[o].target
        /\ s.seal = stages[o].seal /\ s.chunks = stages[o].chunks
    BY <1>4 DEF Stages, Phases
  <2>2. stages' = [stages EXCEPT ![o] = s]
    BY <1>7
  <2>3. pc \in {"prepare", "commit", "step"}
    OBVIOUS
  <2>4. c \in Attempts /\ c.pc = pc
    BY <1>1, <2>3 DEF Attempts, Points
  <2>5. proc' = [proc EXCEPT ![p] = c]
    BY <1>7
  <2>6. plans' = [plans EXCEPT ![o] = plan]
    BY <1>7
  <2> HIDE DEF s, c, pc, plan
  <2>7. /\ RowsSound(o, s, plan) /\ GrowsTo(o, s, plan)
        /\ SameEnd(o, s, plan) \/ EndsNow(o, s, plan)
        /\ plan # None
    BY <1>1, <1>4, <1>5, <1>7, <2>1, DecidedRows
  <2> QED
    BY <1>1, <1>5, <1>6, <2>1, <2>2, <2>3, <2>4, <2>5, <2>6, <2>7, RowMove DEF Owns
<1>8. CASE /\ ~ Committed(o) /\ stages[o].phase \in {"sealed", "commit_requested"}
           /\ plans' = [plans EXCEPT ![o] =
                IF Authorized(o) THEN [@ EXCEPT !.rejected = TRUE]
                ELSE [plan EXCEPT !.state = "rejected", !.rejected = TRUE]]
           /\ stages' = [stages EXCEPT ![o].phase = "rejected"]
           /\ Then(p, "commit")
  <2> DEFINE s == [stages[o] EXCEPT !.phase = "rejected"]
             new == IF Authorized(o) THEN [plans[o] EXCEPT !.rejected = TRUE]
                    ELSE [plan EXCEPT !.state = "rejected", !.rejected = TRUE]
  <2>1. /\ s \in Stages /\ s.phase = "rejected" /\ s.target = stages[o].target
        /\ s.seal = stages[o].seal /\ s.chunks = stages[o].chunks
    BY <1>4 DEF Stages, Phases
  <2>2. stages' = [stages EXCEPT ![o] = s] /\ plans' = [plans EXCEPT ![o] = new]
    BY <1>8
  <2>3. /\ new \in Plans /\ new.target = s.target /\ new.original = Original(p)
        /\ new.cut <= Cut /\ new.state \in {"authorized", "rejected"} /\ new.rejected
        /\ new.state = "authorized" /\ new.cut = Cut => Fits(new.target)
    <3>1. CASE Authorized(o)
      <4>1. plans[o] # None /\ plans[o].state = "authorized"
        BY <3>1 DEF Authorized
      <4>2. PlanSound(stages[o], plans[o]) /\ plans[o].original = Original(p)
        BY <1>1, <4>1, OwnPlan DEF Sound, RowsSound
      <4>3. /\ new \in Plans /\ new.target = plans[o].target
            /\ new.original = plans[o].original /\ new.cut = plans[o].cut
            /\ new.state = plans[o].state /\ new.rejected
        BY <1>4, <3>1, <4>1 DEF Plans
      <4> HIDE DEF new
      <4> QED
        BY <2>1, <4>1, <4>2, <4>3 DEF PlanSound
    <3>2. CASE ~ Authorized(o)
      <4>1. /\ new \in Plans /\ new.target = plan.target /\ new.original = plan.original
            /\ new.cut = plan.cut /\ new.state = "rejected" /\ new.rejected
        BY <1>5, <3>2 DEF Plans
      <4> HIDE DEF new, plan
      <4> QED
        BY <1>4, <1>5, <2>1, <4>1
    <3> QED
      BY <3>1, <3>2
  <2> HIDE DEF s, new, plan
  <2>4. /\ RowsSound(o, s, new) /\ GrowsTo(o, s, new)
        /\ SameEnd(o, s, new) \/ EndsNow(o, s, new)
        /\ new # None
    BY <1>1, <1>4, <1>8, <2>1, <2>3, DecidedRows
  <2>5. PICK c \in Attempts : /\ proc' = [proc EXCEPT ![p] = c]
                              /\ c.pc = (IF Inline(p) THEN "commit" ELSE "step")
    BY <1>1, <1>8, GotoRecord DEF Points, Then
  <2> QED
    BY <1>1, <1>6, <2>1, <2>2, <2>3, <2>4, <2>5, RowMove DEF Owns
<1> QED
  BY <1>2, <1>3, <1>7, <1>8 DEF Decide

LEMMA RejectOversizedKeeps ==
  ASSUME IInv, NEW p \in Processes, RejectOversized(p)
  PROVE  Keeps(p)
<1> DEFINE o == Op(p)
<1>1. /\ Typed /\ o \in Operations /\ Sound(o) /\ Owns(p) /\ UNCHANGED <<log, heads>>
  BY Stands_ DEF RejectOversized, Stands, Past
<1>2. CASE Settled(p) /\ UNCHANGED <<stages, plans>>
  BY <1>1, <1>2, SettledKeeps DEF Durable
<1>3. CASE /\ ~ Committed(o) /\ ~ Rejected(o) /\ Authorized(o)
           /\ plans' = [plans EXCEPT ![o].rejected = TRUE]
           /\ stages' = [stages EXCEPT ![o].phase = "rejected"]
           /\ End(p, {"rejected"})
  <2> DEFINE s == [stages[o] EXCEPT !.phase = "rejected"]
             plan == [plans[o] EXCEPT !.rejected = TRUE]
  <2>1. /\ stages[o] # None /\ stages[o].phase = "commit_requested"
        /\ plans[o] # None /\ plans[o].state = "authorized"
        /\ stages[o] \in Stages /\ plans[o] \in Plans /\ Cut \in Nat
    BY <1>1, <1>3, AuthorizedFacts, RowFacts DEF Authorized
  <2>2. PlanSound(stages[o], plans[o]) /\ plans[o].original = Original(p)
    BY <1>1, <2>1, OwnPlan DEF Sound, RowsSound
  <2>3. /\ s \in Stages /\ s.phase = "rejected" /\ s.target = stages[o].target
        /\ s.seal = stages[o].seal /\ s.chunks = stages[o].chunks
    BY <2>1 DEF Stages, Phases
  <2>4. /\ plan \in Plans /\ plan.state = "authorized" /\ plan.target = plans[o].target
        /\ plan.original = plans[o].original /\ plan.cut = plans[o].cut /\ plan.rejected
    BY <2>1 DEF Plans
  <2>5. stages' = [stages EXCEPT ![o] = s] /\ plans' = [plans EXCEPT ![o] = plan]
    BY <1>3
  <2> HIDE DEF s, plan
  <2>6. /\ RowsSound(o, s, plan) /\ GrowsTo(o, s, plan) /\ EndsNow(o, s, plan) /\ plan # None
    <3>1. /\ plan.target = s.target /\ plan.original = Original(p) /\ plan.cut <= Cut
          /\ plan.state = "authorized" /\ plan.cut = Cut => Fits(plan.target)
      BY <2>1, <2>2, <2>3, <2>4 DEF PlanSound
    <3> QED
      BY <1>1, <1>3, <2>1, <2>3, <2>4, <3>1, DecidedRows
  <2>7. /\ log' \in Seq(Versions) /\ heads' \in [Entries -> {None} \cup 0 .. Cut']
        /\ stages' \in [Operations -> Stages \cup {None}]
        /\ plans' \in [Operations -> Plans \cup {None}]
        /\ \A x \in Operations : Sound(x)' /\ Grows(x)
        /\ \A x \in Operations \ {o} : Outcome(x)' = Outcome(x)
        /\ plans'[o] = plan
    BY <1>1, <2>3, <2>4, <2>5, <2>6, RowStep
  <2>8. Outcome(o)' = "rejected"
    <3>1. Committed(o)' <=> Committed(o)
      BY <1>1 DEF Committed, Cut
    <3> QED
      BY <1>3, <2>4, <2>6, <2>7, <3>1 DEF Outcome, Rejected
  <2>9. /\ Tells(p) /\ told' \in [Operations -> SUBSET (Outcomes \X Seq(Nat))]
        /\ proc' \in [Processes -> Attempts]
        /\ \A q \in Processes \ {p} : proc'[q] = proc[q]
        /\ proc'[p] = [Idle EXCEPT !.pc = "done"]
    BY <1>1, <1>3, <2>8, EndTells DEF Outcomes
  <2>10. Standing(p)'
    BY <2>9 DEF Standing, Stands, Idle, Past
  <2>11. Ended(p)
    BY <1>1, <2>6, <2>7, <2>8 DEF Ended, OthersStay, EndsNow
  <2> QED
    BY <2>7, <2>9, <2>10, <2>11 DEF Keeps, Typed
<1> QED
  BY <1>2, <1>3 DEF RejectOversized

-------------------------------------------------------------------------------
(* Steps that add a version.                                               *)

LEMMA RowsAfterVersion ==
  ASSUME IInv, NEW v \in Versions, log' = Append(log, v), plans' = plans,
         NEW o \in Operations, v.by # o, stages'[o] = stages[o]
  PROVE  Sound(o)' /\ Grows(o) /\ Outcome(o)' = Outcome(o)
<1>1. Typed /\ RowsSound(o, stages[o], plans[o])
  BY DEF IInv, Sound
<1>2. /\ Cut \in Nat /\ Cut' = Cut + 1
      /\ \A k \in 1 .. Cut : log'[k] = log[k]
      /\ log'[Cut + 1] = v
      /\ Committed(o)' <=> Committed(o)
  BY <1>1, LogGrows
<1>3. Outcome(o)' = Outcome(o)
  BY <1>2 DEF Outcome, Rejected
<1>4. Grows(o)
  BY DEF Grows
<1>5. \A k \in 1 .. Cut' : log'[k].by = o => log'[k].content = stages[o].seal
  <2> SUFFICES ASSUME NEW k \in 1 .. Cut', log'[k].by = o
               PROVE  log'[k].content = stages[o].seal
    OBVIOUS
  <2>1. k \in 1 .. Cut \/ k = Cut + 1
    BY <1>2
  <2>2. k \in 1 .. Cut
    BY <1>2, <2>1
  <2> QED
    BY <1>1, <1>2, <2>2 DEF RowsSound
<1>6. stages[o] # None => StageSound(o, stages[o], plans[o])'
  <2>1. stages[o] # None => StageSound(o, stages[o], plans[o])
    BY <1>1 DEF RowsSound
  <2> QED
    BY <1>2, <2>1 DEF StageSound
<1>7. plans[o] # None => PlanSound(stages[o], plans[o])'
  <2> SUFFICES ASSUME plans[o] # None
               PROVE  PlanSound(stages[o], plans[o])'
    OBVIOUS
  <2>1. PlanSound(stages[o], plans[o]) /\ plans[o].cut \in Nat
    BY <1>1, RowFacts DEF RowsSound, Plans
  <2>2. plans[o].cut <= Cut' /\ plans[o].cut # Cut'
    BY <1>2, <2>1 DEF PlanSound
  <2> QED
    BY <2>1, <2>2 DEF PlanSound
<1>8. Sound(o)'
  BY <1>1, <1>2, <1>5, <1>6, <1>7 DEF Sound, RowsSound
<1> QED
  BY <1>3, <1>4, <1>8

LEMMA HeadsTyped ==
  ASSUME Typed, Cut' = Cut + 1, NEW e, heads' = [heads EXCEPT ![e] = Cut + 1] \/ heads' = heads
  PROVE  heads' \in [Entries -> {None} \cup 0 .. Cut']
<1>1. Cut \in Nat /\ heads \in [Entries -> {None} \cup 0 .. Cut]
  BY DEF Typed, Cut
<1>2. 0 .. Cut \subseteq 0 .. Cut' /\ Cut + 1 \in 0 .. Cut'
  BY <1>1
<1> QED
  BY <1>1, <1>2

LEMMA StoredStays ==
  ASSUME Typed, NEW v \in Versions, log' = Append(log, v), NEW o, NEW c, Stored(o, c)
  PROVE  Stored(o, c)'
<1>1. PICK k \in 1 .. Cut : log[k].by = o /\ log[k].content = c
  BY DEF Stored
<1>2. Cut \in Nat /\ Cut' = Cut + 1 /\ log'[k] = log[k]
  BY LogGrows
<1>3. k \in 1 .. Cut'
  BY <1>2
<1> QED
  BY <1>1, <1>2, <1>3 DEF Stored

LEMMA FinishKeeps ==
  ASSUME IInv, NEW p \in Processes, Finish(p)
  PROVE  Keeps(p)
<1> DEFINE o == Op(p)
           t == plans[o].target
<1>1. /\ Typed /\ o \in Operations /\ Sound(o) /\ Owns(p) /\ plans' = plans
      /\ proc[p].plan # None /\ proc[p].plan.state = "authorized"
      /\ proc[p] \in Attempts
  BY Stands_ DEF Finish, Stands, Past
<1>2. CASE Settled(p) /\ UNCHANGED <<log, heads, stages>>
  BY <1>1, <1>2, SettledKeeps DEF Durable
<1>3. CASE Goto(p, "commit") /\ UNCHANGED <<log, heads, stages, told>>
  BY <1>1, <1>3, QuietGoto DEF Durable, Points, Past
<1>4. CASE Goto(p, "oversized") /\ UNCHANGED <<log, heads, stages, told>>
  BY <1>1, <1>4, QuietGoto DEF Durable, Points, Past
<1>5. CASE /\ ~ Committed(o) /\ ~ Rejected(o)
           /\ Record(plans[o]) = Record(proc[p].plan) /\ plans[o].cut = Cut
           /\ log' = Append(log, [by |-> o, entry |-> t.entry, content |-> stages[o].seal])
           /\ heads' = [heads EXCEPT ![t.entry] = Cut + 1]
           /\ stages' = [stages EXCEPT ![o].phase = "committed"]
           /\ End(p, {"committed"})
  <2> DEFINE v == [by |-> o, entry |-> call[p].entry, content |-> Content(p)]
  <2>1. Authorized(o)
    <3>1. proc[p].plan \in Plans
      BY <1>1 DEF Attempts
    <3>2. Record(proc[p].plan) \in Plans /\ Record(proc[p].plan).state = "authorized"
      BY <1>1, <3>1 DEF Record, Plans
    <3>3. plans[o] # None
      BY <1>5, <3>2, NoneAssumption DEF Record
    <3>4. plans[o] \in Plans /\ Record(plans[o]).state = plans[o].state
      BY <1>1, <3>3, RowFacts DEF Record, Plans
    <3> QED
      BY <1>5, <3>2, <3>3, <3>4 DEF Authorized
  <2>2. /\ stages[o] # None /\ stages[o].phase = "commit_requested"
        /\ stages[o].seal # None /\ t = stages[o].target
        /\ plans[o] # None /\ plans[o].state = "authorized"
        /\ stages[o] \in Stages
    BY <1>1, <1>5, <2>1, AuthorizedFacts, RowFacts DEF Authorized
  <2>3. stages[o].seal = Content(p) /\ t = Target(p)
    BY <1>1, <2>2, OwnSeal DEF Owns
  <2>4. t.entry = call[p].entry /\ t.expects = call[p].expects
    BY <2>3, CallFacts
  <2>5. RowsSound(o, stages[o], plans[o])
    BY <1>1 DEF Sound
  <2>6. heads[call[p].entry] = call[p].expects
    BY <1>5, <2>2, <2>4, <2>5 DEF RowsSound, PlanSound, Fits
  <2>7. v \in Versions /\ log' = Append(log, v) /\ v.by = o /\ v.content = Content(p)
    BY <1>5, <2>3, <2>4, VersionOf
  <2>8. PICK s \in Stages : /\ s = [stages[o] EXCEPT !.phase = "committed"]
                            /\ s.phase = "committed" /\ s.target = stages[o].target
                            /\ s.seal = stages[o].seal /\ s.chunks = stages[o].chunks
    <3> DEFINE new == [stages[o] EXCEPT !.phase = "committed"]
    <3>1. /\ new \in Stages
          /\ new.phase = "committed" /\ new.target = stages[o].target
          /\ new.seal = stages[o].seal /\ new.chunks = stages[o].chunks
      BY <2>2 DEF Stages, Phases
    <3>2. new = [stages[o] EXCEPT !.phase = "committed"]
      OBVIOUS
    <3> HIDE DEF new
    <3> QED
      BY <3>1, <3>2
  <2>9. /\ stages' \in [Operations -> Stages \cup {None}] /\ stages'[o] = s
        /\ \A x \in Operations \ {o} : stages'[x] = stages[x]
    BY <1>1, <1>5, <2>8 DEF Typed
  <2> HIDE DEF v
  <2>10. /\ Cut \in Nat /\ Cut' = Cut + 1
         /\ \A k \in 1 .. Cut : log'[k] = log[k]
         /\ log'[Cut + 1] = v /\ log' \in Seq(Versions)
         /\ Committed(o)'
    BY <1>1, <2>7, LogGrows
  <2>11. ASSUME NEW x \in Operations \ {o}
         PROVE  Sound(x)' /\ Grows(x) /\ Outcome(x)' = Outcome(x)
    BY <1>1, <2>7, <2>9, RowsAfterVersion
  <2>12. StageSound(o, stages[o], plans[o]) /\ PlanSound(stages[o], plans[o])
    BY <2>2, <2>5 DEF RowsSound
  <2>13. StageSound(o, s, plans[o])'
    BY <1>1, <2>2, <2>8, <2>10, <2>12 DEF StageSound
  <2>14. s # None
    BY <2>8, NoneAssumption
  <2>15. PlanSound(s, plans[o])'
    <3>1. plans[o].cut # Cut' /\ plans[o].cut <= Cut'
      BY <1>5, <2>10
    <3>2. ~ plans[o].rejected
      BY <1>5, <2>2 DEF Rejected
    <3> QED
      BY <1>1, <2>8, <2>12, <2>14, <3>1, <3>2 DEF PlanSound
  <2>16. \A k \in 1 .. Cut' : log'[k].by = o => log'[k].content = s.seal
    <3> SUFFICES ASSUME NEW k \in 1 .. Cut', log'[k].by = o
                 PROVE  log'[k].content = s.seal
      OBVIOUS
    <3>1. k = Cut + 1
      BY <1>5, <2>10 DEF Committed
    <3> QED
      BY <2>3, <2>7, <2>8, <2>10, <3>1
  <2>17. Sound(o)'
    BY <1>1, <2>8, <2>9, <2>10, <2>13, <2>14, <2>15, <2>16 DEF Sound, RowsSound
  <2>18. Grows(o)
    BY <1>1, <2>8, <2>9, <2>14 DEF Grows
  <2>19. Outcome(o) = "open" /\ Outcome(o)' = "committed"
    BY <1>5, <2>2, <2>10 DEF Outcome
  <2>20. heads' = [heads EXCEPT ![call[p].entry] = Cut + 1]
    BY <1>5, <2>4
  <2>21. Published(p)
    BY <2>6, <2>7, <2>11, <2>19, <2>20 DEF Published, OthersStay, v
  <2>22. heads' \in [Entries -> {None} \cup 0 .. Cut']
    BY <1>1, <2>10, <2>20, HeadsTyped
  <2>23. /\ Tells(p) /\ told' \in [Operations -> SUBSET (Outcomes \X Seq(Nat))]
         /\ proc' \in [Processes -> Attempts]
         /\ \A q \in Processes \ {p} : proc'[q] = proc[q]
         /\ proc'[p] = [Idle EXCEPT !.pc = "done"]
    <3>1. stages'[Op(p)].seal = Content(p) /\ Outcome(Op(p))' = "committed"
      BY <2>3, <2>8, <2>9, <2>19
    <3>2. End(p, {"committed"}) /\ "committed" \in Outcomes
      BY <1>5 DEF Outcomes
    <3> QED
      BY <1>1, <3>1, <3>2, EndTells
  <2>24. Standing(p)'
    BY <2>23 DEF Standing, Stands, Idle, Past
  <2>25. plans' \in [Operations -> Plans \cup {None}]
    BY <1>1 DEF Typed
  <2>26. \A x \in Operations : Sound(x)' /\ Grows(x)
    BY <2>11, <2>17, <2>18
  <2> QED
    BY <2>9, <2>10, <2>21, <2>22, <2>23, <2>24, <2>25, <2>26 DEF Keeps, Typed
<1> QED
  BY <1>2, <1>3, <1>4, <1>5 DEF Finish

(* A version of another command: no call notices anything but its number.  *)
LEMMA OthersKeep ==
  ASSUME IInv, NEW v \in Versions, v.by = None, log' = Append(log, v),
         heads' \in [Entries -> {None} \cup 0 .. Cut'],
         UNCHANGED <<stages, plans, proc, told>>
  PROVE  IInv' /\ \A o \in Operations : Outcome(o)' = Outcome(o)
<1>1. Typed /\ \A o \in Operations : v.by # o
  BY NoneAssumption DEF IInv
<1>2. \A o \in Operations : Sound(o)' /\ Grows(o) /\ Outcome(o)' = Outcome(o)
  BY <1>1, RowsAfterVersion
<1>3. \A p \in Processes : Standing(p)'
  BY <1>2, CallFacts, StandingStays DEF IInv
<1>4. Typed'
  BY <1>1, LogGrows DEF Typed
<1>5. ToldTheOutcome'
  <2> SUFFICES ASSUME NEW o \in Operations, NEW t \in told[o]
               PROVE  /\ t[1] = Outcome(o)'
                      /\ t[1] = "committed" => Stored(o, t[2])'
    BY DEF ToldTheOutcome
  <2>1. t[1] = Outcome(o) /\ (t[1] = "committed" => Stored(o, t[2]))
    BY DEF IInv, ToldTheOutcome
  <2>2. Stored(o, t[2]) => Stored(o, t[2])'
    BY <1>1, StoredStays
  <2> QED
    BY <1>2, <2>1, <2>2
<1> QED
  BY <1>2, <1>3, <1>4, <1>5 DEF IInv

LEMMA ForeignKeeps ==
  ASSUME IInv, NEW e \in Entries, Foreign(e)
  PROVE  IInv' /\ \A o \in Operations : Outcome(o)' = Outcome(o)
<1> DEFINE v == [by |-> None, entry |-> e, content |-> None]
<1>1. v \in Versions /\ v.by = None /\ log' = Append(log, v) /\ Typed
  BY DEF Versions, Foreign, IInv
<1> HIDE DEF v
<1>2. Cut' = Cut + 1
  BY <1>1, LogGrows
<1>3. heads' \in [Entries -> {None} \cup 0 .. Cut']
  BY <1>1, <1>2, HeadsTyped DEF Foreign
<1> QED
  BY <1>1, <1>3, OthersKeep DEF Foreign

LEMMA UnrelatedKeeps ==
  ASSUME IInv, Unrelated
  PROVE  IInv' /\ \A o \in Operations : Outcome(o)' = Outcome(o)
<1> DEFINE v == [by |-> None, entry |-> None, content |-> None]
<1>1. v \in Versions /\ v.by = None /\ log' = Append(log, v) /\ Typed
  BY DEF Versions, Unrelated, IInv
<1> HIDE DEF v
<1>2. Cut' = Cut + 1
  BY <1>1, LogGrows
<1>3. heads' \in [Entries -> {None} \cup 0 .. Cut']
  BY <1>1, <1>2, HeadsTyped DEF Unrelated
<1> QED
  BY <1>1, <1>3, OthersKeep DEF Unrelated

-------------------------------------------------------------------------------
(* The invariant of the specification, and the refinement.                 *)

LEMMA StartsSound ==
  ASSUME NEW callers, Starts(callers)
  PROVE  IInv
<1>1. /\ log = <<>> /\ Cut = 0 /\ 1 .. Cut = {} /\ heads \in [Entries -> {None, 0}]
      /\ \A o \in Operations : stages[o] = None /\ plans[o] = None /\ told[o] = {}
      /\ \A p \in Processes : proc[p] = Idle \/ proc[p] = [Idle EXCEPT !.pc = "done"]
  BY DEF Starts, Cut
<1>2. proc \in [Processes -> Attempts]
  BY IdleTyped DEF Starts
<1>3. 0 \in 0 .. Cut
  BY <1>1
<1>4. Typed
  BY <1>1, <1>2, <1>3 DEF Typed, Starts
<1>5. \A o \in Operations : Sound(o)
  BY <1>1 DEF Sound, RowsSound, Committed
<1>6. \A p \in Processes : Standing(p)
  BY <1>1, DoneStands DEF Standing
<1>7. ToldTheOutcome
  BY <1>1 DEF ToldTheOutcome
<1> QED
  BY <1>4, <1>5, <1>6, <1>7 DEF IInv

LEMMA WorksKeeps ==
  ASSUME IInv, NEW p \in Processes, Works(p) \/ Cancel(p) \/ Crash(p)
  PROVE  Keeps(p)
BY StartInlineKeeps, StartImportKeeps, BeginKeeps, BindKeeps, LookKeeps, StepKeeps,
   AppendKeeps, SealKeeps, VerifyKeeps, AuthorizeKeeps, DecideKeeps, CommitKeeps,
   PrepareKeeps, FinishKeeps, RejectOversizedKeeps, CancelKeeps, CrashKeeps
   DEF Works

LEMMA StutterKeeps ==
  ASSUME IInv, UNCHANGED vars
  PROVE  IInv' /\ Hidden
<1>1. /\ UNCHANGED Durable /\ proc' = proc /\ told' = told
  BY DEF vars, Durable
<1>2. \A o \in Operations : Sound(o)' /\ Grows(o) /\ Outcome(o)' = Outcome(o)
  BY <1>1, DurableStays DEF Hidden
<1>3. \A p \in Processes : Standing(p)'
  BY <1>1, <1>2, CallFacts, StandingStays DEF IInv
<1>4. Typed'
  BY <1>1, DurableStays DEF IInv, Typed
<1>5. ToldTheOutcome'
  <2>1. \A o, c : Stored(o, c)' <=> Stored(o, c)
    BY <1>1 DEF Stored, Cut, Durable
  <2> QED
    BY <1>1, <1>2, <2>1 DEF IInv, ToldTheOutcome
<1> QED
  BY <1>1, <1>2, <1>3, <1>4, <1>5, DurableStays DEF IInv

LEMMA NextKeeps ==
  ASSUME IInv, [Next]_vars
  PROVE  IInv'
<1>1. CASE \E p \in Processes : Works(p) \/ Cancel(p) \/ Crash(p)
  BY <1>1, WorksKeeps, KeepsInvariant
<1>2. CASE \E e \in Entries : Foreign(e)
  BY <1>2, ForeignKeeps
<1>3. CASE Unrelated
  BY <1>3, UnrelatedKeeps
<1>4. CASE UNCHANGED vars
  BY <1>4, StutterKeeps
<1> QED
  BY <1>1, <1>2, <1>3, <1>4 DEF Next

(* The invariant holds throughout.                                         *)
THEOREM StageInvariant == Spec => []IInv
<1>1. Init => IInv
  BY StartsSound DEF Init
<1>2. IInv /\ [Next]_vars => IInv'
  BY NextKeeps
<1> QED
  BY <1>1, <1>2, PTL DEF Spec

(* The rows of stages and plans (blob_stage.rs, binary_commit.rs) are of   *)
(* their types, what is sealed is what was received, and a stage says      *)
(* committed exactly when the graph holds its version.                     *)
THEOREM StageTypes == Spec => []TypeOK
<1>1. IInv => TypeOK
  BY InvariantsFollow
<1> QED
  BY <1>1, StageInvariant, PTL

(* Callers of one operation are never told different outcomes, and nobody  *)
(* is told that bytes are stored that are not the ones of the call, however*)
(* often calls die, are repeated and race (authorize, finish and           *)
(* terminal_status in binary_commit.rs).                                   *)
THEOREM StageToldTheOutcome == Spec => []ToldTheOutcome
<1>1. IInv => ToldTheOutcome
  BY InvariantsFollow
<1> QED
  BY <1>1, StageInvariant, PTL

(* What FileVersions sees of a step of a call.                             *)
LEMMA KeptStepMaps ==
  ASSUME IInv, NEW p \in Processes, Keeps(p)
  PROVE  [Files!AbsNext]_(Files!absVars)
<1> DEFINE o == Op(p)
           before == [x \in Operations |-> Outcome(x)]
           after == [x \in Operations |-> Outcome(x)']
<1>1. o \in Operations
  BY CallFacts
<1>2. CASE Hidden
  <2>1. before = after
    BY <1>2 DEF Hidden
  <2> QED
    BY <1>2, <2>1 DEF Hidden, Files!absVars
<1>3. CASE Ended(p)
  <2>1. before[o] = "open"
    BY <1>1, <1>3 DEF Ended
  <2>2. after = [before EXCEPT ![o] = Outcome(o)']
    BY <1>1, <1>3 DEF Ended, OthersStay
  <2>3. after \in {[before EXCEPT ![o] = "rejected"], [before EXCEPT ![o] = "aborted"]}
    BY <1>3, <2>2 DEF Ended
  <2>4. log' = log /\ heads' = heads
    BY <1>3 DEF Ended
  <2>5. Files!AbsEnd(o)
    BY <2>1, <2>3, <2>4 DEF Files!AbsEnd
  <2> QED
    BY <1>1, <2>5 DEF Files!AbsNext
<1>4. CASE Published(p)
  <2> DEFINE calls == [x \in Operations |->
                        {[entry |-> call[q].entry, expects |-> call[q].expects,
                          content |-> Content(q)] : q \in Callers(x)}]
             c == [entry |-> call[p].entry, expects |-> call[p].expects, content |-> Content(p)]
  <2>1. before[o] = "open"
    BY <1>1, <1>4 DEF Published
  <2>2. after = [before EXCEPT ![o] = "committed"]
    BY <1>1, <1>4 DEF Published, OthersStay
  <2>3. c \in calls[o]
    BY <1>1, CallFacts
  <2>4. log \in Seq(Versions) /\ Len(log) = Cut /\ Cut' = Cut + 1 /\ Len(log') = Cut'
    BY <1>4, VersionOf, LogGrows DEF IInv, Typed, Published, Cut
  <2>5. heads[c.entry] = c.expects /\ Files!Store(o, c.entry, c.content)
    BY <1>4, <2>4 DEF Published, Files!Store
  <2>6. Files!AbsCommit(o)
    BY <2>1, <2>2, <2>3, <2>5 DEF Files!AbsCommit
  <2> QED
    BY <1>1, <2>6 DEF Files!AbsNext
<1> QED
  BY <1>2, <1>3, <1>4 DEF Keeps

LEMMA OtherStepMaps ==
  ASSUME IInv, (\E e \in Entries : Foreign(e)) \/ Unrelated
  PROVE  Files!AbsNext
<1> DEFINE before == [x \in Operations |-> Outcome(x)]
           after == [x \in Operations |-> Outcome(x)']
<1>1. before = after
  BY ForeignKeeps, UnrelatedKeeps
<1>2. ASSUME NEW e \in Entries, Foreign(e)
      PROVE  Files!AbsForeign(e)
  <2>1. [by |-> None, entry |-> e, content |-> None] \in Versions
    BY DEF Versions
  <2>2. Len(log') = Cut + 1
    BY <1>2, <2>1, LogGrows DEF IInv, Foreign, Cut
  <2> QED
    BY <1>1, <1>2, <2>2 DEF Files!AbsForeign, Files!Store, Foreign
<1>3. Unrelated => Files!AbsUnrelated
  BY <1>1 DEF Files!AbsUnrelated, Unrelated
<1> QED
  BY <1>2, <1>3 DEF Files!AbsNext

(* Staged uploads implement FileVersions: an operation stores the whole    *)
(* content of one of its calls once, on the version that call named, or    *)
(* ends without effect for good (finish in binary_commit.rs).              *)
THEOREM StageStoresFiles == Spec => StoresFiles
<1>1. Init => Files!AbsInit
  <2> SUFFICES ASSUME Init
               PROVE  Files!AbsInit
    OBVIOUS
  <2>1. \A o \in Operations : Outcome(o) = "open"
    BY DEF Init, Starts, Outcome, Committed, Rejected, Cut
  <2> QED
    BY <2>1 DEF Files!AbsInit, Init, Starts
<1>2. IInv /\ [Next]_vars => [Files!AbsNext]_(Files!absVars)
  <2> SUFFICES ASSUME IInv, [Next]_vars
               PROVE  [Files!AbsNext]_(Files!absVars)
    OBVIOUS
  <2>1. CASE \E p \in Processes : Works(p) \/ Cancel(p) \/ Crash(p)
    BY <2>1, WorksKeeps, KeptStepMaps
  <2>2. CASE (\E e \in Entries : Foreign(e)) \/ Unrelated
    BY <2>2, OtherStepMaps
  <2>3. CASE UNCHANGED vars
    <3>1. Hidden
      BY <2>3, StutterKeeps
    <3>2. [x \in Operations |-> Outcome(x)'] = [x \in Operations |-> Outcome(x)]
      BY <3>1 DEF Hidden
    <3> QED
      BY <3>1, <3>2 DEF Hidden, Files!absVars
  <2> QED
    BY <2>1, <2>2, <2>3 DEF Next
<1> QED
  BY <1>1, <1>2, StageInvariant, PTL DEF Spec, StoresFiles, Files!AbsSpec
=============================================================================
