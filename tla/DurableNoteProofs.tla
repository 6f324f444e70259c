--------------------------- MODULE DurableNoteProofs ---------------------------
(***************************************************************************)
(* Proofs about DurableNote, for every set of clients, any number of       *)
(* edits, operations, crashes, failed calls and revisions by others.       *)
(*                                                                         *)
(* The parts of the invariant are operators of values: h is a history, I   *)
(* the intents of a client, E the edits of all, g whether the note is      *)
(* managed, and k, l, m, t are the checkpoint, the late change, the        *)
(* session and the task of one client.                                     *)
(***************************************************************************)
EXTENDS DurableNote, FiniteSetTheorems, TLAPS

-------------------------------------------------------------------------------
(* The inductive invariant.                                                *)

HostSteps == {"resume", "prepare", "query", "commit", "settled", "ack"}
Saving == {"save", "saving", "retry"}
Settling == {"idle", "flushed", "reload", "copy", "opened"}
OpGone == {"flushed", "plan", "reload", "refresh", "copy", "adopt", "copied", "opened"}

(* A part that client c wrote and no revision has.                         *)
New(h, c, p, v) == v.by = c /\ \A r \in DOMAIN h : h[r].text[p] # v
Since(h, c, p, v, w) == v = w \/ New(h, c, p, v)

(* An operation that a client retains says about its intent what is true.  *)
OpFits(I, op) ==
  /\ op.ref => I[op.id] # None
  /\ I[op.id] # None => /\ I[op.id].expected = op.expected
                        /\ I[op.id].request = op.request
                        /\ op.ack = "none" => ~I[op.id].acked
                        /\ I[op.id].state # "prepared" => op.ref
  /\ op.ack # "none" => op.ref /\ I[op.id].state = op.ack

(* It is the only one whose intent is not acknowledged.                    *)
HeadFits(I, op) ==
  /\ op # None => OpFits(I, op)
  /\ \A o \in Ops : I[o] # None /\ ~I[o].acked => op # None /\ op.id = o

(* What an operation that is not settled would write is old or new.        *)
RequestFits(h, I, c, op) ==
  I[op.id] = None \/ I[op.id].state \notin Settled =>
    \A p \in Parts : Since(h, c, p, op.request[p], h[op.expected].text[p])

(* So is a draft without a conflict, as against what is or will be its     *)
(* baseline.                                                               *)
DraftFits(h, c, s) ==
  \/ s.conflict
  \/ /\ s.op = None \/ s.op.ack # "none"
     /\ \A p \in Parts : Since(h, c, p, s.draft[p], h[s.base].text[p])
  \/ /\ s.op # None /\ s.op.ack = "none"
     /\ \A p \in Parts : \/ s.draft[p] = s.op.content[p]
                         \/ New(h, c, p, s.draft[p]) /\ s.draft[p] # s.op.request[p]

StateFits(h, I, c, s) ==
  /\ HeadFits(I, s.op)
  /\ DraftFits(h, c, s)
  /\ s.op # None => RequestFits(h, I, c, s.op)

(* Nobody wrote more than they typed.                                      *)
Known(E, text) == \A c \in Clients, p \in Parts : text[p].by = c => text[p].n <= E[c]

OpSound(h, E, g, op) ==
  /\ op.expected <= Len(h)
  /\ Known(E, op.content) /\ Known(E, op.request)
  /\ op.content["body"] = op.request["body"]
  /\ g => op.content["front"].by = World /\ op.request["front"].by = World
  /\ ~g => op.content = op.request

StateSound(h, E, g, s) ==
  /\ s.base <= Len(h) /\ Known(E, s.draft)
  /\ s.op # None => OpSound(h, E, g, s.op)

(* What a session holds while it waits to do a step.                       *)
OpAt(op, step) ==
  /\ step \in HostSteps => op # None
  /\ step = "prepare" => ~op.ref /\ op.ack = "none"
  /\ step \in {"query", "commit", "settled"} => op.ref /\ op.ack = "none"
  /\ step = "ack" => op.ack # "none"
  /\ step \in OpGone => op = None

NextStep(t) == IF t.at \in Saving THEN t.then ELSE t.at

(* Before the host is asked, the operation is in the checkpoint, and no    *)
(* other change of the checkpoint can still be carried out.                *)
TaskFits(h, I, g, k, l, m, t) ==
  /\ m.landed => m.holds /\ m.uncertain # None /\ k = m.uncertain /\ l = None
  /\ t.at \in {"saving", "retry"} => m.uncertain # None
  /\ t.at \in HostSteps => /\ m.holds /\ m.uncertain = None /\ l = None
                           /\ k # None /\ k.op = m.state.op
  /\ t.at = "saving" /\ t.adopted = None => m.uncertain.op = m.state.op
  /\ t.at = "settled" => I[m.state.op.id].state \in Settled
  /\ OpAt(m.state.op, NextStep(t))
  /\ t.adopted # None =>
       /\ NextStep(t) = "copied"
       /\ t.adopted.op = None /\ t.adopted.draft = h[t.adopted.base].text
  /\ NextStep(t) = "copied" => t.adopted # None
  /\ t.at = "refresh" => t.submitted # None /\ g
  /\ NextStep(t) = "plan" => ~m.state.conflict
  /\ t.then \notin Saving \cup {"settled", "refresh", "adopt"}
  /\ t.back \in Settling

Sound(h, E, g, k, l, m, t) ==
  /\ k # None => StateSound(h, E, g, k)
  /\ l # None => StateSound(h, E, g, l)
  /\ m # None => /\ StateSound(h, E, g, m.state)
                 /\ m.uncertain # None => StateSound(h, E, g, m.uncertain)
  /\ t.adopted # None => StateSound(h, E, g, t.adopted)
  /\ t.submitted # None => Known(E, t.submitted)

(* Whatever state may become the next checkpoint fits.                     *)
Fits(h, I, c, k, l, m) ==
  /\ k = None => HeadFits(I, None)
  /\ k # None => StateFits(h, I, c, k)
  /\ l # None => StateFits(h, I, c, l)
  /\ m # None /\ m.holds => /\ StateFits(h, I, c, m.state)
                            /\ m.uncertain # None => StateFits(h, I, c, m.uncertain)

IntentFits(h, i) ==
  /\ i.acked => i.state \in Settled
  /\ i.state = "committed" => i.rev \in 1 .. Len(h) /\ h[i.rev].text = i.request

Typed(k, l, m, t) ==
  /\ k \in State \cup {None} /\ l \in State \cup {None}
  /\ m \in Session \cup {None} /\ t \in Task

ClientFits(h, I, E, g, c, k, l, m, t) ==
  /\ Typed(k, l, m, t)
  /\ Sound(h, E, g, k, l, m, t)
  /\ Fits(h, I, c, k, l, m)
  /\ m # None => TaskFits(h, I, g, k, l, m, t)
  /\ m = None => t = Idle

IntentsFit(h, I) == \A o \in Ops : I[o] # None => IntentFits(h, I[o])

Client(c) ==
  ClientFits(history, intent[c], edits, managed, c, ckpt[c], late[c], mem[c], task[c])

(* What the history says of who wrote it.                                  *)
Worldly(h) == {r \in DOMAIN h : h[r].op = None}
HistoryFits(h, E, g) ==
  \A r \in 1 .. Len(h) :
    /\ Known(E, h[r].text)
    /\ g => h[r].text["front"].by = World
    /\ \A p \in Parts :
         h[r].text[p].by = World => h[r].text[p].n <= Cardinality(Worldly(h)) - 1

(* A revision by an operation is the one its intent names.                 *)
Receipt(c, o) == <<c, o>>
Names(all, op, r) ==
  \E c \in Clients, o \in Ops :
    /\ op = Receipt(c, o) /\ all[c][o] # None
    /\ all[c][o].state = "committed" /\ all[c][o].rev = r
Authored ==
  \A r \in 1 .. Latest : history[r].op # None => Names(intent, history[r].op, r)

IInv ==
  /\ TypeOK
  /\ HistoryFits(history, edits, managed) /\ Authored
  /\ \A c \in Clients : IntentsFit(history, intent[c]) /\ Client(c)
  /\ NoSilentRevert

-------------------------------------------------------------------------------
(* What moves one client.                                                  *)

Local(c, k, l, m, t) ==
  /\ ckpt' = [ckpt EXCEPT ![c] = k] /\ late' = [late EXCEPT ![c] = l]
  /\ mem' = [mem EXCEPT ![c] = m] /\ task' = [task EXCEPT ![c] = t]
  /\ UNCHANGED <<history, intent, edits, managed>>

Limits ==
  copies \subseteq Text /\ crashes \in 0 .. MaxCrashes /\ faults \in 0 .. MaxFaults

Fitting(c, k, l, m, t) ==
  ClientFits(history, intent[c], edits, managed, c, k, l, m, t)

LEMMA LocalKeeps ==
  ASSUME IInv, NEW c \in Clients, NEW k, NEW l, NEW m, NEW t, Local(c, k, l, m, t),
         Fitting(c, k, l, m, t), Limits'
  PROVE  IInv'
<1>1. /\ UNCHANGED <<history, intent, edits, managed>>
      /\ DOMAIN ckpt = Clients /\ DOMAIN late = Clients
      /\ DOMAIN mem = Clients /\ DOMAIN task = Clients
  BY DEF Local, IInv, TypeOK
<1>2. /\ ckpt'[c] = k /\ late'[c] = l /\ mem'[c] = m /\ task'[c] = t
      /\ \A d \in Clients : d # c => /\ ckpt'[d] = ckpt[d] /\ late'[d] = late[d]
                                     /\ mem'[d] = mem[d] /\ task'[d] = task[d]
  BY <1>1 DEF Local
<1>3. Typed(k, l, m, t)
  BY DEF Fitting, ClientFits
<1>4. TypeOK'
  <2>1. /\ ckpt' \in [Clients -> State \cup {None}] /\ late' \in [Clients -> State \cup {None}]
        /\ mem' \in [Clients -> Session \cup {None}] /\ task' \in [Clients -> Task]
    BY <1>3 DEF Local, Typed, IInv, TypeOK
  <2>2. /\ history \in Seq([text : Text, op : (Clients \X Ops) \cup {None}])
        /\ Latest >= 1
        /\ intent \in [Clients -> [Ops -> Intent \cup {None}]]
        /\ edits \in [Clients -> 0..MaxEdits] /\ managed \in Kinds
    BY DEF IInv, TypeOK
  <2> QED
    BY <1>1, <2>1, <2>2 DEF TypeOK, Limits, Latest
<1>5. HistoryFits(history, edits, managed)' /\ Authored' /\ NoSilentRevert'
  BY <1>1 DEF IInv, Authored, NoSilentRevert, Latest
<1>6. ASSUME NEW d \in Clients
      PROVE  IntentsFit(history', intent'[d]) /\ Client(d)'
  <2>1. IntentsFit(history, intent[d])
    BY DEF IInv
  <2>2. CASE d = c
    BY <1>1, <1>2, <2>1, <2>2 DEF Fitting, Client
  <2>3. CASE d # c
    <3>1. ClientFits(history, intent[d], edits, managed, d, ckpt[d], late[d], mem[d], task[d])
      BY DEF IInv, Client
    <3> QED
      BY <1>1, <1>2, <2>1, <2>3, <3>1 DEF Client
  <2> QED
    BY <2>2, <2>3
<1> QED
  BY <1>4, <1>5, <1>6 DEF IInv

-------------------------------------------------------------------------------
(* Steps of one client, as what they make of its parts.                    *)

(* Another step of the same task.                                          *)
LEMMA TaskMoves ==
  ASSUME NEW h, NEW I, NEW E, NEW g, NEW c, NEW k, NEW l, NEW m, NEW t, NEW new,
         ClientFits(h, I, E, g, c, k, l, m, t), m # None,
         new \in Task, new.adopted = None \/ StateSound(h, E, g, new.adopted),
         new.submitted = None \/ Known(E, new.submitted),
         TaskFits(h, I, g, k, l, m, new)
  PROVE  ClientFits(h, I, E, g, c, k, l, m, new)
<1>1. Typed(k, l, m, new)
  BY DEF ClientFits, Typed
<1>2. Sound(h, E, g, k, l, m, new)
  BY DEF ClientFits, Sound
<1> QED
  BY <1>1, <1>2 DEF ClientFits

(* A new state of the note, and what is done next.                         *)
LEMMA StateMoves ==
  ASSUME NEW h, NEW I, NEW E, NEW g, NEW c, NEW k, NEW l, NEW m, NEW t, NEW s, NEW new,
         ClientFits(h, I, E, g, c, k, l, m, t), m # None,
         s \in State, StateSound(h, E, g, s), m.holds => StateFits(h, I, c, s),
         new \in Task, new.adopted = None \/ StateSound(h, E, g, new.adopted),
         new.submitted = None \/ Known(E, new.submitted),
         TaskFits(h, I, g, k, l, [m EXCEPT !.state = s], new)
  PROVE  ClientFits(h, I, E, g, c, k, l, [m EXCEPT !.state = s], new)
<1> DEFINE n == [m EXCEPT !.state = s]
<1>1. m \in Session
  BY DEF ClientFits, Typed
<1>2. /\ n \in Session /\ n.state = s /\ n.uncertain = m.uncertain
      /\ n.holds = m.holds /\ n # None
  BY <1>1, NoneAssumption DEF Session
<1> HIDE DEF n
<1>3. Typed(k, l, n, new)
  BY <1>2 DEF ClientFits, Typed
<1>4. Sound(h, E, g, k, l, n, new)
  BY <1>2 DEF ClientFits, Sound
<1>5. Fits(h, I, c, k, l, n)
  BY <1>2 DEF ClientFits, Fits
<1>6. TaskFits(h, I, g, k, l, n, new)
  BY DEF n
<1> QED
  BY <1>2, <1>3, <1>4, <1>5, <1>6 DEF ClientFits, n

LEMMA IdleTask ==
  /\ Idle \in Task /\ Idle.at = "idle" /\ Idle.then = "idle" /\ Idle.back = "idle"
  /\ Idle.adopted = None /\ Idle.submitted = None
BY DEF Idle, Task, Steps

(* Nothing is asked of a session that waits for the user.                  *)
LEMMA AtRest ==
  ASSUME NEW h, NEW I, NEW g, NEW k, NEW l, NEW m, NEW t,
         TaskFits(h, I, g, k, l, m, t), NEW n,
         n.landed = m.landed, n.holds = m.holds, n.uncertain = m.uncertain
  PROVE  TaskFits(h, I, g, k, l, n, Idle)
<1>1. OpAt(n.state.op, NextStep(Idle)) /\ NextStep(Idle) = "idle"
  BY IdleTask DEF OpAt, NextStep, HostSteps, OpGone, Saving
<1> QED
  BY <1>1, IdleTask DEF TaskFits, HostSteps, Settling, Saving

(* A session that throws keeps what it knows.                              *)
Failed(m, n) ==
  /\ n \in Session /\ n # None
  /\ n.state = m.state /\ n.confirmed = m.confirmed /\ n.uncertain = m.uncertain
  /\ n.holds = m.holds /\ n.landed = m.landed

LEMMA ThrowsFits ==
  ASSUME NEW h, NEW I, NEW E, NEW g, NEW c, NEW k, NEW l, NEW m, NEW t,
         ClientFits(h, I, E, g, c, k, l, m, t), m # None, NEW n, Failed(m, n)
  PROVE  ClientFits(h, I, E, g, c, k, l, n, Idle)
<1>1. Typed(k, l, n, Idle)
  BY IdleTask DEF ClientFits, Typed, Failed
<1>2. Sound(h, E, g, k, l, n, Idle)
  BY IdleTask DEF ClientFits, Sound, Failed
<1>3. Fits(h, I, c, k, l, n)
  BY DEF ClientFits, Fits, Failed
<1>4. TaskFits(h, I, g, k, l, n, Idle)
  BY AtRest DEF ClientFits, Failed
<1> QED
  BY <1>1, <1>2, <1>3, <1>4 DEF ClientFits, Failed

(* The parts of an open session.                                           *)
LEMMA OpenSession ==
  ASSUME IInv, NEW c \in Clients, IsOpen(c)
  PROVE  /\ mem[c] \in Session /\ task[c] \in Task
         /\ mem[c].state \in State /\ mem[c].uncertain \in State \cup {None}
         /\ mem[c].holds \in BOOLEAN /\ mem[c].landed \in BOOLEAN
         /\ mem[c].confirmed \in State \cup {None}
         /\ ckpt[c] \in State \cup {None} /\ late[c] \in State \cup {None}
         /\ Fitting(c, ckpt[c], late[c], mem[c], task[c])
         /\ TaskFits(history, intent[c], managed, ckpt[c], late[c], mem[c], task[c])
         /\ Sound(history, edits, managed, ckpt[c], late[c], mem[c], task[c])
         /\ Fits(history, intent[c], c, ckpt[c], late[c], mem[c])
         /\ Limits
<1>1. Fitting(c, ckpt[c], late[c], mem[c], task[c])
  BY DEF IInv, Client, Fitting
<1>2. mem[c] # None
  BY DEF IsOpen
<1>3. /\ mem[c] \in Session /\ task[c] \in Task
      /\ ckpt[c] \in State \cup {None} /\ late[c] \in State \cup {None}
  BY <1>1, <1>2 DEF Fitting, ClientFits, Typed
<1>4. /\ mem[c].state \in State /\ mem[c].uncertain \in State \cup {None}
      /\ mem[c].holds \in BOOLEAN /\ mem[c].landed \in BOOLEAN
      /\ mem[c].confirmed \in State \cup {None}
  BY <1>3 DEF Session
<1>5. Limits
  BY DEF IInv, TypeOK, Limits
<1> QED
  BY <1>1, <1>2, <1>3, <1>4, <1>5 DEF Fitting, ClientFits

LEMMA TaskStep ==
  ASSUME IInv, NEW c \in Clients, IsOpen(c), NEW new \in Task,
         new.adopted = None \/ StateSound(history, edits, managed, new.adopted),
         new.submitted = None \/ Known(edits, new.submitted),
         TaskFits(history, intent[c], managed, ckpt[c], late[c], mem[c], new),
         task' = [task EXCEPT ![c] = new],
         UNCHANGED <<hostVars, ckpt, late, mem, edits, managed>>, Limits'
  PROVE  IInv'
<1>1. Fitting(c, ckpt[c], late[c], mem[c], new)
  BY OpenSession, TaskMoves DEF Fitting, IsOpen
<1>2. Local(c, ckpt[c], late[c], mem[c], new)
  BY DEF Local, hostVars, IInv, TypeOK
<1> QED
  BY <1>1, <1>2, LocalKeeps

LEMMA StateStep ==
  ASSUME IInv, NEW c \in Clients, IsOpen(c), NEW s \in State, NEW new \in Task,
         StateSound(history, edits, managed, s),
         mem[c].holds => StateFits(history, intent[c], c, s),
         new.adopted = None \/ StateSound(history, edits, managed, new.adopted),
         new.submitted = None \/ Known(edits, new.submitted),
         TaskFits(history, intent[c], managed, ckpt[c], late[c], [mem[c] EXCEPT !.state = s], new),
         mem' = [mem EXCEPT ![c].state = s], task' = [task EXCEPT ![c] = new],
         UNCHANGED <<hostVars, ckpt, late, edits, managed>>, Limits'
  PROVE  IInv'
<1>1. Fitting(c, ckpt[c], late[c], [mem[c] EXCEPT !.state = s], new)
  BY OpenSession, StateMoves DEF Fitting, IsOpen
<1>2. Local(c, ckpt[c], late[c], [mem[c] EXCEPT !.state = s], new)
  BY DEF Local, hostVars, IInv, TypeOK
<1> QED
  BY <1>1, <1>2, LocalKeeps

(* A task that throws leaves its session as it is or makes it terminal.    *)
LEMMA ThrownSession ==
  ASSUME IInv, NEW c \in Clients, IsOpen(c), Throws(c)
  PROVE  \E n : /\ mem' = [mem EXCEPT ![c] = n] /\ task' = [task EXCEPT ![c] = Idle]
                /\ Failed(mem[c], n)
<1> DEFINE m == mem[c]
           n == [m EXCEPT !.terminal = TRUE]
<1>1. m \in Session /\ m # None
  BY OpenSession DEF IsOpen
<1>2. CASE Recovering(c)
  <2>1. Failed(m, n)
    BY <1>1, NoneAssumption DEF Failed, Session
  <2>2. mem' = [mem EXCEPT ![c] = n]
    BY <1>2 DEF Throws, IInv, TypeOK
  <2> QED
    BY <2>1, <2>2 DEF Throws
<1>3. CASE ~Recovering(c)
  <2>1. Failed(m, m) /\ mem' = [mem EXCEPT ![c] = m]
    BY <1>1, <1>3 DEF Throws, Failed, IInv, TypeOK
  <2> QED
    BY <2>1 DEF Throws
<1> QED
  BY <1>2, <1>3

LEMMA ThrowsStep ==
  ASSUME IInv, NEW c \in Clients, IsOpen(c), Throws(c),
         UNCHANGED <<hostVars, ckpt, late, edits, managed>>, Limits'
  PROVE  IInv'
<1>1. PICK n : /\ mem' = [mem EXCEPT ![c] = n] /\ task' = [task EXCEPT ![c] = Idle]
               /\ Failed(mem[c], n)
  BY ThrownSession
<1>2. Fitting(c, ckpt[c], late[c], n, Idle)
  BY <1>1, OpenSession, ThrowsFits DEF Fitting, IsOpen
<1>3. Local(c, ckpt[c], late[c], n, Idle)
  BY <1>1 DEF Local, hostVars, IInv, TypeOK
<1> QED
  BY <1>2, <1>3, LocalKeeps

(* A step that asks nothing of the host, and not for a plan or a copy.     *)
LEMMA QuietFits ==
  ASSUME NEW h, NEW I, NEW g, NEW k, NEW l, NEW m, NEW t,
         TaskFits(h, I, g, k, l, m, t), NEW n,
         n.landed = m.landed, n.holds = m.holds, n.uncertain = m.uncertain,
         NEW new, new.adopted = None, new.back \in Settling,
         new.then \notin Saving \cup {"settled", "refresh", "adopt"},
         new.at \notin HostSteps \cup {"saving", "retry", "refresh"},
         NextStep(new) \notin {"plan", "copied"}, OpAt(n.state.op, NextStep(new))
  PROVE  TaskFits(h, I, g, k, l, n, new)
BY DEF TaskFits, HostSteps

(* A task that resumes an operation first checkpoints it.                  *)
Resuming(back) == [Idle EXCEPT !.at = "save", !.then = "resume", !.back = back]

LEMMA ResumingTask ==
  ASSUME NEW back \in Settling
  PROVE  /\ Resuming(back) \in Task
         /\ Resuming(back).adopted = None /\ Resuming(back).submitted = None
         /\ Resuming(back).back = back /\ Resuming(back).at = "save"
         /\ NextStep(Resuming(back)) = "resume" /\ Resuming(back).then = "resume"
BY DEF Resuming, Idle, Task, Steps, Settling, NextStep, Saving

LEMMA ResumingFits ==
  ASSUME NEW h, NEW I, NEW g, NEW k, NEW l, NEW m, NEW t,
         TaskFits(h, I, g, k, l, m, t), NEW n, NEW back \in Settling,
         n.landed = m.landed, n.holds = m.holds, n.uncertain = m.uncertain,
         n.state.op # None
  PROVE  TaskFits(h, I, g, k, l, n, Resuming(back))
<1>1. OpAt(n.state.op, "resume")
  BY DEF OpAt, OpGone, HostSteps
<1> QED
  BY <1>1, ResumingTask, QuietFits DEF HostSteps, Saving

LEMMA ResumeStep ==
  ASSUME IInv, NEW c \in Clients, IsOpen(c), NEW back \in Settling,
         mem[c].state.op # None, ResumeThen(c, back),
         UNCHANGED <<hostVars, ckpt, late, mem, edits, managed>>, Limits'
  PROVE  IInv'
<1>1. task' = [task EXCEPT ![c] = Resuming(back)]
  BY DEF ResumeThen, Resuming
<1>2. TaskFits(history, intent[c], managed, ckpt[c], late[c], mem[c], Resuming(back))
  BY OpenSession, ResumingFits
<1> QED
  BY <1>1, <1>2, ResumingTask, TaskStep

(* The next step of the task, which carries no adopted state.              *)
LEMMA GotoStep ==
  ASSUME IInv, NEW c \in Clients, IsOpen(c), NEW step \in Steps, task[c].adopted = None,
         \/ Goto(c, step)
         \/ task' = [task EXCEPT ![c].at = step, ![c].gen = edits[c]]
         \/ SaveThen(c, step) /\ step # "adopt",
         step \notin HostSteps \cup Saving \cup {"refresh", "copied"}, OpAt(mem[c].state.op, step),
         step = "plan" => ~mem[c].state.conflict,
         UNCHANGED <<hostVars, ckpt, late, mem, edits, managed>>, Limits'
  PROVE  IInv'
<1>1. /\ task[c] \in Task /\ Sound(history, edits, managed, ckpt[c], late[c], mem[c], task[c])
      /\ TaskFits(history, intent[c], managed, ckpt[c], late[c], mem[c], task[c])
  BY OpenSession
<1>2. edits[c] \in Nat
  BY DEF IInv, TypeOK
<1>3. PICK new \in Task : /\ task' = [task EXCEPT ![c] = new]
                          /\ new.adopted = None /\ new.submitted = task[c].submitted
                          /\ new.back = task[c].back
                          /\ new.at \in {step, "save"} /\ NextStep(new) = step
                          /\ new.then = task[c].then \/ (new.then = step /\ step # "adopt")
  <2>1. CASE Goto(c, step)
    <3> DEFINE new == [task[c] EXCEPT !.at = step]
    <3>1. new \in Task /\ task' = [task EXCEPT ![c] = new]
      BY <1>1, <2>1 DEF Goto, Task
    <3> QED
      BY <1>1, <2>1, <3>1 DEF NextStep, Task
  <2>2. CASE task' = [task EXCEPT ![c].at = step, ![c].gen = edits[c]]
    <3> DEFINE new == [task[c] EXCEPT !.at = step, !.gen = edits[c]]
    <3>1. new \in Task /\ task' = [task EXCEPT ![c] = new]
      BY <1>1, <1>2, <2>2 DEF Task, IInv, TypeOK
    <3> QED
      BY <1>1, <2>2, <3>1 DEF NextStep, Task
  <2>3. CASE SaveThen(c, step) /\ step # "adopt"
    <3> DEFINE new == [task[c] EXCEPT !.at = "save", !.then = step]
    <3>1. new \in Task /\ task' = [task EXCEPT ![c] = new]
      BY ZenonT(40), <1>1, <2>3 DEF SaveThen, Task, Steps, IInv, TypeOK
    <3> QED
      BY <1>1, <2>3, <3>1 DEF NextStep, Task, Saving
  <2> QED
    BY <2>1, <2>2, <2>3
<1>4. new.submitted = None \/ Known(edits, new.submitted)
  BY <1>1, <1>3 DEF Sound
<1>5. TaskFits(history, intent[c], managed, ckpt[c], late[c], mem[c], new)
  <2>1. new.at \notin HostSteps \cup {"saving", "retry", "refresh"}
    <3>1. CASE new.at = "save"
      BY <3>1 DEF HostSteps
    <3>2. CASE new.at = step
      BY <1>3, <3>2 DEF HostSteps, NextStep, Saving
    <3> QED
      BY <1>3, <3>1, <3>2
  <2>2. OpAt(mem[c].state.op, NextStep(new)) /\ NextStep(new) # "copied"
    BY <1>3
  <2>3. new.back \in Settling /\ new.then \notin Saving \cup {"settled", "refresh", "adopt"}
    BY <1>1, <1>3 DEF TaskFits, HostSteps
  <2> QED
    BY <1>1, <1>3, <2>1, <2>2, <2>3, SMTT(30) DEF TaskFits, HostSteps
<1> QED
  BY <1>3, <1>4, <1>5, TaskStep

(* What a task knows of itself at a step that saves nothing.               *)
LEMMA AtStep ==
  ASSUME IInv, NEW c \in Clients, NEW step \in Steps, At(c, step), step \notin Saving
  PROVE  /\ IsOpen(c) /\ task[c].at = step /\ OpAt(mem[c].state.op, step)
         /\ step # "copied" => task[c].adopted = None
         /\ step \in HostSteps =>
              /\ mem[c].holds /\ mem[c].uncertain = None /\ late[c] = None
              /\ ckpt[c] # None /\ ckpt[c].op = mem[c].state.op
              /\ StateFits(history, intent[c], c, mem[c].state)
              /\ StateFits(history, intent[c], c, ckpt[c])
         /\ task[c].back \in Settling
<1>1. IsOpen(c) /\ task[c].at = step /\ NextStep(task[c]) = step
  BY DEF At, NextStep
<1> QED
  BY <1>1, OpenSession DEF TaskFits, Fits, IsOpen

(* From one call of the host to the next.                                  *)
LEMMA HostStep ==
  ASSUME IInv, NEW c \in Clients, NEW from \in HostSteps, At(c, from),
         NEW step \in HostSteps, Goto(c, step), OpAt(mem[c].state.op, step),
         step = "settled" => intent[c][mem[c].state.op.id].state \in Settled,
         UNCHANGED <<hostVars, ckpt, late, mem, edits, managed>>, Limits'
  PROVE  IInv'
<1>1. from \in Steps /\ from \notin Saving /\ from # "copied"
  BY DEF HostSteps, Saving, Steps
<1>2. /\ step \in Steps /\ step \notin Saving
      /\ step \notin {"saving", "retry", "refresh", "copied", "plan"}
  BY DEF HostSteps, Saving, Steps
<1> DEFINE new == [task[c] EXCEPT !.at = step]
<1>3. task[c] \in Task /\ IsOpen(c)
  BY <1>1, AtStep, OpenSession
<1>4. /\ new \in Task /\ new.at = step /\ NextStep(new) = step
      /\ new.adopted = task[c].adopted /\ new.submitted = task[c].submitted
      /\ new.back = task[c].back /\ new.then = task[c].then
  BY <1>2, <1>3 DEF Task, NextStep
<1>5. task' = [task EXCEPT ![c] = new]
  BY DEF Goto, IInv, TypeOK
<1> HIDE DEF new
<1>6. TaskFits(history, intent[c], managed, ckpt[c], late[c], mem[c], new)
  <2>1. TaskFits(history, intent[c], managed, ckpt[c], late[c], mem[c], task[c])
    BY <1>3, OpenSession
  <2>2. /\ task[c].adopted = None
        /\ mem[c].holds /\ mem[c].uncertain = None /\ late[c] = None
        /\ ckpt[c] # None /\ ckpt[c].op = mem[c].state.op
    BY <1>1, AtStep
  <2> QED
    BY <1>2, <1>4, <2>1, <2>2 DEF TaskFits
<1>7. new.submitted = None \/ Known(edits, new.submitted)
  BY <1>3, <1>4, OpenSession DEF Sound
<1>8. new.adopted = None
  BY <1>1, <1>4, AtStep
<1> QED
  BY <1>3, <1>4, <1>5, <1>6, <1>7, <1>8, TaskStep

LEMMA LimitsKept == ASSUME IInv, UNCHANGED <<copies, limits>> PROVE Limits'
BY DEF IInv, TypeOK, Limits, limits

LEMMA CheckpointKeeps == ASSUME IInv, NEW c \in Clients, Checkpoint(c) PROVE IInv'
<1>1. At(c, "idle") /\ "idle" \in Steps \ (Saving \cup HostSteps)
  BY DEF Checkpoint, Steps, Saving, HostSteps
<1>2. IsOpen(c) /\ task[c].adopted = None /\ OpAt(mem[c].state.op, "idle")
  BY <1>1, AtStep
<1> QED
  BY <1>1, <1>2, GotoStep, LimitsKept DEF Checkpoint, limits

LEMMA ResumeKeeps == ASSUME IInv, NEW c \in Clients, Resume(c) PROVE IInv'
<1> DEFINE op == mem[c].state.op
           step == IF op.ack # "none" THEN "ack" ELSE IF op.ref THEN "query" ELSE "prepare"
<1>1. At(c, "resume") /\ Goto(c, step)
  BY DEF Resume
<1>2. "resume" \in HostSteps /\ step \in HostSteps
  BY DEF HostSteps
<1>3. OpAt(op, "resume")
  BY <1>1, AtStep DEF Steps, Saving
<1>4. OpAt(op, step) /\ step # "settled"
  BY <1>3 DEF OpAt, HostSteps, OpGone
<1> QED
  BY <1>1, <1>2, <1>4, HostStep, LimitsKept DEF Resume, limits

LEMMA QueryKeeps == ASSUME IInv, NEW c \in Clients, Query(c) PROVE IInv'
<1> DEFINE i == intent[c][mem[c].state.op.id]
<1>1. At(c, "query") /\ IsOpen(c)
  BY DEF Query, At
<1>2. OpAt(mem[c].state.op, "query")
  BY <1>1, AtStep DEF Steps, Saving
<1>3. UNCHANGED <<hostVars, ckpt, late, edits, managed>> /\ Limits'
  BY LimitsKept DEF Query, limits
<1>4. CASE Throws(c)
  BY <1>1, <1>3, <1>4, ThrowsStep
<1>5. CASE i.state \in Settled /\ Goto(c, "settled") /\ UNCHANGED mem
  <2>1. OpAt(mem[c].state.op, "settled")
    BY <1>2 DEF OpAt, HostSteps, OpGone
  <2> QED
    BY <1>1, <1>3, <1>5, <2>1, HostStep DEF HostSteps
<1>6. CASE Goto(c, "commit") /\ UNCHANGED mem
  <2>1. OpAt(mem[c].state.op, "commit")
    BY <1>2 DEF OpAt, HostSteps, OpGone
  <2> QED
    BY <1>1, <1>3, <1>6, <2>1, HostStep DEF HostSteps
<1> QED
  BY <1>4, <1>5, <1>6 DEF Query

LEMMA CommittedKeeps == ASSUME IInv, NEW c \in Clients, Committed(c) PROVE IInv'
<1>1. At(c, "commit") /\ Goto(c, "settled")
  BY DEF Committed
<1>2. OpAt(mem[c].state.op, "commit")
  BY <1>1, AtStep DEF Steps, Saving
<1>3. OpAt(mem[c].state.op, "settled")
  BY <1>2 DEF OpAt, HostSteps, OpGone
<1>4. intent[c][mem[c].state.op.id].state \in Settled
  BY DEF Committed
<1> QED
  BY <1>1, <1>3, <1>4, HostStep, LimitsKept DEF Committed, HostSteps, limits

LEMMA FlushKeeps == ASSUME IInv, NEW c \in Clients, Flush(c) PROVE IInv'
<1>1. At(c, "idle") /\ "idle" \in Steps \ Saving
  BY DEF Flush, Steps, Saving
<1>2. IsOpen(c) /\ task[c].adopted = None
  BY <1>1, AtStep
<1>3. OpAt(mem[c].state.op, "flush") /\ "flush" \in Steps \ (Saving \cup HostSteps)
  BY DEF OpAt, HostSteps, OpGone, Steps, Saving
<1> QED
  BY <1>1, <1>2, <1>3, GotoStep, LimitsKept DEF Flush, limits

(* A task goes on at once, or after it resumed the retained operation.     *)
LEMMA AfterOperation ==
  ASSUME IInv, NEW c \in Clients, NEW from \in Steps \ Saving, from # "copied", At(c, from),
         NEW step \in Settling \cap OpGone,
         IF mem[c].state.op # None THEN ResumeThen(c, step) ELSE Goto(c, step),
         UNCHANGED <<hostVars, ckpt, late, mem, edits, managed>>, Limits'
  PROVE  IInv'
<1>1. IsOpen(c) /\ task[c].adopted = None
  BY AtStep
<1>2. CASE mem[c].state.op # None
  BY <1>1, <1>2, ResumeStep
<1>3. CASE mem[c].state.op = None
  <2>1. /\ OpAt(mem[c].state.op, step) /\ step \in Steps \ (Saving \cup HostSteps)
        /\ step \notin {"refresh", "copied", "plan"}
    BY <1>3 DEF OpAt, HostSteps, OpGone, Steps, Saving, Settling
  <2> QED
    BY <1>1, <1>3, <2>1, GotoStep
<1> QED
  BY <1>2, <1>3

LEMMA FlushOperationKeeps == ASSUME IInv, NEW c \in Clients, FlushOperation(c) PROVE IInv'
<1>1. "flush" \in Steps \ Saving /\ "flushed" \in Settling \cap OpGone
  BY DEF Steps, Saving, Settling, OpGone
<1> QED
  BY <1>1, AfterOperation, LimitsKept DEF FlushOperation, limits

LEMMA ReloadKeeps == ASSUME IInv, NEW c \in Clients, Reload(c) PROVE IInv'
<1>1. "idle" \in Steps \ Saving /\ "reload" \in Settling \cap OpGone
  BY DEF Steps, Saving, Settling, OpGone
<1> QED
  BY <1>1, AfterOperation, LimitsKept DEF Reload, limits

LEMMA SaveRecoveryCopyKeeps ==
  ASSUME IInv, NEW c \in Clients, SaveRecoveryCopy(c) PROVE IInv'
<1>1. "idle" \in Steps \ Saving /\ "copy" \in Settling \cap OpGone
  BY DEF Steps, Saving, Settling, OpGone
<1> QED
  BY <1>1, AfterOperation, LimitsKept DEF SaveRecoveryCopy, limits

LEMMA FlushedKeeps == ASSUME IInv, NEW c \in Clients, Flushed(c) PROVE IInv'
<1>1. At(c, "flushed") /\ "flushed" \in Steps \ Saving
  BY DEF Flushed, Steps, Saving
<1>2. IsOpen(c) /\ task[c].adopted = None /\ mem[c].state.op = None
  BY <1>1, AtStep DEF OpAt, OpGone
<1>3. UNCHANGED <<hostVars, ckpt, late, edits, managed>> /\ Limits'
  BY LimitsKept DEF Flushed, limits
<1>4. CASE Throws(c)
  BY <1>2, <1>3, <1>4, ThrowsStep
<1>5. CASE SaveThen(c, "idle") /\ UNCHANGED mem
  <2>1. OpAt(mem[c].state.op, "idle") /\ "idle" \in Steps \ (HostSteps \cup Saving)
    BY DEF OpAt, HostSteps, OpGone, Steps, Saving
  <2> QED
    BY <1>2, <1>3, <1>5, <2>1, GotoStep
<1>6. CASE ~mem[c].state.conflict /\ Goto(c, "plan") /\ UNCHANGED mem
  <2>1. OpAt(mem[c].state.op, "plan") /\ "plan" \in Steps \ (HostSteps \cup Saving)
    BY <1>2 DEF OpAt, HostSteps, OpGone, Steps, Saving
  <2> QED
    BY <1>2, <1>3, <1>6, <2>1, GotoStep
<1> QED
  BY <1>4, <1>5, <1>6 DEF Flushed

(* A task that ends.                                                       *)
LEMMA EndStep ==
  ASSUME IInv, NEW c \in Clients, IsOpen(c), task' = [task EXCEPT ![c] = Idle],
         UNCHANGED <<hostVars, ckpt, late, mem, edits, managed>>, Limits'
  PROVE  IInv'
<1>1. TaskFits(history, intent[c], managed, ckpt[c], late[c], mem[c], Idle)
  BY OpenSession, AtRest
<1> QED
  BY <1>1, IdleTask, TaskStep

LEMMA OpenedKeeps == ASSUME IInv, NEW c \in Clients, Opened(c) PROVE IInv'
BY EndStep, LimitsKept DEF Opened, At, limits

LEMMA RefreshManagedProjectionKeeps ==
  ASSUME IInv, NEW c \in Clients, RefreshManagedProjection(c) PROVE IInv'
<1> DEFINE new == [task[c] EXCEPT !.at = "refresh", !.submitted = mem[c].state.draft]
<1>1. /\ At(c, "idle") /\ managed /\ mem[c].state.op = None
      /\ task' = [task EXCEPT ![c].at = "refresh", ![c].submitted = mem[c].state.draft]
  BY DEF RefreshManagedProjection
<1>2. /\ IsOpen(c) /\ task[c].adopted = None /\ task[c].back \in Settling
      /\ task[c] \in Task
  BY <1>1, AtStep, OpenSession DEF Steps, Saving
<1>3. mem[c].state.draft \in Text /\ mem[c].state.draft # None
      /\ Known(edits, mem[c].state.draft)
  BY <1>2, OpenSession, NoneAssumption DEF Sound, StateSound, State, IsOpen
<1>4. /\ new \in Task /\ new.at = "refresh" /\ new.adopted = None
      /\ new.submitted = mem[c].state.draft /\ new.back = task[c].back
      /\ new.then = task[c].then
      /\ task' = [task EXCEPT ![c] = new]
  BY <1>1, <1>2, <1>3 DEF Task, Steps, IInv, TypeOK
<1> HIDE DEF new
<1>5. NextStep(new) = "refresh" /\ OpAt(mem[c].state.op, "refresh")
  BY <1>1, <1>4 DEF NextStep, Saving, OpAt, HostSteps, OpGone
<1>6. TaskFits(history, intent[c], managed, ckpt[c], late[c], mem[c], new)
  BY <1>1, <1>2, <1>3, <1>4, <1>5, OpenSession DEF TaskFits, HostSteps
<1> QED
  BY <1>2, <1>3, <1>4, <1>6, TaskStep, LimitsKept DEF RefreshManagedProjection, limits

LEMMA CopyKeeps == ASSUME IInv, NEW c \in Clients, Copy(c) PROVE IInv'
<1>1. At(c, "copy") /\ "copy" \in Steps \ Saving
  BY DEF Copy, Steps, Saving
<1>2. IsOpen(c) /\ task[c].adopted = None /\ OpAt(mem[c].state.op, "copy")
  BY <1>1, AtStep
<1>3. OpAt(mem[c].state.op, "adopt") /\ "adopt" \in Steps \ (HostSteps \cup Saving)
  BY <1>2 DEF OpAt, HostSteps, OpGone, Steps, Saving
<1>4. Limits'
  <2>1. mem[c].state.draft \in Text
    BY <1>2, OpenSession DEF State
  <2> QED
    BY <2>1 DEF Copy, IInv, TypeOK, Limits, limits
<1> QED
  BY <1>1, <1>2, <1>3, <1>4, GotoStep DEF Copy, limits

LEMMA FailKeeps == ASSUME IInv, NEW c \in Clients, Fail(c) PROVE IInv'
<1>1. Limits'
  BY ConstantsAssumption DEF Fail, Limits, IInv, TypeOK
<1> QED
  BY <1>1, ThrowsStep DEF Fail

-------------------------------------------------------------------------------
(* Checkpoints and sessions.                                               *)

(* The revisions.                                                          *)
LEMMA Revisions ==
  ASSUME IInv
  PROVE  /\ Latest \in Nat \ {0} /\ Latest = Len(history) /\ Latest \in 1 .. Latest
         /\ DOMAIN history = 1 .. Latest
         /\ \A r \in 1 .. Latest :
              /\ history[r].text \in Text
              /\ history[r].op \in (Clients \X Ops) \cup {None}
              /\ Known(edits, history[r].text)
<1> DEFINE Revision == [text : Text, op : (Clients \X Ops) \cup {None}]
<1>1. history \in Seq(Revision) /\ Latest >= 1
  BY DEF IInv, TypeOK
<1> HIDE DEF Revision
<1>2. /\ Latest \in Nat \ {0} /\ Latest = Len(history)
      /\ DOMAIN history = 1 .. Latest
      /\ \A r \in 1 .. Latest : history[r] \in Revision
  BY <1>1 DEF Latest
<1>3. \A r \in 1 .. Latest : Known(edits, history[r].text)
  BY DEF IInv, HistoryFits, Latest
<1> QED
  BY <1>2, <1>3 DEF Revision

(* The clean state of a revision.                                          *)
LEMMA CleanSound ==
  ASSUME IInv, NEW rev \in 1 .. Latest
  PROVE  /\ Clean(rev) \in State /\ StateSound(history, edits, managed, Clean(rev))
         /\ Clean(rev).op = None /\ Clean(rev).base = rev
         /\ Clean(rev).draft = history[Clean(rev).base].text
         /\ Content(rev) \in Text /\ Known(edits, Content(rev))
<1>1. Latest \in Nat /\ rev \in DOMAIN history /\ history[rev].text \in Text
  BY Revisions
<1>2. Known(edits, history[rev].text)
  BY Revisions
<1>3. Clean(rev) \in State /\ Clean(rev).op = None /\ Clean(rev).base = rev
      /\ Clean(rev).draft = history[rev].text
  BY <1>1 DEF Clean, State, Content, Rev
<1>4. StateSound(history, edits, managed, Clean(rev))
  BY <1>1, <1>2, <1>3 DEF StateSound, Latest
<1> QED
  BY <1>1, <1>2, <1>3, <1>4 DEF Content

LEMMA CleanFits ==
  ASSUME NEW h, NEW I, NEW c, NEW s, s.op = None, s.draft = h[s.base].text,
         HeadFits(I, None)
  PROVE  StateFits(h, I, c, s)
BY DEF StateFits, DraftFits, Since

LEMMA AdoptKeeps == ASSUME IInv, NEW c \in Clients, Adopt(c) PROVE IInv'
<1>1. At(c, "adopt") /\ "adopt" \in Steps \ Saving
  BY DEF Adopt, Steps, Saving
<1>2. IsOpen(c) /\ task[c].adopted = None /\ mem[c].state.op = None
      /\ task[c].back \in Settling
  BY <1>1, AtStep DEF OpAt, OpGone
<1>3. UNCHANGED <<hostVars, ckpt, late, mem, edits, managed>> /\ Limits'
  BY LimitsKept DEF Adopt, limits
<1>4. CASE task' = [task EXCEPT ![c] = Idle]
  BY <1>2, <1>3, <1>4, EndStep
<1>5. CASE task' = [task EXCEPT ![c].at = "save", ![c].then = "copied",
                                ![c].adopted = Clean(Latest)]
  <2> DEFINE new == [task[c] EXCEPT !.at = "save", !.then = "copied",
                                    !.adopted = Clean(Latest)]
  <2>1. /\ Clean(Latest) \in State /\ StateSound(history, edits, managed, Clean(Latest))
        /\ Clean(Latest).op = None /\ Clean(Latest).draft = history[Clean(Latest).base].text
    BY CleanSound, Revisions
  <2>2. /\ new \in Task /\ new.at = "save" /\ new.then = "copied"
        /\ new.adopted = Clean(Latest) /\ new.back = task[c].back
        /\ new.submitted = task[c].submitted /\ task' = [task EXCEPT ![c] = new]
    BY <1>2, <1>5, <2>1, OpenSession DEF Task, Steps, IInv, TypeOK
  <2> HIDE DEF new
  <2>3. NextStep(new) = "copied" /\ OpAt(mem[c].state.op, "copied")
    BY <1>2, <2>2 DEF NextStep, Saving, OpAt, HostSteps, OpGone
  <2>4. Clean(Latest) # None
    BY <2>1, NoneAssumption
  <2>5. TaskFits(history, intent[c], managed, ckpt[c], late[c], mem[c], new)
    BY <1>2, <2>1, <2>2, <2>3, <2>4, OpenSession DEF TaskFits, HostSteps, Saving
  <2>6. new.submitted = None \/ Known(edits, new.submitted)
    BY <1>2, <2>2, OpenSession DEF Sound
  <2> QED
    BY <1>2, <1>3, <2>1, <2>2, <2>5, <2>6, TaskStep
<1> QED
  BY <1>4, <1>5 DEF Adopt

(* A step of a session that leaves its state and goes on at some step.     *)
LEMMA SessionStep ==
  ASSUME IInv, NEW c \in Clients, IsOpen(c), NEW k, NEW l, NEW m, NEW t,
         m \in Session, t \in Task, k \in State \cup {None}, l \in State \cup {None},
         m.state = mem[c].state,
         Fits(history, intent[c], c, k, l, m),
         Sound(history, edits, managed, k, l, m, t),
         TaskFits(history, intent[c], managed, k, l, m, t),
         Local(c, k, l, m, t), Limits'
  PROVE  IInv'
<1>1. m # None
  BY NoneAssumption
<1>2. Fitting(c, k, l, m, t)
  BY <1>1 DEF Fitting, ClientFits, Typed
<1> QED
  BY <1>2, LocalKeeps

LEMMA PersistKeeps == ASSUME IInv, NEW c \in Clients, Persist(c) PROVE IInv'
<1> DEFINE s == Persisted(c)
           m == mem[c]
           t == task[c]
           I == intent[c]
<1>1. /\ IsOpen(c) /\ t.at = "save" /\ m \in Session /\ t \in Task
      /\ TaskFits(history, I, managed, ckpt[c], late[c], m, t)
      /\ Sound(history, edits, managed, ckpt[c], late[c], m, t)
      /\ Fits(history, I, c, ckpt[c], late[c], m)
      /\ ckpt[c] \in State \cup {None} /\ late[c] \in State \cup {None}
  BY OpenSession DEF Persist, At
<1>2. UNCHANGED <<hostVars, ckpt, late, edits, managed>> /\ Limits'
  BY LimitsKept DEF Persist, limits
<1>3. NextStep(t) = t.then
  BY <1>1 DEF NextStep, Saving
<1>4. /\ s \in State /\ StateSound(history, edits, managed, s)
      /\ m.holds => StateFits(history, I, c, s)
      /\ t.adopted = None => s = m.state
      /\ t.adopted # None => s = t.adopted /\ t.then = "copied"
  <2>1. CASE t.adopted = None
    BY <1>1, <2>1 DEF Persisted, Sound, Fits, Session, IsOpen
  <2>2. CASE t.adopted # None
    <3>1. s = t.adopted /\ t.then = "copied"
      BY <1>1, <1>3, <2>2 DEF Persisted, TaskFits
    <3>2. s.op = None /\ s.draft = history[s.base].text /\ m.state.op = None
      BY <1>1, <1>3, <2>2, <3>1 DEF TaskFits, OpAt, OpGone
    <3>3. m.holds => HeadFits(I, None)
      BY <1>1, <3>2 DEF Fits, StateFits, IsOpen
    <3>4. m.holds => StateFits(history, I, c, s)
      BY <3>2, <3>3, CleanFits
    <3>5. s \in State
      BY <1>1, <2>2, <3>1 DEF Task
    <3> QED
      BY <1>1, <2>2, <3>1, <3>4, <3>5 DEF Sound
  <2> QED
    BY <2>1, <2>2
<1>5. CASE m.uncertain # None /\ Goto(c, "retry") /\ UNCHANGED mem
  <2> DEFINE new == [t EXCEPT !.at = "retry"]
  <2>1. /\ new \in Task /\ new.at = "retry" /\ new.then = t.then
        /\ new.adopted = t.adopted /\ new.back = t.back /\ new.submitted = t.submitted
        /\ task' = [task EXCEPT ![c] = new]
    BY <1>1, <1>5 DEF Goto, Task, Steps, IInv, TypeOK
  <2> HIDE DEF new
  <2>2. NextStep(new) = t.then
    BY <2>1 DEF NextStep, Saving
  <2>3. TaskFits(history, I, managed, ckpt[c], late[c], m, new)
    BY <1>1, <1>3, <1>5, <2>1, <2>2 DEF TaskFits, HostSteps
  <2> QED
    BY <1>1, <1>2, <1>5, <2>1, <2>3, TaskStep DEF Sound
<1>6. CASE m.uncertain = None /\ s.op = None /\ Goto(c, t.then) /\ UNCHANGED mem
  <2> DEFINE new == [t EXCEPT !.at = t.then]
  <2>1. /\ new \in Task /\ new.at = t.then /\ new.then = t.then
        /\ new.adopted = t.adopted /\ new.back = t.back /\ new.submitted = t.submitted
        /\ task' = [task EXCEPT ![c] = new]
    BY <1>1, <1>6 DEF Goto, Task, IInv, TypeOK
  <2> HIDE DEF new
  <2>2. t.then \notin Saving \cup {"settled", "refresh", "adopt"}
    BY <1>1 DEF TaskFits
  <2>3. NextStep(new) = t.then
    BY <2>1, <2>2 DEF NextStep
  <2>4. t.then \notin HostSteps
    <3>1. CASE t.adopted = None
      BY <1>1, <1>3, <1>4, <1>6, <3>1 DEF TaskFits, OpAt
    <3>2. CASE t.adopted # None
      BY <1>4, <3>2 DEF HostSteps
    <3> QED
      BY <3>1, <3>2
  <2>5. TaskFits(history, I, managed, ckpt[c], late[c], m, new)
    BY <1>1, <1>3, <1>6, <2>1, <2>2, <2>3, <2>4 DEF TaskFits, HostSteps, Saving
  <2> QED
    BY <1>1, <1>2, <1>6, <2>1, <2>5, TaskStep DEF Sound
<1>7. CASE /\ m.uncertain = None
           /\ mem' = [mem EXCEPT ![c].uncertain = s, ![c].landed = FALSE]
           /\ Goto(c, "saving")
  <2> DEFINE new == [t EXCEPT !.at = "saving"]
             n == [m EXCEPT !.uncertain = s, !.landed = FALSE]
  <2>1. /\ new \in Task /\ new.at = "saving" /\ new.then = t.then
        /\ new.adopted = t.adopted /\ new.back = t.back /\ new.submitted = t.submitted
        /\ task' = [task EXCEPT ![c] = new]
    BY <1>1, <1>7 DEF Goto, Task, Steps, IInv, TypeOK
  <2>2. /\ n \in Session /\ n.state = m.state /\ n.uncertain = s /\ n.landed = FALSE
        /\ n.holds = m.holds /\ mem' = [mem EXCEPT ![c] = n] /\ s # None
    BY <1>1, <1>4, <1>7, NoneAssumption DEF Session, IInv, TypeOK
  <2> HIDE DEF new, n
  <2>3. NextStep(new) = t.then
    BY <2>1 DEF NextStep, Saving
  <2>4. TaskFits(history, I, managed, ckpt[c], late[c], n, new)
    BY <1>1, <1>3, <1>4, <2>1, <2>2, <2>3 DEF TaskFits, HostSteps
  <2>5. Fits(history, I, c, ckpt[c], late[c], n)
    BY <1>1, <1>4, <2>2 DEF Fits, IsOpen
  <2>6. Sound(history, edits, managed, ckpt[c], late[c], n, new)
    BY <1>1, <1>4, <2>1, <2>2 DEF Sound, IsOpen
  <2>7. Local(c, ckpt[c], late[c], n, new)
    BY <1>2, <2>1, <2>2 DEF Local, hostVars, IInv, TypeOK
  <2> QED
    BY <1>1, <1>2, <2>1, <2>2, <2>4, <2>5, <2>6, <2>7, SessionStep
<1>8. CASE Throws(c)
  BY <1>1, <1>2, <1>8, ThrowsStep
<1> QED
  BY <1>5, <1>6, <1>7, <1>8 DEF Persist

LEMMA CompareAndSwapKeeps ==
  ASSUME IInv, NEW c \in Clients, CompareAndSwap(c) PROVE IInv'
<1> DEFINE m == mem[c]
           n == [m EXCEPT !.landed = TRUE]
<1>1. /\ IsOpen(c) /\ m.uncertain # None /\ m.holds /\ m \in Session /\ task[c] \in Task
      /\ TaskFits(history, intent[c], managed, ckpt[c], late[c], m, task[c])
      /\ Sound(history, edits, managed, ckpt[c], late[c], m, task[c])
      /\ Fits(history, intent[c], c, ckpt[c], late[c], m)
  BY OpenSession DEF CompareAndSwap
<1>2. Limits'
  BY LimitsKept DEF CompareAndSwap
<1>3. /\ n \in Session /\ n.state = m.state /\ n.uncertain = m.uncertain /\ n.landed
      /\ n.holds /\ mem' = [mem EXCEPT ![c] = n] /\ m.uncertain \in State
  BY <1>1 DEF Session, IInv, TypeOK, CompareAndSwap
<1> HIDE DEF n
<1>4. TaskFits(history, intent[c], managed, m.uncertain, None, n, task[c])
  BY <1>1, <1>3 DEF TaskFits
<1>5. Fits(history, intent[c], c, m.uncertain, None, n)
  BY <1>1, <1>3 DEF Fits, IsOpen
<1>6. Sound(history, edits, managed, m.uncertain, None, n, task[c])
  BY <1>1, <1>3 DEF Sound, IsOpen
<1>7. Local(c, m.uncertain, None, n, task[c])
  BY <1>3 DEF CompareAndSwap, Local, hostVars, limits, IInv, TypeOK
<1> QED
  BY <1>1, <1>2, <1>3, <1>4, <1>5, <1>6, <1>7, SessionStep

LEMMA LateSwapKeeps == ASSUME IInv, NEW c \in Clients, LateSwap(c) PROVE IInv'
<1> DEFINE m == mem[c]
           l == late[c]
           t == task[c]
           n == IF IsOpen(c) THEN [m EXCEPT !.holds = FALSE] ELSE None
<1>1. /\ l # None /\ Fitting(c, ckpt[c], l, m, t)
      /\ Typed(ckpt[c], l, m, t) /\ Fits(history, intent[c], c, ckpt[c], l, m)
      /\ Sound(history, edits, managed, ckpt[c], l, m, t)
      /\ m # None => TaskFits(history, intent[c], managed, ckpt[c], l, m, t)
      /\ m = None => t = Idle
  BY DEF LateSwap, IInv, Client, Fitting, ClientFits
<1>2. Limits'
  BY LimitsKept DEF LateSwap
<1>3. /\ n \in Session \cup {None} /\ mem' = [mem EXCEPT ![c] = n]
      /\ m # None => /\ n \in Session /\ n # None /\ n.state = m.state
                     /\ n.uncertain = m.uncertain
                     /\ n.landed = m.landed /\ n.holds = FALSE
      /\ m = None => n = None
  BY <1>1, NoneAssumption DEF LateSwap, Typed, Session, IsOpen
<1>4. Local(c, l, None, n, t)
  BY <1>3 DEF LateSwap, Local, hostVars, limits, IInv, TypeOK
<1> HIDE DEF n
<1>5. Typed(l, None, n, t)
  BY <1>1, <1>3 DEF Typed
<1>6. Fits(history, intent[c], c, l, None, n)
  BY <1>1, <1>3 DEF Fits
<1>7. Sound(history, edits, managed, l, None, n, t)
  BY <1>1, <1>3 DEF Sound
<1>8. m # None => TaskFits(history, intent[c], managed, l, None, n, t)
  BY <1>1, <1>3 DEF TaskFits
<1>9. Fitting(c, l, None, n, t)
  BY <1>1, <1>3, <1>5, <1>6, <1>7, <1>8 DEF Fitting, ClientFits
<1> QED
  BY <1>2, <1>4, <1>9, LocalKeeps

LEMMA SwappedKeeps == ASSUME IInv, NEW c \in Clients, Swapped(c) PROVE IInv'
<1> DEFINE m == mem[c]
           t == task[c]
           I == intent[c]
<1>1. /\ IsOpen(c) /\ t.at \in {"saving", "retry"} /\ m \in Session /\ t \in Task
      /\ TaskFits(history, I, managed, ckpt[c], late[c], m, t)
      /\ Sound(history, edits, managed, ckpt[c], late[c], m, t)
      /\ Fits(history, I, c, ckpt[c], late[c], m)
      /\ ckpt[c] \in State \cup {None} /\ late[c] \in State \cup {None}
  BY OpenSession DEF Swapped, At
<1>2. UNCHANGED <<hostVars, ckpt, late, edits, managed>> /\ Limits'
  BY LimitsKept DEF Swapped, limits
<1>3. CASE Throws(c)
  BY <1>1, <1>2, <1>3, ThrowsStep
<1>4. CASE /\ m.landed
           /\ mem' = [mem EXCEPT ![c].confirmed = m.uncertain,
                                 ![c].uncertain = None, ![c].landed = FALSE]
           /\ Goto(c, IF t.at = "retry" THEN "save" ELSE t.then)
  <2> DEFINE step == IF t.at = "retry" THEN "save" ELSE t.then
             new == [t EXCEPT !.at = step]
             n == [m EXCEPT !.confirmed = m.uncertain, !.uncertain = None,
                            !.landed = FALSE]
  <2>1. /\ NextStep(t) = t.then /\ t.then \notin Saving \cup {"settled", "refresh", "adopt"}
        /\ m.holds /\ m.uncertain # None /\ ckpt[c] = m.uncertain /\ late[c] = None
    BY <1>1, <1>4 DEF NextStep, Saving, TaskFits
  <2>2. /\ new \in Task /\ new.at = step /\ new.then = t.then
        /\ new.adopted = t.adopted /\ new.back = t.back /\ new.submitted = t.submitted
        /\ task' = [task EXCEPT ![c] = new]
    BY <1>1, <1>4 DEF Goto, Task, Steps, IInv, TypeOK
  <2>3. /\ n \in Session /\ n.state = m.state /\ n.uncertain = None /\ n.landed = FALSE
        /\ n.holds = m.holds /\ mem' = [mem EXCEPT ![c] = n]
    BY <1>1, <1>4 DEF Session, IInv, TypeOK
  <2> HIDE DEF new, n
  <2>4. NextStep(new) = t.then
    BY <2>1, <2>2 DEF NextStep, Saving
  <2>5. t.then \in HostSteps /\ t.at = "saving" => ckpt[c].op = m.state.op
    <3>1. t.then \in HostSteps => t.adopted = None
      BY <1>1, <2>1 DEF TaskFits, HostSteps
    <3> QED
      BY <1>1, <2>1, <3>1 DEF TaskFits
  <2>6. TaskFits(history, I, managed, ckpt[c], late[c], n, new)
    <3>1. new.at \in HostSteps => t.then \in HostSteps /\ t.at = "saving"
      BY <1>1, <2>2 DEF HostSteps
    <3>2. new.at \notin {"saving", "retry", "settled", "refresh"}
      BY <2>1, <2>2 DEF Saving
    <3> QED
      BY <1>1, <2>1, <2>2, <2>3, <2>4, <2>5, <3>1, <3>2 DEF TaskFits
  <2>7. Fits(history, I, c, ckpt[c], late[c], n)
    BY <1>1, <2>3 DEF Fits, IsOpen
  <2>8. Sound(history, edits, managed, ckpt[c], late[c], n, new)
    BY <1>1, <2>2, <2>3 DEF Sound, IsOpen
  <2>9. Local(c, ckpt[c], late[c], n, new)
    BY <1>2, <2>2, <2>3 DEF Local, hostVars, IInv, TypeOK
  <2> QED
    BY <1>1, <1>2, <2>2, <2>3, <2>6, <2>7, <2>8, <2>9, SessionStep
<1> QED
  BY <1>3, <1>4 DEF Swapped

LEMMA CrashKeeps == ASSUME IInv, NEW c \in Clients, Crash(c) PROVE IInv'
<1> DEFINE l == late'[c]
<1>1. /\ IsOpen(c) /\ mem[c] \in Session
      /\ Sound(history, edits, managed, ckpt[c], late[c], mem[c], task[c])
      /\ Fits(history, intent[c], c, ckpt[c], late[c], mem[c])
      /\ ckpt[c] \in State \cup {None} /\ late[c] \in State \cup {None}
      /\ mem[c].uncertain \in State \cup {None}
  BY OpenSession DEF Crash
<1>2. Limits'
  BY ConstantsAssumption DEF Crash, Limits, IInv, TypeOK
<1>3. /\ l = late[c] \/ (mem[c].uncertain # None /\ mem[c].holds /\ l = mem[c].uncertain)
      /\ late' = [late EXCEPT ![c] = l]
  BY DEF Crash, IInv, TypeOK
<1> HIDE DEF l
<1>4. Typed(ckpt[c], l, None, Idle)
  BY <1>1, <1>3, IdleTask DEF Typed
<1>5. Sound(history, edits, managed, ckpt[c], l, None, Idle)
  BY <1>1, <1>3, IdleTask DEF Sound, IsOpen
<1>6. Fits(history, intent[c], c, ckpt[c], l, None)
  BY <1>1, <1>3 DEF Fits, IsOpen
<1>7. Fitting(c, ckpt[c], l, None, Idle)
  BY <1>4, <1>5, <1>6 DEF Fitting, ClientFits
<1>8. Local(c, ckpt[c], l, None, Idle)
  BY <1>3 DEF Crash, Local, hostVars, IInv, TypeOK
<1> QED
  BY <1>2, <1>7, <1>8, LocalKeeps

(* A state that says of a conflict keeps its operation.                    *)
LEMMA ConflictFits ==
  ASSUME NEW h, NEW I, NEW c, NEW s, NEW old, StateFits(h, I, c, old),
         s.op = old.op, s.conflict
  PROVE  StateFits(h, I, c, s)
BY DEF StateFits, DraftFits

(* What a checkpoint is opened as is as sound as the checkpoint.           *)
LEMMA AdoptedFits ==
  ASSUME IInv, NEW c \in Clients
  PROVE  /\ Adopted(ckpt[c]) \in State
         /\ StateSound(history, edits, managed, Adopted(ckpt[c]))
         /\ StateFits(history, intent[c], c, Adopted(ckpt[c]))
<1> DEFINE k == ckpt[c]
           s == Adopted(k)
<1>1. /\ k # None => k \in State /\ StateSound(history, edits, managed, k)
                     /\ StateFits(history, intent[c], c, k)
      /\ k = None => HeadFits(intent[c], None)
  BY DEF IInv, Client, ClientFits, Typed, Sound, Fits
<1>2. /\ Latest \in Nat \ {0} /\ Latest = Len(history) /\ Content(Latest) \in Text
      /\ Known(edits, Content(Latest)) /\ Latest \in 1 .. Latest
  BY Revisions DEF Content
<1>3. CASE k = None
  <2>1. s = Clean(Latest)
    BY <1>3 DEF Adopted
  <2>2. /\ s.op = None /\ s \in State /\ StateSound(history, edits, managed, s)
        /\ s.draft = history[s.base].text
    BY <1>2, <2>1, CleanSound
  <2> QED
    BY <1>1, <1>3, <2>2, CleanFits
<1>4. CASE k # None /\ s = k
  BY <1>1, <1>4
<1>5. CASE k # None /\ k.op = None /\ s = [k EXCEPT !.base = Latest, !.draft = Content(Latest)]
  <2>1. /\ s \in State /\ s.op = None /\ s.base = Latest /\ s.draft = Content(Latest)
    BY <1>1, <1>2, <1>5 DEF State, Rev
  <2>2. StateSound(history, edits, managed, s)
    BY <1>2, <2>1 DEF StateSound
  <2>3. HeadFits(intent[c], None)
    BY <1>1, <1>5 DEF StateFits
  <2> QED
    BY <2>1, <2>2, <2>3, CleanFits DEF Content
<1>6. CASE k # None /\ s = [k EXCEPT !.conflict = TRUE]
  <2>1. /\ s \in State /\ s.op = k.op /\ s.base = k.base /\ s.draft = k.draft /\ s.conflict
    BY <1>1, <1>6 DEF State
  <2>2. StateSound(history, edits, managed, s)
    BY <1>1, <1>6, <2>1 DEF StateSound
  <2>3. StateFits(history, intent[c], c, s)
    BY <1>1, <1>6, <2>1, ConflictFits
  <2> QED
    BY <2>1, <2>2, <2>3
<1> QED
  BY <1>3, <1>4, <1>5, <1>6 DEF Adopted

LEMMA LoadKeeps == ASSUME IInv, NEW c \in Clients, Load(c) PROVE IInv'
<1> DEFINE k == ckpt[c]
           l == late[c]
           s == Adopted(k)
           n == [state |-> s, confirmed |-> k, holds |-> TRUE,
                 uncertain |-> None, landed |-> FALSE, terminal |-> FALSE]
<1>1. /\ mem[c] = None /\ k \in State \cup {None} /\ l \in State \cup {None}
      /\ Fits(history, intent[c], c, k, l, None) /\ task[c] = Idle
      /\ Sound(history, edits, managed, k, l, None, Idle)
  BY DEF IInv, Client, ClientFits, Typed, Load, IsOpen
<1>2. /\ s \in State /\ StateSound(history, edits, managed, s)
      /\ StateFits(history, intent[c], c, s)
  BY AdoptedFits
<1>3. Limits'
  BY LimitsKept DEF Load
<1>4. /\ n \in Session /\ n.state = s /\ n.uncertain = None /\ n.landed = FALSE /\ n.holds
      /\ n # None /\ mem' = [mem EXCEPT ![c] = n]
  <2>1. mem' = [mem EXCEPT ![c] = n]
    BY DEF Load
  <2> HIDE DEF s
  <2>2. /\ n \in Session /\ n.state = s /\ n.uncertain = None /\ n.landed = FALSE
        /\ n.holds
    BY <1>1, <1>2 DEF Session
  <2> QED
    BY <2>1, <2>2, NoneAssumption
<1> HIDE DEF n
<1>5. PICK t : /\ task' = [task EXCEPT ![c] = t]
               /\ t = Idle \/ (t = Resuming("opened") /\ s.op # None)
  <2>1. CASE ResumeThen(c, "opened") /\ s.op # None
    BY <2>1 DEF ResumeThen, Resuming
  <2>2. CASE UNCHANGED task
    BY <1>1, <2>2 DEF IInv, TypeOK
  <2> QED
    BY <2>1, <2>2 DEF Load
<1>6. TaskFits(history, intent[c], managed, k, l, n, Idle)
  <2>1. OpAt(s.op, NextStep(Idle))
    BY IdleTask DEF OpAt, NextStep, HostSteps, OpGone, Saving
  <2>2. NextStep(Idle) = "idle"
    BY IdleTask DEF NextStep, Saving
  <2> QED
    BY <1>4, <2>1, <2>2, IdleTask DEF TaskFits, HostSteps, Settling, Saving
<1>7. TaskFits(history, intent[c], managed, k, l, n, t)
  <2>1. CASE t = Idle
    BY <1>6, <2>1
  <2>2. CASE t = Resuming("opened") /\ s.op # None
    BY <1>4, <1>6, <2>2, ResumingFits DEF Settling
  <2> QED
    BY <1>5, <2>1, <2>2
<1>8. t \in Task /\ t.adopted = None /\ t.submitted = None
  BY <1>5, IdleTask, ResumingTask DEF Settling
<1>9. Fits(history, intent[c], c, k, l, n)
  BY <1>1, <1>2, <1>4 DEF Fits
<1>10. Sound(history, edits, managed, k, l, n, t)
  BY <1>1, <1>2, <1>4, <1>8 DEF Sound
<1>11. Fitting(c, k, l, n, t)
  BY <1>1, <1>4, <1>7, <1>8, <1>9, <1>10 DEF Fitting, ClientFits, Typed
<1>12. Local(c, k, l, n, t)
  BY <1>4, <1>5 DEF Load, Local, hostVars, limits, IInv, TypeOK
<1> QED
  BY <1>3, <1>11, <1>12, LocalKeeps

-------------------------------------------------------------------------------
(* The state of the note.                                                  *)

LEMMA StateSaves ==
  ASSUME IInv, NEW c \in Clients, NEW from \in Steps \ Saving, from # "copied", At(c, from),
         NEW s \in State, StateSound(history, edits, managed, s),
         mem[c].holds => StateFits(history, intent[c], c, s),
         NEW step \in Settling \cup {"query", "ack"}, OpAt(s.op, step),
         mem' = [mem EXCEPT ![c].state = s], SaveThen(c, step),
         UNCHANGED <<hostVars, ckpt, late, edits, managed>>, Limits'
  PROVE  IInv'
<1> DEFINE new == [task[c] EXCEPT !.at = "save", !.then = step]
           n == [mem[c] EXCEPT !.state = s]
<1>1. /\ IsOpen(c) /\ task[c] \in Task /\ mem[c] \in Session /\ task[c].adopted = None
      /\ task[c].back \in Settling
      /\ TaskFits(history, intent[c], managed, ckpt[c], late[c], mem[c], task[c])
      /\ Sound(history, edits, managed, ckpt[c], late[c], mem[c], task[c])
  BY AtStep, OpenSession
<1>2. /\ step \in Steps \ (Saving \cup {"settled", "refresh", "adopt"})
      /\ step \notin {"plan", "copied"}
  BY DEF Settling, Steps, Saving
<1>3. /\ new \in Task /\ new.at = "save" /\ new.then = step /\ new.adopted = None
      /\ new.back = task[c].back /\ new.submitted = task[c].submitted
      /\ task' = [task EXCEPT ![c] = new]
  BY <1>1, <1>2 DEF SaveThen, Task, Steps, IInv, TypeOK
<1>4. /\ n.state = s /\ n.landed = mem[c].landed /\ n.holds = mem[c].holds
      /\ n.uncertain = mem[c].uncertain
  BY <1>1 DEF Session
<1> HIDE DEF new, n
<1>5. NextStep(new) = step /\ new.at \notin HostSteps \cup {"saving", "retry", "refresh"}
  BY <1>3 DEF NextStep, Saving, HostSteps
<1>6. TaskFits(history, intent[c], managed, ckpt[c], late[c], n, new)
  BY <1>1, <1>2, <1>3, <1>4, <1>5, QuietFits
<1>7. new.submitted = None \/ Known(edits, new.submitted)
  BY <1>1, <1>3 DEF Sound
<1> QED
  BY <1>1, <1>3, <1>6, <1>7, StateStep DEF n

LEMMA PreparedKeeps == ASSUME IInv, NEW c \in Clients, Prepared(c) PROVE IInv'
<1> DEFINE old == mem[c].state
           s == [old EXCEPT !.op.ref = TRUE]
           I == intent[c]
<1>1. At(c, "prepare") /\ "prepare" \in Steps \ Saving /\ "prepare" \in HostSteps
  BY DEF Prepared, Steps, Saving, HostSteps
<1>2. /\ IsOpen(c) /\ old \in State /\ StateSound(history, edits, managed, old)
      /\ mem[c].holds /\ StateFits(history, I, c, old) /\ OpAt(old.op, "prepare")
  BY <1>1, AtStep, OpenSession DEF Sound, IsOpen
<1>3. old.op \in Operation /\ ~old.op.ref /\ old.op.ack = "none"
  BY <1>2 DEF OpAt, State, HostSteps
<1>4. /\ s \in State /\ s.base = old.base /\ s.draft = old.draft /\ s.conflict = old.conflict
      /\ s.op = [old.op EXCEPT !.ref = TRUE]
  BY <1>2, <1>3 DEF State, Operation
<1>6. I[old.op.id] # None /\ mem' = [mem EXCEPT ![c].state = s] /\ SaveThen(c, "query")
  <2>1. mem' = [mem EXCEPT ![c].state.op.ref = TRUE]
    BY DEF Prepared
  <2> QED
    BY <1>2, <2>1, OpenSession DEF Prepared, IInv, TypeOK
<1> HIDE DEF s
<1>5. /\ s.op \in Operation /\ s.op.ref /\ s.op.ack = "none" /\ s.op.id = old.op.id
      /\ s.op.content = old.op.content /\ s.op.request = old.op.request
      /\ s.op.expected = old.op.expected /\ s.op # None /\ old.op # None
  <2> DEFINE op == old.op
  <2> HIDE DEF op
  <2>1. LET new == [op EXCEPT !.ref = TRUE]
        IN /\ new \in Operation /\ new.ref /\ new.ack = "none" /\ new.id = op.id
           /\ new.content = op.content /\ new.request = op.request
           /\ new.expected = op.expected /\ new # None /\ op # None
    BY <1>3, NoneAssumption DEF Operation, op
  <2> QED
    BY <1>4, <2>1 DEF op
<1>7. StateSound(history, edits, managed, s)
  BY <1>2, <1>4, <1>5 DEF StateSound, OpSound
<1>8. StateFits(history, I, c, s)
  <2>1. HeadFits(I, s.op)
    BY <1>2, <1>3, <1>5, <1>6 DEF StateFits, HeadFits, OpFits
  <2>2. DraftFits(history, c, s)
    BY <1>2, <1>3, <1>4, <1>5 DEF StateFits, DraftFits
  <2>3. RequestFits(history, I, c, s.op)
    BY <1>2, <1>5 DEF StateFits, RequestFits
  <2> QED
    BY <2>1, <2>2, <2>3 DEF StateFits
<1>9. OpAt(s.op, "query")
  BY <1>5 DEF OpAt, OpGone
<1> QED
  BY <1>1, <1>4, <1>6, <1>7, <1>8, <1>9, StateSaves, LimitsKept DEF Prepared, limits

LEMMA AcknowledgedKeeps == ASSUME IInv, NEW c \in Clients, Acknowledged(c) PROVE IInv'
<1> DEFINE old == mem[c].state
           s == [old EXCEPT !.op = None]
           I == intent[c]
<1>1. At(c, "ack") /\ "ack" \in Steps \ Saving /\ "ack" \in HostSteps
  BY DEF Acknowledged, Steps, Saving, HostSteps
<1>2. /\ IsOpen(c) /\ old \in State /\ StateSound(history, edits, managed, old)
      /\ mem[c].holds /\ StateFits(history, I, c, old) /\ OpAt(old.op, "ack")
      /\ task[c].back \in Settling
  BY <1>1, AtStep, OpenSession DEF Sound, IsOpen
<1>3. old.op # None /\ old.op.ack # "none" /\ I[old.op.id].acked
  BY <1>2 DEF OpAt, HostSteps, Acknowledged
<1>4. /\ s \in State /\ s.base = old.base /\ s.draft = old.draft /\ s.conflict = old.conflict
      /\ s.op = None
  BY <1>2 DEF State
<1>5. mem' = [mem EXCEPT ![c].state = s] /\ SaveThen(c, task[c].back)
  BY DEF Acknowledged, Sets
<1> HIDE DEF s
<1>6. StateSound(history, edits, managed, s)
  BY <1>2, <1>4 DEF StateSound
<1>7. StateFits(history, I, c, s)
  <2>1. HeadFits(I, s.op)
    BY <1>2, <1>3, <1>4 DEF StateFits, HeadFits
  <2>2. DraftFits(history, c, s)
    BY <1>2, <1>3, <1>4 DEF StateFits, DraftFits
  <2> QED
    BY <1>4, <2>1, <2>2 DEF StateFits
<1>8. OpAt(s.op, task[c].back)
  BY <1>2, <1>4 DEF OpAt, HostSteps, Settling
<1> QED
  BY <1>1, <1>2, <1>4, <1>5, <1>6, <1>7, <1>8, StateSaves, LimitsKept DEF Acknowledged, limits

LEMMA ReloadedKeeps == ASSUME IInv, NEW c \in Clients, Reloaded(c) PROVE IInv'
<1> DEFINE old == mem[c].state
           I == intent[c]
<1>1. At(c, "reload") /\ "reload" \in Steps \ Saving
  BY DEF Reloaded, Steps, Saving
<1>2. /\ IsOpen(c) /\ old \in State /\ StateSound(history, edits, managed, old)
      /\ mem[c].holds => StateFits(history, I, c, old)
      /\ old.op = None
  BY <1>1, AtStep, OpenSession DEF Sound, Fits, IsOpen, OpAt, OpGone
<1>3. OpAt(None, "idle")
  BY DEF OpAt, HostSteps, OpGone
<1>4. SaveThen(c, "idle") /\ UNCHANGED <<hostVars, ckpt, late, edits, managed>> /\ Limits'
  BY LimitsKept DEF Reloaded, limits
<1>5. SUFFICES ASSUME NEW s \in State, StateSound(history, edits, managed, s), s.op = None,
                      mem[c].holds => StateFits(history, I, c, s), Sets(c, s)
               PROVE  IInv'
  <2>1. CASE Sets(c, [old EXCEPT !.base = Latest, !.draft = Content(Latest)])
    <3> DEFINE s == [old EXCEPT !.base = Latest, !.draft = Content(Latest)]
    <3>1. /\ Latest \in Rev /\ Content(Latest) \in Text /\ Known(edits, Content(Latest))
          /\ Latest = Len(history)
      BY Revisions DEF Rev, Content
    <3>2. s \in State /\ s.op = None /\ s.base = Latest /\ s.draft = Content(Latest)
      BY <1>2, <3>1 DEF State
    <3> HIDE DEF s
    <3>3. StateSound(history, edits, managed, s)
      BY <3>1, <3>2 DEF StateSound, Rev
    <3>4. mem[c].holds => StateFits(history, I, c, s)
      BY <1>2, <3>2, CleanFits DEF StateFits, Content
    <3>5. Sets(c, s)
      BY <2>1 DEF s
    <3> QED
      BY <3>2, <3>3, <3>4, <3>5, <1>5
  <2>2. CASE Sets(c, [old EXCEPT !.conflict = @ \/ Latest # old.base])
    <3> DEFINE s == [old EXCEPT !.conflict = @ \/ Latest # old.base]
    <3>1. /\ s \in State /\ s.op = None /\ s.base = old.base /\ s.draft = old.draft
          /\ old.conflict => s.conflict
      BY <1>2 DEF State
    <3> HIDE DEF s
    <3>2. StateSound(history, edits, managed, s)
      BY <1>2, <3>1 DEF StateSound
    <3>3. mem[c].holds => StateFits(history, I, c, s)
      BY <1>2, <3>1 DEF StateFits, DraftFits
    <3>4. Sets(c, s)
      BY <2>2 DEF s
    <3> QED
      BY <3>1, <3>2, <3>3, <3>4, <1>5
  <2> QED
    BY <2>1, <2>2 DEF Reloaded
<1> QED
  BY <1>1, <1>3, <1>4, <1>5, StateSaves DEF Sets, Settling

LEMMA CopiedKeeps == ASSUME IInv, NEW c \in Clients, Copied(c) PROVE IInv'
<1> DEFINE I == intent[c]
           t == task[c]
<1>1. At(c, "copied") /\ "copied" \in Steps \ Saving
  BY DEF Copied, Steps, Saving
<1>2. /\ IsOpen(c) /\ mem[c].state.op = None /\ mem[c] \in Session /\ t \in Task
      /\ TaskFits(history, I, managed, ckpt[c], late[c], mem[c], t)
      /\ Sound(history, edits, managed, ckpt[c], late[c], mem[c], t)
      /\ Fits(history, I, c, ckpt[c], late[c], mem[c])
  BY <1>1, AtStep, OpenSession DEF OpAt, OpGone
<1>3. UNCHANGED <<hostVars, ckpt, late, edits, managed>> /\ Limits'
  BY LimitsKept DEF Copied, limits
<1>4. CASE task' = [task EXCEPT ![c] = [Idle EXCEPT !.at = "save"]] /\ UNCHANGED mem
  <2> DEFINE new == [Idle EXCEPT !.at = "save"]
  <2>1. /\ new \in Task /\ new.at = "save" /\ new.then = "idle" /\ new.back = "idle"
        /\ new.adopted = None /\ new.submitted = None
    BY DEF Idle, Task, Steps
  <2> HIDE DEF new
  <2>2. NextStep(new) = "idle" /\ OpAt(mem[c].state.op, "idle")
    BY <2>1 DEF NextStep, Saving, OpAt, HostSteps, OpGone
  <2>3. TaskFits(history, I, managed, ckpt[c], late[c], mem[c], new)
    BY <1>2, <2>1, <2>2, QuietFits DEF HostSteps, Saving, Settling
  <2> QED
    BY <1>2, <1>3, <1>4, <2>1, <2>3, TaskStep DEF new
<1>5. CASE Sets(c, t.adopted) /\ task' = [task EXCEPT ![c] = Idle]
  <2>1. NextStep(t) = "copied"
    BY <1>1 DEF At, NextStep, Saving
  <2>2. t.adopted # None /\ t.adopted.op = None
        /\ t.adopted.draft = history[t.adopted.base].text
    BY <1>2, <2>1 DEF TaskFits
  <2>3. t.adopted \in State /\ StateSound(history, edits, managed, t.adopted)
    BY <1>2, <2>2 DEF Task, Sound
  <2>4. mem[c].holds => StateFits(history, I, c, t.adopted)
    BY <1>2, <2>2, CleanFits DEF Fits, StateFits, IsOpen
  <2> DEFINE n == [mem[c] EXCEPT !.state = t.adopted]
  <2>5. n.landed = mem[c].landed /\ n.holds = mem[c].holds /\ n.uncertain = mem[c].uncertain
    BY <1>2 DEF Session
  <2> HIDE DEF n
  <2>6. TaskFits(history, I, managed, ckpt[c], late[c], n, Idle)
    BY <1>2, <2>5, AtRest
  <2> QED
    BY <1>2, <1>3, <1>5, <2>3, <2>4, <2>6, IdleTask, StateStep DEF Sets, n
<1> QED
  BY <1>4, <1>5 DEF Copied

(* Of two texts with the same body, canonicalDraft() takes over at most    *)
(* the front.                                                              *)
LEMMA CanonicalParts ==
  ASSUME NEW sent \in Text, NEW canonical \in Text, NEW current \in Text,
         sent["body"] = canonical["body"],
         CanonicalDraft(sent, canonical, current) # None
  PROVE  LET d == CanonicalDraft(sent, canonical, current) IN
           /\ d \in Text /\ d["body"] = current["body"]
           /\ \/ d["front"] = canonical["front"]
              \/ d["front"] = current["front"] /\ canonical = sent
BY DEF CanonicalDraft, Text, Parts

LEMMA ComposedText ==
  ASSUME IInv, NEW text \in Text
  PROVE  /\ Composed(text) \in Text /\ Composed(text)["body"] = text["body"]
         /\ Composed(text)["front"] = Content(Latest)["front"]
         /\ Known(edits, text) => Known(edits, Composed(text))
<1>1. Content(Latest) \in Text /\ Known(edits, Content(Latest))
  BY Revisions DEF Content
<1>2. /\ Composed(text) \in Text /\ Composed(text)["body"] = text["body"]
      /\ Composed(text)["front"] = Content(Latest)["front"]
  BY <1>1 DEF Composed, Text, Parts
<1> QED
  BY <1>1, <1>2 DEF Known, Parts

LEMMA RefreshedKeeps == ASSUME IInv, NEW c \in Clients, Refreshed(c) PROVE IInv'
<1> DEFINE I == intent[c]
           old == mem[c].state
           sent == task[c].submitted
           draft == CanonicalDraft(sent, Composed(sent), old.draft)
           s == [old EXCEPT !.base = Latest, !.draft = draft]
           new == [Idle EXCEPT !.at = "save"]
<1>1. At(c, "refresh") /\ "refresh" \in Steps \ Saving
  BY DEF Refreshed, Steps, Saving
<1>2. /\ IsOpen(c) /\ old.op = None /\ mem[c] \in Session /\ task[c] \in Task
      /\ TaskFits(history, I, managed, ckpt[c], late[c], mem[c], task[c])
      /\ Sound(history, edits, managed, ckpt[c], late[c], mem[c], task[c])
      /\ Fits(history, I, c, ckpt[c], late[c], mem[c]) /\ old \in State
  BY <1>1, AtStep, OpenSession DEF OpAt, OpGone
<1>3. UNCHANGED <<hostVars, ckpt, late, edits, managed>> /\ Limits'
  BY LimitsKept DEF Refreshed, limits
<1>4. CASE Throws(c)
  BY <1>2, <1>3, <1>4, ThrowsStep
<1>5. CASE /\ draft # None /\ Composes(old.base, sent) /\ Sets(c, s)
           /\ task' = [task EXCEPT ![c] = new]
  <2>1. sent \in Text /\ Known(edits, sent) /\ old.draft \in Text /\ Known(edits, old.draft)
        /\ StateSound(history, edits, managed, old)
    BY <1>1, <1>2 DEF At, TaskFits, Sound, StateSound, Task, State, IsOpen
  <2>2. /\ Composed(sent) \in Text /\ Composed(sent)["body"] = sent["body"]
        /\ Composed(sent)["front"] = Content(Latest)["front"]
        /\ Known(edits, Composed(sent))
    BY <2>1, ComposedText
  <2>3. /\ draft \in Text /\ draft["body"] = old.draft["body"]
        /\ \/ draft["front"] = Content(Latest)["front"]
           \/ draft["front"] = old.draft["front"] /\ Composed(sent) = sent
    BY <1>5, <2>1, <2>2, CanonicalParts
  <2>4. Latest \in Rev /\ Latest = Len(history) /\ Known(edits, Content(Latest))
    BY Revisions DEF Rev, Content
  <2>5. Known(edits, draft)
    BY <2>1, <2>3, <2>4 DEF Known, Parts
  <2>6. s \in State /\ s.base = Latest /\ s.draft = draft /\ s.op = None
        /\ s.conflict = old.conflict
    BY <1>2, <2>3, <2>4 DEF State
  <2> HIDE DEF s, draft
  <2>7. StateSound(history, edits, managed, s)
    BY <2>4, <2>5, <2>6 DEF StateSound, Rev
  <2>8. ASSUME mem[c].holds
        PROVE  StateFits(history, I, c, s)
    <3>1. StateFits(history, I, c, old)
      BY <1>2, <2>8 DEF Fits, IsOpen
    <3>2. HeadFits(I, s.op)
      BY <1>2, <2>6, <3>1 DEF StateFits
    <3>3. DraftFits(history, c, s)
      <4>1. SUFFICES ASSUME ~old.conflict
                     PROVE  \A p \in Parts :
                              Since(history, c, p, s.draft[p], history[s.base].text[p])
        BY <2>6 DEF DraftFits
      <4>2. \A p \in Parts : Since(history, c, p, old.draft[p], Content(old.base)[p])
        BY <1>2, <3>1, <4>1 DEF StateFits, DraftFits, Content
      <4>3. Since(history, c, "body", draft["body"], Content(Latest)["body"])
        BY <1>5, <2>3, <4>2 DEF Composes, Parts
      <4>4. Since(history, c, "front", draft["front"], Content(Latest)["front"])
        <5>1. CASE draft["front"] = Content(Latest)["front"]
          BY <5>1 DEF Since
        <5>2. CASE draft["front"] = old.draft["front"] /\ Composed(sent) = sent
          <6>1. Content(old.base)["front"] = Content(Latest)["front"]
            BY <1>5, <2>2, <5>2 DEF Composes
          <6> QED
            BY <4>2, <5>2, <6>1 DEF Parts
        <5> QED
          BY <2>3, <5>1, <5>2
      <4> QED
        BY <2>6, <4>3, <4>4 DEF Parts, Content
    <3> QED
      BY <2>6, <3>2, <3>3 DEF StateFits
  <2> DEFINE n == [mem[c] EXCEPT !.state = s]
  <2>9. /\ n.landed = mem[c].landed /\ n.holds = mem[c].holds
        /\ n.uncertain = mem[c].uncertain
    BY <1>2 DEF Session
  <2>10. /\ new \in Task /\ new.at = "save" /\ new.then = "idle" /\ new.back = "idle"
         /\ new.adopted = None /\ new.submitted = None
    BY DEF Idle, Task, Steps
  <2> HIDE DEF new, n
  <2>11. NextStep(new) = "idle" /\ OpAt(n.state.op, "idle")
    BY <2>10 DEF NextStep, Saving, OpAt, HostSteps, OpGone
  <2>12. TaskFits(history, I, managed, ckpt[c], late[c], n, new)
    BY <1>2, <2>9, <2>10, <2>11, QuietFits DEF HostSteps, Saving, Settling
  <2> QED
    BY <1>2, <1>3, <1>5, <2>6, <2>7, <2>8, <2>10, <2>12, StateStep DEF Sets, n
<1> QED
  <2>1. SUFFICES ASSUME ~Throws(c)
                 PROVE  IInv'
    BY <1>4
  <2>2. PICK d : /\ d = (IF Composes(old.base, sent)
                         THEN CanonicalDraft(sent, Composed(sent), old.draft) ELSE None)
                 /\ d # None /\ Sets(c, [old EXCEPT !.base = Latest, !.draft = d])
                 /\ task' = [task EXCEPT ![c] = new]
    BY <2>1 DEF Refreshed
  <2> QED
    BY <1>5, <2>2

(* What planWrite() admits: a new operation fits the state it comes from.  *)
LEMMA PlannedFits ==
  ASSUME IInv, NEW c \in Clients, NEW s \in State, NEW op \in Operation,
         StateSound(history, edits, managed, s), s.op = None,
         IF managed THEN Composes(s.base, s.draft) ELSE s.base = Latest,
         op.content = s.draft, op.expected = Latest,
         op.request = (IF managed THEN Composed(s.draft) ELSE s.draft),
         ~op.ref, op.ack = "none", intent[c][op.id] = None
  PROVE  LET new == [s EXCEPT !.op = op] IN
           /\ new \in State /\ new.op = op
           /\ StateSound(history, edits, managed, new)
           /\ StateFits(history, intent[c], c, s) /\ ~s.conflict =>
                StateFits(history, intent[c], c, new)
<1> DEFINE new == [s EXCEPT !.op = op]
           I == intent[c]
<1>1. /\ new \in State /\ new.op = op /\ new.base = s.base /\ new.draft = s.draft
      /\ new.conflict = s.conflict /\ s.draft \in Text /\ s.base \in Rev
  BY DEF State
<1> HIDE DEF new
<1>2. op # None /\ op.request \in Text /\ op.content \in Text
  BY NoneAssumption DEF Operation
<1>3. /\ Composed(s.draft)["body"] = s.draft["body"]
      /\ Composed(s.draft)["front"] = Content(Latest)["front"]
      /\ Known(edits, s.draft) /\ Known(edits, Composed(s.draft))
  BY <1>1, ComposedText DEF StateSound
<1>4. Latest = Len(history) /\ Latest \in Nat /\ s.base <= Latest
  BY Revisions DEF StateSound
<1>5. OpSound(history, edits, managed, op)
  <2>1. /\ op.expected <= Len(history) /\ Known(edits, op.content)
        /\ Known(edits, op.request) /\ op.content["body"] = op.request["body"]
        /\ ~managed => op.content = op.request
    BY <1>3, <1>4
  <2>2. ASSUME managed
        PROVE  op.content["front"].by = World /\ op.request["front"].by = World
    <3>1. s.base \in 1 .. Len(history) /\ Latest \in 1 .. Len(history)
      BY <1>1, <1>4, Revisions DEF Rev
    <3> QED
      BY <1>3, <2>2, <3>1 DEF IInv, HistoryFits, Composes, Content
  <2> QED
    BY <2>1, <2>2 DEF OpSound
<1>6. StateSound(history, edits, managed, new)
  BY <1>1, <1>5 DEF StateSound
<1>7. ASSUME StateFits(history, I, c, s), ~s.conflict
      PROVE  StateFits(history, I, c, new)
  <2>1. \A p \in Parts : Since(history, c, p, s.draft[p], Content(s.base)[p])
    BY <1>7 DEF StateFits, DraftFits, Content
  <2>2. HeadFits(I, op)
    BY <1>7, <1>2 DEF StateFits, HeadFits, OpFits
  <2>3. DraftFits(history, c, new)
    BY <1>1, <1>2 DEF DraftFits
  <2>4. \A p \in Parts : Since(history, c, p, op.request[p], Content(Latest)[p])
    <3>1. CASE managed
      <4>1. Content(s.base)["body"] = Content(Latest)["body"]
        BY <3>1 DEF Composes
      <4>2. op.request["body"] = s.draft["body"]
            /\ op.request["front"] = Content(Latest)["front"]
        BY <1>3, <3>1
      <4>3. Since(history, c, "front", op.request["front"], Content(Latest)["front"])
        BY <4>2 DEF Since
      <4>4. Since(history, c, "body", op.request["body"], Content(Latest)["body"])
        BY <2>1, <4>1, <4>2 DEF Parts
      <4> QED
        BY <4>3, <4>4 DEF Parts
    <3>2. CASE ~managed
      BY <2>1, <3>2
    <3> QED
      BY <3>1, <3>2
  <2>5. RequestFits(history, I, c, op)
    BY <2>4 DEF RequestFits, Content
  <2> QED
    BY <1>1, <2>2, <2>3, <2>5 DEF StateFits
<1> QED
  BY <1>1, <1>6, <1>7 DEF new

LEMMA PlanKeeps == ASSUME IInv, NEW c \in Clients, Plan(c) PROVE IInv'
<1> DEFINE I == intent[c]
           old == mem[c].state
           Op(o) == [id |-> o, content |-> old.draft, expected |-> Latest,
                     request |-> IF managed THEN Composed(old.draft) ELSE old.draft,
                     ref |-> FALSE, ack |-> "none"]
<1>1. At(c, "plan") /\ "plan" \in Steps \ Saving
  BY DEF Plan, Steps, Saving
<1>2. /\ IsOpen(c) /\ old.op = None /\ mem[c] \in Session /\ old \in State
      /\ TaskFits(history, I, managed, ckpt[c], late[c], mem[c], task[c])
      /\ StateSound(history, edits, managed, old)
      /\ Fits(history, I, c, ckpt[c], late[c], mem[c])
  BY <1>1, AtStep, OpenSession DEF OpAt, OpGone, Sound, IsOpen
<1>3. ~old.conflict
  BY <1>1, <1>2 DEF At, TaskFits, NextStep, Saving
<1>4. UNCHANGED <<hostVars, ckpt, late, edits, managed>> /\ Limits'
  BY LimitsKept DEF Plan, limits
<1>5. ASSUME NEW o \in Ops, Fresh(c, o), Sets(c, [old EXCEPT !.op = Op(o)]),
             IF managed THEN Composes(old.base, old.draft) ELSE old.base = Latest,
             ResumeThen(c, "flushed")
      PROVE  IInv'
  <2> DEFINE op == Op(o)
             s == [old EXCEPT !.op = op]
             n == [mem[c] EXCEPT !.state = s]
  <2>1. op \in Operation
    <3>1. old.draft \in Text /\ Composed(old.draft) \in Text /\ Latest \in Rev
      BY <1>2, ComposedText, Revisions DEF State, Rev
    <3> QED
      BY <3>1 DEF Operation
  <2>2. /\ op.content = old.draft /\ op.expected = Latest /\ op.id = o
        /\ op.request = (IF managed THEN Composed(old.draft) ELSE old.draft)
        /\ ~op.ref /\ op.ack = "none" /\ I[op.id] = None
    BY <1>5 DEF Fresh
  <2>3. Sets(c, s)
    BY <1>5
  <2> HIDE DEF op
  <2>4. /\ s \in State /\ s.op = op /\ StateSound(history, edits, managed, s)
        /\ StateFits(history, I, c, old) => StateFits(history, I, c, s)
    BY <1>2, <1>3, <1>5, <2>1, <2>2, PlannedFits
  <2>5. mem[c].holds => StateFits(history, I, c, s)
    BY <1>2, <2>4 DEF Fits, IsOpen
  <2>6. op # None
    BY <2>1, NoneAssumption
  <2> HIDE DEF s
  <2>7. /\ n.landed = mem[c].landed /\ n.holds = mem[c].holds
        /\ n.uncertain = mem[c].uncertain /\ n.state = s
    BY <1>2 DEF Session
  <2> HIDE DEF n
  <2>8. TaskFits(history, I, managed, ckpt[c], late[c], n, Resuming("flushed"))
    BY <1>2, <2>4, <2>6, <2>7, ResumingFits DEF Settling
  <2>9. task' = [task EXCEPT ![c] = Resuming("flushed")]
    BY <1>5 DEF ResumeThen, Resuming
  <2>10. /\ Resuming("flushed") \in Task /\ Resuming("flushed").adopted = None
         /\ Resuming("flushed").submitted = None
    BY ResumingTask DEF Settling
  <2> QED
    BY <1>2, <1>4, <2>3, <2>4, <2>5, <2>8, <2>9, <2>10, StateStep DEF Sets, n
<1>6. CASE Sets(c, PlanRejected(old)) /\ SaveThen(c, "idle")
  <2> DEFINE s == PlanRejected(old)
  <2>1. /\ s \in State /\ s.op = old.op /\ s.base = old.base /\ s.draft = old.draft
        /\ s.conflict
    BY <1>2 DEF State, PlanRejected
  <2>2. Sets(c, s)
    BY <1>6
  <2> HIDE DEF s
  <2>3. StateSound(history, edits, managed, s)
    BY <1>2, <2>1 DEF StateSound
  <2>4. mem[c].holds => StateFits(history, I, c, s)
    BY <1>2, <2>1, ConflictFits DEF Fits, IsOpen
  <2>5. OpAt(s.op, "idle") /\ "idle" \in Settling
    BY DEF OpAt, HostSteps, OpGone, Settling
  <2> QED
    BY <1>1, <1>4, <1>6, <2>1, <2>2, <2>3, <2>4, <2>5, StateSaves DEF Sets
<1> QED
  BY <1>5, <1>6 DEF Plan

(* The operation after its outcome is known.                               *)
LEMMA SettledOp ==
  ASSUME NEW s \in State, s.op # None, NEW a \in {"committed", "rejected"}
  PROVE  LET new == [s EXCEPT !.op.ack = a] IN
           /\ new \in State /\ new.base = s.base /\ new.draft = s.draft
           /\ new.conflict = s.conflict
           /\ new.op \in Operation /\ new.op # None /\ new.op.ack = a
           /\ new.op.id = s.op.id /\ new.op.ref = s.op.ref
           /\ new.op.content = s.op.content /\ new.op.request = s.op.request
           /\ new.op.expected = s.op.expected
<1> DEFINE op == s.op
           q == [op EXCEPT !.ack = a]
           new == [s EXCEPT !.op.ack = a]
<1>1. op \in Operation
  BY DEF State
<1> HIDE DEF op
<1>2. /\ q \in Operation /\ q # None /\ q.ack = a /\ q.id = op.id /\ q.ref = op.ref
      /\ q.content = op.content /\ q.request = op.request /\ q.expected = op.expected
  BY <1>1, NoneAssumption DEF Operation
<1> HIDE DEF q
<1>3. new = [s EXCEPT !.op = q]
  BY DEF op, q, State
<1>4. /\ new \in State /\ new.base = s.base /\ new.draft = s.draft
      /\ new.conflict = s.conflict /\ new.op = q
  BY <1>2, <1>3 DEF State
<1> HIDE DEF new
<1> QED
  BY <1>2, <1>4 DEF op, new

(* What reconcileDurableWrite() makes of a settled operation fits.         *)
LEMMA ReconciledFits ==
  ASSUME IInv, NEW c \in Clients, NEW s \in State,
         StateSound(history, edits, managed, s), StateFits(history, intent[c], c, s),
         s.op # None, s.op.ref, s.op.ack = "none",
         intent[c][s.op.id].state \in Settled
  PROVE  LET new == Reconciled(s, intent[c][s.op.id]) IN
           /\ new \in State /\ new.op # None /\ new.op.ack # "none"
           /\ StateSound(history, edits, managed, new)
           /\ StateFits(history, intent[c], c, new)
<1> DEFINE I == intent[c]
           i == I[s.op.id]
           new == Reconciled(s, i)
           acked == [s EXCEPT !.op.ack = i.state]
           draft == IF managed THEN CanonicalDraft(s.op.content, s.op.request, s.draft)
                    ELSE s.draft
<1>1. /\ s.op \in Operation /\ s.draft \in Text /\ s.op.content \in Text
      /\ s.op.request \in Text /\ s.op.id \in Ops
  BY DEF State, Operation
<1>2. /\ i # None /\ i.expected = s.op.expected /\ i.request = s.op.request /\ ~i.acked
      /\ \A o \in Ops : I[o] # None /\ ~I[o].acked => s.op.id = o
  BY DEF StateFits, HeadFits, OpFits
<1>3. i.state \in {"committed", "rejected"}
  BY DEF Settled
<1>4. i.state = "committed" => i.rev \in 1 .. Latest /\ history[i.rev].text = s.op.request
  BY <1>1, <1>2 DEF IInv, IntentsFit, IntentFits, Latest
<1>5. /\ acked \in State /\ acked.base = s.base /\ acked.draft = s.draft
      /\ acked.conflict = s.conflict
      /\ acked.op \in Operation /\ acked.op # None /\ acked.op.ack = i.state
      /\ acked.op.id = s.op.id /\ acked.op.ref = s.op.ref
      /\ acked.op.content = s.op.content /\ acked.op.request = s.op.request
      /\ acked.op.expected = s.op.expected
  BY <1>3, SettledOp
<1> HIDE DEF acked
<1>6. HeadFits(I, acked.op)
  BY <1>2, <1>3, <1>5 DEF HeadFits, OpFits
<1>7. RequestFits(history, I, c, acked.op)
  BY <1>2, <1>5 DEF RequestFits
<1>8. StateSound(history, edits, managed, acked)
  BY <1>5 DEF StateSound, OpSound
<1>9. CASE new = [acked EXCEPT !.conflict = TRUE]
  <2>1. /\ new \in State /\ new.op = acked.op /\ new.base = s.base /\ new.draft = s.draft
        /\ new.conflict
    BY <1>5, <1>9 DEF State
  <2> HIDE DEF new
  <2>2. StateSound(history, edits, managed, new)
    BY <1>5, <1>8, <2>1 DEF StateSound
  <2>3. StateFits(history, I, c, new)
    BY <1>6, <1>7, <2>1 DEF StateFits, DraftFits
  <2> QED
    BY <1>3, <1>5, <2>1, <2>2, <2>3 DEF new
<1>10. CASE /\ i.state = "committed"
            /\ new = [acked EXCEPT !.base = i.rev, !.conflict = TRUE]
  <2>1. i.rev \in Rev /\ i.rev <= Len(history)
    BY <1>4, <1>10, Revisions DEF Rev
  <2> HIDE DEF new, i
  <2>2. /\ new \in State /\ new.op = acked.op /\ new.base = i.rev /\ new.draft = s.draft
        /\ new.conflict
    BY <1>5, <1>10, <2>1 DEF State
  <2>3. StateSound(history, edits, managed, new)
    BY <1>5, <1>8, <2>1, <2>2 DEF StateSound
  <2>4. StateFits(history, I, c, new)
    BY <1>6, <1>7, <2>2 DEF StateFits, DraftFits
  <2> QED
    BY <1>3, <1>5, <2>2, <2>3, <2>4 DEF new, i
<1>11. CASE /\ i.state = "committed" /\ draft # None
            /\ new = [acked EXCEPT !.base = i.rev, !.draft = draft]
  <2>1. i.rev \in Rev /\ i.rev <= Len(history) /\ history[i.rev].text = s.op.request
    BY <1>4, <1>11, Revisions DEF Rev
  <2>2. /\ OpSound(history, edits, managed, s.op) /\ Known(edits, s.draft)
        /\ s.op.content["body"] = s.op.request["body"]
    BY DEF StateSound, OpSound
  <2>3. /\ draft \in Text /\ draft["body"] = s.draft["body"]
        /\ \/ draft["front"] = s.op.request["front"]
           \/ draft["front"] = s.draft["front"] /\ s.op.request = s.op.content
    <3>1. CASE managed
      BY <1>1, <1>11, <2>2, <3>1, CanonicalParts
    <3>2. CASE ~managed
      BY <1>1, <2>2, <3>2 DEF OpSound
    <3> QED
      BY <3>1, <3>2
  <2> HIDE DEF draft
  <2>4. Known(edits, draft)
    BY <2>2, <2>3 DEF Known, Parts, OpSound
  <2> HIDE DEF new, i
  <2>5. /\ new \in State /\ new.op = acked.op /\ new.base = i.rev /\ new.draft = draft
        /\ new.conflict = s.conflict
    BY <1>5, <1>11, <2>1, <2>3 DEF State
  <2>6. StateSound(history, edits, managed, new)
    BY <1>5, <1>8, <2>1, <2>4, <2>5 DEF StateSound
  <2>7. DraftFits(history, c, new)
    <3>1. SUFFICES ASSUME ~s.conflict
                   PROVE  \A p \in Parts : Since(history, c, p, draft[p], s.op.request[p])
      BY <1>3, <1>5, <2>1, <2>5 DEF DraftFits
    <3>2. \A p \in Parts : s.draft[p] = s.op.content[p] \/ New(history, c, p, s.draft[p])
      BY <3>1 DEF StateFits, DraftFits
    <3>3. Since(history, c, "body", draft["body"], s.op.request["body"])
      BY <2>2, <2>3, <3>2 DEF Since, Parts
    <3>4. Since(history, c, "front", draft["front"], s.op.request["front"])
      BY <2>3, <3>2 DEF Since, Parts
    <3> QED
      BY <3>3, <3>4 DEF Parts
  <2>8. StateFits(history, I, c, new)
    BY <1>6, <1>7, <2>5, <2>7 DEF StateFits
  <2> QED
    BY <1>3, <1>5, <2>5, <2>6, <2>8 DEF new, i
<1> QED
  BY <1>3, <1>9, <1>10, <1>11 DEF Reconciled, acked

LEMMA ReconcileKeeps == ASSUME IInv, NEW c \in Clients, Reconcile(c) PROVE IInv'
<1> DEFINE old == mem[c].state
           s == Reconciled(old, intent[c][old.op.id])
<1>1. At(c, "settled") /\ "settled" \in Steps \ Saving /\ "settled" \in HostSteps
  BY DEF Reconcile, Steps, Saving, HostSteps
<1>2. /\ IsOpen(c) /\ old \in State /\ StateSound(history, edits, managed, old)
      /\ StateFits(history, intent[c], c, old) /\ OpAt(old.op, "settled")
      /\ TaskFits(history, intent[c], managed, ckpt[c], late[c], mem[c], task[c])
  BY <1>1, AtStep, OpenSession DEF Sound, IsOpen
<1>3. /\ old.op # None /\ old.op.ref /\ old.op.ack = "none"
      /\ intent[c][old.op.id].state \in Settled
  BY <1>1, <1>2 DEF OpAt, TaskFits, At
<1>4. /\ s \in State /\ s.op # None /\ s.op.ack # "none"
      /\ StateSound(history, edits, managed, s) /\ StateFits(history, intent[c], c, s)
  BY <1>2, <1>3, ReconciledFits
<1>5. Sets(c, s) /\ SaveThen(c, "ack")
  BY DEF Reconcile
<1> HIDE DEF s
<1>6. OpAt(s.op, "ack")
  BY <1>4 DEF OpAt, OpGone
<1> QED
  BY <1>1, <1>4, <1>5, <1>6, StateSaves, LimitsKept DEF Sets, Reconcile, limits

-------------------------------------------------------------------------------
(* The host.                                                               *)

(* What changes only the intents of one client.                            *)
LEMMA IntentsMove ==
  ASSUME IInv, NEW c \in Clients, NEW J \in [Ops -> Intent \cup {None}],
         intent' = [intent EXCEPT ![c] = J],
         UNCHANGED <<history, ckpt, late, mem, task, copies, edits, limits>>,
         IntentsFit(history, J), Fits(history, J, c, ckpt[c], late[c], mem[c]),
         mem[c] # None => TaskFits(history, J, managed, ckpt[c], late[c], mem[c], task[c]),
         \A o \in Ops : intent[c][o] # None /\ intent[c][o].state = "committed" =>
           J[o] # None /\ J[o].state = "committed" /\ J[o].rev = intent[c][o].rev
  PROVE  IInv'
<1>1. /\ DOMAIN intent = Clients /\ intent'[c] = J
      /\ \A d \in Clients : d # c => intent'[d] = intent[d]
  BY DEF IInv, TypeOK
<1>2. TypeOK'
  <2>1. intent' \in [Clients -> [Ops -> Intent \cup {None}]]
    BY DEF IInv, TypeOK
  <2> QED
    BY <2>1 DEF IInv, TypeOK, Latest, limits
<1>3. HistoryFits(history, edits, managed)' /\ NoSilentRevert'
  BY DEF IInv, NoSilentRevert, Latest, limits
<1>4. Authored'
  <2>1. ASSUME NEW r, NEW op, Names(intent, op, r)
        PROVE  Names(intent', op, r)
    BY <1>1, <2>1 DEF Names
  <2> QED
    BY <2>1 DEF IInv, Authored, Latest
<1>5. ASSUME NEW d \in Clients
      PROVE  IntentsFit(history', intent'[d]) /\ Client(d)'
  <2>1. CASE d # c
    BY <1>1, <2>1 DEF IInv, Client, limits
  <2>2. CASE d = c
    <3>1. ClientFits(history, J, edits, managed, c, ckpt[c], late[c], mem[c], task[c])
      BY DEF IInv, Client, ClientFits
    <3> QED
      BY <1>1, <2>2, <3>1 DEF Client, limits
  <2> QED
    BY <2>1, <2>2
<1> QED
  BY <1>2, <1>3, <1>4, <1>5 DEF IInv

(* The host answers a call: no other checkpoint is under way, and the      *)
(* operation is the one the checkpoint holds.                              *)
LEMMA HostMoves ==
  ASSUME IInv, NEW c \in Clients, NEW from \in HostSteps \ {"settled"}, At(c, from),
         NEW op, op = mem[c].state.op,
         NEW i \in Intent, intent' = [intent EXCEPT ![c][op.id] = i],
         UNCHANGED <<history, ckpt, late, mem, task, copies, edits, limits>>,
         IntentFits(history, i), OpFits([intent[c] EXCEPT ![op.id] = i], op),
         i.state \in Settled => intent[c][op.id] # None /\ intent[c][op.id].state = i.state,
         intent[c][op.id] # None => /\ i.rev = intent[c][op.id].rev
                                    /\ intent[c][op.id].state # "committed" \/ i.state = "committed"
                                    /\ intent[c][op.id].state \notin Settled \/ i.state \in Settled
  PROVE  IInv'
<1> DEFINE I == intent[c]
           J == [I EXCEPT ![op.id] = i]
<1>1. from \in Steps \ Saving /\ from \in HostSteps
  BY DEF HostSteps, Steps, Saving
<1>2. /\ IsOpen(c) /\ OpAt(op, from) /\ task[c].at = from
      /\ mem[c].holds /\ mem[c].uncertain = None /\ late[c] = None
      /\ ckpt[c] # None /\ ckpt[c].op = op
      /\ StateFits(history, I, c, mem[c].state) /\ StateFits(history, I, c, ckpt[c])
  BY <1>1, AtStep
<1>3. op \in Operation /\ op # None /\ op.id \in Ops
  BY <1>1, <1>2, OpenSession DEF OpAt, State, Operation
<1>4. I \in [Ops -> Intent \cup {None}]
  BY DEF IInv, TypeOK
<1>5. /\ J \in [Ops -> Intent \cup {None}] /\ J[op.id] = i
      /\ \A o \in Ops : o # op.id => J[o] = I[o]
      /\ intent' = [intent EXCEPT ![c] = J]
  BY <1>3, <1>4 DEF IInv, TypeOK
<1>6. OpFits(J, op)
  OBVIOUS
<1> HIDE DEF J
<1>7. i # None
  BY NoneAssumption
<1>8. IntentsFit(history, J)
  BY <1>5 DEF IInv, IntentsFit
<1>9. HeadFits(J, op)
  BY SMTT(30), <1>2, <1>3, <1>5, <1>6 DEF StateFits, HeadFits
<1>10. RequestFits(history, J, c, op)
  BY <1>2, <1>3, <1>5, <1>7 DEF StateFits, RequestFits
<1>11. Fits(history, J, c, ckpt[c], late[c], mem[c])
  BY <1>2, <1>3, <1>9, <1>10 DEF Fits, StateFits
<1>12. TaskFits(history, J, managed, ckpt[c], late[c], mem[c], task[c])
  <2>1. TaskFits(history, I, managed, ckpt[c], late[c], mem[c], task[c])
    BY <1>2, OpenSession
  <2> QED
    BY <1>2, <2>1 DEF TaskFits
<1>13. \A o \in Ops : I[o] # None /\ I[o].state = "committed" =>
         J[o] # None /\ J[o].state = "committed" /\ J[o].rev = I[o].rev
  BY <1>3, <1>5, <1>7
<1> QED
  BY <1>5, <1>8, <1>11, <1>12, <1>13, IntentsMove

LEMMA PrepareIntentKeeps ==
  ASSUME IInv, NEW c \in Clients, PrepareIntent(c) PROVE IInv'
<1> DEFINE I == intent[c]
           op == mem[c].state.op
           i == [expected |-> op.expected, request |-> op.request,
                 acked |-> FALSE, rev |-> 0, state |-> "prepared"]
<1>1. At(c, "prepare") /\ "prepare" \in (HostSteps \ {"settled"}) \cap Steps
      /\ "prepare" \notin Saving
  BY DEF PrepareIntent, HostSteps, Steps, Saving
<1>2. IsOpen(c) /\ OpAt(op, "prepare")
  BY <1>1, AtStep
<1>3. op \in Operation /\ op.ack = "none" /\ ~op.ref
  BY <1>1, <1>2, OpenSession DEF OpAt, State
<1>4. I[op.id] = None /\ intent' = [intent EXCEPT ![c][op.id] = i]
  BY DEF PrepareIntent
<1>5. i \in Intent
  BY <1>3 DEF Operation, Intent
<1>6. /\ i.expected = op.expected /\ i.request = op.request /\ ~i.acked
      /\ i.state = "prepared"
  OBVIOUS
<1> HIDE DEF i
<1>7. IntentFits(history, i)
  BY <1>6 DEF IntentFits
<1>8. [I EXCEPT ![op.id] = i][op.id] = i
  BY <1>3 DEF IInv, TypeOK, Operation
<1>9. OpFits([I EXCEPT ![op.id] = i], op)
  BY <1>3, <1>6, <1>8 DEF OpFits
<1> QED
  BY <1>1, <1>4, <1>5, <1>6, <1>7, <1>9, HostMoves DEF PrepareIntent, Settled

LEMMA RequestCommitKeeps ==
  ASSUME IInv, NEW c \in Clients, RequestCommit(c) PROVE IInv'
<1> DEFINE I == intent[c]
           op == mem[c].state.op
           i == [I[op.id] EXCEPT !.state = "commit_requested"]
<1>1. At(c, "commit") /\ "commit" \in (HostSteps \ {"settled"}) \cap Steps
      /\ "commit" \notin Saving
  BY DEF RequestCommit, HostSteps, Steps, Saving
<1>2. IsOpen(c) /\ OpAt(op, "commit") /\ StateFits(history, I, c, mem[c].state)
  BY <1>1, AtStep
<1>3. op \in Operation /\ op.ack = "none" /\ op.ref /\ op # None /\ op.id \in Ops
  BY <1>1, <1>2, OpenSession DEF OpAt, State, HostSteps, Operation
<1>4. OpFits(I, op) /\ I[op.id] # None
  BY <1>2, <1>3 DEF StateFits, HeadFits, OpFits
<1>5. I \in [Ops -> Intent \cup {None}] /\ I[op.id] \in Intent /\ I[op.id].state = "prepared"
  BY <1>3, <1>4 DEF IInv, TypeOK, RequestCommit
<1>6. intent' = [intent EXCEPT ![c][op.id] = i]
  BY <1>3, <1>5 DEF RequestCommit, IInv, TypeOK
<1>7. /\ i \in Intent /\ i.expected = I[op.id].expected /\ i.request = I[op.id].request
      /\ i.acked = I[op.id].acked /\ i.rev = I[op.id].rev
      /\ i.state = "commit_requested"
  BY <1>5 DEF Intent
<1>8. IntentFits(history, I[op.id])
  BY <1>3, <1>4 DEF IInv, IntentsFit
<1> HIDE DEF i
<1>9. IntentFits(history, i)
  BY <1>5, <1>7, <1>8 DEF IntentFits, Settled
<1>10. OpFits([I EXCEPT ![op.id] = i], op)
  <2> DEFINE J == [I EXCEPT ![op.id] = i]
  <2>1. J[op.id] = i
    BY <1>3, <1>5
  <2> HIDE DEF J, op
  <2>2. OpFits(J, op)
    BY <1>3, <1>4, <1>5, <1>7, <2>1, NoneAssumption DEF OpFits
  <2> QED
    BY <2>2 DEF J, op
<1> QED
  BY <1>1, <1>5, <1>6, <1>7, <1>9, <1>10, HostMoves DEF RequestCommit, Settled

LEMMA AcknowledgeIntentKeeps ==
  ASSUME IInv, NEW c \in Clients, AcknowledgeIntent(c) PROVE IInv'
<1> DEFINE I == intent[c]
           op == mem[c].state.op
           i == [I[op.id] EXCEPT !.acked = TRUE]
<1>1. At(c, "ack") /\ "ack" \in (HostSteps \ {"settled"}) \cap Steps
      /\ "ack" \notin Saving
  BY DEF AcknowledgeIntent, HostSteps, Steps, Saving
<1>2. IsOpen(c) /\ OpAt(op, "ack") /\ StateFits(history, I, c, mem[c].state)
  BY <1>1, AtStep
<1>3. op \in Operation /\ op.ack # "none" /\ op # None /\ op.id \in Ops
  BY <1>1, <1>2, OpenSession DEF OpAt, State, HostSteps, Operation
<1>4. OpFits(I, op) /\ I[op.id] # None /\ op.ack \in Settled
  BY <1>2, <1>3 DEF StateFits, HeadFits, OpFits, Operation, Settled
<1>5. I \in [Ops -> Intent \cup {None}] /\ I[op.id] \in Intent /\ I[op.id].state = op.ack
  BY <1>3, <1>4 DEF IInv, TypeOK, OpFits
<1>6. intent' = [intent EXCEPT ![c][op.id] = i]
  BY <1>3, <1>5 DEF AcknowledgeIntent, IInv, TypeOK
<1>7. /\ i \in Intent /\ i.expected = I[op.id].expected /\ i.request = I[op.id].request
      /\ i.acked /\ i.rev = I[op.id].rev /\ i.state = I[op.id].state
  BY <1>5 DEF Intent
<1>8. IntentFits(history, I[op.id])
  BY <1>3, <1>4 DEF IInv, IntentsFit
<1> HIDE DEF i
<1>9. IntentFits(history, i)
  BY <1>4, <1>5, <1>7, <1>8 DEF IntentFits
<1>10. OpFits([I EXCEPT ![op.id] = i], op)
  <2> DEFINE J == [I EXCEPT ![op.id] = i]
  <2>1. J[op.id] = i
    BY <1>3, <1>5
  <2> HIDE DEF J, op
  <2>2. OpFits(J, op)
    BY <1>3, <1>4, <1>5, <1>7, <2>1, NoneAssumption DEF OpFits
  <2> QED
    BY <2>2 DEF J, op
<1> QED
  BY <1>1, <1>4, <1>5, <1>6, <1>7, <1>9, <1>10, HostMoves DEF AcknowledgeIntent

-------------------------------------------------------------------------------
(* A revision is added.                                                    *)

Extends(h2, h) == /\ Len(h) \in Nat /\ Len(h2) = Len(h) + 1
                  /\ DOMAIN h = 1 .. Len(h) /\ DOMAIN h2 = 1 .. Len(h2)
                  /\ \A r \in 1 .. Len(h) : h2[r] = h[r]

(* What one client wrote and nobody saved is still not saved.              *)
Stays(h2, h, c) == \A p \in Parts : \A v : New(h, c, p, v) => New(h2, c, p, v)

LEMMA StateGrows ==
  ASSUME NEW h, NEW h2, NEW I, NEW E, NEW g, NEW c, NEW s \in State,
         Extends(h2, h), Stays(h2, h, c), StateSound(h, E, g, s), StateFits(h, I, c, s)
  PROVE  StateFits(h2, I, c, s)
<1>1. s.base \in 1 .. Len(h) /\ h2[s.base] = h[s.base]
  BY DEF Extends, StateSound, State, Rev
<1>2. s.op # None => s.op.expected \in 1 .. Len(h) /\ h2[s.op.expected] = h[s.op.expected]
  <2>1. s.op # None => s.op \in Operation /\ OpSound(h, E, g, s.op)
    BY DEF State, StateSound
  <2>2. s.op # None => s.op.expected \in 1 .. Len(h)
    BY <2>1 DEF Extends, OpSound, Operation, Rev
  <2> QED
    BY <2>2 DEF Extends
<1>3. \A p \in Parts : \A v, w : Since(h, c, p, v, w) => Since(h2, c, p, v, w)
  BY DEF Stays, Since
<1>4. DraftFits(h2, c, s)
  BY <1>1, <1>3 DEF StateFits, DraftFits, Stays
<1>5. s.op # None => RequestFits(h2, I, c, s.op)
  BY <1>2, <1>3 DEF StateFits, RequestFits
<1> QED
  BY <1>4, <1>5 DEF StateFits

LEMMA SoundGrows ==
  ASSUME NEW h, NEW h2, NEW E, NEW g, NEW s \in State, Extends(h2, h),
         StateSound(h, E, g, s)
  PROVE  StateSound(h2, E, g, s)
<1>1. s.base \in Nat /\ (s.op # None => s.op.expected \in Nat)
  BY DEF State, Rev, Operation
<1> QED
  BY <1>1 DEF Extends, StateSound, OpSound

LEMMA AllSoundGrows ==
  ASSUME NEW h, NEW h2, NEW E, NEW g, NEW k, NEW l, NEW m, NEW t, Extends(h2, h),
         Typed(k, l, m, t), Sound(h, E, g, k, l, m, t)
  PROVE  Sound(h2, E, g, k, l, m, t)
<1>1. t.adopted # None => t.adopted \in State
  BY DEF Typed, Task
<1>2. m # None => m.state \in State /\ m.uncertain \in State \cup {None}
  BY DEF Typed, Session
<1> QED
  BY <1>1, <1>2, SoundGrows DEF Sound, Typed

LEMMA TaskGrows ==
  ASSUME NEW h, NEW h2, NEW I, NEW E, NEW g, NEW k, NEW l, NEW m, NEW t, Extends(h2, h),
         Typed(k, l, m, t), Sound(h, E, g, k, l, m, t), TaskFits(h, I, g, k, l, m, t)
  PROVE  TaskFits(h2, I, g, k, l, m, t)
<1>1. t.adopted # None => h2[t.adopted.base] = h[t.adopted.base]
  BY DEF Typed, Task, State, Rev, Sound, StateSound, Extends
<1> QED
  BY <1>1 DEF TaskFits

LEMMA ClientGrows ==
  ASSUME NEW h, NEW h2, NEW I, NEW E, NEW g, NEW c, NEW k, NEW l, NEW m, NEW t,
         Extends(h2, h), Stays(h2, h, c), ClientFits(h, I, E, g, c, k, l, m, t)
  PROVE  ClientFits(h2, I, E, g, c, k, l, m, t)
<1>1. Typed(k, l, m, t) /\ Sound(h, E, g, k, l, m, t) /\ Fits(h, I, c, k, l, m)
  BY DEF ClientFits
<1>2. m # None => m.state \in State /\ m.uncertain \in State \cup {None}
  BY <1>1 DEF Typed, Session
<1>3. Fits(h2, I, c, k, l, m)
  <2>1. k # None => StateFits(h2, I, c, k)
    BY <1>1, StateGrows DEF Typed, Sound, Fits
  <2>2. l # None => StateFits(h2, I, c, l)
    BY <1>1, StateGrows DEF Typed, Sound, Fits
  <2>3. m # None /\ m.holds => StateFits(h2, I, c, m.state)
    BY <1>1, <1>2, StateGrows DEF Sound, Fits
  <2>4. m # None /\ m.holds /\ m.uncertain # None => StateFits(h2, I, c, m.uncertain)
    BY <1>1, <1>2, StateGrows DEF Sound, Fits
  <2> QED
    BY <1>1, <2>1, <2>2, <2>3, <2>4 DEF Fits
<1>4. Sound(h2, E, g, k, l, m, t)
  BY <1>1, AllSoundGrows
<1>5. m # None => TaskFits(h2, I, g, k, l, m, t)
  BY <1>1, TaskGrows DEF ClientFits
<1> QED
  BY <1>1, <1>3, <1>4, <1>5 DEF ClientFits

LEMMA IntentsGrow ==
  ASSUME NEW h, NEW h2, NEW I, Extends(h2, h), IntentsFit(h, I)
  PROVE  IntentsFit(h2, I)
BY DEF IntentsFit, IntentFits, Extends

(* The history after one more revision.                                    *)
Writers == (Clients \X Ops) \cup {None}
Revision == [text : Text, op : Writers]

LEMMA OneMore ==
  ASSUME IInv, NEW text \in Text, NEW op \in Writers,
         history' = Append(history, [text |-> text, op |-> op])
  PROVE  /\ Extends(history', history) /\ Latest' = Latest + 1
         /\ history'[Latest + 1].text = text /\ history'[Latest + 1].op = op
         /\ history' \in Seq(Revision)
<1> DEFINE new == [text |-> text, op |-> op]
<1>1. history \in Seq(Revision) /\ new \in Revision
  BY DEF IInv, TypeOK, Revision, Writers
<1>2. new.text = text /\ new.op = op
  OBVIOUS
<1> HIDE DEF new
<1>3. history' = Append(history, new)
  BY DEF new
<1>4. /\ history' \in Seq(Revision) /\ Len(history') = Len(history) + 1
      /\ Len(history) \in Nat /\ DOMAIN history = 1 .. Len(history)
      /\ DOMAIN history' = 1 .. Len(history')
      /\ history'[Len(history) + 1] = new
      /\ \A r \in 1 .. Len(history) : history'[r] = history[r]
  BY <1>1, <1>3
<1> QED
  BY <1>2, <1>4 DEF Extends, Latest

LEMMA StaysIf ==
  ASSUME IInv, NEW c, NEW text \in Text, NEW op \in Writers,
         history' = Append(history, [text |-> text, op |-> op]),
         \A p \in Parts : \A v : New(history, c, p, v) => text[p] # v
  PROVE  Stays(history', history, c)
<1>1. /\ Latest \in Nat /\ Latest = Len(history) /\ Len(history') = Latest + 1
      /\ DOMAIN history = 1 .. Latest /\ DOMAIN history' = 1 .. (Latest + 1)
      /\ history'[Latest + 1].text = text
      /\ \A r \in 1 .. Latest : history'[r] = history[r]
  BY OneMore, Revisions DEF Extends
<1>2. ASSUME NEW p \in Parts, NEW v, New(history, c, p, v), NEW r \in DOMAIN history'
      PROVE  history'[r].text[p] # v
  <2>1. CASE r \in 1 .. Latest
    BY <1>1, <1>2, <2>1 DEF New
  <2>2. CASE r = Latest + 1
    BY <1>1, <1>2, <2>2
  <2> QED
    BY <1>1, <2>1, <2>2
<1> QED
  BY <1>2 DEF Stays, New

(* What the new revision takes over or what its author wrote anew comes    *)
(* back to no part.                                                        *)
LEMMA NoRevertGrows ==
  ASSUME IInv, NEW c, NEW text \in Text, NEW op \in Writers,
         history' = Append(history, [text |-> text, op |-> op]),
         op # None => \A q \in 1 .. Latest : history[q].op # op,
         \A p \in Parts : Since(history, c, p, text[p], Content(Latest)[p])
  PROVE  NoSilentRevert'
<1>1. /\ Latest \in Nat \ {0} /\ Latest = Len(history) /\ DOMAIN history = 1 .. Latest
  BY Revisions
<1>2. /\ Latest' = Latest + 1 /\ \A r \in 1 .. Latest : history'[r] = history[r]
      /\ history'[Latest + 1].text = text /\ history'[Latest + 1].op = op
  BY <1>1, OneMore DEF Extends
<1>3. ASSUME NEW r \in 2 .. Latest + 1
      PROVE  /\ history'[r].op # None =>
                  \A q \in 1 .. (r - 1) : history'[q].op # history'[r].op
             /\ \A p \in Parts : history'[r].text[p] # history'[r - 1].text[p] =>
                  \A q \in 1 .. (r - 1) : history'[q].text[p] # history'[r].text[p]
  <2>1. CASE r <= Latest
    <3>1. r \in 2 .. Latest /\ r \in 1 .. Latest /\ r - 1 \in 1 .. Latest
          /\ \A q \in 1 .. (r - 1) : q \in 1 .. Latest
      BY <1>1, <2>1
    <3>2. /\ history[r].op # None =>
               \A q \in 1 .. (r - 1) : history[q].op # history[r].op
          /\ \A p \in Parts : history[r].text[p] # history[r - 1].text[p] =>
               \A q \in 1 .. (r - 1) : history[q].text[p] # history[r].text[p]
      BY <3>1 DEF IInv, NoSilentRevert
    <3>3. /\ history'[r] = history[r] /\ history'[r - 1] = history[r - 1]
          /\ \A q \in 1 .. (r - 1) : history'[q] = history[q]
      BY <1>2, <3>1
    <3> QED
      BY <3>2, <3>3
  <2>2. CASE r = Latest + 1
    <3>1. /\ history'[r].text = text /\ history'[r].op = op
          /\ r - 1 = Latest /\ history'[r - 1] = history[Latest]
          /\ \A q \in 1 .. (r - 1) : q \in DOMAIN history /\ history'[q] = history[q]
      BY <1>1, <1>2, <2>2
    <3>2. op # None => \A q \in 1 .. (r - 1) : history'[q].op # op
      BY <3>1
    <3>3. ASSUME NEW p \in Parts, text[p] # history[Latest].text[p]
          PROVE  \A q \in 1 .. (r - 1) : history'[q].text[p] # text[p]
      BY <3>1, <3>3 DEF Since, New, Content
    <3> QED
      BY <3>1, <3>2, <3>3
  <2> QED
    BY <1>1, <2>1, <2>2
<1> QED
  BY <1>2, <1>3 DEF NoSilentRevert

LEMMA WorldlyGrows ==
  ASSUME IInv, NEW text \in Text, NEW op \in Writers,
         history' = Append(history, [text |-> text, op |-> op])
  PROVE  /\ Cardinality(Worldly(history)) \in Nat
         /\ Cardinality(Worldly(history')) =
              Cardinality(Worldly(history)) + (IF op = None THEN 1 ELSE 0)
<1>1. /\ Latest \in Nat /\ Latest = Len(history) /\ DOMAIN history = 1 .. Latest
      /\ DOMAIN history' = 1 .. (Latest + 1) /\ history'[Latest + 1].op = op
      /\ \A r \in 1 .. Latest : history'[r] = history[r]
  BY OneMore, Revisions DEF Extends
<1>2. Worldly(history) \subseteq 1 .. Latest /\ IsFiniteSet(1 .. Latest)
  BY <1>1, FS_Interval DEF Worldly
<1>3. IsFiniteSet(Worldly(history)) /\ Cardinality(Worldly(history)) \in Nat
  BY <1>2, FS_Subset, FS_CardinalityType
<1>4. CASE op = None
  <2>1. Worldly(history') = Worldly(history) \cup {Latest + 1}
    BY <1>1, <1>4 DEF Worldly
  <2>2. Latest + 1 \notin Worldly(history)
    BY <1>1, <1>2
  <2> QED
    BY <1>3, <1>4, <2>1, <2>2, FS_AddElement
<1>5. CASE op # None
  <2>1. Worldly(history') = Worldly(history)
    BY <1>1, <1>5 DEF Worldly
  <2> QED
    BY <1>3, <1>5, <2>1
<1> QED
  BY <1>4, <1>5

LEMMA HistoryGrows ==
  ASSUME IInv, NEW text \in Text, NEW op \in Writers,
         history' = Append(history, [text |-> text, op |-> op]), Known(edits, text),
         managed => text["front"].by = World,
         \A p \in Parts : text[p].by = World =>
           text[p].n <= Cardinality(Worldly(history')) - 1
  PROVE  HistoryFits(history', edits, managed)
<1>1. /\ Latest \in Nat /\ Latest = Len(history) /\ Len(history') = Latest + 1
      /\ history'[Latest + 1].text = text
      /\ \A r \in 1 .. Latest : history'[r] = history[r]
  BY OneMore, Revisions DEF Extends
<1>2. /\ Cardinality(Worldly(history)) \in Nat /\ Cardinality(Worldly(history')) \in Nat
      /\ Cardinality(Worldly(history)) <= Cardinality(Worldly(history'))
  BY WorldlyGrows
<1>3. ASSUME NEW r \in 1 .. Latest
      PROVE  /\ Known(edits, history'[r].text)
             /\ managed => history'[r].text["front"].by = World
             /\ \A p \in Parts : history'[r].text[p].by = World =>
                  history'[r].text[p].n <= Cardinality(Worldly(history')) - 1
  <2>1. \A p \in Parts : history[r].text[p].by = World =>
          history[r].text[p].n <= Cardinality(Worldly(history)) - 1
    BY <1>1 DEF IInv, HistoryFits
  <2>2. history[r].text \in Text
    BY Revisions
  <2>3. \A p \in Parts : history[r].text[p].n \in Nat
    BY <2>2 DEF Text, Part
  <2>4. \A p \in Parts : history[r].text[p].by = World =>
          history[r].text[p].n <= Cardinality(Worldly(history')) - 1
    BY <1>2, <2>1, <2>3
  <2>5. /\ Known(edits, history[r].text)
        /\ managed => history[r].text["front"].by = World
    BY <1>1 DEF IInv, HistoryFits
  <2> QED
    BY <1>1, <2>4, <2>5
<1>4. \A r \in 1 .. (Latest + 1) : r \in 1 .. Latest \/ r = Latest + 1
  BY <1>1
<1> QED
  BY <1>1, <1>3, <1>4 DEF HistoryFits

(* Who wrote the new revision and nothing else changes the rest.           *)
LEMMA OthersGrow ==
  ASSUME IInv, NEW d \in Clients, Extends(history', history), Stays(history', history, d),
         intent'[d] = intent[d], UNCHANGED <<ckpt, late, mem, task, edits, managed>>
  PROVE  IntentsFit(history', intent'[d]) /\ Client(d)'
<1>1. IntentsFit(history', intent[d])
  BY IntentsGrow DEF IInv
<1>2. ClientFits(history', intent[d], edits, managed, d, ckpt[d], late[d], mem[d], task[d])
  BY ClientGrows DEF IInv, Client
<1> QED
  BY <1>1, <1>2 DEF Client

LEMMA AdvanceKeeps == ASSUME IInv, NEW p \in Parts, Advance(p) PROVE IInv'
<1> DEFINE n == Written + 1
           part == [by |-> World, n |-> n]
           text == [Content(Latest) EXCEPT ![p] = part]
<1>1. /\ history' = Append(history, [text |-> text, op |-> None])
      /\ UNCHANGED <<intent, ckpt, late, mem, task, edits, managed, copies, crashes, faults>>
  BY DEF Advance, limits
<1>2. Content(Latest) \in Text /\ Known(edits, Content(Latest))
      /\ Latest \in Nat \ {0} /\ Latest = Len(history) /\ DOMAIN history = 1 .. Latest
  BY Revisions DEF Content
<1>3. n = Cardinality(Worldly(history)) /\ n \in Nat
  <2>1. Worldly(history) = {r \in DOMAIN history : history[r].op = None}
    BY DEF Worldly
  <2>2. Worldly(history) \subseteq 1 .. Latest /\ IsFiniteSet(1 .. Latest)
    BY <1>2, FS_Interval DEF Worldly
  <2>3. Cardinality(Worldly(history)) \in Nat
    BY <2>2, FS_Subset, FS_CardinalityType
  <2> QED
    BY <2>1, <2>3 DEF Written
<1>4. part \in Part
  BY <1>3 DEF Part
<1>14. None \in Writers
  BY DEF Writers
<1>5. /\ text \in Text /\ text[p].by = World /\ text[p].n = n
      /\ \A q \in Parts : q # p => text[q] = Content(Latest)[q]
  BY <1>2, <1>4 DEF Text
<1> HIDE DEF text
<1>6. Cardinality(Worldly(history')) = n + 1
  BY <1>1, <1>3, <1>5, <1>14, WorldlyGrows
<1>7. \A r \in 1 .. Latest, q \in Parts :
        history[r].text[q].by = World => history[r].text[q].n <= n - 1
  BY <1>2, <1>3 DEF IInv, HistoryFits
<1>8. HistoryFits(history', edits, managed)
  <2>1. Known(edits, text)
    BY <1>2, <1>5, ConstantsAssumption DEF Known
  <2>2. managed => text["front"].by = World
    <3>1. managed => Content(Latest)["front"].by = World
      BY <1>2 DEF IInv, HistoryFits, Content
    <3> QED
      BY <1>5, <3>1 DEF Parts
  <2>3. \A q \in Parts : text[q].by = World => text[q].n <= Cardinality(Worldly(history')) - 1
    <3>1. \A q \in Parts : Content(Latest)[q].n \in Nat
      BY <1>2 DEF Text, Part
    <3>2. ASSUME NEW q \in Parts, text[q].by = World
          PROVE  text[q].n <= n
      <4>1. CASE q = p
        BY <1>3, <1>5, <4>1
      <4>2. CASE q # p
        <5>1. text[q] = Content(Latest)[q] /\ Content(Latest)[q].n <= n - 1
          BY <1>2, <1>5, <1>7, <3>2, <4>2 DEF Content
        <5> QED
          BY <1>3, <3>1, <5>1
      <4> QED
        BY <4>1, <4>2
    <3> QED
      BY <1>3, <1>6, <3>2
  <2> QED
    BY <1>1, <1>5, <2>1, <2>2, <2>3, <1>14, HistoryGrows
<1>9. /\ Extends(history', history) /\ Latest' = Latest + 1
      /\ history'[Latest + 1].text = text /\ history'[Latest + 1].op = None
      /\ history' \in Seq(Revision)
  BY <1>1, <1>5, <1>14, OneMore
<1>10. NoSilentRevert'
  <2>1. \A r \in DOMAIN history : history[r].text[p] # text[p]
    <3>1. \A r \in 1 .. Latest : history[r].text[p].n \in Nat
      BY Revisions DEF Text, Part
    <3> QED
      BY <1>2, <1>3, <1>5, <1>7, <3>1
  <2>2. \A q \in Parts : Since(history, World, q, text[q], Content(Latest)[q])
    BY <1>5, <2>1 DEF Since, New
  <2> QED
    BY <1>1, <1>5, <2>2, <1>14, NoRevertGrows
<1>11. ASSUME NEW d \in Clients
       PROVE  IntentsFit(history', intent'[d]) /\ Client(d)'
  <2>1. Stays(history', history, d)
    <3>1. \A q \in Parts : \A v : New(history, d, q, v) => text[q] # v
      BY <1>2, <1>5, ConstantsAssumption DEF New, Content
    <3> QED
      BY <1>1, <1>5, <3>1, <1>14, StaysIf
  <2> QED
    BY <1>1, <1>9, <2>1, OthersGrow
<1>12. Authored'
  BY <1>1, <1>2, <1>9 DEF IInv, Authored, Extends
<1>13. TypeOK'
  BY <1>1, <1>2, <1>9 DEF IInv, TypeOK, Revision, Writers
<1> QED
  BY <1>1, <1>8, <1>10, <1>11, <1>12, <1>13 DEF IInv

-------------------------------------------------------------------------------
(* An authorised write is settled.                                         *)

(* The operation of the only intent that is not settled.                   *)
LEMMA OpOfIntent ==
  ASSUME NEW I, NEW o \in Ops, I[o] # None, ~I[o].acked, I[o].state = "commit_requested",
         NEW op \in Operation \cup {None}, HeadFits(I, op)
  PROVE  /\ op # None /\ op \in Operation /\ op.id = o /\ op.ref /\ op.ack = "none"
         /\ op.request = I[o].request /\ op.expected = I[o].expected
<1>1. op # None /\ op.id = o /\ op \in Operation /\ OpFits(I, op)
  BY DEF HeadFits
<1>2. op.ack \in {"none", "committed", "rejected"}
  BY <1>1 DEF Operation
<1> QED
  BY <1>1, <1>2 DEF OpFits

(* The intents J settle what I left to be done, and the new history h2 has *)
(* of the client's new parts at most those of that request.                *)
Settles(h2, J, h, I, c, o) ==
  /\ I \in [Ops -> Intent \cup {None}] /\ J \in [Ops -> Intent \cup {None}]
  /\ I[o] # None /\ ~I[o].acked /\ I[o].state = "commit_requested"
  /\ J[o] # None /\ ~J[o].acked /\ J[o].state \in Settled
  /\ J[o].expected = I[o].expected /\ J[o].request = I[o].request
  /\ \A x \in Ops : x # o => J[x] = I[x]
  /\ \A p \in Parts : \A v : New(h, c, p, v) /\ v # I[o].request[p] => New(h2, c, p, v)

LEMMA StateSettles ==
  ASSUME NEW h, NEW h2, NEW I, NEW J, NEW c, NEW o \in Ops, Settles(h2, J, h, I, c, o),
         NEW s \in State, StateFits(h, I, c, s)
  PROVE  StateFits(h2, J, c, s)
<1>1. HeadFits(I, s.op) /\ s.op \in Operation \cup {None} /\ DraftFits(h, c, s)
  BY DEF StateFits, State
<1>2. /\ s.op # None /\ s.op \in Operation /\ s.op.id = o /\ s.op.ref /\ s.op.ack = "none"
      /\ s.op.request = I[o].request /\ s.op.expected = I[o].expected
  BY <1>1, OpOfIntent DEF Settles
<1>3. HeadFits(J, s.op)
  BY <1>1, <1>2 DEF HeadFits, OpFits, Settles
<1>4. DraftFits(h2, c, s)
  BY <1>1, <1>2 DEF DraftFits, Settles
<1>5. RequestFits(h2, J, c, s.op)
  BY <1>2 DEF RequestFits, Settles
<1> QED
  BY <1>3, <1>4, <1>5 DEF StateFits

LEMMA ClientSettles ==
  ASSUME NEW h, NEW h2, NEW I, NEW J, NEW E, NEW g, NEW c, NEW k, NEW l, NEW m, NEW t,
         NEW o \in Ops, Settles(h2, J, h, I, c, o), Extends(h2, h) \/ h2 = h,
         ClientFits(h, I, E, g, c, k, l, m, t)
  PROVE  ClientFits(h2, J, E, g, c, k, l, m, t)
<1>1. Typed(k, l, m, t) /\ Sound(h, E, g, k, l, m, t) /\ Fits(h, I, c, k, l, m)
  BY DEF ClientFits
<1>2. m # None => m.state \in State /\ m.uncertain \in State \cup {None}
  BY <1>1 DEF Typed, Session
<1>3. k # None
  BY <1>1, OpOfIntent DEF Fits, Settles
<1>4. Fits(h2, J, c, k, l, m)
  <2>1. StateFits(h2, J, c, k)
    BY <1>1, <1>3, StateSettles DEF Typed, Fits
  <2>2. l # None => StateFits(h2, J, c, l)
    BY <1>1, StateSettles DEF Typed, Fits
  <2>3. m # None /\ m.holds => StateFits(h2, J, c, m.state)
    BY <1>1, <1>2, StateSettles DEF Fits
  <2>4. m # None /\ m.holds /\ m.uncertain # None => StateFits(h2, J, c, m.uncertain)
    BY <1>1, <1>2, StateSettles DEF Fits
  <2> QED
    BY <1>3, <2>1, <2>2, <2>3, <2>4 DEF Fits
<1>5. Sound(h2, E, g, k, l, m, t)
  BY <1>1, AllSoundGrows
<1>6. ASSUME m # None
      PROVE  TaskFits(h2, J, g, k, l, m, t)
  <2>1. TaskFits(h2, I, g, k, l, m, t)
    BY <1>1, <1>6, TaskGrows DEF ClientFits
  <2>2. t.at = "settled" => J[m.state.op.id].state \in Settled
    <3>1. SUFFICES ASSUME t.at = "settled"
                   PROVE  J[m.state.op.id].state \in Settled
      OBVIOUS
    <3>2. m.state.op # None
      BY <2>1, <3>1 DEF TaskFits, OpAt, NextStep, Saving, HostSteps
    <3>3. m.state.op.id \in Ops
      BY <1>2, <1>6, <3>2 DEF State, Operation
    <3> QED
      BY <2>1, <3>1, <3>3 DEF TaskFits, Settles
  <2> QED
    BY <2>1, <2>2 DEF TaskFits
<1> QED
  BY <1>1, <1>4, <1>5, <1>6 DEF ClientFits

(* What is known of an authorised intent.                                  *)
LEMMA Authorised ==
  ASSUME IInv, NEW c \in Clients, NEW o \in Ops, intent[c][o] # None,
         intent[c][o].state = "commit_requested"
  PROVE  /\ intent[c] \in [Ops -> Intent \cup {None}] /\ intent[c][o] \in Intent
         /\ ~intent[c][o].acked
         /\ Known(edits, intent[c][o].request)
         /\ managed => intent[c][o].request["front"].by = World
         /\ \A p \in Parts : Since(history, c, p, intent[c][o].request[p],
                                   history[intent[c][o].expected].text[p])
<1> DEFINE I == intent[c]
           s == ckpt[c]
<1>1. I \in [Ops -> Intent \cup {None}] /\ I[o] \in Intent
  BY DEF IInv, TypeOK
<1>2. ~I[o].acked
  BY DEF IInv, IntentsFit, IntentFits, Settled
<1>3. /\ Fits(history, I, c, s, late[c], mem[c]) /\ s \in State \cup {None}
      /\ s # None => StateSound(history, edits, managed, s)
  BY DEF IInv, Client, ClientFits, Typed, Sound
<1>4. s # None
  BY <1>2, <1>3, OpOfIntent DEF Fits
<1>5. StateFits(history, I, c, s) /\ s.op \in Operation \cup {None} /\ HeadFits(I, s.op)
  BY <1>3, <1>4 DEF Fits, StateFits, State
<1>6. s.op # None /\ s.op.id = o /\ s.op.request = I[o].request /\ s.op.expected = I[o].expected
  BY <1>2, <1>5, OpOfIntent
<1>7. OpSound(history, edits, managed, s.op) /\ RequestFits(history, I, c, s.op)
  BY <1>3, <1>4, <1>5, <1>6 DEF StateSound, StateFits
<1>8. "commit_requested" \notin Settled
  BY DEF Settled
<1>9. \A p \in Parts : Since(history, c, p, s.op.request[p], history[s.op.expected].text[p])
  BY <1>6, <1>7, <1>8 DEF RequestFits
<1> QED
  BY <1>1, <1>2, <1>6, <1>7, <1>9 DEF OpSound

LEMMA RejectKeeps ==
  ASSUME IInv, NEW c \in Clients, NEW o \in Ops, intent[c][o] # None,
         intent[c][o].state = "commit_requested",
         intent' = [intent EXCEPT ![c][o].state = "rejected"],
         UNCHANGED <<history, ckpt, late, mem, task, copies, edits, limits>>
  PROVE  IInv'
<1> DEFINE I == intent[c]
           i == [I[o] EXCEPT !.state = "rejected"]
           J == [I EXCEPT ![o] = i]
<1>1. /\ I \in [Ops -> Intent \cup {None}] /\ I[o] \in Intent /\ ~I[o].acked
  BY Authorised
<1>2. /\ i \in Intent /\ i.state = "rejected" /\ ~i.acked /\ i # None
      /\ i.expected = I[o].expected /\ i.request = I[o].request
  BY <1>1, NoneAssumption DEF Intent
<1>3. intent' = [intent EXCEPT ![c] = J]
  BY <1>1 DEF IInv, TypeOK
<1> HIDE DEF i
<1>4. J \in [Ops -> Intent \cup {None}] /\ J[o] = i /\ \A x \in Ops : x # o => J[x] = I[x]
  BY <1>1, <1>2
<1> HIDE DEF J
<1>5. Settles(history, J, history, I, c, o)
  BY <1>1, <1>2, <1>4 DEF Settles, Settled
<1>6. ClientFits(history, J, edits, managed, c, ckpt[c], late[c], mem[c], task[c])
  BY <1>5, ClientSettles DEF IInv, Client
<1>7. IntentsFit(history, J)
  BY <1>2, <1>4 DEF IInv, IntentsFit, IntentFits
<1>8. \A x \in Ops : I[x] # None /\ I[x].state = "committed" =>
        J[x] # None /\ J[x].state = "committed" /\ J[x].rev = I[x].rev
  BY <1>4
<1> QED
  BY <1>3, <1>4, <1>6, <1>7, <1>8, IntentsMove DEF ClientFits

CommittedAs(row, rev) == [row EXCEPT !.state = "committed", !.rev = rev]

LEMMA CommittedIntent ==
  ASSUME NEW row \in Intent, NEW rev \in Nat
  PROVE  /\ CommittedAs(row, rev) \in Intent /\ CommittedAs(row, rev).state = "committed"
         /\ CommittedAs(row, rev).acked = row.acked /\ CommittedAs(row, rev) # None
         /\ CommittedAs(row, rev).expected = row.expected
         /\ CommittedAs(row, rev).request = row.request
         /\ CommittedAs(row, rev).rev = rev
<1> DEFINE i == CommittedAs(row, rev)
<1>1. /\ i \in Intent /\ i.state = "committed" /\ i.acked = row.acked
      /\ i.expected = row.expected /\ i.request = row.request /\ i.rev = rev
  BY DEF Intent, CommittedAs
<1> QED
  BY <1>1, NoneAssumption

(* An authorised write of o that is applied.                               *)
Commits(c, o) ==
  /\ intent[c][o] # None /\ intent[c][o].state = "commit_requested"
  /\ intent[c][o].expected = Latest
  /\ history' = Append(history, [text |-> intent[c][o].request, op |-> Receipt(c, o)])
  /\ intent' = [intent EXCEPT ![c][o].state = "committed", ![c][o].rev = Latest + 1]
  /\ UNCHANGED <<ckpt, late, mem, task, copies, edits, limits>>

LEMMA CommitKeeps ==
  ASSUME IInv, NEW c \in Clients, NEW o \in Ops, Commits(c, o)
  PROVE  IInv'
<1> DEFINE I == intent[c]
           i == CommittedAs(I[o], Latest + 1)
           J == [I EXCEPT ![o] = i]
           text == I[o].request
           w == Receipt(c, o)
<1>1. /\ I \in [Ops -> Intent \cup {None}] /\ I[o] \in Intent /\ ~I[o].acked
      /\ text \in Text /\ Known(edits, text)
      /\ managed => text["front"].by = World
  BY Authorised DEF Intent, Commits
<1>2. \A p \in Parts : Since(history, c, p, text[p], Content(Latest)[p])
  BY Authorised DEF Content, Commits
<1>3. Latest \in Nat \ {0} /\ Latest = Len(history) /\ DOMAIN history = 1 .. Latest
  BY Revisions
<1>4. /\ i \in Intent /\ i.state = "committed" /\ ~i.acked /\ i # None
      /\ i.expected = I[o].expected /\ i.request = text /\ i.rev = Latest + 1
  <2>1. I[o] \in Intent /\ ~I[o].acked /\ Latest + 1 \in Nat
    BY <1>1, <1>3
  <2> QED
    BY <2>1, CommittedIntent
<1>5. intent' = [intent EXCEPT ![c] = J]
  <2>1. intent' = [intent EXCEPT ![c][o].state = "committed", ![c][o].rev = Latest + 1]
    BY DEF Commits
  <2> QED
    BY <1>1, <2>1 DEF IInv, TypeOK, CommittedAs
<1>16. /\ UNCHANGED <<ckpt, late, mem, task, copies, edits, limits>>
       /\ I[o] # None /\ I[o].state = "commit_requested"
  BY DEF Commits
<1>6. w \in Writers /\ w # None
  BY NoneAssumption DEF Writers, Receipt
<1>15. history' = Append(history, [text |-> text, op |-> w])
  BY DEF Commits
<1> HIDE DEF i, w, text
<1>7. J \in [Ops -> Intent \cup {None}] /\ J[o] = i /\ \A x \in Ops : x # o => J[x] = I[x]
  BY <1>1, <1>4
<1> HIDE DEF J
<1>8. /\ Extends(history', history) /\ Latest' = Latest + 1
      /\ history'[Latest + 1].text = text /\ history'[Latest + 1].op = w
      /\ history' \in Seq(Revision)
  BY <1>1, <1>6, <1>15, OneMore
<1>9. /\ intent'[c] = J /\ \A d \in Clients : d # c => intent'[d] = intent[d]
  BY <1>5 DEF IInv, TypeOK
<1>10. HistoryFits(history', edits, managed)
  <2>1. ASSUME NEW p \in Parts, text[p].by = World
        PROVE  text[p].n <= Cardinality(Worldly(history')) - 1
    <3>1. text[p] = Content(Latest)[p]
      BY <1>2, <2>1, ConstantsAssumption DEF Since, New
    <3>2. text[p].n <= Cardinality(Worldly(history)) - 1
      BY <1>3, <2>1, <3>1 DEF IInv, HistoryFits, Content
    <3>3. Cardinality(Worldly(history')) = Cardinality(Worldly(history)) + 0
      BY <1>1, <1>6, <1>15, WorldlyGrows
    <3>4. Cardinality(Worldly(history)) \in Nat
      BY <1>1, <1>6, <1>15, WorldlyGrows
    <3> QED
      BY <3>2, <3>3, <3>4
  <2> QED
    BY <1>1, <1>6, <1>15, <2>1, HistoryGrows
<1>11. NoSilentRevert'
  <2>1. ASSUME NEW q \in 1 .. Latest, history[q].op = w
        PROVE  FALSE
    <3>1. Names(intent, w, q)
      BY <1>6, <2>1 DEF IInv, Authored
    <3>2. intent[c][o].state = "committed"
      BY <3>1 DEF Names, w, Receipt
    <3> QED
      BY <1>16, <3>2
  <2> QED
    BY <1>1, <1>2, <1>6, <1>15, <2>1, NoRevertGrows
<1>12. Authored'
  <2>1. ASSUME NEW r, NEW op, Names(intent, op, r)
        PROVE  Names(intent', op, r)
    <3>1. PICK d \in Clients, x \in Ops :
             /\ op = Receipt(d, x) /\ intent[d][x] # None
             /\ intent[d][x].state = "committed" /\ intent[d][x].rev = r
      BY <2>1 DEF Names
    <3>2. intent'[d][x] = intent[d][x]
      <4>1. CASE d # c
        BY <1>9, <4>1
      <4>2. CASE d = c
        BY <1>7, <1>9, <1>16, <3>1, <4>2
      <4> QED
        BY <4>1, <4>2
    <3> QED
      BY <3>1, <3>2 DEF Names
  <2>2. Names(intent', w, Latest + 1)
    BY <1>4, <1>7, <1>9 DEF Names, w
  <2>3. ASSUME NEW r \in 1 .. (Latest + 1), history'[r].op # None
        PROVE  Names(intent', history'[r].op, r)
    <3>1. CASE r \in 1 .. Latest
      <4>1. history'[r] = history[r]
        BY <1>3, <1>8, <3>1 DEF Extends
      <4> QED
        BY <2>1, <2>3, <3>1, <4>1 DEF IInv, Authored
    <3>2. CASE r = Latest + 1
      BY <1>8, <2>2, <3>2
    <3> QED
      BY <1>3, <3>1, <3>2
  <2> QED
    BY <1>8, <2>3 DEF Authored
<1>13. ASSUME NEW d \in Clients
       PROVE  IntentsFit(history', intent'[d]) /\ Client(d)'
  <2>1. CASE d # c
    <3>1. \A p \in Parts : \A v : New(history, d, p, v) => text[p] # v
      BY <1>2, <1>3, <2>1 DEF New, Since, Content
    <3>2. Stays(history', history, d)
      BY <1>1, <1>6, <1>15, <3>1, StaysIf
    <3> QED
      BY <1>8, <1>9, <1>16, <2>1, <3>2, OthersGrow DEF limits
  <2>2. CASE d = c
    <3>1. \A p \in Parts : \A v : New(history, c, p, v) /\ v # text[p] => New(history', c, p, v)
      <4>1. \A r \in DOMAIN history' : (r \in DOMAIN history /\ history'[r] = history[r])
                                       \/ history'[r].text = text
        <5>1. DOMAIN history' = 1 .. (Latest + 1) /\ \A r \in 1 .. Latest : history'[r] = history[r]
          BY <1>3, <1>8 DEF Extends
        <5>2. \A r \in 1 .. (Latest + 1) : r \in 1 .. Latest \/ r = Latest + 1
          BY <1>3
        <5> QED
          BY <1>3, <1>8, <5>1, <5>2
      <4> QED
        BY <4>1 DEF New
    <3>2. Settles(history', J, history, I, c, o)
      BY <1>1, <1>4, <1>7, <1>16, <3>1 DEF Settles, Settled, text
    <3>3. ClientFits(history', J, edits, managed, c, ckpt[c], late[c], mem[c], task[c])
      BY <1>8, <3>2, ClientSettles DEF IInv, Client
    <3>4. IntentsFit(history', J)
      <4>1. IntentsFit(history', I)
        BY <1>8, IntentsGrow DEF IInv
      <4>2. IntentFits(history', i)
        BY <1>3, <1>4, <1>8 DEF IntentFits, Settled, Extends
      <4> QED
        BY <1>7, <4>1, <4>2 DEF IntentsFit
    <3> QED
      BY <1>9, <1>16, <2>2, <3>3, <3>4 DEF Client, limits
  <2> QED
    BY <2>1, <2>2
<1>14. TypeOK'
  <2>1. intent' \in [Clients -> [Ops -> Intent \cup {None}]]
    BY <1>5, <1>7 DEF IInv, TypeOK
  <2> QED
    BY <1>3, <1>8, <1>16, <2>1 DEF IInv, TypeOK, limits, Revision, Writers
<1> QED
  BY <1>10, <1>11, <1>12, <1>13, <1>14, <1>16 DEF IInv, limits

LEMMA ApplyKeeps ==
  ASSUME IInv, NEW c \in Clients, NEW o \in Ops, Apply(c, o) PROVE IInv'
BY CommitKeeps, RejectKeeps DEF Apply, Applies, Commits, Receipt

-------------------------------------------------------------------------------
(* The user types.                                                         *)

LEMMA KnownGrows ==
  ASSUME IInv, NEW c \in Clients, edits[c] < MaxEdits,
         edits' = [edits EXCEPT ![c] = @ + 1], NEW text \in Text, Known(edits, text)
  PROVE  Known(edits', text)
<1>1. \A d \in Clients : edits[d] \in Nat /\ edits'[d] \in Nat /\ edits[d] <= edits'[d]
  BY ConstantsAssumption DEF IInv, TypeOK
<1>2. \A p \in Parts : text[p].n \in Nat
  BY DEF Text, Part
<1> QED
  BY <1>1, <1>2 DEF Known

LEMMA StateSoundGrows ==
  ASSUME IInv, NEW c \in Clients, edits[c] < MaxEdits,
         edits' = [edits EXCEPT ![c] = @ + 1], NEW s \in State,
         StateSound(history, edits, managed, s)
  PROVE  StateSound(history, edits', managed, s)
<1>1. s.draft \in Text /\ (s.op # None => s.op.content \in Text /\ s.op.request \in Text)
  BY DEF State, Operation
<1> QED
  BY <1>1, KnownGrows DEF StateSound, OpSound

LEMMA SessionSoundGrows ==
  ASSUME IInv, NEW c \in Clients, edits[c] < MaxEdits,
         edits' = [edits EXCEPT ![c] = @ + 1], NEW k, NEW l, NEW m, NEW t, Typed(k, l, m, t),
         Sound(history, edits, managed, k, l, m, t)
  PROVE  Sound(history, edits', managed, k, l, m, t)
<1>1. t.adopted # None => t.adopted \in State
  BY DEF Typed, Task
<1>2. t.submitted # None => t.submitted \in Text
  BY DEF Typed, Task
<1>3. m # None => m.state \in State /\ m.uncertain \in State \cup {None}
  BY DEF Typed, Session
<1>4. k # None => k \in State
  BY DEF Typed
<1>5. l # None => l \in State
  BY DEF Typed
<1> QED
  BY <1>1, <1>2, <1>3, <1>4, <1>5, StateSoundGrows, KnownGrows DEF Sound

(* The draft that was typed into.                                          *)
TypedInto(s, p, part) == [s EXCEPT !.draft = [s.draft EXCEPT ![p] = part]]

LEMMA TypedFits ==
  ASSUME IInv, NEW c \in Clients, NEW p \in Parts, NEW s \in State, NEW part \in Part,
         part.by = c, part.n = edits[c] + 1, StateSound(history, edits, managed, s)
  PROVE  LET new == TypedInto(s, p, part) IN
         /\ new \in State /\ new.op = s.op /\ new.conflict = s.conflict
         /\ StateFits(history, intent[c], c, s) => StateFits(history, intent[c], c, new)
         /\ new.base = s.base
         /\ new.draft \in Text /\ new.draft[p] = part
         /\ \A q \in Parts : q # p => new.draft[q] = s.draft[q]
<1> DEFINE new == TypedInto(s, p, part)
<1>1. s.draft \in Text
  BY DEF State
<1>2. /\ new \in State /\ new.op = s.op /\ new.conflict = s.conflict /\ new.base = s.base
      /\ new.draft = [s.draft EXCEPT ![p] = part] /\ new.draft \in Text
  BY <1>1 DEF State, Text, TypedInto
<1> HIDE DEF new
<1>3. new.draft[p] = part /\ \A q \in Parts : q # p => new.draft[q] = s.draft[q]
  BY <1>1, <1>2 DEF Text
<1>4. edits[c] \in Nat
  BY DEF IInv, TypeOK
<1>5. New(history, c, p, part)
  <2>1. \A r \in DOMAIN history : Known(edits, history[r].text) /\ history[r].text \in Text
    BY Revisions
  <2>2. \A r \in DOMAIN history : history[r].text[p].n \in Nat
    BY <2>1 DEF Text, Part
  <2> QED
    BY <1>4, <2>1, <2>2 DEF New, Known
<1>6. ASSUME StateFits(history, intent[c], c, s)
      PROVE  StateFits(history, intent[c], c, new)
  <2>1. s.op # None => part # s.op.request[p]
    <3>1. SUFFICES ASSUME s.op # None
                   PROVE  part # s.op.request[p]
      OBVIOUS
    <3>2. Known(edits, s.op.request) /\ s.op.request \in Text
      BY <3>1 DEF StateSound, OpSound, State, Operation
    <3>3. s.op.request[p].n \in Nat
      BY <3>2 DEF Text, Part
    <3> QED
      BY <1>4, <3>2, <3>3 DEF Known
  <2>2. DraftFits(history, c, new)
    BY <1>2, <1>3, <1>5, <1>6, <2>1 DEF StateFits, DraftFits, Since
  <2> QED
    BY <1>2, <1>6, <2>2 DEF StateFits
<1> QED
  BY <1>2, <1>3, <1>6 DEF new

LEMMA TypeKeeps == ASSUME IInv, NEW c \in Clients, NEW p \in Parts, Type(c, p) PROVE IInv'
<1> DEFINE m == mem[c]
           part == [by |-> c, n |-> edits[c] + 1]
           s == TypedInto(m.state, p, part)
           n == [m EXCEPT !.state = s]
<1>1. /\ IsOpen(c) /\ m \in Session /\ m.state \in State
      /\ TaskFits(history, intent[c], managed, ckpt[c], late[c], m, task[c])
      /\ Sound(history, edits, managed, ckpt[c], late[c], m, task[c])
      /\ Fits(history, intent[c], c, ckpt[c], late[c], m)
  BY OpenSession DEF Type
<1>2. /\ edits[c] < MaxEdits /\ edits' = [edits EXCEPT ![c] = @ + 1]
      /\ UNCHANGED <<history, intent, ckpt, late, task, copies, crashes, faults, managed>>
      /\ mem' = [mem EXCEPT ![c].state.draft[p] = part]
  BY DEF Type, hostVars, limits
<1>3. /\ edits[c] \in Nat /\ edits' \in [Clients -> 0 .. MaxEdits]
      /\ edits'[c] = edits[c] + 1
  BY <1>2, ConstantsAssumption DEF IInv, TypeOK
<1>4. part \in Part /\ part.by = c /\ part.n = edits[c] + 1
  BY <1>3 DEF Part
<1>5. mem' = [mem EXCEPT ![c] = n]
  BY <1>1, <1>2 DEF Session, State, IInv, TypeOK, TypedInto
<1> HIDE DEF part
<1>6. StateSound(history, edits, managed, m.state)
  BY <1>1 DEF Sound, IsOpen
<1>7. /\ s \in State /\ s.op = m.state.op /\ s.conflict = m.state.conflict
      /\ StateFits(history, intent[c], c, m.state) => StateFits(history, intent[c], c, s)
      /\ s.base = m.state.base /\ s.draft \in Text /\ s.draft[p] = part
      /\ \A q \in Parts : q # p => s.draft[q] = m.state.draft[q]
  BY <1>1, <1>4, <1>6, TypedFits
<1> HIDE DEF s
<1>8. /\ n \in Session /\ n.state = s /\ n.uncertain = m.uncertain
      /\ n.holds = m.holds /\ n.landed = m.landed /\ n # None
  BY <1>1, <1>7, NoneAssumption DEF Session
<1> HIDE DEF n
<1>9. /\ mem'[c] = n /\ \A d \in Clients : d # c => mem'[d] = mem[d]
      /\ mem' \in [Clients -> Session \cup {None}]
  BY <1>5, <1>8 DEF IInv, TypeOK
<1>10. StateSound(history, edits', managed, s)
  <2>1. StateSound(history, edits', managed, m.state)
    BY <1>1, <1>2, <1>6, StateSoundGrows
  <2>2. Known(edits', s.draft)
    <3>1. Known(edits', m.state.draft)
      BY <2>1 DEF StateSound
    <3> QED
      BY <1>3, <1>4, <1>7, <3>1 DEF Known
  <2> QED
    BY <1>7, <2>1, <2>2 DEF StateSound
<1>11. Client(c)'
  <2>1. Typed(ckpt[c], late[c], m, task[c]) /\ Typed(ckpt[c], late[c], n, task[c])
    BY <1>8 DEF IInv, Client, ClientFits, Typed
  <2>2. Sound(history, edits', managed, ckpt[c], late[c], m, task[c])
    BY <1>1, <1>2, <2>1, SessionSoundGrows
  <2>3. Sound(history, edits', managed, ckpt[c], late[c], n, task[c])
    BY <1>1, <1>8, <1>10, <2>2 DEF Sound, IsOpen
  <2>4. Fits(history, intent[c], c, ckpt[c], late[c], n)
    BY <1>1, <1>7, <1>8 DEF Fits, IsOpen
  <2>5. TaskFits(history, intent[c], managed, ckpt[c], late[c], n, task[c])
    BY <1>1, <1>7, <1>8 DEF TaskFits
  <2>6. ClientFits(history, intent[c], edits', managed, c, ckpt[c], late[c], n, task[c])
    BY <1>8, <2>1, <2>3, <2>4, <2>5 DEF ClientFits
  <2> QED
    BY <1>2, <1>9, <2>6 DEF Client
<1>12. ASSUME NEW d \in Clients, d # c
       PROVE  Client(d)'
  <2>1. ClientFits(history, intent[d], edits, managed, d, ckpt[d], late[d], mem[d], task[d])
    BY DEF IInv, Client
  <2>2. Sound(history, edits', managed, ckpt[d], late[d], mem[d], task[d])
    BY <1>2, <2>1, SessionSoundGrows DEF ClientFits
  <2>3. ClientFits(history, intent[d], edits', managed, d, ckpt[d], late[d], mem[d], task[d])
    BY <2>1, <2>2 DEF ClientFits
  <2> QED
    BY <1>2, <1>9, <1>12, <2>3 DEF Client
<1>13. HistoryFits(history, edits', managed)
  <2>1. \A r \in 1 .. Len(history) : Known(edits', history[r].text)
    <3>1. \A r \in 1 .. Latest : history[r].text \in Text /\ Known(edits, history[r].text)
      BY Revisions
    <3> QED
      BY <1>2, <3>1, KnownGrows DEF Latest
  <2> QED
    BY <2>1 DEF IInv, HistoryFits
<1>14. TypeOK'
  BY <1>2, <1>3, <1>9 DEF IInv, TypeOK, Latest
<1>15. Authored' /\ NoSilentRevert' /\ \A d \in Clients : IntentsFit(history, intent[d])'
  BY <1>2 DEF IInv, Authored, NoSilentRevert, Latest
<1> QED
  BY <1>2, <1>11, <1>12, <1>13, <1>14, <1>15 DEF IInv

-------------------------------------------------------------------------------
(* The invariant.                                                          *)

LEMMA InitKeeps == Init => IInv
<1> SUFFICES ASSUME Init PROVE IInv
  OBVIOUS
<1> DEFINE text == [p \in Parts |-> [by |-> World, n |-> 0]]
<1>1. history = <<[text |-> text, op |-> None]>>
  BY DEF Init
<1>2. text \in Text /\ \A p \in Parts : text[p].by = World /\ text[p].n = 0
  BY DEF Text, Part
<1> HIDE DEF text
<1>3. /\ Latest = 1 /\ Len(history) = 1 /\ DOMAIN history = {1}
      /\ history[1].text = text /\ history[1].op = None
      /\ history \in Seq([text : Text, op : (Clients \X Ops) \cup {None}])
  BY <1>1, <1>2 DEF Latest
<1>4. Worldly(history) = {1} /\ Cardinality(Worldly(history)) = 1
  <2>1. Worldly(history) = {1}
    BY <1>3 DEF Worldly
  <2> QED
    BY <2>1, FS_Singleton
<1>5. TypeOK
  BY <1>3, IdleTask, ConstantsAssumption DEF Init, TypeOK
<1>6. HistoryFits(history, edits, managed)
  <2>1. Known(edits, text)
    BY <1>2, ConstantsAssumption DEF Known
  <2> QED
    BY <1>2, <1>3, <1>4, <2>1 DEF HistoryFits, Parts
<1>7. Authored /\ NoSilentRevert
  BY <1>3 DEF Authored, NoSilentRevert
<1>8. ASSUME NEW c \in Clients
      PROVE  IntentsFit(history, intent[c]) /\ Client(c)
  <2>1. /\ intent[c] = [o \in Ops |-> None] /\ ckpt[c] = None /\ late[c] = None
        /\ mem[c] = None /\ task[c] = Idle
    BY DEF Init
  <2>2. IntentsFit(history, intent[c]) /\ HeadFits(intent[c], None)
    BY <2>1 DEF IntentsFit, HeadFits
  <2> QED
    BY <2>1, <2>2, IdleTask DEF Client, ClientFits, Typed, Sound, Fits
<1> QED
  BY <1>5, <1>6, <1>7, <1>8 DEF IInv

LEMMA StutterKeeps == IInv /\ UNCHANGED vars => IInv'
<1> SUFFICES ASSUME IInv, UNCHANGED vars PROVE IInv'
  OBVIOUS
<1>1. /\ history' = history /\ intent' = intent /\ ckpt' = ckpt /\ late' = late
      /\ mem' = mem /\ task' = task /\ copies' = copies /\ edits' = edits
      /\ crashes' = crashes /\ faults' = faults /\ managed' = managed
  BY DEF vars, limits
<1>2. TypeOK' /\ Authored' /\ NoSilentRevert' /\ Latest' = Latest
  BY <1>1 DEF IInv, TypeOK, Authored, NoSilentRevert, Latest
<1>3. \A c \in Clients : IntentsFit(history, intent[c])' /\ Client(c)'
  BY <1>1 DEF IInv, Client
<1> QED
  BY <1>1, <1>2, <1>3 DEF IInv

LEMMA NextKeeps == IInv /\ [Next]_vars => IInv'
<1> SUFFICES ASSUME IInv, Next PROVE IInv'
  BY StutterKeeps
<1>1. ASSUME NEW c \in Clients, Runs(c)
      PROVE  IInv'
  BY <1>1, PersistKeeps, CompareAndSwapKeeps, SwappedKeeps, ResumeKeeps,
     PrepareIntentKeeps, PreparedKeeps, QueryKeeps, RequestCommitKeeps, ApplyKeeps,
     CommittedKeeps, ReconcileKeeps, AcknowledgeIntentKeeps, AcknowledgedKeeps,
     FlushOperationKeeps, FlushedKeeps, PlanKeeps, OpenedKeeps, ReloadedKeeps,
     RefreshedKeeps, CopyKeeps, AdoptKeeps, CopiedKeeps DEF Runs
<1>2. ASSUME NEW c \in Clients, Calls(c)
      PROVE  IInv'
  BY <1>2, TypeKeeps, CheckpointKeeps, FlushKeeps, LoadKeeps, ReloadKeeps,
     RefreshManagedProjectionKeeps, SaveRecoveryCopyKeeps DEF Calls
<1>3. ASSUME NEW c \in Clients, LateSwap(c) \/ Fail(c) \/ Crash(c)
      PROVE  IInv'
  BY <1>3, LateSwapKeeps, FailKeeps, CrashKeeps
<1> QED
  BY <1>1, <1>2, <1>3, AdvanceKeeps DEF Next

(* The invariant holds whatever the clients, the host and the world do.    *)
THEOREM Invariance == Spec => []IInv
<1>1. Init => IInv
  BY InitKeeps
<1>2. IInv /\ [Next]_vars => IInv'
  BY NextKeeps
<1> QED
  BY <1>1, <1>2, PTL DEF Spec

(* Every variable keeps the shape that the code gives it, and a session a  *)
(* step of the queue it runs.                                              *)
THEOREM TypeCorrect == Spec => []TypeOK
<1>1. IInv => TypeOK
  BY DEF IInv
<1> QED
  BY <1>1, Invariance, PTL

(* No intent is acknowledged that its client's checkpoint does not retain, *)
(* whatever sessions die in between (durable-writes.ts).                   *)
THEOREM CheckpointsComeFirst == Spec => []IntentsAreCheckpointed
<1>1. ASSUME IInv
      PROVE  IntentsAreCheckpointed
  <2>1. SUFFICES ASSUME NEW c \in Clients, NEW o \in Ops, intent[c][o] # None
                 PROVE  LET i == intent[c][o]
                            Kept == ckpt[c] # None /\ ckpt[c].op # None /\ ckpt[c].op.id = o
                        IN /\ ~i.acked => Kept /\ ckpt[c].op.request = i.request
                           /\ ~i.acked /\ i.state # "prepared" => ckpt[c].op.ref
                           /\ i.acked /\ Kept => ckpt[c].op.ack = i.state
    BY DEF IntentsAreCheckpointed
  <2>2. Fits(history, intent[c], c, ckpt[c], late[c], mem[c])
    BY <1>1 DEF IInv, Client, ClientFits
  <2>3. CASE ckpt[c] = None
    BY <2>1, <2>2, <2>3 DEF Fits, HeadFits
  <2>4. CASE ckpt[c] # None
    <3>1. HeadFits(intent[c], ckpt[c].op)
      BY <2>2, <2>4 DEF Fits, StateFits
    <3> QED
      BY <2>1, <2>4, <3>1 DEF HeadFits, OpFits
  <2> QED
    BY <2>3, <2>4
<1>2. IInv => IntentsAreCheckpointed
  BY <1>1
<1> QED
  BY <1>2, Invariance, PTL

(* A save changes the note only by what its client typed: no operation     *)
(* writes twice, and no part that somebody replaced comes back.            *)
THEOREM NothingIsReverted == Spec => []NoSilentRevert
<1>1. IInv => NoSilentRevert
  BY DEF IInv
<1> QED
  BY <1>1, Invariance, PTL

-------------------------------------------------------------------------------
(* What a client typed.                                                    *)

(* What client c typed in old is in t or typed over there.                 *)
Covers(c, old, t) ==
  \A p \in Parts : old[p].by = c => t[p].by = c /\ t[p].n >= old[p].n
(* It is in one of the texts S that nobody can lose any more.              *)
Kept(S, c, old) == \E t \in S : Covers(c, old, t)
KeptIn(S, c, old, new) == Covers(c, old, new) \/ Kept(S, c, old)
SavedTexts == copies \cup {history[r].text : r \in DOMAIN history}

(* Of one client: the next checkpoint, wherever it comes from, keeps what  *)
(* the present one holds, and the draft keeps both.  Once a recovery copy  *)
(* is made both are saved, and the draft too unless the user typed on.  S  *)
(* is the saved texts, C the copies and e the edits.                       *)
Replaces(S, C, e, c, k, m, t) ==
  /\ e = t.gen => m.state.draft \in C
  /\ m.holds => /\ k # None => Kept(S, c, k.draft)
                /\ m.uncertain # None => Kept(S, c, m.uncertain.draft)
Follows(S, c, k, m) ==
  /\ k # None => KeptIn(S, c, k.draft, m.state.draft)
  /\ m.uncertain # None =>
       /\ KeptIn(S, c, m.uncertain.draft, m.state.draft)
       /\ k # None => KeptIn(S, c, k.draft, m.uncertain.draft)
Remains(S, C, e, c, k, l, m, t) ==
  /\ l # None /\ k # None => KeptIn(S, c, k.draft, l.draft)
  /\ m # None => /\ t.gen <= e
                 /\ m.holds => Follows(S, c, k, m)
                 /\ t.at = "adopt" \/ t.adopted # None => Replaces(S, C, e, c, k, m, t)

Bound(c) ==
  Remains(SavedTexts, copies, edits[c], c, ckpt[c], late[c], mem[c], task[c])
DraftsKept == \A c \in Clients : Bound(c)

(* The step loses nothing of client c.                                     *)
Survives(S, c, k, m, k2, m2) ==
  /\ m # None /\ m2 # None => KeptIn(S, c, m.state.draft, m2.state.draft)
  /\ k # None => k2 # None /\ KeptIn(S, c, k.draft, k2.draft)
  /\ k # None /\ m = None /\ m2 # None => KeptIn(S, c, k.draft, m2.state.draft)
Lossless(c) == Survives(SavedTexts', c, ckpt[c], mem[c], ckpt'[c], mem'[c])
Lasting == DraftsKept' /\ \A c \in Clients : Lossless(c)

LEMMA CoversSame == ASSUME NEW c, NEW text \in Text PROVE Covers(c, text, text)
BY DEF Covers, Text, Part

LEMMA CoversMore ==
  ASSUME NEW c, NEW a \in Text, NEW b \in Text, NEW t \in Text,
         Covers(c, a, b), Covers(c, b, t)
  PROVE  Covers(c, a, t)
<1>1. SUFFICES ASSUME NEW p \in Parts, a[p].by = c
               PROVE  t[p].by = c /\ t[p].n >= a[p].n
  BY DEF Covers
<1>2. a[p].n \in Nat /\ b[p].n \in Nat /\ t[p].n \in Nat
  BY DEF Text, Part
<1> QED
  BY <1>1, <1>2 DEF Covers

LEMMA KeptMore ==
  ASSUME NEW S \in SUBSET Text, NEW c, NEW a \in Text, NEW b \in Text, NEW t \in Text,
         KeptIn(S, c, a, b), KeptIn(S, c, b, t)
  PROVE  KeptIn(S, c, a, t)
<1>1. CASE Kept(S, c, a)
  BY <1>1 DEF KeptIn
<1>2. CASE Covers(c, a, b) /\ Covers(c, b, t)
  BY <1>2, CoversMore DEF KeptIn
<1>3. CASE Covers(c, a, b) /\ Kept(S, c, b)
  BY <1>3, CoversMore DEF KeptIn, Kept
<1> QED
  BY <1>1, <1>2, <1>3 DEF KeptIn

(* A text that is saved keeps what is kept in it.                          *)
LEMMA KeptNow ==
  ASSUME NEW S, NEW c, NEW a, NEW t \in S, KeptIn(S, c, a, t)
  PROVE  Kept(S, c, a)
BY DEF KeptIn, Kept

LEMMA KeptGrows ==
  ASSUME NEW S, NEW T, S \subseteq T, NEW c, NEW a
  PROVE  /\ Kept(S, c, a) => Kept(T, c, a)
         /\ \A b : KeptIn(S, c, a, b) => KeptIn(T, c, a, b)
BY DEF KeptIn, Kept

LEMMA RemainsGrows ==
  ASSUME NEW S, NEW T, S \subseteq T, NEW C, NEW D, C \subseteq D, NEW e, NEW c, NEW k,
         NEW l, NEW m, NEW t, Remains(S, C, e, c, k, l, m, t)
  PROVE  Remains(T, D, e, c, k, l, m, t)
<1>1. \A a : Kept(S, c, a) => Kept(T, c, a)
  BY KeptGrows
<1>2. \A a, b : KeptIn(S, c, a, b) => KeptIn(T, c, a, b)
  BY KeptGrows
<1> QED
  BY <1>1, <1>2 DEF Remains, Replaces, Follows

(* The texts of a client.                                                  *)
LEMMA Drafts ==
  ASSUME IInv, NEW c \in Clients
  PROVE  /\ ckpt[c] # None => ckpt[c].draft \in Text
         /\ late[c] # None => late[c].draft \in Text
         /\ mem[c] # None => /\ mem[c] \in Session /\ mem[c].state.draft \in Text
                             /\ mem[c].uncertain # None => mem[c].uncertain.draft \in Text
         /\ SavedTexts \subseteq Text /\ edits[c] \in Nat
<1>1. Typed(ckpt[c], late[c], mem[c], task[c])
  BY DEF IInv, Client, ClientFits
<1>2. mem[c] # None => /\ mem[c] \in Session /\ mem[c].state \in State
                       /\ mem[c].uncertain \in State \cup {None}
  BY <1>1 DEF Typed, Session
<1>3. SavedTexts \subseteq Text
  BY Revisions DEF SavedTexts, IInv, TypeOK
<1>4. edits[c] \in Nat
  BY DEF IInv, TypeOK
<1> QED
  BY <1>1, <1>2, <1>3, <1>4 DEF Typed, State

(* Saved texts stay saved.                                                 *)
LEMMA SavedGrow ==
  ASSUME copies \subseteq copies', DOMAIN history \subseteq DOMAIN history',
         \A r \in DOMAIN history : history'[r].text = history[r].text
  PROVE  SavedTexts \subseteq SavedTexts'
BY DEF SavedTexts

(* A step of one client.                                                   *)
Apart(c) ==
  \A d \in Clients : d # c => /\ ckpt'[d] = ckpt[d] /\ late'[d] = late[d]
                              /\ mem'[d] = mem[d] /\ task'[d] = task[d]
                              /\ edits'[d] = edits[d]

LEMMA ApartKeeps ==
  ASSUME IInv, DraftsKept, NEW c \in Clients, Apart(c), Bound(c)', Lossless(c),
         copies \subseteq copies', SavedTexts \subseteq SavedTexts'
  PROVE  Lasting
<1>1. ASSUME NEW d \in Clients, d # c
      PROVE  Bound(d)' /\ Lossless(d)
  <2>1. /\ ckpt'[d] = ckpt[d] /\ late'[d] = late[d] /\ mem'[d] = mem[d]
        /\ task'[d] = task[d] /\ edits'[d] = edits[d]
    BY <1>1 DEF Apart
  <2>2. Remains(SavedTexts', copies', edits[d], d, ckpt[d], late[d], mem[d], task[d])
    BY RemainsGrows DEF DraftsKept, Bound
  <2>3. Bound(d)'
    BY <2>1, <2>2 DEF Bound
  <2>4. Lossless(d)
    BY <2>1, Drafts, CoversSame DEF Lossless, Survives, KeptIn
  <2> QED
    BY <2>3, <2>4
<1> QED
  BY <1>1 DEF Lasting, DraftsKept

(* What changes neither checkpoints nor sessions.                          *)
LEMMA WorldKeeps ==
  ASSUME IInv, DraftsKept, SavedTexts \subseteq SavedTexts', copies \subseteq copies',
         UNCHANGED <<ckpt, late, mem, task, edits>>
  PROVE  Lasting
<1>1. ASSUME NEW d \in Clients
      PROVE  Bound(d)' /\ Lossless(d)
  <2>1. Remains(SavedTexts', copies', edits[d], d, ckpt[d], late[d], mem[d], task[d])
    BY RemainsGrows DEF DraftsKept, Bound
  <2>2. Bound(d)'
    BY <2>1 DEF Bound
  <2>3. Lossless(d)
    BY Drafts, CoversSame DEF Lossless, Survives, KeptIn
  <2> QED
    BY <2>2, <2>3
<1> QED
  BY <1>1 DEF Lasting, DraftsKept

-------------------------------------------------------------------------------
(* Steps that go on with the same note, or close it.                       *)

(* The task is not in the middle of a recovery copy.                       *)
Calm(e, t) == t.at # "adopt" /\ t.adopted = None /\ t.gen <= e

LEMMA CalmTasks ==
  ASSUME IInv, DraftsKept, NEW c \in Clients, IsOpen(c), task[c].adopted = None,
         NEW step \in Steps,
         \/ Goto(c, step) /\ step # "adopt"
         \/ SaveThen(c, step)
         \/ ResumeThen(c, step)
         \/ task' = [task EXCEPT ![c] = Idle]
         \/ task' = [task EXCEPT ![c] = [Idle EXCEPT !.at = "save"]]
         \/ task' = [task EXCEPT ![c].at = "refresh", ![c].submitted = mem[c].state.draft]
  PROVE  \E new : task' = [task EXCEPT ![c] = new] /\ Calm(edits[c], new)
<1>1. task[c] \in Task /\ task[c].gen <= edits[c] /\ edits[c] \in Nat
  BY OpenSession, Drafts DEF DraftsKept, Bound, Remains, IsOpen
<1>2. task \in [Clients -> Task]
  BY DEF IInv, TypeOK
<1>3. CASE Goto(c, step) /\ step # "adopt"
  <2>1. Calm(edits[c], [task[c] EXCEPT !.at = step])
    BY <1>1, <1>3 DEF Calm, Task
  <2> QED
    BY <1>3, <2>1 DEF Goto
<1>4. CASE SaveThen(c, step)
  <2>1. Calm(edits[c], [task[c] EXCEPT !.at = "save", !.then = step])
    BY <1>1 DEF Calm, Task
  <2>2. task' = [task EXCEPT ![c] = [task[c] EXCEPT !.at = "save", !.then = step]]
    BY <1>2, <1>4 DEF SaveThen
  <2> QED
    BY <2>1, <2>2
<1>5. CASE ResumeThen(c, step)
  <2>1. Calm(edits[c], Resuming(step))
    BY <1>1 DEF Calm, Resuming, Idle
  <2> QED
    BY <1>5, <2>1 DEF ResumeThen, Resuming
<1>6. Calm(edits[c], Idle) /\ Calm(edits[c], [Idle EXCEPT !.at = "save"])
  BY <1>1 DEF Calm, Idle
<1>7. CASE task' = [task EXCEPT ![c].at = "refresh", ![c].submitted = mem[c].state.draft]
  <2> DEFINE new == [task[c] EXCEPT !.at = "refresh", !.submitted = mem[c].state.draft]
  <2>1. Calm(edits[c], new)
    BY <1>1 DEF Calm, Task
  <2>2. task' = [task EXCEPT ![c] = new]
    BY <1>2, <1>7
  <2> QED
    BY <2>1, <2>2
<1> QED
  BY <1>3, <1>4, <1>5, <1>6, <1>7

(* The session goes on with a draft that keeps the one before.             *)
LEMMA CalmStep ==
  ASSUME IInv, DraftsKept, NEW c \in Clients, IsOpen(c),
         NEW s, s.draft \in Text, KeptIn(SavedTexts, c, mem[c].state.draft, s.draft),
         mem' = [mem EXCEPT ![c].state = s], NEW new, Calm(edits[c], new),
         task' = [task EXCEPT ![c] = new], UNCHANGED <<history, ckpt, late, edits, copies>>
  PROVE  Lasting
<1>1. /\ mem[c] \in Session /\ mem[c].state.draft \in Text /\ mem[c] # None
      /\ mem[c].uncertain # None => mem[c].uncertain.draft \in Text
      /\ ckpt[c] # None => ckpt[c].draft \in Text
      /\ SavedTexts \in SUBSET Text
  BY Drafts DEF IsOpen
<1>2. /\ mem'[c].state = s /\ mem'[c].holds = mem[c].holds
      /\ mem'[c].uncertain = mem[c].uncertain /\ task'[c] = new
      /\ \A d \in Clients : d # c => mem'[d] = mem[d] /\ task'[d] = task[d]
  BY <1>1 DEF Session, IInv, TypeOK
<1>3. SavedTexts' = SavedTexts
  BY DEF SavedTexts
<1>4. Apart(c)
  BY <1>2 DEF Apart
<1>5. Remains(SavedTexts, copies, edits[c], c, ckpt[c], late[c], mem[c], task[c])
  BY DEF DraftsKept, Bound
<1>6. mem[c].holds => Follows(SavedTexts, c, ckpt[c], mem'[c])
  BY <1>1, <1>2, <1>5, KeptMore DEF Remains, Follows
<1>7. Bound(c)'
  BY <1>1, <1>2, <1>3, <1>5, <1>6 DEF Bound, Remains, Calm
<1>8. Lossless(c)
  BY <1>1, <1>2, <1>3, CoversSame DEF Lossless, Survives, KeptIn
<1> QED
  BY <1>3, <1>4, <1>7, <1>8, ApartKeeps

(* The draft is as it was.                                                 *)
LEMMA SameDraft ==
  ASSUME IInv, DraftsKept, NEW c \in Clients, IsOpen(c), task[c].adopted = None,
         NEW step \in Steps,
         \/ Goto(c, step) /\ step # "adopt"
         \/ SaveThen(c, step)
         \/ ResumeThen(c, step)
         \/ task' = [task EXCEPT ![c] = Idle]
         \/ task' = [task EXCEPT ![c] = [Idle EXCEPT !.at = "save"]]
         \/ task' = [task EXCEPT ![c].at = "refresh", ![c].submitted = mem[c].state.draft],
         \/ UNCHANGED mem
         \/ \E s : mem' = [mem EXCEPT ![c].state = s] /\ s.draft = mem[c].state.draft,
         UNCHANGED <<history, ckpt, late, edits, copies>>
  PROVE  Lasting
<1>1. PICK new : task' = [task EXCEPT ![c] = new] /\ Calm(edits[c], new)
  BY CalmTasks
<1>2. mem[c] \in Session /\ mem[c].state.draft \in Text
  BY Drafts DEF IsOpen
<1>3. PICK s : mem' = [mem EXCEPT ![c].state = s] /\ s.draft = mem[c].state.draft
  <2>1. CASE UNCHANGED mem
    <3>1. mem[c] = [mem[c] EXCEPT !.state = mem[c].state]
      BY <1>2 DEF Session
    <3>2. mem = [mem EXCEPT ![c].state = mem[c].state]
      BY <3>1 DEF IInv, TypeOK
    <3> QED
      BY <2>1, <3>2
  <2> QED
    BY <2>1
<1>4. KeptIn(SavedTexts, c, mem[c].state.draft, s.draft)
  BY <1>2, <1>3, CoversSame DEF KeptIn
<1> QED
  BY <1>1, <1>2, <1>3, <1>4, CalmStep

(* A task that throws.                                                     *)
LEMMA ThrowsLoses ==
  ASSUME IInv, DraftsKept, NEW c \in Clients, IsOpen(c), Throws(c),
         UNCHANGED <<history, ckpt, late, edits, copies>>
  PROVE  Lasting
<1>1. /\ Failed(mem[c], mem'[c]) /\ task'[c] = Idle
      /\ \A d \in Clients : d # c => mem'[d] = mem[d] /\ task'[d] = task[d]
  BY ThrownSession DEF IInv, TypeOK
<1>2. /\ mem[c].state.draft \in Text /\ mem[c] # None /\ edits[c] \in Nat
      /\ ckpt[c] # None => ckpt[c].draft \in Text
  BY Drafts DEF IsOpen
<1>3. SavedTexts' = SavedTexts /\ Apart(c)
  BY <1>1 DEF SavedTexts, Apart
<1>4. Remains(SavedTexts, copies, edits[c], c, ckpt[c], late[c], mem[c], task[c])
  BY DEF DraftsKept, Bound
<1>5. Bound(c)'
  BY <1>1, <1>2, <1>3, <1>4 DEF Bound, Remains, Follows, Idle, Failed
<1>6. Lossless(c)
  BY <1>1, <1>2, <1>3, CoversSame DEF Lossless, Survives, KeptIn, Failed
<1> QED
  BY <1>3, <1>5, <1>6, ApartKeeps

-------------------------------------------------------------------------------
(* The actions.                                                            *)

LEMMA HostLoses ==
  ASSUME IInv, DraftsKept, NEW c \in Clients,
         PrepareIntent(c) \/ RequestCommit(c) \/ AcknowledgeIntent(c)
  PROVE  Lasting
<1>1. UNCHANGED <<history, ckpt, late, mem, task, copies, edits>>
  BY DEF PrepareIntent, RequestCommit, AcknowledgeIntent
<1>2. SavedTexts' = SavedTexts
  BY <1>1 DEF SavedTexts
<1> QED
  BY <1>1, <1>2, WorldKeeps

LEMMA HistoryLoses ==
  ASSUME IInv, DraftsKept,
         (\E c \in Clients, o \in Ops : Apply(c, o)) \/ (\E p \in Parts : Advance(p))
  PROVE  Lasting
<1>1. UNCHANGED <<ckpt, late, mem, task, copies, edits>>
  BY DEF Apply, Advance
<1>2. history' = history \/ \E x : history' = Append(history, x)
  BY DEF Apply, Advance
<1>3. SavedTexts \subseteq SavedTexts'
  <2>1. history \in Seq([text : Text, op : (Clients \X Ops) \cup {None}])
    BY DEF IInv, TypeOK
  <2>2. /\ DOMAIN history \subseteq DOMAIN history'
        /\ \A r \in DOMAIN history : history'[r] = history[r]
    BY <1>2, <2>1
  <2> QED
    BY <1>1, <2>2, SavedGrow
<1> QED
  BY <1>1, <1>3, WorldKeeps

(* At a step that saves nothing and adopts nothing.                        *)
LEMMA AtWork ==
  ASSUME IInv, NEW c \in Clients, NEW step \in Steps, At(c, step),
         step \notin Saving \cup {"copied"}
  PROVE  IsOpen(c) /\ task[c].adopted = None /\ mem[c].state \in State
BY AtStep, OpenSession

LEMMA QuietLoses ==
  ASSUME IInv, DraftsKept, NEW c \in Clients,
         \/ Checkpoint(c) \/ Resume(c) \/ Committed(c) \/ Flush(c) \/ FlushOperation(c)
         \/ Opened(c) \/ Reload(c) \/ RefreshManagedProjection(c) \/ SaveRecoveryCopy(c)
  PROVE  Lasting
<1>1. PICK step \in Steps : At(c, step) /\ step \notin Saving \cup {"copied"}
  BY DEF Checkpoint, Resume, Committed, Flush, FlushOperation, Opened, Reload,
         RefreshManagedProjection, SaveRecoveryCopy, Steps, Saving
<1>2. IsOpen(c) /\ task[c].adopted = None
  BY <1>1, AtWork
<1>3. UNCHANGED <<history, ckpt, late, mem, edits, copies>>
  BY DEF Checkpoint, Resume, Committed, Flush, FlushOperation, Opened, Reload,
         RefreshManagedProjection, SaveRecoveryCopy, hostVars
<1>4. \/ \E next \in Steps : \/ Goto(c, next) /\ next # "adopt"
                             \/ SaveThen(c, next) \/ ResumeThen(c, next)
      \/ task' = [task EXCEPT ![c] = Idle]
      \/ task' = [task EXCEPT ![c].at = "refresh", ![c].submitted = mem[c].state.draft]
  <2>1. CASE Resume(c)
    BY <2>1 DEF Resume, Steps
  <2>2. CASE Checkpoint(c) \/ Committed(c) \/ Flush(c) \/ FlushOperation(c)
    BY <2>2 DEF Checkpoint, Committed, Flush, FlushOperation, Steps
  <2>3. CASE Opened(c) \/ Reload(c) \/ RefreshManagedProjection(c) \/ SaveRecoveryCopy(c)
    BY <2>3 DEF Opened, Reload, RefreshManagedProjection, SaveRecoveryCopy, Steps
  <2> QED
    BY <2>1, <2>2, <2>3
<1> QED
  BY <1>1, <1>2, <1>3, <1>4, SameDraft

LEMMA FailLoses == ASSUME IInv, DraftsKept, NEW c \in Clients, Fail(c) PROVE Lasting
BY ThrowsLoses DEF Fail, hostVars

LEMMA QueryLoses == ASSUME IInv, DraftsKept, NEW c \in Clients, Query(c) PROVE Lasting
<1>1. At(c, "query") /\ "query" \in Steps /\ "query" \notin Saving \cup {"copied"}
  BY DEF Query, Steps, Saving
<1>2. /\ UNCHANGED <<history, ckpt, late, edits, copies>>
      /\ \/ Throws(c)
         \/ \E next \in Steps \ {"adopt"} : Goto(c, next) /\ UNCHANGED mem
  BY DEF Query, hostVars, Steps
<1> QED
  BY <1>1, <1>2, AtWork, SameDraft, ThrowsLoses

LEMMA FlushedLoses == ASSUME IInv, DraftsKept, NEW c \in Clients, Flushed(c) PROVE Lasting
<1>1. At(c, "flushed") /\ "flushed" \in Steps /\ "flushed" \notin Saving \cup {"copied"}
  BY DEF Flushed, Steps, Saving
<1>2. /\ UNCHANGED <<history, ckpt, late, edits, copies>>
      /\ \/ Throws(c)
         \/ \E next \in Steps : /\ (Goto(c, next) /\ next # "adopt") \/ SaveThen(c, next)
                                /\ UNCHANGED mem
  BY DEF Flushed, hostVars, Steps
<1> QED
  BY <1>1, <1>2, AtWork, SameDraft, ThrowsLoses


(* A revision is saved.                                                    *)
LEMMA RevisionSaved ==
  ASSUME IInv, NEW rev \in 1 .. Latest
  PROVE  Content(rev) \in SavedTexts /\ Content(rev) \in Text
BY Revisions DEF SavedTexts, Content

(* canonicalDraft() keeps what is typed: the front that it may replace is  *)
(* generated.                                                              *)
LEMMA CanonicalKeeps ==
  ASSUME NEW c \in Clients, NEW sent \in Text, NEW canonical \in Text, NEW current \in Text,
         sent["body"] = canonical["body"], sent["front"].by = World,
         CanonicalDraft(sent, canonical, current) # None
  PROVE  /\ CanonicalDraft(sent, canonical, current) \in Text
         /\ Covers(c, current, CanonicalDraft(sent, canonical, current))
<1> DEFINE d == CanonicalDraft(sent, canonical, current)
<1>1. \/ current = sent /\ d = canonical
      \/ d = current
      \/ /\ sent["front"] = current["front"]
         /\ d = [current EXCEPT !["front"] = canonical["front"]]
  BY DEF CanonicalDraft
<1>2. d \in Text
  BY <1>1 DEF Text, Parts
<1>3. d["body"] = current["body"] /\ (current["front"].by = World \/ d = current)
  BY <1>1 DEF Text, Parts
<1>4. Covers(c, current, d)
  <2>1. current["body"].n \in Nat /\ c # World
    BY ConstantsAssumption DEF Text, Part, Parts
  <2>2. CASE d = current
    BY <2>2, CoversSame
  <2>3. CASE current["front"].by = World
    BY <1>3, <2>1, <2>3 DEF Covers, Parts
  <2> QED
    BY <1>3, <2>2, <2>3
<1> QED
  BY <1>2, <1>4

LEMMA PreparedLoses == ASSUME IInv, DraftsKept, NEW c \in Clients, Prepared(c) PROVE Lasting
<1> DEFINE s == [mem[c].state EXCEPT !.op.ref = TRUE]
<1>1. /\ At(c, "prepare") /\ "prepare" \in Steps /\ "query" \in Steps
      /\ "prepare" \notin Saving \cup {"copied"}
  BY DEF Prepared, Steps, Saving
<1>2. IsOpen(c) /\ task[c].adopted = None /\ mem[c].state \in State /\ mem[c] \in Session
  BY <1>1, AtWork, OpenSession
<1>3. s.draft = mem[c].state.draft
  BY <1>2 DEF State
<1>4. mem' = [mem EXCEPT ![c].state = s]
  <2>1. mem' = [mem EXCEPT ![c].state.op.ref = TRUE]
    BY DEF Prepared
  <2> QED
    BY <1>2, <2>1 DEF IInv, TypeOK
<1> HIDE DEF s
<1>5. SaveThen(c, "query") /\ UNCHANGED <<history, ckpt, late, edits, copies>>
  BY DEF Prepared, hostVars
<1> QED
  BY <1>1, <1>2, <1>3, <1>4, <1>5, SameDraft

LEMMA AcknowledgedLoses ==
  ASSUME IInv, DraftsKept, NEW c \in Clients, Acknowledged(c) PROVE Lasting
<1> DEFINE s == [mem[c].state EXCEPT !.op = None]
<1>1. /\ At(c, "ack") /\ "ack" \in Steps /\ "ack" \notin Saving \cup {"copied"}
  BY DEF Acknowledged, Steps, Saving
<1>2. IsOpen(c) /\ task[c].adopted = None /\ mem[c].state \in State /\ task[c].back \in Steps
  BY <1>1, AtWork, OpenSession DEF Task
<1>3. s.draft = mem[c].state.draft
  BY <1>2 DEF State
<1>4. /\ mem' = [mem EXCEPT ![c].state = s] /\ SaveThen(c, task[c].back)
      /\ UNCHANGED <<history, ckpt, late, edits, copies>>
  BY DEF Acknowledged, Sets, hostVars
<1> HIDE DEF s
<1> QED
  BY <1>2, <1>3, <1>4, SameDraft

LEMMA PlanLoses == ASSUME IInv, DraftsKept, NEW c \in Clients, Plan(c) PROVE Lasting
<1>1. /\ At(c, "plan") /\ "plan" \in Steps /\ "plan" \notin Saving \cup {"copied"}
  BY DEF Plan, Steps, Saving
<1>2. IsOpen(c) /\ task[c].adopted = None /\ mem[c].state \in State
  BY <1>1, AtWork
<1>3. PICK s : mem' = [mem EXCEPT ![c].state = s] /\ s.draft = mem[c].state.draft
  <2>1. \/ \E op : Sets(c, [mem[c].state EXCEPT !.op = op])
        \/ Sets(c, PlanRejected(mem[c].state))
    BY DEF Plan
  <2>2. PlanRejected(mem[c].state).draft = mem[c].state.draft
    BY <1>2 DEF PlanRejected, State
  <2>3. \A op : [mem[c].state EXCEPT !.op = op].draft = mem[c].state.draft
    BY <1>2 DEF State
  <2> QED
    BY <2>1, <2>2, <2>3 DEF Sets
<1>4. \E next \in Steps : ResumeThen(c, next) \/ SaveThen(c, next)
  BY DEF Plan, Steps
<1>5. UNCHANGED <<history, ckpt, late, edits, copies>>
  BY DEF Plan, hostVars
<1> QED
  BY <1>2, <1>3, <1>4, <1>5, SameDraft

(* Another draft, and what is done next.                                   *)
LEMMA NewDraft ==
  ASSUME IInv, DraftsKept, NEW c \in Clients, IsOpen(c), task[c].adopted = None,
         NEW s \in State, KeptIn(SavedTexts, c, mem[c].state.draft, s.draft),
         mem' = [mem EXCEPT ![c].state = s], NEW step \in Steps,
         SaveThen(c, step) \/ task' = [task EXCEPT ![c] = [Idle EXCEPT !.at = "save"]],
         UNCHANGED <<history, ckpt, late, edits, copies>>
  PROVE  Lasting
<1>1. PICK new : task' = [task EXCEPT ![c] = new] /\ Calm(edits[c], new)
  BY CalmTasks
<1>2. s.draft \in Text
  BY DEF State
<1> QED
  BY <1>1, <1>2, CalmStep

LEMMA ReloadedLoses == ASSUME IInv, DraftsKept, NEW c \in Clients, Reloaded(c) PROVE Lasting
<1> DEFINE old == mem[c].state
<1>1. /\ At(c, "reload") /\ "reload" \in Steps /\ "idle" \in Steps
      /\ "reload" \notin Saving \cup {"copied"}
  BY DEF Reloaded, Steps, Saving
<1>2. /\ IsOpen(c) /\ task[c].adopted = None /\ old \in State
      /\ StateSound(history, edits, managed, old)
  BY <1>1, AtWork, OpenSession DEF Sound, IsOpen
<1>3. SaveThen(c, "idle") /\ UNCHANGED <<history, ckpt, late, edits, copies>>
  BY DEF Reloaded, hostVars
<1>4. CASE /\ old.draft = Content(old.base)
           /\ Sets(c, [old EXCEPT !.base = Latest, !.draft = Content(Latest)])
  <2> DEFINE s == [old EXCEPT !.base = Latest, !.draft = Content(Latest)]
  <2>1. old.base \in 1 .. Latest /\ Latest \in Rev
    BY <1>2, Revisions DEF StateSound, State, Rev
  <2>2. Content(old.base) \in SavedTexts /\ Content(old.base) \in Text /\ Content(Latest) \in Text
    BY <2>1, RevisionSaved, Revisions
  <2>3. s \in State
    BY <1>2, <2>1, <2>2 DEF State
  <2>4. mem' = [mem EXCEPT ![c].state = s]
    BY <1>4 DEF Sets
  <2> HIDE DEF s
  <2>5. KeptIn(SavedTexts, c, old.draft, s.draft)
    BY <1>4, <2>2, CoversSame DEF KeptIn, Kept
  <2> QED
    BY <1>1, <1>2, <1>3, <2>3, <2>4, <2>5, NewDraft
<1>5. CASE Sets(c, [old EXCEPT !.conflict = @ \/ Latest # old.base])
  <2>1. [old EXCEPT !.conflict = @ \/ Latest # old.base].draft = old.draft
    BY <1>2 DEF State
  <2> QED
    BY <1>1, <1>2, <1>3, <1>5, <2>1, SameDraft DEF Sets
<1> QED
  BY <1>4, <1>5 DEF Reloaded

LEMMA RefreshedLoses == ASSUME IInv, DraftsKept, NEW c \in Clients, Refreshed(c) PROVE Lasting
<1> DEFINE old == mem[c].state
           sent == task[c].submitted
           draft == CanonicalDraft(sent, Composed(sent), old.draft)
<1>1. /\ At(c, "refresh") /\ "refresh" \in Steps /\ "idle" \in Steps
      /\ "refresh" \notin Saving \cup {"copied"}
  BY DEF Refreshed, Steps, Saving
<1>2. /\ IsOpen(c) /\ task[c].adopted = None /\ old \in State /\ task[c] \in Task
      /\ StateSound(history, edits, managed, old) /\ sent # None /\ managed
  BY <1>1, AtWork, OpenSession DEF Sound, IsOpen, TaskFits, At
<1>3. UNCHANGED <<history, ckpt, late, edits, copies>>
  BY DEF Refreshed, hostVars
<1>4. CASE Throws(c)
  BY <1>2, <1>3, <1>4, ThrowsLoses
<1>5. CASE /\ draft # None /\ Composes(old.base, sent)
           /\ Sets(c, [old EXCEPT !.base = Latest, !.draft = draft])
           /\ task' = [task EXCEPT ![c] = [Idle EXCEPT !.at = "save"]]
  <2>1. sent \in Text /\ old.draft \in Text /\ old.base \in 1 .. Latest /\ Latest \in Rev
    BY <1>2, Revisions DEF Task, State, StateSound, Rev
  <2>2. sent["front"].by = World
    BY <1>2, <1>5, <2>1 DEF Composes, Content, IInv, HistoryFits, Latest
  <2>3. Composed(sent) \in Text /\ Composed(sent)["body"] = sent["body"]
    BY <2>1, ComposedText
  <2>4. draft \in Text /\ Covers(c, old.draft, draft)
    BY <1>5, <2>1, <2>2, <2>3, CanonicalKeeps
  <2> HIDE DEF draft
  <2> DEFINE s == [old EXCEPT !.base = Latest, !.draft = draft]
  <2>5. s \in State /\ s.draft = draft
    BY <1>2, <2>1, <2>4 DEF State
  <2>6. mem' = [mem EXCEPT ![c].state = s]
    BY <1>5 DEF Sets
  <2> HIDE DEF s
  <2> QED
    BY <1>1, <1>2, <1>3, <1>5, <2>4, <2>5, <2>6, NewDraft DEF KeptIn
<1> QED
  <2>1. SUFFICES ASSUME ~Throws(c)
                 PROVE  Lasting
    BY <1>4
  <2>2. PICK d : /\ d = (IF Composes(old.base, sent)
                         THEN CanonicalDraft(sent, Composed(sent), old.draft) ELSE None)
                 /\ d # None /\ Sets(c, [old EXCEPT !.base = Latest, !.draft = d])
                 /\ task' = [task EXCEPT ![c] = [Idle EXCEPT !.at = "save"]]
    BY <2>1 DEF Refreshed
  <2> QED
    BY <1>5, <2>2

LEMMA ReconcileLoses == ASSUME IInv, DraftsKept, NEW c \in Clients, Reconcile(c) PROVE Lasting
<1> DEFINE old == mem[c].state
           i == intent[c][old.op.id]
           s == Reconciled(old, i)
<1>1. /\ At(c, "settled") /\ "settled" \in Steps /\ "ack" \in Steps
      /\ "settled" \notin Saving \cup {"copied"} /\ "settled" \in HostSteps
  BY DEF Reconcile, Steps, Saving, HostSteps
<1>2. /\ IsOpen(c) /\ task[c].adopted = None /\ old \in State
      /\ StateSound(history, edits, managed, old)
      /\ StateFits(history, intent[c], c, old) /\ OpAt(old.op, "settled")
      /\ i.state \in Settled
  BY <1>1, AtWork, AtStep, OpenSession DEF Sound, IsOpen, TaskFits, At
<1>3. old.op # None /\ old.op.ref /\ old.op.ack = "none"
  BY <1>1, <1>2 DEF OpAt
<1>4. s \in State
  BY <1>2, <1>3, ReconciledFits
<1>5. s.draft = old.draft \/ Covers(c, old.draft, s.draft)
  <2> DEFINE draft == IF managed THEN CanonicalDraft(old.op.content, old.op.request, old.draft)
                      ELSE old.draft
             acked == [old EXCEPT !.op.ack = i.state]
  <2>1. acked \in State /\ acked.draft = old.draft
    BY <1>2, <1>3, SettledOp DEF Settled
  <2>2. draft # None => Covers(c, old.draft, draft)
    <3>1. old.op.content \in Text /\ old.op.request \in Text /\ old.draft \in Text
      BY <1>2, <1>3 DEF State, Operation
    <3>2. OpSound(history, edits, managed, old.op)
      BY <1>2, <1>3 DEF StateSound
    <3> QED
      BY <3>1, <3>2, CanonicalKeeps, CoversSame DEF OpSound
  <2>3. \/ s = [acked EXCEPT !.conflict = TRUE]
        \/ s = [acked EXCEPT !.base = i.rev, !.conflict = TRUE]
        \/ draft # None /\ s = [acked EXCEPT !.base = i.rev, !.draft = draft]
    BY DEF Reconciled
  <2> HIDE DEF draft, acked, s
  <2> QED
    BY <2>1, <2>2, <2>3 DEF State
<1>6. /\ mem' = [mem EXCEPT ![c].state = s] /\ SaveThen(c, "ack")
      /\ UNCHANGED <<history, ckpt, late, edits, copies>>
  BY DEF Reconcile, Sets, hostVars
<1> HIDE DEF s
<1>7. KeptIn(SavedTexts, c, old.draft, s.draft)
  BY <1>2, <1>5, CoversSame DEF KeptIn, State
<1> QED
  BY <1>1, <1>2, <1>4, <1>6, <1>7, NewDraft


(* The parts of an open session, as the drafts of it are concerned.        *)
LEMMA OpenDrafts ==
  ASSUME IInv, DraftsKept, NEW c \in Clients, IsOpen(c)
  PROVE  /\ mem[c] # None /\ mem[c] \in Session /\ mem[c].state.draft \in Text
         /\ mem[c].uncertain # None => mem[c].uncertain.draft \in Text
         /\ ckpt[c] # None => ckpt[c].draft \in Text
         /\ task[c] \in Task /\ task[c].gen <= edits[c] /\ edits[c] \in Nat
         /\ SavedTexts \in SUBSET Text
         /\ late[c] # None /\ ckpt[c] # None =>
              KeptIn(SavedTexts, c, ckpt[c].draft, late[c].draft)
         /\ mem[c].holds => Follows(SavedTexts, c, ckpt[c], mem[c])
         /\ task[c].at = "adopt" \/ task[c].adopted # None =>
              Replaces(SavedTexts, copies, edits[c], c, ckpt[c], mem[c], task[c])
<1>1. Remains(SavedTexts, copies, edits[c], c, ckpt[c], late[c], mem[c], task[c])
  BY DEF DraftsKept, Bound
<1> QED
  BY <1>1, Drafts, OpenSession DEF Remains, IsOpen

(* What is called for a checkpoint of.                                     *)
LEMMA PersistedKept ==
  ASSUME IInv, DraftsKept, NEW c \in Clients, IsOpen(c), task[c].at = "save"
  PROVE  /\ Persisted(c) # None
         /\ KeptIn(SavedTexts, c, Persisted(c).draft, mem[c].state.draft)
         /\ mem[c].holds /\ ckpt[c] # None =>
              KeptIn(SavedTexts, c, ckpt[c].draft, Persisted(c).draft)
         /\ task[c].adopted # None => Kept(SavedTexts, c, Persisted(c).draft)
<1>1. /\ Sound(history, edits, managed, ckpt[c], late[c], mem[c], task[c])
      /\ TaskFits(history, intent[c], managed, ckpt[c], late[c], mem[c], task[c])
      /\ task[c] \in Task /\ mem[c].state \in State
  BY OpenSession
<1>2. CASE task[c].adopted = None
  <2>1. Persisted(c) = mem[c].state
    BY <1>2 DEF Persisted
  <2> QED
    BY <1>1, <1>2, <2>1, OpenDrafts, CoversSame, NoneAssumption DEF KeptIn, Follows
<1>3. CASE task[c].adopted # None
  <2>1. Persisted(c) = task[c].adopted /\ task[c].adopted \in State
    BY <1>1, <1>3 DEF Persisted, Task
  <2>2. task[c].adopted.base \in 1 .. Latest
    BY <1>1, <1>3, <2>1, Revisions DEF Sound, StateSound, State, Rev
  <2>3. task[c].adopted.draft \in SavedTexts /\ task[c].adopted.draft \in Text
    BY <1>1, <1>3, <2>2, RevisionSaved DEF TaskFits, Content
  <2>4. Kept(SavedTexts, c, task[c].adopted.draft)
    BY <2>3, CoversSame DEF Kept
  <2>5. mem[c].holds /\ ckpt[c] # None => Kept(SavedTexts, c, ckpt[c].draft)
    BY <1>3, OpenDrafts DEF Replaces
  <2> QED
    BY <1>3, <2>1, <2>4, <2>5 DEF KeptIn
<1> QED
  BY <1>2, <1>3

LEMMA PersistLoses == ASSUME IInv, DraftsKept, NEW c \in Clients, Persist(c) PROVE Lasting
<1>1. CASE Throws(c)
  BY <1>1, ThrowsLoses DEF Persist, At, hostVars
<1>2. CASE ~Throws(c)
  <2> DEFINE m == mem[c]
             t == task[c]
             s == Persisted(c)
  <2>1. /\ IsOpen(c) /\ t.at = "save" /\ t \in Task /\ m \in Session /\ m # None
        /\ UNCHANGED <<history, ckpt, late, edits, copies>> /\ SavedTexts' = SavedTexts
    BY OpenSession DEF Persist, At, IsOpen, hostVars, SavedTexts
  <2>2. t.then # "adopt"
    BY <2>1, OpenSession DEF TaskFits
  <2>3. \E step \in Steps \ {"adopt"} : task' = [task EXCEPT ![c].at = step]
    BY <1>2, <2>1, <2>2 DEF Persist, Goto, Task, Steps
  <2>4. /\ task'[c].at # "adopt" /\ task'[c].gen = t.gen /\ task'[c].adopted = t.adopted
        /\ \A d \in Clients : d # c => task'[d] = task[d]
    BY <2>1, <2>3 DEF Task, IInv, TypeOK
  <2>5. /\ mem'[c].state = m.state /\ mem'[c].holds = m.holds /\ mem'[c] # None
        /\ mem'[c].uncertain = m.uncertain \/ mem'[c].uncertain = s
        /\ \A d \in Clients : d # c => mem'[d] = mem[d]
    <3>1. CASE UNCHANGED mem
      BY <2>1, <3>1
    <3>2. CASE mem' = [mem EXCEPT ![c].uncertain = s, ![c].landed = FALSE]
      <4> DEFINE n == [m EXCEPT !.uncertain = s, !.landed = FALSE]
      <4>1. s \in State \cup {None}
        BY <2>1, OpenSession DEF Persisted, Task
      <4> HIDE DEF s
      <4>2. n \in Session /\ n.state = m.state /\ n.holds = m.holds /\ n.uncertain = s
        BY <2>1, <4>1 DEF Session
      <4>3. mem' = [mem EXCEPT ![c] = n]
        BY <2>1, <3>2 DEF IInv, TypeOK
      <4> HIDE DEF n
      <4> QED
        BY <4>2, <4>3, NoneAssumption DEF IInv, TypeOK
    <3> QED
      BY <1>2, <3>1, <3>2 DEF Persist
  <2>6. /\ KeptIn(SavedTexts, c, s.draft, m.state.draft)
        /\ m.holds /\ ckpt[c] # None => KeptIn(SavedTexts, c, ckpt[c].draft, s.draft)
        /\ t.adopted # None => Kept(SavedTexts, c, s.draft)
    BY <2>1, PersistedKept
  <2> HIDE DEF s
  <2>7. m.holds => Follows(SavedTexts, c, ckpt[c], mem'[c])
    BY <2>1, <2>5, <2>6, OpenDrafts DEF Follows
  <2>8. t.adopted # None =>
          Replaces(SavedTexts, copies, edits[c], c, ckpt[c], mem'[c], task'[c])
    BY <2>1, <2>4, <2>5, <2>6, OpenDrafts DEF Replaces
  <2>9. Bound(c)'
    BY <2>1, <2>4, <2>5, <2>7, <2>8, OpenDrafts DEF Bound, Remains
  <2>10. Lossless(c)
    BY <2>1, <2>5, OpenDrafts, CoversSame DEF Lossless, Survives, KeptIn
  <2>11. Apart(c)
    BY <2>1, <2>4, <2>5 DEF Apart
  <2> QED
    BY <2>1, <2>9, <2>10, <2>11, ApartKeeps
<1> QED
  BY <1>1, <1>2

LEMMA CompareAndSwapLoses ==
  ASSUME IInv, DraftsKept, NEW c \in Clients, CompareAndSwap(c) PROVE Lasting
<1> DEFINE m == mem[c]
<1>1. /\ IsOpen(c) /\ m.uncertain # None /\ m.holds /\ m \in Session
      /\ UNCHANGED <<history, task, edits, copies>> /\ SavedTexts' = SavedTexts
  BY OpenSession DEF CompareAndSwap, hostVars, SavedTexts
<1>2. /\ ckpt'[c] = m.uncertain /\ late'[c] = None
      /\ \A d \in Clients : d # c => ckpt'[d] = ckpt[d] /\ late'[d] = late[d]
  BY DEF CompareAndSwap, IInv, TypeOK
<1>3. /\ mem'[c].state = m.state /\ mem'[c].uncertain = m.uncertain
      /\ mem'[c].holds = m.holds /\ mem'[c] # None
      /\ \A d \in Clients : d # c => mem'[d] = mem[d]
  <2>1. /\ [m EXCEPT !.landed = TRUE] \in Session
        /\ mem' = [mem EXCEPT ![c] = [m EXCEPT !.landed = TRUE]]
    BY <1>1 DEF CompareAndSwap, Session
  <2> QED
    BY <1>1, <2>1, NoneAssumption DEF Session, IInv, TypeOK
<1>4. Follows(SavedTexts, c, ckpt[c], m)
  BY <1>1, OpenDrafts
<1>5. Follows(SavedTexts, c, m.uncertain, mem'[c])
  BY <1>1, <1>3, <1>4, OpenDrafts, CoversSame DEF Follows, KeptIn
<1>6. task[c].at = "adopt" \/ task[c].adopted # None =>
        Replaces(SavedTexts, copies, edits[c], c, m.uncertain, mem'[c], task[c])
  BY <1>1, <1>3, OpenDrafts DEF Replaces
<1>7. Bound(c)'
  BY <1>1, <1>2, <1>3, <1>5, <1>6, OpenDrafts DEF Bound, Remains
<1>8. Lossless(c)
  BY <1>1, <1>2, <1>3, <1>4, OpenDrafts, CoversSame DEF Lossless, Survives, KeptIn, Follows
<1>9. Apart(c)
  BY <1>1, <1>2, <1>3 DEF Apart
<1> QED
  BY <1>1, <1>7, <1>8, <1>9, ApartKeeps

LEMMA LateSwapLoses ==
  ASSUME IInv, DraftsKept, NEW c \in Clients, LateSwap(c) PROVE Lasting
<1> DEFINE m == mem[c]
<1>1. /\ late[c] # None /\ UNCHANGED <<history, task, edits, copies>>
      /\ SavedTexts' = SavedTexts
  BY DEF LateSwap, hostVars, SavedTexts
<1>2. /\ ckpt'[c] = late[c] /\ late'[c] = None
      /\ \A d \in Clients : d # c => ckpt'[d] = ckpt[d] /\ late'[d] = late[d]
  BY DEF LateSwap, IInv, TypeOK
<1>3. /\ m = None => mem'[c] = None
      /\ m # None => /\ mem'[c].state = m.state /\ mem'[c].holds = FALSE
      /\ \A d \in Clients : d # c => mem'[d] = mem[d]
  <2>1. m # None => [m EXCEPT !.holds = FALSE].state = m.state
                    /\ [m EXCEPT !.holds = FALSE].holds = FALSE
    BY Drafts DEF Session
  <2> QED
    BY <2>1 DEF LateSwap, IsOpen, IInv, TypeOK
<1>4. Remains(SavedTexts, copies, edits[c], c, ckpt[c], late[c], m, task[c])
  BY DEF DraftsKept, Bound
<1>5. Bound(c)'
  BY <1>1, <1>2, <1>3, <1>4 DEF Bound, Remains, Replaces
<1>6. Lossless(c)
  BY <1>1, <1>2, <1>3, <1>4, Drafts, CoversSame DEF Lossless, Survives, KeptIn, Remains
<1>7. Apart(c)
  BY <1>1, <1>2, <1>3 DEF Apart
<1> QED
  BY <1>1, <1>5, <1>6, <1>7, ApartKeeps

LEMMA SwappedLoses == ASSUME IInv, DraftsKept, NEW c \in Clients, Swapped(c) PROVE Lasting
<1> DEFINE m == mem[c]
           t == task[c]
<1>1. /\ IsOpen(c) /\ t \in Task /\ m \in Session /\ m # None /\ t.then # "adopt"
      /\ UNCHANGED <<history, ckpt, late, edits, copies>> /\ SavedTexts' = SavedTexts
  BY OpenSession DEF Swapped, At, IsOpen, hostVars, SavedTexts, TaskFits
<1>2. CASE Throws(c)
  BY <1>1, <1>2, ThrowsLoses
<1>3. CASE /\ mem' = [mem EXCEPT ![c].confirmed = m.uncertain,
                                 ![c].uncertain = None, ![c].landed = FALSE]
           /\ Goto(c, IF t.at = "retry" THEN "save" ELSE t.then)
  <2>1. /\ task'[c].at # "adopt" /\ task'[c].gen = t.gen /\ task'[c].adopted = t.adopted
        /\ \A d \in Clients : d # c => task'[d] = task[d]
    BY <1>1, <1>3 DEF Goto, Task, IInv, TypeOK
  <2>2. /\ mem'[c].state = m.state /\ mem'[c].holds = m.holds
        /\ mem'[c].uncertain = None /\ mem'[c] # None
        /\ \A d \in Clients : d # c => mem'[d] = mem[d]
    <3> DEFINE n == [m EXCEPT !.confirmed = m.uncertain, !.uncertain = None, !.landed = FALSE]
    <3>1. /\ n \in Session /\ n.state = m.state /\ n.holds = m.holds /\ n.uncertain = None
          /\ mem' = [mem EXCEPT ![c] = n]
      BY <1>1, <1>3 DEF Session, IInv, TypeOK
    <3> HIDE DEF n
    <3> QED
      BY <3>1, NoneAssumption DEF IInv, TypeOK
  <2>3. m.holds => Follows(SavedTexts, c, ckpt[c], mem'[c])
    BY <1>1, <2>2, OpenDrafts DEF Follows
  <2>4. t.adopted # None =>
          Replaces(SavedTexts, copies, edits[c], c, ckpt[c], mem'[c], task'[c])
    BY <1>1, <2>1, <2>2, OpenDrafts DEF Replaces
  <2>5. Bound(c)'
    BY <1>1, <2>1, <2>2, <2>3, <2>4, OpenDrafts DEF Bound, Remains
  <2>6. Lossless(c)
    BY <1>1, <2>2, OpenDrafts, CoversSame DEF Lossless, Survives, KeptIn
  <2>7. Apart(c)
    BY <1>1, <2>1, <2>2 DEF Apart
  <2> QED
    BY <1>1, <2>5, <2>6, <2>7, ApartKeeps
<1> QED
  BY <1>2, <1>3 DEF Swapped


LEMMA CrashLoses == ASSUME IInv, DraftsKept, NEW c \in Clients, Crash(c) PROVE Lasting
<1> DEFINE m == mem[c]
<1>1. /\ IsOpen(c) /\ UNCHANGED <<history, ckpt, edits, copies>> /\ SavedTexts' = SavedTexts
  BY DEF Crash, hostVars, SavedTexts
<1>2. /\ mem'[c] = None
      /\ \A d \in Clients : d # c => mem'[d] = mem[d] /\ task'[d] = task[d]
  BY DEF Crash, IInv, TypeOK
<1>3. /\ late'[c] = late[c] \/ (m.holds /\ m.uncertain # None /\ late'[c] = m.uncertain)
      /\ \A d \in Clients : d # c => late'[d] = late[d]
  BY DEF Crash, IInv, TypeOK
<1>4. Bound(c)'
  BY <1>1, <1>2, <1>3, OpenDrafts DEF Bound, Remains, Follows
<1>5. Lossless(c)
  BY <1>1, <1>2, OpenDrafts, CoversSame DEF Lossless, Survives, KeptIn
<1>6. Apart(c)
  BY <1>1, <1>2, <1>3 DEF Apart
<1> QED
  BY <1>1, <1>4, <1>5, <1>6, ApartKeeps

(* A note opens with what its checkpoint holds, or with a revision in the  *)
(* place of another.                                                       *)
LEMMA AdoptedKept ==
  ASSUME IInv, NEW c \in Clients, ckpt[c] # None
  PROVE  KeptIn(SavedTexts, c, ckpt[c].draft, Adopted(ckpt[c]).draft)
<1> DEFINE k == ckpt[c]
           s == Adopted(k)
<1>1. k \in State /\ StateSound(history, edits, managed, k) /\ k.draft \in Text
  BY Drafts DEF IInv, Client, ClientFits, Typed, Sound
<1>2. CASE k.draft = Content(k.base)
  <2>1. k.base \in 1 .. Latest
    BY <1>1, Revisions DEF StateSound, State, Rev
  <2>2. k.draft \in SavedTexts
    BY <1>2, <2>1, RevisionSaved
  <2> QED
    BY <1>1, <2>2, CoversSame DEF KeptIn, Kept
<1>3. CASE k.draft # Content(k.base)
  <2>1. s = k \/ s = [k EXCEPT !.conflict = TRUE]
    BY <1>3 DEF Adopted
  <2>2. s.draft = k.draft
    BY <1>1, <2>1 DEF State
  <2> QED
    BY <1>1, <2>2, CoversSame DEF KeptIn
<1> QED
  BY <1>2, <1>3

LEMMA LoadLoses == ASSUME IInv, DraftsKept, NEW c \in Clients, Load(c) PROVE Lasting
<1> DEFINE s == Adopted(ckpt[c])
<1>1. /\ mem[c] = None /\ task[c] = Idle /\ UNCHANGED <<history, ckpt, late, edits, copies>>
      /\ SavedTexts' = SavedTexts
  BY DEF IInv, Client, ClientFits, Load, IsOpen, hostVars, SavedTexts
<1>2. /\ mem'[c].state = s /\ mem'[c].uncertain = None
      /\ \A d \in Clients : d # c => mem'[d] = mem[d]
  BY DEF Load, IInv, TypeOK
<1>3. /\ task'[c] \in {Idle, Resuming("opened")}
      /\ \A d \in Clients : d # c => task'[d] = task[d]
  BY <1>1 DEF Load, ResumeThen, Resuming, IInv, TypeOK
<1>4. /\ task'[c].at # "adopt" /\ task'[c].adopted = None /\ task'[c].gen = 0
      /\ edits[c] \in Nat
  <2>1. Idle.at # "adopt" /\ Idle.adopted = None /\ Idle.gen = 0
    BY DEF Idle
  <2>2. LET t == Resuming("opened")
        IN t.at # "adopt" /\ t.adopted = None /\ t.gen = 0
    BY DEF Resuming, Idle
  <2> QED
    BY <1>3, <2>1, <2>2, Drafts
<1>5. ckpt[c] # None => KeptIn(SavedTexts, c, ckpt[c].draft, s.draft)
  BY AdoptedKept
<1> HIDE DEF s
<1>6. Bound(c)'
  <2>1. Remains(SavedTexts, copies, edits[c], c, ckpt[c], late[c], mem[c], task[c])
    BY DEF DraftsKept, Bound
  <2> QED
    BY <1>1, <1>2, <1>4, <1>5, <2>1 DEF Bound, Remains, Follows
<1>7. Lossless(c)
  BY <1>1, <1>2, <1>5, Drafts, CoversSame DEF Lossless, Survives, KeptIn
<1>8. Apart(c)
  BY <1>1, <1>2, <1>3 DEF Apart
<1> QED
  BY <1>1, <1>6, <1>7, <1>8, ApartKeeps

LEMMA CopyLoses == ASSUME IInv, DraftsKept, NEW c \in Clients, Copy(c) PROVE Lasting
<1> DEFINE m == mem[c]
<1>1. /\ IsOpen(c) /\ task[c].adopted = None /\ UNCHANGED <<history, ckpt, late, mem, edits>>
  <2>1. At(c, "copy") /\ "copy" \in Steps /\ "copy" \notin Saving \cup {"copied"}
    BY DEF Copy, Steps, Saving
  <2> QED
    BY <2>1, AtWork DEF Copy, hostVars
<1>2. /\ copies' = copies \cup {m.state.draft} /\ m.state.draft \in SavedTexts'
      /\ SavedTexts \subseteq SavedTexts' /\ copies \subseteq copies'
  BY <1>1 DEF Copy, SavedTexts
<1>3. /\ task'[c].at = "adopt" /\ task'[c].gen = edits[c]
      /\ \A d \in Clients : d # c => task'[d] = task[d]
  BY <1>1, OpenDrafts DEF Copy, Task, IInv, TypeOK
<1>4. Remains(SavedTexts', copies', edits[c], c, ckpt[c], late[c], m, task[c])
  BY <1>2, RemainsGrows DEF DraftsKept, Bound
<1>5. m.holds => Follows(SavedTexts', c, ckpt[c], m)
  BY <1>1, <1>4 DEF Remains, IsOpen
<1>6. m.holds => /\ ckpt[c] # None => Kept(SavedTexts', c, ckpt[c].draft)
                 /\ m.uncertain # None => Kept(SavedTexts', c, m.uncertain.draft)
  BY <1>2, <1>5, KeptNow DEF Follows
<1>7. Replaces(SavedTexts', copies', edits[c], c, ckpt[c], m, task'[c])
  BY <1>2, <1>6 DEF Replaces
<1>8. Bound(c)'
  BY <1>1, <1>3, <1>4, <1>7, OpenDrafts DEF Bound, Remains
<1>9. Lossless(c)
  BY <1>1, OpenDrafts, CoversSame DEF Lossless, Survives, KeptIn
<1>10. Apart(c)
  BY <1>1, <1>3 DEF Apart
<1> QED
  BY <1>2, <1>8, <1>9, <1>10, ApartKeeps

LEMMA AdoptLoses == ASSUME IInv, DraftsKept, NEW c \in Clients, Adopt(c) PROVE Lasting
<1>1. /\ IsOpen(c) /\ task[c].adopted = None /\ task[c].at = "adopt" /\ "idle" \in Steps
      /\ UNCHANGED <<history, ckpt, late, mem, edits, copies>> /\ SavedTexts' = SavedTexts
  <2>1. At(c, "adopt") /\ "adopt" \in Steps /\ "adopt" \notin Saving \cup {"copied"}
    BY DEF Adopt, Steps, Saving
  <2> QED
    BY <2>1, AtWork DEF Adopt, hostVars, At, Steps, SavedTexts
<1>2. CASE task' = [task EXCEPT ![c] = Idle]
  BY <1>1, <1>2, SameDraft
<1>3. CASE task' = [task EXCEPT ![c].at = "save", ![c].then = "copied",
                                ![c].adopted = Clean(Latest)]
  <2>1. /\ task'[c].at = "save" /\ task'[c].gen = task[c].gen
        /\ \A d \in Clients : d # c => task'[d] = task[d]
    BY <1>1, <1>3, OpenDrafts DEF Task, IInv, TypeOK
  <2>2. Replaces(SavedTexts, copies, edits[c], c, ckpt[c], mem[c], task'[c])
    BY <1>1, <2>1, OpenDrafts DEF Replaces
  <2>3. Bound(c)'
    BY <1>1, <2>1, <2>2, OpenDrafts DEF Bound, Remains
  <2>4. Lossless(c)
    BY <1>1, OpenDrafts, CoversSame DEF Lossless, Survives, KeptIn
  <2>5. Apart(c)
    BY <1>1, <2>1 DEF Apart
  <2> QED
    BY <1>1, <2>3, <2>4, <2>5, ApartKeeps
<1> QED
  BY <1>2, <1>3 DEF Adopt

LEMMA CopiedLoses == ASSUME IInv, DraftsKept, NEW c \in Clients, Copied(c) PROVE Lasting
<1> DEFINE m == mem[c]
           t == task[c]
<1>1. /\ IsOpen(c) /\ t.adopted # None /\ t.adopted \in State
      /\ UNCHANGED <<history, ckpt, late, edits, copies>> /\ SavedTexts' = SavedTexts
  <2>1. At(c, "copied") /\ "copied" \in Steps \ Saving
    BY DEF Copied, Steps, Saving
  <2>2. IsOpen(c) /\ t \in Task /\ TaskFits(history, intent[c], managed, ckpt[c], late[c], m, t)
    BY <2>1, OpenSession DEF At
  <2>3. NextStep(t) = "copied"
    BY <2>1 DEF At, NextStep
  <2> QED
    BY <2>2, <2>3 DEF TaskFits, Task, Copied, hostVars, SavedTexts
<1>2. /\ m \in Session /\ m # None /\ m.state.draft \in Text /\ edits[c] \in Nat
      /\ Replaces(SavedTexts, copies, edits[c], c, ckpt[c], m, t)
      /\ late[c] # None /\ ckpt[c] # None => KeptIn(SavedTexts, c, ckpt[c].draft, late[c].draft)
      /\ m.holds => Follows(SavedTexts, c, ckpt[c], m)
  BY <1>1, OpenDrafts
<1>3. CASE task' = [task EXCEPT ![c] = [Idle EXCEPT !.at = "save"]] /\ UNCHANGED mem
  <2>1. /\ task'[c].at # "adopt" /\ task'[c].adopted = None /\ task'[c].gen = 0
        /\ \A d \in Clients : d # c => task'[d] = task[d]
    BY <1>3 DEF Idle, IInv, TypeOK
  <2>2. Bound(c)'
    BY <1>1, <1>2, <1>3, <2>1 DEF Bound, Remains
  <2>3. Lossless(c)
    BY <1>1, <1>3, OpenDrafts, CoversSame DEF Lossless, Survives, KeptIn
  <2>4. Apart(c)
    BY <1>1, <1>3, <2>1 DEF Apart
  <2> QED
    BY <1>1, <2>2, <2>3, <2>4, ApartKeeps
<1>4. CASE /\ edits[c] = t.gen /\ Sets(c, t.adopted)
           /\ task' = [task EXCEPT ![c] = Idle]
  <2>1. /\ task'[c].at # "adopt" /\ task'[c].adopted = None /\ task'[c].gen = 0
        /\ \A d \in Clients : d # c => task'[d] = task[d]
    BY <1>4 DEF Idle, IInv, TypeOK
  <2>2. /\ mem'[c].state = t.adopted /\ mem'[c].holds = m.holds
        /\ mem'[c].uncertain = m.uncertain
        /\ \A d \in Clients : d # c => mem'[d] = mem[d]
    <3>1. [m EXCEPT !.state = t.adopted].state = t.adopted
          /\ [m EXCEPT !.state = t.adopted].holds = m.holds
          /\ [m EXCEPT !.state = t.adopted].uncertain = m.uncertain
      BY <1>2 DEF Session
    <3> QED
      BY <1>4, <3>1 DEF Sets, IInv, TypeOK
  <2>3. /\ Kept(SavedTexts, c, m.state.draft)
        /\ m.holds => /\ ckpt[c] # None => Kept(SavedTexts, c, ckpt[c].draft)
                      /\ m.uncertain # None => Kept(SavedTexts, c, m.uncertain.draft)
    BY <1>2, <1>4, CoversSame DEF Replaces, Kept, SavedTexts
  <2>4. m.holds => Follows(SavedTexts, c, ckpt[c], mem'[c])
    BY <1>2, <2>2, <2>3 DEF Follows, KeptIn
  <2>5. Bound(c)'
    BY <1>1, <1>2, <2>1, <2>4, <2>2 DEF Bound, Remains
  <2>6. Lossless(c)
    BY <1>1, <1>2, <2>2, <2>3, OpenDrafts, CoversSame DEF Lossless, Survives, KeptIn
  <2>7. Apart(c)
    BY <1>1, <2>1, <2>2 DEF Apart
  <2> QED
    BY <1>1, <2>5, <2>6, <2>7, ApartKeeps
<1> QED
  BY <1>3, <1>4 DEF Copied


(* The user types: the part is new, so it types over what was there.       *)
LEMMA TypeLoses ==
  ASSUME IInv, DraftsKept, NEW c \in Clients, NEW p \in Parts, Type(c, p) PROVE Lasting
<1> DEFINE m == mem[c]
           part == [by |-> c, n |-> edits[c] + 1]
           draft == [m.state.draft EXCEPT ![p] = part]
<1>1. /\ IsOpen(c) /\ m \in Session /\ m.state \in State /\ m.state.draft \in Text /\ m # None
      /\ Sound(history, edits, managed, ckpt[c], late[c], m, task[c])
      /\ edits[c] \in Nat /\ SavedTexts \in SUBSET Text
      /\ UNCHANGED <<history, ckpt, late, task, copies>> /\ SavedTexts' = SavedTexts
  BY OpenSession, OpenDrafts DEF Type, hostVars, SavedTexts
<1>2. /\ edits'[c] = edits[c] + 1
      /\ \A d \in Clients : d # c => edits'[d] = edits[d]
  BY DEF Type, IInv, TypeOK
<1>3. part.by = c /\ part.n = edits[c] + 1 /\ part \in Part
  BY <1>1 DEF Part
<1> HIDE DEF part
<1>4. draft \in Text /\ draft[p] = part /\ \A q \in Parts : q # p => draft[q] = m.state.draft[q]
  BY <1>1, <1>3 DEF Text
<1>5. /\ mem'[c].state.draft = draft /\ mem'[c].holds = m.holds
      /\ mem'[c].uncertain = m.uncertain /\ mem'[c] # None
      /\ \A d \in Clients : d # c => mem'[d] = mem[d]
  <2> DEFINE s == [m.state EXCEPT !.draft = draft]
             n == [m EXCEPT !.state = s]
  <2>1. mem' = [mem EXCEPT ![c] = n]
    BY <1>1 DEF Type, Session, State, IInv, TypeOK, part
  <2> HIDE DEF draft
  <2>2. s \in State /\ s.draft = draft
    BY <1>1, <1>4 DEF State
  <2> HIDE DEF s
  <2>3. /\ n \in Session /\ n.state = s /\ n.holds = m.holds /\ n.uncertain = m.uncertain
    BY <1>1, <2>2 DEF Session
  <2> HIDE DEF n
  <2> QED
    BY <2>1, <2>2, <2>3, NoneAssumption DEF IInv, TypeOK
<1>6. KeptIn(SavedTexts, c, m.state.draft, draft)
  <2>1. Known(edits, m.state.draft)
    BY <1>1 DEF Sound, StateSound
  <2>2. \A q \in Parts : m.state.draft[q].n \in Nat
    BY <1>1 DEF Text, Part
  <2>3. Covers(c, m.state.draft, draft)
    BY <1>1, <1>3, <1>4, <2>1, <2>2 DEF Covers, Known
  <2> QED
    BY <2>3 DEF KeptIn
<1> HIDE DEF draft
<1>7. m.holds => Follows(SavedTexts, c, ckpt[c], mem'[c])
  <2>1. SUFFICES ASSUME m.holds
                 PROVE  Follows(SavedTexts, c, ckpt[c], mem'[c])
    OBVIOUS
  <2>2. Follows(SavedTexts, c, ckpt[c], m)
    BY <1>1, <2>1, OpenDrafts
  <2>3. /\ ckpt[c] # None => ckpt[c].draft \in Text
        /\ m.uncertain # None => m.uncertain.draft \in Text
    BY <1>1, OpenDrafts
  <2> QED
    BY <1>1, <1>4, <1>5, <1>6, <2>2, <2>3, KeptMore DEF Follows
<1>8. task[c].gen <= edits[c] /\ edits'[c] # task[c].gen /\ task[c].gen <= edits'[c]
  <2>1. task[c].gen <= edits[c] /\ task[c].gen \in Nat
    BY <1>1, OpenDrafts DEF Task
  <2> QED
    BY <1>1, <1>2, <2>1
<1>9. task[c].at = "adopt" \/ task[c].adopted # None =>
        Replaces(SavedTexts, copies, edits'[c], c, ckpt[c], mem'[c], task[c])
  BY <1>1, <1>5, <1>8, OpenDrafts DEF Replaces
<1>10. Bound(c)'
  BY <1>1, <1>5, <1>7, <1>8, <1>9, OpenDrafts DEF Bound, Remains
<1>11. Lossless(c)
  BY <1>1, <1>5, <1>6, OpenDrafts, CoversSame DEF Lossless, Survives, KeptIn
<1>12. Apart(c)
  BY <1>1, <1>2, <1>5 DEF Apart
<1> QED
  BY <1>1, <1>10, <1>11, <1>12, ApartKeeps

LEMMA NothingLostByStep == IInv /\ DraftsKept /\ [Next]_vars => Lasting
<1> SUFFICES ASSUME IInv, DraftsKept, [Next]_vars
             PROVE  Lasting
  OBVIOUS
<1>1. CASE UNCHANGED vars
  <2>1. UNCHANGED <<history, ckpt, late, mem, task, edits, copies>>
    BY <1>1 DEF vars
  <2>2. SavedTexts' = SavedTexts
    BY <2>1 DEF SavedTexts
  <2> QED
    BY <2>1, <2>2, WorldKeeps
<1>2. ASSUME NEW c \in Clients, Runs(c)
      PROVE  Lasting
  BY <1>2, PersistLoses, CompareAndSwapLoses, SwappedLoses, QuietLoses, HostLoses,
     HistoryLoses, PreparedLoses, QueryLoses, ReconcileLoses, AcknowledgedLoses,
     FlushedLoses, PlanLoses, ReloadedLoses, RefreshedLoses, CopyLoses, AdoptLoses,
     CopiedLoses DEF Runs
<1>3. ASSUME NEW c \in Clients, Calls(c)
      PROVE  Lasting
  BY <1>3, TypeLoses, QuietLoses, LoadLoses DEF Calls
<1>4. ASSUME NEW c \in Clients, LateSwap(c) \/ Fail(c) \/ Crash(c)
      PROVE  Lasting
  BY <1>4, LateSwapLoses, FailLoses, CrashLoses
<1> QED
  BY <1>1, <1>2, <1>3, <1>4, HistoryLoses DEF Next

(* The step that DraftSurvives speaks of.                                  *)
Spares ==
  \A c \in Clients :
    /\ mem[c] # None /\ mem'[c] # None =>
         Keeps(c, mem[c].state.draft, mem'[c].state.draft)
    /\ ckpt[c] # None =>
         ckpt'[c] # None /\ Keeps(c, ckpt[c].draft, ckpt'[c].draft)
    /\ ckpt[c] # None /\ mem[c] = None /\ mem'[c] # None =>
         Keeps(c, ckpt[c].draft, mem'[c].state.draft)

LEMMA Sparing == Lasting => Spares
<1>1. ASSUME NEW c \in Clients, NEW old, NEW new, KeptIn(SavedTexts', c, old, new)
      PROVE  Keeps(c, old, new)
  BY <1>1 DEF Keeps, KeptIn, Kept, Covers, SavedTexts
<1> QED
  BY <1>1 DEF Lasting, Lossless, Survives, Spares

(* No step of a save, a conflict, a reload, a recovery or a restart loses  *)
(* what the user typed (src/ui/note-durable-state.ts).                     *)
THEOREM DraftsSurvive == Spec => DraftSurvives
<1> DEFINE DInv == IInv /\ DraftsKept
<1>1. Init => DInv
  <2>1. Init => DraftsKept
    BY DEF Init, DraftsKept, Bound, Remains
  <2> QED
    BY <2>1, InitKeeps
<1>2. DInv /\ [Next]_vars => DInv' /\ Spares
  <2>1. Lasting => DraftsKept'
    BY DEF Lasting
  <2> QED
    BY <2>1, NextKeeps, NothingLostByStep, Sparing
<1>3. [][Spares]_vars => DraftSurvives
  BY DEF DraftSurvives, Spares
<1> QED
  BY <1>1, <1>2, <1>3, PTL DEF Spec
================================================================================
