------------------------------ MODULE DurableNote ------------------------------
(***************************************************************************)
(* One note that several clients edit and save: the editor's state         *)
(* (src/ui/note-durable-state.ts), its checkpoint in the vault             *)
(* (zorid-store checkpoints.rs) and the write intents through which the    *)
(* vault changes the note exactly once (zorid-store host_intents.rs,       *)
(* zorid-native host_intents.rs).                                          *)
(*                                                                         *)
(* The queue of DurableNoteState runs one task of a client at a time; the  *)
(* user types between any two steps of it.  Every call to the vault is a   *)
(* step of the host and a step that takes its answer, so a call can be     *)
(* carried out and its answer lost, or carried out after its caller died.  *)
(* A host call that repeats a finished one changes nothing and is not      *)
(* modelled again.                                                         *)
(*                                                                         *)
(* A text is its generated front (the properties of a managed collection)  *)
(* and its body.  A part is named for who wrote it and when, so two edits  *)
(* never make the same part and the number of edits of a client stands for *)
(* the generation of its draft.  A revision of the note is its position in *)
(* the history of the vault.  Revisions of a checkpoint are only compared  *)
(* with its head: "holds" says that a session knows the head.  A session   *)
(* is terminal when the recovery that its load left behind has failed      *)
(* (sourceRecoveryTerminal).                                               *)
(***************************************************************************)
EXTENDS Naturals, Sequences, FiniteSets

CONSTANTS
  Clients,
  Kinds,       \* whether the note is an entry of a collection (composeText)
  Lates,       \* a checkpoint call may outlive its session
  World,       \* everyone else who writes the note
  MaxEdits,    \* bound: edits of a client
  MaxWorld,    \* bound: revisions by the world
  MaxOps,      \* bound: operation identities of a client
  MaxCrashes,  \* bound: sessions that die
  MaxFaults,   \* bound: calls that fail or lose their answer
  None

ASSUME ConstantsAssumption ==
  /\ Kinds \subseteq BOOLEAN /\ Lates \in BOOLEAN
  /\ World \notin Clients
  /\ {MaxEdits, MaxWorld, MaxOps, MaxCrashes, MaxFaults} \subseteq Nat

VARIABLES
  history,  \* revisions of the note: text and the operation that wrote it
  intent,   \* per client and operation: row of host_intents
  ckpt,     \* per client: head of the checkpoint note/v1/<entry>
  late,     \* per client: a compareAndSwap that outlived its session
  mem,      \* per client: the open DurableNoteState
  task,     \* per client: where its queue is
  copies,   \* recovery copies
  edits,    \* per client: edits so far
  crashes, faults,
  managed   \* the note is an entry of a collection

hostVars == <<history, intent>>
limits == <<crashes, faults, managed>>
vars == <<history, intent, ckpt, late, mem, task, copies, edits, limits>>

Parts == {"front", "body"}
Part == [by : Clients \cup {World}, n : Nat]
Text == [Parts -> Part]
Ops == 1..MaxOps
Rev == Nat \ {0}

(* Operation: the text it submits, the request planned for it, whether the *)
(* reference that prepare returned is known, and pendingAck.               *)
Operation == [id : Ops, content : Text, expected : Rev, request : Text,
              ref : BOOLEAN, ack : {"none", "committed", "rejected"}]
State == [base : Rev, draft : Text, conflict : BOOLEAN,
          op : Operation \cup {None}]
Session == [state : State, confirmed : State \cup {None}, holds : BOOLEAN,
            uncertain : State \cup {None}, landed : BOOLEAN,
            terminal : BOOLEAN]
Intent == [expected : Rev, request : Text, acked : BOOLEAN, rev : Nat,
           state : {"prepared", "commit_requested", "committed", "rejected"}]

(* None is none of the values it stands for the absence of.                *)
ASSUME NoneAssumption ==
  /\ None \notin Clients \X Ops
  /\ None \notin Text /\ None \notin Operation /\ None \notin State
  /\ None \notin Session /\ None \notin Intent

(* at: the next step; then: the step after a checkpoint; back: the step    *)
(* after an operation; gen, adopted: locals of saveRecoveryCopy;           *)
(* submitted: what refreshManagedProjection sent.                          *)
Steps == {"idle", "save", "saving", "retry", "resume", "prepare", "query",
          "commit", "settled", "ack", "flush", "flushed", "plan", "reload",
          "refresh", "copy", "adopt", "copied", "opened"}
Task == [at : Steps, then : Steps, back : Steps, gen : Nat,
         adopted : State \cup {None}, submitted : Text \cup {None}]

Idle == [at |-> "idle", then |-> "idle", back |-> "idle", gen |-> 0,
         adopted |-> None, submitted |-> None]

Latest == Len(history)
(* Mistake: an authorised intent counts as settled. *)
SettledWhenRequested == {"commit_requested", "committed", "rejected"}
(* The outcomes of an intent. *)
Settled == {"committed", "rejected"}
IsOpen(c) == mem[c] # None
Content(rev) == history[rev].text

Init ==
  /\ history = <<[text |-> [p \in Parts |-> [by |-> World, n |-> 0]],
                  op |-> None]>>
  /\ intent = [c \in Clients |-> [o \in Ops |-> None]]
  /\ ckpt = [c \in Clients |-> None]
  /\ late = [c \in Clients |-> None]
  /\ mem = [c \in Clients |-> None]
  /\ task = [c \in Clients |-> Idle]
  /\ copies = {}
  /\ edits = [c \in Clients |-> 0]
  /\ crashes = 0
  /\ faults = 0
  /\ managed \in Kinds

-----------------------------------------------------------------------------
(* Steps of a task                                                         *)

At(c, step) == IsOpen(c) /\ task[c].at = step
Goto(c, step) == task' = [task EXCEPT ![c].at = step]
Sets(c, state) == mem' = [mem EXCEPT ![c].state = state]

(* persist() and the step after it. *)
SaveThen(c, step) == task' = [task EXCEPT ![c].at = "save", ![c].then = step]
(* resume() and the step after it: it starts with a checkpoint. *)
ResumeThen(c, step) ==
  task' = [task EXCEPT ![c] = [Idle EXCEPT !.at = "save", !.then = "resume",
                                           !.back = step]]

(* The task throws.  The recovery of a loaded note that throws is over for *)
(* as long as the note is open.                                            *)
Recovering(c) == task[c].back = "opened"
Throws(c) ==
  /\ task' = [task EXCEPT ![c] = Idle]
  /\ mem' = IF Recovering(c) THEN [mem EXCEPT ![c].terminal = TRUE] ELSE mem

-----------------------------------------------------------------------------
(* Checkpoints                                                             *)

(* What persist() is called for. *)
Persisted(c) ==
  IF task[c].adopted # None THEN task[c].adopted ELSE mem[c].state

Persist(c) ==
  /\ At(c, "save")
  /\ LET s == Persisted(c) IN
       \/ /\ mem[c].terminal
          /\ Throws(c)
       \/ /\ ~mem[c].terminal /\ mem[c].uncertain # None
          /\ Goto(c, "retry")
          /\ UNCHANGED mem
       \/ /\ ~mem[c].terminal /\ mem[c].uncertain = None
          /\ s.op = None /\ s = mem[c].confirmed
          /\ Goto(c, task[c].then)
          /\ UNCHANGED mem
       \/ /\ ~mem[c].terminal /\ mem[c].uncertain = None
          /\ s.op # None \/ s # mem[c].confirmed
          /\ mem' = [mem EXCEPT ![c].uncertain = s, ![c].landed = FALSE]
          /\ Goto(c, "saving")
  /\ UNCHANGED <<hostVars, ckpt, late, copies, edits, limits>>

(* The host swaps the head the change expects; the change of a dead        *)
(* session expects the same head and is refused from then on.  A request   *)
(* whose call failed may still be carried out later.                       *)
CompareAndSwap(c) ==
  /\ IsOpen(c) /\ mem[c].uncertain # None
  /\ mem[c].holds /\ ~mem[c].landed
  /\ ckpt' = [ckpt EXCEPT ![c] = mem[c].uncertain]
  /\ late' = [late EXCEPT ![c] = None]
  /\ mem' = [mem EXCEPT ![c].landed = TRUE]
  /\ UNCHANGED <<hostVars, task, copies, edits, limits>>

LateSwap(c) ==
  /\ late[c] # None
  /\ ckpt' = [ckpt EXCEPT ![c] = late[c]]
  /\ late' = [late EXCEPT ![c] = None]
  /\ mem' = [mem EXCEPT ![c] =
               IF IsOpen(c) THEN [mem[c] EXCEPT !.holds = FALSE] ELSE None]
  /\ UNCHANGED <<hostVars, task, copies, edits, limits>>

(* The answer: acceptCheckpoint proves that the head is this change.  A    *)
(* retained change is followed by the one that persist() was called for.   *)
Swapped(c) ==
  /\ At(c, "saving") \/ At(c, "retry")
  /\ IF mem[c].landed
     THEN /\ mem' = [mem EXCEPT ![c].confirmed = mem[c].uncertain,
                                ![c].uncertain = None, ![c].landed = FALSE]
          /\ Goto(c, IF task[c].at = "retry" THEN "save" ELSE task[c].then)
     ELSE /\ ~mem[c].holds
          /\ Throws(c)
  /\ UNCHANGED <<hostVars, ckpt, late, copies, edits, limits>>

(* The checkpoint that update() queues unless the recovery failed. *)
Checkpoint(c) ==
  /\ At(c, "idle") /\ ~mem[c].terminal
  /\ mem[c].uncertain # None \/ mem[c].state # mem[c].confirmed
  /\ SaveThen(c, "idle")
  /\ UNCHANGED <<hostVars, ckpt, late, mem, copies, edits, limits>>

-----------------------------------------------------------------------------
(* Operations                                                              *)

(* resume(): the retained phase of the operation is checkpointed. *)
Resume(c) ==
  /\ At(c, "resume")
  /\ LET op == mem[c].state.op IN
       Goto(c, IF op.ack # "none" THEN "ack"
               ELSE IF op.ref THEN "query" ELSE "prepare")
  /\ UNCHANGED <<hostVars, ckpt, late, mem, copies, edits, limits>>

PrepareIntent(c) ==
  /\ At(c, "prepare")
  /\ LET op == mem[c].state.op IN
       /\ intent[c][op.id] = None
       /\ intent' = [intent EXCEPT ![c][op.id] =
                       [expected |-> op.expected, request |-> op.request,
                        acked |-> FALSE, rev |-> 0, state |-> "prepared"]]
  /\ UNCHANGED <<history, ckpt, late, mem, task, copies, edits, limits>>

(* Mistake: the reference is used before it is checkpointed. *)
PreparedUnsaved(c) ==
  /\ At(c, "prepare")
  /\ intent[c][mem[c].state.op.id] # None
  /\ mem' = [mem EXCEPT ![c].state.op.ref = TRUE]
  /\ Goto(c, "query")
  /\ UNCHANGED <<hostVars, ckpt, late, copies, edits, limits>>
(* The answer: the reference of the intent is checkpointed. *)
Prepared(c) ==
  /\ At(c, "prepare")
  /\ intent[c][mem[c].state.op.id] # None
  /\ mem' = [mem EXCEPT ![c].state.op.ref = TRUE]
  /\ SaveThen(c, "query")
  /\ UNCHANGED <<hostVars, ckpt, late, copies, edits, limits>>

(* Reloading and copying never authorise a pending write: their validate() *)
(* throws.                                                                 *)
Query(c) ==
  /\ At(c, "query")
  /\ LET i == intent[c][mem[c].state.op.id] IN
       \/ /\ i = None
          /\ Throws(c)
       \/ /\ i # None /\ i.state \in Settled
          /\ Goto(c, "settled")
          /\ UNCHANGED mem
       \/ /\ i # None /\ i.state \notin Settled
          /\ task[c].back \in {"reload", "copy"}
          /\ Throws(c)
       \/ /\ i # None /\ i.state \notin Settled
          /\ task[c].back \notin {"reload", "copy"}
          /\ Goto(c, "commit")
          /\ UNCHANGED mem
  /\ UNCHANGED <<hostVars, ckpt, late, copies, edits, limits>>

(* commit_host_intent authorises the exact request in one transaction ...  *)
RequestCommit(c) ==
  /\ At(c, "commit")
  /\ LET o == mem[c].state.op.id IN
       /\ intent[c][o].state = "prepared"
       /\ intent' = [intent EXCEPT ![c][o].state = "commit_requested"]
  /\ UNCHANGED <<history, ckpt, late, mem, task, copies, edits, limits>>

(* Mistake: a write is applied to whatever revision is there. *)
AppliesAnywhere(i) == TRUE
(* A write is applied only to the revision it was planned for. *)
Applies(i) == i.expected = Latest

(* ... and applies or rejects it in another, also when nobody waits any    *)
(* more.  The receipt is recorded with the content.                        *)
Apply(c, o) ==
  /\ intent[c][o] # None
  /\ LET i == intent[c][o] IN
       /\ i.state = "commit_requested"
       /\ IF Applies(i)
          THEN /\ history' = Append(history, [text |-> i.request,
                                              op |-> <<c, o>>])
               /\ intent' = [intent EXCEPT ![c][o].state = "committed",
                                           ![c][o].rev = Latest + 1]
          ELSE /\ intent' = [intent EXCEPT ![c][o].state = "rejected"]
               /\ UNCHANGED history
  /\ UNCHANGED <<ckpt, late, mem, task, copies, edits, limits>>

Committed(c) ==
  /\ At(c, "commit")
  /\ intent[c][mem[c].state.op.id].state \in Settled
  /\ Goto(c, "settled")
  /\ UNCHANGED <<hostVars, ckpt, late, mem, copies, edits, limits>>

(* Mistake: the stored text replaces the draft. *)
CanonicalOnly(submitted, canonical, current) == canonical
(* canonicalDraft(): what becomes of the draft when the text submitted was *)
(* stored as canonical.                                                    *)
CanonicalDraft(submitted, canonical, current) ==
  IF current = submitted THEN canonical
  ELSE IF canonical = submitted THEN current
  ELSE IF submitted["body"] = canonical["body"]
          /\ submitted["front"] = current["front"]
  THEN [current EXCEPT !["front"] = canonical["front"]]
  ELSE None

(* reconcileDurableWrite(), and what resume() makes of it: a note that     *)
(* advanced past the commit is a conflict.                                 *)
Reconciled(s, i) ==
  LET draft == IF managed
               THEN CanonicalDraft(s.op.content, s.op.request, s.draft)
               ELSE s.draft
      acked == [s EXCEPT !.op.ack = i.state]
  IN IF i.state = "rejected" \/ Latest # i.rev
     THEN [acked EXCEPT !.conflict = TRUE]
     ELSE IF draft = None
     THEN [acked EXCEPT !.base = i.rev, !.conflict = TRUE]
     ELSE [acked EXCEPT !.base = i.rev, !.draft = draft]

Reconcile(c) ==
  /\ At(c, "settled")
  /\ LET s == mem[c].state IN Sets(c, Reconciled(s, intent[c][s.op.id]))
  /\ SaveThen(c, "ack")
  /\ UNCHANGED <<hostVars, ckpt, late, copies, edits, limits>>

AcknowledgeIntent(c) ==
  /\ At(c, "ack")
  /\ LET op == mem[c].state.op
         i == intent[c][op.id]
     IN /\ i # None /\ i.state = op.ack /\ ~i.acked
        /\ intent' = [intent EXCEPT ![c][op.id].acked = TRUE]
  /\ UNCHANGED <<history, ckpt, late, mem, task, copies, edits, limits>>

Acknowledged(c) ==
  /\ At(c, "ack")
  /\ LET i == intent[c][mem[c].state.op.id] IN i # None /\ i.acked
  /\ Sets(c, [mem[c].state EXCEPT !.op = None])
  /\ SaveThen(c, task[c].back)
  /\ UNCHANGED <<hostVars, ckpt, late, copies, edits, limits>>

(* A new operation identity: no row, checkpoint or request knows it. *)
Retained(c) == {ckpt[c], late[c]} \cup
               (IF IsOpen(c) THEN {mem[c].state, mem[c].uncertain} ELSE {})
Fresh(c, o) ==
  /\ intent[c][o] = None
  /\ \A s \in Retained(c) \ {None} : s.op # None => s.op.id # o

-----------------------------------------------------------------------------
(* flush()                                                                 *)

Dirty(c) == LET s == mem[c].state IN
  \/ s.conflict \/ s.op # None \/ mem[c].uncertain # None
  \/ s.draft # Content(s.base)

Flush(c) ==
  /\ At(c, "idle") /\ Dirty(c) /\ ~mem[c].terminal
  /\ IF mem[c].uncertain # None THEN SaveThen(c, "flush") ELSE Goto(c, "flush")
  /\ UNCHANGED <<hostVars, ckpt, late, mem, copies, edits, limits>>

(* Mistake: a conflict keeps a retained operation from being settled. *)
FlushUnlessConflict(c) ==
  /\ At(c, "flush")
  /\ IF mem[c].state.conflict THEN Throws(c)
     ELSE /\ IF mem[c].state.op # None
             THEN ResumeThen(c, "flushed") ELSE Goto(c, "flushed")
          /\ UNCHANGED mem
  /\ UNCHANGED <<hostVars, ckpt, late, copies, edits, limits>>
(* A retained operation is settled first, also in a conflict. *)
FlushOperation(c) ==
  /\ At(c, "flush")
  /\ IF mem[c].state.op # None
     THEN ResumeThen(c, "flushed") ELSE Goto(c, "flushed")
  /\ UNCHANGED <<hostVars, ckpt, late, mem, copies, edits, limits>>

(* The head of the loop. *)
Flushed(c) ==
  /\ At(c, "flushed")
  /\ LET s == mem[c].state IN
       \/ /\ s.conflict
          /\ Throws(c)
       \/ /\ ~s.conflict /\ s.draft = Content(s.base)
          /\ SaveThen(c, "idle")
          /\ UNCHANGED mem
       \/ /\ ~s.conflict /\ s.draft # Content(s.base)
          /\ Goto(c, "plan")
          /\ UNCHANGED mem
  /\ UNCHANGED <<hostVars, ckpt, late, copies, edits, limits>>

(* composeText(): the generated front of the head with the user's body; it *)
(* refuses an edited front and a head whose body is not the baseline's.    *)
Composes(base, proposed) ==
  /\ proposed["front"] = Content(base)["front"]
  /\ Content(base)["body"] = Content(Latest)["body"]
(* Mistake: the generated front of the baseline is written back. *)
ComposedAsProposed(proposed) == proposed
Composed(proposed) == [proposed EXCEPT !["front"] = Content(Latest)["front"]]

(* Mistake: a definite rejection is treated as a failed call. *)
RetriedLater(s) == s
(* What flush() makes of a definite rejection. *)
PlanRejected(s) == [s EXCEPT !.conflict = TRUE]

(* planWrite(): what is submitted is planned for the head, unless the      *)
(* baseline is seen to be old (revision_conflict) or cannot be composed    *)
(* with it (collection_source_conflict): a definite conflict.              *)
Plan(c) ==
  /\ At(c, "plan")
  /\ LET s == mem[c].state
         Admitted == IF managed THEN Composes(s.base, s.draft)
                     ELSE s.base = Latest
     IN \/ /\ Admitted
           /\ \E o \in Ops :
                /\ Fresh(c, o)
                /\ \A n \in Ops : Fresh(c, n) => o <= n
                /\ Sets(c, [s EXCEPT !.op =
                     [id |-> o, content |-> s.draft, expected |-> Latest,
                      request |-> IF managed THEN Composed(s.draft)
                                  ELSE s.draft,
                      ref |-> FALSE, ack |-> "none"]])
           /\ ResumeThen(c, "flushed")
        \/ /\ ~Admitted
           /\ Sets(c, PlanRejected(s))
           /\ SaveThen(c, "idle")
  /\ UNCHANGED <<hostVars, ckpt, late, copies, edits, limits>>

-----------------------------------------------------------------------------
(* update(), load(), reload(), refreshManagedProjection()                  *)

Type(c, p) ==
  /\ IsOpen(c)
  /\ edits[c] < MaxEdits
  /\ edits' = [edits EXCEPT ![c] = @ + 1]
  /\ mem' = [mem EXCEPT ![c].state.draft[p] = [by |-> c, n |-> edits[c] + 1]]
  /\ UNCHANGED <<hostVars, ckpt, late, task, copies, limits>>

Clean(rev) == [base |-> rev, draft |-> Content(rev), conflict |-> FALSE,
               op |-> None]

(* Mistake: a checkpoint of an older revision is not opened. *)
AdoptedIfCurrent(s) ==
  IF s = None THEN Clean(Latest) ELSE IF s.base = Latest THEN s ELSE Clean(Latest)
(* The state a checkpoint is opened with. *)
Adopted(s) ==
  IF s = None THEN Clean(Latest)
  ELSE IF (s.op # None /\ s.op.ref) \/ s.base = Latest THEN s
  ELSE IF s.op = None /\ s.draft = Content(s.base)
  THEN [s EXCEPT !.base = Latest, !.draft = Content(Latest)]
  ELSE [s EXCEPT !.conflict = TRUE]

(* load() with deferRecovery, and startLoadRecovery(): the note is open,   *)
(* and the first task of its queue continues an operation whose reference  *)
(* was checkpointed.                                                       *)
Load(c) ==
  /\ ~IsOpen(c)
  /\ LET s == Adopted(ckpt[c]) IN
       /\ mem' = [mem EXCEPT ![c] =
                    [state |-> s, confirmed |-> ckpt[c], holds |-> TRUE,
                     uncertain |-> None, landed |-> FALSE,
                     terminal |-> FALSE]]
       /\ IF s.op # None /\ s.op.ref
          THEN ResumeThen(c, "opened") ELSE UNCHANGED task
  /\ UNCHANGED <<hostVars, ckpt, late, copies, edits, limits>>

(* The recovery is done. *)
Opened(c) ==
  /\ At(c, "opened")
  /\ task' = [task EXCEPT ![c] = Idle]
  /\ UNCHANGED <<hostVars, ckpt, late, mem, copies, edits, limits>>

Reload(c) ==
  /\ At(c, "idle")
  /\ IF mem[c].state.op # None
     THEN ResumeThen(c, "reload") ELSE Goto(c, "reload")
  /\ UNCHANGED <<hostVars, ckpt, late, mem, copies, edits, limits>>

Reloaded(c) ==
  /\ At(c, "reload")
  /\ LET s == mem[c].state IN
       \/ /\ s.draft = Content(s.base) /\ ~s.conflict
          /\ Sets(c, [s EXCEPT !.base = Latest, !.draft = Content(Latest)])
       \/ /\ s.draft # Content(s.base) \/ s.conflict
          /\ Sets(c, [s EXCEPT !.conflict = @ \/ Latest # s.base])
  /\ SaveThen(c, "idle")
  /\ UNCHANGED <<hostVars, ckpt, late, copies, edits, limits>>

RefreshManagedProjection(c) ==
  /\ At(c, "idle") /\ managed
  /\ mem[c].state.op = None /\ ~mem[c].state.conflict
  /\ task' = [task EXCEPT ![c].at = "refresh",
                          ![c].submitted = mem[c].state.draft]
  /\ UNCHANGED <<hostVars, ckpt, late, mem, copies, edits, limits>>

(* composeNote() and its answer: what was typed meanwhile is kept, or the  *)
(* refresh fails.                                                          *)
Refreshed(c) ==
  /\ At(c, "refresh")
  /\ LET s == mem[c].state
         sent == task[c].submitted
         draft == IF Composes(s.base, sent)
                  THEN CanonicalDraft(sent, Composed(sent), s.draft) ELSE None
     IN \/ /\ draft # None
           /\ Sets(c, [s EXCEPT !.base = Latest, !.draft = draft])
           /\ task' = [task EXCEPT ![c] = [Idle EXCEPT !.at = "save"]]
        \/ /\ draft = None
           /\ Throws(c)
  /\ UNCHANGED <<hostVars, ckpt, late, copies, edits, limits>>

-----------------------------------------------------------------------------
(* saveRecoveryCopy()                                                      *)

SaveRecoveryCopy(c) ==
  /\ At(c, "idle") /\ mem[c].state.conflict
  /\ IF mem[c].state.op # None
     THEN ResumeThen(c, "copy") ELSE Goto(c, "copy")
  /\ UNCHANGED <<hostVars, ckpt, late, mem, copies, edits, limits>>

Copy(c) ==
  /\ At(c, "copy")
  /\ copies' = copies \cup {mem[c].state.draft}
  /\ task' = [task EXCEPT ![c].at = "adopt", ![c].gen = edits[c]]
  /\ UNCHANGED <<hostVars, ckpt, late, mem, edits, limits>>

(* The latest version is adopted unless the user typed on. *)
Adopt(c) ==
  /\ At(c, "adopt")
  /\ IF edits[c] # task[c].gen
     THEN task' = [task EXCEPT ![c] = Idle]
     ELSE task' = [task EXCEPT ![c].at = "save", ![c].then = "copied",
                               ![c].adopted = Clean(Latest)]
  /\ UNCHANGED <<hostVars, ckpt, late, mem, copies, edits, limits>>

(* Mistake: edits made during the copy are not looked for again. *)
CopiedAnyway(c) ==
  /\ At(c, "copied")
  /\ Sets(c, task[c].adopted)
  /\ task' = [task EXCEPT ![c] = Idle]
  /\ UNCHANGED <<hostVars, ckpt, late, copies, edits, limits>>
(* The visible draft stays until the clean checkpoint is durable. *)
Copied(c) ==
  /\ At(c, "copied")
  /\ IF edits[c] # task[c].gen
     THEN /\ task' = [task EXCEPT ![c] = [Idle EXCEPT !.at = "save"]]
          /\ UNCHANGED mem
     ELSE /\ Sets(c, task[c].adopted)
          /\ task' = [task EXCEPT ![c] = Idle]
  /\ UNCHANGED <<hostVars, ckpt, late, copies, edits, limits>>

-----------------------------------------------------------------------------
(* The world, and what goes wrong                                          *)

Written == Cardinality({r \in DOMAIN history : history[r].op = None}) - 1

Advance(p) ==
  /\ Written < MaxWorld
  /\ history' = Append(history,
       [text |-> [Content(Latest) EXCEPT ![p] = [by |-> World,
                                               n |-> Written + 1]],
        op |-> None])
  /\ UNCHANGED <<intent, ckpt, late, mem, task, copies, edits, limits>>

(* A call fails or its answer is lost, or validate() throws.  The recovery *)
(* of a loaded note repeats a call that failed for the moment              *)
(* (note-load-supervisor.ts), so there it is a failure for good.           *)
Awaiting == {"saving", "retry", "prepare", "query", "commit", "settled",
             "ack", "plan", "reload", "refresh", "copy", "adopt"}

Fail(c) ==
  /\ IsOpen(c)
  /\ \/ task[c].at \in Awaiting
     \/ Recovering(c) /\ task[c].at = "save" /\ task[c].then = "resume"
  /\ faults < MaxFaults
  /\ faults' = faults + 1
  /\ Throws(c)
  /\ UNCHANGED <<hostVars, ckpt, late, copies, edits, crashes, managed>>

(* The session dies; its last checkpoint may still be on its way.  Nothing *)
(* else closes a note whose recovery failed, so there it is not counted.   *)
Crash(c) ==
  /\ IsOpen(c)
  /\ \/ mem[c].terminal /\ UNCHANGED crashes
     \/ ~mem[c].terminal /\ crashes < MaxCrashes /\ crashes' = crashes + 1
  /\ \/ UNCHANGED late
     \/ /\ Lates
        /\ mem[c].uncertain # None /\ mem[c].holds /\ ~mem[c].landed
        /\ late' = [late EXCEPT ![c] = mem[c].uncertain]
  /\ mem' = [mem EXCEPT ![c] = None]
  /\ task' = [task EXCEPT ![c] = Idle]
  /\ UNCHANGED <<hostVars, ckpt, copies, edits, faults, managed>>

-----------------------------------------------------------------------------

(* What a running task and the host it waits for do. *)
Runs(c) ==
  \/ Persist(c) \/ CompareAndSwap(c) \/ Swapped(c)
  \/ Resume(c) \/ PrepareIntent(c) \/ Prepared(c) \/ Query(c)
  \/ RequestCommit(c) \/ (\E o \in Ops : Apply(c, o)) \/ Committed(c)
  \/ Reconcile(c) \/ AcknowledgeIntent(c) \/ Acknowledged(c)
  \/ FlushOperation(c) \/ Flushed(c) \/ Plan(c)
  \/ Opened(c) \/ Reloaded(c) \/ Refreshed(c) \/ Copy(c) \/ Adopt(c) \/ Copied(c)

(* What the editor asks for. *)
Calls(c) ==
  \/ \E p \in Parts : Type(c, p)
  \/ Checkpoint(c) \/ Flush(c) \/ Load(c) \/ Reload(c)
  \/ RefreshManagedProjection(c) \/ SaveRecoveryCopy(c)

Next ==
  \/ \E c \in Clients : Runs(c) \/ Calls(c) \/ LateSwap(c) \/ Fail(c) \/ Crash(c)
  \/ \E p \in Parts : Advance(p)

Spec == Init /\ [][Next]_vars

(* The host answers a call, and a note that was closed is opened again.    *)
(* Autosave does not repeat a save that failed: SF(Flush) stands for the   *)
(* user, whose next edit, save or navigation flushes a dirty note; it is   *)
(* strong because other tasks take turns with it in a first in, first out  *)
(* queue.                                                                  *)
Fairness == \A c \in Clients :
  WF_vars(Runs(c)) /\ SF_vars(Flush(c)) /\ WF_vars(Load(c))
FairSpec == Spec /\ Fairness

-----------------------------------------------------------------------------
(* Properties                                                              *)

TypeOK ==
  /\ history \in Seq([text : Text, op : (Clients \X Ops) \cup {None}])
  /\ Latest >= 1
  /\ intent \in [Clients -> [Ops -> Intent \cup {None}]]
  /\ ckpt \in [Clients -> State \cup {None}]
  /\ late \in [Clients -> State \cup {None}]
  /\ mem \in [Clients -> Session \cup {None}]
  /\ task \in [Clients -> Task]
  /\ copies \subseteq Text
  /\ edits \in [Clients -> 0..MaxEdits]
  /\ crashes \in 0..MaxCrashes /\ faults \in 0..MaxFaults
  /\ managed \in Kinds

(* "Persist plan BEFORE prepare; persist returned ref BEFORE commit;       *)
(* reconcile and persist settled outcome BEFORE acknowledge"               *)
(* (durable-writes.ts): until an intent is acknowledged its client's       *)
(* durable checkpoint retains the operation, its reference from the        *)
(* authorisation on, and its settled outcome when it is acknowledged.      *)
IntentsAreCheckpointed ==
  \A c \in Clients, o \in Ops : intent[c][o] # None =>
    LET i == intent[c][o]
        Kept == ckpt[c] # None /\ ckpt[c].op # None /\ ckpt[c].op.id = o
    IN /\ ~i.acked => Kept /\ ckpt[c].op.request = i.request
       /\ ~i.acked /\ i.state # "prepared" => ckpt[c].op.ref
       /\ i.acked /\ Kept => ckpt[c].op.ack = i.state

(* What a client typed in old is kept or typed over in new or a saved text.*)
Keeps(c, old, new) ==
  \E t \in {new} \cup copies' \cup {history'[r].text : r \in DOMAIN history'} :
    \A p \in Parts : old[p].by = c => t[p].by = c /\ t[p].n >= old[p].n

(* No step of a save, a conflict, a reload, a recovery or a restart loses  *)
(* what the user typed: the draft of an open note, of its checkpoint and   *)
(* of the note opened from that checkpoint keep it until the same part is  *)
(* typed over or the text is in the history or in a recovery copy.         *)
DraftSurvives ==
  [][\A c \in Clients :
       /\ mem[c] # None /\ mem'[c] # None =>
            Keeps(c, mem[c].state.draft, mem'[c].state.draft)
       /\ ckpt[c] # None =>
            ckpt'[c] # None /\ Keeps(c, ckpt[c].draft, ckpt'[c].draft)
       /\ ckpt[c] # None /\ mem[c] = None /\ mem'[c] # None =>
            Keeps(c, ckpt[c].draft, mem'[c].state.draft)]_vars

(* A save changes the note only by what its client typed since: whatever   *)
(* the retries, crashes and rebasing, no part that somebody replaced comes *)
(* back, and no operation writes twice.                                    *)
NoSilentRevert ==
  \A r \in 2..Latest :
    /\ history[r].op # None =>
         \A q \in 1..(r - 1) : history[q].op # history[r].op
    /\ \A p \in Parts : history[r].text[p] # history[r - 1].text[p] =>
         \A q \in 1..(r - 1) : history[q].text[p] # history[r].text[p]

(* A checkpointed draft is in the end saved, shown as a conflict or, by    *)
(* then, replaced by a newer one.  A note whose recovery failed shows that *)
(* and saves nothing until it is opened again.                             *)
Saved(c) ==
  ckpt[c] # None =>
    \/ IsOpen(c) /\ (mem[c].state.conflict \/ mem[c].terminal)
    \/ ckpt[c].op = None /\ ckpt[c].draft = Content(ckpt[c].base)
DraftsSettle == \A c \in Clients : []<>Saved(c)

(* An intent is settled and acknowledged, unless its note shows that the   *)
(* recovery failed; once opened again the note goes on with it.            *)
IntentsSettle ==
  \A c \in Clients, o \in Ops :
    (intent[c][o] # None) ~>
      \/ intent[c][o] # None /\ intent[c][o].acked
      \/ IsOpen(c) /\ mem[c].terminal

(* Both: neither a draft nor an intent of the host stays behind for ever   *)
(* after a conflict, a lost answer or a restart (note-durable-state.ts:736)*)
SavesSettle == DraftsSettle /\ IntentsSettle
=============================================================================
