------------------------------ MODULE NativeSync ------------------------------
(***************************************************************************)
(* Native replicas exchanging sealed updates of one vault through the      *)
(* relay: the sweep of crates/zorid-native-sync (once), the envelope       *)
(* ledger of crates/zorid-store it works on (family_store, family_ledger,  *)
(* family_ingress) and, as its environment, the relay's log (RelayLog).    *)
(*                                                                         *)
(* A replica is one vault database.  Several processes (the CLI, its       *)
(* watcher, the desktop host) run sweeps on the same database; each call   *)
(* of the store is one SQLite transaction, except family_seal, which reads *)
(* in one and installs its ciphertext in another.  vault.lock serialises   *)
(* whole store calls of native hosts; the model does without it, as the    *)
(* store's own comments do, and so allows more interleavings.  No lock is  *)
(* held over a request.                                                    *)
(*                                                                         *)
(* A ciphertext has a fresh random nonce, so the one process p makes of    *)
(* update u is named <<u, p>>: a second attempt of p replaces a candidate  *)
(* that was never stored or sent.  Update identities are fresh UUIDs, so   *)
(* an update has one author.                                               *)
(***************************************************************************)
EXTENDS Naturals, Sequences, FiniteSets

CONSTANTS
  Replicas, Procs,
  Home,       \* the replica a process works on
  Updates,    \* update identities, ordered as family_pending_authored does
  Author,     \* the replica that allocates an identity
  MaxPush,    \* SyncLimits.max_push
  MaxPages,   \* SyncLimits.max_pages
  PageItems,  \* most items in a page (rpc::MAX_ITEMS, MAX_PAGE_BYTES)
  MaxEpoch,   \* bound: restores of the relay
  MaxFaults,  \* bound: crashes, lost requests and lost answers
  None

VARIABLES
  epoch,     \* the relay's server epoch
  log,       \* per epoch: the relay's log of the vault
  sent,      \* Append requests not handled yet
  authored,  \* per replica: authored_envelopes rows
  ledger,    \* per replica: exact wire in sync_envelopes
  cursor,    \* per replica: receive_cursors row
  cred,      \* per process: server epoch pinned in its credentials
  sweep,     \* per process: where it is in once()
  faults     \* crashes and losses so far

relayVars == <<epoch, log>>
storeVars == <<authored, ledger, cursor>>
vars == <<epoch, log, sent, authored, ledger, cursor, cred, sweep, faults>>

EpochNumbers == 1..MaxEpoch
Wire == Updates \X Procs
Entry == [id : Updates, wire : Wire]
Cursor == [epoch : EpochNumbers, after : Nat]
Intent == [sealed : Wire \cup {None}, accepted : BOOLEAN]
Request == [id : Updates, wire : Wire, epoch : EpochNumbers,
            from : Procs \cup {None}]

ASSUME ConstantsAssumption ==
  /\ Home \in [Procs -> Replicas]
  /\ Updates \subseteq Nat
  /\ Author \in [Updates -> Replicas]
  /\ MaxPush \in Nat /\ MaxPages \in Nat
  /\ PageItems \in Nat \ {0}
  /\ MaxEpoch \in Nat \ {0} /\ MaxFaults \in Nat

(* None is none of the values it stands for the absence of. *)
ASSUME NoneAssumption ==
  /\ None \notin Procs /\ None \notin Nat
  /\ None \notin Wire /\ None \notin Cursor /\ None \notin Intent

(* The steps of once(). *)
Steps == {"idle", "cursor", "start", "list", "push", "install", "send",
          "await", "ack", "pull", "receive"}
Sweep == [at : Steps,
          after   : Nat,                  \* in-memory cursor
          todo    : SUBSET Updates,       \* listed, not yet acknowledged
          current : Updates \cup {None},  \* update being pushed
          wire    : Wire \cup {None},     \* candidate or canonical ciphertext
          pages   : Nat,                  \* pages still allowed
          items   : Seq(Entry),           \* rest of the page
          through : Nat \cup {None}]      \* fixed bound of the pull

Idle == [at |-> "idle", after |-> 0, todo |-> {}, current |-> None,
         wire |-> None, pages |-> 0, items |-> << >>, through |-> None]

Row(p) == authored[Home[p]]
Ids(s) == {s[i].id : i \in 1..Len(s)}

Init ==
  /\ epoch = 1
  /\ log = [e \in EpochNumbers |-> << >>]
  /\ sent = {}
  /\ authored = [r \in Replicas |-> [u \in Updates |-> None]]
  /\ ledger = [r \in Replicas |-> [u \in Updates |-> None]]
  /\ cursor = [r \in Replicas |-> None]
  /\ cred = [p \in Procs |-> 1]
  /\ sweep = [p \in Procs |-> Idle]
  /\ faults = 0

Becomes(p, s) == sweep' = [sweep EXCEPT ![p] = s]
Goto(p, step) == Becomes(p, [sweep[p] EXCEPT !.at = step])
Finish(p) == Becomes(p, Idle)

-------------------------------------------------------------------------------
(* The host commits a mutation: insert_authored, unless the identity is    *)
(* already known to the ledger.                                            *)
InsertAuthored(u) ==
  LET r == Author[u] IN
  /\ authored[r][u] = None /\ ledger[r][u] = None
  /\ authored' = [authored EXCEPT
       ![r][u] = [sealed |-> None, accepted |-> FALSE]]
  /\ UNCHANGED <<relayVars, sent, ledger, cursor, cred, sweep, faults>>

-------------------------------------------------------------------------------
(* A sweep up to its upload phase.                                         *)

(* Mistake: answers are taken without comparing their epoch. *)
ServedByAny(p) == TRUE
(* The relay that answers has the epoch the credentials pin: Hello names   *)
(* it, and the relay refuses the tokens of another epoch.                  *)
Served(p) == cred[p] = epoch

(* Relay::connect. *)
Connect(p) ==
  /\ sweep[p].at = "idle"
  /\ Served(p)
  /\ Goto(p, "cursor")
  /\ UNCHANGED <<relayVars, sent, storeVars, cred, faults>>

(* family_receive_cursor; a cursor of another epoch ends the sweep. *)
OpenCursor(p) ==
  LET c == cursor[Home[p]] IN
  /\ sweep[p].at = "cursor"
  /\ \/ c = None /\ Goto(p, "start")
     \/ /\ c # None /\ c.epoch = cred[p]
        /\ Becomes(p, [sweep[p] EXCEPT !.at = "list", !.after = c.after])
     \/ c # None /\ c.epoch # cred[p] /\ Finish(p)
  /\ UNCHANGED <<relayVars, sent, storeVars, cred, faults>>

(* Mistake: a new replica starts at the relay's head. *)
StartAtHead(p) == [epoch |-> cred[p], after |-> Len(log[cred[p]])]
(* A replica without a cursor starts at the beginning of the epoch. *)
Start(p) == [epoch |-> cred[p], after |-> 0]

(* family_set_receive_cursor(None, start): creates the cursor or repeats   *)
(* it exactly; anything else is a CursorConflict.                          *)
SetReceiveCursor(p) ==
  LET r == Home[p] IN
  /\ sweep[p].at = "start"
  /\ \/ /\ cursor[r] \in {None, Start(p)}
        /\ cursor' = [cursor EXCEPT ![r] = Start(p)]
        /\ Goto(p, "list")
     \/ cursor[r] \notin {None, Start(p)} /\ Finish(p) /\ UNCHANGED cursor
  /\ UNCHANGED <<relayVars, sent, authored, ledger, cred, faults>>

(* Mistake: an update is uploaded by the sweep that seals it, or never. *)
PendingUnsealed(r) ==
  {u \in Updates : authored[r][u] # None /\ authored[r][u].sealed = None}
(* family_pending_authored: the rows that are not accepted. *)
Pending(r) ==
  {u \in Updates : authored[r][u] # None /\ ~authored[r][u].accepted}

(* family_pending_authored(None, max_push): the first ones by identity. *)
Listed(r) ==
  {u \in Pending(r) : Cardinality({x \in Pending(r) : x < u}) < MaxPush}

ListPending(p) ==
  /\ sweep[p].at = "list"
  /\ Becomes(p, [sweep[p] EXCEPT !.at = "push", !.todo = Listed(Home[p])])
  /\ UNCHANGED <<relayVars, sent, storeVars, cred, faults>>

-------------------------------------------------------------------------------
(* Upload: seal, push, acknowledge one update after the other.             *)

IsNext(p, u) == u \in sweep[p].todo /\ \A x \in sweep[p].todo : u <= x

(* Mistake: a candidate is sent before it is stored. *)
SealInMemory(p, u) ==
  /\ sweep[p].at = "push"
  /\ IsNext(p, u)
  /\ Becomes(p, [sweep[p] EXCEPT
                !.at = "send", !.current = u, !.wire = <<u, p>>])
  /\ UNCHANGED <<relayVars, sent, storeVars, cred, faults>>

(* family_seal, first transaction: the stored ciphertext wins; otherwise   *)
(* the process makes a candidate.                                          *)
SealRead(p, u) ==
  /\ sweep[p].at = "push"
  /\ IsNext(p, u)
  /\ Row(p)[u] # None
  /\ IF Row(p)[u].sealed # None
       THEN Becomes(p, [sweep[p] EXCEPT
                       !.at = "send", !.current = u,
                       !.wire = Row(p)[u].sealed])
       ELSE Becomes(p, [sweep[p] EXCEPT
                       !.at = "install", !.current = u, !.wire = <<u, p>>])
  /\ UNCHANGED <<relayVars, sent, storeVars, cred, faults>>

(* Mistake: a process that lost the race goes on with its own bytes. *)
Candidate(p) == sweep[p].wire
(* The bytes a seal returns: the winner's. *)
Canonical(p) ==
  IF Row(p)[sweep[p].current].sealed = None
    THEN sweep[p].wire ELSE Row(p)[sweep[p].current].sealed

(* install_sealed: the first candidate becomes the only ciphertext.  A     *)
(* ledger row under an unsealed intent is a DedupeMismatch.                *)
InstallSealed(p) ==
  LET r == Home[p]
      u == sweep[p].current IN
  /\ sweep[p].at = "install"
  /\ \/ /\ Row(p)[u].sealed # None
        /\ Becomes(p, [sweep[p] EXCEPT !.at = "send", !.wire = Canonical(p)])
        /\ UNCHANGED <<authored, ledger>>
     \/ /\ Row(p)[u].sealed = None /\ ledger[r][u] = None
        /\ authored' = [authored EXCEPT ![r][u].sealed = sweep[p].wire]
        /\ ledger' = [ledger EXCEPT ![r][u] = sweep[p].wire]
        /\ Becomes(p, [sweep[p] EXCEPT !.at = "send", !.wire = Canonical(p)])
     \/ /\ Row(p)[u].sealed = None /\ ledger[r][u] # None
        /\ Finish(p)
        /\ UNCHANGED <<authored, ledger>>
  /\ UNCHANGED <<relayVars, sent, cursor, cred, faults>>

(* push: one unary Append, never repeated by the transport. *)
Send(p) ==
  /\ sweep[p].at = "send"
  /\ sent' = sent \cup {[id |-> sweep[p].current, wire |-> sweep[p].wire,
                         epoch |-> cred[p], from |-> p]}
  /\ Goto(p, "await")
  /\ UNCHANGED <<relayVars, storeVars, cred, faults>>

(* Mistake: any answer counts as an acknowledgement. *)
AnyAnswer(m, step) ==
  IF m.from = None THEN UNCHANGED sweep ELSE Goto(m.from, "ack")
(* The answer reaches the sweep only if it still waits for it. *)
Answer(m, step) ==
  IF m.from = None THEN UNCHANGED sweep
  ELSE IF step = "idle" THEN Finish(m.from) ELSE Goto(m.from, step)

(* The relay handles an Append (AppendUpdate of RelayStore).  Its token is *)
(* accepted only by the database that issued it (TokensStayHome), so after *)
(* a restore an old request is refused.                                    *)
RelayAppend(m) ==
  LET current == log[epoch] IN
  /\ m \in sent
  /\ sent' = sent \ {m}
  /\ \/ /\ m.epoch = epoch /\ m.id \notin Ids(current)
        /\ log' = [log EXCEPT ![epoch] =
                     Append(@, [id |-> m.id, wire |-> m.wire])]
        /\ Answer(m, "ack")
     \/ /\ m.epoch = epoch
        /\ \E i \in 1..Len(current) :
             current[i].id = m.id /\ current[i].wire = m.wire
        /\ Answer(m, "ack")
        /\ UNCHANGED log
     \/ /\ \/ m.epoch # epoch
           \/ \E i \in 1..Len(current) :
                current[i].id = m.id /\ current[i].wire # m.wire
        /\ Answer(m, "idle")
        /\ UNCHANGED log
  /\ UNCHANGED <<epoch, storeVars, cred, faults>>

(* family_ack with the exact bytes that were pushed. *)
Acknowledge(p) ==
  LET u == sweep[p].current IN
  /\ sweep[p].at = "ack"
  /\ \/ /\ Row(p)[u].sealed = sweep[p].wire
        /\ authored' = [authored EXCEPT ![Home[p]][u].accepted = TRUE]
        /\ Becomes(p, [sweep[p] EXCEPT
                      !.at = "push", !.current = None, !.wire = None,
                      !.todo = @ \ {u}])
     \/ Row(p)[u].sealed # sweep[p].wire /\ Finish(p) /\ UNCHANGED authored
  /\ UNCHANGED <<relayVars, sent, ledger, cursor, cred, faults>>

UploadDone(p) ==
  /\ sweep[p].at = "push" /\ sweep[p].todo = {}
  /\ Becomes(p, [sweep[p] EXCEPT !.at = "pull", !.pages = MaxPages])
  /\ UNCHANGED <<relayVars, sent, storeVars, cred, faults>>

-------------------------------------------------------------------------------
(* Download: pages up to a bound fixed by the first one.                   *)

(* Mistake: one page too many. *)
OneMorePage(p) == sweep[p].pages >= 0
(* The page limit of the sweep is not reached. *)
MorePages(p) == sweep[p].pages > 0

(* pull: the relay's rows after the cursor, at most PageItems and at most  *)
(* up to through.  Nothing is left after a complete page or max_pages.     *)
Pull(p) ==
  LET s == sweep[p]
      through == IF s.through = None THEN Len(log[epoch]) ELSE s.through IN
  /\ s.at = "pull"
  /\ \/ /\ MorePages(p) /\ Served(p)
        /\ s.after <= through /\ through <= Len(log[epoch])
        /\ \E last \in s.after..through :
             /\ last <= s.after + PageItems
             /\ last = s.after => s.after = through
             /\ Becomes(p, [sweep[p] EXCEPT
                           !.at = "receive",
                           !.items = SubSeq(log[epoch], s.after + 1, last),
                           !.through = through, !.pages = @ - 1])
     \/ /\ \/ ~MorePages(p) \/ ~Served(p)
           \/ s.after > through \/ through > Len(log[epoch])
        /\ Finish(p)
  /\ UNCHANGED <<relayVars, sent, storeVars, cred, faults>>

(* What the ledger says to an incoming envelope: new, an exact duplicate   *)
(* (the echo of an own update too) or a DedupeMismatch.                    *)
IsNew(r, m) == ledger[r][m.id] = None /\ authored[r][m.id] = None
IsDuplicate(r, m) == ledger[r][m.id] = m.wire
Receivable(r, m) == IsNew(r, m) \/ IsDuplicate(r, m)

(* Mistake: the advance compares only the epoch of the durable cursor. *)
IsSameEpoch(p) == cursor[Home[p]] # None /\ cursor[Home[p]].epoch = cred[p]
(* The expected cursor of the advance is the durable one. *)
IsCurrent(p) ==
  cursor[Home[p]] = [epoch |-> cred[p], after |-> sweep[p].after]

(* family_receive with a CursorAdvance: ledger row and cursor commit       *)
(* together, or neither does.  Its second transaction repeats every check  *)
(* of its first one against the state it commits to.                       *)
Receive(p) ==
  LET r == Home[p]
      s == sweep[p]
      m == Head(s.items) IN
  /\ s.at = "receive" /\ s.items # << >>
  /\ \/ /\ IsCurrent(p) /\ Receivable(r, m)
        /\ ledger' = [ledger EXCEPT ![r][m.id] = m.wire]
        /\ cursor' = [cursor EXCEPT ![r].after = s.after + 1]
        /\ Becomes(p, [sweep[p] EXCEPT
                      !.after = s.after + 1, !.items = Tail(s.items)])
     \/ /\ ~(IsCurrent(p) /\ Receivable(r, m))
        /\ Finish(p)
        /\ UNCHANGED <<ledger, cursor>>
  /\ UNCHANGED <<relayVars, sent, authored, cred, faults>>

(* A page is done: the last one ends the sweep. *)
PageDone(p) ==
  LET s == sweep[p] IN
  /\ s.at = "receive" /\ s.items = << >>
  /\ IF s.after = s.through THEN Finish(p) ELSE Goto(p, "pull")
  /\ UNCHANGED <<relayVars, sent, storeVars, cred, faults>>

-------------------------------------------------------------------------------
(* Faults.                                                                 *)

Fault == faults < MaxFaults /\ faults' = faults + 1

(* A sweep ends anywhere: its process dies, a deadline expires, a lock     *)
(* times out.  A request already sent may still be handled, or its answer  *)
(* is on the way; nobody waits for it any more.                            *)
Abort(p) ==
  /\ Fault
  /\ sweep[p].at # "idle"
  /\ Finish(p)
  /\ sent' = {[m EXCEPT !.from = IF @ = p THEN None ELSE @] : m \in sent}
  /\ UNCHANGED <<relayVars, storeVars, cred>>

Lose(m) ==
  /\ Fault
  /\ m \in sent
  /\ sent' = sent \ {m}
  /\ Answer(m, "idle")
  /\ UNCHANGED <<relayVars, storeVars, cred>>

(* Mistake: the restored relay keeps its epoch. *)
RestoreSameEpoch ==
  /\ epoch < MaxEpoch
  /\ \E n \in 0..Len(log[epoch]) :
       log' = [log EXCEPT ![epoch] = SubSeq(log[epoch], 1, n)]
  /\ UNCHANGED <<epoch, sent, storeVars, cred, sweep, faults>>

(* The operator replaces the relay by one restored from a backup of any    *)
(* earlier epoch: a new epoch and a prefix of that epoch's log.            *)
RestoreRelay ==
  /\ epoch < MaxEpoch
  /\ epoch' = epoch + 1
  /\ \E e \in 1..epoch : \E n \in 0..Len(log[e]) :
       log' = [log EXCEPT ![epoch + 1] = SubSeq(log[e], 1, n)]
  /\ UNCHANGED <<sent, storeVars, cred, sweep, faults>>

(* The owner of a process installs credentials for the relay's new epoch.  *)
Reprovision(p) ==
  /\ sweep[p].at = "idle" /\ cred[p] # epoch
  /\ cred' = [cred EXCEPT ![p] = epoch]
  /\ UNCHANGED <<relayVars, sent, storeVars, sweep, faults>>

-------------------------------------------------------------------------------
Step(p) ==
  \/ OpenCursor(p) \/ SetReceiveCursor(p) \/ ListPending(p)
  \/ \E u \in Updates : SealRead(p, u)
  \/ InstallSealed(p) \/ Send(p) \/ Acknowledge(p) \/ UploadDone(p)
  \/ Pull(p) \/ Receive(p) \/ PageDone(p)

Next ==
  \/ \E u \in Updates : InsertAuthored(u)
  \/ \E p \in Procs : Connect(p) \/ Step(p)
  \/ \E m \in sent : RelayAppend(m)
  \/ \E p \in Procs : Abort(p)
  \/ \E m \in sent : Lose(m)
  \/ RestoreRelay
  \/ \E p \in Procs : Reprovision(p)

Spec == Init /\ [][Next]_vars

(* A started sweep goes on, and the relay handles a request it got: calls  *)
(* and deadlines are bounded.  Sweeps are started again and again: by      *)
(* watch::run after a success or a transport error, and after an error it  *)
(* stops on (sync_conflict, a lost race) by whoever runs the host again.   *)
Fairness ==
  /\ \A p \in Procs : WF_vars(Connect(p)) /\ WF_vars(Step(p))
  /\ WF_vars(\E m \in sent : RelayAppend(m))

FairSpec == Spec /\ Fairness
-------------------------------------------------------------------------------
(* Properties.                                                             *)

(* Every variable has its type. *)
TypeOK ==
  /\ epoch \in EpochNumbers
  /\ log \in [EpochNumbers -> Seq(Entry)]
  /\ sent \subseteq Request
  /\ authored \in [Replicas -> [Updates -> Intent \cup {None}]]
  /\ ledger \in [Replicas -> [Updates -> Wire \cup {None}]]
  /\ cursor \in [Replicas -> Cursor \cup {None}]
  /\ cred \in [Procs -> EpochNumbers]
  /\ sweep \in [Procs -> Sweep]
  /\ faults \in 0..MaxFaults

Entries(e) == {log[e][i] : i \in 1..Len(log[e])}

(* Every ciphertext of an update that was ever stored, sent or accepted. *)
Ciphertexts(u) ==
  ({ledger[r][u] : r \in Replicas} \ {None})
    \cup {m.wire : m \in {x \in sent : x.id = u}}
    \cup {m.wire : m \in {x \in UNION {Entries(e) : e \in EpochNumbers} :
                           x.id = u}}

(* An update has one ciphertext everywhere, although processes seal it      *)
(* concurrently, crash between sealing and sending, and repeat an upload    *)
(* whose answer was lost (family_seal, install_sealed, push).               *)
OneCiphertext ==
  \A u \in Updates : Cardinality(Ciphertexts(u)) <= 1

(* No replica ever meets an entry it must refuse: a DedupeMismatch would    *)
(* stop its sweep at that entry for good, since the cursor cannot pass it   *)
(* (insert_received, check_delivery).                                       *)
EveryEntryReceivable ==
  \A r \in Replicas, e \in EpochNumbers :
    \A m \in Entries(e) : Receivable(r, m)

(* A replica's cursor never passes an entry its ledger does not hold, with  *)
(* two processes pulling, crashes between entries and the relay restored.   *)
CursorCoversLog ==
  \A r \in Replicas :
    cursor[r] # None =>
      /\ cursor[r].after <= Len(log[cursor[r].epoch])
      /\ \A i \in 1..cursor[r].after :
           LET m == log[cursor[r].epoch][i] IN ledger[r][m.id] = m.wire

(* An intent is marked accepted only when the relay committed those bytes,  *)
(* and its sealed bytes are those of the ledger, whose disagreement the     *)
(* store reports as corruption (family_ack, metadata_only).                 *)
AcceptedIsLogged ==
  \A r \in Replicas, u \in Updates :
    authored[r][u] # None =>
      /\ authored[r][u].sealed = ledger[r][u]
      /\ authored[r][u].accepted =>
           \E e \in EpochNumbers :
             [id |-> u, wire |-> ledger[r][u]] \in Entries(e)

(* While the relay is not restored, every update a host committed reaches   *)
(* every replica, when faults end: no crash, lost request, lost answer or   *)
(* race between processes strands it.                                       *)
EveryUpdateArrives ==
  [](epoch = 1) =>
    \A u \in Updates :
      authored[Author[u]][u] # None ~> \A r \in Replicas : ledger[r][u] # None

(* What replicas know, and the relay's order, in terms of the ledgers and   *)
(* logs.                                                                    *)
Known == [r \in Replicas |->
  {u \in Updates : authored[r][u] # None \/ ledger[r][u] # None}]
Order == [e \in EpochNumbers |-> [i \in 1..Len(log[e]) |-> log[e][i].id]]

Delivery == INSTANCE VaultDelivery WITH
  order <- Order, held <- Known, position <- cursor

(* The sweeps, ledgers and relay together deliver the relay's order to      *)
(* every replica, none skipped and none twice.                              *)
DeliversInOrder == Delivery!Spec
===============================================================================
