------------------------------ MODULE RelayStore ------------------------------
(***************************************************************************)
(* The relay's durable store (crates/zorid-sync-server, lib.rs and         *)
(* snapshot.rs).                                                           *)
(*                                                                         *)
(* One SQLite file holds the accounts, devices, vaults, memberships and,   *)
(* per vault, an append-only log of sealed updates.  A file has a random   *)
(* epoch; a position is meaningful only together with the epoch.  An       *)
(* operator may copy a live file to a backup artifact while writers go on, *)
(* and turn a backup into a NEW live file.  Several live files can exist   *)
(* and be served at the same time (the file a restore replaces is never    *)
(* touched), so every operation names the file it works on.                *)
(*                                                                         *)
(* Every operation of RelayStore is one SQLite transaction and so one      *)
(* action here.  backup_to and restore_new are not: they pin a snapshot,   *)
(* prepare a private staging file and publish it with hard_link, and the   *)
(* relay goes on in between.  Every operation that returns an error leaves *)
(* the store unchanged: those returns are the negations of the guards.     *)
(*                                                                         *)
(* A 256-bit random value (token, epoch) never collides with one drawn     *)
(* before: issuer and drawnEpochs remember what was drawn.                 *)
(***************************************************************************)
EXTENDS Naturals, Sequences, FiniteSets

CONSTANTS
  Files,      \* database paths
  Operators,  \* privileged offline jobs that can run at the same time
  Accounts, Devices, Vaults,
  Tokens,     \* bearer tokens BearerToken::generate can return
  Epochs,     \* epochs random_epoch can return
  Updates,    \* update identities clients choose
  Wires,      \* encrypted envelopes, told apart by their bytes
  None        \* absent row, token, issuer or job

ASSUME NoneAssumption ==
  None \notin Files \cup Accounts \cup Tokens \cup Epochs

VARIABLES
  kind,         \* per file: no file, a live relay, a backup (application_id)
  db,           \* per file: its contents
  job,          \* per operator: the prepared snapshot not yet published
  issuer,       \* per token: the file whose operation returned it
  drawnEpochs,  \* epochs ever drawn
  observed      \* log positions a client was ever told of: receipts and pulls

vars == <<kind, db, job, issuer, drawnEpochs, observed>>

Access == {"none", "read", "write"}
Entry == [id : Updates, wire : Wires]
Db == [epoch    : Epochs \cup {None},
       accounts : SUBSET Accounts,
       vaults   : SUBSET Vaults,
       owner    : [Devices -> Accounts \cup {None}],
       token    : [Devices -> Tokens \cup {None}],
       revoked  : SUBSET Devices,
       access   : [Accounts -> [Vaults -> Access]],
       log      : [Vaults -> Seq(Entry)]]
Position == [epoch : Epochs, vault : Vaults, seq : Nat \ {0},
             id : Updates, wire : Wires]

EmptyDb(e) ==
  [epoch |-> e, accounts |-> {}, vaults |-> {},
   owner |-> [d \in Devices |-> None], token |-> [d \in Devices |-> None],
   revoked |-> {},
   access |-> [a \in Accounts |-> [v \in Vaults |-> "none"]],
   log |-> [v \in Vaults |-> << >>]]

Live(f) == kind[f] = "live"
FreshEpochs == Epochs \ drawnEpochs
FreshTokens == {t \in Tokens : issuer[t] = None}

(* The devices a bearer token speaks for in a file's rows. *)
Speaks(content, t) ==
  {d \in Devices : content.token[d] = t /\ d \notin content.revoked}

(* authorize: the token's device is not revoked and its account has access. *)
Authorized(content, t, v, write) ==
  \E d \in Speaks(content, t) :
    /\ content.owner[d] \in Accounts
    /\ content.access[content.owner[d]][v]
         \in IF write THEN {"write"} ELSE {"read", "write"}

(* Mistake: positions are counted from zero. *)
ToldFromZero(content, v, n) ==
  [epoch |-> content.epoch, vault |-> v, seq |-> n - 1,
   id |-> content.log[v][n].id, wire |-> content.log[v][n].wire]
(* What one row of a file's log tells a client. *)
Told(content, v, n) ==
  [epoch |-> content.epoch, vault |-> v, seq |-> n,
   id |-> content.log[v][n].id, wire |-> content.log[v][n].wire]

Init ==
  /\ kind = [f \in Files |-> "absent"]
  /\ db = [f \in Files |-> EmptyDb(None)]
  /\ job = [o \in Operators |-> None]
  /\ issuer = [t \in Tokens |-> None]
  /\ drawnEpochs = {}
  /\ observed = {}

-------------------------------------------------------------------------------
(* Provisioning by the operator.                                           *)

(* open on a path with no database: the schema and a fresh epoch.  On an   *)
(* existing live file open changes nothing; on a backup it fails.          *)
Open(f) ==
  /\ kind[f] = "absent"
  /\ \E e \in FreshEpochs :
       /\ db' = [db EXCEPT ![f] = EmptyDb(e)]
       /\ drawnEpochs' = drawnEpochs \cup {e}
  /\ kind' = [kind EXCEPT ![f] = "live"]
  /\ UNCHANGED <<job, issuer, observed>>

Provision(f, content) ==
  /\ db' = [db EXCEPT ![f] = content]
  /\ UNCHANGED <<kind, job, issuer, drawnEpochs, observed>>

CreateAccount(f, a) ==
  /\ Live(f)
  /\ a \notin db[f].accounts
  /\ Provision(f, [db[f] EXCEPT !.accounts = @ \cup {a}])

CreateVault(f, v) ==
  /\ Live(f)
  /\ v \notin db[f].vaults
  /\ Provision(f, [db[f] EXCEPT !.vaults = @ \cup {v}])

GrantAccess(f, a, v, level) ==
  /\ Live(f)
  /\ a \in db[f].accounts /\ v \in db[f].vaults   \* foreign keys
  /\ Provision(f, [db[f] EXCEPT !.access[a][v] = level])

RevokeAccess(f, a, v) ==
  /\ Live(f)
  /\ Provision(f, [db[f] EXCEPT !.access[a][v] = "none"])

RevokeDevice(f, d) ==
  /\ Live(f)
  /\ db[f].owner[d] # None
  /\ Provision(f, [db[f] EXCEPT !.revoked = @ \cup {d}])

IssueDevice(f, a, d) ==
  /\ Live(f)
  /\ a \in db[f].accounts
  /\ db[f].owner[d] = None
  /\ \E t \in FreshTokens :
       /\ db' = [db EXCEPT ![f].owner[d] = a, ![f].token[d] = t]
       /\ issuer' = [issuer EXCEPT ![t] = f]
  /\ UNCHANGED <<kind, job, drawnEpochs, observed>>

(* Mistake: the device gets its old token back. *)
ReviveDevice(f, a, d) ==
  /\ Live(f)
  /\ db[f].owner[d] = a
  /\ Provision(f, [db[f] EXCEPT !.revoked = @ \ {d}])

(* reauthorize_device: a NEW token; the replaced one stays unusable. *)
ReauthorizeDevice(f, a, d) ==
  /\ Live(f)
  /\ db[f].owner[d] = a
  /\ \E t \in FreshTokens :
       /\ db' = [db EXCEPT ![f].token[d] = t, ![f].revoked = @ \ {d}]
       /\ issuer' = [issuer EXCEPT ![t] = f]
  /\ UNCHANGED <<kind, job, drawnEpochs, observed>>

-------------------------------------------------------------------------------
(* Requests of clients.                                                    *)

(* Mistake: a retry is not recognised. *)
NeverExisting(f, v, u) == {}
(* The positions an update identity already has in a vault's log. *)
Existing(f, v, u) ==
  {n \in 1..Len(db[f].log[v]) : db[f].log[v][n].id = u}

(* append: a retry of the same bytes gets its old position, other bytes    *)
(* under the same identity are a Conflict, a new identity gets the next    *)
(* position.  The receipt leaves after the commit.                         *)
AppendUpdate(f, t, v, u, w) ==
  /\ Live(f)
  /\ Authorized(db[f], t, v, TRUE)
  /\ \/ /\ \E n \in Existing(f, v, u) :
             /\ db[f].log[v][n].wire = w
             /\ observed' = observed \cup {Told(db[f], v, n)}
        /\ UNCHANGED db
     \/ /\ Existing(f, v, u) = {}
        /\ db' = [db EXCEPT ![f].log[v] = Append(@, [id |-> u, wire |-> w])]
        /\ observed' = observed \cup {Told(db'[f], v, Len(db'[f].log[v]))}
  /\ UNCHANGED <<kind, job, issuer, drawnEpochs>>

(* pull: a page of the rows after the cursor, up to the row limit.  The    *)
(* cursor's epoch must be the file's.                                      *)
Pull(f, t, v, e, after, last) ==
  /\ Live(f)
  /\ Authorized(db[f], t, v, FALSE)
  /\ e = db[f].epoch
  /\ after < last
  /\ last <= Len(db[f].log[v])
  /\ observed' = observed \cup {Told(db[f], v, n) : n \in (after + 1)..last}
  /\ UNCHANGED <<kind, db, job, issuer, drawnEpochs>>

-------------------------------------------------------------------------------
(* Offline snapshots.  prepare works on a private staging file from a      *)
(* pinned read transaction, so what it does before publication is one step *)
(* taken at the time of the pin.                                           *)

(* backup_to: the pinned contents under the backup marker. *)
BackupPin(o, f, g) ==
  /\ job[o] = None
  /\ Live(f)
  /\ kind[g] = "absent"
  /\ job' = [job EXCEPT ![o] =
               [target |-> g, kind |-> "backup", db |-> db[f]]]
  /\ UNCHANGED <<kind, db, issuer, drawnEpochs, observed>>

(* Mistakes: a restored file keeps its epoch, or its credentials. *)
RestoredInPlace(content, e) ==
  [content EXCEPT !.revoked = {d \in Devices : content.owner[d] # None}]
RestoredWithDevices(content, e) == [content EXCEPT !.epoch = e]

(* prepare with restoring = true: a fresh epoch, and every device revoked. *)
Restored(content, e) ==
  [content EXCEPT !.epoch = e,
                  !.revoked = {d \in Devices : content.owner[d] # None}]

RestorePin(o, f, g) ==
  /\ job[o] = None
  /\ kind[f] = "backup"
  /\ kind[g] = "absent"
  /\ \E e \in FreshEpochs :
       /\ job' = [job EXCEPT ![o] =
                    [target |-> g, kind |-> "live", db |-> Restored(db[f], e)]]
       /\ drawnEpochs' = drawnEpochs \cup {e}
  /\ UNCHANGED <<kind, db, issuer, observed>>

(* Mistake: rename replaces a file that appeared meanwhile. *)
PublishOver(o) ==
  /\ job[o] # None
  /\ kind' = [kind EXCEPT ![job[o].target] = job[o].kind]
  /\ db' = [db EXCEPT ![job[o].target] = job[o].db]
  /\ job' = [job EXCEPT ![o] = None]
  /\ UNCHANGED <<issuer, drawnEpochs, observed>>

(* publish: hard_link never replaces a file that appeared meanwhile. *)
Publish(o) ==
  /\ job[o] # None
  /\ kind[job[o].target] = "absent"
  /\ kind' = [kind EXCEPT ![job[o].target] = job[o].kind]
  /\ db' = [db EXCEPT ![job[o].target] = job[o].db]
  /\ job' = [job EXCEPT ![o] = None]
  /\ UNCHANGED <<issuer, drawnEpochs, observed>>

(* The job fails or its process dies before publication: at most a private *)
(* staging file is left, which nothing adopts.                             *)
Abandon(o) ==
  /\ job[o] # None
  /\ job' = [job EXCEPT ![o] = None]
  /\ UNCHANGED <<kind, db, issuer, drawnEpochs, observed>>

-------------------------------------------------------------------------------
Administer(f) ==
  \/ Open(f)
  \/ \E a \in Accounts : CreateAccount(f, a)
  \/ \E v \in Vaults : CreateVault(f, v)
  \/ \E a \in Accounts, v \in Vaults, level \in {"read", "write"} :
       GrantAccess(f, a, v, level)
  \/ \E a \in Accounts, v \in Vaults : RevokeAccess(f, a, v)
  \/ \E d \in Devices : RevokeDevice(f, d)
  \/ \E a \in Accounts, d \in Devices : IssueDevice(f, a, d)
  \/ \E a \in Accounts, d \in Devices : ReauthorizeDevice(f, a, d)

Serve(f) ==
  \E t \in Tokens, v \in Vaults :
    \/ \E u \in Updates, w \in Wires : AppendUpdate(f, t, v, u, w)
    \/ \E e \in Epochs, after, last \in 0..Len(db[f].log[v]) :
         Pull(f, t, v, e, after, last)

Snapshot(o) ==
  \/ \E f, g \in Files : BackupPin(o, f, g)
  \/ \E f, g \in Files : RestorePin(o, f, g)
  \/ Publish(o)
  \/ Abandon(o)

Next ==
  \/ \E f \in Files : Administer(f) \/ Serve(f)
  \/ \E o \in Operators : Snapshot(o)

Spec == Init /\ [][Next]_vars

-------------------------------------------------------------------------------
(* Properties.                                                             *)

(* Every variable has its type. *)
TypeOK ==
  /\ kind \in [Files -> {"absent", "live", "backup"}]
  /\ db \in [Files -> Db]
  /\ job \in [Operators ->
       [target : Files, kind : {"live", "backup"}, db : Db] \cup {None}]
  /\ issuer \in [Tokens -> Files \cup {None}]
  /\ drawnEpochs \subseteq Epochs
  /\ observed \subseteq Position

(* A position that a client was ever told of, by a receipt or a page, holds *)
(* the same update with the same bytes in every live file of that epoch,    *)
(* whatever was appended, backed up or restored since (append, pull,        *)
(* backup_to, restore_new).                                                 *)
PositionsAreStable ==
  \A p \in observed, f \in Files :
    Live(f) /\ db[f].epoch = p.epoch
      => p.seq <= Len(db[f].log[p.vault]) /\ Told(db[f], p.vault, p.seq) = p

(* A retry after a lost answer gets the receipt the first attempt got: in   *)
(* one epoch an update identity has one position and one ciphertext.        *)
OneReceiptPerUpdate ==
  \A p, q \in observed :
    p.epoch = q.epoch /\ p.vault = q.vault /\ p.id = q.id => p = q

(* What clients were told stays true, and a retry is told the same again.   *)
ReceiptsHold == PositionsAreStable /\ OneReceiptPerUpdate

(* A bearer token authorizes only at the file that issued it: a restored    *)
(* file never accepts a credential of the file it was restored from.        *)
TokensStayHome ==
  \A f \in Files, t \in Tokens :
    Live(f) /\ Speaks(db[f], t) # {} => issuer[t] = f

(* The files where a token is accepted. *)
AcceptedAt(t) == {f \in Files : Live(f) /\ Speaks(db[f], t) # {}}

(* A token that was revoked or replaced, and so is accepted nowhere, is     *)
(* never accepted again: not by reauthorize_device, not by restoring a      *)
(* backup made while it was valid.                                          *)
RevocationIsFinal ==
  [][\A t \in Tokens :
       issuer[t] # None /\ AcceptedAt(t) = {} => AcceptedAt(t)' = {}]_vars

(* The logs of an epoch are those of its live file, if there is one. *)
ServedLogs ==
  [e \in Epochs |->
     IF \E f \in Files : kind[f] = "live" /\ db[f].epoch = e
       THEN db[CHOOSE f \in Files : kind[f] = "live" /\ db[f].epoch = e].log
       ELSE [v \in Vaults |-> << >>]]

Promise == INSTANCE RelayLog WITH
  established <- {db[f].epoch : f \in {g \in Files : Live(g)}},
  log <- ServedLogs

(* The files, copies, restores and credentials together keep the promise   *)
(* of RelayLog: one append-only log per epoch and vault, a restored epoch  *)
(* starting from a prefix of an earlier one.                               *)
KeepsPromise == Promise!Spec
===============================================================================
