---------------------------- MODULE RelayStoreProofs ----------------------------
(***************************************************************************)
(* Proofs about RelayStore, for every set of files, operators, accounts,   *)
(* devices, vaults, tokens, epochs and updates.                            *)
(***************************************************************************)
EXTENDS RelayStore, TLAPS, SequenceTheorems

-------------------------------------------------------------------------------
(* What a step does, by what it does to a file.                            *)

(* Who may use the file f is changed to c: a device keeps its token, and   *)
(* its revocation, or gets a token that was just drawn for this file.      *)
Credentials(f, c) ==
  \A d \in Devices :
    \/ /\ c.token[d] = db[f].token[d]
       /\ c.owner[d] = db[f].owner[d]
       /\ d \in db[f].revoked => d \in c.revoked
    \/ /\ c.token[d] \in FreshTokens
       /\ c.owner[d] # None
       /\ issuer'[c.token[d]] = f
Draws(f) ==
  \A t \in Tokens : issuer'[t] # issuer[t] => issuer[t] = None /\ issuer'[t] = f

Administered(f, c) ==
  /\ Live(f) /\ c \in Db
  /\ db' = [db EXCEPT ![f] = c]
  /\ c.epoch = db[f].epoch /\ c.log = db[f].log
  /\ Credentials(f, c) /\ Draws(f)
  /\ issuer' \in [Tokens -> Files \cup {None}]
  /\ UNCHANGED <<kind, job, drawnEpochs, observed>>

(* The file f is new: it has a new epoch and neither tokens nor entries. *)
Opened(f, e) ==
  /\ kind[f] = "absent"
  /\ e \in FreshEpochs
  /\ db' = [db EXCEPT ![f] = EmptyDb(e)]
  /\ kind' = [kind EXCEPT ![f] = "live"]
  /\ drawnEpochs' = drawnEpochs \cup {e}
  /\ UNCHANGED <<job, issuer, observed>>

(* A client is told of rows of the file f. *)
Answered(f) ==
  /\ Live(f)
  /\ observed \subseteq observed'
  /\ \A p \in observed' \ observed :
       \E v \in Vaults : \E n \in 1..Len(db[f].log[v]) :
         p = Told(db[f], v, n)
  /\ UNCHANGED <<kind, db, job, issuer, drawnEpochs>>

(* A new update gets the next position of the log of v, and its receipt. *)
Appended(f, v, m) ==
  /\ Live(f)
  /\ \A n \in 1..Len(db[f].log[v]) : db[f].log[v][n].id # m.id
  /\ db' = [db EXCEPT ![f].log[v] = Append(@, m)]
  /\ observed' = observed \cup {Told(db'[f], v, Len(db'[f].log[v]))}
  /\ UNCHANGED <<kind, job, issuer, drawnEpochs>>

Prepared(o, f, g) ==
  /\ Live(f)
  /\ job' = [job EXCEPT ![o] =
               [target |-> g, kind |-> "backup", db |-> db[f]]]
  /\ UNCHANGED <<kind, db, issuer, drawnEpochs, observed>>

PreparedRestore(o, f, g, e) ==
  /\ kind[f] = "backup"
  /\ e \in FreshEpochs
  /\ job' = [job EXCEPT ![o] =
               [target |-> g, kind |-> "live", db |-> Restored(db[f], e)]]
  /\ drawnEpochs' = drawnEpochs \cup {e}
  /\ UNCHANGED <<kind, db, issuer, observed>>

(* The rows of a file after an operation of its administrator. *)
LEMMA ProvisionedRows ==
  ASSUME NEW r \in Db
  PROVE  /\ \A a \in Accounts : [r EXCEPT !.accounts = @ \cup {a}] \in Db
         /\ \A v \in Vaults : [r EXCEPT !.vaults = @ \cup {v}] \in Db
         /\ \A a \in Accounts, v \in Vaults, level \in Access :
              [r EXCEPT !.access[a][v] = level] \in Db
         /\ \A d \in Devices : [r EXCEPT !.revoked = @ \cup {d}] \in Db
<1>1. ASSUME NEW a \in Accounts, NEW v \in Vaults, NEW level \in Access
      PROVE  [r EXCEPT !.access[a][v] = level] \in Db
  <2>1. r.access \in [Accounts -> [Vaults -> Access]]
    BY DEF Db
  <2>2. [r.access EXCEPT ![a][v] = level] \in [Accounts -> [Vaults -> Access]]
    BY <2>1
  <2> QED
    BY <2>2 DEF Db
<1> QED
  BY <1>1 DEF Db

LEMMA IssuedRows ==
  ASSUME NEW r \in Db, NEW a \in Accounts, NEW d \in Devices, NEW t \in Tokens
  PROVE  /\ [r EXCEPT !.owner[d] = a, !.token[d] = t] \in Db
         /\ [r EXCEPT !.token[d] = t, !.revoked = @ \ {d}] \in Db
<1>1. /\ [r.owner EXCEPT ![d] = a] \in [Devices -> Accounts \cup {None}]
      /\ [r.token EXCEPT ![d] = t] \in [Devices -> Tokens \cup {None}]
  BY DEF Db
<1> QED
  BY <1>1 DEF Db

(* The cases of a step, the one rule by which every invariant is proved. *)
LEMMA StepCases ==
  ASSUME TypeOK, [Next]_vars
  PROVE  \/ UNCHANGED vars
         \/ \E f \in Files : \E c \in Db : Administered(f, c)
         \/ \E f \in Files : \E e \in Epochs : Opened(f, e)
         \/ \E f \in Files : Answered(f)
         \/ \E f \in Files, v \in Vaults, m \in Entry : Appended(f, v, m)
         \/ \E o \in Operators, f, g \in Files : Prepared(o, f, g)
         \/ \E o \in Operators, f, g \in Files, e \in Epochs :
              PreparedRestore(o, f, g, e)
         \/ \E o \in Operators : Publish(o)
         \/ \E o \in Operators : Abandon(o)
<1> DEFINE Goal ==
         \/ UNCHANGED vars
         \/ \E f \in Files : \E c \in Db : Administered(f, c)
         \/ \E f \in Files : \E e \in Epochs : Opened(f, e)
         \/ \E f \in Files : Answered(f)
         \/ \E f \in Files, v \in Vaults, m \in Entry : Appended(f, v, m)
         \/ \E o \in Operators, f, g \in Files : Prepared(o, f, g)
         \/ \E o \in Operators, f, g \in Files, e \in Epochs :
              PreparedRestore(o, f, g, e)
         \/ \E o \in Operators : Publish(o)
         \/ \E o \in Operators : Abandon(o)
<1> SUFFICES Goal
  OBVIOUS
<1> HIDE DEF Goal
<1>1. ASSUME NEW f \in Files, NEW c \in Db, Live(f),
             Provision(f, c), c.epoch = db[f].epoch, c.log = db[f].log,
             c.token = db[f].token, c.owner = db[f].owner,
             db[f].revoked \subseteq c.revoked
      PROVE  Goal
  <2>1. Credentials(f, c)
    BY <1>1 DEF Credentials
  <2>2. issuer' = issuer /\ Draws(f)
    BY <1>1 DEF Provision, Draws
  <2>3. Administered(f, c)
    BY <1>1, <2>1, <2>2 DEF Administered, Provision, TypeOK
  <2> QED
    BY <2>3 DEF Goal
<1>2. ASSUME NEW f \in Files, Open(f)
      PROVE  Goal
  BY <1>2 DEF Open, Opened, FreshEpochs, Goal
<1>3. ASSUME NEW f \in Files, NEW a \in Accounts, CreateAccount(f, a)
      PROVE  Goal
  <2> DEFINE c == [db[f] EXCEPT !.accounts = @ \cup {a}]
  <2>1. db[f] \in Db
    BY DEF TypeOK
  <2>2. c \in Db
    BY <2>1, ProvisionedRows
  <2>3. /\ c.epoch = db[f].epoch /\ c.log = db[f].log
        /\ c.token = db[f].token /\ c.owner = db[f].owner
        /\ db[f].revoked \subseteq c.revoked
    BY <2>1 DEF Db
  <2> QED
    BY <1>1, <1>3, <2>2, <2>3 DEF CreateAccount
<1>4. ASSUME NEW f \in Files, NEW v \in Vaults, CreateVault(f, v)
      PROVE  Goal
  <2> DEFINE c == [db[f] EXCEPT !.vaults = @ \cup {v}]
  <2>1. db[f] \in Db
    BY DEF TypeOK
  <2>2. c \in Db
    BY <2>1, ProvisionedRows
  <2>3. /\ c.epoch = db[f].epoch /\ c.log = db[f].log
        /\ c.token = db[f].token /\ c.owner = db[f].owner
        /\ db[f].revoked \subseteq c.revoked
    BY <2>1 DEF Db
  <2> QED
    BY <1>1, <1>4, <2>2, <2>3 DEF CreateVault
<1>5. ASSUME NEW f \in Files, NEW a \in Accounts, NEW v \in Vaults,
             NEW level \in Access, Live(f),
             Provision(f, [db[f] EXCEPT !.access[a][v] = level])
      PROVE  Goal
  <2> DEFINE c == [db[f] EXCEPT !.access[a][v] = level]
  <2>1. db[f] \in Db
    BY DEF TypeOK
  <2>2. c \in Db
    BY <2>1, ProvisionedRows
  <2>3. /\ c.epoch = db[f].epoch /\ c.log = db[f].log
        /\ c.token = db[f].token /\ c.owner = db[f].owner
        /\ db[f].revoked \subseteq c.revoked
    BY <2>1 DEF Db
  <2> QED
    BY <1>1, <1>5, <2>2, <2>3
<1>6. ASSUME NEW f \in Files, NEW d \in Devices, RevokeDevice(f, d)
      PROVE  Goal
  <2> DEFINE c == [db[f] EXCEPT !.revoked = @ \cup {d}]
  <2>1. db[f] \in Db
    BY DEF TypeOK
  <2>2. c \in Db
    BY <2>1, ProvisionedRows
  <2>3. /\ c.epoch = db[f].epoch /\ c.log = db[f].log
        /\ c.token = db[f].token /\ c.owner = db[f].owner
        /\ db[f].revoked \subseteq c.revoked
    BY <2>1 DEF Db
  <2> QED
    BY <1>1, <1>6, <2>2, <2>3 DEF RevokeDevice
<1>7. ASSUME NEW f \in Files, NEW a \in Accounts, NEW d \in Devices,
             IssueDevice(f, a, d)
      PROVE  Goal
  <2>1. PICK t \in FreshTokens :
          /\ db' = [db EXCEPT ![f].owner[d] = a, ![f].token[d] = t]
          /\ issuer' = [issuer EXCEPT ![t] = f]
    BY <1>7 DEF IssueDevice
  <2> DEFINE c == [db[f] EXCEPT !.owner[d] = a, !.token[d] = t]
  <2>2. t \in Tokens /\ issuer[t] = None
    BY DEF FreshTokens
  <2>3. db[f] \in Db
    BY DEF TypeOK
  <2>8. c \in Db
    BY <2>2, <2>3, IssuedRows
  <2>9. c.epoch = db[f].epoch /\ c.log = db[f].log
    BY <2>3 DEF Db
  <2>4. db' = [db EXCEPT ![f] = c]
    BY <2>1 DEF TypeOK, Db
  <2>5. issuer' \in [Tokens -> Files \cup {None}] /\ Draws(f)
    BY <2>1, <2>2 DEF TypeOK, Draws
  <2>6. Credentials(f, c)
    <3>1. /\ c.token[d] = t /\ c.owner[d] = a /\ a # None
          /\ issuer'[t] = f
      BY <2>1, <2>2, <2>3, NoneAssumption DEF TypeOK, Db
    <3>2. /\ c.revoked = db[f].revoked
          /\ \A e \in Devices \ {d} :
               c.token[e] = db[f].token[e] /\ c.owner[e] = db[f].owner[e]
      BY <2>3 DEF Db
    <3> HIDE DEF c
    <3> QED
      BY <3>1, <3>2 DEF Credentials
  <2>7. Administered(f, c)
    BY <1>7, <2>8, <2>9, <2>4, <2>5, <2>6 DEF Administered, IssueDevice
  <2> QED
    BY <2>8, <2>7 DEF Goal
<1>8. ASSUME NEW f \in Files, NEW a \in Accounts, NEW d \in Devices,
             ReauthorizeDevice(f, a, d)
      PROVE  Goal
  <2>1. PICK t \in FreshTokens :
          /\ db' = [db EXCEPT ![f].token[d] = t, ![f].revoked = @ \ {d}]
          /\ issuer' = [issuer EXCEPT ![t] = f]
    BY <1>8 DEF ReauthorizeDevice
  <2> DEFINE c == [db[f] EXCEPT !.token[d] = t, !.revoked = @ \ {d}]
  <2>2. t \in Tokens /\ issuer[t] = None
    BY DEF FreshTokens
  <2>3. db[f] \in Db
    BY DEF TypeOK
  <2>8. c \in Db
    BY <2>2, <2>3, IssuedRows
  <2>9. c.epoch = db[f].epoch /\ c.log = db[f].log
    BY <2>3 DEF Db
  <2>4. db' = [db EXCEPT ![f] = c]
    BY <2>1 DEF TypeOK, Db
  <2>5. issuer' \in [Tokens -> Files \cup {None}] /\ Draws(f)
    BY <2>1, <2>2 DEF TypeOK, Draws
  <2>6. Credentials(f, c)
    <3>1. /\ c.token[d] = t /\ c.owner[d] = a /\ a # None
          /\ issuer'[t] = f
      BY <1>8, <2>1, <2>2, <2>3, NoneAssumption
      DEF TypeOK, Db, ReauthorizeDevice
    <3>2. /\ c.revoked = db[f].revoked \ {d} /\ c.owner = db[f].owner
          /\ \A e \in Devices \ {d} : c.token[e] = db[f].token[e]
      BY <2>3 DEF Db
    <3> HIDE DEF c
    <3> QED
      BY <3>1, <3>2 DEF Credentials
  <2>7. Administered(f, c)
    BY <1>8, <2>8, <2>9, <2>4, <2>5, <2>6 DEF Administered, ReauthorizeDevice
  <2> QED
    BY <2>8, <2>7 DEF Goal
<1>9. ASSUME NEW f \in Files, NEW t \in Tokens, NEW v \in Vaults,
             NEW u \in Updates, NEW w \in Wires, AppendUpdate(f, t, v, u, w)
      PROVE  Goal
  <2>1. ASSUME NEW n \in Existing(f, v, u), UNCHANGED db,
               observed' = observed \cup {Told(db[f], v, n)}
        PROVE  Goal
    <3>1. n \in 1..Len(db[f].log[v])
      BY DEF Existing
    <3> QED
      BY <1>9, <2>1, <3>1 DEF AppendUpdate, Answered, Goal
  <2>2. ASSUME Existing(f, v, u) = {},
               db' = [db EXCEPT ![f].log[v] = Append(@, [id |-> u, wire |-> w])],
               observed' = observed \cup {Told(db'[f], v, Len(db'[f].log[v]))}
        PROVE  Goal
    <3>1. [id |-> u, wire |-> w] \in Entry
      BY DEF Entry
    <3>2. Appended(f, v, [id |-> u, wire |-> w])
      BY <1>9, <2>2 DEF AppendUpdate, Appended, Existing
    <3> QED
      BY <3>1, <3>2 DEF Goal
  <2> QED
    BY <1>9, <2>1, <2>2 DEF AppendUpdate
<1>10. ASSUME NEW f \in Files, NEW t \in Tokens, NEW v \in Vaults,
              NEW e \in Epochs, NEW after \in Nat, NEW last \in Nat,
              Pull(f, t, v, e, after, last)
       PROVE  Goal
  <2>1. \A n \in (after + 1)..last : n \in 1..Len(db[f].log[v])
    <3>1. db[f].log[v] \in Seq(Entry)
      BY DEF TypeOK, Db
    <3> QED
      BY <1>10, <3>1 DEF Pull
  <2>2. Answered(f)
    BY <1>10, <2>1 DEF Pull, Answered
  <2> QED
    BY <2>2 DEF Goal
<1>11. ASSUME NEW o \in Operators, NEW f \in Files, NEW g \in Files,
              BackupPin(o, f, g)
       PROVE  Goal
  <2>1. Prepared(o, f, g)
    BY <1>11 DEF BackupPin, Prepared
  <2> QED
    BY <2>1 DEF Goal
<1>12. ASSUME NEW o \in Operators, NEW f \in Files, NEW g \in Files,
              RestorePin(o, f, g)
       PROVE  Goal
  <2>1. PICK e \in FreshEpochs : PreparedRestore(o, f, g, e)
    BY <1>12 DEF RestorePin, PreparedRestore
  <2>2. e \in Epochs
    BY DEF FreshEpochs
  <2> QED
    BY <2>1, <2>2 DEF Goal
<1>13. ASSUME NEW o \in Operators, Publish(o) \/ Abandon(o)
       PROVE  Goal
  BY <1>13 DEF Goal
<1>14. ASSUME NEW f \in Files, Administer(f)
       PROVE  Goal
  <2>1. ASSUME NEW a \in Accounts, NEW v \in Vaults,
               NEW level \in {"read", "write"}, GrantAccess(f, a, v, level)
        PROVE  Goal
    BY <2>1, <1>5 DEF GrantAccess, Access
  <2>2. ASSUME NEW a \in Accounts, NEW v \in Vaults, RevokeAccess(f, a, v)
        PROVE  Goal
    BY <2>2, <1>5 DEF RevokeAccess, Access
  <2> QED
    BY <1>2, <1>3, <1>4, <1>6, <1>7, <1>8, <1>14, <2>1, <2>2 DEF Administer
<1>15. ASSUME NEW f \in Files, Serve(f)
       PROVE  Goal
  <2>1. \A v \in Vaults : 0..Len(db[f].log[v]) \subseteq Nat
    OBVIOUS
  <2> QED
    BY <1>9, <1>10, <1>15, <2>1 DEF Serve
<1>16. CASE UNCHANGED vars
  BY <1>16 DEF Goal
<1>17. ASSUME NEW o \in Operators, Snapshot(o)
       PROVE  Goal
  BY <1>11, <1>12, <1>13, <1>17 DEF Snapshot
<1> QED
  BY <1>14, <1>15, <1>16, <1>17 DEF Next

-------------------------------------------------------------------------------
(* The inductive invariant.                                                *)

LiveJob(o) == job[o] # None /\ job[o].kind = "live"

(* A relay, or what is about to become one, has an epoch that was drawn. *)
Epoched ==
  /\ \A f \in Files : Live(f) => db[f].epoch \in drawnEpochs
  /\ \A o \in Operators : LiveJob(o) => job[o].db.epoch \in drawnEpochs

(* ... and which no other has. *)
OneFilePerEpoch ==
  /\ \A f, g \in Files :
       Live(f) /\ Live(g) /\ db[f].epoch = db[g].epoch => f = g
  /\ \A o \in Operators, f \in Files :
       LiveJob(o) /\ Live(f) => db[f].epoch # job[o].db.epoch
  /\ \A o, q \in Operators :
       LiveJob(o) /\ LiveJob(q) /\ job[o].db.epoch = job[q].db.epoch => o = q

(* Every token in a row was drawn for an owner ... *)
Issued(r) ==
  \A d \in Devices :
    r.token[d] # None => r.owner[d] # None /\ issuer[r.token[d]] # None
(* ... and works, if at all, at the file that drew it. *)
Rooted ==
  /\ \A f \in Files : Issued(db[f])
  /\ \A o \in Operators : job[o] # None => Issued(job[o].db)
  /\ \A f \in Files : Live(f) =>
       \A d \in Devices : db[f].token[d] # None /\ d \notin db[f].revoked
         => issuer[db[f].token[d]] = f
  /\ \A o \in Operators : LiveJob(o) =>
       \A d \in Devices : job[o].db.token[d] # None => d \in job[o].db.revoked

(* An update identity has one place in a log. *)
Distinct(r) ==
  \A v \in Vaults : \A m, n \in 1..Len(r.log[v]) :
    r.log[v][m].id = r.log[v][n].id => m = n
Deduplicated ==
  /\ \A f \in Files : Distinct(db[f])
  /\ \A o \in Operators : job[o] # None => Distinct(job[o].db)

(* Clients know only epochs that are served. *)
Witnessed ==
  \A p \in observed : \E f \in Files : Live(f) /\ db[f].epoch = p.epoch

IInv ==
  /\ TypeOK /\ Epoched /\ OneFilePerEpoch /\ Rooted /\ Deduplicated
  /\ Witnessed /\ PositionsAreStable

-------------------------------------------------------------------------------
(* Types.                                                                  *)

(* What a client is told of a row is a position. *)
LEMMA ToldTypes ==
  ASSUME NEW r \in Db, r.epoch \in Epochs, NEW v \in Vaults,
         NEW n \in 1..Len(r.log[v])
  PROVE  Told(r, v, n) \in Position
<1>1. r.log[v] \in Seq(Entry)
  BY DEF Db
<1>2. r.log[v][n] \in Entry /\ n \in Nat \ {0}
  BY <1>1
<1> QED
  BY <1>2 DEF Told, Position, Entry

LEMMA EmptyTypes == \A e \in Epochs : EmptyDb(e) \in Db
<1>1. << >> \in Seq(Entry)
  OBVIOUS
<1> QED
  BY <1>1 DEF EmptyDb, Db, Access

(* The rows of a file with one more update. *)
LEMMA AppendTypes ==
  ASSUME NEW r \in Db, NEW v \in Vaults, NEW m \in Entry
  PROVE  /\ [r EXCEPT !.log[v] = Append(@, m)] \in Db
         /\ r.log[v] \in Seq(Entry)
<1>1. r.log \in [Vaults -> Seq(Entry)]
  BY DEF Db
<1>2. [r.log EXCEPT ![v] = Append(@, m)] \in [Vaults -> Seq(Entry)]
  BY <1>1
<1> QED
  BY <1>1, <1>2 DEF Db

(* A restored file is the backup with a new epoch and all devices revoked. *)
LEMMA RestoredRows ==
  ASSUME NEW r \in Db, NEW e \in Epochs
  PROVE  /\ Restored(r, e) \in Db
         /\ Restored(r, e).epoch = e
         /\ Restored(r, e).log = r.log
         /\ Restored(r, e).token = r.token
         /\ Restored(r, e).owner = r.owner
         /\ Restored(r, e).revoked = {d \in Devices : r.owner[d] # None}
<1> DEFINE s == {d \in Devices : r.owner[d] # None}
<1>1. s \in SUBSET Devices
  OBVIOUS
<1>2. Restored(r, e) = [r EXCEPT !.epoch = e, !.revoked = s]
  BY DEF Restored
<1> HIDE DEF s
<1> QED
  BY <1>1, <1>2 DEF Db, s

LEMMA InitTypes == Init => TypeOK
<1> SUFFICES ASSUME Init PROVE TypeOK
  OBVIOUS
<1>1. << >> \in Seq(Entry)
  OBVIOUS
<1>2. EmptyDb(None) \in Db
  BY <1>1 DEF EmptyDb, Db, Access
<1> QED
  BY <1>2 DEF Init, TypeOK

LEMMA NextTypes == TypeOK /\ Epoched /\ [Next]_vars => TypeOK'
<1> SUFFICES ASSUME TypeOK, Epoched, [Next]_vars PROVE TypeOK'
  OBVIOUS
<1>1. CASE UNCHANGED vars
  BY <1>1 DEF TypeOK, vars
<1>2. ASSUME NEW f \in Files, NEW c \in Db, Administered(f, c) PROVE TypeOK'
  BY <1>2 DEF Administered, TypeOK
<1>3. ASSUME NEW f \in Files, NEW e \in Epochs, Opened(f, e) PROVE TypeOK'
  <2>1. EmptyDb(e) \in Db
    BY EmptyTypes
  <2> QED
    BY <1>3, <2>1 DEF Opened, TypeOK
<1>4. ASSUME NEW f \in Files, Answered(f) PROVE TypeOK'
  <2>1. db[f] \in Db /\ db[f].epoch \in Epochs
    BY <1>4 DEF Answered, Epoched, TypeOK
  <2>2. \A v \in Vaults : \A n \in 1..Len(db[f].log[v]) :
          Told(db[f], v, n) \in Position
    BY <2>1, ToldTypes
  <2>3. observed' \subseteq Position
    BY <1>4, <2>2 DEF Answered, TypeOK
  <2> QED
    BY <1>4, <2>3 DEF Answered, TypeOK
<1>5. ASSUME NEW f \in Files, NEW v \in Vaults, NEW m \in Entry,
             Appended(f, v, m)
      PROVE  TypeOK'
  <2> DEFINE c == [db[f] EXCEPT !.log[v] = Append(@, m)]
  <2>1. db[f] \in Db /\ db[f].epoch \in Epochs
    BY <1>5 DEF Appended, Epoched, TypeOK
  <2>2. c \in Db /\ db[f].log[v] \in Seq(Entry)
    BY <2>1, AppendTypes
  <2>3. c.epoch \in Epochs /\ c.log[v] = Append(db[f].log[v], m)
    <3>1. db[f].log \in [Vaults -> Seq(Entry)]
      BY <2>1 DEF Db
    <3> QED
      BY <2>1, <3>1 DEF Db
  <2>4. Len(c.log[v]) \in 1..Len(c.log[v])
    BY <2>2, <2>3
  <2>5. Told(c, v, Len(c.log[v])) \in Position
    BY <2>2, <2>3, <2>4, ToldTypes
  <2>6. db' = [db EXCEPT ![f] = c] /\ db'[f] = c
    BY <1>5 DEF Appended, TypeOK
  <2> HIDE DEF c
  <2> QED
    BY <1>5, <2>2, <2>5, <2>6 DEF Appended, TypeOK
<1>6. ASSUME NEW o \in Operators, NEW f \in Files, NEW g \in Files,
             Prepared(o, f, g)
      PROVE  TypeOK'
  BY <1>6 DEF Prepared, TypeOK
<1>7. ASSUME NEW o \in Operators, NEW f \in Files, NEW g \in Files,
             NEW e \in Epochs, PreparedRestore(o, f, g, e)
      PROVE  TypeOK'
  <2>1. Restored(db[f], e) \in Db
    BY RestoredRows DEF TypeOK
  <2> QED
    BY <1>7, <2>1 DEF PreparedRestore, TypeOK
<1>8. ASSUME NEW o \in Operators, Publish(o) PROVE TypeOK'
  <2>1. job[o] \in [target : Files, kind : {"live", "backup"}, db : Db]
    BY <1>8 DEF Publish, TypeOK
  <2> QED
    BY <1>8, <2>1 DEF Publish, TypeOK
<1>9. ASSUME NEW o \in Operators, Abandon(o) PROVE TypeOK'
  BY <1>9 DEF Abandon, TypeOK
<1> QED
  BY <1>1, <1>2, <1>3, <1>4, <1>5, <1>6, <1>7, <1>8, <1>9, StepCases

-------------------------------------------------------------------------------
(* Epochs.                                                                 *)

LEMMA InitEpochs == Init => Epoched /\ OneFilePerEpoch /\ Witnessed
BY DEF Init, Epoched, OneFilePerEpoch, Witnessed, Live, LiveJob

LEMMA NextEpochs ==
  ASSUME IInv, [Next]_vars
  PROVE  Epoched' /\ OneFilePerEpoch' /\ Witnessed'
<1> DEFINE Goal == Epoched' /\ OneFilePerEpoch' /\ Witnessed'
<1> SUFFICES Goal
  OBVIOUS
<1> USE DEF IInv
<1>0. ASSUME kind' = kind, job' = job, drawnEpochs' = drawnEpochs,
             \A f \in Files : db'[f].epoch = db[f].epoch,
             \A p \in observed' \ observed :
               \E f \in Files : Live(f) /\ db[f].epoch = p.epoch
      PROVE  Goal
  BY <1>0 DEF Epoched, OneFilePerEpoch, Witnessed, Live, LiveJob
<1> HIDE DEF Goal
<1>1. CASE UNCHANGED vars
  BY <1>0, <1>1 DEF vars
<1>2. ASSUME NEW f \in Files, NEW c \in Db, Administered(f, c) PROVE Goal
  BY <1>0, <1>2 DEF Administered, TypeOK
<1>3. ASSUME NEW f \in Files, NEW e \in Epochs, Opened(f, e) PROVE Goal
  <2>1. /\ db'[f].epoch = e /\ e \notin drawnEpochs
        /\ \A g \in Files \ {f} : db'[g] = db[g]
    BY <1>3 DEF Opened, TypeOK, EmptyDb, FreshEpochs
  <2>2. Live(f)' /\ ~Live(f) /\ \A g \in Files \ {f} : Live(g)' <=> Live(g)
    BY <1>3 DEF Opened, TypeOK, Live
  <2>3. /\ job' = job /\ observed' = observed
        /\ drawnEpochs' = drawnEpochs \cup {e}
    BY <1>3 DEF Opened
  <2> QED
    BY <2>1, <2>2, <2>3
    DEF Goal, Epoched, OneFilePerEpoch, Witnessed, LiveJob
<1>4. ASSUME NEW f \in Files, Answered(f) PROVE Goal
  BY <1>0, <1>4 DEF Answered, Told
<1>5. ASSUME NEW f \in Files, NEW v \in Vaults, NEW m \in Entry,
             Appended(f, v, m)
      PROVE  Goal
  <2>1. \A g \in Files : db'[g].epoch = db[g].epoch
    BY <1>5 DEF Appended, TypeOK, Db
  <2> QED
    BY <1>0, <1>5, <2>1 DEF Appended, Told
<1>6. ASSUME NEW o \in Operators, NEW f \in Files, NEW g \in Files,
             Prepared(o, f, g)
      PROVE  Goal
  <2>1. /\ ~LiveJob(o)'
        /\ \A q \in Operators \ {o} : job'[q] = job[q]
    BY <1>6 DEF Prepared, TypeOK, LiveJob
  <2>2. kind' = kind /\ db' = db /\ UNCHANGED <<drawnEpochs, observed>>
    BY <1>6 DEF Prepared
  <2> QED
    BY <2>1, <2>2 DEF Goal, Epoched, OneFilePerEpoch, Witnessed, Live, LiveJob
<1>7. ASSUME NEW o \in Operators, NEW f \in Files, NEW g \in Files,
             NEW e \in Epochs, PreparedRestore(o, f, g, e)
      PROVE  Goal
  <2>1. Restored(db[f], e).epoch = e
    BY RestoredRows DEF TypeOK
  <2>2. /\ job'[o].db.epoch = e /\ e \notin drawnEpochs
        /\ \A q \in Operators \ {o} : job'[q] = job[q]
    BY <1>7, <2>1 DEF PreparedRestore, TypeOK, FreshEpochs
  <2>3. /\ kind' = kind /\ db' = db /\ observed' = observed
        /\ drawnEpochs' = drawnEpochs \cup {e}
    BY <1>7 DEF PreparedRestore
  <2> QED
    BY <2>2, <2>3 DEF Goal, Epoched, OneFilePerEpoch, Witnessed, Live, LiveJob
<1>8. ASSUME NEW o \in Operators, Publish(o) PROVE Goal
  <2>0. PICK f \in Files : f = job[o].target
    BY <1>8 DEF Publish, TypeOK
  <2>1. /\ ~Live(f) /\ db'[f] = job[o].db
        /\ kind'[f] = job[o].kind
        /\ \A g \in Files \ {f} : db'[g] = db[g] /\ kind'[g] = kind[g]
    BY <1>8, <2>0 DEF Publish, TypeOK, Live
  <2>2. /\ Live(f)' => LiveJob(o)
        /\ \A g \in Files \ {f} : Live(g)' <=> Live(g)
    BY <1>8, <2>1 DEF Publish, Live, LiveJob
  <2>3. /\ job'[o] = None /\ \A q \in Operators \ {o} : job'[q] = job[q]
        /\ UNCHANGED <<drawnEpochs, observed>>
    BY <1>8 DEF Publish, TypeOK
  <2> QED
    BY <2>1, <2>2, <2>3 DEF Goal, Epoched, OneFilePerEpoch, Witnessed, LiveJob
<1>9. ASSUME NEW o \in Operators, Abandon(o) PROVE Goal
  <2>1. /\ job'[o] = None /\ \A q \in Operators \ {o} : job'[q] = job[q]
        /\ UNCHANGED <<kind, db, drawnEpochs, observed>>
    BY <1>9 DEF Abandon, TypeOK
  <2> QED
    BY <2>1 DEF Goal, Epoched, OneFilePerEpoch, Witnessed, Live, LiveJob
<1> QED
  BY <1>1, <1>2, <1>3, <1>4, <1>5, <1>6, <1>7, <1>8, <1>9, StepCases

-------------------------------------------------------------------------------
(* Credentials.                                                            *)

LEMMA InitRooted == Init => Rooted
<1> SUFFICES ASSUME Init PROVE Rooted
  OBVIOUS
<1>1. \A f \in Files, d \in Devices : db[f].token[d] = None
  BY DEF Init, EmptyDb
<1> QED
  BY <1>1 DEF Init, Rooted, Issued, Live, LiveJob

LEMMA NextRooted ==
  ASSUME IInv, [Next]_vars
  PROVE  Rooted'
<1> USE DEF IInv
<1>0. ASSUME kind' = kind, db' = db, job' = job, issuer' = issuer
      PROVE  Rooted'
  BY <1>0 DEF Rooted, Issued, Live, LiveJob
<1>1. CASE UNCHANGED vars
  BY <1>0, <1>1 DEF vars
<1>2. ASSUME NEW f \in Files, NEW c \in Db, Administered(f, c) PROVE Rooted'
  <2>1. /\ db'[f] = c /\ \A g \in Files \ {f} : db'[g] = db[g]
        /\ kind' = kind /\ job' = job /\ Live(f)
    BY <1>2 DEF Administered, TypeOK
  <2>2. \A t \in Tokens : issuer[t] # None => issuer'[t] = issuer[t]
    BY <1>2 DEF Administered, Draws
  <2>3. ASSUME NEW r \in Db, NEW d \in Devices, Issued(r), r.token[d] # None
        PROVE  /\ r.owner[d] # None
               /\ r.token[d] \in Tokens
               /\ issuer'[r.token[d]] = issuer[r.token[d]]
               /\ issuer'[r.token[d]] # None
    <3>1. r.token[d] \in Tokens
      BY <2>3 DEF Db
    <3> QED
      BY <2>2, <2>3, <3>1 DEF Issued
  <2>4. ASSUME NEW d \in Devices, c.token[d] # None
        PROVE  /\ c.owner[d] # None /\ issuer'[c.token[d]] # None
               /\ d \notin c.revoked => issuer'[c.token[d]] = f
    <3>1. CASE /\ c.token[d] = db[f].token[d]
               /\ c.owner[d] = db[f].owner[d]
               /\ d \in db[f].revoked => d \in c.revoked
      <4>1. db[f] \in Db /\ Issued(db[f])
        BY DEF TypeOK, Rooted
      <4>2. d \notin db[f].revoked => issuer[db[f].token[d]] = f
        BY <2>1, <2>4, <3>1 DEF Rooted
      <4> QED
        BY <2>3, <2>4, <3>1, <4>1, <4>2
    <3>2. CASE /\ c.token[d] \in FreshTokens
               /\ c.owner[d] # None
               /\ issuer'[c.token[d]] = f
      BY <3>2, NoneAssumption
    <3> QED
      BY <1>2, <3>1, <3>2 DEF Administered, Credentials
  <2>5. \A g \in Files : Issued(db[g])'
    <3> SUFFICES ASSUME NEW g \in Files, NEW d \in Devices,
                        db'[g].token[d] # None
                 PROVE  /\ db'[g].owner[d] # None
                        /\ issuer'[db'[g].token[d]] # None
      BY DEF Issued
    <3>1. CASE g = f
      BY <2>1, <2>4, <3>1
    <3>2. CASE g # f
      <4>1. db[g] \in Db /\ Issued(db[g])
        BY DEF TypeOK, Rooted
      <4> QED
        BY <2>1, <2>3, <3>2, <4>1
    <3> QED
      BY <3>1, <3>2
  <2>6. \A o \in Operators : job'[o] # None => Issued(job[o].db)'
    <3> SUFFICES ASSUME NEW o \in Operators, job[o] # None,
                        NEW d \in Devices, job[o].db.token[d] # None
                 PROVE  /\ job[o].db.owner[d] # None
                        /\ issuer'[job[o].db.token[d]] # None
      BY <2>1 DEF Issued
    <3>1. job[o].db \in Db /\ Issued(job[o].db)
      BY DEF TypeOK, Rooted
    <3> QED
      BY <2>3, <3>1
  <2>7. \A g \in Files : Live(g)' =>
          \A d \in Devices : db'[g].token[d] # None /\ d \notin db'[g].revoked
            => issuer'[db'[g].token[d]] = g
    <3> SUFFICES ASSUME NEW g \in Files, Live(g), NEW d \in Devices,
                        db'[g].token[d] # None, d \notin db'[g].revoked
                 PROVE  issuer'[db'[g].token[d]] = g
      BY <2>1 DEF Live
    <3>1. CASE g = f
      BY <2>1, <2>4, <3>1
    <3>2. CASE g # f
      <4>1. db[g] \in Db /\ Issued(db[g])
        BY DEF TypeOK, Rooted
      <4>2. issuer[db[g].token[d]] = g
        BY <2>1, <3>2 DEF Rooted
      <4> QED
        BY <2>1, <2>3, <3>2, <4>1, <4>2
    <3> QED
      BY <3>1, <3>2
  <2> QED
    BY <2>1, <2>5, <2>6, <2>7 DEF Rooted, LiveJob
<1>3. ASSUME NEW f \in Files, NEW e \in Epochs, Opened(f, e) PROVE Rooted'
  <2>1. /\ \A d \in Devices : db'[f].token[d] = None
        /\ \A g \in Files \ {f} : db'[g] = db[g] /\ kind'[g] = kind[g]
        /\ job' = job /\ issuer' = issuer
    BY <1>3 DEF Opened, TypeOK, EmptyDb
  <2> QED
    BY <2>1 DEF Rooted, Issued, Live, LiveJob
<1>4. ASSUME NEW f \in Files, Answered(f) PROVE Rooted'
  BY <1>0, <1>4 DEF Answered
<1>5. ASSUME NEW f \in Files, NEW v \in Vaults, NEW m \in Entry,
             Appended(f, v, m)
      PROVE  Rooted'
  <2>1. \A g \in Files : /\ db'[g].token = db[g].token
                         /\ db'[g].owner = db[g].owner
                         /\ db'[g].revoked = db[g].revoked
    BY <1>5 DEF Appended, TypeOK, Db
  <2>2. kind' = kind /\ job' = job /\ issuer' = issuer
    BY <1>5 DEF Appended
  <2> QED
    BY <2>1, <2>2 DEF Rooted, Issued, Live, LiveJob
<1>6. ASSUME NEW o \in Operators, NEW f \in Files, NEW g \in Files,
             Prepared(o, f, g)
      PROVE  Rooted'
  <2>1. /\ ~LiveJob(o)' /\ job'[o].db = db[f]
        /\ \A q \in Operators \ {o} : job'[q] = job[q]
    BY <1>6 DEF Prepared, TypeOK, LiveJob
  <2>2. kind' = kind /\ db' = db /\ issuer' = issuer
    BY <1>6 DEF Prepared
  <2> QED
    BY <2>1, <2>2 DEF Rooted, Issued, Live, LiveJob
<1>7. ASSUME NEW o \in Operators, NEW f \in Files, NEW g \in Files,
             NEW e \in Epochs, PreparedRestore(o, f, g, e)
      PROVE  Rooted'
  <2>1. /\ job'[o].db = Restored(db[f], e)
        /\ \A q \in Operators \ {o} : job'[q] = job[q]
    BY <1>7 DEF PreparedRestore, TypeOK
  <2>2. /\ job'[o].db.token = db[f].token
        /\ job'[o].db.owner = db[f].owner
        /\ job'[o].db.revoked = {d \in Devices : db[f].owner[d] # None}
    BY <2>1, RestoredRows DEF TypeOK
  <2>3. kind' = kind /\ db' = db /\ issuer' = issuer
    BY <1>7 DEF PreparedRestore
  <2>4. Issued(db[f])
    BY DEF Rooted
  <2> QED
    BY <2>1, <2>2, <2>3, <2>4 DEF Rooted, Issued, Live, LiveJob
<1>8. ASSUME NEW o \in Operators, Publish(o) PROVE Rooted'
  <2>0. PICK f \in Files : f = job[o].target
    BY <1>8 DEF Publish, TypeOK
  <2>1. /\ db'[f] = job[o].db /\ kind'[f] = job[o].kind
        /\ \A g \in Files \ {f} : db'[g] = db[g] /\ kind'[g] = kind[g]
    BY <1>8, <2>0 DEF Publish, TypeOK
  <2>2. /\ job[o] # None /\ job'[o] = None
        /\ \A q \in Operators \ {o} : job'[q] = job[q]
        /\ issuer' = issuer
    BY <1>8 DEF Publish, TypeOK
  <2> QED
    BY <2>1, <2>2 DEF Rooted, Issued, Live, LiveJob
<1>9. ASSUME NEW o \in Operators, Abandon(o) PROVE Rooted'
  <2>1. /\ job'[o] = None /\ \A q \in Operators \ {o} : job'[q] = job[q]
        /\ UNCHANGED <<kind, db, issuer>>
    BY <1>9 DEF Abandon, TypeOK
  <2> QED
    BY <2>1 DEF Rooted, Issued, Live, LiveJob
<1> QED
  BY <1>1, <1>2, <1>3, <1>4, <1>5, <1>6, <1>7, <1>8, <1>9, StepCases

-------------------------------------------------------------------------------
(* Logs.                                                                   *)

(* A log after an update was appended to it: the rows it had, and the new  *)
(* one at its end. *)
LEMMA AppendedLog ==
  ASSUME TypeOK, NEW f \in Files, NEW v \in Vaults, NEW m \in Entry,
         Appended(f, v, m)
  PROVE  /\ Len(db'[f].log[v]) = Len(db[f].log[v]) + 1
         /\ Len(db[f].log[v]) \in Nat
         /\ db'[f].log[v] = Append(db[f].log[v], m)
         /\ \A n \in 1..Len(db[f].log[v]) :
              db'[f].log[v][n] = db[f].log[v][n]
         /\ \A u \in Vaults \ {v} : db'[f].log[u] = db[f].log[u]
         /\ \A g \in Files \ {f} : db'[g] = db[g]
         /\ \A g \in Files : db'[g].epoch = db[g].epoch
<1>1. db[f] \in Db /\ db[f].log[v] \in Seq(Entry)
  BY AppendTypes DEF TypeOK
<1>2. db'[f].log = [db[f].log EXCEPT ![v] = Append(@, m)]
  BY <1>1 DEF Appended, TypeOK, Db
<1>3. db[f].log \in [Vaults -> Seq(Entry)]
  BY <1>1 DEF Db
<1>4. /\ db'[f].log[v] = Append(db[f].log[v], m)
      /\ \A u \in Vaults \ {v} : db'[f].log[u] = db[f].log[u]
  BY <1>2, <1>3
<1>5. /\ \A g \in Files \ {f} : db'[g] = db[g]
      /\ \A g \in Files : db'[g].epoch = db[g].epoch
  BY DEF Appended, TypeOK, Db
<1> QED
  BY <1>1, <1>4, <1>5

(* Updates keep their places when a new one is appended. *)
LEMMA AppendDistinct ==
  ASSUME NEW s \in Seq(Entry), NEW m \in Entry,
         \A i, j \in 1..Len(s) : s[i].id = s[j].id => i = j,
         \A i \in 1..Len(s) : s[i].id # m.id
  PROVE  \A i, j \in 1..Len(Append(s, m)) :
           Append(s, m)[i].id = Append(s, m)[j].id => i = j
<1>1. /\ Len(Append(s, m)) = Len(s) + 1 /\ Len(s) \in Nat
      /\ Append(s, m)[Len(s) + 1] = m
      /\ \A i \in 1..Len(s) : Append(s, m)[i] = s[i]
  OBVIOUS
<1>2. \A i \in 1..Len(Append(s, m)) : i \in 1..Len(s) \/ i = Len(s) + 1
  BY <1>1
<1> QED
  BY <1>1, <1>2

LEMMA SameLogDistinct ==
  ASSUME NEW r, NEW q, r.log = q.log, Distinct(q)
  PROVE  Distinct(r)
BY DEF Distinct

LEMMA InitDeduplicated == Init => Deduplicated
<1> SUFFICES ASSUME Init PROVE Deduplicated
  OBVIOUS
<1>1. \A f \in Files, v \in Vaults : Len(db[f].log[v]) = 0
  BY DEF Init, EmptyDb
<1> QED
  BY <1>1 DEF Init, Deduplicated, Distinct

LEMMA NextDeduplicated ==
  ASSUME IInv, [Next]_vars
  PROVE  Deduplicated'
<1> USE DEF IInv
<1>a. /\ \A f \in Files : Distinct(db[f])
      /\ \A o \in Operators : job[o] # None => Distinct(job[o].db)
  BY DEF Deduplicated
<1> DEFINE Goal ==
      /\ \A f \in Files : Distinct(db'[f])
      /\ \A o \in Operators : job'[o] # None => Distinct(job'[o].db)
<1> SUFFICES Goal
  BY DEF Deduplicated, Distinct
<1>0. ASSUME job' = job, \A f \in Files : db'[f].log = db[f].log
      PROVE  Goal
  BY <1>a, <1>0, SameLogDistinct
<1> HIDE DEF Goal
<1>1. CASE UNCHANGED vars
  BY <1>0, <1>1 DEF vars
<1>2. ASSUME NEW f \in Files, NEW c \in Db, Administered(f, c) PROVE Goal
  BY <1>0, <1>2 DEF Administered, TypeOK
<1>3. ASSUME NEW f \in Files, NEW e \in Epochs, Opened(f, e) PROVE Goal
  <2>1. /\ db'[f] = EmptyDb(e)
        /\ \A g \in Files \ {f} : db'[g] = db[g]
        /\ job' = job
    BY <1>3 DEF Opened, TypeOK
  <2>2. Distinct(EmptyDb(e))
    BY DEF Distinct, EmptyDb
  <2> QED
    BY <1>a, <2>1, <2>2 DEF Goal
<1>4. ASSUME NEW f \in Files, Answered(f) PROVE Goal
  BY <1>0, <1>4 DEF Answered
<1>5. ASSUME NEW f \in Files, NEW v \in Vaults, NEW m \in Entry,
             Appended(f, v, m)
      PROVE  Goal
  <2>1. PICK s \in Seq(Entry) : s = db[f].log[v]
    BY AppendTypes DEF TypeOK
  <2>2. /\ db'[f].log[v] = Append(s, m)
        /\ \A u \in Vaults \ {v} : db'[f].log[u] = db[f].log[u]
        /\ \A g \in Files \ {f} : db'[g] = db[g]
        /\ job' = job
    <3>1. /\ db'[f].log[v] = Append(db[f].log[v], m)
          /\ \A u \in Vaults \ {v} : db'[f].log[u] = db[f].log[u]
          /\ \A g \in Files \ {f} : db'[g] = db[g]
      BY <1>5, AppendedLog
    <3>2. job' = job
      BY <1>5 DEF Appended
    <3> QED
      BY <2>1, <3>1, <3>2
  <2>3. /\ \A n \in 1..Len(s) : s[n].id # m.id
        /\ \A i, j \in 1..Len(s) : s[i].id = s[j].id => i = j
    BY <1>a, <1>5, <2>1 DEF Appended, Distinct
  <2>4. \A i, j \in 1..Len(Append(s, m)) :
          Append(s, m)[i].id = Append(s, m)[j].id => i = j
    BY <2>3, AppendDistinct
  <2>5. Distinct(db'[f])
    <3> SUFFICES ASSUME NEW u \in Vaults,
                        NEW i \in 1..Len(db'[f].log[u]),
                        NEW j \in 1..Len(db'[f].log[u]),
                        db'[f].log[u][i].id = db'[f].log[u][j].id
                 PROVE  i = j
      BY DEF Distinct
    <3>1. CASE u = v
      BY <2>2, <2>4, <3>1
    <3>2. CASE u # v
      BY <1>a, <2>2, <3>2 DEF Distinct
    <3> QED
      BY <3>1, <3>2
  <2> QED
    BY <1>a, <2>2, <2>5 DEF Goal
<1>6. ASSUME NEW o \in Operators, NEW f \in Files, NEW g \in Files,
             Prepared(o, f, g)
      PROVE  Goal
  <2>1. /\ job'[o].db = db[f] /\ db' = db
        /\ \A q \in Operators \ {o} : job'[q] = job[q]
    BY <1>6 DEF Prepared, TypeOK
  <2> QED
    BY <1>a, <2>1 DEF Goal
<1>7. ASSUME NEW o \in Operators, NEW f \in Files, NEW g \in Files,
             NEW e \in Epochs, PreparedRestore(o, f, g, e)
      PROVE  Goal
  <2>1. /\ job'[o].db = Restored(db[f], e) /\ db' = db
        /\ \A q \in Operators \ {o} : job'[q] = job[q]
    BY <1>7 DEF PreparedRestore, TypeOK
  <2>2. Restored(db[f], e).log = db[f].log
    BY RestoredRows DEF TypeOK
  <2>3. Distinct(Restored(db[f], e))
    BY <1>a, <2>2, SameLogDistinct
  <2> QED
    BY <1>a, <2>1, <2>3 DEF Goal
<1>8. ASSUME NEW o \in Operators, Publish(o) PROVE Goal
  <2>0. PICK f \in Files : f = job[o].target
    BY <1>8 DEF Publish, TypeOK
  <2>1. /\ db'[f] = job[o].db /\ job[o] # None
        /\ \A g \in Files \ {f} : db'[g] = db[g]
        /\ job'[o] = None /\ \A q \in Operators \ {o} : job'[q] = job[q]
    BY <1>8, <2>0 DEF Publish, TypeOK
  <2> QED
    BY <1>a, <2>1 DEF Goal
<1>9. ASSUME NEW o \in Operators, Abandon(o) PROVE Goal
  <2>1. /\ job'[o] = None /\ \A q \in Operators \ {o} : job'[q] = job[q]
        /\ db' = db
    BY <1>9 DEF Abandon, TypeOK
  <2> QED
    BY <1>a, <2>1 DEF Goal
<1> QED
  BY <1>1, <1>2, <1>3, <1>4, <1>5, <1>6, <1>7, <1>8, <1>9, StepCases

(* What clients were told stays true: the one live file of an epoch only   *)
(* ever gets rows after those it has, and a file that becomes live has an  *)
(* epoch no client was told of.                                            *)
LEMMA NextStable ==
  ASSUME IInv, [Next]_vars
  PROVE  PositionsAreStable'
<1> USE DEF IInv
<1>0. ASSUME kind' = kind, observed' = observed,
             \A f \in Files : db'[f].epoch = db[f].epoch,
             \A f \in Files : db'[f].log = db[f].log
      PROVE  PositionsAreStable'
  BY <1>0 DEF PositionsAreStable, Told, Live
<1>00. ASSUME NEW f \in Files, ~Live(f), observed' = observed,
              \A g \in Files \ {f} : db'[g] = db[g] /\ kind'[g] = kind[g],
              Live(f)' => \A g \in Files : Live(g) => db'[f].epoch # db[g].epoch
       PROVE  PositionsAreStable'
  <2> SUFFICES ASSUME NEW p \in observed, NEW g \in Files,
                      Live(g)', db'[g].epoch = p.epoch
               PROVE  /\ p.seq <= Len(db'[g].log[p.vault])
                      /\ Told(db'[g], p.vault, p.seq) = p
    BY <1>00 DEF PositionsAreStable, Told
  <2>1. g # f
    BY <1>00 DEF Witnessed
  <2> QED
    BY <1>00, <2>1 DEF PositionsAreStable, Live
<1>1. CASE UNCHANGED vars
  BY <1>0, <1>1 DEF vars
<1>2. ASSUME NEW f \in Files, NEW c \in Db, Administered(f, c)
      PROVE  PositionsAreStable'
  BY <1>0, <1>2 DEF Administered, TypeOK
<1>3. ASSUME NEW f \in Files, NEW e \in Epochs, Opened(f, e)
      PROVE  PositionsAreStable'
  <2>1. /\ ~Live(f) /\ observed' = observed
        /\ \A g \in Files \ {f} : db'[g] = db[g] /\ kind'[g] = kind[g]
        /\ db'[f].epoch = e /\ e \notin drawnEpochs
    BY <1>3 DEF Opened, TypeOK, EmptyDb, FreshEpochs, Live
  <2> QED
    BY <1>00, <2>1 DEF Epoched
<1>4. ASSUME NEW f \in Files, Answered(f) PROVE PositionsAreStable'
  <2>1. kind' = kind /\ db' = db /\ Live(f)
    BY <1>4 DEF Answered
  <2> SUFFICES ASSUME NEW p \in observed', NEW g \in Files,
                      Live(g), db[g].epoch = p.epoch
               PROVE  /\ p.seq <= Len(db[g].log[p.vault])
                      /\ Told(db[g], p.vault, p.seq) = p
    BY <2>1 DEF PositionsAreStable, Told, Live
  <2>2. CASE p \in observed
    BY <2>2 DEF PositionsAreStable
  <2>3. CASE p \notin observed
    <3>0. PICK v \in Vaults :
            \E n \in 1..Len(db[f].log[v]) : p = Told(db[f], v, n)
      BY <1>4, <2>3 DEF Answered
    <3>1. PICK n \in 1..Len(db[f].log[v]) : p = Told(db[f], v, n)
      BY <3>0
    <3>2. /\ p.epoch = db[f].epoch /\ p.vault = v /\ p.seq = n
      BY <3>1 DEF Told
    <3>3. g = f
      BY <2>1, <3>2 DEF OneFilePerEpoch
    <3>4. db[f].log[v] \in Seq(Entry)
      BY DEF TypeOK, Db
    <3> QED
      BY <3>1, <3>2, <3>3, <3>4
  <2> QED
    BY <2>2, <2>3
<1>5. ASSUME NEW f \in Files, NEW v \in Vaults, NEW m \in Entry,
             Appended(f, v, m)
      PROVE  PositionsAreStable'
  <2>1. PICK k \in Nat : k = Len(db[f].log[v])
    <3>1. db[f].log[v] \in Seq(Entry)
      BY DEF TypeOK, Db
    <3> QED
      BY <3>1
  <2>2. /\ Len(db'[f].log[v]) = k + 1
        /\ \A n \in 1..k : db'[f].log[v][n] = db[f].log[v][n]
        /\ \A u \in Vaults \ {v} : db'[f].log[u] = db[f].log[u]
        /\ \A g \in Files \ {f} : db'[g] = db[g]
        /\ \A g \in Files : db'[g].epoch = db[g].epoch
    BY <1>5, <2>1, AppendedLog
  <2>3. \A g \in Files : (Live(g)' <=> Live(g)) /\ db'[g].epoch = db[g].epoch
    BY <1>5, <2>2 DEF Appended, Live
  <2> SUFFICES ASSUME NEW p \in observed', NEW g \in Files,
                      Live(g), db[g].epoch = p.epoch
               PROVE  /\ p.seq <= Len(db'[g].log[p.vault])
                      /\ Told(db'[g], p.vault, p.seq) = p
    BY <2>3 DEF PositionsAreStable, Told
  <2>4. CASE p \in observed
    <3>1. /\ p.seq <= Len(db[g].log[p.vault])
          /\ Told(db[g], p.vault, p.seq) = p
      BY <2>4 DEF PositionsAreStable
    <3>2. p.vault \in Vaults /\ p.seq \in Nat \ {0}
      BY <2>4 DEF TypeOK, Position
    <3>3. CASE g # f
      BY <2>2, <3>1, <3>3
    <3>4. CASE g = f /\ p.vault # v
      <4>1. db'[g].log[p.vault] = db[g].log[p.vault]
        BY <2>2, <3>2, <3>4
      <4>2. db'[g].epoch = db[g].epoch
        BY <2>2
      <4> QED
        BY <3>1, <4>1, <4>2 DEF Told
    <3>5. CASE g = f /\ p.vault = v
      <4>1. p.seq \in 1..k
        BY <2>1, <3>1, <3>2, <3>5
      <4>2. db'[g].log[p.vault][p.seq] = db[g].log[p.vault][p.seq]
        BY <2>2, <3>5, <4>1
      <4>3. p.seq <= Len(db'[g].log[p.vault])
        BY <2>2, <3>5, <4>1
      <4> QED
        BY <2>2, <3>1, <4>2, <4>3 DEF Told
    <3> QED
      BY <3>3, <3>4, <3>5
  <2>5. CASE p \notin observed
    <3>1. p = Told(db'[f], v, k + 1) /\ Live(f)
      BY <1>5, <2>2, <2>5 DEF Appended
    <3>2. p.epoch = db[f].epoch /\ p.vault = v /\ p.seq = k + 1
      BY <2>2, <3>1 DEF Told
    <3>3. g = f
      BY <3>1, <3>2 DEF OneFilePerEpoch
    <3> QED
      BY <2>2, <3>1, <3>2, <3>3
  <2> QED
    BY <2>4, <2>5
<1>6. ASSUME NEW o \in Operators, NEW f \in Files, NEW g \in Files,
             Prepared(o, f, g)
      PROVE  PositionsAreStable'
  BY <1>0, <1>6 DEF Prepared
<1>7. ASSUME NEW o \in Operators, NEW f \in Files, NEW g \in Files,
             NEW e \in Epochs, PreparedRestore(o, f, g, e)
      PROVE  PositionsAreStable'
  BY <1>0, <1>7 DEF PreparedRestore
<1>8. ASSUME NEW o \in Operators, Publish(o) PROVE PositionsAreStable'
  <2>0. PICK f \in Files : f = job[o].target
    BY <1>8 DEF Publish, TypeOK
  <2>1. /\ ~Live(f) /\ observed' = observed
        /\ \A g \in Files \ {f} : db'[g] = db[g] /\ kind'[g] = kind[g]
        /\ db'[f] = job[o].db /\ kind'[f] = job[o].kind /\ job[o] # None
    BY <1>8, <2>0 DEF Publish, TypeOK, Live
  <2>2. Live(f)' => LiveJob(o)
    BY <2>1 DEF Live, LiveJob
  <2> QED
    BY <1>00, <2>1, <2>2 DEF OneFilePerEpoch
<1>9. ASSUME NEW o \in Operators, Abandon(o) PROVE PositionsAreStable'
  BY <1>0, <1>9 DEF Abandon
<1> QED
  BY <1>1, <1>2, <1>3, <1>4, <1>5, <1>6, <1>7, <1>8, <1>9, StepCases

LEMMA Invariance == Spec => []IInv
<1>1. Init => IInv
  <2>1. Init => PositionsAreStable
    BY DEF Init, PositionsAreStable
  <2> QED
    BY <2>1, InitTypes, InitEpochs, InitRooted, InitDeduplicated DEF IInv
<1>2. IInv /\ [Next]_vars => IInv'
  BY NextTypes, NextEpochs, NextRooted, NextDeduplicated, NextStable DEF IInv
<1> QED
  BY <1>1, <1>2, PTL DEF Spec

-------------------------------------------------------------------------------
(* The theorems.                                                           *)

(* Every variable of the relay's store always has its type: the files, the *)
(* snapshots being prepared, the drawn secrets and what clients were told. *)
THEOREM TypesHold == Spec => []TypeOK
<1>1. IInv => TypeOK
  BY DEF IInv
<1> QED
  BY <1>1, Invariance, PTL

(* What a receipt or a page told a client holds in every live file of that *)
(* epoch for ever, whatever append, backup_to and restore_new do next.     *)
THEOREM PositionsStay == Spec => []PositionsAreStable
<1>1. IInv => PositionsAreStable
  BY DEF IInv
<1> QED
  BY <1>1, Invariance, PTL

(* A retried append gets the receipt of the first attempt: clients are     *)
(* told of one position and one ciphertext per update, epoch and vault.    *)
THEOREM OneReceipt == Spec => []OneReceiptPerUpdate
<1>1. IInv => OneReceiptPerUpdate
  <2> SUFFICES ASSUME IInv, NEW p \in observed, NEW q \in observed,
                      p.epoch = q.epoch, p.vault = q.vault, p.id = q.id
               PROVE  p = q
    BY DEF OneReceiptPerUpdate
  <2>1. PICK f \in Files : Live(f) /\ db[f].epoch = p.epoch
    BY DEF IInv, Witnessed
  <2>2. /\ p.seq <= Len(db[f].log[p.vault]) /\ Told(db[f], p.vault, p.seq) = p
        /\ q.seq <= Len(db[f].log[p.vault]) /\ Told(db[f], p.vault, q.seq) = q
    BY <2>1 DEF IInv, PositionsAreStable
  <2>3. /\ p.seq \in Nat \ {0} /\ q.seq \in Nat \ {0} /\ p.vault \in Vaults
    BY DEF IInv, TypeOK, Position
  <2>4. Len(db[f].log[p.vault]) \in Nat
    <3>1. db[f].log[p.vault] \in Seq(Entry)
      BY <2>3 DEF IInv, TypeOK, Db
    <3> QED
      BY <3>1
  <2>5. /\ p.seq \in 1..Len(db[f].log[p.vault])
        /\ q.seq \in 1..Len(db[f].log[p.vault])
    BY <2>2, <2>3, <2>4
  <2>6. db[f].log[p.vault][p.seq].id = db[f].log[p.vault][q.seq].id
    BY <2>2 DEF Told
  <2>7. p.seq = q.seq
    BY <2>3, <2>5, <2>6 DEF IInv, Deduplicated, Distinct
  <2> QED
    BY <2>2, <2>7
<1> QED
  BY <1>1, Invariance, PTL

(* What clients were told of positions and receipts stays true and is the   *)
(* same for every retry (append, pull, backup_to, restore_new).             *)
THEOREM ReceiptsHoldForever == Spec => []ReceiptsHold
  BY PositionsStay, OneReceipt, PTL DEF ReceiptsHold


(* A bearer token authorizes only at the file whose issue_device or        *)
(* reauthorize_device returned it: never at a file restored from that one. *)
THEOREM TokensAtHome == Spec => []TokensStayHome
<1>1. IInv => TokensStayHome
  <2> SUFFICES ASSUME IInv, NEW f \in Files, NEW t \in Tokens, Live(f),
                      NEW d \in Devices, db[f].token[d] = t,
                      d \notin db[f].revoked
               PROVE  issuer[t] = f
    BY DEF TokensStayHome, Speaks
  <2>1. db[f].token[d] # None
    BY NoneAssumption
  <2> QED
    BY <2>1 DEF IInv, Rooted
<1> QED
  BY <1>1, Invariance, PTL

(* A token that is accepted nowhere any more is never accepted again:      *)
(* later tokens are new, and a restored file revokes all of its devices.   *)
THEOREM RevocationsLast == Spec => RevocationIsFinal
<1>1. ASSUME IInv, [Next]_vars, NEW t \in Tokens, issuer[t] # None,
             AcceptedAt(t) = {}
      PROVE  AcceptedAt(t)' = {}
  <2> USE DEF IInv
  <2>1. \A g \in Files, d \in Devices :
          Live(g) /\ db[g].token[d] = t => d \in db[g].revoked
    BY <1>1 DEF AcceptedAt, Speaks
  <2> SUFFICES ASSUME NEW g \in Files, NEW d \in Devices,
                      Live(g)', db'[g].token[d] = t, d \notin db'[g].revoked
               PROVE  FALSE
    BY DEF AcceptedAt, Speaks
  <2>2. ASSUME kind' = kind, db'[g].token = db[g].token,
               db'[g].revoked = db[g].revoked
        PROVE  FALSE
    BY <2>1, <2>2 DEF Live
  <2>3. CASE UNCHANGED vars
    BY <2>2, <2>3 DEF vars
  <2>4. ASSUME NEW f \in Files, NEW c \in Db, Administered(f, c) PROVE FALSE
    <3>1. /\ db'[f] = c /\ \A h \in Files \ {f} : db'[h] = db[h]
          /\ kind' = kind
      BY <1>1, <2>4 DEF Administered, TypeOK
    <3>2. g = f /\ c.token[d] = t /\ d \notin c.revoked
      BY <2>2, <3>1
    <3>3. CASE /\ c.token[d] = db[f].token[d]
               /\ d \in db[f].revoked => d \in c.revoked
      BY <2>1, <2>4, <3>2, <3>3 DEF Administered
    <3>4. CASE c.token[d] \in FreshTokens
      BY <1>1, <3>2, <3>4 DEF FreshTokens
    <3> QED
      BY <2>4, <3>3, <3>4 DEF Administered, Credentials
  <2>5. ASSUME NEW f \in Files, NEW e \in Epochs, Opened(f, e) PROVE FALSE
    <3>1. /\ db'[f].token[d] = None
          /\ \A h \in Files \ {f} : db'[h] = db[h] /\ kind'[h] = kind[h]
      BY <1>1, <2>5 DEF Opened, TypeOK, EmptyDb
    <3> QED
      BY <2>1, <3>1, NoneAssumption DEF Live
  <2>6. ASSUME NEW f \in Files, Answered(f) PROVE FALSE
    BY <2>2, <2>6 DEF Answered
  <2>7. ASSUME NEW f \in Files, NEW v \in Vaults, NEW m \in Entry,
               Appended(f, v, m)
        PROVE  FALSE
    <3>1. kind' = kind /\ db'[g].token = db[g].token
          /\ db'[g].revoked = db[g].revoked
      BY <1>1, <2>7 DEF Appended, TypeOK, Db
    <3> QED
      BY <2>2, <3>1
  <2>8. ASSUME NEW o \in Operators, NEW f \in Files, NEW h \in Files,
               Prepared(o, f, h)
        PROVE  FALSE
    BY <2>2, <2>8 DEF Prepared
  <2>9. ASSUME NEW o \in Operators, NEW f \in Files, NEW h \in Files,
               NEW e \in Epochs, PreparedRestore(o, f, h, e)
        PROVE  FALSE
    BY <2>2, <2>9 DEF PreparedRestore
  <2>10. ASSUME NEW o \in Operators, Publish(o) PROVE FALSE
    <3>0. PICK f \in Files : f = job[o].target
      BY <1>1, <2>10 DEF Publish, TypeOK
    <3>1. /\ db'[f] = job[o].db /\ kind'[f] = job[o].kind /\ job[o] # None
          /\ \A h \in Files \ {f} : db'[h] = db[h] /\ kind'[h] = kind[h]
      BY <1>1, <2>10, <3>0 DEF Publish, TypeOK
    <3>2. CASE g = f
      <4>1. LiveJob(o)
        BY <3>1, <3>2 DEF Live, LiveJob
      <4> QED
        BY <1>1, <3>1, <3>2, <4>1, NoneAssumption DEF Rooted
    <3>3. CASE g # f
      BY <2>1, <3>1, <3>3 DEF Live
    <3> QED
      BY <3>2, <3>3
  <2>11. ASSUME NEW o \in Operators, Abandon(o) PROVE FALSE
    BY <2>2, <2>11 DEF Abandon
  <2> QED
    BY <1>1, <2>3, <2>4, <2>5, <2>6, <2>7, <2>8, <2>9, <2>10, <2>11, StepCases
<1>2. IInv /\ [Next]_vars =>
        [\A t \in Tokens :
           issuer[t] # None /\ AcceptedAt(t) = {} => AcceptedAt(t)' = {}]_vars
  BY <1>1
<1> QED
  BY <1>2, Invariance, PTL DEF Spec, RevocationIsFinal

-------------------------------------------------------------------------------
(* RelayStore implements RelayLog: whatever is backed up, restored and     *)
(* served side by side, the live file of an epoch only gets longer, and a  *)
(* new one starts empty or with what an earlier one already had.           *)

-------------------------------------------------------------------------------
(* Copies.                                                                 *)

(* Every log of r is the beginning of the same log of q. *)
Before(r, q) ==
  \A v \in Vaults :
    /\ Len(r.log[v]) <= Len(q.log[v])
    /\ \A n \in 1..Len(r.log[v]) : r.log[v][n] = q.log[v][n]

LEMMA SameLogBefore ==
  ASSUME NEW r \in Db, NEW q, q.log = r.log
  PROVE  Before(r, q)
<1>1. \A v \in Vaults : Len(r.log[v]) \in Nat
  <2>1. \A v \in Vaults : r.log[v] \in Seq(Entry)
    BY DEF Db
  <2> QED
    BY <2>1
<1> QED
  BY <1>1 DEF Before

LEMMA BeforeTransitive ==
  ASSUME NEW r \in Db, NEW q \in Db, NEW s \in Db, Before(r, q), Before(q, s)
  PROVE  Before(r, s)
<1> SUFFICES ASSUME NEW v \in Vaults
             PROVE  /\ Len(r.log[v]) <= Len(s.log[v])
                    /\ \A n \in 1..Len(r.log[v]) : r.log[v][n] = s.log[v][n]
  BY DEF Before
<1>1. /\ r.log[v] \in Seq(Entry) /\ q.log[v] \in Seq(Entry)
      /\ s.log[v] \in Seq(Entry)
  BY DEF Db
<1>2. PICK k \in Nat, l \in Nat, m \in Nat :
        k = Len(r.log[v]) /\ l = Len(q.log[v]) /\ m = Len(s.log[v])
  BY <1>1
<1>3. /\ k <= l /\ \A n \in 1..k : r.log[v][n] = q.log[v][n]
      /\ l <= m /\ \A n \in 1..l : q.log[v][n] = s.log[v][n]
  BY <1>2 DEF Before
<1>4. k <= m /\ \A n \in 1..k : n \in 1..l
  BY <1>3
<1>5. \A n \in 1..k : r.log[v][n] = s.log[v][n]
  BY <1>3, <1>4
<1> QED
  BY <1>2, <1>4, <1>5

(* A log with the same beginning has the other one as a prefix. *)
LEMMA BeforePrefix ==
  ASSUME NEW r \in Db, NEW q \in Db, Before(r, q), NEW v \in Vaults
  PROVE  r.log[v] \in Promise!Prefixes(q.log[v])
<1>1. PICK s \in Seq(Entry), t \in Seq(Entry) :
        s = r.log[v] /\ t = q.log[v]
  BY DEF Db
<1>2. /\ Len(s) <= Len(t) /\ \A n \in 1..Len(s) : s[n] = t[n]
      /\ Len(s) \in Nat /\ Len(t) \in Nat
  BY <1>1 DEF Before
<1>3. \A n \in 1..Len(s) : t[n] \in Entry
  BY <1>2
<1>4. /\ SubSeq(t, 1, Len(s)) \in Seq(Entry)
      /\ Len(SubSeq(t, 1, Len(s))) = Len(s)
      /\ \A n \in 1..Len(s) : SubSeq(t, 1, Len(s))[n] = t[n]
  <2>1. /\ SubSeq(t, 1, Len(s)) \in Seq(Entry)
        /\ Len(SubSeq(t, 1, Len(s)))
             = IF 1 <= Len(s) THEN Len(s) - 1 + 1 ELSE 0
        /\ \A i \in 1..(Len(s) - 1 + 1) :
             SubSeq(t, 1, Len(s))[i] = t[1 + i - 1]
    BY <1>2, <1>3, SubSeqProperties
  <2> QED
    BY <1>2, <2>1
<1>5. s = SubSeq(t, 1, Len(s))
  <2> DEFINE z == SubSeq(t, 1, Len(s))
  <2>1. z \in Seq(Entry) /\ Len(s) = Len(z) /\ \A n \in 1..Len(s) : s[n] = z[n]
    BY <1>2, <1>4
  <2> HIDE DEF z
  <2>2. s = z
    BY <2>1, SeqEqual
  <2> QED
    BY <2>2 DEF z
<1>6. Len(s) \in 0..Len(t)
  BY <1>2
<1> QED
  BY <1>1, <1>5, <1>6 DEF Promise!Prefixes

(* A backup, and a snapshot not yet published, have what some relay has. *)
Copied ==
  /\ \A f \in Files : kind[f] = "backup" =>
       \E h \in Files : Live(h) /\ Before(db[f], db[h])
  /\ \A o \in Operators : job[o] # None =>
       \E h \in Files : Live(h) /\ Before(job[o].db, db[h])

LEMMA InitCopied == Init => Copied
BY DEF Init, Copied

(* A relay stays a relay and its logs only get longer. *)
LEMMA Grows ==
  ASSUME IInv, [Next]_vars, NEW h \in Files, Live(h)
  PROVE  Live(h)' /\ Before(db[h], db'[h])
<1> DEFINE Goal == Live(h)' /\ Before(db[h], db'[h])
<1>0. TypeOK /\ db[h] \in Db /\ kind[h] = "live"
  BY DEF IInv, TypeOK, Live
<1>a. ASSUME kind'[h] = kind[h], db'[h].log = db[h].log
      PROVE  Goal
  BY <1>0, <1>a, SameLogBefore DEF Live
<1> SUFFICES Goal
  OBVIOUS
<1> HIDE DEF Goal
<1>1. CASE UNCHANGED vars
  BY <1>a, <1>1 DEF vars
<1>2. ASSUME NEW f \in Files, NEW c \in Db, Administered(f, c) PROVE Goal
  BY <1>0, <1>a, <1>2 DEF Administered, TypeOK
<1>3. ASSUME NEW f \in Files, NEW e \in Epochs, Opened(f, e) PROVE Goal
  BY <1>0, <1>a, <1>3 DEF Opened, TypeOK
<1>4. ASSUME NEW f \in Files, Answered(f) PROVE Goal
  BY <1>a, <1>4 DEF Answered
<1>5. ASSUME NEW f \in Files, NEW v \in Vaults, NEW m \in Entry,
             Appended(f, v, m)
      PROVE  Goal
  <2>1. kind' = kind
    BY <1>5 DEF Appended
  <2>2. CASE h # f
    <3>1. db'[h] = db[h]
      BY <1>0, <1>5, <2>2, AppendedLog
    <3> QED
      BY <1>a, <2>1, <3>1
  <2>3. CASE h = f
    <3>1. /\ Len(db'[h].log[v]) = Len(db[h].log[v]) + 1
          /\ Len(db[h].log[v]) \in Nat
          /\ \A n \in 1..Len(db[h].log[v]) :
               db'[h].log[v][n] = db[h].log[v][n]
          /\ \A u \in Vaults \ {v} : db'[h].log[u] = db[h].log[u]
      BY <1>0, <1>5, <2>3, AppendedLog
    <3>2. \A u \in Vaults : Len(db[h].log[u]) \in Nat
      <4>1. \A u \in Vaults : db[h].log[u] \in Seq(Entry)
        BY <1>0 DEF Db
      <4> QED
        BY <4>1
    <3>3. Before(db[h], db'[h])
      <4> SUFFICES ASSUME NEW u \in Vaults
                   PROVE  /\ Len(db[h].log[u]) <= Len(db'[h].log[u])
                          /\ \A n \in 1..Len(db[h].log[u]) :
                               db[h].log[u][n] = db'[h].log[u][n]
        BY DEF Before
      <4>1. CASE u = v
        BY <3>1, <4>1
      <4>2. CASE u # v
        BY <3>1, <3>2, <4>2
      <4> QED
        BY <4>1, <4>2
    <3> QED
      BY <1>0, <2>1, <3>3 DEF Live, Goal
  <2> QED
    BY <2>2, <2>3
<1>6. ASSUME NEW o \in Operators, NEW f \in Files, NEW g \in Files,
             Prepared(o, f, g)
      PROVE  Goal
  BY <1>a, <1>6 DEF Prepared
<1>7. ASSUME NEW o \in Operators, NEW f \in Files, NEW g \in Files,
             NEW e \in Epochs, PreparedRestore(o, f, g, e)
      PROVE  Goal
  BY <1>a, <1>7 DEF PreparedRestore
<1>8. ASSUME NEW o \in Operators, Publish(o) PROVE Goal
  <2>1. h # job[o].target
    BY <1>0, <1>8 DEF Publish
  <2> QED
    BY <1>0, <1>a, <1>8, <2>1 DEF Publish, TypeOK
<1>9. ASSUME NEW o \in Operators, Abandon(o) PROVE Goal
  BY <1>a, <1>9 DEF Abandon
<1> QED
  BY <1>0, <1>1, <1>2, <1>3, <1>4, <1>5, <1>6, <1>7, <1>8, <1>9, StepCases

LEMMA NextCopied ==
  ASSUME IInv, IInv', Copied, [Next]_vars
  PROVE  Copied'
<1>0. TypeOK /\ \A f \in Files : db[f] \in Db /\ db'[f] \in Db
  BY DEF IInv, TypeOK
<1>a. ASSUME NEW r \in Db, \E h \in Files : Live(h) /\ Before(r, db[h])
      PROVE  \E h \in Files : Live(h)' /\ Before(r, db'[h])
  <2>1. PICK h \in Files : Live(h) /\ Before(r, db[h])
    BY <1>a
  <2>2. Live(h)' /\ Before(db[h], db'[h])
    BY <2>1, Grows
  <2>3. Before(r, db'[h])
    BY <1>0, <2>1, <2>2, BeforeTransitive
  <2> QED
    BY <2>2, <2>3
<1> DEFINE Held(r) == \E h \in Files : Live(h)' /\ Before(r, db'[h])
<1> SUFFICES /\ \A f \in Files : kind'[f] = "backup" => Held(db'[f])
             /\ \A o \in Operators : job'[o] # None => Held(job'[o].db)
  BY DEF Copied, Before
<1>b. \A f \in Files : kind[f] = "backup" => Held(db[f])
  BY <1>0, <1>a DEF Copied
<1>c. \A o \in Operators : job[o] # None => Held(job[o].db)
  <2> SUFFICES ASSUME NEW o \in Operators, job[o] # None
               PROVE  Held(job[o].db)
    OBVIOUS
  <2>1. job[o].db \in Db
    BY <1>0 DEF TypeOK
  <2> QED
    BY <1>a, <2>1 DEF Copied
<1>d. \A h \in Files : Live(h) => Held(db[h])
  BY Grows
<1> DEFINE Goal == /\ \A f \in Files : kind'[f] = "backup" => Held(db'[f])
                   /\ \A o \in Operators : job'[o] # None => Held(job'[o].db)
<1> SUFFICES Goal
  OBVIOUS
<1> HIDE DEF Held
<1>e. ASSUME job' = job,
             \A f \in Files : kind'[f] = "backup" =>
               kind[f] = "backup" /\ db'[f] = db[f]
      PROVE  Goal
  BY <1>b, <1>c, <1>e
<1> HIDE DEF Goal
<1>1. CASE UNCHANGED vars
  BY <1>e, <1>1 DEF vars
<1>2. ASSUME NEW f \in Files, NEW c \in Db, Administered(f, c) PROVE Goal
  BY <1>0, <1>e, <1>2 DEF Administered, TypeOK, Live
<1>3. ASSUME NEW f \in Files, NEW e \in Epochs, Opened(f, e) PROVE Goal
  BY <1>0, <1>e, <1>3 DEF Opened, TypeOK
<1>4. ASSUME NEW f \in Files, Answered(f) PROVE Goal
  BY <1>e, <1>4 DEF Answered
<1>5. ASSUME NEW f \in Files, NEW v \in Vaults, NEW m \in Entry,
             Appended(f, v, m)
      PROVE  Goal
  <2>1. /\ kind' = kind /\ job' = job /\ kind[f] = "live"
        /\ \A g \in Files \ {f} : db'[g] = db[g]
    BY <1>0, <1>5, AppendedLog DEF Appended, Live
  <2>2. \A g \in Files : kind'[g] = "backup" => db'[g] = db[g]
    BY <2>1
  <2> QED
    BY <1>e, <2>1, <2>2
<1>6. ASSUME NEW o \in Operators, NEW f \in Files, NEW g \in Files,
             Prepared(o, f, g)
      PROVE  Goal
  <2>1. /\ job'[o].db = db[f] /\ db' = db /\ kind' = kind /\ Live(f)
        /\ \A q \in Operators \ {o} : job'[q] = job[q]
    BY <1>0, <1>6 DEF Prepared, TypeOK
  <2> QED
    BY <1>b, <1>c, <1>d, <2>1 DEF Goal
<1>7. ASSUME NEW o \in Operators, NEW f \in Files, NEW g \in Files,
             NEW e \in Epochs, PreparedRestore(o, f, g, e)
      PROVE  Goal
  <2>1. /\ job'[o].db = Restored(db[f], e) /\ db' = db /\ kind' = kind
        /\ kind[f] = "backup"
        /\ \A q \in Operators \ {o} : job'[q] = job[q]
    BY <1>0, <1>7 DEF PreparedRestore, TypeOK
  <2>2. Restored(db[f], e) \in Db /\ Restored(db[f], e).log = db[f].log
    BY <1>0, RestoredRows
  <2>3. Held(Restored(db[f], e))
    <3>1. PICK h \in Files : Live(h)' /\ Before(db[f], db'[h])
      BY <1>b, <2>1 DEF Held
    <3>2. Before(Restored(db[f], e), db[f])
      BY <2>2, SameLogBefore
    <3>3. Before(Restored(db[f], e), db'[h])
      BY <1>0, <2>2, <3>1, <3>2, BeforeTransitive
    <3> QED
      BY <3>1, <3>3 DEF Held
  <2> QED
    BY <1>b, <1>c, <2>1, <2>3 DEF Goal
<1>8. ASSUME NEW o \in Operators, Publish(o) PROVE Goal
  <2>0. PICK f \in Files : f = job[o].target
    BY <1>0, <1>8 DEF Publish, TypeOK
  <2>1. /\ db'[f] = job[o].db /\ job[o] # None
        /\ \A g \in Files \ {f} : db'[g] = db[g] /\ kind'[g] = kind[g]
        /\ job'[o] = None /\ \A q \in Operators \ {o} : job'[q] = job[q]
    BY <1>0, <1>8, <2>0 DEF Publish, TypeOK
  <2> QED
    BY <1>b, <1>c, <2>1 DEF Goal
<1>9. ASSUME NEW o \in Operators, Abandon(o) PROVE Goal
  <2>1. /\ job'[o] = None /\ \A q \in Operators \ {o} : job'[q] = job[q]
        /\ kind' = kind /\ db' = db
    BY <1>0, <1>9 DEF Abandon, TypeOK
  <2> QED
    BY <1>b, <1>c, <2>1 DEF Goal
<1> QED
  BY <1>0, <1>1, <1>2, <1>3, <1>4, <1>5, <1>6, <1>7, <1>8, <1>9, StepCases

-------------------------------------------------------------------------------
(* The mapping.                                                            *)

(* The logs of an epoch are those of its live file. *)
RowsServed ==
  /\ \A f \in Files : Live(f) =>
       db[f].epoch \in Epochs /\ ServedLogs[db[f].epoch] = db[f].log
  /\ \A e \in Epochs : (\A f \in Files : Live(f) => db[f].epoch # e) =>
       ServedLogs[e] = [v \in Vaults |-> << >>]

LEMMA ServedRows == IInv => RowsServed
<1> SUFFICES ASSUME IInv PROVE RowsServed
  OBVIOUS
<1>1. ASSUME NEW f \in Files, Live(f)
      PROVE  db[f].epoch \in Epochs /\ ServedLogs[db[f].epoch] = db[f].log
  <2>1. db[f].epoch \in Epochs
    BY <1>1 DEF IInv, TypeOK, Epoched
  <2> DEFINE g == CHOOSE h \in Files :
                    kind[h] = "live" /\ db[h].epoch = db[f].epoch
  <2>2. g \in Files /\ Live(g) /\ db[g].epoch = db[f].epoch
    BY <1>1 DEF Live
  <2>3. ServedLogs[db[f].epoch] = db[g].log
    BY <1>1, <2>1 DEF ServedLogs, Live
  <2>4. g = f
    BY <1>1, <2>2 DEF IInv, OneFilePerEpoch
  <2> QED
    BY <2>1, <2>3, <2>4
<1>2. ASSUME NEW e \in Epochs, \A f \in Files : Live(f) => db[f].epoch # e
      PROVE  ServedLogs[e] = [v \in Vaults |-> << >>]
  BY <1>2 DEF ServedLogs, Live
<1> QED
  BY <1>1, <1>2 DEF RowsServed

LEMMA ServedRowsNext == IInv' => RowsServed'
BY ServedRows, PTL

(* Steps that leave the epochs and the logs of the live files alone. *)
LEMMA NothingServed ==
  ASSUME IInv, IInv',
         \A f \in Files : Live(f)' <=> Live(f),
         \A f \in Files : Live(f) =>
           db'[f].epoch = db[f].epoch /\ db'[f].log = db[f].log
  PROVE  UNCHANGED Promise!vars
<1>1. {db[f].epoch : f \in {g \in Files : Live(g)}}'
        = {db[f].epoch : f \in {g \in Files : Live(g)}}
  OBVIOUS
<1>2. \A e \in Epochs : ServedLogs'[e] = ServedLogs[e]
  <2> SUFFICES ASSUME NEW e \in Epochs PROVE ServedLogs'[e] = ServedLogs[e]
    OBVIOUS
  <2>1. ASSUME NEW f \in Files, Live(f), db[f].epoch = e
        PROVE  ServedLogs'[e] = ServedLogs[e]
    <3>1. ServedLogs[e] = db[f].log
      BY <2>1, ServedRows DEF RowsServed
    <3>2. ServedLogs'[e] = db'[f].log
      BY <2>1, ServedRowsNext DEF RowsServed
    <3> QED
      BY <2>1, <3>1, <3>2
  <2>2. CASE \A f \in Files : Live(f) => db[f].epoch # e
    <3>1. ServedLogs[e] = [v \in Vaults |-> << >>]
      BY <2>2, ServedRows DEF RowsServed
    <3>2. \A f \in Files : Live(f)' => db'[f].epoch # e
      BY <2>2
    <3>3. ServedLogs'[e] = [v \in Vaults |-> << >>]
      BY <3>2, ServedRowsNext DEF RowsServed
    <3> QED
      BY <3>1, <3>3
  <2> QED
    BY <2>1, <2>2
<1>3. ServedLogs' = ServedLogs
  <2>1. /\ ServedLogs = [e \in Epochs |-> ServedLogs[e]]
        /\ ServedLogs' = [e \in Epochs |-> ServedLogs'[e]]
    BY DEF ServedLogs, Live
  <2> QED
    BY <1>2, <2>1
<1> QED
  BY <1>1, <1>3 DEF Promise!vars

(* A file that becomes live establishes its epoch. *)
LEMMA Establishes ==
  ASSUME IInv, IInv', NEW f \in Files, ~Live(f), Live(f)',
         \A g \in Files \ {f} : db'[g] = db[g] /\ kind'[g] = kind[g],
         \/ db'[f].log = [v \in Vaults |-> << >>]
         \/ \E h \in Files : Live(h) /\ Before(db'[f], db[h])
  PROVE  Promise!Next
<1>1. PICK e \in Epochs : e = db'[f].epoch
  BY ServedRowsNext DEF RowsServed
<1>2. \A g \in Files : Live(g) => g # f /\ Live(g)' /\ db'[g] = db[g]
  BY DEF Live
<1>3. \A g \in Files : Live(g) => db[g].epoch # e
  BY <1>1, <1>2 DEF IInv, OneFilePerEpoch
<1> DEFINE Met == {db[g].epoch : g \in {h \in Files : Live(h)}}
<1>4. e \notin Met
  BY <1>3
<1>5. Met' = Met \cup {e}
  <2>1. \A g \in Files : Live(g)' <=> Live(g) \/ g = f
    BY <1>2 DEF Live
  <2>2. Met' = {db'[g].epoch : g \in {h \in Files : Live(h)'}}
    OBVIOUS
  <2>3. ASSUME NEW x \in Met' PROVE x \in Met \cup {e}
    <3>1. PICK g \in Files : Live(g)' /\ x = db'[g].epoch
      BY <2>2, <2>3
    <3> QED
      BY <1>1, <1>2, <2>1, <3>1
  <2>4. ASSUME NEW x \in Met PROVE x \in Met'
    <3>1. PICK g \in Files : Live(g) /\ x = db[g].epoch
      BY <2>4
    <3> QED
      BY <1>2, <2>2, <3>1
  <2>5. e \in Met'
    BY <1>1, <2>2
  <2> HIDE DEF Met
  <2> QED
    BY <2>3, <2>4, <2>5
<1>6. ServedLogs'[e] = db'[f].log
  BY <1>1, ServedRowsNext DEF RowsServed
<1>7. \A d \in Epochs \ {e} : ServedLogs'[d] = ServedLogs[d]
  <2> SUFFICES ASSUME NEW d \in Epochs, d # e PROVE ServedLogs'[d] = ServedLogs[d]
    OBVIOUS
  <2>1. ASSUME NEW g \in Files, Live(g), db[g].epoch = d
        PROVE  ServedLogs'[d] = ServedLogs[d]
    <3>1. ServedLogs[d] = db[g].log
      BY <2>1, ServedRows DEF RowsServed
    <3>2. Live(g)' /\ db'[g] = db[g]
      BY <1>2, <2>1
    <3>3. ServedLogs'[d] = db'[g].log
      BY <2>1, <3>2, ServedRowsNext DEF RowsServed
    <3> QED
      BY <3>1, <3>2, <3>3
  <2>2. CASE \A g \in Files : Live(g) => db[g].epoch # d
    <3>1. ServedLogs[d] = [v \in Vaults |-> << >>]
      BY <2>2, ServedRows DEF RowsServed
    <3>2. \A g \in Files : Live(g)' => db'[g].epoch # d
      BY <1>1, <2>2 DEF Live
    <3>3. ServedLogs'[d] = [v \in Vaults |-> << >>]
      BY <3>2, ServedRowsNext DEF RowsServed
    <3> QED
      BY <3>1, <3>3
  <2> QED
    BY <2>1, <2>2
<1>8. ServedLogs' = [ServedLogs EXCEPT ![e] = ServedLogs'[e]]
  <2>1. /\ ServedLogs = [d \in Epochs |-> ServedLogs[d]]
        /\ ServedLogs' = [d \in Epochs |-> ServedLogs'[d]]
    BY DEF ServedLogs, Live
  <2> QED
    BY <1>7, <2>1
<1>9. \/ ServedLogs'[e] = [v \in Vaults |-> << >>]
      \/ \E d \in Met :
           /\ DOMAIN ServedLogs'[e] = Vaults
           /\ \A v \in Vaults :
                ServedLogs'[e][v] \in Promise!Prefixes(ServedLogs[d][v])
  <2>1. ASSUME NEW h \in Files, Live(h), Before(db'[f], db[h])
        PROVE  \E d \in Met :
                 /\ DOMAIN ServedLogs'[e] = Vaults
                 /\ \A v \in Vaults :
                      ServedLogs'[e][v] \in Promise!Prefixes(ServedLogs[d][v])
    <3>1. db'[f] \in Db /\ db[h] \in Db
      BY DEF IInv, TypeOK
    <3>2. db[h].epoch \in Met /\ ServedLogs[db[h].epoch] = db[h].log
      BY <2>1, ServedRows DEF RowsServed
    <3>3. DOMAIN ServedLogs'[e] = Vaults
      BY <1>6, <3>1 DEF Db
    <3>4. \A v \in Vaults : db'[f].log[v] \in Promise!Prefixes(db[h].log[v])
      BY <2>1, <3>1, BeforePrefix
    <3> HIDE DEF Met
    <3> QED
      BY <1>6, <3>2, <3>3, <3>4
  <2> HIDE DEF Met
  <2> QED
    BY <1>6, <2>1
<1>10. Promise!Establish(e, ServedLogs'[e])
  <2> HIDE DEF Met
  <2>1. /\ e \in Epochs \ Met
        /\ Met' = Met \cup {e}
        /\ ServedLogs' = [ServedLogs EXCEPT ![e] = ServedLogs'[e]]
    BY <1>4, <1>5, <1>8
  <2> QED
    BY <1>9, <2>1 DEF Promise!Establish, Promise!EmptyLogs, Met
<1> QED
  BY <1>10 DEF Promise!Next

(* A new update is accepted into the logs of its epoch. *)
LEMMA Accepts ==
  ASSUME IInv, IInv', NEW f \in Files, NEW v \in Vaults, NEW m \in Entry,
         Appended(f, v, m)
  PROVE  Promise!Next
<1>0. TypeOK /\ Live(f) /\ kind' = kind /\ db[f] \in Db
  BY DEF IInv, TypeOK, Appended
<1>1. PICK e \in Epochs : e = db[f].epoch
  BY <1>0, ServedRows DEF RowsServed
<1>2. /\ db'[f].log[v] = Append(db[f].log[v], m)
      /\ \A u \in Vaults \ {v} : db'[f].log[u] = db[f].log[u]
      /\ \A g \in Files \ {f} : db'[g] = db[g]
      /\ \A g \in Files : db'[g].epoch = db[g].epoch
  BY <1>0, AppendedLog
<1>3. \A g \in Files : Live(g)' <=> Live(g)
  BY <1>0 DEF Live
<1> DEFINE Met == {db[g].epoch : g \in {h \in Files : Live(h)}}
<1>4. e \in Met /\ Met' = Met
  <2>1. e \in Met
    BY <1>0, <1>1
  <2>2. Met' = Met
    BY <1>2, <1>3
  <2> QED
    BY <2>1, <2>2
<1>5. ServedLogs[e] = db[f].log /\ ServedLogs'[e] = db'[f].log
  BY <1>0, <1>1, <1>2, <1>3, ServedRows, ServedRowsNext DEF RowsServed
<1>6. \A d \in Epochs \ {e} : ServedLogs'[d] = ServedLogs[d]
  <2> SUFFICES ASSUME NEW d \in Epochs, d # e PROVE ServedLogs'[d] = ServedLogs[d]
    OBVIOUS
  <2>1. ASSUME NEW g \in Files, Live(g), db[g].epoch = d
        PROVE  ServedLogs'[d] = ServedLogs[d]
    <3>1. ServedLogs[d] = db[g].log
      BY <2>1, ServedRows DEF RowsServed
    <3>2. Live(g)' /\ db'[g] = db[g]
      BY <1>1, <1>2, <1>3, <2>1
    <3>3. ServedLogs'[d] = db'[g].log
      BY <2>1, <3>2, ServedRowsNext DEF RowsServed
    <3> QED
      BY <3>1, <3>2, <3>3
  <2>2. CASE \A g \in Files : Live(g) => db[g].epoch # d
    <3>1. ServedLogs[d] = [u \in Vaults |-> << >>]
      BY <2>2, ServedRows DEF RowsServed
    <3>2. \A g \in Files : Live(g)' => db'[g].epoch # d
      BY <1>2, <1>3, <2>2
    <3>3. ServedLogs'[d] = [u \in Vaults |-> << >>]
      BY <3>2, ServedRowsNext DEF RowsServed
    <3> QED
      BY <3>1, <3>3
  <2> QED
    BY <2>1, <2>2
<1>7. /\ m.id \in Updates /\ m.wire \in Wires
      /\ m = [id |-> m.id, wire |-> m.wire]
  BY DEF Entry
<1>8. ServedLogs' = [ServedLogs EXCEPT
                       ![e][v] = Append(@, [id |-> m.id, wire |-> m.wire])]
  <2>1. /\ ServedLogs = [d \in Epochs |-> ServedLogs[d]]
        /\ ServedLogs' = [d \in Epochs |-> ServedLogs'[d]]
    BY DEF ServedLogs, Live
  <2>2. db'[f].log = [db[f].log EXCEPT ![v] = Append(@, m)]
    <3>1. /\ db[f].log \in [Vaults -> Seq(Entry)]
          /\ db'[f].log \in [Vaults -> Seq(Entry)]
      BY <1>0 DEF IInv, TypeOK, Db
    <3> QED
      BY <1>2, <3>1
  <2>3. ServedLogs'[e] = [ServedLogs[e] EXCEPT ![v] = Append(@, m)]
    BY <1>5, <2>2
  <2>4. ServedLogs' = [ServedLogs EXCEPT ![e] =
                         [ServedLogs[e] EXCEPT ![v] = Append(@, m)]]
    BY <1>6, <2>1, <2>3
  <2> QED
    BY <1>7, <2>4
<1>9. m.id \notin Promise!Ids(ServedLogs[e][v])
  BY <1>5 DEF Appended, Promise!Ids
<1>10. Promise!Accept(e, v, m.id, m.wire)
  BY <1>4, <1>8, <1>9 DEF Promise!Accept
<1> QED
  BY <1>7, <1>10 DEF Promise!Next

LEMMA NextKeeps ==
  ASSUME IInv, IInv', Copied, [Next]_vars
  PROVE  [Promise!Next]_(Promise!vars)
<1> DEFINE Goal == [Promise!Next]_(Promise!vars)
<1>0. TypeOK
  BY DEF IInv
<1>a. ASSUME \A f \in Files : Live(f)' <=> Live(f),
             \A f \in Files : Live(f) =>
               db'[f].epoch = db[f].epoch /\ db'[f].log = db[f].log
      PROVE  Goal
  BY <1>a, NothingServed
<1> SUFFICES Goal
  OBVIOUS
<1>b. ASSUME Promise!Next PROVE Goal
  BY <1>b
<1> HIDE DEF Goal
<1>1. CASE UNCHANGED vars
  BY <1>a, <1>1 DEF vars, Live
<1>2. ASSUME NEW f \in Files, NEW c \in Db, Administered(f, c) PROVE Goal
  BY <1>0, <1>a, <1>2 DEF Administered, TypeOK, Live
<1>3. ASSUME NEW f \in Files, NEW e \in Epochs, Opened(f, e) PROVE Goal
  <2>1. /\ ~Live(f) /\ Live(f)'
        /\ db'[f].log = [v \in Vaults |-> << >>]
        /\ \A g \in Files \ {f} : db'[g] = db[g] /\ kind'[g] = kind[g]
    BY <1>0, <1>3 DEF Opened, TypeOK, EmptyDb, Live
  <2> QED
    BY <1>b, <2>1, Establishes
<1>4. ASSUME NEW f \in Files, Answered(f) PROVE Goal
  BY <1>a, <1>4 DEF Answered, Live
<1>5. ASSUME NEW f \in Files, NEW v \in Vaults, NEW m \in Entry,
             Appended(f, v, m)
      PROVE  Goal
  BY <1>b, <1>5, Accepts
<1>6. ASSUME NEW o \in Operators, NEW f \in Files, NEW g \in Files,
             Prepared(o, f, g)
      PROVE  Goal
  BY <1>a, <1>6 DEF Prepared, Live
<1>7. ASSUME NEW o \in Operators, NEW f \in Files, NEW g \in Files,
             NEW e \in Epochs, PreparedRestore(o, f, g, e)
      PROVE  Goal
  BY <1>a, <1>7 DEF PreparedRestore, Live
<1>8. ASSUME NEW o \in Operators, Publish(o) PROVE Goal
  <2>0. PICK f \in Files : f = job[o].target
    BY <1>0, <1>8 DEF Publish, TypeOK
  <2>1. /\ db'[f] = job[o].db /\ job[o] # None /\ ~Live(f)
        /\ \A g \in Files \ {f} : db'[g] = db[g] /\ kind'[g] = kind[g]
    BY <1>0, <1>8, <2>0 DEF Publish, TypeOK, Live
  <2>2. CASE Live(f)'
    <3>1. \E h \in Files : Live(h) /\ Before(db'[f], db[h])
      BY <2>1 DEF Copied
    <3> QED
      BY <1>b, <2>1, <2>2, <3>1, Establishes
  <2>3. CASE ~Live(f)'
    BY <1>a, <2>1, <2>3 DEF Live
  <2> QED
    BY <2>2, <2>3
<1>9. ASSUME NEW o \in Operators, Abandon(o) PROVE Goal
  BY <1>a, <1>9 DEF Abandon, Live
<1> QED
  BY <1>0, <1>1, <1>2, <1>3, <1>4, <1>5, <1>6, <1>7, <1>8, <1>9, StepCases

LEMMA InitKeeps == Init => Promise!Init
<1> SUFFICES ASSUME Init PROVE Promise!Init
  OBVIOUS
<1>1. \A f \in Files : ~Live(f)
  BY DEF Init, Live
<1>2. {db[f].epoch : f \in {g \in Files : Live(g)}} = {}
  BY <1>1
<1>3. ServedLogs = [e \in Epochs |-> [v \in Vaults |-> << >>]]
  BY <1>1 DEF ServedLogs, Live
<1> QED
  BY <1>2, <1>3 DEF Promise!Init, Promise!EmptyLogs

(* The files, copies, restores and credentials of RelayStore together keep *)
(* RelayLog: per epoch and vault one append-only log without repetitions,  *)
(* a restored epoch starting from a prefix of an earlier one.              *)
THEOREM PromiseKept == Spec => KeepsPromise
<1>1. Init => Copied /\ Promise!Init
  BY InitCopied, InitKeeps
<1>2. IInv /\ IInv' /\ Copied /\ [Next]_vars =>
        Copied' /\ [Promise!Next]_(Promise!vars)
  BY NextCopied, NextKeeps
<1> QED
  BY <1>1, <1>2, Invariance, PTL DEF Spec, KeepsPromise, Promise!Spec
=================================================================================
