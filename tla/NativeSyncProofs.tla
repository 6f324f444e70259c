---------------------------- MODULE NativeSyncProofs ----------------------------
(***************************************************************************)
(* Proofs about NativeSync, for every set of replicas, processes and       *)
(* updates, every page size and limit, and any number of faults and        *)
(* restores.                                                               *)
(***************************************************************************)
EXTENDS NativeSync, TLAPS, SequenceTheorems, FiniteSetTheorems

-------------------------------------------------------------------------------
(* The inductive invariant.                                                *)

(* The author has stored the ciphertext w of update u. *)
Stored(u, w) ==
  authored[Author[u]][u] # None /\ ledger[Author[u]][u] = w

(* The relay has committed w as update u in some epoch. *)
IsIn(logs, u, w) ==
  \E e \in EpochNumbers : \E i \in 1..Len(logs[e]) :
    logs[e][i].id = u /\ logs[e][i].wire = w
Logged(u, w) == IsIn(log, u, w)

(* A process that uploads has an intent of its replica and its bytes. *)
Working ==
  \A p \in Procs :
    sweep[p].at \in {"install", "send", "await", "ack"} =>
      /\ sweep[p].current \in Updates
      /\ sweep[p].wire \in Wire
      /\ Row(p)[sweep[p].current] # None

(* A request somebody waits for is what its sender is busy with, and the   *)
(* only one of that sender.                                                *)
Waiting ==
  \A m \in sent :
    m.from # None =>
      /\ sweep[m.from].at = "await"
      /\ sweep[m.from].current = m.id
      /\ sweep[m.from].wire = m.wire
      /\ \A n \in sent : n.from = m.from => n = m

(* Intents belong to their author, and their sealed bytes are the ledger's. *)
Authorship ==
  \A r \in Replicas, u \in Updates :
    authored[r][u] # None =>
      r = Author[u] /\ authored[r][u].sealed = ledger[r][u]

(* Whatever bytes a replica has, its author stored them first; so with what *)
(* is being uploaded, is under way, or is in the log.                       *)
Held == \A r \in Replicas, u \in Updates :
          ledger[r][u] # None => Stored(u, ledger[r][u])
Uploading ==
  \A p \in Procs :
    sweep[p].at \in {"send", "await", "ack"} =>
      Stored(sweep[p].current, sweep[p].wire)
Requested == \A m \in sent : Stored(m.id, m.wire)
Published ==
  \A e \in EpochNumbers : \A i \in 1..Len(log[e]) :
    Stored(log[e][i].id, log[e][i].wire)

(* An acknowledgement in hand, or recorded, was preceded by a commit. *)
Acknowledged ==
  /\ \A p \in Procs : sweep[p].at = "ack" =>
       Logged(sweep[p].current, sweep[p].wire)
  /\ \A r \in Replicas, u \in Updates :
       authored[r][u] # None /\ authored[r][u].accepted =>
         Logged(u, ledger[r][u])

(* Nobody knows an epoch that has not begun. *)
Present ==
  /\ \A e \in EpochNumbers : e > epoch => log[e] = << >>
  /\ \A p \in Procs : cred[p] <= epoch
  /\ \A r \in Replicas : cursor[r] # None => cursor[r].epoch <= epoch

(* The rest of a page is what follows the in-memory cursor in the log. *)
Paged ==
  \A p \in Procs :
    sweep[p].at = "receive" =>
      /\ sweep[p].after + Len(sweep[p].items) <= Len(log[cred[p]])
      /\ \A i \in 1..Len(sweep[p].items) :
           sweep[p].items[i] = log[cred[p]][sweep[p].after + i]

IInv ==
  /\ TypeOK /\ Working /\ Waiting
  /\ Authorship /\ Held /\ Uploading /\ Requested /\ Published
  /\ Acknowledged /\ Present /\ Paged /\ CursorCoversLog

-------------------------------------------------------------------------------
(* Types.                                                                  *)

(* The sequences of the model keep their type: appending to a log, taking a *)
(* prefix or a page of one.                                                 *)
LEMMA SubSeqs ==
  ASSUME NEW S, NEW s \in Seq(S), NEW m \in Nat \ {0}, NEW n \in 0..Len(s)
  PROVE  /\ SubSeq(s, m, n) \in Seq(S)
         /\ Len(SubSeq(s, m, n)) = IF m <= n THEN n - m + 1 ELSE 0
         /\ \A i \in 1..Len(SubSeq(s, m, n)) : SubSeq(s, m, n)[i] = s[m + i - 1]
<1>1. \A i \in m..n : s[i] \in S
  BY ElementOfSeq
<1> QED BY <1>1

(* Changing one place of a table keeps its type. *)
LEMMA TableUpdate ==
  ASSUME NEW A, NEW B, NEW C, NEW f \in [A -> [B -> C]],
         NEW a \in A, NEW b \in B, NEW c \in C
  PROVE  [f EXCEPT ![a][b] = c] \in [A -> [B -> C]]
OBVIOUS

(* Only that place changes. *)
LEMMA TableRead ==
  ASSUME NEW A, NEW B, NEW C, NEW f \in [A -> [B -> C]],
         NEW a, NEW b, NEW c, NEW x \in A, NEW y \in B
  PROVE  [f EXCEPT ![a][b] = c][x][y] = IF x = a /\ y = b THEN c ELSE f[x][y]
OBVIOUS

(* Init establishes the types. *)
LEMMA InitTypes == Init => TypeOK
<1> SUFFICES ASSUME Init PROVE TypeOK
  OBVIOUS
<1> USE ConstantsAssumption, NoneAssumption DEF Init
<1>1. 1 \in EpochNumbers
  BY DEF EpochNumbers
<1>2. << >> \in Seq(Entry)
  OBVIOUS
<1>3. Idle \in Sweep
  BY <1>2 DEF Idle, Sweep, Steps
<1> QED BY <1>1, <1>2, <1>3 DEF TypeOK

(* A process that moves on, or gives up, keeps the types. *)
LEMMA MoveTypes ==
  ASSUME sweep \in [Procs -> Sweep], NEW p \in Procs
  PROVE  /\ \A s \in Sweep : Becomes(p, s) => sweep' \in [Procs -> Sweep]
         /\ \A step \in Steps : Goto(p, step) => sweep' \in [Procs -> Sweep]
         /\ Finish(p) => sweep' \in [Procs -> Sweep]
<1>1. Idle \in Sweep
  BY NoneAssumption DEF Idle, Sweep, Steps
<1>2. \A step \in Steps : [sweep[p] EXCEPT !.at = step] \in Sweep
  BY DEF Sweep
<1> QED BY <1>1, <1>2 DEF Becomes, Goto, Finish

(* An answer keeps the types, whether somebody waits for it or not. *)
LEMMA AnswerTypes ==
  ASSUME TypeOK, NEW m \in sent, NEW step \in {"idle", "ack"}, Answer(m, step)
  PROVE  sweep' \in [Procs -> Sweep]
<1>1. sweep \in [Procs -> Sweep] /\ m.from \in Procs \cup {None}
  BY DEF TypeOK, Request
<1>2. step \in Steps
  BY DEF Steps
<1> QED BY <1>1, <1>2, MoveTypes DEF Answer

(* Every action keeps the types. *)
LEMMA NextTypes == TypeOK /\ Working /\ [Next]_vars => TypeOK'
<1> SUFFICES ASSUME TypeOK, Working, [Next]_vars PROVE TypeOK'
  OBVIOUS
<1>a. sweep \in [Procs -> Sweep]
  BY DEF TypeOK
<1>e. \A p \in Procs, s \in Sweep : Becomes(p, s) => sweep' \in [Procs -> Sweep]
  BY <1>a, MoveTypes
<1>b. \A p \in Procs : Finish(p) => sweep' \in [Procs -> Sweep]
  BY <1>a, MoveTypes
<1>c. \A p \in Procs, step \in Steps : Goto(p, step) => sweep' \in [Procs -> Sweep]
  BY <1>a, MoveTypes
<1>d. \A p \in Procs : Home[p] \in Replicas
  BY ConstantsAssumption
<1>1. ASSUME NEW u \in Updates, InsertAuthored(u) PROVE TypeOK'
  <2>1. [sealed |-> None, accepted |-> FALSE] \in Intent
    BY DEF Intent
  <2>2. Author[u] \in Replicas
    BY ConstantsAssumption
  <2> QED BY <1>1, <2>1, <2>2 DEF TypeOK, InsertAuthored, relayVars
<1>2. ASSUME NEW p \in Procs, Connect(p) PROVE TypeOK'
  <2>1. sweep' \in [Procs -> Sweep]
    BY <1>2, <1>c DEF Connect, Steps
  <2> QED BY <1>2, <2>1 DEF TypeOK, Connect, relayVars, storeVars
<1>3. ASSUME NEW p \in Procs, OpenCursor(p) PROVE TypeOK'
  <2> DEFINE c == cursor[Home[p]]
  <2>1. CASE c = None /\ Goto(p, "start")
    BY <1>3, <2>1, <1>c DEF TypeOK, OpenCursor, Steps, relayVars, storeVars
  <2>2. CASE /\ c # None /\ c.epoch = cred[p]
             /\ Becomes(p, [sweep[p] EXCEPT !.at = "list", !.after = c.after])
    <3>1. c.after \in Nat
      BY <2>2, <1>d DEF TypeOK, Cursor
    <3>2. [sweep[p] EXCEPT !.at = "list", !.after = c.after] \in Sweep
      BY <1>a, <3>1 DEF Sweep, Steps
    <3>3. sweep' \in [Procs -> Sweep]
      BY <1>e, <2>2, <3>2
    <3> QED BY <1>3, <3>3 DEF TypeOK, OpenCursor, relayVars, storeVars
  <2>3. CASE c # None /\ c.epoch # cred[p] /\ Finish(p)
    BY <1>3, <2>3, <1>b DEF TypeOK, OpenCursor, relayVars, storeVars
  <2> QED BY <1>3, <2>1, <2>2, <2>3 DEF OpenCursor
<1>4. ASSUME NEW p \in Procs, SetReceiveCursor(p) PROVE TypeOK'
  <2>1. sweep' \in [Procs -> Sweep]
    BY <1>4, <1>c, <1>b DEF SetReceiveCursor, Steps
  <2>2. Start(p) \in Cursor
    BY DEF Start, Cursor, TypeOK
  <2>3. cursor' \in [Replicas -> Cursor \cup {None}]
    BY <1>4, <1>d, <2>2 DEF SetReceiveCursor, TypeOK
  <2> QED BY <1>4, <2>1, <2>3 DEF TypeOK, SetReceiveCursor, relayVars
<1>5. ASSUME NEW p \in Procs, ListPending(p) PROVE TypeOK'
  <2>1. Listed(Home[p]) \in SUBSET Updates
    BY DEF Listed, Pending
  <2>2. [sweep[p] EXCEPT !.at = "push", !.todo = Listed(Home[p])] \in Sweep
    BY <1>a, <2>1 DEF Sweep, Steps
  <2>3. sweep' \in [Procs -> Sweep]
    BY <1>5, <1>e, <2>2 DEF ListPending
  <2> QED BY <1>5, <2>3 DEF TypeOK, ListPending, relayVars, storeVars
<1>6. ASSUME NEW p \in Procs, NEW u \in Updates, SealRead(p, u) PROVE TypeOK'
  <2> DEFINE w == Row(p)[u].sealed
  <2>1. <<u, p>> \in Wire
    BY DEF Wire
  <2>2. Row(p)[u] \in Intent
    BY <1>6, <1>d DEF TypeOK, SealRead, Row
  <2>3. w \in Wire \cup {None}
    BY <2>2 DEF Intent
  <2>4. [sweep[p] EXCEPT !.at = "send", !.current = u, !.wire = w] \in Sweep
    BY <1>a, <2>3 DEF Sweep, Steps
  <2>5. [sweep[p] EXCEPT !.at = "install", !.current = u, !.wire = <<u, p>>] \in Sweep
    BY <1>a, <2>1 DEF Sweep, Steps
  <2>6. sweep' \in [Procs -> Sweep]
    BY <1>6, <1>e, <2>4, <2>5 DEF SealRead
  <2> QED BY <1>6, <2>6 DEF TypeOK, SealRead, relayVars, storeVars
<1>7. ASSUME NEW p \in Procs, InstallSealed(p) PROVE TypeOK'
  <2> DEFINE r == Home[p]
             u == sweep[p].current
  <2>a. r \in Replicas /\ u \in Updates /\ sweep[p].wire \in Wire /\ Row(p)[u] \in Intent
    BY <1>7, <1>d DEF InstallSealed, Working, TypeOK, Row
  <2>b. Canonical(p) \in Wire
    BY <2>a DEF Canonical, Intent
  <2>c. [sweep[p] EXCEPT !.at = "send", !.wire = Canonical(p)] \in Sweep
    BY <1>a, <2>b DEF Sweep, Steps
  <2>d. sweep' \in [Procs -> Sweep]
    BY <1>7, <1>b, <1>e, <2>c DEF InstallSealed
  <2>e. [Row(p)[u] EXCEPT !.sealed = sweep[p].wire] \in Intent
    BY <2>a DEF Intent
  <2>h. /\ authored \in [Replicas -> [Updates -> Intent \cup {None}]]
        /\ ledger \in [Replicas -> [Updates -> Wire \cup {None}]]
    BY DEF TypeOK
  <2>i. \/ UNCHANGED <<authored, ledger>>
        \/ /\ authored' = [authored EXCEPT ![r][u] =
                            [Row(p)[u] EXCEPT !.sealed = sweep[p].wire]]
           /\ ledger' = [ledger EXCEPT ![r][u] = sweep[p].wire]
    BY <1>7 DEF InstallSealed, Row
  <2>j. [authored EXCEPT ![r][u] = [Row(p)[u] EXCEPT !.sealed = sweep[p].wire]]
          \in [Replicas -> [Updates -> Intent \cup {None}]]
    BY <2>a, <2>e, <2>h, TableUpdate
  <2>k. [ledger EXCEPT ![r][u] = sweep[p].wire]
          \in [Replicas -> [Updates -> Wire \cup {None}]]
    BY <2>a, <2>h, TableUpdate
  <2>f. authored' \in [Replicas -> [Updates -> Intent \cup {None}]]
    BY <2>h, <2>i, <2>j
  <2>g. ledger' \in [Replicas -> [Updates -> Wire \cup {None}]]
    BY <2>h, <2>i, <2>k
  <2> QED BY <1>7, <2>d, <2>f, <2>g DEF TypeOK, InstallSealed, relayVars
<1>8. ASSUME NEW p \in Procs, Send(p) PROVE TypeOK'
  <2>1. [id |-> sweep[p].current, wire |-> sweep[p].wire,
         epoch |-> cred[p], from |-> p] \in Request
    BY <1>8 DEF Send, Working, Request, TypeOK
  <2>2. sent' \subseteq Request
    BY <1>8, <2>1 DEF Send, TypeOK
  <2>3. sweep' \in [Procs -> Sweep]
    BY <1>8, <1>c DEF Send, Steps
  <2> QED BY <1>8, <2>2, <2>3 DEF TypeOK, Send, relayVars, storeVars
<1>9. ASSUME NEW p \in Procs, Acknowledge(p) PROVE TypeOK'
  <2> DEFINE r == Home[p]
             u == sweep[p].current
  <2>a. r \in Replicas /\ u \in Updates /\ Row(p)[u] \in Intent
    BY <1>9, <1>d DEF Acknowledge, Working, TypeOK, Row
  <2>b. [sweep[p] EXCEPT !.at = "push", !.current = None, !.wire = None,
                         !.todo = @ \ {u}] \in Sweep
    BY <1>a DEF Sweep, Steps
  <2>c. sweep' \in [Procs -> Sweep]
    BY <1>9, <1>b, <1>e, <2>b DEF Acknowledge
  <2>d. [Row(p)[u] EXCEPT !.accepted = TRUE] \in Intent
    BY <2>a DEF Intent
  <2>f. authored \in [Replicas -> [Updates -> Intent \cup {None}]]
    BY DEF TypeOK
  <2>g. \/ UNCHANGED authored
        \/ authored' = [authored EXCEPT ![r][u] = [Row(p)[u] EXCEPT !.accepted = TRUE]]
    BY <1>9 DEF Acknowledge, Row
  <2>h. [authored EXCEPT ![r][u] = [Row(p)[u] EXCEPT !.accepted = TRUE]]
          \in [Replicas -> [Updates -> Intent \cup {None}]]
    BY <2>a, <2>d, <2>f, TableUpdate
  <2>e. authored' \in [Replicas -> [Updates -> Intent \cup {None}]]
    BY <2>f, <2>g, <2>h
  <2> QED BY <1>9, <2>c, <2>e DEF TypeOK, Acknowledge, relayVars
<1>10. ASSUME NEW p \in Procs, UploadDone(p) PROVE TypeOK'
  <2>1. [sweep[p] EXCEPT !.at = "pull", !.pages = MaxPages] \in Sweep
    BY <1>a, ConstantsAssumption DEF Sweep, Steps
  <2>2. sweep' \in [Procs -> Sweep]
    BY <1>10, <1>e, <2>1 DEF UploadDone
  <2> QED BY <1>10, <2>2 DEF TypeOK, UploadDone, relayVars, storeVars
<1>11. ASSUME NEW p \in Procs, Pull(p) PROVE TypeOK'
  <2> DEFINE s == sweep[p]
             through == IF s.through = None THEN Len(log[epoch]) ELSE s.through
  <2>1. CASE Finish(p)
    BY <1>11, <2>1, <1>b DEF TypeOK, Pull, relayVars, storeVars
  <2>2. CASE ~Finish(p)
    <3>1. log[epoch] \in Seq(Entry) /\ s \in Sweep
      BY <1>a DEF TypeOK
    <3>2. s.after \in Nat /\ through \in Nat /\ s.pages \in Nat
      BY <3>1 DEF Sweep
    <3>3. PICK last \in s.after..through :
            /\ s.pages > 0 /\ through <= Len(log[epoch])
            /\ Becomes(p, [s EXCEPT !.at = "receive",
                             !.items = SubSeq(log[epoch], s.after + 1, last),
                             !.through = through, !.pages = @ - 1])
      BY <1>11, <2>2 DEF Pull, MorePages
    <3>4. SubSeq(log[epoch], s.after + 1, last) \in Seq(Entry)
      BY <3>1, <3>2, <3>3, SubSeqs
    <3>7. s.pages - 1 \in Nat
      BY <3>2, <3>3
    <3> HIDE DEF s, through
    <3>5. [s EXCEPT !.at = "receive",
             !.items = SubSeq(log[epoch], s.after + 1, last),
             !.through = through, !.pages = @ - 1] \in Sweep
      BY <3>1, <3>2, <3>4, <3>7 DEF Sweep, Steps
    <3>6. sweep' \in [Procs -> Sweep]
      BY <1>e, <3>3, <3>5
    <3> QED BY <1>11, <3>6 DEF TypeOK, Pull, relayVars, storeVars
  <2> QED BY <2>1, <2>2
<1>12. ASSUME NEW p \in Procs, Receive(p) PROVE TypeOK'
  <2> DEFINE r == Home[p]
             s == sweep[p]
             m == Head(s.items)
  <2>a. r \in Replicas /\ s \in Sweep /\ s.items \in Seq(Entry) /\ s.items # << >>
    BY <1>12, <1>a, <1>d DEF Receive, Sweep
  <2>b. m \in Entry /\ Tail(s.items) \in Seq(Entry)
    BY <2>a
  <2>1. CASE IsCurrent(p) /\ Receivable(r, m)
    <3>1. m.id \in Updates /\ m.wire \in Wire
      BY <2>b DEF Entry
    <3>9. ledger' = [ledger EXCEPT ![r][m.id] = m.wire]
      BY <1>12, <2>1 DEF Receive
    <3>2. ledger' \in [Replicas -> [Updates -> Wire \cup {None}]]
      BY <2>a, <3>1, <3>9, TableUpdate DEF TypeOK
    <3>3. cursor[r] \in Cursor /\ s.after + 1 \in Nat
      BY <2>1, <2>a DEF IsCurrent, Cursor, TypeOK, Sweep
    <3>4. [cursor[r] EXCEPT !.after = s.after + 1] \in Cursor
      BY <3>3 DEF Cursor
    <3>5. cursor' = [cursor EXCEPT ![r] = [cursor[r] EXCEPT !.after = s.after + 1]]
      BY <1>12, <2>1 DEF Receive
    <3>6. cursor' \in [Replicas -> Cursor \cup {None}]
      BY <2>a, <3>4, <3>5 DEF TypeOK
    <3>7. [s EXCEPT !.after = s.after + 1, !.items = Tail(s.items)] \in Sweep
      BY <2>a, <2>b, <3>3 DEF Sweep
    <3>8. sweep' \in [Procs -> Sweep]
      BY <1>12, <2>1, <1>e, <3>7 DEF Receive
    <3> QED BY <1>12, <3>2, <3>6, <3>8 DEF TypeOK, Receive, relayVars
  <2>2. CASE ~(IsCurrent(p) /\ Receivable(r, m))
    BY <1>12, <2>2, <1>b DEF TypeOK, Receive, relayVars
  <2> QED BY <2>1, <2>2
<1>13. ASSUME NEW p \in Procs, PageDone(p) PROVE TypeOK'
  <2>1. sweep' \in [Procs -> Sweep]
    BY <1>13, <1>b, <1>c DEF PageDone, Steps
  <2> QED BY <1>13, <2>1 DEF TypeOK, PageDone, relayVars, storeVars
<1>14. ASSUME NEW m \in sent, RelayAppend(m) PROVE TypeOK'
  <2>1. sweep' \in [Procs -> Sweep]
    BY <1>14, AnswerTypes DEF RelayAppend
  <2>2. [id |-> m.id, wire |-> m.wire] \in Entry
    BY DEF TypeOK, Request, Entry
  <2>3. log[epoch] \in Seq(Entry)
    BY DEF TypeOK
  <2>5. Append(log[epoch], [id |-> m.id, wire |-> m.wire]) \in Seq(Entry)
    BY <2>2, <2>3
  <2>6. \/ UNCHANGED log
        \/ log' = [log EXCEPT ![epoch] =
                     Append(log[epoch], [id |-> m.id, wire |-> m.wire])]
    BY <1>14 DEF RelayAppend
  <2>4. log' \in [EpochNumbers -> Seq(Entry)]
    BY <2>5, <2>6 DEF TypeOK
  <2> QED BY <1>14, <2>1, <2>4 DEF TypeOK, RelayAppend, storeVars
<1>15. ASSUME NEW p \in Procs, Abort(p) PROVE TypeOK'
  <2>3. ASSUME NEW m \in sent
        PROVE  [m EXCEPT !.from = IF @ = p THEN None ELSE @] \in Request
    BY DEF TypeOK, Request
  <2>1. sent' \subseteq Request
    BY <1>15, <2>3 DEF Abort
  <2>2. faults' \in 0..MaxFaults
    BY <1>15, ConstantsAssumption DEF Abort, TypeOK, Fault
  <2> QED BY <1>15, <2>1, <2>2, <1>b DEF TypeOK, Abort, relayVars, storeVars
<1>16. ASSUME NEW m \in sent, Lose(m) PROVE TypeOK'
  <2>1. sweep' \in [Procs -> Sweep]
    BY <1>16, AnswerTypes DEF Lose
  <2>2. faults' \in 0..MaxFaults
    BY <1>16, ConstantsAssumption DEF Lose, TypeOK, Fault
  <2> QED BY <1>16, <2>1, <2>2 DEF TypeOK, Lose, relayVars, storeVars
<1>17. ASSUME RestoreRelay PROVE TypeOK'
  <2>1. PICK e \in 1..epoch : \E n \in 0..Len(log[e]) :
          log' = [log EXCEPT ![epoch + 1] = SubSeq(log[e], 1, n)]
    BY <1>17 DEF RestoreRelay
  <2>2. PICK n \in 0..Len(log[e]) :
          log' = [log EXCEPT ![epoch + 1] = SubSeq(log[e], 1, n)]
    BY <2>1
  <2>3. log[e] \in Seq(Entry) /\ epoch + 1 \in EpochNumbers
    BY <1>17, ConstantsAssumption DEF TypeOK, EpochNumbers, RestoreRelay
  <2>4. SubSeq(log[e], 1, n) \in Seq(Entry)
    BY <2>3, SubSeqs
  <2> QED BY <1>17, <2>2, <2>3, <2>4 DEF TypeOK, RestoreRelay, storeVars
<1>18. ASSUME NEW p \in Procs, Reprovision(p) PROVE TypeOK'
  BY <1>18 DEF TypeOK, Reprovision, relayVars, storeVars
<1>19. CASE UNCHANGED vars
  BY <1>19 DEF TypeOK, vars
<1> QED
  BY <1>1, <1>2, <1>3, <1>4, <1>5, <1>6, <1>7, <1>8, <1>9, <1>10, <1>11, <1>12,
     <1>13, <1>14, <1>15, <1>16, <1>17, <1>18, <1>19 DEF Next, Step

-------------------------------------------------------------------------------
(* What a step keeps.                                                      *)

(* What a step does to the rows of one update at one replica. *)
LEMMA RowSteps ==
  ASSUME TypeOK, Working, [Next]_vars, NEW r \in Replicas, NEW u \in Updates
  PROVE  \/ UNCHANGED <<authored[r][u], ledger[r][u]>>
         \/ /\ r = Author[u] /\ authored[r][u] = None /\ ledger[r][u] = None
            /\ authored'[r][u] = [sealed |-> None, accepted |-> FALSE]
            /\ ledger'[r][u] = None
         \/ \E p \in Procs :
              /\ InstallSealed(p) /\ r = Home[p] /\ u = sweep[p].current
              /\ authored[r][u] \in Intent /\ authored[r][u].sealed = None
              /\ ledger[r][u] = None /\ sweep[p].wire \in Wire
              /\ authored'[r][u] = [authored[r][u] EXCEPT !.sealed = sweep[p].wire]
              /\ ledger'[r][u] = sweep[p].wire
         \/ \E p \in Procs :
              /\ Acknowledge(p) /\ r = Home[p] /\ u = sweep[p].current
              /\ authored[r][u] \in Intent /\ authored[r][u].sealed = sweep[p].wire
              /\ authored'[r][u] = [authored[r][u] EXCEPT !.accepted = TRUE]
              /\ UNCHANGED ledger[r][u]
         \/ \E p \in Procs :
              /\ Receive(p) /\ r = Home[p] /\ u = Head(sweep[p].items).id
              /\ Receivable(r, Head(sweep[p].items))
              /\ ledger'[r][u] = Head(sweep[p].items).wire
              /\ UNCHANGED authored[r][u]
<1>a. /\ authored \in [Replicas -> [Updates -> Intent \cup {None}]]
      /\ ledger \in [Replicas -> [Updates -> Wire \cup {None}]]
  BY DEF TypeOK
<1>1. CASE UNCHANGED storeVars
  BY <1>1 DEF storeVars
<1>2. ASSUME NEW x \in Updates, InsertAuthored(x)
      PROVE  \/ UNCHANGED <<authored[r][u], ledger[r][u]>>
             \/ /\ r = Author[u] /\ authored[r][u] = None /\ ledger[r][u] = None
                /\ authored'[r][u] = [sealed |-> None, accepted |-> FALSE]
                /\ ledger'[r][u] = None
  <2>1. [authored EXCEPT ![Author[x]][x] = [sealed |-> None, accepted |-> FALSE]][r][u]
          = IF r = Author[x] /\ u = x THEN [sealed |-> None, accepted |-> FALSE]
            ELSE authored[r][u]
    BY <1>a, TableRead
  <2> QED BY <1>2, <2>1 DEF InsertAuthored
<1>3. ASSUME NEW p \in Procs, InstallSealed(p)
      PROVE  \/ UNCHANGED <<authored[r][u], ledger[r][u]>>
             \/ /\ r = Home[p] /\ u = sweep[p].current
                /\ authored[r][u] \in Intent /\ authored[r][u].sealed = None
                /\ ledger[r][u] = None /\ sweep[p].wire \in Wire
                /\ authored'[r][u] = [authored[r][u] EXCEPT !.sealed = sweep[p].wire]
                /\ ledger'[r][u] = sweep[p].wire
  <2>1. PICK x \in Updates : /\ x = sweep[p].current /\ Row(p)[x] # None
                             /\ sweep[p].wire \in Wire
    BY <1>3 DEF Working, InstallSealed
  <2>2. Home[p] \in Replicas
    BY ConstantsAssumption
  <2>3. Row(p)[x] \in Intent
    BY <1>a, <2>1, <2>2 DEF Row
  <2>5. \/ UNCHANGED <<authored, ledger>>
        \/ /\ authored' = [authored EXCEPT ![Home[p]][x] =
                            [Row(p)[x] EXCEPT !.sealed = sweep[p].wire]]
           /\ ledger' = [ledger EXCEPT ![Home[p]][x] = sweep[p].wire]
           /\ ledger[Home[p]][x] = None /\ Row(p)[x].sealed = None
    BY <1>3, <2>1 DEF InstallSealed, Row
  <2>7. [authored EXCEPT ![Home[p]][x] = [Row(p)[x] EXCEPT !.sealed = sweep[p].wire]][r][u]
          = IF r = Home[p] /\ u = x THEN [Row(p)[x] EXCEPT !.sealed = sweep[p].wire]
            ELSE authored[r][u]
    BY <1>a, TableRead
  <2>8. [ledger EXCEPT ![Home[p]][x] = sweep[p].wire][r][u]
          = IF r = Home[p] /\ u = x THEN sweep[p].wire ELSE ledger[r][u]
    BY <1>a, TableRead
  <2>9. CASE r = Home[p] /\ u = x
    <3>1. Row(p)[x] = authored[r][u]
      BY <2>9 DEF Row
    <3> QED BY <2>1, <2>3, <2>5, <2>7, <2>8, <2>9, <3>1
  <2>10. CASE ~(r = Home[p] /\ u = x)
    BY <2>5, <2>7, <2>8, <2>10
  <2> QED BY <2>9, <2>10
<1>4. ASSUME NEW p \in Procs, Acknowledge(p)
      PROVE  \/ UNCHANGED <<authored[r][u], ledger[r][u]>>
             \/ /\ r = Home[p] /\ u = sweep[p].current
                /\ authored[r][u] \in Intent /\ authored[r][u].sealed = sweep[p].wire
                /\ authored'[r][u] = [authored[r][u] EXCEPT !.accepted = TRUE]
                /\ UNCHANGED ledger[r][u]
  <2>1. PICK x \in Updates : x = sweep[p].current /\ Row(p)[x] # None
    BY <1>4 DEF Working, Acknowledge
  <2>2. Home[p] \in Replicas
    BY ConstantsAssumption
  <2>3. Row(p)[x] \in Intent
    BY <1>a, <2>1, <2>2 DEF Row
  <2>5. \/ UNCHANGED <<authored, ledger>>
        \/ /\ authored' = [authored EXCEPT ![Home[p]][x] =
                            [Row(p)[x] EXCEPT !.accepted = TRUE]]
           /\ UNCHANGED ledger /\ Row(p)[x].sealed = sweep[p].wire
    BY <1>4, <2>1 DEF Acknowledge, Row
  <2>7. [authored EXCEPT ![Home[p]][x] = [Row(p)[x] EXCEPT !.accepted = TRUE]][r][u]
          = IF r = Home[p] /\ u = x THEN [Row(p)[x] EXCEPT !.accepted = TRUE]
            ELSE authored[r][u]
    BY <1>a, TableRead
  <2>9. CASE r = Home[p] /\ u = x
    <3>1. Row(p)[x] = authored[r][u]
      BY <2>9 DEF Row
    <3> QED BY <2>1, <2>3, <2>5, <2>7, <2>9, <3>1
  <2>10. CASE ~(r = Home[p] /\ u = x)
    BY <2>5, <2>7, <2>10
  <2> QED BY <2>9, <2>10
<1>5. ASSUME NEW p \in Procs, Receive(p)
      PROVE  \/ UNCHANGED <<authored[r][u], ledger[r][u]>>
             \/ /\ r = Home[p] /\ u = Head(sweep[p].items).id
                /\ Receivable(r, Head(sweep[p].items))
                /\ ledger'[r][u] = Head(sweep[p].items).wire
                /\ UNCHANGED authored[r][u]
  <2> DEFINE m == Head(sweep[p].items)
  <2>1. \/ UNCHANGED ledger
        \/ /\ ledger' = [ledger EXCEPT ![Home[p]][m.id] = m.wire]
           /\ Receivable(Home[p], m)
    BY <1>5 DEF Receive
  <2>2. UNCHANGED authored
    BY <1>5 DEF Receive
  <2>3. [ledger EXCEPT ![Home[p]][m.id] = m.wire][r][u]
          = IF r = Home[p] /\ u = m.id THEN m.wire ELSE ledger[r][u]
    BY <1>a, TableRead
  <2> QED BY <2>1, <2>2, <2>3
<1>6. ASSUME NEW p \in Procs, SetReceiveCursor(p)
      PROVE  UNCHANGED <<authored, ledger>>
  BY <1>6 DEF SetReceiveCursor
<1>7. \/ UNCHANGED storeVars
      \/ \E x \in Updates : InsertAuthored(x)
      \/ \E p \in Procs : \/ InstallSealed(p) \/ Acknowledge(p) \/ Receive(p)
                          \/ SetReceiveCursor(p)
  BY DEF Next, Step, Connect, OpenCursor, ListPending, SealRead, Send,
         RelayAppend, UploadDone, Pull, PageDone, Abort, Lose, RestoreRelay,
         Reprovision, vars, storeVars
<1> QED BY <1>1, <1>2, <1>3, <1>4, <1>5, <1>6, <1>7

(* An intent is never withdrawn, and a ciphertext once stored at a replica  *)
(* is never replaced.                                                       *)
LEMMA StoreGrows ==
  ASSUME TypeOK, Working, [Next]_vars, NEW r \in Replicas, NEW u \in Updates
  PROVE  /\ authored[r][u] # None => authored'[r][u] # None
         /\ ledger[r][u] # None => ledger'[r][u] = ledger[r][u]
<1>1. \A i \in Intent :
        /\ \A w \in Wire : [i EXCEPT !.sealed = w] # None
        /\ [i EXCEPT !.accepted = TRUE] # None
  BY NoneAssumption DEF Intent
<1>2. CASE UNCHANGED <<authored[r][u], ledger[r][u]>>
  BY <1>2
<1>3. CASE authored[r][u] = None /\ ledger[r][u] = None
  BY <1>3
<1>4. ASSUME NEW p \in Procs, authored[r][u] \in Intent, ledger[r][u] = None,
             sweep[p].wire \in Wire,
             authored'[r][u] = [authored[r][u] EXCEPT !.sealed = sweep[p].wire]
      PROVE  /\ authored[r][u] # None => authored'[r][u] # None
             /\ ledger[r][u] # None => ledger'[r][u] = ledger[r][u]
  BY <1>1, <1>4
<1>5. ASSUME authored[r][u] \in Intent, UNCHANGED ledger[r][u],
             authored'[r][u] = [authored[r][u] EXCEPT !.accepted = TRUE]
      PROVE  /\ authored[r][u] # None => authored'[r][u] # None
             /\ ledger[r][u] # None => ledger'[r][u] = ledger[r][u]
  BY <1>1, <1>5
<1>6. ASSUME NEW m, u = m.id, Receivable(r, m), ledger'[r][u] = m.wire,
             UNCHANGED authored[r][u]
      PROVE  /\ authored[r][u] # None => authored'[r][u] # None
             /\ ledger[r][u] # None => ledger'[r][u] = ledger[r][u]
  BY <1>6 DEF Receivable, IsNew, IsDuplicate
<1> QED BY <1>2, <1>3, <1>4, <1>5, <1>6, RowSteps

(* A ciphertext its author stored stays stored. *)
LEMMA StoredStays ==
  ASSUME TypeOK, Working, [Next]_vars,
         NEW u \in Updates, NEW w \in Wire, Stored(u, w)
  PROVE  Stored(u, w)'
<1>1. Author[u] \in Replicas
  BY ConstantsAssumption
<1> QED BY <1>1, StoreGrows, NoneAssumption DEF Stored

(* The log of every epoch only grows; a new entry is a handled request, or  *)
(* a copy of an entry by a restore.                                         *)
LEMMA LogGrows ==
  ASSUME TypeOK, Present, [Next]_vars, NEW e \in EpochNumbers
  PROVE  /\ Len(log[e]) <= Len(log'[e])
         /\ \A i \in 1..Len(log[e]) : log'[e][i] = log[e][i]
         /\ \A i \in 1..Len(log'[e]) :
              \/ \E d \in EpochNumbers : \E j \in 1..Len(log[d]) :
                   log'[e][i] = log[d][j]
              \/ \E m \in sent : log'[e][i] = [id |-> m.id, wire |-> m.wire]
<1> DEFINE P(l) == /\ Len(log[e]) <= Len(l)
                   /\ \A i \in 1..Len(log[e]) : l[i] = log[e][i]
                   /\ \A i \in 1..Len(l) :
                        \/ \E d \in EpochNumbers : \E j \in 1..Len(log[d]) :
                             l[i] = log[d][j]
                        \/ \E m \in sent : l[i] = [id |-> m.id, wire |-> m.wire]
<1> SUFFICES P(log'[e])
  OBVIOUS
<1>a. \A d \in EpochNumbers : log[d] \in Seq(Entry) /\ Len(log[d]) \in Nat
  BY DEF TypeOK
<1>1. P(log[e])
  BY <1>a
<1>2. CASE UNCHANGED log
  BY <1>1, <1>2
<1>3. ASSUME NEW m \in sent, RelayAppend(m) PROVE P(log'[e])
  <2> DEFINE x == [id |-> m.id, wire |-> m.wire]
  <2>1. x \in Entry
    BY DEF TypeOK, Request, Entry
  <2>2. CASE log' = [log EXCEPT ![epoch] = Append(log[epoch], x)]
    <3>1. e # epoch => log'[e] = log[e]
      BY <2>2 DEF TypeOK
    <3>2. e = epoch => log'[e] = Append(log[e], x)
      BY <2>2 DEF TypeOK
    <3>3. P(Append(log[e], x))
      <4>1. /\ Len(Append(log[e], x)) = Len(log[e]) + 1
            /\ \A i \in 1..Len(log[e]) : Append(log[e], x)[i] = log[e][i]
            /\ Append(log[e], x)[Len(log[e]) + 1] = x
        BY <1>a, <2>1
      <4> HIDE DEF x
      <4>2. \A i \in 1..Len(Append(log[e], x)) :
              i \in 1..Len(log[e]) \/ i = Len(log[e]) + 1
        BY <1>a, <4>1
      <4> USE DEF x
      <4> QED BY <1>a, <4>1, <4>2
    <3> HIDE DEF P
    <3>4. CASE e # epoch
      BY <1>1, <3>1, <3>4
    <3>5. CASE e = epoch
      BY <3>2, <3>3, <3>5
    <3> QED BY <3>4, <3>5
  <2> QED BY <1>2, <1>3, <2>2 DEF RelayAppend
<1>4. ASSUME RestoreRelay PROVE P(log'[e])
  <2>1. PICK d \in 1..epoch : \E n \in 0..Len(log[d]) :
          log' = [log EXCEPT ![epoch + 1] = SubSeq(log[d], 1, n)]
    BY <1>4 DEF RestoreRelay
  <2>2. PICK n \in 0..Len(log[d]) :
          log' = [log EXCEPT ![epoch + 1] = SubSeq(log[d], 1, n)]
    BY <2>1
  <2>3. d \in EpochNumbers /\ epoch + 1 \in EpochNumbers /\ epoch + 1 > epoch
    BY <1>4, ConstantsAssumption DEF RestoreRelay, TypeOK, EpochNumbers
  <2>4. CASE e # epoch + 1
    BY <1>1, <2>2, <2>4 DEF TypeOK
  <2>5. CASE e = epoch + 1
    <3>1. log[e] = << >>
      BY <2>3, <2>5 DEF Present
    <3>2. log'[e] = SubSeq(log[d], 1, n)
      BY <2>2, <2>3, <2>5 DEF TypeOK
    <3>3. /\ Len(SubSeq(log[d], 1, n)) = n
          /\ \A i \in 1..n : SubSeq(log[d], 1, n)[i] = log[d][i]
      BY <1>a, <2>3, SubSeqs
    <3> QED BY <1>a, <2>3, <3>1, <3>2, <3>3
  <2> QED BY <2>4, <2>5
<1>5. UNCHANGED log \/ (\E m \in sent : RelayAppend(m)) \/ RestoreRelay
  BY DEF Next, Step, InsertAuthored, Connect, OpenCursor, SetReceiveCursor,
         ListPending, SealRead, InstallSealed, Send, Acknowledge, UploadDone,
         Pull, Receive, PageDone, Abort, Lose, Reprovision, vars, relayVars
<1> QED BY <1>2, <1>3, <1>4, <1>5

(* What the relay committed stays committed. *)
LEMMA LoggedStays ==
  ASSUME TypeOK, Working, Present, [Next]_vars, NEW u, NEW w, Logged(u, w)
  PROVE  Logged(u, w)'
<1>1. PICK e \in EpochNumbers : \E i \in 1..Len(log[e]) :
        log[e][i].id = u /\ log[e][i].wire = w
  BY DEF Logged, IsIn
<1>2. PICK i \in 1..Len(log[e]) : log[e][i].id = u /\ log[e][i].wire = w
  BY <1>1
<1>3. Len(log[e]) \in Nat
  BY DEF TypeOK
<1>4. /\ Len(log[e]) <= Len(log'[e])
      /\ log'[e][i] = log[e][i]
  BY LogGrows
<1>5. Len(log'[e]) \in Nat
  BY NextTypes DEF TypeOK
<1> QED BY <1>2, <1>3, <1>4, <1>5 DEF Logged, IsIn

(* What can happen to the place of a process: it stays; it goes where the   *)
(* invariant asks nothing; or it takes one of the steps of the upload or of *)
(* a page.                                                                  *)
LEMMA PlaceSteps ==
  ASSUME TypeOK, [Next]_vars, NEW p \in Procs
  PROVE  \/ sweep'[p] = sweep[p]
         \/ sweep'[p].at \in {"idle", "cursor", "start", "list", "push", "pull"}
         \/ \E u \in Updates : SealRead(p, u)
         \/ InstallSealed(p) \/ Send(p) \/ Pull(p) \/ Receive(p)
         \/ \E m \in sent : /\ RelayAppend(m) /\ m.from = p
                           /\ sweep'[p] = [sweep[p] EXCEPT !.at = "ack"]
<1> DEFINE Quiet == {"idle", "cursor", "start", "list", "push", "pull"}
<1>a. \A q \in Procs : \A s : Becomes(q, s) =>
        sweep'[p] = IF q = p THEN s ELSE sweep[p]
  BY DEF Becomes, TypeOK
<1>b. \A q \in Procs, step \in Quiet :
        Goto(q, step) => sweep'[p] = sweep[p] \/ sweep'[p].at \in Quiet
  BY <1>a DEF Goto, TypeOK, Sweep
<1>c. \A q \in Procs :
        Finish(q) => sweep'[p] = sweep[p] \/ sweep'[p].at \in Quiet
  BY <1>a DEF Finish, Idle
<1>d. sweep \in [Procs -> Sweep] /\ sweep[p] \in Sweep
  BY DEF TypeOK
<1> DEFINE Goal ==
      \/ sweep'[p] = sweep[p]
      \/ sweep'[p].at \in Quiet
      \/ \E u \in Updates : SealRead(p, u)
      \/ InstallSealed(p) \/ Send(p) \/ Pull(p) \/ Receive(p)
      \/ \E m \in sent : /\ RelayAppend(m) /\ m.from = p
                        /\ sweep'[p] = [sweep[p] EXCEPT !.at = "ack"]
<1> SUFFICES Goal
  OBVIOUS
<1>1. CASE UNCHANGED sweep
  BY <1>1
<1>2. ASSUME NEW q \in Procs, Connect(q) \/ SetReceiveCursor(q) \/ PageDone(q) \/ Abort(q)
      PROVE  Goal
  BY <1>2, <1>b, <1>c DEF Connect, SetReceiveCursor, PageDone, Abort
<1>3. ASSUME NEW q \in Procs, OpenCursor(q) PROVE Goal
  <2>1. \/ Goto(q, "start") \/ Finish(q)
        \/ Becomes(q, [sweep[q] EXCEPT !.at = "list", !.after = cursor[Home[q]].after])
    BY <1>3 DEF OpenCursor
  <2>2. [sweep[p] EXCEPT !.at = "list", !.after = cursor[Home[p]].after].at = "list"
    BY <1>d DEF Sweep
  <2> QED BY <2>1, <2>2, <1>a, <1>b, <1>c
<1>4. ASSUME NEW q \in Procs, ListPending(q) PROVE Goal
  <2>1. [sweep[p] EXCEPT !.at = "push", !.todo = Listed(Home[p])].at = "push"
    BY <1>d DEF Sweep
  <2> QED BY <1>4, <2>1, <1>a DEF ListPending
<1>5. ASSUME NEW q \in Procs, UploadDone(q) PROVE Goal
  <2>1. [sweep[p] EXCEPT !.at = "pull", !.pages = MaxPages].at = "pull"
    BY <1>d DEF Sweep
  <2> QED BY <1>5, <2>1, <1>a DEF UploadDone
<1>6. ASSUME NEW q \in Procs, Acknowledge(q) PROVE Goal
  <2>1. \A x : [sweep[p] EXCEPT !.at = "push", !.current = None, !.wire = None,
                                !.todo = @ \ {x}].at = "push"
    BY <1>d DEF Sweep
  <2> QED BY <1>6, <2>1, <1>a, <1>c DEF Acknowledge
<1>7. ASSUME NEW q \in Procs, NEW u \in Updates, SealRead(q, u) PROVE Goal
  <2>1. \E s : Becomes(q, s)
    BY <1>7 DEF SealRead
  <2> QED BY <1>7, <2>1, <1>a
<1>8. ASSUME NEW q \in Procs,
             InstallSealed(q) \/ Send(q) \/ Pull(q) \/ Receive(q)
      PROVE  Goal
  <2>1. Finish(q) \/ (\E s : Becomes(q, s))
    BY <1>8 DEF InstallSealed, Send, Pull, Receive, Goto
  <2> QED BY <1>8, <2>1, <1>a, <1>c
<1>9. ASSUME NEW m \in sent, Lose(m) PROVE Goal
  BY <1>9, <1>c DEF Lose, Answer, TypeOK, Request
<1>10. ASSUME NEW m \in sent, RelayAppend(m) PROVE Goal
  <2>1. Answer(m, "ack") \/ Answer(m, "idle")
    BY <1>10 DEF RelayAppend
  <2>2. m.from \in Procs \cup {None}
    BY DEF TypeOK, Request
  <2> QED BY <1>10, <2>1, <2>2, <1>a, <1>c DEF Answer, Goto
<1> QED
  BY <1>1, <1>2, <1>3, <1>4, <1>5, <1>6, <1>7, <1>8, <1>9, <1>10
  DEF Next, Step, InsertAuthored, RestoreRelay, Reprovision, vars

(* A waiting process stays until its request is gone or it gives up. *)
LEMMA AwaitSteps ==
  ASSUME TypeOK, [Next]_vars, NEW p \in Procs, sweep[p].at = "await"
  PROVE  \/ sweep'[p] = sweep[p]
         \/ Abort(p)
         \/ \E n \in sent : n.from = p /\ sent' = sent \ {n}
<1>a. \A q \in Procs : \A s : Becomes(q, s) /\ q # p => sweep'[p] = sweep[p]
  BY DEF Becomes, TypeOK
<1>1. ASSUME NEW q \in Procs, Connect(q) \/ Step(q)
      PROVE  sweep'[p] = sweep[p]
  <2>1. q # p
    BY <1>1 DEF Step, Connect, OpenCursor, SetReceiveCursor, ListPending,
         SealRead, InstallSealed, Send, Acknowledge, UploadDone, Pull, Receive,
         PageDone
  <2>2. \E s : Becomes(q, s)
    BY <1>1 DEF Step, Connect, OpenCursor, SetReceiveCursor, ListPending,
         SealRead, InstallSealed, Send, Acknowledge, UploadDone, Pull, Receive,
         PageDone, Goto, Finish
  <2> QED BY <2>1, <2>2, <1>a
<1>2. ASSUME NEW m \in sent, RelayAppend(m) \/ Lose(m)
      PROVE  \/ sweep'[p] = sweep[p]
             \/ m.from = p /\ sent' = sent \ {m}
  <2>1. m.from \in Procs \cup {None}
    BY DEF TypeOK, Request
  <2> QED BY <1>2, <2>1, <1>a DEF RelayAppend, Lose, Answer, Goto, Finish
<1>3. ASSUME NEW q \in Procs, Abort(q)
      PROVE  sweep'[p] = sweep[p] \/ Abort(p)
  BY <1>3, <1>a DEF Abort, Finish
<1>4. \/ UNCHANGED sweep
      \/ \E q \in Procs : Connect(q) \/ Step(q)
      \/ \E m \in sent : RelayAppend(m) \/ Lose(m)
      \/ \E q \in Procs : Abort(q)
  BY DEF Next, InsertAuthored, RestoreRelay, Reprovision, vars
<1> QED BY <1>1, <1>2, <1>3, <1>4

(* Where requests come from. *)
LEMMA SentSteps ==
  ASSUME TypeOK, [Next]_vars, NEW m \in sent'
  PROVE  \/ m \in sent
         \/ \E p \in Procs : /\ Send(p)
                            /\ m = [id |-> sweep[p].current, wire |-> sweep[p].wire,
                                    epoch |-> cred[p], from |-> p]
         \/ m.from = None /\ \E n \in sent : m.id = n.id /\ m.wire = n.wire
<1>1. ASSUME NEW p \in Procs, Abort(p)
      PROVE  \/ m \in sent
             \/ m.from = None /\ \E n \in sent : m.id = n.id /\ m.wire = n.wire
  <2>1. PICK n \in sent : m = [n EXCEPT !.from = IF @ = p THEN None ELSE @]
    BY <1>1 DEF Abort
  <2>2. n \in Request
    BY DEF TypeOK
  <2>3. CASE n.from = p
    BY <2>1, <2>2, <2>3 DEF Request
  <2>4. CASE n.from # p
    BY <2>1, <2>2, <2>4 DEF Request
  <2> QED BY <2>3, <2>4
<1>2. \/ sent' \subseteq sent
      \/ \E p \in Procs : Abort(p)
      \/ \E p \in Procs :
           /\ Send(p)
           /\ sent' = sent \cup {[id |-> sweep[p].current, wire |-> sweep[p].wire,
                                 epoch |-> cred[p], from |-> p]}
  BY DEF Next, Step, InsertAuthored, Connect, OpenCursor, SetReceiveCursor,
         ListPending, SealRead, InstallSealed, Send, RelayAppend, Acknowledge,
         UploadDone, Pull, Receive, PageDone, Lose, RestoreRelay, Reprovision,
         vars
<1> QED BY <1>1, <1>2

(* What the steps of an upload make of the place of their process. *)
LEMMA UploadEffects ==
  ASSUME TypeOK, Working, NEW p \in Procs
  PROVE  /\ \A u \in Updates : SealRead(p, u) =>
              /\ sweep'[p].current = u
              /\ sweep'[p].at \in {"send", "install"}
              /\ sweep'[p].at = "send" =>
                   Row(p)[u].sealed # None /\ sweep'[p].wire = Row(p)[u].sealed
              /\ sweep'[p].at = "install" => sweep'[p].wire = <<u, p>>
         /\ InstallSealed(p) =>
              \/ sweep'[p].at = "idle"
              \/ /\ sweep'[p].at = "send"
                 /\ sweep'[p].current = sweep[p].current
                 /\ sweep'[p].wire = Canonical(p)
         /\ Send(p) =>
              /\ sweep'[p].at = "await"
              /\ sweep'[p].current = sweep[p].current
              /\ sweep'[p].wire = sweep[p].wire
         /\ Pull(p) \/ Receive(p) => sweep'[p].at \in {"receive", "idle"}
         /\ sweep'[p] = [sweep[p] EXCEPT !.at = "ack"] =>
              /\ sweep'[p].at = "ack"
              /\ sweep'[p].current = sweep[p].current
              /\ sweep'[p].wire = sweep[p].wire
<1>a. sweep \in [Procs -> Sweep] /\ sweep[p] \in Sweep
  BY DEF TypeOK
<1>b. \A s : Becomes(p, s) => sweep'[p] = s
  BY <1>a DEF Becomes
<1>c. Finish(p) => sweep'[p].at = "idle"
  BY <1>b DEF Finish, Idle
<1>1. ASSUME NEW u \in Updates, SealRead(p, u)
      PROVE  /\ sweep'[p].current = u
             /\ sweep'[p].at \in {"send", "install"}
             /\ sweep'[p].at = "send" =>
                  Row(p)[u].sealed # None /\ sweep'[p].wire = Row(p)[u].sealed
             /\ sweep'[p].at = "install" => sweep'[p].wire = <<u, p>>
  <2>1. CASE Row(p)[u].sealed # None
    <3>1. sweep'[p] = [sweep[p] EXCEPT !.at = "send", !.current = u,
                                       !.wire = Row(p)[u].sealed]
      BY <1>1, <1>b, <2>1 DEF SealRead
    <3> QED BY <1>a, <2>1, <3>1 DEF Sweep
  <2>2. CASE Row(p)[u].sealed = None
    <3>1. sweep'[p] = [sweep[p] EXCEPT !.at = "install", !.current = u,
                                       !.wire = <<u, p>>]
      BY <1>1, <1>b, <2>2 DEF SealRead
    <3> QED BY <1>a, <2>2, <3>1 DEF Sweep
  <2> QED BY <2>1, <2>2
<1>2. ASSUME InstallSealed(p)
      PROVE  \/ sweep'[p].at = "idle"
             \/ /\ sweep'[p].at = "send"
                /\ sweep'[p].current = sweep[p].current
                /\ sweep'[p].wire = Canonical(p)
  <2>1. \/ Finish(p)
        \/ sweep'[p] = [sweep[p] EXCEPT !.at = "send", !.wire = Canonical(p)]
    BY <1>2, <1>b DEF InstallSealed
  <2> HIDE DEF Canonical
  <2> QED BY <1>a, <1>c, <2>1 DEF Sweep
<1>3. ASSUME Send(p)
      PROVE  /\ sweep'[p].at = "await"
             /\ sweep'[p].current = sweep[p].current
             /\ sweep'[p].wire = sweep[p].wire
  BY <1>3, <1>a, <1>b DEF Send, Goto, Sweep
<1>4. ASSUME Pull(p) PROVE sweep'[p].at \in {"receive", "idle"}
  <2>1. \A i, h, g : [sweep[p] EXCEPT !.at = "receive", !.items = i,
                     !.through = h, !.pages = g].at = "receive"
    BY <1>a DEF Sweep
  <2> DEFINE s == sweep[p]
             through == IF s.through = None THEN Len(log[epoch]) ELSE s.through
  <2>2. CASE Finish(p)
    BY <2>2, <1>c
  <2>3. CASE ~Finish(p)
    <3>1. PICK last \in s.after..through :
            Becomes(p, [s EXCEPT !.at = "receive",
                             !.items = SubSeq(log[epoch], s.after + 1, last),
                             !.through = through, !.pages = @ - 1])
      BY <1>4, <2>3 DEF Pull
    <3>2. sweep'[p] = [s EXCEPT !.at = "receive",
                             !.items = SubSeq(log[epoch], s.after + 1, last),
                             !.through = through, !.pages = @ - 1]
      BY <1>a, <3>1 DEF Becomes
    <3> QED BY <2>1, <3>2
  <2> QED BY <2>2, <2>3
<1>5. ASSUME Receive(p) PROVE sweep'[p].at \in {"receive", "idle"}
  <2>1. \A n, i : [sweep[p] EXCEPT !.after = n, !.items = i].at = sweep[p].at
    BY <1>a DEF Sweep
  <2>2. sweep[p].at = "receive"
    BY <1>5 DEF Receive
  <2>3. \/ Finish(p)
        \/ Becomes(p, [sweep[p] EXCEPT !.after = sweep[p].after + 1,
                                       !.items = Tail(sweep[p].items)])
    BY <1>5 DEF Receive
  <2>4. \/ Finish(p)
        \/ sweep'[p] = [sweep[p] EXCEPT !.after = sweep[p].after + 1,
                                       !.items = Tail(sweep[p].items)]
    BY <1>a, <2>3 DEF Becomes
  <2> QED BY <1>a, <1>c, <2>2, <2>4 DEF Sweep
<1>6. sweep'[p] = [sweep[p] EXCEPT !.at = "ack"] =>
        /\ sweep'[p].at = "ack"
        /\ sweep'[p].current = sweep[p].current
        /\ sweep'[p].wire = sweep[p].wire
  BY <1>a DEF Sweep
<1> QED BY <1>1, <1>2, <1>3, <1>4, <1>5, <1>6

-------------------------------------------------------------------------------
(* Each part of the invariant is kept.                                     *)

(* A process that uploads still has its intent after any step. *)
LEMMA NextWorking == IInv /\ [Next]_vars => Working'
<1> SUFFICES ASSUME IInv, [Next]_vars, NEW p \in Procs,
                    sweep'[p].at \in {"install", "send", "await", "ack"}
             PROVE  /\ sweep'[p].current \in Updates
                    /\ sweep'[p].wire \in Wire
                    /\ Row(p)'[sweep'[p].current] # None
  BY DEF Working
<1> USE DEF IInv
<1>a. Home[p] \in Replicas /\ sweep[p] \in Sweep
  BY ConstantsAssumption DEF TypeOK
<1>b. \A u \in Updates : Row(p)[u] # None => Row(p)'[u] # None
  BY <1>a, StoreGrows DEF Row
<1>1. CASE sweep'[p] = sweep[p]
  BY <1>1, <1>b DEF Working
<1>2. ASSUME NEW u \in Updates, SealRead(p, u)
      PROVE  /\ sweep'[p].current = u /\ sweep'[p].wire \in Wire
             /\ Row(p)[u] # None
  <2>1. Row(p)[u] # None
    BY <1>2 DEF SealRead
  <2>2. Row(p)[u] \in Intent /\ <<u, p>> \in Wire
    BY <1>a, <2>1 DEF TypeOK, Row, Wire
  <2> QED BY <1>2, <2>1, <2>2, UploadEffects DEF Intent
<1>3. ASSUME InstallSealed(p)
      PROVE  \/ sweep'[p].at = "idle"
             \/ /\ sweep'[p].current = sweep[p].current
                /\ sweep'[p].wire \in Wire
  <2>1. /\ sweep[p].current \in Updates /\ sweep[p].wire \in Wire
        /\ Row(p)[sweep[p].current] # None
    BY <1>3 DEF Working, InstallSealed
  <2>2. Row(p)[sweep[p].current] \in Intent
    BY <1>a, <2>1 DEF TypeOK, Row
  <2>3. Canonical(p) \in Wire
    BY <2>1, <2>2 DEF Canonical, Intent
  <2> QED BY <1>3, <2>3, UploadEffects
<1>4. ASSUME Send(p)
      PROVE  /\ sweep'[p].current = sweep[p].current
             /\ sweep'[p].wire = sweep[p].wire
  BY <1>4, UploadEffects
<1>5. ASSUME NEW m \in sent, m.from = p,
             sweep'[p] = [sweep[p] EXCEPT !.at = "ack"]
      PROVE  /\ sweep[p].at = "await"
             /\ sweep'[p].current = sweep[p].current
             /\ sweep'[p].wire = sweep[p].wire
  BY <1>5, UploadEffects, NoneAssumption DEF Waiting
<1>6. Pull(p) \/ Receive(p) => sweep'[p].at \in {"receive", "idle"}
  BY UploadEffects
<1>7. InstallSealed(p) \/ Send(p) => sweep[p].at \in {"install", "send"}
  BY DEF InstallSealed, Send
<1>8. sweep[p].at \in {"install", "send", "await"} =>
        sweep[p].current \in Updates /\ sweep[p].wire \in Wire
        /\ Row(p)[sweep[p].current] # None
  BY DEF Working
<1> QED BY <1>1, <1>2, <1>3, <1>4, <1>5, <1>6, <1>7, <1>8, <1>b, PlaceSteps

(* A request somebody waits for stays that process's only one. *)
LEMMA NextWaiting == IInv /\ [Next]_vars => Waiting'
<1> SUFFICES ASSUME IInv, [Next]_vars, NEW m \in sent', m.from # None
             PROVE  /\ sweep'[m.from].at = "await"
                    /\ sweep'[m.from].current = m.id
                    /\ sweep'[m.from].wire = m.wire
                    /\ \A n \in sent' : n.from = m.from => n = m
  BY DEF Waiting
<1> USE DEF IInv
<1>a. TypeOK'
  BY NextTypes
<1>c. sent' \subseteq Request
  BY <1>a DEF TypeOK
<1>b. m.from \in Procs
  BY <1>c DEF Request
<1>1. ASSUME NEW p \in Procs, Send(p)
      PROVE  /\ \A n \in sent : n.from # p
             /\ sent' = sent \cup {[id |-> sweep[p].current, wire |-> sweep[p].wire,
                                   epoch |-> cred[p], from |-> p]}
             /\ \A q \in Procs : q # p => sweep'[q] = sweep[q]
  <2>1. sweep[p].at = "send"
    BY <1>1 DEF Send
  <2>2. \A n \in sent : n.from # p
    BY <2>1, NoneAssumption DEF Waiting
  <2>3. \A q \in Procs : q # p => sweep'[q] = sweep[q]
    BY <1>1 DEF Send, Goto, Becomes, TypeOK
  <2> QED BY <1>1, <2>2, <2>3 DEF Send
<1>2. ASSUME NEW p \in Procs, Send(p), m.from = p,
             m = [id |-> sweep[p].current, wire |-> sweep[p].wire,
                  epoch |-> cred[p], from |-> p]
      PROVE  /\ sweep'[m.from].at = "await"
             /\ sweep'[m.from].current = m.id
             /\ sweep'[m.from].wire = m.wire
             /\ \A n \in sent' : n.from = m.from => n = m
  <2>1. /\ sweep'[p].at = "await"
        /\ sweep'[p].current = sweep[p].current
        /\ sweep'[p].wire = sweep[p].wire
    BY <1>2, UploadEffects
  <2>2. m.id = sweep[p].current /\ m.wire = sweep[p].wire
    BY <1>2
  <2>3. \A n \in sent' : n \in sent \/ n = m
    BY <1>1, <1>2
  <2>4. \A n \in sent : n.from # p
    BY <1>1, <1>2
  <2> QED BY <1>2, <2>1, <2>2, <2>3, <2>4
<1>3. ASSUME m \in sent
      PROVE  /\ sweep'[m.from].at = "await"
             /\ sweep'[m.from].current = m.id
             /\ sweep'[m.from].wire = m.wire
             /\ \A n \in sent' : n.from = m.from => n = m
  <2>1. /\ sweep[m.from].at = "await"
        /\ sweep[m.from].current = m.id
        /\ sweep[m.from].wire = m.wire
        /\ \A n \in sent : n.from = m.from => n = m
    BY <1>3 DEF Waiting
  <2>2. ~Abort(m.from)
    <3>1. SUFFICES ASSUME Abort(m.from) PROVE FALSE
      OBVIOUS
    <3>2. PICK n \in sent : m = [n EXCEPT !.from = IF @ = m.from THEN None ELSE @]
      BY <3>1 DEF Abort
    <3>3. n \in Request
      BY DEF TypeOK
    <3> QED BY <3>2, <3>3 DEF Request
  <2>3. ASSUME NEW n \in sent, n.from = m.from, sent' = sent \ {n}
        PROVE  FALSE
    BY <2>1, <2>3
  <2>4. sweep'[m.from] = sweep[m.from]
    BY <1>b, <2>1, <2>2, <2>3, AwaitSteps
  <2>5. ASSUME NEW n \in sent', n.from = m.from PROVE n = m
    <3>1. ASSUME NEW p \in Procs, Send(p), n.from = p PROVE FALSE
      BY <1>1, <1>3, <2>5, <3>1
    <3>2. n \in sent \/ \E p \in Procs : Send(p) /\ n.from = p
      BY <2>5, SentSteps
    <3> QED BY <2>1, <2>5, <3>1, <3>2
  <2> QED BY <2>1, <2>4, <2>5
<1>4. m \in sent \/ \E p \in Procs :
        Send(p) /\ m = [id |-> sweep[p].current, wire |-> sweep[p].wire,
                        epoch |-> cred[p], from |-> p]
  BY SentSteps
<1> QED BY <1>2, <1>3, <1>4

(* An entry that is received is the next one of the log. *)
LEMMA ReceivedIsNext ==
  ASSUME TypeOK, Paged, NEW p \in Procs,
         sweep[p].at = "receive", sweep[p].items # << >>
  PROVE  /\ cred[p] \in EpochNumbers
         /\ sweep[p].after \in Nat
         /\ sweep[p].after + 1 \in 1..Len(log[cred[p]])
         /\ Head(sweep[p].items) \in Entry
         /\ Head(sweep[p].items) = log[cred[p]][sweep[p].after + 1]
<1>1. sweep[p] \in Sweep /\ cred[p] \in EpochNumbers
  BY DEF TypeOK
<1>2. /\ sweep[p].after \in Nat /\ sweep[p].items \in Seq(Entry)
      /\ Len(log[cred[p]]) \in Nat
  BY <1>1 DEF Sweep, TypeOK
<1>3. 1 \in 1..Len(sweep[p].items) /\ Head(sweep[p].items) = sweep[p].items[1]
  BY <1>2
<1>4. /\ sweep[p].after + Len(sweep[p].items) <= Len(log[cred[p]])
      /\ sweep[p].items[1] = log[cred[p]][sweep[p].after + 1]
  BY <1>3 DEF Paged
<1>5. Len(sweep[p].items) \in Nat /\ Len(sweep[p].items) >= 1
  BY <1>2, <1>3
<1>6. sweep[p].after + 1 \in 1..Len(log[cred[p]])
  <2> DEFINE k == Len(sweep[p].items)
             a == sweep[p].after
             h == Len(log[cred[p]])
  <2>1. a \in Nat /\ h \in Nat /\ k \in Nat /\ k >= 1 /\ a + k <= h
    BY <1>2, <1>4, <1>5
  <2> HIDE DEF k, a, h
  <2>2. a + 1 \in 1..h
    BY <2>1
  <2> QED BY <2>2 DEF a, h
<1>7. Head(sweep[p].items) \in Entry
  BY <1>2, <1>3
<1> QED BY <1>1, <1>2, <1>3, <1>4, <1>6, <1>7

(* Intents stay with their author, and their sealed bytes the ledger's. *)
LEMMA NextAuthorship == IInv /\ [Next]_vars => Authorship'
<1> SUFFICES ASSUME TypeOK, Working, Authorship, [Next]_vars,
                    NEW r \in Replicas, NEW u \in Updates, authored'[r][u] # None
             PROVE  r = Author[u] /\ authored'[r][u].sealed = ledger'[r][u]
  BY DEF IInv, Authorship
<1>1. authored[r][u] # None => r = Author[u] /\ authored[r][u].sealed = ledger[r][u]
  BY DEF Authorship
<1>2. CASE UNCHANGED <<authored[r][u], ledger[r][u]>>
  BY <1>1, <1>2
<1>3. ASSUME NEW p \in Procs, authored[r][u] \in Intent, sweep[p].wire \in Wire,
             authored'[r][u] = [authored[r][u] EXCEPT !.sealed = sweep[p].wire],
             ledger'[r][u] = sweep[p].wire
      PROVE  r = Author[u] /\ authored'[r][u].sealed = ledger'[r][u]
  BY <1>1, <1>3, NoneAssumption DEF Intent
<1>4. ASSUME NEW p \in Procs, authored[r][u] \in Intent,
             authored'[r][u] = [authored[r][u] EXCEPT !.accepted = TRUE],
             UNCHANGED ledger[r][u]
      PROVE  r = Author[u] /\ authored'[r][u].sealed = ledger'[r][u]
  BY <1>1, <1>4, NoneAssumption DEF Intent
<1>5. ASSUME NEW m, u = m.id, Receivable(r, m), ledger'[r][u] = m.wire,
             UNCHANGED authored[r][u]
      PROVE  r = Author[u] /\ authored'[r][u].sealed = ledger'[r][u]
  BY <1>1, <1>5 DEF Receivable, IsNew, IsDuplicate
<1>6. CASE /\ r = Author[u]
           /\ authored'[r][u] = [sealed |-> None, accepted |-> FALSE]
           /\ ledger'[r][u] = None
  BY <1>6
<1> QED BY <1>2, <1>3, <1>4, <1>5, <1>6, RowSteps

(* What a replica holds after a step, its author has stored. *)
LEMMA NextHeld == IInv /\ [Next]_vars => Held'
<1> SUFFICES ASSUME IInv, [Next]_vars,
                    NEW r \in Replicas, NEW u \in Updates, ledger'[r][u] # None
             PROVE  Stored(u, ledger[r][u])'
  BY DEF Held
<1> USE DEF IInv
<1>a. \A w \in Wire : Stored(u, w) => Stored(u, w)'
  BY StoredStays
<1>b. ledger[r][u] \in Wire \cup {None}
  BY DEF TypeOK
<1>1. CASE UNCHANGED ledger[r][u]
  BY <1>a, <1>b, <1>1 DEF Held, Stored
<1>2. ASSUME NEW p \in Procs, authored[r][u] \in Intent,
             ledger'[r][u] = sweep[p].wire
      PROVE  Stored(u, ledger[r][u])'
  <2>1. authored[r][u] # None /\ r = Author[u]
    BY <1>2, NoneAssumption DEF Authorship
  <2>2. authored'[r][u] # None
    BY <2>1, StoreGrows
  <2> QED BY <1>2, <2>1, <2>2 DEF Stored
<1>3. ASSUME NEW p \in Procs, Receive(p), u = Head(sweep[p].items).id,
             ledger'[r][u] = Head(sweep[p].items).wire
      PROVE  Stored(u, ledger[r][u])'
  <2> DEFINE m == Head(sweep[p].items)
  <2>1. /\ sweep[p].after + 1 \in 1..Len(log[cred[p]]) /\ cred[p] \in EpochNumbers
        /\ m \in Entry /\ m = log[cred[p]][sweep[p].after + 1]
    BY <1>3, ReceivedIsNext DEF Receive
  <2>2. Stored(u, m.wire) /\ m.wire \in Wire
    BY <1>3, <2>1 DEF Published, Entry
  <2> QED BY <1>a, <1>3, <2>2 DEF Stored
<1> QED BY <1>1, <1>2, <1>3, RowSteps

(* The bytes a seal returns are those its author has stored. *)
LEMMA InstalledIsStored ==
  ASSUME TypeOK, Working, Authorship, [Next]_vars, NEW p \in Procs,
         InstallSealed(p), sweep'[p].at = "send"
  PROVE  /\ authored'[Author[sweep[p].current]][sweep[p].current] # None
         /\ ledger'[Author[sweep[p].current]][sweep[p].current] = Canonical(p)
<1> DEFINE r == Home[p]
           u == sweep[p].current
           w == sweep[p].wire
<1>1. /\ r \in Replicas /\ u \in Updates /\ w \in Wire
      /\ authored[r][u] # None
  BY ConstantsAssumption DEF InstallSealed, Working, Row
<1>2. r = Author[u] /\ authored[r][u].sealed = ledger[r][u]
  BY <1>1 DEF Authorship
<1>3. /\ authored'[r][u] # None
      /\ ledger[r][u] # None => ledger'[r][u] = ledger[r][u]
  BY <1>1, StoreGrows
<1>4. CASE authored[r][u].sealed # None
  BY <1>2, <1>3, <1>4 DEF Canonical, Row
<1>5. CASE authored[r][u].sealed = None
  <2>1. ~Finish(p)
    BY DEF Finish, Becomes, Idle, TypeOK
  <2>2. ledger' = [ledger EXCEPT ![r][u] = w]
    BY <1>5, <2>1 DEF InstallSealed, Row
  <2>3. ledger \in [Replicas -> [Updates -> Wire \cup {None}]]
    BY DEF TypeOK
  <2>4. [ledger EXCEPT ![r][u] = w][r][u] = w
    BY <1>1, <2>3, TableRead
  <2>5. Canonical(p) = w
    BY <1>5 DEF Canonical, Row
  <2> QED BY <1>2, <1>3, <2>2, <2>4, <2>5
<1> QED BY <1>4, <1>5

(* What is being uploaded after a step, its author has stored. *)
LEMMA NextUploading == IInv /\ [Next]_vars => Uploading'
<1> SUFFICES ASSUME IInv, [Next]_vars, NEW p \in Procs,
                    sweep'[p].at \in {"send", "await", "ack"}
             PROVE  Stored(sweep[p].current, sweep[p].wire)'
  BY DEF Uploading
<1> USE DEF IInv
<1>a. \A u \in Updates, w \in Wire : Stored(u, w) =>
        authored'[Author[u]][u] # None /\ ledger'[Author[u]][u] = w
  BY StoredStays DEF Stored
<1>b. ASSUME sweep[p].at \in {"send", "await", "ack"},
             sweep'[p].current = sweep[p].current, sweep'[p].wire = sweep[p].wire
      PROVE  Stored(sweep[p].current, sweep[p].wire)'
  <2>1. /\ sweep[p].current \in Updates /\ sweep[p].wire \in Wire
        /\ Stored(sweep[p].current, sweep[p].wire)
    BY <1>b DEF Working, Uploading
  <2> QED BY <1>a, <1>b, <2>1 DEF Stored
<1>1. CASE sweep'[p] = sweep[p]
  BY <1>1, <1>b
<1>2. ASSUME NEW u \in Updates, SealRead(p, u)
      PROVE  Stored(sweep[p].current, sweep[p].wire)'
  <2> DEFINE r == Home[p]
  <2>1. r \in Replicas /\ authored[r][u] # None
    BY <1>2, ConstantsAssumption DEF SealRead, Row
  <2>2. r = Author[u] /\ authored[r][u].sealed = ledger[r][u]
    BY <2>1 DEF Authorship
  <2>3. /\ sweep'[p].current = u
        /\ authored[r][u].sealed # None /\ sweep'[p].wire = authored[r][u].sealed
    BY <1>2, UploadEffects DEF Row
  <2>4. ledger[r][u] \in Wire
    BY <2>1, <2>2, <2>3 DEF TypeOK
  <2>5. Stored(u, ledger[r][u])
    BY <2>1, <2>2 DEF Stored
  <2> QED BY <1>a, <2>2, <2>3, <2>4, <2>5 DEF Stored
<1>3. ASSUME InstallSealed(p) PROVE Stored(sweep[p].current, sweep[p].wire)'
  <2>1. /\ sweep'[p].at = "send" /\ sweep'[p].wire = Canonical(p)
        /\ sweep'[p].current = sweep[p].current
    BY <1>3, UploadEffects
  <2> QED BY <1>3, <2>1, InstalledIsStored DEF Stored
<1>4. ASSUME Send(p) PROVE Stored(sweep[p].current, sweep[p].wire)'
  <2>1. sweep[p].at = "send"
    BY <1>4 DEF Send
  <2> QED BY <1>4, <2>1, <1>b, UploadEffects
<1>5. ASSUME NEW m \in sent, m.from = p,
             sweep'[p] = [sweep[p] EXCEPT !.at = "ack"]
      PROVE  Stored(sweep[p].current, sweep[p].wire)'
  <2>1. sweep[p].at = "await"
    BY <1>5, NoneAssumption DEF Waiting
  <2> QED BY <1>5, <2>1, <1>b, UploadEffects
<1>6. Pull(p) \/ Receive(p) => sweep'[p].at \in {"receive", "idle"}
  BY UploadEffects
<1> QED BY <1>1, <1>2, <1>3, <1>4, <1>5, <1>6, PlaceSteps

(* What is under way after a step, its author has stored. *)
LEMMA NextRequested == IInv /\ [Next]_vars => Requested'
<1> SUFFICES ASSUME IInv, [Next]_vars, NEW m \in sent'
             PROVE  Stored(m.id, m.wire)'
  BY DEF Requested
<1> USE DEF IInv
<1>a. \A u \in Updates, w \in Wire : Stored(u, w) =>
        authored'[Author[u]][u] # None /\ ledger'[Author[u]][u] = w
  BY StoredStays DEF Stored
<1>1. ASSUME NEW n \in sent, m.id = n.id, m.wire = n.wire
      PROVE  Stored(m.id, m.wire)'
  <2>1. n \in Request
    BY DEF TypeOK
  <2>2. n.id \in Updates /\ n.wire \in Wire /\ Stored(n.id, n.wire)
    BY <2>1 DEF Request, Requested
  <2> QED BY <1>a, <1>1, <2>2 DEF Stored
<1>2. ASSUME NEW p \in Procs, Send(p),
             m = [id |-> sweep[p].current, wire |-> sweep[p].wire,
                  epoch |-> cred[p], from |-> p]
      PROVE  Stored(m.id, m.wire)'
  <2>1. sweep[p].at = "send"
    BY <1>2 DEF Send
  <2>2. /\ sweep[p].current \in Updates /\ sweep[p].wire \in Wire
        /\ Stored(sweep[p].current, sweep[p].wire)
    BY <2>1 DEF Working, Uploading
  <2>3. m.id = sweep[p].current /\ m.wire = sweep[p].wire
    BY <1>2
  <2> QED BY <1>a, <2>2, <2>3 DEF Stored
<1> QED BY <1>1, <1>2, SentSteps

(* What is in the log after a step, its author has stored. *)
LEMMA NextPublished == IInv /\ [Next]_vars => Published'
<1> SUFFICES ASSUME IInv, [Next]_vars,
                    NEW e \in EpochNumbers, NEW i \in 1..Len(log'[e])
             PROVE  Stored(log[e][i].id, log[e][i].wire)'
  BY DEF Published
<1> USE DEF IInv
<1>a. \A u \in Updates, w \in Wire : Stored(u, w) =>
        authored'[Author[u]][u] # None /\ ledger'[Author[u]][u] = w
  BY StoredStays DEF Stored
<1>1. ASSUME NEW d \in EpochNumbers, NEW j \in 1..Len(log[d]),
             log'[e][i] = log[d][j]
      PROVE  Stored(log[e][i].id, log[e][i].wire)'
  <2>1. log[d][j] \in Entry
    BY DEF TypeOK
  <2>2. /\ log[d][j].id \in Updates /\ log[d][j].wire \in Wire
        /\ Stored(log[d][j].id, log[d][j].wire)
    BY <2>1 DEF Published, Entry
  <2> QED BY <1>a, <1>1, <2>2 DEF Stored
<1>2. ASSUME NEW m \in sent, log'[e][i] = [id |-> m.id, wire |-> m.wire]
      PROVE  Stored(log[e][i].id, log[e][i].wire)'
  <2>1. m \in Request
    BY DEF TypeOK
  <2>2. m.id \in Updates /\ m.wire \in Wire /\ Stored(m.id, m.wire)
    BY <2>1 DEF Request, Requested
  <2>3. log'[e][i].id = m.id /\ log'[e][i].wire = m.wire
    BY <1>2
  <2> QED BY <1>a, <2>2, <2>3 DEF Stored
<1> QED BY <1>1, <1>2, LogGrows

(* Every acknowledgement is preceded by a commit. *)
LEMMA AcknowledgedIsLogged ==
  ASSUME IInv, [Next]_vars, NEW m \in sent, RelayAppend(m), m.from \in Procs,
         sweep'[m.from].at = "ack"
  PROVE  Logged(m.id, m.wire)'
<1> USE DEF IInv
<1> DEFINE x == [id |-> m.id, wire |-> m.wire]
<1>1. epoch \in EpochNumbers /\ log[epoch] \in Seq(Entry) /\ x \in Entry
  BY DEF TypeOK, Request, Entry
<1>2. ~Finish(m.from)
  BY DEF Finish, Becomes, Idle, TypeOK
<1>3. ~Answer(m, "idle")
  BY <1>2, NoneAssumption DEF Answer
<1>4. CASE log' = [log EXCEPT ![epoch] = Append(log[epoch], x)]
  <2>1. log'[epoch] = Append(log[epoch], x)
    BY <1>1, <1>4 DEF TypeOK
  <2>2. /\ Len(log'[epoch]) = Len(log[epoch]) + 1 /\ Len(log[epoch]) \in Nat
        /\ log'[epoch][Len(log[epoch]) + 1] = x
    BY <1>1, <2>1
  <2>3. Len(log[epoch]) + 1 \in 1..Len(log'[epoch])
    BY <2>2
  <2> QED BY <1>1, <2>2, <2>3 DEF Logged, IsIn
<1>5. CASE \E i \in 1..Len(log[epoch]) :
             log[epoch][i].id = m.id /\ log[epoch][i].wire = m.wire
  <2>1. Logged(m.id, m.wire)
    BY <1>1, <1>5 DEF Logged, IsIn
  <2> QED BY <2>1, LoggedStays DEF Logged
<1> QED BY <1>3, <1>4, <1>5 DEF RelayAppend

(* What is acknowledged after a step, in a sweep or a row, is committed. *)
LEMMA NextAcknowledged == IInv /\ [Next]_vars => Acknowledged'
<1> SUFFICES ASSUME IInv, [Next]_vars PROVE Acknowledged'
  OBVIOUS
<1> USE DEF IInv
<1>a. \A u, w : Logged(u, w) => IsIn(log', u, w)
  BY LoggedStays DEF Logged
<1>b. ASSUME NEW u, NEW w, Logged(u, w) PROVE w # None
  <2>1. \A e \in EpochNumbers : \A i \in 1..Len(log[e]) : log[e][i] \in Entry
    BY DEF TypeOK
  <2>2. \A m \in Entry : m.wire # None
    BY NoneAssumption DEF Entry
  <2> QED BY <1>b, <2>1, <2>2 DEF Logged, IsIn
<1>1. ASSUME NEW p \in Procs, sweep'[p].at = "ack"
      PROVE  Logged(sweep[p].current, sweep[p].wire)'
  <2>1. CASE sweep'[p] = sweep[p]
    <3>1. Logged(sweep[p].current, sweep[p].wire)
      BY <1>1, <2>1 DEF Acknowledged
    <3> QED BY <1>a, <2>1, <3>1 DEF Logged
  <2>2. ASSUME NEW m \in sent, RelayAppend(m), m.from = p,
               sweep'[p] = [sweep[p] EXCEPT !.at = "ack"]
        PROVE  Logged(sweep[p].current, sweep[p].wire)'
    <3>1. Logged(m.id, m.wire)'
      BY <1>1, <2>2, AcknowledgedIsLogged
    <3>2. sweep'[p].current = m.id /\ sweep'[p].wire = m.wire
      BY <2>2, UploadEffects, NoneAssumption DEF Waiting
    <3> QED BY <3>1, <3>2 DEF Logged
  <2>3. /\ \A u \in Updates : ~SealRead(p, u)
        /\ ~InstallSealed(p) /\ ~Send(p) /\ ~Pull(p) /\ ~Receive(p)
    BY <1>1, UploadEffects
  <2> QED BY <1>1, <2>1, <2>2, <2>3, PlaceSteps
<1>2. ASSUME NEW r \in Replicas, NEW u \in Updates,
             authored'[r][u] # None, authored'[r][u].accepted
      PROVE  Logged(u, ledger[r][u])'
  <2> DEFINE Goal == IsIn(log', u, ledger'[r][u])
  <2>a. authored[r][u] # None /\ authored[r][u].accepted =>
          Logged(u, ledger[r][u]) /\ ledger[r][u] # None
    BY <1>b DEF Acknowledged
  <2>1. ASSUME UNCHANGED <<authored[r][u], ledger[r][u]>> PROVE Goal
    BY <1>2, <1>a, <2>a, <2>1
  <2>2. ASSUME NEW p \in Procs, authored[r][u] \in Intent, ledger[r][u] = None,
               sweep[p].wire \in Wire,
               authored'[r][u] = [authored[r][u] EXCEPT !.sealed = sweep[p].wire]
        PROVE  FALSE
    <3>1. authored[r][u] # None /\ authored[r][u].accepted
      BY <1>2, <2>2, NoneAssumption DEF Intent
    <3> QED BY <2>a, <2>2, <3>1
  <2>3. ASSUME NEW p \in Procs, Acknowledge(p), u = sweep[p].current,
               authored[r][u] \in Intent, authored[r][u].sealed = sweep[p].wire,
               UNCHANGED ledger[r][u]
        PROVE  Goal
    <3>1. authored[r][u].sealed = ledger[r][u]
      BY <2>3, NoneAssumption DEF Authorship
    <3>2. Logged(sweep[p].current, sweep[p].wire)
      BY <2>3 DEF Acknowledged, Acknowledge
    <3> QED BY <1>a, <2>3, <3>1, <3>2
  <2>4. ASSUME UNCHANGED authored[r][u] PROVE Goal
    <3>1. Logged(u, ledger[r][u]) /\ ledger[r][u] # None
      BY <1>2, <2>a, <2>4
    <3> QED BY <1>a, <3>1, StoreGrows
  <2>5. ASSUME authored'[r][u] = [sealed |-> None, accepted |-> FALSE]
        PROVE  FALSE
    BY <1>2, <2>5
  <2> HIDE DEF Goal
  <2>6. Goal
    BY <2>1, <2>2, <2>3, <2>4, <2>5, RowSteps
  <2> QED BY <2>6 DEF Logged, Goal
<1> QED BY <1>1, <1>2 DEF Acknowledged

(* Nobody knows an epoch that has not begun, after any step. *)
LEMMA NextPresent == IInv /\ [Next]_vars => Present'
<1> SUFFICES ASSUME TypeOK, Present, [Next]_vars PROVE Present'
  BY DEF IInv
<1>a. epoch \in Nat /\ epoch' >= epoch /\ epoch' \in Nat
  <2>1. epoch \in Nat
    BY DEF TypeOK, EpochNumbers
  <2>2. epoch' = epoch \/ epoch' = epoch + 1
    BY DEF Next, Step, InsertAuthored, Connect, OpenCursor, SetReceiveCursor,
         ListPending, SealRead, InstallSealed, Send, RelayAppend, Acknowledge,
         UploadDone, Pull, Receive, PageDone, Abort, Lose, RestoreRelay,
         Reprovision, vars, relayVars
  <2> QED BY <2>1, <2>2
<1>1. ASSUME NEW e \in EpochNumbers, e > epoch' PROVE log'[e] = << >>
  <2>1. e > epoch /\ log[e] = << >>
    BY <1>1, <1>a DEF Present, EpochNumbers
  <2>2. CASE UNCHANGED log
    BY <2>1, <2>2
  <2>3. CASE \E m \in sent : RelayAppend(m)
    <3>1. \E l : log' = [log EXCEPT ![epoch] = l]
      BY <2>3 DEF RelayAppend, TypeOK
    <3> QED BY <2>1, <3>1, <1>a DEF TypeOK, EpochNumbers
  <2>4. CASE RestoreRelay
    <3>1. epoch' = epoch + 1 /\ \E l : log' = [log EXCEPT ![epoch + 1] = l]
      BY <2>4 DEF RestoreRelay
    <3> QED BY <1>1, <2>1, <3>1, <1>a DEF TypeOK, EpochNumbers
  <2> QED
    BY <2>2, <2>3, <2>4
    DEF Next, Step, InsertAuthored, Connect, OpenCursor, SetReceiveCursor,
        ListPending, SealRead, InstallSealed, Send, Acknowledge, UploadDone,
        Pull, Receive, PageDone, Abort, Lose, Reprovision, vars, relayVars
<1>2. ASSUME NEW p \in Procs PROVE cred'[p] <= epoch'
  <2>1. cred[p] <= epoch /\ cred[p] \in Nat
    BY DEF Present, TypeOK, EpochNumbers
  <2>2. CASE UNCHANGED cred
    BY <2>1, <2>2, <1>a
  <2>3. ASSUME NEW q \in Procs, Reprovision(q) PROVE cred'[p] <= epoch'
    BY <2>1, <2>3, <1>a DEF Reprovision, TypeOK, relayVars
  <2> QED
    BY <2>2, <2>3
    DEF Next, Step, InsertAuthored, Connect, OpenCursor, SetReceiveCursor,
        ListPending, SealRead, InstallSealed, Send, RelayAppend, Acknowledge,
        UploadDone, Pull, Receive, PageDone, Abort, Lose, RestoreRelay, vars
<1>3. ASSUME NEW r \in Replicas, cursor'[r] # None
      PROVE  cursor'[r].epoch <= epoch'
  <2>1. \A p \in Procs : cred[p] <= epoch /\ cred[p] \in Nat
    BY DEF Present, TypeOK, EpochNumbers
  <2>2. CASE UNCHANGED cursor
    <3>1. cursor[r] \in Cursor /\ cursor[r].epoch <= epoch
      BY <1>3, <2>2 DEF Present, TypeOK
    <3> QED BY <2>2, <3>1, <1>a DEF Cursor, EpochNumbers
  <2>3. ASSUME NEW p \in Procs, SetReceiveCursor(p) \/ Receive(p)
        PROVE  cursor'[r].epoch <= epoch'
    <3>1. cursor'[r] = cursor[r] \/ cursor'[r].epoch = cred[p]
      <4>1. cursor \in [Replicas -> Cursor \cup {None}]
        BY DEF TypeOK
      <4>2. CASE UNCHANGED cursor
        BY <4>2
      <4>3. CASE cursor' = [cursor EXCEPT ![Home[p]] = Start(p)]
        BY <4>1, <4>3 DEF Start
      <4>4. CASE /\ IsCurrent(p)
                 /\ cursor' = [cursor EXCEPT
                                ![Home[p]].after = sweep[p].after + 1]
        <5>1. cursor'[r] = cursor[r] \/ cursor'[r] =
                [[epoch |-> cred[p], after |-> sweep[p].after]
                  EXCEPT !.after = sweep[p].after + 1]
          BY <4>1, <4>4 DEF IsCurrent
        <5> QED BY <5>1
      <4> QED BY <2>3, <4>2, <4>3, <4>4 DEF SetReceiveCursor, Receive
    <3>2. CASE cursor'[r] = cursor[r]
      <4>1. cursor[r] \in Cursor /\ cursor[r].epoch <= epoch
        BY <1>3, <3>2 DEF Present, TypeOK
      <4> QED BY <3>2, <4>1, <1>a DEF Cursor, EpochNumbers
    <3> QED BY <2>1, <3>1, <3>2, <1>a
  <2> QED
    BY <2>2, <2>3
    DEF Next, Step, InsertAuthored, Connect, OpenCursor, ListPending, SealRead,
        InstallSealed, Send, RelayAppend, Acknowledge, UploadDone, Pull,
        PageDone, Abort, Lose, RestoreRelay, Reprovision, vars, storeVars
<1> QED BY <1>1, <1>2, <1>3 DEF Present

(* The rest of a page still follows the in-memory cursor after any step. *)
LEMMA NextPaged == IInv /\ [Next]_vars => Paged'
<1> SUFFICES ASSUME IInv, [Next]_vars,
                    NEW p \in Procs, sweep'[p].at = "receive"
             PROVE  /\ sweep'[p].after + Len(sweep'[p].items) <= Len(log'[cred'[p]])
                    /\ \A i \in 1..Len(sweep'[p].items) :
                         sweep'[p].items[i] = log'[cred'[p]][sweep'[p].after + i]
  BY DEF Paged
<1> DEFINE Fits(n, s, l) == /\ n + Len(s) <= Len(l)
                            /\ \A i \in 1..Len(s) : s[i] = l[n + i]
<1> SUFFICES Fits(sweep'[p].after, sweep'[p].items, log'[cred'[p]])
  OBVIOUS
<1>a. /\ TypeOK /\ Present /\ Paged
      /\ sweep[p] \in Sweep /\ cred[p] \in EpochNumbers
      /\ sweep \in [Procs -> Sweep] /\ cred \in [Procs -> EpochNumbers]
  BY DEF IInv, TypeOK
<1>b. ASSUME sweep[p].at = "receive" PROVE cred'[p] = cred[p]
  BY <1>a, <1>b
  DEF Next, Step, InsertAuthored, Connect, OpenCursor, SetReceiveCursor,
      ListPending, SealRead, InstallSealed, Send, RelayAppend, Acknowledge,
      UploadDone, Pull, Receive, PageDone, Abort, Lose, RestoreRelay,
      Reprovision, vars
<1>1. ASSUME sweep[p].at = "receive"
      PROVE  Fits(sweep[p].after, sweep[p].items, log'[cred'[p]])
  <2>1. Fits(sweep[p].after, sweep[p].items, log[cred[p]])
    BY <1>a, <1>1 DEF Paged
  <2>2. /\ Len(log[cred[p]]) <= Len(log'[cred[p]])
        /\ \A i \in 1..Len(log[cred[p]]) : log'[cred[p]][i] = log[cred[p]][i]
    BY <1>a, LogGrows
  <2>3. /\ sweep[p].after \in Nat /\ sweep[p].items \in Seq(Entry)
        /\ Len(log[cred[p]]) \in Nat /\ Len(log'[cred[p]]) \in Nat
    <3>1. TypeOK'
      BY NextTypes DEF IInv
    <3> QED BY <1>a, <3>1 DEF Sweep, TypeOK
  <2>4. Len(sweep[p].items) \in Nat
    BY <2>3
  <2>5. \A i \in 1..Len(sweep[p].items) :
          sweep[p].after + i \in 1..Len(log[cred[p]])
    <3> DEFINE k == Len(sweep[p].items)
               a == sweep[p].after
               h == Len(log[cred[p]])
    <3>1. a + k <= h
      BY <2>1
    <3>2. k \in Nat /\ a \in Nat /\ h \in Nat
      BY <2>3, <2>4
    <3> HIDE DEF k, a, h
    <3>3. \A i \in 1..k : a + i \in 1..h
      BY <3>1, <3>2
    <3> QED BY <3>3 DEF k, a, h
  <2> DEFINE e == cred[p]
             n == sweep[p].after
             s == sweep[p].items
  <2>6. n + Len(s) <= Len(log'[e])
    <3>1. n + Len(s) <= Len(log[e]) /\ Len(log[e]) <= Len(log'[e])
      BY <2>1, <2>2
    <3>2. n \in Nat /\ Len(s) \in Nat /\ Len(log[e]) \in Nat /\ Len(log'[e]) \in Nat
      BY <2>3, <2>4
    <3> HIDE DEF n, s, e
    <3> QED BY <3>1, <3>2
  <2>7. ASSUME NEW i \in 1..Len(s) PROVE s[i] = log'[e][n + i]
    <3>1. n + i \in 1..Len(log[e]) /\ s[i] = log[e][n + i]
      BY <2>1, <2>5
    <3> QED BY <2>2, <3>1
  <2> QED BY <1>1, <1>b, <2>6, <2>7
<1>2. CASE sweep'[p] = sweep[p]
  BY <1>1, <1>2
<1>3. ASSUME Pull(p) PROVE Fits(sweep'[p].after, sweep'[p].items, log'[cred'[p]])
  <2> DEFINE s == sweep[p]
             through == IF s.through = None THEN Len(log[epoch]) ELSE s.through
  <2>1. ~Finish(p)
    BY <1>a DEF Finish, Becomes, Idle
  <2>2. PICK last \in s.after..through :
          /\ Served(p) /\ s.after <= through /\ through <= Len(log[epoch])
          /\ Becomes(p, [s EXCEPT !.at = "receive",
                           !.items = SubSeq(log[epoch], s.after + 1, last),
                           !.through = through, !.pages = @ - 1])
    BY <1>3, <2>1 DEF Pull
  <2>3. UNCHANGED <<log, cred>> /\ cred[p] = epoch
    BY <1>3, <2>2 DEF Pull, relayVars, Served
  <2>4. /\ s.after \in Nat /\ log[epoch] \in Seq(Entry)
        /\ Len(log[epoch]) \in Nat
    BY <1>a, <2>3 DEF Sweep, TypeOK
  <2>5. through \in Nat
    BY <1>a, <2>4 DEF Sweep
  <2> DEFINE page == SubSeq(log[epoch], s.after + 1, last)
  <2>6. sweep'[p].after = s.after /\ sweep'[p].items = page
    <3>1. sweep'[p] = [s EXCEPT !.at = "receive", !.items = page,
                                !.through = through, !.pages = @ - 1]
      BY <1>a, <2>2 DEF Becomes
    <3> HIDE DEF page, through
    <3> QED BY <1>a, <3>1 DEF Sweep
  <2>7. last \in Nat /\ s.after <= last /\ last <= Len(log[epoch])
    BY <2>2, <2>4, <2>5
  <2>8. /\ Len(page) = last - s.after
        /\ \A i \in 1..Len(page) : page[i] = log[epoch][s.after + i]
    <3>1. s.after + 1 \in Nat \ {0} /\ last \in 0..Len(log[epoch])
      BY <2>4, <2>7
    <3>2. /\ Len(page) = IF s.after + 1 <= last THEN last - (s.after + 1) + 1 ELSE 0
          /\ \A i \in 1..Len(page) : page[i] = log[epoch][s.after + 1 + i - 1]
      BY <2>4, <3>1, SubSeqs
    <3>3. Len(page) = last - s.after
      BY <2>4, <2>7, <3>2
    <3>4. \A i \in 1..Len(page) : s.after + 1 + i - 1 = s.after + i
      BY <2>4, <2>7, <3>3
    <3> QED BY <3>2, <3>3, <3>4
  <2> HIDE DEF page, through
  <2>9. Fits(s.after, page, log[epoch])
    BY <2>4, <2>7, <2>8
  <2> HIDE DEF Fits
  <2> QED BY <2>3, <2>6, <2>9
<1>4. ASSUME Receive(p) PROVE Fits(sweep'[p].after, sweep'[p].items, log'[cred'[p]])
  <2> DEFINE n == sweep[p].after
             s == sweep[p].items
             l == log'[cred'[p]]
  <2>1. sweep[p].at = "receive" /\ s # << >>
    BY <1>4 DEF Receive
  <2>2. Fits(n, s, l)
    BY <1>1, <2>1
  <2>3. n \in Nat /\ s \in Seq(Entry) /\ Len(l) \in Nat
    <3>1. TypeOK'
      BY NextTypes DEF IInv
    <3> QED BY <1>a, <3>1 DEF Sweep, TypeOK
  <2>4. ~Finish(p)
    BY <1>a DEF Finish, Becomes, Idle
  <2>5. sweep'[p] = [sweep[p] EXCEPT !.after = n + 1, !.items = Tail(s)]
    BY <1>a, <1>4, <2>4 DEF Receive, Becomes
  <2>6. sweep'[p].after = n + 1 /\ sweep'[p].items = Tail(s)
    BY <1>a, <2>5 DEF Sweep
  <2>7. /\ Len(s) \in Nat /\ Len(Tail(s)) = Len(s) - 1
        /\ \A i \in 1..Len(Tail(s)) : Tail(s)[i] = s[i + 1] /\ i + 1 \in 1..Len(s)
    BY <2>1, <2>3
  <2> HIDE DEF n, s, l
  <2>8. Fits(n + 1, Tail(s), l)
    <3>1. \A i \in 1..Len(Tail(s)) : n + 1 + i = n + (i + 1)
      BY <2>3
    <3>2. n + 1 + Len(Tail(s)) <= Len(l)
      <4>1. n + Len(s) <= Len(l) /\ Len(Tail(s)) = Len(s) - 1
        BY <2>2, <2>7
      <4>2. n \in Nat /\ Len(s) \in Nat /\ Len(l) \in Nat
        BY <2>3, <2>7
      <4>3. n + 1 + (Len(s) - 1) <= Len(l)
        BY <4>1, <4>2
      <4> QED BY <4>1, <4>3
    <3>3. ASSUME NEW i \in 1..Len(Tail(s)) PROVE Tail(s)[i] = l[n + 1 + i]
      <4>1. Tail(s)[i] = s[i + 1] /\ i + 1 \in 1..Len(s)
        BY <2>7
      <4>2. \A j \in 1..Len(s) : s[j] = l[n + j]
        BY <2>2
      <4>3. s[i + 1] = l[n + (i + 1)]
        BY <4>1, <4>2
      <4>4. n + 1 + i = n + (i + 1)
        BY <3>1
      <4> QED BY <4>1, <4>3, <4>4
    <3> QED BY <3>2, <3>3
  <2> QED BY <2>6, <2>8 DEF l
<1>5. ASSUME InstallSealed(p) \/ Send(p) \/ \E u \in Updates : SealRead(p, u)
      PROVE  FALSE
  BY <1>5, UploadEffects DEF IInv
<1>6. ASSUME sweep'[p] = [sweep[p] EXCEPT !.at = "ack"] PROVE FALSE
  BY <1>6, UploadEffects DEF IInv
<1> HIDE DEF Fits
<1> QED BY <1>a, <1>2, <1>3, <1>4, <1>5, <1>6, PlaceSteps

(* No cursor passes an entry its ledger does not hold, after any step. *)
LEMMA NextCovers == IInv /\ [Next]_vars => CursorCoversLog'
<1> SUFFICES ASSUME IInv, [Next]_vars, NEW r \in Replicas, cursor'[r] # None
             PROVE  /\ cursor'[r].after <= Len(log'[cursor'[r].epoch])
                    /\ \A i \in 1..cursor'[r].after :
                         LET m == log'[cursor'[r].epoch][i]
                         IN  ledger'[r][m.id] = m.wire
  BY DEF CursorCoversLog
<1> DEFINE Covers(c, logs, held) ==
      /\ c.after <= Len(logs[c.epoch])
      /\ \A i \in 1..c.after : held[logs[c.epoch][i].id] = logs[c.epoch][i].wire
<1> SUFFICES Covers(cursor'[r], log', ledger'[r])
  OBVIOUS
<1>a. /\ TypeOK /\ Working /\ Present /\ Paged /\ TypeOK'
      /\ cursor \in [Replicas -> Cursor \cup {None}]
      /\ \A e \in EpochNumbers : Len(log[e]) \in Nat /\ Len(log'[e]) \in Nat
  BY NextTypes DEF IInv, TypeOK
<1>b. \A e \in EpochNumbers : \A i \in 1..Len(log[e]) : log[e][i] \in Entry
  BY <1>a DEF TypeOK
<1>c. \A m \in Entry : ledger[r][m.id] = m.wire => ledger'[r][m.id] = m.wire
  BY <1>a, StoreGrows, NoneAssumption DEF Entry
<1>d. \A e \in EpochNumbers :
        /\ Len(log[e]) <= Len(log'[e])
        /\ \A i \in 1..Len(log[e]) : log'[e][i] = log[e][i]
  BY <1>a, LogGrows
<1>1. ASSUME cursor[r] # None PROVE Covers(cursor[r], log', ledger'[r])
  <2>1. cursor[r].epoch \in EpochNumbers /\ cursor[r].after \in Nat
    BY <1>a, <1>1 DEF Cursor
  <2>2. Covers(cursor[r], log, ledger[r])
    BY <1>1 DEF IInv, CursorCoversLog
  <2> DEFINE e == cursor[r].epoch
             n == cursor[r].after
  <2>3. e \in EpochNumbers /\ n \in Nat /\ n <= Len(log[e])
    BY <2>1, <2>2
  <2>4. n <= Len(log'[e])
    BY <1>a, <1>d, <2>3
  <2>5. ASSUME NEW i \in 1..n PROVE ledger'[r][log'[e][i].id] = log'[e][i].wire
    <3>1. i \in 1..Len(log[e])
      BY <1>a, <2>3
    <3>2. /\ log'[e][i] = log[e][i] /\ log[e][i] \in Entry
          /\ ledger[r][log[e][i].id] = log[e][i].wire
      BY <1>b, <1>d, <2>2, <2>3, <3>1
    <3> QED BY <1>c, <3>2
  <2> QED BY <2>4, <2>5
<1>2. CASE cursor'[r] = cursor[r]
  BY <1>1, <1>2
<1>3. ASSUME NEW p \in Procs, cursor'[r] = Start(p)
      PROVE  Covers(cursor'[r], log', ledger'[r])
  <2>1. cursor'[r].after = 0 /\ cursor'[r].epoch \in EpochNumbers
    BY <1>a, <1>3 DEF Start, TypeOK
  <2> QED BY <1>a, <2>1
<1>4. ASSUME NEW p \in Procs, Receive(p), r = Home[p], cursor'[r] # cursor[r]
      PROVE  Covers(cursor'[r], log', ledger'[r])
  <2> DEFINE m == Head(sweep[p].items)
             e == cred[p]
             n == sweep[p].after
  <2>1. IsCurrent(p) /\ cursor' = [cursor EXCEPT ![r].after = n + 1]
        /\ ledger' = [ledger EXCEPT ![r][m.id] = m.wire]
    BY <1>4 DEF Receive
  <2>2. /\ e \in EpochNumbers /\ n \in Nat /\ n + 1 \in 1..Len(log[e])
        /\ m \in Entry /\ m = log[e][n + 1]
    BY <1>4, <1>a, ReceivedIsNext DEF Receive
  <2>3. cursor[r] = [epoch |-> e, after |-> n]
    BY <1>4, <2>1 DEF IsCurrent
  <2>4. cursor'[r] = [[epoch |-> e, after |-> n] EXCEPT !.after = n + 1]
    BY <1>a, <2>1, <2>3
  <2>5. cursor'[r].epoch = e /\ cursor'[r].after = n + 1
    BY <2>4
  <2>6. cursor[r] # None /\ cursor[r].epoch = e /\ cursor[r].after = n
    BY <2>2, <2>3, NoneAssumption DEF Cursor
  <2>7. Covers(cursor[r], log', ledger'[r])
    BY <1>1, <2>6
  <2>8. ledger'[r][m.id] = m.wire
    <3>1. m.id \in Updates
      BY <2>2 DEF Entry
    <3>2. ledger \in [Replicas -> [Updates -> Wire \cup {None}]]
      BY <1>a DEF TypeOK
    <3>3. [ledger EXCEPT ![r][m.id] = m.wire][r][m.id] = m.wire
      BY <3>1, <3>2, TableRead
    <3> QED BY <2>1, <3>3
  <2>9. log'[e][n + 1] = m /\ n + 1 <= Len(log'[e])
    BY <1>a, <1>d, <2>2
  <2>10. \A i \in 1..(n + 1) : i \in 1..n \/ i = n + 1
    BY <2>2
  <2> HIDE DEF m, e, n
  <2>11. ASSUME NEW i \in 1..(n + 1)
         PROVE  ledger'[r][log'[e][i].id] = log'[e][i].wire
    BY <2>6, <2>7, <2>8, <2>9, <2>10
  <2> QED BY <2>5, <2>9, <2>11
<1>5. ASSUME NEW p \in Procs, Receive(p), r # Home[p] PROVE cursor'[r] = cursor[r]
  BY <1>a, <1>5 DEF Receive
<1>6. ASSUME NEW p \in Procs, SetReceiveCursor(p)
      PROVE  cursor'[r] = cursor[r] \/ cursor'[r] = Start(p)
  BY <1>a, <1>6 DEF SetReceiveCursor
<1>7. \/ UNCHANGED cursor
      \/ \E p \in Procs : SetReceiveCursor(p) \/ Receive(p)
  BY DEF Next, Step, InsertAuthored, Connect, OpenCursor, ListPending, SealRead,
         InstallSealed, Send, RelayAppend, Acknowledge, UploadDone, Pull,
         PageDone, Abort, Lose, RestoreRelay, Reprovision, vars, storeVars
<1> HIDE DEF Covers
<1> QED BY <1>2, <1>3, <1>4, <1>5, <1>6, <1>7

-------------------------------------------------------------------------------
(* The invariant, and the safety properties that follow from it.           *)

(* Init establishes the invariant. *)
LEMMA InitInv == Init => IInv
<1> SUFFICES ASSUME Init PROVE IInv
  OBVIOUS
<1>1. TypeOK
  BY InitTypes
<1>2. \A p \in Procs : sweep[p].at = "idle"
  BY DEF Init, Idle
<1>3. /\ \A r \in Replicas, u \in Updates : authored[r][u] = None /\ ledger[r][u] = None
      /\ \A r \in Replicas : cursor[r] = None
      /\ \A e \in EpochNumbers : log[e] = << >>
      /\ sent = {} /\ epoch = 1
      /\ \A p \in Procs : cred[p] = 1
  BY DEF Init
<1>4. Working /\ Uploading /\ Paged
  BY <1>2 DEF Working, Uploading, Paged
<1>5. Waiting /\ Requested /\ Authorship /\ Held /\ CursorCoversLog
  BY <1>3 DEF Waiting, Requested, Authorship, Held, CursorCoversLog
<1>6. Published /\ Acknowledged /\ Present
  BY <1>2, <1>3 DEF Published, Acknowledged, Present
<1> QED BY <1>1, <1>4, <1>5, <1>6 DEF IInv

(* In every behaviour of the system the invariant holds: uploads, requests  *)
(* and logs carry only what an author stored first, whatever crashes, is    *)
(* lost or is restored.                                                     *)
THEOREM Invariance == Spec => []IInv
<1>1. IInv /\ [Next]_vars => IInv'
  BY NextTypes, NextWorking, NextWaiting, NextAuthorship, NextHeld,
     NextUploading, NextRequested, NextPublished, NextAcknowledged, NextPresent,
     NextPaged, NextCovers DEF IInv
<1> QED BY <1>1, InitInv, PTL DEF Spec

(* Every variable keeps its type. *)
THEOREM TypesHold == Spec => []TypeOK
<1>1. IInv => TypeOK
  BY DEF IInv
<1> QED BY <1>1, Invariance, PTL

(* The cursor of a replica never passes an entry its ledger does not hold   *)
(* (family_receive).                                                        *)
THEOREM CursorsCover == Spec => []CursorCoversLog
<1>1. IInv => CursorCoversLog
  BY DEF IInv
<1> QED BY <1>1, Invariance, PTL

(* An intent is accepted only when the relay committed the bytes its ledger *)
(* holds (family_ack).                                                      *)
THEOREM AcceptanceIsCommitted == Spec => []AcceptedIsLogged
<1>1. ASSUME IInv PROVE AcceptedIsLogged
  <2> SUFFICES ASSUME NEW r \in Replicas, NEW u \in Updates, authored[r][u] # None
               PROVE  /\ authored[r][u].sealed = ledger[r][u]
                      /\ authored[r][u].accepted =>
                           \E e \in EpochNumbers :
                             [id |-> u, wire |-> ledger[r][u]] \in Entries(e)
    BY DEF AcceptedIsLogged
  <2>1. authored[r][u].sealed = ledger[r][u]
    BY <1>1 DEF IInv, Authorship
  <2>2. ASSUME authored[r][u].accepted
        PROVE  \E e \in EpochNumbers :
                 [id |-> u, wire |-> ledger[r][u]] \in Entries(e)
    <3>1. Logged(u, ledger[r][u])
      BY <1>1, <2>2 DEF IInv, Acknowledged
    <3>2. PICK e \in EpochNumbers : \E i \in 1..Len(log[e]) :
            log[e][i].id = u /\ log[e][i].wire = ledger[r][u]
      BY <3>1 DEF Logged, IsIn
    <3>3. PICK i \in 1..Len(log[e]) :
            log[e][i].id = u /\ log[e][i].wire = ledger[r][u]
      BY <3>2
    <3>4. log[e][i] \in Entry
      BY <1>1 DEF IInv, TypeOK
    <3>5. log[e][i] = [id |-> u, wire |-> ledger[r][u]]
      BY <3>3, <3>4 DEF Entry
    <3>6. log[e][i] \in Entries(e)
      BY DEF Entries
    <3> QED BY <3>5, <3>6
  <2> QED BY <2>1, <2>2
<1> QED BY <1>1, Invariance, PTL

(* However many processes seal, upload and receive an update, there is one  *)
(* ciphertext of it (family_seal, install_sealed).                          *)
THEOREM OneCiphertextEverywhere == Spec => []OneCiphertext
<1>1. ASSUME IInv PROVE OneCiphertext
  <2> SUFFICES ASSUME NEW u \in Updates PROVE Cardinality(Ciphertexts(u)) <= 1
    BY DEF OneCiphertext
  <2> DEFINE w == ledger[Author[u]][u]
  <2>1. \A r \in Replicas : ledger[r][u] # None => ledger[r][u] = w
    BY <1>1 DEF IInv, Held, Stored
  <2>2. \A m \in sent : m.id = u => m.wire = w
    BY <1>1 DEF IInv, Requested, Stored
  <2>3. \A e \in EpochNumbers : \A m \in Entries(e) : m.id = u => m.wire = w
    BY <1>1 DEF IInv, Published, Stored, Entries
  <2>4. Ciphertexts(u) \subseteq {w}
    BY <2>1, <2>2, <2>3 DEF Ciphertexts
  <2>5. IsFiniteSet({w}) /\ Cardinality({w}) = 1
    BY FS_Singleton
  <2> HIDE DEF w
  <2> QED BY <2>4, <2>5, FS_Subset
<1> QED BY <1>1, Invariance, PTL

(* No replica ever meets an entry it must refuse (insert_received). *)
THEOREM EntriesAreReceivable == Spec => []EveryEntryReceivable
<1>1. ASSUME IInv PROVE EveryEntryReceivable
  <2> SUFFICES ASSUME NEW r \in Replicas, NEW e \in EpochNumbers,
                      NEW m \in Entries(e)
               PROVE  Receivable(r, m)
    BY DEF EveryEntryReceivable
  <2>1. m.id \in Updates /\ Stored(m.id, m.wire)
    <3>1. PICK i \in 1..Len(log[e]) : m = log[e][i]
      BY DEF Entries
    <3>2. log[e][i] \in Entry
      BY <1>1 DEF IInv, TypeOK
    <3>3. Stored(log[e][i].id, log[e][i].wire)
      BY <1>1 DEF IInv, Published
    <3> QED BY <3>1, <3>2, <3>3 DEF Entry
  <2>2. CASE authored[r][m.id] # None
    <3>1. r = Author[m.id]
      BY <1>1, <2>1, <2>2 DEF IInv, Authorship
    <3> QED BY <2>1, <3>1 DEF Stored, Receivable, IsDuplicate
  <2>3. CASE authored[r][m.id] = None /\ ledger[r][m.id] = None
    BY <2>3 DEF Receivable, IsNew
  <2>4. CASE ledger[r][m.id] # None
    BY <1>1, <2>1, <2>4 DEF IInv, Held, Stored, Receivable, IsDuplicate
  <2> QED BY <2>2, <2>3, <2>4
<1> QED BY <1>1, Invariance, PTL

-------------------------------------------------------------------------------
(* The sweeps implement VaultDelivery.                                     *)

(* Appending to a log appends to the order, and a prefix of a log gives the *)
(* prefix of the order.                                                     *)
LEMMA OrderOf ==
  ASSUME TypeOK, NEW e \in EpochNumbers
  PROVE  /\ Order[e] \in Seq(Updates)
         /\ Len(Order[e]) = Len(log[e])
         /\ \A i \in 1..Len(log[e]) : Order[e][i] = log[e][i].id
         /\ Delivery!Ids(Order[e]) = Ids(log[e])
<1>1. Len(log[e]) \in Nat /\ \A i \in 1..Len(log[e]) : log[e][i].id \in Updates
  <2>1. log[e] \in Seq(Entry)
    BY DEF TypeOK
  <2>2. \A m \in Entry : m.id \in Updates
    BY DEF Entry
  <2> QED BY <2>1, <2>2
<1>2. Order[e] = [i \in 1..Len(log[e]) |-> log[e][i].id]
  BY DEF Order
<1>3. Order[e] \in Seq(Updates) /\ Len(Order[e]) = Len(log[e])
  BY <1>1, <1>2
<1>4. \A i \in 1..Len(log[e]) : Order[e][i] = log[e][i].id
  BY <1>2
<1> QED BY <1>3, <1>4 DEF Delivery!Ids, Ids

(* Init is the initial state of VaultDelivery. *)
LEMMA InitDelivers == Init => Delivery!Init
<1> SUFFICES ASSUME Init PROVE Delivery!Init
  OBVIOUS
<1>1. Order = [e \in EpochNumbers |-> << >>]
  BY DEF Init, Order
<1>2. Known = [r \in Replicas |-> {}]
  BY DEF Init, Known
<1> QED BY <1>1, <1>2 DEF Init, Delivery!Init

(* The relay accepting a request publishes the update. *)
LEMMA AppendPublishes ==
  ASSUME IInv, NEW m \in sent, RelayAppend(m)
  PROVE  (\E u \in Updates : Delivery!Publish(u)) \/ UNCHANGED Delivery!vars
<1> DEFINE x == [id |-> m.id, wire |-> m.wire]
<1>a. TypeOK /\ epoch \in EpochNumbers /\ log \in [EpochNumbers -> Seq(Entry)]
  BY DEF IInv, TypeOK
<1>b. m \in Request /\ x \in Entry
  BY <1>a DEF TypeOK, Request, Entry
<1>c. UNCHANGED <<epoch, Known, cursor>>
  BY DEF RelayAppend, storeVars, Known
<1>1. CASE UNCHANGED log
  BY <1>c, <1>1 DEF Delivery!vars, Order
<1>2. CASE /\ m.id \notin Ids(log[epoch])
           /\ log' = [log EXCEPT ![epoch] = Append(log[epoch], x)]
  <2>1. m.id \in Updates /\ Stored(m.id, m.wire)
    BY <1>b DEF IInv, Requested, Request
  <2>2. m.id \in Known[Author[m.id]]
    BY <2>1, ConstantsAssumption DEF Stored, Known
  <2>3. m.id \notin Delivery!Ids(Order[epoch])
    BY <1>a, <1>2, OrderOf
  <2>4. Order' = [Order EXCEPT ![epoch] = Append(Order[epoch], m.id)]
    <3>1. ASSUME NEW e \in EpochNumbers, e # epoch PROVE Order'[e] = Order[e]
      <4>1. log'[e] = log[e]
        BY <1>a, <1>2, <3>1
      <4> QED BY <4>1 DEF Order
    <3>2. Order'[epoch] = Append(Order[epoch], m.id)
      <4> DEFINE n == Len(log[epoch])
                 s == log[epoch]
      <4>1. s \in Seq(Entry) /\ n \in Nat
        BY <1>a
      <4>2. /\ Len(log'[epoch]) = n + 1
            /\ \A i \in 1..n : log'[epoch][i] = s[i]
            /\ log'[epoch][n + 1] = x
        BY <1>a, <1>b, <1>2, <4>1
      <4>3. /\ Order[epoch] \in Seq(Updates) /\ Len(Order[epoch]) = n
            /\ \A i \in 1..n : Order[epoch][i] = s[i].id
        BY <1>a, OrderOf
      <4>4. Order'[epoch] = [i \in 1..(n + 1) |-> log'[epoch][i].id]
        BY <1>a, <4>2 DEF Order
      <4>5. Append(Order[epoch], m.id) =
              [i \in 1..(n + 1) |-> IF i = n + 1 THEN m.id ELSE Order[epoch][i]]
        BY <2>1, <4>3
      <4>6. ASSUME NEW i \in 1..(n + 1)
            PROVE  log'[epoch][i].id = IF i = n + 1 THEN m.id ELSE Order[epoch][i]
        <5>1. i \in 1..n \/ i = n + 1
          BY <4>1
        <5> QED BY <4>1, <4>2, <4>3, <5>1
      <4> QED BY <4>4, <4>5, <4>6
    <3>3. /\ Order' = [e \in EpochNumbers |-> Order'[e]]
          /\ Order = [e \in EpochNumbers |-> Order[e]]
      BY DEF Order
    <3> QED BY <3>1, <3>2, <3>3
  <2> QED BY <1>c, <2>1, <2>2, <2>3, <2>4 DEF Delivery!Publish
<1> QED BY <1>1, <1>2 DEF RelayAppend

(* A restored relay starts from a prefix of an earlier order. *)
LEMMA RestoreDelivers ==
  ASSUME IInv, RestoreRelay
  PROVE  Delivery!Restore
<1>a. TypeOK /\ log \in [EpochNumbers -> Seq(Entry)]
  BY DEF IInv, TypeOK
<1>1. PICK d \in 1..epoch : \E n \in 0..Len(log[d]) :
        log' = [log EXCEPT ![epoch + 1] = SubSeq(log[d], 1, n)]
  BY DEF RestoreRelay
<1>2. PICK n \in 0..Len(log[d]) :
        log' = [log EXCEPT ![epoch + 1] = SubSeq(log[d], 1, n)]
  BY <1>1
<1>3. /\ d \in EpochNumbers /\ epoch + 1 \in EpochNumbers
      /\ epoch' = epoch + 1
      /\ UNCHANGED <<Known, cursor>>
  BY ConstantsAssumption
  DEF RestoreRelay, IInv, TypeOK, EpochNumbers, storeVars, Known
<1>4. /\ Order[d] \in Seq(Updates) /\ Len(Order[d]) = Len(log[d])
      /\ \A i \in 1..Len(log[d]) : Order[d][i] = log[d][i].id
  BY <1>a, <1>3, OrderOf
<1>5. Order' = [Order EXCEPT ![epoch + 1] = SubSeq(Order[d], 1, n)]
  <2>1. ASSUME NEW e \in EpochNumbers, e # epoch + 1 PROVE Order'[e] = Order[e]
    <3>1. log'[e] = log[e]
      BY <1>a, <1>2, <2>1
    <3> QED BY <3>1 DEF Order
  <2>2. Order'[epoch + 1] = SubSeq(Order[d], 1, n)
    <3>1. log[d] \in Seq(Entry) /\ n \in Nat /\ Len(log[d]) \in Nat
      BY <1>a, <1>3
    <3>2. log'[epoch + 1] = SubSeq(log[d], 1, n)
      BY <1>a, <1>2, <1>3
    <3>3. /\ Len(SubSeq(log[d], 1, n)) = n
          /\ \A i \in 1..n : SubSeq(log[d], 1, n)[i] = log[d][i]
      BY <3>1, SubSeqs
    <3>4. Order'[epoch + 1] = [i \in 1..n |-> log[d][i].id]
      BY <1>3, <3>2, <3>3 DEF Order
    <3>5. SubSeq(Order[d], 1, n) = [i \in 1..n |-> Order[d][i]]
      BY <1>4, <3>1
    <3>6. \A i \in 1..n : Order[d][i] = log[d][i].id
      BY <1>4, <3>1
    <3> QED BY <3>4, <3>5, <3>6
  <2>3. /\ Order' = [e \in EpochNumbers |-> Order'[e]]
        /\ Order = [e \in EpochNumbers |-> Order[e]]
    BY DEF Order
  <2> QED BY <2>1, <2>2, <2>3
<1> QED BY <1>2, <1>3, <1>4, <1>5 DEF Delivery!Restore

(* Receiving an entry delivers the next update, or changes nothing. *)
LEMMA ReceiveDelivers ==
  ASSUME IInv, [Next]_vars, NEW p \in Procs, Receive(p)
  PROVE  Delivery!Deliver(Home[p]) \/ UNCHANGED Delivery!vars
<1> DEFINE r == Home[p]
           m == Head(sweep[p].items)
           e == cred[p]
           n == sweep[p].after
<1>a. /\ TypeOK /\ Paged /\ r \in Replicas
      /\ ledger \in [Replicas -> [Updates -> Wire \cup {None}]]
      /\ cursor \in [Replicas -> Cursor \cup {None}]
  BY ConstantsAssumption DEF IInv, TypeOK
<1>b. UNCHANGED <<epoch, Order, authored>>
  BY DEF Receive, relayVars, Order
<1>1. CASE UNCHANGED <<ledger, cursor>>
  BY <1>b, <1>1 DEF Delivery!vars, Known
<1>2. CASE /\ IsCurrent(p)
           /\ ledger' = [ledger EXCEPT ![r][m.id] = m.wire]
           /\ cursor' = [cursor EXCEPT ![r].after = n + 1]
  <2>1. /\ e \in EpochNumbers /\ n \in Nat /\ n + 1 \in 1..Len(log[e])
        /\ m \in Entry /\ m = log[e][n + 1]
    BY <1>a, ReceivedIsNext DEF Receive
  <2>2. /\ cursor[r] # None /\ cursor[r].epoch = e /\ cursor[r].after = n
    BY <1>2, <2>1, NoneAssumption DEF IsCurrent, Cursor
  <2>3. Len(Order[e]) = Len(log[e]) /\ Order[e][n + 1] = m.id
    BY <1>a, <2>1, OrderOf
  <2>4. m.id \in Updates /\ m.wire \in Wire /\ m.wire # None
    BY <2>1, NoneAssumption DEF Entry
  <2>5. Known' = [Known EXCEPT ![r] = Known[r] \cup {m.id}]
    <3>1. ASSUME NEW x \in Replicas, NEW u \in Updates
          PROVE  ledger'[x][u] # None <=>
                   ledger[x][u] # None \/ (x = r /\ u = m.id)
      <4> HIDE DEF r, m
      <4>1. [ledger EXCEPT ![r][m.id] = m.wire][x][u] =
              IF x = r /\ u = m.id THEN m.wire ELSE ledger[x][u]
        BY <1>a, TableRead
      <4> QED BY <1>2, <2>4, <4>1
    <3>2. ASSUME NEW x \in Replicas
          PROVE  Known'[x] = IF x = r THEN Known[r] \cup {m.id} ELSE Known[x]
      BY <1>b, <2>4, <3>1 DEF Known
    <3>3. /\ Known' = [x \in Replicas |-> Known'[x]]
          /\ Known = [x \in Replicas |-> Known[x]]
      BY DEF Known
    <3> QED BY <1>a, <3>2, <3>3
  <2> HIDE DEF r, m, e, n
  <2>6. n + 1 <= Len(Order[e])
    BY <2>1, <2>3
  <2>7. Delivery!Deliver(r)
    <3>1. cursor' = [cursor EXCEPT ![r].after = cursor[r].after + 1]
      BY <1>2, <2>2
    <3> QED BY <1>b, <2>2, <2>3, <2>5, <2>6, <3>1 DEF Delivery!Deliver
  <2> QED BY <2>7 DEF r
<1> QED BY <1>1, <1>2 DEF Receive

(* Every step is a step of VaultDelivery, or invisible there. *)
LEMMA NextDelivers ==
  ASSUME IInv, [Next]_vars
  PROVE  [Delivery!Next]_(Delivery!vars)
<1>a. /\ TypeOK /\ Working /\ Present /\ Authorship
      /\ authored \in [Replicas -> [Updates -> Intent \cup {None}]]
      /\ ledger \in [Replicas -> [Updates -> Wire \cup {None}]]
      /\ cursor \in [Replicas -> Cursor \cup {None}]
  BY DEF IInv, TypeOK
<1>1. CASE UNCHANGED <<relayVars, storeVars>>
  BY <1>1 DEF relayVars, storeVars, Delivery!vars, Order, Known
<1>2. ASSUME NEW u \in Updates, InsertAuthored(u) PROVE Delivery!Create(u)
  <2> DEFINE r == Author[u]
             i == [sealed |-> None, accepted |-> FALSE]
  <2>1. r \in Replicas /\ i # None
    <3>1. i \in Intent
      BY DEF Intent
    <3> QED BY <3>1, ConstantsAssumption, NoneAssumption
  <2>2. authored[r][u] = None /\ ledger[r][u] = None
    BY <1>2 DEF InsertAuthored
  <2>3. authored' = [authored EXCEPT ![r][u] = i]
    BY <1>2 DEF InsertAuthored
  <2>4. UNCHANGED <<epoch, Order, ledger, cursor>>
    BY <1>2 DEF InsertAuthored, relayVars, Order
  <2> HIDE DEF r, i
  <2>5. u \notin Known[r]
    BY <2>1, <2>2 DEF Known
  <2>6. ASSUME NEW x \in Replicas, NEW v \in Updates
        PROVE  authored'[x][v] # None <=>
                 authored[x][v] # None \/ (x = r /\ v = u)
    <3>1. [authored EXCEPT ![r][u] = i][x][v] =
            IF x = r /\ v = u THEN i ELSE authored[x][v]
      BY <1>a, TableRead
    <3> QED BY <2>1, <2>3, <3>1
  <2>7. ASSUME NEW x \in Replicas
        PROVE  Known'[x] = IF x = r THEN Known[r] \cup {u} ELSE Known[x]
    BY <2>4, <2>6 DEF Known
  <2>8. /\ Known' = [x \in Replicas |-> Known'[x]]
        /\ Known = [x \in Replicas |-> Known[x]]
    BY DEF Known
  <2>9. Known' = [Known EXCEPT ![r] = Known[r] \cup {u}]
    BY <2>1, <2>7, <2>8
  <2> QED BY <2>4, <2>5, <2>9 DEF Delivery!Create, r
<1>3. ASSUME NEW p \in Procs, SetReceiveCursor(p)
      PROVE  Delivery!Join(Home[p], cred[p]) \/ UNCHANGED Delivery!vars
  <2> DEFINE r == Home[p]
  <2>1. UNCHANGED <<epoch, Order, Known>>
    BY <1>3 DEF SetReceiveCursor, relayVars, Order, Known
  <2>2. CASE UNCHANGED cursor
    BY <2>1, <2>2 DEF Delivery!vars
  <2>3. CASE cursor[r] = Start(p) /\ cursor' = [cursor EXCEPT ![r] = Start(p)]
    <3>1. UNCHANGED cursor
      BY <1>a, <2>3
    <3> QED BY <2>1, <3>1 DEF Delivery!vars
  <2>4. CASE cursor[r] = None /\ cursor' = [cursor EXCEPT ![r] = Start(p)]
    <3>1. cred[p] <= epoch
      BY <1>a DEF Present
    <3> QED BY <2>1, <2>4, <3>1 DEF Delivery!Join, Start
  <2> QED BY <1>3, <2>2, <2>3, <2>4 DEF SetReceiveCursor
<1>4. ASSUME NEW p \in Procs, InstallSealed(p) \/ Acknowledge(p)
      PROVE  UNCHANGED Delivery!vars
  <2>1. UNCHANGED <<epoch, Order, cursor>>
    BY <1>4 DEF InstallSealed, Acknowledge, relayVars, Order
  <2>2. ASSUME NEW r \in Replicas, NEW u \in Updates
        PROVE  (authored'[r][u] # None \/ ledger'[r][u] # None)
                 <=> (authored[r][u] # None \/ ledger[r][u] # None)
    <3> DEFINE x == sweep[p].current
    <3>1. x \in Updates /\ Home[p] \in Replicas /\ authored[Home[p]][x] # None
      BY <1>4, <1>a, ConstantsAssumption
      DEF Working, InstallSealed, Acknowledge, Row
    <3>2. authored[r][u] # None => authored'[r][u] # None
      BY <1>a, StoreGrows
    <3>3. CASE r = Home[p] /\ u = x
      BY <3>1, <3>2, <3>3
    <3>4. CASE ~(r = Home[p] /\ u = x)
      <4>1. UNCHANGED <<authored[r][u], ledger[r][u]>>
        <5>1. \A w : [ledger EXCEPT ![Home[p]][x] = w][r][u] = ledger[r][u]
          BY <1>a, <3>4, TableRead
        <5>2. \A w : [authored EXCEPT ![Home[p]][x] = w][r][u] = authored[r][u]
          BY <1>a, <3>4, TableRead
        <5>3. \/ UNCHANGED ledger
              \/ \E w : ledger' = [ledger EXCEPT ![Home[p]][x] = w]
          BY <1>4 DEF InstallSealed, Acknowledge
        <5>4. \/ UNCHANGED authored
              \/ \E w : authored' = [authored EXCEPT ![Home[p]][x] = w]
          BY <1>4 DEF InstallSealed, Acknowledge
        <5> QED BY <5>1, <5>2, <5>3, <5>4
      <4> QED BY <4>1
    <3> QED BY <3>3, <3>4
  <2>3. UNCHANGED Known
    BY <2>2 DEF Known
  <2> QED BY <2>1, <2>3 DEF Delivery!vars
<1>5. ASSUME NEW p \in Procs, Receive(p)
      PROVE  Delivery!Deliver(Home[p]) \/ UNCHANGED Delivery!vars
  BY <1>5, ReceiveDelivers
<1>6. ASSUME NEW m \in sent, RelayAppend(m)
      PROVE  (\E u \in Updates : Delivery!Publish(u)) \/ UNCHANGED Delivery!vars
  BY <1>6, AppendPublishes
<1>7. RestoreRelay => Delivery!Restore
  BY RestoreDelivers
<1> DEFINE Quiet == UNCHANGED <<relayVars, storeVars>>
<1>q. ASSUME NEW p \in Procs PROVE OpenCursor(p) \/ Connect(p) => Quiet
  BY DEF OpenCursor, Connect, relayVars, storeVars
<1>r. ASSUME NEW p \in Procs, NEW u \in Updates PROVE SealRead(p, u) => Quiet
  BY DEF SealRead, relayVars, storeVars
<1>s. ASSUME NEW p \in Procs
      PROVE  ListPending(p) \/ Send(p) \/ UploadDone(p) => Quiet
  BY DEF ListPending, Send, UploadDone, relayVars, storeVars
<1>t. ASSUME NEW p \in Procs PROVE Pull(p) \/ PageDone(p) => Quiet
  BY DEF Pull, PageDone, relayVars, storeVars
<1>u. ASSUME NEW p \in Procs PROVE Abort(p) \/ Reprovision(p) => Quiet
  BY DEF Abort, Reprovision, relayVars, storeVars
<1>v. ASSUME NEW m \in sent PROVE Lose(m) => Quiet
  BY DEF Lose, relayVars, storeVars
<1>w. UNCHANGED vars => Quiet
  BY DEF vars, relayVars, storeVars
<1>8. \/ Quiet
      \/ \E u \in Updates : InsertAuthored(u)
      \/ \E p \in Procs : SetReceiveCursor(p)
      \/ \E p \in Procs : InstallSealed(p) \/ Acknowledge(p)
      \/ \E p \in Procs : Receive(p)
      \/ \E m \in sent : RelayAppend(m)
      \/ RestoreRelay
  <2> HIDE DEF Quiet
  <2> QED
    BY <1>q, <1>r, <1>s, <1>t, <1>u, <1>v, <1>w DEF Next, Step
<1>9. \A p \in Procs : Home[p] \in Replicas /\ cred[p] \in EpochNumbers
  BY <1>a, ConstantsAssumption DEF TypeOK
<1> QED
  BY <1>1, <1>2, <1>3, <1>4, <1>5, <1>6, <1>7, <1>8, <1>9 DEF Delivery!Next

(* The sweeps, ledgers and relay deliver the relay's order to every replica *)
(* as VaultDelivery promises, for any replicas, processes and faults.       *)
THEOREM SweepsDeliver == Spec => DeliversInOrder
<1>1. IInv /\ [Next]_vars => [Delivery!Next]_(Delivery!vars)
  BY NextDelivers
<1> QED
  BY <1>1, InitDelivers, Invariance, PTL DEF Spec, DeliversInOrder, Delivery!Spec
===============================================================================
