------------------------------- MODULE RelayLog -------------------------------
(***************************************************************************)
(* What the relay promises its clients, and all they may build on: for     *)
(* every epoch and vault one log, in which an update identity has at most  *)
(* one place and nothing is ever changed or taken away.  A later epoch     *)
(* starts empty or from a prefix of an earlier epoch's logs (a restored    *)
(* backup): what came after the prefix may be missing from it, which is    *)
(* why a position means nothing without its epoch.                         *)
(***************************************************************************)
EXTENDS Naturals, Sequences

CONSTANTS Epochs, Vaults, Updates, Wires

VARIABLES
  established,  \* epochs clients can have met
  log           \* per epoch and vault: the accepted updates in order

vars == <<established, log>>

Entry == [id : Updates, wire : Wires]
EmptyLogs == [v \in Vaults |-> << >>]
Ids(s) == {s[i].id : i \in 1..Len(s)}
Prefixes(s) == {SubSeq(s, 1, n) : n \in 0..Len(s)}

Init ==
  /\ established = {}
  /\ log = [e \in Epochs |-> EmptyLogs]

(* A new database, or a restored one. *)
Establish(e, logs) ==
  /\ e \in Epochs \ established
  /\ \/ logs = EmptyLogs
     \/ \E e0 \in established :
          /\ DOMAIN logs = Vaults
          /\ \A v \in Vaults : logs[v] \in Prefixes(log[e0][v])
  /\ established' = established \cup {e}
  /\ log' = [log EXCEPT ![e] = logs]

Accept(e, v, u, w) ==
  /\ e \in established
  /\ u \notin Ids(log[e][v])
  /\ log' = [log EXCEPT ![e][v] = Append(@, [id |-> u, wire |-> w])]
  /\ UNCHANGED established

Next ==
  \/ \E e \in Epochs : Establish(e, log'[e])
  \/ \E e \in Epochs, v \in Vaults, u \in Updates, w \in Wires :
       Accept(e, v, u, w)

Spec == Init /\ [][Next]_vars
===============================================================================
