----------------------------- MODULE VaultDelivery -----------------------------
(***************************************************************************)
(* What synchronization promises the replicas of a vault.  An update is    *)
(* created once, by its author; the relay orders the updates it is given   *)
(* in one log per epoch; a replica takes the entries of one epoch's log in *)
(* order, none skipped and none twice, and whatever it holds it keeps.     *)
(***************************************************************************)
EXTENDS Naturals, Sequences

CONSTANTS Replicas, Updates, Author, EpochNumbers, None

VARIABLES
  epoch,     \* the relay's epoch
  order,     \* per epoch: the update identities in the relay's order
  held,      \* per replica: the updates it has
  position   \* per replica: None, or the place it has read up to

vars == <<epoch, order, held, position>>

Ids(s) == {s[i] : i \in 1..Len(s)}

Init ==
  /\ epoch = 1
  /\ order = [e \in EpochNumbers |-> << >>]
  /\ held = [r \in Replicas |-> {}]
  /\ position = [r \in Replicas |-> None]

Create(u) ==
  /\ u \notin held[Author[u]]
  /\ held' = [held EXCEPT ![Author[u]] = @ \cup {u}]
  /\ UNCHANGED <<epoch, order, position>>

(* The relay accepts an update only its author can have uploaded. *)
Publish(u) ==
  /\ u \in held[Author[u]]
  /\ u \notin Ids(order[epoch])
  /\ order' = [order EXCEPT ![epoch] = Append(@, u)]
  /\ UNCHANGED <<epoch, held, position>>

Join(r, e) ==
  /\ position[r] = None
  /\ e <= epoch
  /\ position' = [position EXCEPT ![r] = [epoch |-> e, after |-> 0]]
  /\ UNCHANGED <<epoch, order, held>>

Deliver(r) ==
  /\ position[r] # None
  /\ LET e == position[r].epoch
         n == position[r].after + 1 IN
     /\ n <= Len(order[e])
     /\ position' = [position EXCEPT ![r].after = n]
     /\ held' = [held EXCEPT ![r] = @ \cup {order[e][n]}]
  /\ UNCHANGED <<epoch, order>>

(* A relay restored from a backup of an earlier epoch. *)
Restore ==
  /\ epoch + 1 \in EpochNumbers
  /\ epoch' = epoch + 1
  /\ \E e \in 1..epoch : \E n \in 0..Len(order[e]) :
       order' = [order EXCEPT ![epoch + 1] = SubSeq(order[e], 1, n)]
  /\ UNCHANGED <<held, position>>

Next ==
  \/ \E u \in Updates : Create(u) \/ Publish(u)
  \/ \E r \in Replicas : Deliver(r) \/ \E e \in EpochNumbers : Join(r, e)
  \/ Restore

Spec == Init /\ [][Next]_vars
===============================================================================
