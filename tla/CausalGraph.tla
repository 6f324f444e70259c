------------------------------ MODULE CausalGraph ------------------------------
(***************************************************************************)
(* The deterministic view of a vault's entries (crates/zorid-file-sync,    *)
(* lib.rs, graph_entry.rs and graph_namespace.rs).                         *)
(*                                                                         *)
(* Every replica holds a set of events about entries.  An event names the  *)
(* events its author held as heads of the entry, its parents, and has one  *)
(* effect.  The view (which entries live, their contents, locations and    *)
(* paths) is a pure function of that set, so these are operators over      *)
(*   ev : a function from event identities to events                       *)
(* and the module has no variables.  Identities are numbers: the code      *)
(* compares the random strings only to break ties, and nothing else        *)
(* relates the order of identities to the order of authorship.             *)
(*                                                                         *)
(* Manifests, chunks, bindings and the limits on sizes are left out: a     *)
(* write is told apart by its event.                                       *)
(***************************************************************************)
EXTENDS Integers, FiniteSets

Root == 0    \* the parent of a location at the top of the vault

(* A location is a folder's entry (or Root) and a name in it. *)
Create(effect) == effect \in {"create_folder", "create_binary", "create_text"}
Writes(effect) == effect \in {"create_binary", "set_content"}
Placing(effect) == Create(effect) \/ effect \in {"move", "restore"}

-----------------------------------------------------------------------------
(* Causality.  Past(ev)[i] is everything reachable from event i along      *)
(* parents, known or not.                                                  *)

Past(ev) ==
  LET upTo[n \in Nat] ==
        IF n = 0 THEN [i \in DOMAIN ev |-> ev[i].parents]
        ELSE LET shorter == upTo[n - 1] IN
             [i \in DOMAIN ev |->
               shorter[i] \cup
               UNION {shorter[p] : p \in shorter[i] \cap DOMAIN ev}]
  IN upTo[Cardinality(DOMAIN ev)]

(* An event is resolved once its whole past is known; the rest is pending. *)
Resolved(ev, past) == {i \in DOMAIN ev : past[i] \subseteq DOMAIN ev}

(* The checks of EntryEvent::validate, per event. *)
WellFormed(i, e) ==
  /\ i \notin e.parents
  /\ Create(e.effect) <=> e.parents = {}
  /\ Create(e.effect) <=> i = e.bootstrap

(* What derive_graph_with_status refuses with an error: the record that    *)
(* brings it is not applied.                                               *)
OneIdentity(ev) ==
  \A i, j \in DOMAIN ev :
    \/ ev[i].entry = ev[j].entry /\ ev[i].bootstrap = ev[j].bootstrap
    \/ ev[i].entry # ev[j].entry /\ i \notin ev[j].parents

OneBinding(ev) ==
  \A i, j \in DOMAIN ev : ev[i].entry = ev[j].entry =>
    /\ ~ (/\ ev[i].effect \in {"create_text", "activity"}
          /\ ev[j].effect = "set_content")
    /\ ev[i].effect = "activity" /\ Create(ev[j].effect)
         => ev[j].effect = "create_text"

(* A resolved event that others name as their bootstrap creates their entry. *)
BootstrapsFit(ev, resolved) ==
  \A i \in resolved, j \in DOMAIN ev : ev[j].bootstrap = i =>
    Create(ev[i].effect) /\ ev[i].entry = ev[j].entry

FollowsItsPast(ev, past, i) ==
  LET e == ev[i] IN
    /\ e.bootstrap \in past[i]
    /\ Create(ev[e.bootstrap].effect)
    /\ e.effect = "set_content" => ev[e.bootstrap].effect = "create_binary"
    /\ \A p, q \in e.parents : p \notin past[q]
    /\ e.effect \notin {"restore", "delete"} =>
         \A p \in e.parents : ev[p].effect # "delete"

Accepts(ev) ==
  LET past == Past(ev)
      resolved == Resolved(ev, past)
  IN
    /\ \A i \in DOMAIN ev : WellFormed(i, ev[i]) /\ i \notin past[i]
    /\ OneIdentity(ev)
    /\ OneBinding(ev)
    /\ BootstrapsFit(ev, resolved)
    /\ \A i \in resolved :
         ~ Create(ev[i].effect) => FollowsItsPast(ev, past, i)

-----------------------------------------------------------------------------
(* One entry.  Of a set of events the maximal ones are those in the past   *)
(* of no other of the set.                                                 *)
OnlyLargest(past, S) == {i \in S : \A j \in S : j <= i}
Maximal(past, S) == {i \in S : \A j \in S : i \notin past[j]}

AnyDeletion(ev, heads) ==
  IF \E i \in heads : ev[i].effect = "delete" THEN "deleted" ELSE "live"

Liveness(ev, heads) ==
  LET deletes == {i \in heads : ev[i].effect = "delete"} IN
    CASE deletes = {} -> "live"
      [] deletes # {} /\ deletes = heads -> "deleted"
      [] OTHER -> "delete_conflict"

Largest(S) == CHOOSE i \in S : \A j \in S : j <= i

Entry(ev, past, resolved, e) ==
  LET own   == {i \in resolved : ev[i].entry = e}
      heads == Maximal(past, own)
      locs  == Maximal(past, {i \in own : Placing(ev[i].effect)})
      root  == CHOOSE i \in own : Create(ev[i].effect)
  IN [bootstrap |-> root,
      kind      |-> IF ev[root].effect = "create_folder" THEN "folder"
                    ELSE IF ev[root].effect = "create_text" THEN "text"
                    ELSE "binary",
      heads     |-> heads,
      contents  |-> Maximal(past, {i \in own : Writes(ev[i].effect)}),
      locations |-> locs,
      preferred |-> ev[Largest(locs)].loc,
      liveness  |-> Liveness(ev, heads)]

Created(ev, resolved) ==
  {ev[i].entry : i \in {j \in resolved : Create(ev[j].effect)}}

Entries(ev) ==
  LET past == Past(ev)
      resolved == Resolved(ev, past)
  IN [e \in Created(ev, resolved) |-> Entry(ev, past, resolved, e)]

Pending(ev) == DOMAIN ev \ Resolved(ev, Past(ev))

(* graph_entry::reduce: the same from the events of one entry alone.       *)
OwnEvents(ev, e) == [i \in {j \in DOMAIN ev : ev[j].entry = e} |-> ev[i]]

-----------------------------------------------------------------------------
(* Paths.  Among live entries that want the same name in the same folder   *)
(* the one with the smallest identity has it; the others collide, visible  *)
(* or not.                                                                 *)
Claimants(nodes, loc) ==
  {e \in DOMAIN nodes : nodes[e].liveness = "live" /\ nodes[e].preferred = loc}

NestedCollisions(nodes) ==
  {e \in DOMAIN nodes :
     \E f \in DOMAIN nodes :
       /\ f < e /\ nodes[f].preferred.parent # Root
       /\ {e, f} \subseteq Claimants(nodes, nodes[e].preferred)}

Collisions(nodes) ==
  {e \in DOMAIN nodes :
     \E f \in DOMAIN nodes :
       /\ f < e
       /\ {e, f} \subseteq Claimants(nodes, nodes[e].preferred)}

(* locate: the walk from an entry towards the root.  It ends at the first  *)
(* entry whose verdict is not "up", after at most one step per entry.      *)
Up(nodes, e) == IF e \in DOMAIN nodes THEN nodes[e].preferred.parent ELSE e

Chain(nodes, start) ==
  LET chain[k \in Nat] == IF k = 0 THEN start ELSE Up(nodes, chain[k - 1])
  IN chain

Verdict(nodes, colliding, chain, k) ==
  LET e == chain[k] IN
  IF \E j \in 0 .. k - 1 : chain[j] = e THEN "cycle"
  ELSE IF e \notin DOMAIN nodes THEN "parent_unavailable"
  ELSE IF e \in colliding THEN "name_collision"
  ELSE IF nodes[e].liveness = "deleted" THEN
         IF k = 0 THEN "tombstone" ELSE "parent_unavailable"
  ELSE IF nodes[e].liveness = "delete_conflict" THEN "delete_conflict"
  ELSE IF k # 0 /\ nodes[e].kind # "folder" THEN "parent_unavailable"
  ELSE IF nodes[e].preferred.parent = Root THEN "normal"
  ELSE "up"

Locate(nodes, colliding, start) ==
  LET chain == Chain(nodes, start)
      verdict(k) == Verdict(nodes, colliding, chain, k)
      last == CHOOSE k \in 0 .. Cardinality(DOMAIN nodes) :
                verdict(k) # "up" /\ \A j \in 0 .. k - 1 : verdict(j) = "up"
  IN [to   |-> verdict(last),
      path |-> IF verdict(last) = "normal"
               THEN [k \in 0 .. last |-> nodes[chain[last - k]].preferred.name]
               ELSE <<>>]

Projection(nodes, e) == Locate(nodes, Collisions(nodes), e)

(* The whole view: every entry with its path, and the pending events.      *)
View(ev) ==
  LET nodes == Entries(ev) IN
    [entries |-> [e \in DOMAIN nodes |->
                   [node |-> nodes[e], projection |-> Projection(nodes, e)]],
     pending |-> Pending(ev)]
=============================================================================
