------------------------------ MODULE FamilyGraph ------------------------------
(***************************************************************************)
(* The entry graph of several replicas of one vault (crates/zorid-store,   *)
(* family_commands.rs, family_metadata_transactions.rs, family_indexed.rs, *)
(* family_graph.rs; planners of crates/zorid-file-sync).                   *)
(*                                                                         *)
(* A replica's database holds the events it knows and, beside them, facts  *)
(* derived from them: one row per entry and the pending events.  A command *)
(* is prepared in a read transaction and committed in a later, short one   *)
(* that refuses it when the graph has changed in between.  Creating a      *)
(* folder or a text and writing a text take the indexed path, which reads  *)
(* and rewrites the row of its one entry; a move or a deletion plans over  *)
(* the whole graph, and so does every event that arrives.                  *)
(*                                                                         *)
(* Replicas exchange events through a relay log.  A replica uploads its    *)
(* events in the order of their random identities, not of authorship, so   *)
(* an event can arrive before the ones it follows.                         *)
(***************************************************************************)
EXTENDS CausalGraph, Sequences, SequencesExt

CONSTANTS
  Replicas,
  Processes,   \* processes that run commands
  home,        \* the replica whose database a process has open
  Names,       \* names in a folder
  Operations,  \* operation identities clients use
  MaxEvents,   \* bound: events ever authored
  MaxEntries,  \* bound: entries ever created
  MaxOpen,     \* bound: commands between their two transactions at once
  Draws,       \* bound: of some unused identities, those a draw can return
  Kinds,       \* bound: what the users create
  None

ASSUME FamilyGraphAssumption ==
  /\ MaxEvents \in Nat /\ MaxEntries \in Nat /\ MaxOpen \in Nat
  /\ Draws \in [SUBSET (1 .. MaxEvents) -> SUBSET (1 .. MaxEvents)]
  /\ \A S \in SUBSET (1 .. MaxEvents) : Draws[S] \subseteq S
  /\ home \in [Processes -> Replicas]
  /\ Kinds \subseteq {"folder", "text", "binary"}

VARIABLES
  events,    \* every event ever authored
  known,     \* per replica: the events its database holds
  facts,     \* per replica: the rows maintained beside them
  prepared,  \* per process: a command between its two transactions
  receipts,  \* per replica: the command each finished operation stands for
  relay,     \* the relay's log of events
  cursor     \* per replica: how much of the log it has pulled

vars == <<events, known, facts, prepared, receipts, relay, cursor>>

Ids == 1 .. MaxEvents
EntryIds == 1 .. MaxEntries
Location == [parent : EntryIds \cup {Root}, name : Names]

(* The last three fields are history no operator of the code reads: the    *)
(* replica and operation that authored the event, and the events its       *)
(* database held when they did.                                            *)
Event == [entry : EntryIds, bootstrap : Ids, parents : SUBSET Ids,
          effect : {"create_folder", "create_text", "create_binary",
                    "activity", "set_content", "move", "delete"},
          loc : Location \cup {None},
          author : Replicas, op : Operations, saw : SUBSET Ids]

Held(r) == [i \in known[r] |-> events[i]]
NoFacts == [entries |-> <<>>, pending |-> {}]

TypeOK ==
  /\ DOMAIN events \subseteq Ids
  /\ \A i \in DOMAIN events : events[i] \in Event
  /\ known \in [Replicas -> SUBSET DOMAIN events]
  /\ relay \in Seq(DOMAIN events) /\ IsInjective(relay)
  /\ cursor \in [Replicas -> 0 .. Len(relay)]
  /\ \A r \in Replicas :
       /\ DOMAIN facts[r].entries \subseteq EntryIds
       /\ facts[r].pending \subseteq known[r]
       /\ DOMAIN receipts[r] \subseteq Operations

Init ==
  /\ events = <<>>
  /\ known = [r \in Replicas |-> {}]
  /\ facts = [r \in Replicas |-> NoFacts]
  /\ prepared = [p \in Processes |-> None]
  /\ receipts = [r \in Replicas |-> <<>>]
  /\ relay = <<>>
  /\ cursor = [r \in Replicas |-> 0]

-----------------------------------------------------------------------------
(* What the rows of a replica say.                                         *)
Rows(r) == facts[r].entries
Nodes(r) == [e \in DOMAIN Rows(r) |-> Rows(r)[e].node]

Placed(r) == {e \in DOMAIN Rows(r) : Rows(r)[e].projection.to = "normal"}

(* An entry the user can name: published at a path, its own history        *)
(* complete and, for a text, its content there.                            *)
Visible(r) ==
  {e \in Placed(r) :
    /\ \A i \in facts[r].pending : events[i].entry # e
    /\ Nodes(r)[e].kind = "text" =>
         \E i \in known[r] : events[i].entry = e /\ events[i].effect = "activity"}

FoldersOf(r) == {Root} \cup {e \in Visible(r) : Nodes(r)[e].kind = "folder"}
At(r, loc) == {e \in Placed(r) : Nodes(r)[e].preferred = loc}

(* The entries placed under an entry, itself included.                     *)
Beneath(placed, nodes, e) ==
  LET down[k \in Nat] == IF k = 0 THEN {e}
                         ELSE {f \in placed : nodes[f].preferred.parent \in down[k - 1]}
                              \cup down[k - 1]
  IN down[MaxEntries]

Below(r, e) == Beneath(Placed(r), Nodes(r), e)

(* require_affected_coverage: nothing a command touches is placed by the   *)
(* graph and yet hidden from the user.                                     *)
Covered(r, S) == S \subseteq Visible(r)

-----------------------------------------------------------------------------
(* The events a command authors, with identities drawn at random: no two   *)
(* draws are ever the same.                                                *)
Open == {p \in Processes : prepared[p] # None}
Unused == Ids \ (DOMAIN events \cup UNION {DOMAIN prepared[p].ev : p \in Open})
Fresh == Draws[Unused]
FreshEntries ==
  EntryIds \ ({events[i].entry : i \in DOMAIN events} \cup
              UNION {{prepared[p].ev[i].entry : i \in DOMAIN prepared[p].ev} : p \in Open})

Single(i, e) == [k \in {i} |-> e]
Both(f, g) == [k \in DOMAIN f \cup DOMAIN g |-> IF k \in DOMAIN f THEN f[k] ELSE g[k]]

Author(r, op, i, e, b, parents, effect, loc) ==
  Single(i, [entry |-> e, bootstrap |-> b, parents |-> parents, effect |-> effect,
             loc |-> loc, author |-> r, op |-> op, saw |-> known[r]])

Creation(r, op, i, e, effect, loc) == Author(r, op, i, e, i, {}, effect, loc)

ChangeOfAll(r, op, i, e, effect, loc) ==
  Author(r, op, i, e, Nodes(r)[e].bootstrap,
         {j \in known[r] : events[j].entry = e}, effect, loc)

(* A change of an entry follows all its heads. *)
Change(r, op, i, e, effect, loc) ==
  Author(r, op, i, e, Nodes(r)[e].bootstrap, Nodes(r)[e].heads, effect, loc)

LargestSibling(nodes, loc) ==
  LET claim == Claimants(nodes, loc) IN
    CHOOSE e \in claim : \A f \in claim : f <= e

(* The selector of the indexed path: the smallest live row that wants loc. *)
SiblingWinner(nodes, loc) ==
  LET claim == Claimants(nodes, loc) IN
    CHOOSE e \in claim : \A f \in claim : e <= f

IndexedProjection(nodes, e) ==
  Locate(nodes,
         {f \in DOMAIN nodes : /\ nodes[f].liveness = "live"
                               /\ SiblingWinner(nodes, nodes[f].preferred) < f},
         e)

(* The target's row after the command, from the entry's own events and the *)
(* rows of the others.                                                     *)
IndexedRow(r, e, ev) ==
  LET node == Entries(OwnEvents(Both(Held(r), ev), e))[e]
      over == Both(Single(e, node), Nodes(r))
  IN [node |-> node, projection |-> IndexedProjection(over, e)]

(* The first transaction: a command is planned unless it already finished. *)
Prepare(p, op, ev, changed) ==
  LET r == home[p] IN
    /\ Cardinality(Open) < MaxOpen
    /\ op \notin DOMAIN receipts[r]
    /\ prepared' = [prepared EXCEPT ![p] =
         [op |-> op, ev |-> ev, changed |-> changed, head |-> known[r]]]
    /\ UNCHANGED <<events, known, facts, receipts, relay, cursor>>

PrepareIndexed(p, op, e, ev) ==
  LET row == IndexedRow(home[p], e, ev) IN
    /\ row.projection.to = "normal"
    /\ Prepare(p, op, ev, Single(e, row))

PrepareWhole(p, op, ev) ==
  Prepare(p, op, ev, View(Both(Held(home[p]), ev)).entries)

CreateBesideHidden(p, op, e, i, loc) ==
  LET r == home[p] IN
    /\ loc.parent \in FoldersOf(r)
    /\ At(r, loc) \cap Visible(r) = {}
    /\ "text" \in Kinds
    /\ \E j \in Draws[Unused \ {i}] :
         PrepareIndexed(p, op, e,
           Both(Creation(r, op, i, e, "create_text", loc),
                Author(r, op, j, e, i, {i}, "activity", None)))

(* Creating a folder or a text refuses a name that a hidden entry wants;   *)
(* a binary file is planned over the whole graph.                          *)
PrepareCreate(p, op, e, i, loc) ==
  LET r == home[p] IN
    /\ loc.parent \in FoldersOf(r)
    /\ At(r, loc) \cap Visible(r) = {}
    /\ \/ /\ "folder" \in Kinds
          /\ Claimants(Nodes(r), loc) = {}
          /\ PrepareIndexed(p, op, e, Creation(r, op, i, e, "create_folder", loc))
       \/ /\ "text" \in Kinds
          /\ Claimants(Nodes(r), loc) = {}
          /\ \E j \in Draws[Unused \ {i}] :
               PrepareIndexed(p, op, e,
                 Both(Creation(r, op, i, e, "create_text", loc),
                      Author(r, op, j, e, i, {i}, "activity", None)))
       \/ /\ "binary" \in Kinds
          /\ Covered(r, At(r, loc))
          /\ PrepareWhole(p, op, Creation(r, op, i, e, "create_binary", loc))

PrepareWrite(p, op, e, i) ==
  LET r == home[p] IN
    /\ \/ /\ Nodes(r)[e].kind = "text"
          /\ PrepareIndexed(p, op, e, Change(r, op, i, e, "activity", None))
       \/ /\ Nodes(r)[e].kind = "binary"
          /\ PrepareWhole(p, op, Change(r, op, i, e, "set_content", None))

MoveOverHidden(p, op, e, i, loc) ==
  LET r == home[p] IN
    /\ loc.parent \in FoldersOf(r) \ Below(r, e)
    /\ PrepareWhole(p, op, Change(r, op, i, e, "move", loc))

(* A folder is not moved into itself or below.                             *)
PrepareMove(p, op, e, i, loc) ==
  LET r == home[p] IN
    /\ loc.parent \in FoldersOf(r) \ Below(r, e)
    /\ At(r, loc) \cap Visible(r) = {}
    /\ Covered(r, At(r, loc) \cup Below(r, e))
    /\ PrepareWhole(p, op, Change(r, op, i, e, "move", loc))

(* A recursive deletion names every entry it deletes: those it sees.       *)
PrepareDelete(p, op, e, id) ==
  LET r == home[p]
      members == Below(r, e)
  IN
    /\ Covered(r, members)
    /\ DOMAIN id = members /\ IsInjective(id)
    /\ PrepareWhole(p, op,
         [i \in {id[f] : f \in members} |->
            Change(r, op, i, CHOOSE f \in members : id[f] = i, "delete", None)[i]])

Ready(plan, r) == plan.op \notin DOMAIN receipts[r] /\ plan.head = known[r]

Store(p, rows) ==
  LET r == home[p]
      plan == prepared[p]
  IN
    /\ DOMAIN plan.ev \cap DOMAIN events = {}
    /\ events' = Both(plan.ev, events)
    /\ known' = [known EXCEPT ![r] = @ \cup DOMAIN plan.ev]
    /\ facts' = [facts EXCEPT ![r].entries = rows]
    /\ receipts' = [receipts EXCEPT ![r] = Both(Single(plan.op, DOMAIN plan.ev), @)]
    /\ prepared' = [prepared EXCEPT ![p] = None]
    /\ UNCHANGED <<relay, cursor>>

Rederived(p) == View(Both(Held(home[p]), prepared[p].ev)).entries

CommitUnchecked(p) == prepared[p] # None /\ Store(p, Rederived(p))

CommitUnlessDone(p) ==
  /\ prepared[p] # None
  /\ prepared[p].op \notin DOMAIN receipts[home[p]]
  /\ Store(p, Rederived(p))

(* The second transaction.  It replays a finished operation, refuses a     *)
(* changed graph, and otherwise stores the events and rewrites the rows.   *)
Commit(p) ==
  /\ prepared[p] # None
  /\ Ready(prepared[p], home[p])
  /\ Store(p, Both(prepared[p].changed, facts[home[p]].entries))

(* A replay, a refusal, a process that dies between the two transactions.  *)
Discard(p) ==
  /\ prepared[p] # None
  /\ prepared' = [prepared EXCEPT ![p] = None]
  /\ UNCHANGED <<events, known, facts, receipts, relay, cursor>>

-----------------------------------------------------------------------------
(* Exchange.  The pending upload with the smallest identity goes first.    *)
UnsentAlways(r) == {i \in known[r] : events[i].author = r}
UnsentStructure(r) ==
  {i \in known[r] : events[i].author = r /\ events[i].effect # "activity"}
    \ {relay[k] : k \in 1 .. Len(relay)}
Unsent(r) == {i \in known[r] : events[i].author = r} \ {relay[k] : k \in 1 .. Len(relay)}

Upload(r) ==
  /\ Unsent(r) # {}
  /\ relay' = Append(relay, CHOOSE i \in Unsent(r) : \A j \in Unsent(r) : i <= j)
  /\ UNCHANGED <<events, known, facts, prepared, receipts, cursor>>

PulledOnly(r) == {relay[k] : k \in 1 .. cursor[r] + 1}
Pulled(r) == known[r] \cup {relay[cursor[r] + 1]}

(* An event comes back to its author as an exact echo and changes nothing. *)
Pull(r) ==
  /\ cursor[r] < Len(relay)
  /\ LET ev == [j \in Pulled(r) |-> events[j]] IN
       /\ Accepts(ev)
       /\ known' = [known EXCEPT ![r] = Pulled(r)]
       /\ facts' = [facts EXCEPT ![r] = IF Pulled(r) = known[r] THEN @ ELSE View(ev)]
  /\ cursor' = [cursor EXCEPT ![r] = @ + 1]
  /\ UNCHANGED <<events, prepared, receipts, relay>>

Next ==
  \/ \E p \in Processes \ Open, op \in Operations :
       \/ \E e \in FreshEntries, i \in Fresh, loc \in Location : PrepareCreate(p, op, e, i, loc)
       \/ \E e \in Visible(home[p]) :
            \/ \E i \in Fresh : PrepareWrite(p, op, e, i)
            \/ \E i \in Fresh, loc \in Location : PrepareMove(p, op, e, i, loc)
            \/ \E id \in [Below(home[p], e) -> Unused] : PrepareDelete(p, op, e, id)
  \/ \E p \in Processes : Commit(p) \/ Discard(p)
  \/ \E r \in Replicas : Upload(r) \/ Pull(r)

Spec == Init /\ [][Next]_vars

-----------------------------------------------------------------------------
(* Deriving one entry from its own events, and its path from the indexed   *)
(* selector, gives what the whole graph gives.                             *)
IndexedAgrees ==
  \A r \in Replicas : LET nodes == Entries(Held(r)) IN
    \A e \in DOMAIN nodes :
      /\ Entries(OwnEvents(Held(r), e))[e] = nodes[e]
      /\ IndexedProjection(nodes, e) = Projection(nodes, e)

(* The facts maintained one command and one arrival at a time are the ones *)
(* a complete derivation of the events gives (what audit_reference checks  *)
(* during a migration and nothing checks afterwards), by either route.     *)
FactsMatchReference ==
  IndexedAgrees /\ \A r \in Replicas : facts[r] = View(Held(r))

(* An entry is gone from a replica only if every change of it was held by  *)
(* the author of some deletion of it: a change nobody who deleted had seen *)
(* keeps the entry, as a conflict.                                         *)
DeletionsWereInformed ==
  \A r \in Replicas : \A e \in DOMAIN Rows(r) :
    Nodes(r)[e].liveness = "deleted" =>
      \A i \in known[r] \ facts[r].pending : events[i].entry = e =>
        \E d \in known[r] :
          /\ events[d].entry = e /\ events[d].effect = "delete"
          /\ i \in events[d].saw \cup {d}

(* A content leaves the view only for one whose author had seen it.        *)
NoContentLost ==
  \A r \in Replicas : \A i \in known[r] \ facts[r].pending :
    Writes(events[i].effect) =>
      \/ i \in Nodes(r)[events[i].entry].contents
      \/ \E j \in known[r] : /\ Writes(events[j].effect)
                             /\ events[j].entry = events[i].entry
                             /\ i \in events[j].saw

(* Concurrent deletions and writes drop only what their author had seen.   *)
ChangesSurvive == DeletionsWereInformed /\ NoContentLost

(* Two entries never share a path, and above a placed entry are only       *)
(* placed folders.                                                         *)
PathsAreSound ==
  \A r \in Replicas : \A e, f \in Placed(r) :
    /\ e # f => Rows(r)[e].projection.path # Rows(r)[f].projection.path
    /\ LET up == Nodes(r)[e].preferred.parent IN
         up # Root => up \in Placed(r) /\ Nodes(r)[up].kind = "folder"

(* A command of the user moves no entry but the ones it names.             *)
CommandsDisplaceNothing ==
  [][\A r \in Replicas : cursor'[r] = cursor[r] =>
       LET touched == UNION {Below(r, events'[i].entry) : i \in DOMAIN events' \ DOMAIN events}
       IN \A e \in Visible(r) \ touched :
            Rows(r)'[e].projection = Rows(r)[e].projection]_vars

(* The namespace holds at every moment, and only the user's own commands   *)
(* move what they name.                                                    *)
NamespaceIsKept == []PathsAreSound /\ CommandsDisplaceNothing

(* The events of an operation are exactly those of its receipt, however    *)
(* often it is retried by however many processes.                          *)
OncePerOperation ==
  \A r \in Replicas, op \in Operations :
    LET authored == {i \in DOMAIN events : events[i].author = r /\ events[i].op = op} IN
      authored = IF op \in DOMAIN receipts[r] THEN receipts[r][op] ELSE {}

(* An event stores, as what it follows, exactly what its author's replica  *)
(* showed as heads when it was stored: nothing that arrived between the    *)
(* two transactions is superseded unseen or left beside it.                *)
ParentsAreCurrent ==
  [][\A i \in DOMAIN events' \ DOMAIN events :
       LET e == events'[i].entry
           r == events'[i].author
       IN e \in DOMAIN Rows(r) => events'[i].parents = Nodes(r)[e].heads]_vars

(* A command takes effect once, over the vault its replica showed then.    *)
CommandsTakeEffectOnce == []OncePerOperation /\ ParentsAreCurrent

(* No replica ever refuses an event another one authored, whatever it      *)
(* already holds and whatever is still missing: a refused record would     *)
(* stop its pulls for good.                                                *)
NothingRefused ==
  \A r \in Replicas, i \in DOMAIN events :
    Accepts([j \in known[r] \cup {i} |-> events[j]])

(* What a replica has understood it never loses again.                     *)
ResolvedStays ==
  [][\A r \in Replicas :
       known[r] \ facts[r].pending \subseteq known'[r] \ facts'[r].pending]_vars

(* When everything was uploaded and pulled, in whatever order it came,     *)
(* nothing is pending and all replicas show the same vault.                *)
Converged ==
  (\A r \in Replicas : Unsent(r) = {} /\ cursor[r] = Len(relay)) =>
    \A r, s \in Replicas : facts[r].pending = {} /\ facts[r] = facts[s]

(* Replicas that receive the same events in any order, with any gaps,      *)
(* refuse none, lose nothing they understood, and end with one vault.      *)
ReplicasAgree == [](NothingRefused /\ Converged) /\ ResolvedStays
=============================================================================
