------------------------------ MODULE FileVersions ------------------------------
(***************************************************************************)
(* What the staged upload of files promises: an operation either stores    *)
(* the whole content of its call on the version the call named, in one     *)
(* step, or ends without effect; either way it ends once.                  *)
(***************************************************************************)
EXTENDS Naturals, Sequences

CONSTANTS
  Operations,
  Entries,
  calls,      \* per operation: what its callers may have asked, the entry, the
              \* version of it they name (None to create it) and the content
  None

VARIABLES
  versions,   \* every version stored, oldest first
  head,       \* per entry: the number of its current version, or None
  outcome     \* per operation

absVars == <<versions, head, outcome>>

AbsInit ==
  /\ versions = <<>>
  /\ head \in [Entries -> {None, 0}]
  /\ outcome = [o \in Operations |-> "open"]

Store(o, e, c) ==
  /\ versions' = Append(versions, [by |-> o, entry |-> e, content |-> c])
  /\ head' = [head EXCEPT ![e] = Len(versions')]

AbsCommit(o) ==
  /\ outcome[o] = "open"
  /\ \E c \in calls[o] : head[c.entry] = c.expects /\ Store(o, c.entry, c.content)
  /\ outcome' = [outcome EXCEPT ![o] = "committed"]

AbsEnd(o) ==
  /\ outcome[o] = "open"
  /\ outcome' \in {[outcome EXCEPT ![o] = "rejected"], [outcome EXCEPT ![o] = "aborted"]}
  /\ UNCHANGED <<versions, head>>

AbsForeign(e) == Store(None, e, None) /\ UNCHANGED outcome

AbsUnrelated ==
  /\ versions' = Append(versions, [by |-> None, entry |-> None, content |-> None])
  /\ UNCHANGED <<head, outcome>>

AbsNext ==
  \/ \E o \in Operations : AbsCommit(o) \/ AbsEnd(o)
  \/ \E e \in Entries : AbsForeign(e)
  \/ AbsUnrelated

AbsSpec == AbsInit /\ [][AbsNext]_absVars
=============================================================================
