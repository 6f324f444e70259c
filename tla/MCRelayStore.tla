----------------------------- MODULE MCRelayStore -----------------------------
(***************************************************************************)
(* Small instances of RelayStore for TLC.  The sets are of model values;   *)
(* the one CHOOSE over them, of the live file of an epoch, has a single    *)
(* candidate.  Permuting a set therefore maps behaviours to behaviours.    *)
(***************************************************************************)
EXTENDS RelayStore, TLC

Symmetry ==
  Permutations(Files) \cup Permutations(Tokens) \cup Permutations(Epochs)
    \cup Permutations(Updates) \cup Permutations(Wires)

Contents == {db[f] : f \in Files} \cup {job[o].db : o \in {q \in Operators : job[q] # None}}

(* Bounds of the run.  Either nothing has a vault yet, and two operators   *)
(* copy and restore the devices and their tokens ...                       *)
OnlyTokens == \A content \in Contents : content.vaults = {}

(* ... or one operator copies the log, of files whose accounts, vaults and *)
(* devices are there and may write.                                        *)
OneOperator ==
  /\ Cardinality({t \in Tokens : issuer[t] # None}) <= 2
  /\ Cardinality({o \in Operators : job[o] # None}) <= 1

CopiesAreProvisioned ==
  \A f \in Files :
    /\ db[f].vaults # {} => db[f].accounts # {}
    /\ \A d \in Devices : db[f].owner[d] # None => db[f].vaults # {}
    /\ \A a \in Accounts, v \in Vaults :
         /\ db[f].access[a][v] # "read"
         /\ db[f].access[a][v] = "write" =>
              \E d \in Devices : db[f].owner[d] # None
    /\ \A o \in Operators : job[o] # None =>
         \A a \in Accounts, v \in Vaults : job[o].db.access[a][v] = "write"

TokensOrLogs == OnlyTokens \/ (OneOperator /\ CopiesAreProvisioned)
===============================================================================
