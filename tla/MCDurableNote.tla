----------------------------- MODULE MCDurableNote -----------------------------
(***************************************************************************)
(* Small instances of DurableNote for TLC.                                 *)
(***************************************************************************)
EXTENDS DurableNote, TLC

CONSTANTS c1, c2

Symmetry == Permutations(Clients)

(* One client alone with the world, or two clients of an ordinary note that*)
(* nobody else writes: each edits once and has two operations at most.     *)
Uses(c) == IsOpen(c) \/ ckpt[c] # None \/ edits[c] > 0
Together == \A c \in Clients : Uses(c)
OneOrTwo ==
  Together =>
    /\ ~managed /\ Written = 0
    /\ crashes + faults <= 1
    /\ \A c \in Clients : edits[c] <= 1 /\ late[c] = None /\ intent[c][3] = None
=============================================================================
