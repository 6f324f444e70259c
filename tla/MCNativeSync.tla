----------------------------- MODULE MCNativeSync -----------------------------
(***************************************************************************)
(* A small instance of NativeSync for TLC.                                 *)
(***************************************************************************)
EXTENDS NativeSync, TLC

CONSTANTS r1, r2, p1, p2, p3

(* Two processes share the first replica.                                  *)
SharedHome == p1 :> r1 @@ p2 :> r1 @@ p3 :> r2

(* The first replica writes update 1, the second update 2.                 *)
TwoAuthors == <<r1, r2>>

(* The relay is restored only while the second process of the first        *)
(* replica is at rest, and that process stays at rest afterwards: the      *)
(* races of a restore with a sweep are left to one process per replica.    *)
AtRest(p) == sweep[p].at = "idle" /\ cred[p] = 1 /\ \A m \in sent : m.from # p
OneEachOnceRestored == epoch = 1 \/ AtRest(p2)
RestoreSpec == Init /\ [][Next /\ OneEachOnceRestored']_vars /\ Fairness
===============================================================================
