---------------------------- MODULE MCFamilyGraph ----------------------------
(***************************************************************************)
(* Small instances of FamilyGraph for TLC.                                 *)
(***************************************************************************)
EXTENDS FamilyGraph, TLC

CONSTANTS r1, r2, p1, p2, p3, p4, o1, o2, o3, n1, n2

(* One process per replica, or two.                                        *)
OneEach == p1 :> r1 @@ p2 :> r2
TwoEach == OneEach @@ p3 :> r1 @@ p4 :> r2

(* A draw returns the smallest or the largest identity still unused.       *)
Ends == [S \in SUBSET (1 .. MaxEvents) |->
          {i \in S : (\A j \in S : i <= j) \/ (\A j \in S : j <= i)}]

(* Folders with identities in the order of their drawing, or one binary    *)
(* file under one name.                                                    *)
Drawn == [i \in DOMAIN events \cup UNION {DOMAIN prepared[p].ev : p \in Open} |->
           IF i \in DOMAIN events THEN events[i]
           ELSE prepared[CHOOSE p \in Open : i \in DOMAIN prepared[p].ev].ev[i]]
FoldersOrOneFile ==
  \/ /\ \A i \in DOMAIN Drawn : Drawn[i].effect \notin {"create_binary", "set_content"}
     /\ \A i \in DOMAIN Drawn : 1 .. i \subseteq DOMAIN Drawn
  \/ /\ \A i \in DOMAIN Drawn : Drawn[i].effect # "create_folder"
     /\ Cardinality({Drawn[i].entry : i \in DOMAIN Drawn}) <= 1
     /\ Cardinality({Drawn[i].loc : i \in DOMAIN Drawn} \ {None}) <= 1

(* Either text files, one command at a time and two operations, or folders *)
(* and texts of one replica only, with its two processes inside commands   *)
(* and identities in the order of their drawing.                           *)
TextsOrOneAuthor ==
  \/ /\ Cardinality(Open) <= 1
     /\ Cardinality(UNION {DOMAIN receipts[r] : r \in Replicas}
                      \cup {prepared[p].op : p \in Open}) <= 2
     /\ \A i \in DOMAIN Drawn : Drawn[i].effect # "create_folder"
  \/ /\ Cardinality({Drawn[i].author : i \in DOMAIN Drawn}) <= 1
     /\ \A i \in DOMAIN Drawn : 1 .. i \subseteq DOMAIN Drawn

(* Operations are alike, and so are the replicas with their processes.     *)
Renamed == {f @@ g : f \in Permutations(Operations), g \in Permutations(Names)}
Swap == r1 :> r2 @@ r2 :> r1 @@ p1 :> p2 @@ p2 :> p1
Same == r1 :> r1 @@ r2 :> r2 @@ p1 :> p1 @@ p2 :> p2
Mirrored == {f @@ g : f \in {Same, Swap}, g \in Renamed}
Paired == {Same @@ p3 :> p3 @@ p4 :> p4, Swap @@ p3 :> p4 @@ p4 :> p3,
           r1 :> r1 @@ r2 :> r2 @@ p1 :> p3 @@ p3 :> p1 @@ p2 :> p4 @@ p4 :> p2,
           r1 :> r2 @@ r2 :> r1 @@ p1 :> p4 @@ p4 :> p1 @@ p2 :> p3 @@ p3 :> p2}
MirroredPairs == {f @@ g : f \in Paired, g \in Renamed}
=============================================================================
