------------------------- MODULE MCDocumentRuntime -------------------------
(***************************************************************************)
(* Constants for the runs of DocumentRuntime.                              *)
(***************************************************************************)
EXTENDS DocumentRuntime

CONSTANTS host, watcher, client, d1, d2

\* One disturbance of any kind.
OneEach == [k \in Disturbances |-> 1]

\* Nothing goes wrong; the watcher runs some cycles.
OnlyCycles == [k \in Disturbances |-> IF k = "cycle" THEN 3 ELSE 0]
=============================================================================
