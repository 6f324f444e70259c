---------------------------- MODULE MCBinaryStage ----------------------------
(***************************************************************************)
(* Small instances of BinaryStage for TLC.                                 *)
(***************************************************************************)
EXTENDS BinaryStage, TLC

CONSTANTS f, o1, o2, o3, o4, o5, p1, p2, p3, p4, p5, p6, p7, p8

Calls(op, kind, expects, content) ==
  [op |-> op, kind |-> kind, entry |-> f, expects |-> expects,
   content |-> content, bytes |-> content]

(* A write of f, a process that repeats it, and one with other bytes.      *)
Retried == p1 :> Calls(o1, "inline", 0, <<1, 2>>)
        @@ p2 :> Calls(o1, "inline", 0, <<1, 2>>)
        @@ p3 :> Calls(o1, "inline", 0, <<1, 3>>)

(* Two windows import a file, one after it has changed; an inline call     *)
(* wants the same path.                                                    *)
Imported == p4 :> Calls(o2, "import", None, <<1>>)
         @@ p5 :> [Calls(o2, "import", None, <<1>>) EXCEPT !.bytes = <<2>>]
         @@ p6 :> Calls(o3, "inline", None, <<3>>)

(* Two imports, of which one may have a stage at a time.                   *)
Waiting == p7 :> Calls(o4, "import", None, <<1, 2>>)
        @@ p8 :> Calls(o5, "import", None, <<3>>)

AllCalls == Retried @@ Imported @@ Waiting

MCInit == \E callers \in {DOMAIN Retried, DOMAIN Imported, DOMAIN Waiting} : Starts(callers)
MCSpec == MCInit /\ [][Next]_vars /\ Repeats

(* One inline call.                                                        *)
Alone == p1 :> Calls(o1, "inline", 0, <<1, 2>>)
=============================================================================
