------------------------------ MODULE MCDraftWork ------------------------------
(***************************************************************************)
(* A small instance of DraftWork for TLC.                                  *)
(***************************************************************************)
EXTENDS DraftWork, TLC

CONSTANTS w1, w2

\* Of three units of scratch each phase needs two, and keeps them for the next.
TwoInEach == <<2, 2>>
SecondPhaseYields == <<0, 1>>

FirstDoesMost == w1 :> 3 @@ w2 :> 2 @@ Vault :> 1

\* Two things happen in any order, one at most of them in the second window;
\* the text a window has when it acts for the first time is its first.  When
\* two have left facts of the first window in the way, the second one asks, and
\* when it waits for these, something else happens.
Happens(x) == events'[x] > events[x]
TwoOrWaiting ==
  LET n == Total(events)
  IN  Total(events') > n =>
        /\ \A w \in Windows : events[w] = 0 => win'[w].revision = win[w].revision
        /\ n = 1 => events'[w2] < 2
        /\ n = 2 => /\ events[w1] = 2 /\ Happens(w2) /\ win'[w2].demanded
                    /\ FactsAreFull(core)
                    /\ win[w1].run = NoRun /\ win[w1].calls = {}
        /\ n = 3 => WaitsForSpace(w2) /\ win[w2].calls = {}

================================================================================
