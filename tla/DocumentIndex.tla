--------------------------- MODULE DocumentIndex ---------------------------
(***************************************************************************)
(* The disposable cache that answers document queries                      *)
(* (crates/zorid-store/src/document_index.rs).  The vault's journal is the *)
(* authority: its length is the source watermark.  The cache holds         *)
(* generations: a generation is begun against one watermark, filled with   *)
(* one row per document over several calls, and published as the head in   *)
(* one transaction that checks that neither the watermark nor the head has *)
(* moved since.  Several processes open the same cache file, so each       *)
(* transaction below may find the work of another process.                 *)
(*                                                                         *)
(* Abstractions: a row is the journal position of the body it was          *)
(* extracted from (parsing, digests, text, exclusions are data); the set   *)
(* of documents does not change; byte limits and query pins are left out.  *)
(***************************************************************************)
EXTENDS Naturals, Sequences, FiniteSets, FiniteSetsExt

CONSTANTS
  Documents,            \* the files of the vault
  RetainedStages,       \* DOCUMENT_INDEX_RETAINED_STAGES
  RetainedGenerations,  \* DOCUMENT_INDEX_RETAINED_GENERATIONS
  PumpSlice             \* MAX_PUMP_DOCUMENTS

ASSUME RetentionAssumption ==
  /\ RetainedStages \in Nat \ {0} /\ RetainedGenerations \in Nat \ {0}
  /\ PumpSlice \in Nat \ {0}

VARIABLES
  journal,  \* the documents changed after the bootstrap entry, in order
  cache     \* the cache file: tables, epoch, allocated, head, generations

Source == Len(journal) + 1

\* The journal position of the body a document has at watermark s.
Revision(d, s) == Max({1} \cup {t \in 2..s : journal[t - 1] = d})

\* What capture_authority records: the revision of every document.
Manifest(s) == [d \in Documents |-> Revision(d, s)]

NoHead == 0
Empty == [n \in {} |-> n]

NoCache == [tables |-> "none", epoch |-> 0, allocated |-> 0, head |-> NoHead,
            generations |-> Empty]

\* A fresh control row: a new epoch, nothing allocated, nothing published.
FreshCache(c) == [tables |-> "sound", epoch |-> c.epoch + 1, allocated |-> 0,
                  head |-> NoHead, generations |-> Empty]

SnapshotOf(n) == [epoch |-> cache.epoch, generation |-> n]
NoSnapshot == [epoch |-> 0, generation |-> 0]
Generation(snapshot) == cache.generations[snapshot.generation]

IsThere(snapshot) == /\ snapshot.epoch = cache.epoch
                     /\ snapshot.generation \in DOMAIN cache.generations

----------------------------------------------------------------------------
\* Checks: "none" when they pass, else the error of the code.

ControlError == IF cache.tables = "sound" THEN "none" ELSE "RebuildRequired"

\* header_with_control: a missing descriptor of the live epoch counts as damage.
HeaderError(snapshot) ==
  CASE ControlError # "none" -> ControlError
    [] ControlError = "none" /\ snapshot.epoch # cache.epoch -> "SnapshotExpired"
    [] ControlError = "none" /\ snapshot.epoch = cache.epoch /\ ~IsThere(snapshot) ->
         "RebuildRequired"
    [] OTHER -> "none"

\* check_current_stage_fence of a stage h that is there.
FenceError(h) ==
  CASE h.published -> "StaleIndex"
    [] ~h.published /\ h.source # Source -> "StaleSource"
    [] ~h.published /\ h.source = Source /\ h.expected # cache.head -> "StaleIndex"
    [] OTHER -> "none"

Descriptor(g) == [expected |-> g.expected, source |-> g.source, published |-> g.published]

\* header, then check_current_stage, in one read transaction.
StageError(snapshot) ==
  IF HeaderError(snapshot) # "none" THEN HeaderError(snapshot)
                                    ELSE FenceError(Generation(snapshot))

\* matching_stage_control, then the fence: the write transaction's recheck.
RecheckError(snapshot, h) ==
  CASE ControlError # "none" -> ControlError
    [] ControlError = "none" /\ ~IsThere(snapshot) -> "SnapshotExpired"
    [] ControlError = "none" /\ IsThere(snapshot) /\ Descriptor(Generation(snapshot)) # h ->
         "StaleIndex"
    [] OTHER -> FenceError(h)

----------------------------------------------------------------------------
\* The contents of the cache after each transaction that changes it.

\* prune: only the newest `retain` generations of one kind stay.
Pruned(gens, published, retain) ==
  LET kind == {n \in DOMAIN gens : gens[n].published = published}
      kept == {n \in kind : Cardinality({m \in kind : m > n}) < retain}
  IN  [n \in (DOMAIN gens \ kind) \cup kept |-> gens[n]]

\* Mistake: the control row does not count the new generation.
StageUncounted(c) ==
  LET g == [expected |-> c.head, source |-> Source, published |-> FALSE, rows |-> Empty]
  IN  [c EXCEPT !.generations =
         [m \in DOMAIN @ \cup {c.allocated + 1} |-> IF m \in DOMAIN @ THEN @[m] ELSE g]]

WithStage(c) ==
  LET n == c.allocated + 1
      g == [expected |-> c.head, source |-> Source, published |-> FALSE, rows |-> Empty]
      all == [m \in DOMAIN c.generations \cup {n} |->
                IF m = n THEN g ELSE c.generations[m]]
  IN  [c EXCEPT !.allocated = n, !.generations = Pruned(all, FALSE, RetainedStages)]

Without(c, n) ==
  [c EXCEPT !.generations = [m \in DOMAIN @ \ {n} |-> @[m]]]

WithRows(c, n, rows) ==
  [c EXCEPT !.generations[n].rows =
     [d \in DOMAIN @ \cup DOMAIN rows |-> IF d \in DOMAIN rows THEN rows[d] ELSE @[d]]]

WithHead(c, n) ==
  LET shown == [c.generations EXCEPT ![n].published = TRUE]
  IN  [c EXCEPT !.head = n, !.generations = Pruned(shown, TRUE, RetainedGenerations)]

----------------------------------------------------------------------------
\* What the read transactions answer.

Missing(g) == Documents \ DOMAIN g.rows

\* The generation a pump may take rows from: the head its stage expects.
Previous(h) ==
  IF h.expected = NoHead THEN [snapshot |-> NoSnapshot, source |-> 0]
  ELSE [snapshot |-> SnapshotOf(h.expected), source |-> cache.generations[h.expected].source]

\* Mistake: any row of the head is taken over.
ReusedBlindly(previous, h, d) == previous.snapshot # NoSnapshot

\* A row is taken over when the document's metadata did not change in between.
Reusable(previous, h, d) ==
  /\ previous.snapshot # NoSnapshot
  /\ Revision(d, previous.source) = Revision(d, h.source)

\* The read transaction of one document: its own fence, then the row to reuse.
ReadError(previous, h, d) ==
  CASE h.source # Source -> "StaleSource"
    [] h.source = Source /\ Reusable(previous, h, d) /\ ~IsThere(previous.snapshot) ->
         "RebuildRequired"
    [] OTHER -> "none"

RowFor(previous, h, d) ==
  IF Reusable(previous, h, d) THEN Generation(previous.snapshot).rows[d]
                              ELSE Revision(d, Source)

\* recover_document_index_stage: the newest stage that passes its fences.
Usable == {n \in DOMAIN cache.generations : FenceError(cache.generations[n]) = "none"}

\* index_status in the transaction that reads the watermark.
Observation ==
  LET shown == cache.tables = "sound" /\ cache.head # NoHead
      there == shown /\ IsThere(SnapshotOf(cache.head))
  IN  [source |-> Source,
       head |-> IF there THEN SnapshotOf(cache.head) ELSE NoSnapshot,
       current |-> there /\ cache.generations[cache.head].source = Source,
       rebuild |-> cache.tables = "broken" \/ (shown /\ ~there)]

\* discard_document_index_stage: only an unpublished stage is removed.
DiscardError(snapshot) ==
  IF ControlError # "none" THEN ControlError
  ELSE IF /\ snapshot.epoch = cache.epoch
          /\ snapshot.generation = cache.head
          /\ ~(IsThere(snapshot) /\ Generation(snapshot).published)
       THEN "RebuildRequired" ELSE "none"

Discarded(snapshot) ==
  IF IsThere(snapshot) /\ ~Generation(snapshot).published
    THEN Without(cache, snapshot.generation) ELSE cache

----------------------------------------------------------------------------
\* What a query may rely on.

\* A published generation is whole and every row of it is the row of the body
\* the document had at the generation's watermark, whichever processes pumped
\* it and whatever was reused; the head is one of them and the newest, and no
\* more generations are kept than the limits allow
\* (document_index.rs:1452-1640, 1939-1966).
ServesWholeDocuments ==
  LET gens == cache.generations
      shown == {n \in DOMAIN gens : gens[n].published}
  IN  /\ \A n \in shown : gens[n].rows = Manifest(gens[n].source)
      /\ IF cache.head = NoHead THEN shown = {} ELSE cache.head = Max(shown)
      /\ Cardinality(shown) <= RetainedGenerations
      /\ Cardinality(DOMAIN gens \ shown) <= RetainedStages

\* Within one epoch a query is never sent back to an older state of the vault:
\* the head moves only to a generation that is at least as new as the one it
\* replaces and that covered the whole journal when it was published
\* (document_index.rs:777-830, 1939-1966).
HeadAdvances ==
  cache'.epoch = cache.epoch /\ cache'.head # cache.head =>
    LET new == cache'.generations[cache'.head]
    IN  /\ new.source = Source
        /\ cache.head # NoHead => new.source >= cache.generations[cache.head].source

NeverGoesBack == [][HeadAdvances]_<<journal, cache>>
=============================================================================
