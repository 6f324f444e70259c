# Verification of Zorid

TLA+ models of the parts of Zorid that must not lose or confuse a user's
writing: the relay's store, the sweeps that carry updates between replicas, the
graph of entries the replicas agree on, the path of an edit from the editor to
the vault and from the vault to the user's file and back, the staged uploads of
binary files, the index that answers queries and the analysis of what is being
typed. TLC checks them on small instances. Every safety invariant, action
property and refinement that a run checks and that holds is also proved, for every
size, with TLAPS; liveness is model-checked only.

Paths below are relative to the root of the repository, crates to `crates/`.

## 1. The system

Zorid keeps a vault of notes on each device. The core is written in Rust
(`zorid-core`, `zorid-store`, `zorid-native`); desktop, browser and mobile hosts
drive it; an editor (`src/`) runs in the host. Devices exchange encrypted
updates through a relay that cannot read them.

    editor (src/ui) --checkpoints, intents--> host (desktop/, src/platform)
        host --commands--> vault (zorid-native, zorid-store: one SQLite file)
            vault --projection--> files of the user <--edits-- other programs
            vault --sealed updates--> sweep (zorid-native-sync)
                sweep --Hello, Append, Pull--> relay (zorid-sync-server)

| component | state | operations | hard behaviour | what makes it correct |
|---|---|---|---|---|
| relay store (`zorid-sync-server`) | accounts, devices, vaults, access, one log per vault, an epoch per file | provisioning, credentials, append, pull | retries of an append whose answer was lost; several files served at once | a position a client was told of never changes; one position per update |
| relay snapshots (`snapshot.rs`) | staging file, published file | backup, restore | the relay runs on meanwhile; two jobs; a crash before publication | no file replaced; no revoked credential revived; a restored file is a new epoch |
| sweep (`zorid-native-sync`) | in-memory cursor, list of pending updates, page | connect, seal, push, acknowledge, pull, receive | several processes on one vault, no lock over a request, crashes anywhere, relay restored | every update arrives, in order, once, with one ciphertext |
| envelope ledger (`zorid-store/family_*`) | authored intents, envelopes, receive cursor | insert, seal, acknowledge, receive | sealing spans two transactions; duplicates | the cursor covers what it passed; accepted means committed |
| host intents (`zorid-store/host_intents.rs`, `desktop/durable-writes.cjs`) | one row per operation: prepared, commit_requested, committed, rejected, acknowledged | prepare, commit, query, acknowledge | a lost answer at every step; a host that dies between authorising and applying | every write happens at most once and is settled in the end |
| checkpoints (`zorid-store/checkpoints.rs`) | a head per client and note | compare-and-swap | lost answers, calls of a dead session | what is checkpointed is never older than what is authorised |
| durable note (`src/ui/note-durable-state.ts`) | draft, baseline, conflict, operation, uncertain checkpoint | load, update, flush, resume, reload, refresh, recovery copy | the user types during every await; crashes; other writers | no typed text is lost; nobody else's change is undone |
| file causal graph (`zorid-file-sync`) | set of entry events | plan_received, insert, derive_graph | events out of order, with gaps, concurrent moves and deletes | the view is a function of the set of events |
| projection and external edits (`zorid-store/projection.rs`, `zorid-native/native.rs`) | projection attempts, baselines, bindings, observations | begin, stage, displace, publish, finish, cancel, observe, import | a crash between publishing a file and recording it; an editor between any two renames | no external edit lost; an own file never taken for a foreign one |
| document index (`zorid-store/document_index.rs`) | one cache file: generations, head, epoch | initialize, begin, pump, publish, discard, recover, rebuild | several processes on one cache; the vault commits between two transactions | a published generation is whole and never older than the one before |
| document runtime (`zorid-index/document_runtime.rs`) | per owner: observation, stage, pending effect, cycle, requests | reduce, execute, wake, hint, request, retire | demand that arrives during an effect; failures, budgets, lost owners | an answer is as new as its question; the index catches up |
| draft analysis (`zorid-index/draft_runtime.rs`, `document_draft_executor.rs`, `document_work_runtime.rs`, `src/ui/document-draft-projection.ts`) | jobs, buffers, a queue, one effect; per window its run, slots and leases | upload, pump, settle, read, cancel, acknowledge, observe, release | newer texts, lost calls and closing windows at any moment; two lanes that share one worker | facts are about the text they are shown with; nothing is held that is not charged; everything left behind is dropped |
| binary stages (`zorid-store/blob_stage.rs`, `binary_commit.rs`) | stages, chunks, commit plans | begin, append, seal, bind, authorize, prepare, publish, abort, reject | a call that dies between two transactions and is repeated; the file changes meanwhile | a call stores its whole content once, on the version it named, or nothing |
| client admission (`zorid-native/client_admission.rs`, `desktop/client-*.cjs`, `src/platform/browser-client-*.ts`) | lock file, Web Lock, slot | claim, verify, release | a process dies or its lock file is replaced | one owner per client slot |
| browser core and sync (`src/core/browser-*`) | IndexedDB stores, worker | the sweep and the store again | tabs, worker restarts | as the native sweep |
| managed records (`zorid-records`) | collections, schemas, lineages | admission, intents | concurrent schema changes | values fit the schema they were admitted under |
| recovery (`zorid-recovery`) | history snapshots | record, list, restore | retention while saving | a restore is a new write |

`PROJECT.json` lists every component, also those without protocol state (the
CRDT wrapper, cryptography, parsing, the query engine, bindings, the UI), each
with the reason it is not modelled.

## 2. The modules

| module | models | its state in the code |
|---|---|---|
| `RelayLog` | what the relay promises: append-only logs, one per epoch, a new epoch starting from a prefix of an older one | abstract |
| `RelayStore` | `RelayStore` of `zorid-sync-server/src/lib.rs` and `snapshot.rs` | `db`: rows of one SQLite file; `kind`: its `application_id`; `job`: a `PreparedSnapshot`; `issuer`, `drawnEpochs`, `observed`: history of what was drawn and answered |
| `RelayStoreProofs` | theorems about `RelayStore`, among them that it implements `RelayLog` | |
| `VaultDelivery` | what synchronization promises the replicas: updates are created once, ordered by the relay, taken in order | abstract |
| `NativeSync` | `once()` of `zorid-native-sync/src/lib.rs`, the ledger of `zorid-store` and the relay as its environment | `sweep`: locals of `once`; `authored`, `ledger`, `cursor`: tables of the vault; `log`, `epoch`: the relay; `sent`: requests under way |
| `NativeSyncProofs` | theorems about `NativeSync` | |
| `DurableNote` | `DurableNoteState`, the checkpoints and the intents of one note | `mem`: the object in the editor; `task`: where its promise queue is; `ckpt`: the checkpoint head; `intent`: rows of `host_intents`; `history`: revisions of the note |
| `DurableNoteProofs` | theorems about `DurableNote` | |
| `CausalGraph` | `zorid-file-sync`: the view of a set of events, the planners of commands | none: operators, among them a derivation step by step and a declarative reference |
| `FamilyGraph` | the events of several replicas, the rows each keeps beside them and the commands of its processes (`family_commands.rs`, `family_indexed.rs`, `family_metadata_transactions.rs`) | `known`, `facts`, `receipts`: tables of a vault; `prepared`: a command between its two transactions; `relay`, `cursor` |
| `FamilyGraphProofs` | theorems about `CausalGraph` (the past of an event, the maps that the rows are) and about `FamilyGraph` (the invariant and what follows from it) | |
| `FileVersions` | what a staged upload promises: an operation stores its whole content once on the version it named, or ends without effect | abstract |
| `BinaryStage` | `blob_stage.rs` and `binary_commit.rs` with their callers: the inline adapter and the importer of the desktop host | `stages`, `plans`: rows; `log`, `heads`: the graph as the sequence of what was committed; `proc`: locals of a call |
| `BinaryStageProofs` | theorems about `BinaryStage`, among them that it implements `FileVersions` | |
| `PublicationJournal` | `resume()`, `recover_locked()` and the observation of one text file of `zorid-native/native.rs`, over `projection.rs` and `family_observations.rs` | `desired`, `base`, `active`, `settled`, `seen`: tables; `dest`, `stage`, `previous`, `text`: names and inodes; `run`: locals of the call; `handle`, `buffer`: an editor's open file and the text it works on; `owed`, `removed`, `raced`: history of what editors wrote and left out |
| `PublicationJournalProofs` | theorems about `PublicationJournal` | |
| `DocumentIndex` | the transactions on the index cache | `journal`: the vault's changes; `cache`: the cache file |
| `DocumentRuntime` | the reducer that keeps the index current, with the adapters that execute its effects and the hosts that drive it | `owners`: one `DocumentRuntime` each, with the locals of an effect under way; `asked`, `answers`: requests of clients |
| `DocumentRuntimeProofs` | theorems about `DocumentRuntime` and the cache | |
| `DraftJobs` | the reducer of draft analysis, `draft_runtime.rs` | none: operators on the state of a `DraftRuntime` |
| `DraftWork` | the host that executes its effects, the turns of the two lanes, and the windows that ask for facts | `core`: `DraftRuntime`; `work`: `DocumentWorkRuntime` and its scheduler; `handles`: the jobs of `DocumentDraftExecutor`; `index`: the other lane; `win`: a `DocumentDraftProjection` each |
| `DraftWorkProofs` | theorems about `DraftWork` and the reducer | |
| `MC*` | instances for TLC | |

How the code maps to actions:

* A transaction of SQLite is one action. An operation of several transactions
  (`family_seal`, `backup_to`, `restore_new`, `commit_host_intent`) has an
  action for each.
* A call between processes is a request and an answer, so either can be lost
  and the caller can die in between. In `NativeSync` a request is a member of
  `sent`; in `DurableNote` the host's step is enabled by the caller's and the
  caller's next step by the host's result.
* An error return that changes nothing is the negation of a guard. One that ends
  a sweep or a task is an action (`Finish`, `Throws`).
* Data is named by its origin: a ciphertext by the process that sealed it, a
  part of a text by who wrote it and when. Equality of bytes is equality of
  names. Encryption, hashing and encoding do not appear.
* An operator that starts with the comment "Mistake:" is a bug that the code
  does not have. `PROJECT.json` pairs it with the property that finds it.

`RelayStore` implements `RelayLog` (property `KeepsPromise`): a vault's log in
an epoch is that of the live file of this epoch. `NativeSync` implements
`VaultDelivery` (`DeliversInOrder`): an update is held when the ledger or the
authored intents have it. In `NativeSync` the relay is the log that `RelayLog`
promises; what that leaves out (tokens, access) is in `RelayStore`.

### RelayStore

Several live files may be served, so every operation names its file: that is
what makes "a credential works at the file that issued it" (`TokensStayHome`)
say something. `observed` collects every position that a receipt or a page told
a client, and `PositionsAreStable` compares it with all later files of that
epoch. A backup is no relay; a restore draws a new epoch and revokes every
device, and both are published by `hard_link`, which replaces nothing.

### NativeSync

A replica is one database, a process one running host or CLI on it. `vault.lock`
serialises store calls between native hosts (`zorid-native/src/fs.rs`); the
model does without it, so its results do not depend on that lock. `Abort` ends
a sweep anywhere and stands for a crash, an expired deadline and a lock that
timed out. A request outlives its sweep: the relay may still handle it.
`RestoreRelay` replaces the relay by a prefix of any earlier log under a new
epoch. The plaintext of an update and what a replica does with it afterwards
are not modelled.

### DurableNote

A task of the queue (`queue()`) is a sequence of steps; `task[c].at` is the next
one. Typing is enabled between any two of them, since every `await` returns to
the event loop. `persist()` is `Persist`, the host's `CompareAndSwap` and
`Swapped`; a call that fails leaves the checkpoint `uncertain`, and the next
`persist()` repeats exactly that one first. `resume()` goes through prepare,
query, commit, reconcile and acknowledge with a checkpoint between each two.
`Load` is the editor's load, with `deferRecovery` (`src/ui/note-buffer.ts` 305-312):
the user can type at once, and an operation whose reference was checkpointed is
resumed by the first task of the queue (`startLoadRecovery`). If that task fails for
good, the session is `terminal` (`sourceRecoveryTerminal`): from then on every
`persist()` and `flush()` throws, until the note is closed and opened again. What a
supervisor repeats of it (`note-load-supervisor.ts`) is not a failure.
With `Managed`, the note is an entry of a collection and `Composes`/`Composed`
stand for `composeText`: the vault replaces the generated front of what the
user submits, and `CanonicalDraft` merges the result into what was typed
meanwhile. `World` is everybody else who writes the note: the file scanner,
another device, a property control.

### CausalGraph and FamilyGraph

An event names the events it follows (`parents`), the event that created its
entry and an effect. `CausalGraph` derives from a set of events the heads of an
entry, the winner among concurrent moves, the published path and the pending
events, as `derive_graph_with_status` does; beside it stands a reference that
states the result without following the code, and `FactsMatchReference`
compares the two on every reachable set. `FamilyGraph` lets replicas author and
exchange events. A command is `Prepare*` in a read transaction and `Commit` in a
later one. Identities are random, and a replica uploads in the order of the
identities: `Draws` picks which of the unused identities a draw may return.
The indexed path (create, write) rewrites one row; a move, a deletion and an
arriving event derive the whole graph again. That both leave the same rows is
what `FactsMatchReference` checks too. `saw`, `author` and `op` of an event are
history.

### BinaryStage

Every action is one transaction, or several reads next to each other. A call is
`inline` (its bytes are in the mutation; it is repeated as a whole) or `import`
(a file read chunk by chunk, which may change between two attempts). `told`
collects what callers learned. An inline call asks for its outcome first, binds
its operation to a version, appends what the stage still lacks, seals in two
transactions, authorizes against a cut of the graph and publishes. The number
of attempts after which `apply_inline_binary` gives up is left out: a call that
gives up is a call that dies.

### PublicationJournal

A call holds the vault lock from its first step to its last; the editor takes no
lock and acts between any two steps, also through a handle to a file that was
displaced. A text is the set of its edits, so the text merge is a three-way
merge of sets. An editor works on a `buffer`: `Open` reads it, and what `WriteHandle`
and `Replace` write is this buffer and one edit more, whatever reached the file
meanwhile; so an older text can be saved over a newer publication. `owed` are the
edits of editors that no editor took out again, and `NothingLost` follows them;
`removed` are the edits of anybody that an editor left out of a file it wrote over,
deleted, or made where the application had just moved one away. `Unlink` compares
the displaced file for the last time and `Remove` unlinks it: no system call does
both (`zorid-native/fs.rs` 304-308), and what is written to the file between the two
is in `raced`. What the model shows beside its properties: if a process dies between the rename that displaces
the file and the one that publishes the new one, and the displaced file was
changed, recovery captures that file and puts it back; if another file has taken
the path meanwhile, it answers Busy until somebody resolves the observation.

### DocumentIndex and DocumentRuntime

Several owners share one cache: the desktop host keeps one owner, the watcher
makes one per cycle and drops it at the first yield. An owner has one effect
pending; `Reduced` is one call of `reduce` (settle, then plan the next effect).
An effect of several transactions (pump, publish) and an observation, which
reaches the reducer later in the browser, have an action for each part. A row is
the journal position of the body it was extracted from, so a stale row is
visible. `rebuild_latched` is cleared by a current observation only: a rebuild
that fails on a damaged cache, or a second damage before the index is current,
leaves a long-lived owner failing at every wake until it is replaced or a client
forces a rebuild. `CatchesUp` is therefore claimed for one disturbance.

### DraftJobs and DraftWork

A window has one note. It uploads a text under a lease, waits for the outcome,
reads the facts and acknowledges; a newer text supersedes the older one on both
sides. Every call is sent, executed by the host at once and answered later, so
that the window has moved on when the answer comes, and any call may fail. The
operators of `DraftJobs` take the state of the reducer and return it, because
`document_draft_executor.rs` changes it together with what it holds: `core` says
what a job is charged, `handles` what the host has in memory for it. The host
runs one effect at a time. It serves the drafts and the document index in turns
(`Turn`), and `index` is all that this module knows of the other lane. Where the
code goes through several jobs, slots or leases in a loop, the operators take the
set of them (`Stopped`, `RetireSlots`, `ReleaseLeases`): what the loop does to one
does not depend on the others.

## 3. What TLC checks

| run | question | bounds |
|---|---|---|
| `relay_small` | positions, receipts, credentials under copies and restores, refinement of `RelayLog` | 3 files, 2 operators, 2 epochs, 3 tokens, 2 updates with 2 possible ciphertexts |
| `sync_races` | two processes on one replica, one on another; every update arrives though no sweep finishes the work; the relay restored once | 2 updates, 1 upload and 1 page of 1 entry per sweep, 1 fault, 2 epochs, one process per replica after the restore |
| `note_safety` | saves, recovery copies, reloads and restarts of a note, ordinary or managed; two clients on one revision | 1 client with 2 edits or 2 clients with 1 each, 1 foreign write, 3 operations, 1 crash, 1 fault |
| `note_settles` | drafts and intents settle, or the note shows that its recovery failed and goes on when it is opened again | 1 client, as above, no checkpoint outliving its session; closing a note whose recovery failed is not counted as a crash |
| `graph_notes` | texts on two replicas, or two processes inside commands on one | 4 events, 2 entries, 3 operations, 1 name |
| `graph_shapes` | folders nested into each other, or one binary file written and deleted concurrently | 4 events, 2 entries, 2 names, 1 command open |
| `stage_calls` | repeated and contradicting inline calls, imports of a changing file, two imports for one active stage | 8 processes in 3 groups that do not meet, 5 operations, 1 foreign commit, 1 crash, 1 cancellation |
| `stage_inline_ends` | finding: an inline call that died between the two transactions of its seal never ends | 1 process, 1 crash |
| `publication` | commits, an editor and a crash around one file | 2 commits and 2 acts of the editor, at most 3 together, 1 crash; the editor may read the file at any time |
| `documents` | a host and a watcher on one index | 2 documents, 1 change, 1 request, 1 disturbance of any kind |
| `drafts` | two windows and the index compete for one host | 2 phases, 2 events of any kind in any order (a new text or demand, a lost call, a window or the vault closing), full scratch and facts; 4 events where one window waits for the facts of the other |
| `documents_rebuild` | finding: an undamaged index is rebuilt | as before, 3 cycles of the watcher |

Why the bounds are enough to meet the interesting cases:

* A race needs two processes on a database and a third, elsewhere, to see its
  result; two updates suffice to skip or swap one.
* One restore lets a cursor, a page and a request of the first epoch arrive in
  the second; `RestoreSpec` lets it happen only while the second process of the
  shared replica is at rest. A sweep of this run uploads one update and takes one
  page of one entry, and a replica has no second update of its own: a second page with
  the bound of the first, and a `max_push` that leaves updates for the next sweep,
  are covered by the theorems of `NativeSyncProofs` only, which have no bound.
* Three files are an original, its backup and what is restored from it; two
  operators prepare for the same path. `TokensOrLogs` (a state constraint)
  lets either the logs or the credentials of a run grow: no definition relates
  an entry of a log to a credential beyond the append that needs one.
* Two edits let the user type before a save and during it; three operations let
  one be committed, one rejected and one retried; a foreign write comes before
  or after the plan of a save. One fault and one crash can fall at every step,
  and together they lose an answer and then the session.
* Four events are the creation of two entries and two changes that conflict:
  two moves (into each other, or to one path), a write and a deletion, two
  writes. `TextsOrOneAuthor` and `FoldersOrOneFile` keep the cases apart: with
  texts both replicas author; with two processes inside commands one does.
* In `stage_calls`, `call` fixes what every process asks; the groups work on
  different entries or start from different initial states, and each is a
  question of its own: a repetition in another process, other bytes under the
  same operation, a source that changes, a path that is taken, a full quota.
* A stage of two documents is pumped in two slices, so that a change, another
  owner or a fault comes between; two retained stages and generations let one
  be pruned.
* In `drafts` a job that has gone through a phase leaves too little scratch for the
  phase of another or for the sealing of its upload, and one result fills the
  memory for facts. Two events meet in every combination, the second window having
  one at most. A third one is added (`TwoOrWaiting`, an action constraint) where the
  first two left facts in the way that nobody acknowledged: the second window asks
  and waits for space. Then a fourth one is added: a newer text, the end of a
  window or of the vault, another lost call. A window that acts for the first time
  does so with its first text; whether that text has changed before makes no
  difference. `DraftWorkProofs` has no bound.
* The symmetry sets permute model values that no definition tells apart; the
  runs with liveness use none.

The properties, by hazard:

* **A lost answer.** `ReceiptsHold` and `OneCiphertext`: a repeated upload is
  answered with the first receipt, whatever is restored meanwhile, and nobody
  ever has two ciphertexts of an update. `IntentsAreCheckpointed`: the order
  that the comment in `src/core/durable-writes.ts` demands ("Persist plan BEFORE
  prepare; persist returned ref BEFORE commit; reconcile and persist settled
  outcome BEFORE acknowledge") is kept, stated over the vault's rows and the
  durable checkpoint and not over the steps. `CommandsTakeEffectOnce` and
  `StoresFiles`: a repeated command or upload has one effect; `ToldTheOutcome`:
  nobody was told another one.
* **A skipped entry.** `CursorCoversLog`, `DeliversInOrder`.
* **A restored relay.** `ReceiptsHold`, `AcceptedIsLogged`, `TokensStayHome`,
  `RevocationIsFinal`.
* **A lost or undone edit.** `DraftSurvives` follows what the user typed through
  saving, merging, crashing and reopening until it is in the history or in a
  recovery copy. `NoSilentRevert` says that no save brings back a part somebody
  replaced and no operation writes twice. `NothingLost` follows an edit of an
  external editor until an editor removes it, except what is written to a displaced
  file after its last comparison. `EditsSurvive` says whose edits an import may take
  out of the text: only those that an editor left out of a file that had them. An
  edit that was not published yet, or was published after the editor's save, stays. `ChangesSurvive`: a deletion takes along only what its author
  had seen, a concurrent content stays a head.
* **Disagreeing replicas.** `ReplicasAgree`: who has the same events shows the
  same vault, refuses nothing and never loses what it had understood.
  `FactsMatchReference`; `NamespaceIsKept` says that the common view is a tree
  with one entry per path and that a command never moves the entry of somebody
  else.
* **Planned on one state, applied to another.** `CommandsTakeEffectOnce` (an
  event follows the heads of the moment it is stored), `StoresFiles`,
  `ServesWholeDocuments`, `NeverGoesBack`, `AnswersAreFresh`; `FactsAreExact`:
  facts shown to a user belong to the text on the screen.
* **A limit that is charged for what is gone, or not charged for what is
  held.** `HoldsWhatIsCharged`.
* **A crash between two steps.** `ConflictsAreReal`: without an editor no crash
  makes the vault take its own file for somebody's.
* **Never finishing.** `EveryUpdateArrives`, `SavesSettle`, `ImportsEnd`,
  `FileSettles`, `CatchesUp`, `DraftsEnd`. `DraftsEnd` allows a window to wait for
  the facts that another one holds without having acknowledged them, as the comment
  at `zorid-index/src/draft_runtime.rs` 639 does, and not longer than it holds them.

### Fairness

* `NativeSync`: a started sweep goes on and a request the relay has received is
  handled, because every call has a deadline. Sweeps are started again: after a
  success or a transport error by `watch.rs`, after an error it stops on
  (`sync_conflict` is not retried, `zorid-cli/src/watch.rs` 72-77) by whoever
  runs the host again. `EveryUpdateArrives` is claimed while the relay is not
  restored: the code has no action yet that rejoins a replica to a new epoch
  (`zorid-store/src/family_store.rs` 303-305 leaves it to "a separate future
  action").
* `DurableNote`: the host answers a call, a closed note is opened again, and the
  user flushes a dirty note again. The last is strong fairness and an
  assumption about the user: autosave does not repeat a save that failed
  (`src/ui/note-buffer.ts` 224-233). Strong, because other tasks take turns
  with the flush in a first-in-first-out queue. Faults and crashes are bounded,
  nothing else is assumed about them. A note whose recovery failed is not flushed;
  what opens it again is the user, who closes it (`Crash`), and no fairness makes
  him: `SavesSettle` counts the failure that is shown as an outcome. Weak fairness is on all steps of a task
  and the host together; a task has one step to take at a time.
* A checkpoint call that arrives after its session died (`Lates`) makes the next
  session's calls fail until the note is opened again. The desktop host handles
  calls in the order it got them (`desktop/rust-vault-service.cjs` 489-504),
  which excludes it; the run `note_safety` allows it nevertheless, `note_settles`
  does not.
* `BinaryStage`: a caller goes on with its call and repeats a call that ended
  without an outcome, as the importer (`staged_import.rs`) and the user of an
  inline mutation do. `stage_inline_ends` assumes the same and fails.
* `PublicationJournal`: the process that holds the lock goes on, and the watcher
  or the next start reconciles the file again and again (strong, since other
  calls take the lock in between). Crashes and the editor are bounded.
* `DocumentRuntime`: a host executes the effect it issued and, at rest, is
  continued or woken by its timer of 30 seconds
  (`zorid-desktop-host/src/document_runtime.rs`). Nothing is assumed of the
  watcher, of hints or of clients.
* `DraftWork`: the event loops of host and windows run what is ready, and a
  call that was sent is executed and answered. Observations can go on for ever,
  so that each kind of step of a window has its fairness of its own. Users, the
  index, losses and closing windows owe nothing.

## 4. What is proved

`NativeSyncProofs` proves for all sets of replicas, processes and updates, all
limits, page sizes and epochs, and any number of faults:

| theorem | states |
|---|---|
| `TypesHold` | `Spec => []TypeOK` |
| `OneCiphertextEverywhere` | `Spec => []OneCiphertext` |
| `EntriesAreReceivable` | `Spec => []EveryEntryReceivable` |
| `CursorsCover` | `Spec => []CursorCoversLog` |
| `AcceptanceIsCommitted` | `Spec => []AcceptedIsLogged` |
| `SweepsDeliver` | `Spec => DeliversInOrder`, the refinement of `VaultDelivery` |

Assumptions: those of `NativeSync` on its constants (`ConstantsAssumption`,
`NoneAssumption`). They are types, that `None` is no value, that a process works
on one replica and that an update has one author. The last is the freshness of
the random identity the author draws.

None of these properties is inductive. That a replica never meets a second
ciphertext of an update depends on where the ciphertexts come from, and so does
everything else. The invariant `IInv` says it in eleven parts: bytes that are
held, uploaded, requested or in a log were first stored by their author
(`Held`, `Uploading`, `Requested`, `Published`), whose ledger row never changes
once it is written (`install_sealed` keeps what it finds); an acknowledgement in
hand or on record was preceded by a commit (`Acknowledged`), which needs that a
request is awaited by the one process that sent it (`Working`, `Waiting`);
and the rest of a page is what follows the in-memory cursor in the log of the
credential's epoch (`Paged`), which is why a stale cursor cannot skip an entry:
`compare_cursor` refuses it before it is used. `Present` keeps epochs that have
not begun empty. `OneCiphertext` and `EveryEntryReceivable` follow from "stored
by the author first", and the refinement from the invariant together with what
each action does to the logs and ledgers (`RowSteps`, `LogGrows`, `PlaceSteps`).

`RelayStoreProofs` proves for all sets of files,
operators, accounts, devices, vaults, tokens, epochs and updates:

| theorem | states |
|---|---|
| `TypesHold` | `Spec => []TypeOK` |
| `ReceiptsHoldForever` | `Spec => []ReceiptsHold`: stable positions and one receipt per update |
| `TokensAtHome` | `Spec => []TokensStayHome` |
| `RevocationsLast` | `Spec => RevocationIsFinal`, an action property |
| `PromiseKept` | `Spec => KeepsPromise`, the refinement of `RelayLog` |

The only assumption is that `None` is no value. That random values do not
collide is part of the model (`FreshTokens`, `FreshEpochs`).

`StepCases` reduces the fourteen actions to eight effects, by what they do to
a file (`Administered`, `Opened`, `Answered`, `Appended`, ...), and every
invariant is proved over these. `PositionsAreStable` is not inductive: a file
could become live with an epoch that clients know. So `Epoched` and
`OneFilePerEpoch` say that the epoch of a live file, or of a snapshot that will
be one, was drawn and is nobody else's, and `Witnessed` that clients know only
epochs that are served. `OneReceipt` needs `Deduplicated` as well, and that a
position is stable: a client could otherwise be told of two positions at
different times. `Rooted` carries the credentials: every token in a row was
drawn and belongs to a device with an owner, an unrevoked one of a live file was
drawn there, and a snapshot that will be live has revoked every device with a
token, so that its publication gives nobody anything. `restore_new` revokes the
devices that have an owner, which is why the first part is needed. For the
refinement, `Copied` says that the logs of every backup and of every snapshot
are the beginnings of those of some live file, and `Grows` that a live file
stays one and its logs only get longer.

`FamilyGraphProofs` proves for all sets of replicas, processes, names, kinds,
events, entries and operations, and any number of commands:

| theorem | states |
|---|---|
| `PastIsClosure` | the past of an event, which the code collects by following parents, is the least set closed under parents |
| `TypeCorrect` | `Spec => []TypeOK` |
| `FactsAreExact` | `Spec => []FactsMatchReference`: rows kept one command at a time are those of a complete derivation |
| `ReplicasConverge` | `Spec => ReplicasAgree` |
| `CommandsOnce` | `Spec => CommandsTakeEffectOnce` |
| `NothingUnseenIsDropped` | `Spec => []ChangesSurvive` |
| `NamespaceKept` | `Spec => NamespaceIsKept` |

Here induction over data cannot be avoided: an event's past is found step by
step, and so is the order in which a set of events is taken in. The library's
induction theorems take an operator, so `SetInduction` states induction over the
subsets of the naturals instead, by the well-founded order on them and a least
counterexample; everything recursive is proved by giving it the set of numbers
for which it holds. `IInv` says that the events known anywhere are well formed
and closed under what one event refers to (`Sound`, `Tables`), that each replica
has the rows of its events (`FactsRight`), and what an open command still knows
to be true (`PlanSound`: its parents were heads and are still known, its entry
is not somebody else's). `NamespaceKept` needs a second invariant over it,
`PlansKeep`: what a command found free when it was planned is checked again when
it is stored, or cannot have been taken.

`DurableNoteProofs` proves for all sets of clients, any number of edits,
operations, revisions by others, crashes and failed calls, and for ordinary notes
and managed ones:

| theorem | states |
|---|---|
| `TypeCorrect` | `Spec => []TypeOK` |
| `CheckpointsComeFirst` | `Spec => []IntentsAreCheckpointed` |
| `NothingIsReverted` | `Spec => []NoSilentRevert` |
| `DraftsSurvive` | `Spec => DraftSurvives`, an action property |

`IInv` relates, for each client, the object in the editor, the place of its task,
the durable checkpoint, a swap that may still arrive and the rows of its intents:
which operation each of them holds at which step, what an uncertain checkpoint
may be, what a session keeps when its recovery fails, that a checkpoint is never older than what is authorised, and that the
baseline of every draft is a revision in the history with everything that was
merged into it. `DraftSurvives` is about one step, but whether a step loses
something depends on what the steps before put where: the second invariant
`DraftsKept` says that each part somebody typed is, until it is saved, in the
draft, in a checkpoint that will be read again or in an intent that carries it.

`PublicationJournalProofs` proves for any number of commits, acts of the editor
and processes that die:

| theorem | states |
|---|---|
| `TypeCorrect` | `Spec => []TypeOK`, with it that the path never shows an unfinished file |
| `NothingIsLost` | `Spec => []NothingLost` |
| `ConflictsHaveAnEditor` | `Spec => []ConflictsAreReal` |
| `ImportKeepsEdits` | `Spec => EditsSurvive`, an action property |

Assumptions: the bounds are natural numbers, and `None` is no value.

`NothingLost` speaks of all files at once, and no step can be judged by it alone:
removing a stage or unlinking a displaced file loses nothing only because of what
was read and captured some steps before. What is `raced` is left out, since the
code cannot see it. `IInv` therefore follows the files. Every
inode has one name, and no editor has the stage open (`Names`); an attempt names
its stage, its baseline and its displaced file as they are (`Attempts`); what an
editor wrote and the database, a baseline or a stage holds is in an observation
(`Reports`), so that only the files at the path and displaced ones can be the last
place of an edit (`Owes`). `Calls` and `Reading` say what a call may rely on after
what it has read, although an editor acted since: what it captured stays captured,
and once a displaced file was compared for the last time, nothing that must be kept
is in it alone. That each file has all that was in the one it was made from,
except what is in `removed` (`Stems`), is what keeps an import from taking an edit
back that no editor left out. `ConflictsAreReal`
needs the opposite case: as long as no editor acts, the files are in one of three
places, before, between and after the two renames (`Alone`), and each step of a
call finds the one it expects (`Expected`), whatever died before it. A crash
leaves the second and third place to a recovery, which recognises both.

`BinaryStageProofs` proves for all sets of processes, operations and entries,
whatever the processes ask, repeat and race with, and any number of crashes,
cancellations and commits by others:

| theorem | states |
|---|---|
| `StageTypes` | `Spec => []TypeOK` |
| `StageToldTheOutcome` | `Spec => []ToldTheOutcome` |
| `StageStoresFiles` | `Spec => StoresFiles`, the refinement of `FileVersions` |

Assumptions: bounds are natural numbers; an inline call sends the bytes it names;
an import creates its entry, reads as many bytes as were selected, and two imports
under one operation have the same selection; `None` is no operation, stage, plan
or text. The host keeps the selection of an import under its operation and refuses
another one (`load_plan` in `staged_import.rs`); nothing like it holds of inline
calls, and their contradictions are part of the model.

What callers are told follows from the rows, but a row says nothing of the
graph by itself. `IInv` relates the three (`StageSound`, `PlanSound`): a stage
that may be published has an authorized plan; while the graph is still the one
the plan was authorized on, the version it names is the current one, so that
`finish` need not look again; and an operation that is in the graph has a stage
that says so. `Stands` adds what a call may rely on between two transactions:
once it has found the stage of its operation to be its own, nobody else's bytes
can be sealed there (`OwnSeal`), although other calls may seal, reject and
publish it meanwhile.

`DocumentRuntimeProofs` proves for all sets of documents, owners and requests,
all limits on stages, generations, pumps and restarts, and any number of
commits, crashes, failures and rebuilds:

| theorem | states |
|---|---|
| `IndexTypes` | `Spec => []TypeOK` |
| `IndexServesWholeDocuments` | `Spec => []ServesWholeDocuments` |
| `IndexAnswersAreFresh` | `Spec => []AnswersAreFresh` |
| `IndexNeverGoesBack` | `Spec => NeverGoesBack`, an action property |

Assumptions: the bounds are natural numbers, and the cache retains at least one
stage and one generation and pumps at least one document at a time.

`IInv` has three layers. `CacheSound` is about the file alone: a generation, half
built or published, has only rows that are right at its watermark, the head is
the newest published one, and pruning leaves no more of a kind than its limit.
`WorkSound` is about an owner between the transactions of one effect, while
others change the file: the rows it has extracted are right for its stage, what
it takes over comes from a generation that is whole if it is still there, and
a stage it found complete is still complete when it publishes it. That numbers
of generations are not given out twice (`Behind`) is what makes "still there"
mean the same generation; a rebuild starts a new epoch. `FreshFor` is about
time: a request that waits is followed by an observation, or one that is not
older has been made, or is under way and was started by a hint after it.

`DraftWorkProofs` proves for any set of windows, any number of phases, events,
jobs and buffers, and whatever the phases need:

| theorem | states |
|---|---|
| `DraftTypes` | `Spec => []TypeOK` |
| `DraftFactsAreExact` | `Spec => []FactsAreExact` |
| `DraftHoldsWhatIsCharged` | `Spec => []HoldsWhatIsCharged` |

Assumptions: the parser has at least one phase, and limits, needs and bounds are
natural numbers.

`IInv` joins the reducer, the host and the windows. `CoreSound` says of every job
whose facts are still wanted that it is the current one of its buffer and of the
buffer's revision, of the queue that it holds only jobs that wait for the parser
and each once, and of every sum of charges that it is within its limit, also
with what the phase under way was granted. `HandlesSound` says that the host has
a handle for exactly the jobs that are wanted or must still be dropped, and that
it holds no more for one than the job is charged. `WinSound` carries `FactsAreExact`
through the waits of a window: unless its run is stale, the job it asks about is
one of the revision it started with, and so is every call under way (`RunIs`).
For this it matters that a number is never given to a second job (`Extends`) and
that cancellations, acknowledgements, releases and hints leave the run alone
(`Kin`). A sum of sizes is the number of units that are held (`Total`), so that
the library's facts about cardinalities replace an induction over the jobs.

Only model-checked: the liveness properties (`EveryUpdateArrives`,
`SavesSettle`, `ImportsEnd`, `FileSettles`, `CatchesUp`, `DraftsEnd`): they rest on
fairness, which is stated with `ENABLED`, and the prover does not handle that. The
two findings are counterexamples of TLC.

## 5. Plan

Done: the modules of section 2. Next, in this order:

1. `ClientLease`: admission of clients on desktop (lock file, slot) and in the
   browser (Web Lock), with processes that die and lock files that are replaced.
2. The namespace: `zorid-native/publication_handoff.rs` and `external_namespace.rs`
   as the part of `PublicationJournal` that moves and hides entries.
3. Browser synchronization as a second implementation of `VaultDelivery`.
4. Managed records: admission of values under concurrent schema changes.

Each comes with its proofs: its invariants first, then the refinement where there
is an abstract specification.

## 6. Not modelled

* In `RelayStore`: limits on sizes and counts, the decoding of requests, disk
  errors of SQLite (a transaction happens or does not).
* In `NativeSync`: the prerequisites of an envelope and the refusal of one whose
  payload is malformed; refusals by the relay other than those that follow from
  the epoch and the identity (a revoked token, a size limit). An update that the
  relay refuses for good is listed first in every sweep
  (`family_store.rs` 196): with `max_push` of these, others wait. The hazard is
  listed in `PROJECT.json`; no property covers it.
* In `DurableNote`: renaming and deletion of the entry, conditional saves from a
  captured source, the independent draft journal (`note-draft-protection.ts`),
  the autosave timer, size limits, retention of settled intents, projection to
  the file after the commit.
* In `FamilyGraph`: manifests, chunks, content seeds, size limits, and moves that
  the file scanner found.
* In `BinaryStage`: the bound on attempts, captures of external files, pages,
  quotas in bytes, garbage collection and the transfer to other replicas.
* In `PublicationJournal` two kinds of loss are in the code and in the model, and
  excluded by the properties: what an editor writes through an old handle to a
  displaced file between its last comparison and its unlinking (`native.rs` 889-897,
  `fs.rs` 309) is gone; and an editor that saves a buffer older than the published
  file takes the edits back that it lacks, because `plan_external_branch` compares
  the file with what was published last.
* Not in `PublicationJournal`: hidden entries, moves of entries, vaults without
  observations, binary files, limits on pages and sizes, a replaced parent folder,
  symbolic links.
* In `DocumentIndex` and `DocumentRuntime`: extraction, search, previews, pins of
  queries, results that are uncertain; counters do not run out.
* In `DraftWork`: a host that is replaced under its windows, the older path
  without leases, the memory a window accounts for, the limit of 32 leases, turns
  that fail, pauses for an import, replay of tickets (a request that is repeated
  under the ticket of an earlier one). The vault closes when it is closed
  (`BeginClose`); that the release of the last window begins this by itself is left
  out.
* Everything whose status in `PROJECT.json` is `not_modelled`.
