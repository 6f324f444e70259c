-------------------------- MODULE PublicationJournal --------------------------
(***************************************************************************)
(* How a text reaches its file and an external edit of the file reaches    *)
(* the text: the attempts, baselines and observations that the database    *)
(* keeps (zorid-store projection.rs, family_observations.rs) around the    *)
(* renames of the native vault (zorid-native native.rs, content_stream.rs, *)
(* external_observe_stream.rs).                                            *)
(*                                                                         *)
(* A call holds the lock of the vault from its first step to its last, so  *)
(* there is one call at a time; an external editor takes no lock and works *)
(* on the file between any two steps, also through a handle to a file that *)
(* was moved away.  A step reads or renames once, or is one transaction.   *)
(* A process can die between any two; its steps up to there stay.          *)
(*                                                                         *)
(* A text is the set of its edits.  What the text merge does with a branch *)
(* is then a three-way merge of sets: edits the branch added are added and *)
(* edits it dropped since its baseline are dropped.  An editor saves the   *)
(* text it read when it opened the file, with one edit more: what reached  *)
(* the file meanwhile is not in it.                                        *)
(***************************************************************************)
EXTENDS Naturals, FiniteSets

CONSTANTS
  MaxSaves,    \* bound: commits after the first text
  MaxEdits,    \* bound: acts of the editor
  MaxActs,     \* bound: both together
  MaxCrashes,  \* bound: processes that die
  None

ASSUME JournalAssumption == {MaxSaves, MaxEdits, MaxActs, MaxCrashes} \subseteq Nat

VARIABLES
  desired,   \* the text in the database and its revision
  base,      \* baseline and physical binding: what is known to be on disk
  active,    \* the attempt that is not completed
  settled,   \* baselines of completed attempts whose displaced file is left
  seen,      \* external_observations
  dest,      \* the inode at the path
  stage,     \* ... at <attempt>.stage
  previous,  \* ... and at <attempt>.previous, per attempt
  text,      \* contents of the inodes; None while they are being written
  run,       \* the call that holds the lock of the vault
  handle,    \* the inode an editor has open
  buffer,    \* the text an editor works on, as it was read or last saved
  owed,      \* edits of an editor in a file that no editor took out of it
  removed,   \* edits that an editor left out of a file it wrote or deleted
  raced,     \* edits written to a displaced file before it was unlinked,
             \* but after it was compared
  saves, edits, crashes

db == <<desired, base, active, settled, seen>>
disk == <<dest, stage, previous, text>>
editor == <<handle, buffer, owed, removed, raced, edits>>
vars == <<db, disk, run, editor, saves, crashes>>

Edit == [by : {"app", "editor"}, n : 1 .. MaxActs]
Version == [rev : Nat, text : SUBSET Edit]
Baseline == [rev : Nat, text : SUBSET Edit, inode : Nat]
Attempt == [id : Nat, base : Baseline \cup {None}, target : Version,
            phase : {"prepared", "staged", "displaced", "published"},
            stage : Nat \cup {None}]
Observation == [text : SUBSET Edit, base : Baseline \cup {None},
                inode : Nat \cup {None}, resolved : BOOLEAN]

(* The steps of a call.  part: recover_locked alone, the same before an    *)
(* observation, or what follows it; left: attempts to retire; then: the    *)
(* step after them; the others are locals of resume and observe.           *)
Steps == {"idle", "retire", "unlink", "remove", "resume", "project", "look", "restore",
          "reinstate", "stage", "write", "mark", "displace", "moved", "check",
          "undo", "publish", "published", "final", "ack", "finish", "cancel",
          "failed", "observe", "drop", "verify", "import"}
Run == [at : Steps, part : {"recover", "reconcile", "observed"},
        left : SUBSET Nat, then : Steps, blocked : BOOLEAN,
        displaces : BOOLEAN, changed : BOOLEAN,
        old : [inode : Nat, text : SUBSET Edit] \cup {None},
        obs : Observation \cup {None}]

Idle == [at |-> "idle", part |-> "recover", left |-> {}, then |-> "idle",
         blocked |-> FALSE, displaces |-> FALSE, changed |-> FALSE,
         old |-> None, obs |-> None]

ASSUME NoneAssumption ==
  /\ None \notin Nat \cup Baseline \cup Attempt \cup Observation
                  \cup [inode : Nat, text : SUBSET Edit]
  /\ \A T \in SUBSET Edit : T # None

-----------------------------------------------------------------------------
(* A note that was never published, or one that is there as it should be.  *)
Init ==
  /\ desired = [rev |-> 1, text |-> {}]
  /\ \/ /\ base = None /\ dest = None /\ text = <<>>
     \/ /\ base = [rev |-> 1, text |-> {}, inode |-> 1]
        /\ dest = 1 /\ text = [i \in {1} |-> {}]
  /\ active = None /\ settled = <<>> /\ seen = {}
  /\ stage = None /\ previous = <<>>
  /\ run = Idle
  /\ handle = None /\ buffer = {}
  /\ owed = {} /\ removed = {} /\ raced = {}
  /\ saves = 0 /\ edits = 0 /\ crashes = 0

Put(f, k, v) == [x \in DOMAIN f \cup {k} |-> IF x = k THEN v ELSE f[x]]
Drop(f, k) == [x \in DOMAIN f \ {k} |-> f[x]]
Inodes == DOMAIN text
(* The next number; an attempt takes the one of the stage it would write. *)
NewInode == Cardinality(Inodes) + 1

(* file_snapshot(): inode and contents of a name. *)
Snapshot(inode) ==
  IF inode = None THEN None ELSE [inode |-> inode, text |-> text[inode]]
AtPath == Snapshot(dest)
Displaced(id) == IF id \in DOMAIN previous THEN Snapshot(previous[id]) ELSE None
Linked == ({dest, stage} \cup {previous[n] : n \in DOMAIN previous}) \ {None}

(* Nobody asks any more what an inode without a name held. *)
Forgotten(gone) == [i \in Inodes |-> IF i \in gone THEN {} ELSE text[i]]

SameText(file, baseline) == baseline # None /\ file.text = baseline.text
SameInode(file, baseline) == baseline # None /\ file.inode = baseline.inode

(* capture_projection_file(): a copy without authority over the path.      *)
Retain(files) ==
  seen' = seen \cup {[text |-> f.text, base |-> active.base, inode |-> None,
                      resolved |-> FALSE] : f \in files}

-----------------------------------------------------------------------------
(* Steps                                                                   *)

At(step) == run.at = step
Goto(step) == run' = [run EXCEPT !.at = step]

(* The end of a part, with success or an error: an observation follows the *)
(* recovery of a reconciliation.                                           *)
Ended == IF run.part = "reconcile"
         THEN [Idle EXCEPT !.at = "observe", !.part = "observed"] ELSE Idle
End == run' = Ended
Retiring(left, then) ==
  run' = [run EXCEPT !.at = "retire", !.left = left, !.then = then]

Starts(part) ==
  [Idle EXCEPT !.at = "retire", !.part = part, !.left = DOMAIN settled,
               !.then = "resume"]

(* A command or an envelope commits; what follows publishes it.            *)
Save ==
  /\ At("idle")
  /\ saves < MaxSaves /\ saves + edits < MaxActs
  /\ saves' = saves + 1
  /\ LET e == [by |-> "app", n |-> saves'] IN
       desired' = [rev |-> desired.rev + 1, text |-> desired.text \cup {e}]
  /\ run' = Starts("recover")
  /\ UNCHANGED <<base, active, settled, seen, disk, editor, crashes>>

Recover ==
  /\ At("idle")
  /\ run' = Starts("recover")
  /\ UNCHANGED <<db, disk, editor, saves, crashes>>

Reconcile ==
  /\ At("idle")
  /\ run' = Starts("reconcile")
  /\ UNCHANGED <<db, disk, editor, saves, crashes>>

-----------------------------------------------------------------------------
(* retire_settled_previous()                                               *)

First(S) == CHOOSE n \in S : \A m \in S : n <= m

(* Mistake: the displaced file is taken for the baseline it was. *)
CapturedIfForeign(old, baseline) == {}
(* What a displaced file holds beyond its baseline is captured first.      *)
CapturedBefore(old, baseline) == IF SameText(old, baseline) THEN {} ELSE {old}

Retire ==
  /\ At("retire")
  /\ \/ /\ run.left = {}
        /\ run' = [Idle EXCEPT !.at = run.then, !.part = run.part,
                               !.blocked = run.blocked]
        /\ UNCHANGED seen
     \/ /\ run.left # {}
        /\ LET n == First(run.left)
               old == Displaced(n)
           IN \/ /\ SameInode(old, settled[n])
                 /\ seen' = seen \cup
                      {[text |-> f.text, base |-> settled[n], inode |-> None,
                        resolved |-> FALSE] : f \in CapturedBefore(old, settled[n])}
                 /\ run' = [run EXCEPT !.at = "unlink", !.old = old]
              \/ /\ ~SameInode(old, settled[n])
                 /\ run' = [run EXCEPT !.left = @ \ {n}, !.blocked = TRUE]
                 /\ UNCHANGED seen
  /\ UNCHANGED <<desired, base, active, settled, disk, editor, saves, crashes>>

(* The file is compared once more.                                         *)
Unlink ==
  /\ At("unlink")
  /\ \/ /\ Displaced(First(run.left)) = run.old
        /\ Goto("remove")
     \/ /\ Displaced(First(run.left)) # run.old
        /\ run' = [run EXCEPT !.at = "retire", !.left = @ \ {First(@)},
                              !.old = None, !.blocked = TRUE]
  /\ UNCHANGED <<db, disk, editor, saves, crashes>>

(* unlink_regular_identity(): no system call compares and unlinks, so what *)
(* was written since the comparison goes with the file.                    *)
Remove ==
  /\ At("remove")
  /\ LET n == First(run.left) IN
       /\ previous' = Drop(previous, n)
       /\ settled' = Drop(settled, n)
       /\ text' = Forgotten({previous[n]})
       /\ run' = [run EXCEPT !.at = "retire", !.left = @ \ {n}, !.old = None]
  /\ UNCHANGED <<desired, base, active, seen, dest, stage, editor, saves, crashes>>

-----------------------------------------------------------------------------
(* recover_locked(), project()                                             *)

(* The rest of recover_locked(): an active attempt is resumed; a note that *)
(* is blocked is not projected again.                                      *)
Resume ==
  /\ At("resume")
  /\ \/ active # None /\ Goto("look")
     \/ active = None /\ run.blocked /\ End
     \/ active = None /\ ~run.blocked /\ Goto("project")
  /\ UNCHANGED <<db, disk, editor, saves, crashes>>

(* Mistake: whatever was published once is there. *)
PublishedOnce == base # None
IsPublished == base # None /\ base.rev = desired.rev

Project ==
  /\ At("project")
  /\ \/ /\ active # None
        /\ Goto("look")
        /\ UNCHANGED active
     \/ /\ active = None /\ IsPublished
        /\ End
        /\ UNCHANGED active
     \/ /\ active = None /\ ~IsPublished
        /\ active' = [id |-> NewInode, base |-> base, target |-> desired,
                      phase |-> "prepared", stage |-> None]
        /\ Goto("look")
  /\ UNCHANGED <<desired, base, settled, seen, disk, editor, saves, crashes>>

-----------------------------------------------------------------------------
(* resume(): what is at the path and what was displaced decides.           *)

Backup == Displaced(active.id)
Edited(file) == ~SameText(file, active.base)
IsStage(file) == active.stage # None /\ file.inode = active.stage
IsCurrent == active.target = desired

(* Mistake: the published stage is not recognised after a crash. *)
NeverPublished == FALSE
(* The destination is the stage: published, but perhaps not recorded.      *)
WasPublished == AtPath # None /\ IsStage(AtPath)

(* A displaced inode that is not the bound one, or that was written to.    *)
ForeignBackup == Backup # None /\ ~SameInode(Backup, active.base)
EditedBackup == Backup # None /\ Edited(Backup)
KeptBackup == IF ForeignBackup \/ EditedBackup THEN {Backup} ELSE {}

LookForeign ==
  /\ At("look") /\ ForeignBackup
  /\ Retain(KeptBackup)
  /\ End
  /\ UNCHANGED <<desired, base, active, settled, disk, editor, saves, crashes>>

Looks(files) ==
  /\ At("look") /\ ~ForeignBackup
  /\ Retain(KeptBackup \cup files)
  /\ UNCHANGED <<desired, base, active, settled, disk, editor, saves, crashes>>

ChangedAtPath == IF AtPath.text = active.target.text THEN {} ELSE {AtPath}

LookPublished ==
  /\ WasPublished
  /\ Looks(ChangedAtPath)
  /\ run' = [run EXCEPT !.at = "ack", !.changed = ChangedAtPath # {}]

(* The database moved on: the old text is never published; a displaced     *)
(* baseline goes back to an empty path.                                    *)
LookSuperseded ==
  /\ ~WasPublished /\ ~IsCurrent
  /\ Looks(IF AtPath # None /\ Edited(AtPath) THEN {AtPath} ELSE {})
  /\ Goto(IF AtPath = None /\ Backup # None THEN "restore" ELSE "cancel")

LookDisplaced ==
  /\ ~WasPublished /\ IsCurrent /\ Backup # None
  /\ \/ /\ EditedBackup
        /\ Looks({})
        /\ IF AtPath = None THEN Goto("reinstate") ELSE End
     \/ /\ ~EditedBackup /\ AtPath # None
        /\ Looks({AtPath})
        /\ End
     \/ /\ ~EditedBackup /\ AtPath = None
        /\ Looks({})
        /\ run' = [run EXCEPT !.at = "stage", !.displaces = FALSE]

LookUntouched ==
  /\ ~WasPublished /\ IsCurrent /\ Backup = None
  /\ \/ /\ active.base = None /\ AtPath = None
        /\ Looks({})
        /\ run' = [run EXCEPT !.at = "stage", !.displaces = FALSE]
     \/ /\ AtPath # None /\ SameText(AtPath, active.base)
        /\ SameInode(AtPath, active.base)
        /\ Looks({})
        /\ run' = [run EXCEPT !.at = "stage", !.displaces = TRUE]
     \/ /\ AtPath # None
        /\ Edited(AtPath) \/ ~SameInode(AtPath, active.base)
        /\ Looks({AtPath})
        /\ End
     \/ /\ active.base # None /\ AtPath = None
        /\ Looks({})
        /\ End

Look ==
  /\ active # None
  /\ \/ LookForeign \/ LookPublished \/ LookSuperseded \/ LookDisplaced
     \/ LookUntouched

(* rename_new(): never over an existing name.                              *)
PutBack(step) ==
  /\ At(step)
  /\ dest = None /\ Backup # None
  /\ dest' = previous[active.id]
  /\ previous' = Drop(previous, active.id)
  /\ UNCHANGED <<stage, text>>

Restore ==
  /\ \/ PutBack("restore") /\ Goto("cancel")
     \/ PutBack("reinstate") /\ End
     \/ PutBack("undo") /\ End
     \/ /\ At("restore") \/ At("reinstate") \/ At("undo")
        /\ dest # None
        /\ End
        /\ UNCHANGED disk
  /\ UNCHANGED <<db, editor, saves, crashes>>

-----------------------------------------------------------------------------
(* resume(): stage, displace, publish, record                              *)

(* Mistake: a stage that is there is taken for a finished one. *)
StageIsThere == stage # None
(* The stage holds the whole text it was made for. *)
Complete == stage # None /\ text[stage] = active.target.text

(* stage_projection_content(): the file is created before it is written; a *)
(* stage that was not completed is set aside.                              *)
Stage ==
  /\ At("stage")
  /\ \/ /\ Complete
        /\ Goto("mark")
        /\ UNCHANGED disk
     \/ /\ stage # None /\ ~Complete
        /\ active.stage = None
        /\ stage' = NewInode
        /\ text' = Put(text, NewInode, None)
        /\ Goto("write")
        /\ UNCHANGED <<dest, previous>>
     \/ /\ stage = None /\ active.stage # None
        /\ End
        /\ UNCHANGED disk
     \/ /\ stage = None /\ active.stage = None
        /\ stage' = NewInode
        /\ text' = Put(text, NewInode, None)
        /\ Goto("write")
        /\ UNCHANGED <<dest, previous>>
  /\ UNCHANGED <<db, editor, saves, crashes>>

Write ==
  /\ At("write")
  /\ text' = [text EXCEPT ![stage] = active.target.text]
  /\ Goto("mark")
  /\ UNCHANGED <<db, dest, stage, previous, editor, saves, crashes>>

(* mark_projection() *)
Mark ==
  /\ \/ /\ At("mark")
        /\ active' = [active EXCEPT !.phase = "staged", !.stage = stage]
        /\ Goto(IF run.displaces THEN "displace" ELSE "publish")
     \/ /\ At("moved")
        /\ active' = [active EXCEPT !.phase = "displaced"]
        /\ Goto("check")
     \/ /\ At("published")
        /\ active' = [active EXCEPT !.phase = "published"]
        /\ Goto("final")
  /\ UNCHANGED <<desired, base, settled, seen, disk, editor, saves, crashes>>

Displace ==
  /\ At("displace")
  /\ \/ /\ dest # None
        /\ previous' = Put(previous, active.id, dest)
        /\ dest' = None
        /\ Goto("moved")
     \/ /\ dest = None
        /\ End
        /\ UNCHANGED <<dest, previous>>
  /\ UNCHANGED <<db, stage, text, editor, saves, crashes>>

Check ==
  /\ At("check")
  /\ Retain(KeptBackup)
  /\ Goto(IF KeptBackup = {} THEN "publish" ELSE "undo")
  /\ UNCHANGED <<desired, base, active, settled, disk, editor, saves, crashes>>

(* Mistake: the stage is renamed over whatever is there. *)
PublishOver ==
  /\ At("publish")
  /\ dest' = stage /\ stage' = None
  /\ Goto("published")
  /\ UNCHANGED <<db, previous, text, editor, saves, crashes>>
(* A file that appeared meanwhile is never overwritten. *)
Publish ==
  /\ At("publish")
  /\ \/ /\ dest = None
        /\ dest' = stage /\ stage' = None
        /\ Goto("published")
        /\ UNCHANGED seen
     \/ /\ dest # None
        /\ Retain({AtPath})
        /\ End
        /\ UNCHANGED <<dest, stage>>
  /\ UNCHANGED <<desired, base, active, settled, previous, text, editor, saves, crashes>>

(* What is at the path when the publication is recorded, and again before  *)
(* it is acknowledged.                                                     *)
Confirm(step, next) ==
  /\ At(step)
  /\ \/ /\ AtPath = None
        /\ End
        /\ UNCHANGED seen
     \/ /\ AtPath # None /\ ~IsStage(AtPath)
        /\ Retain({AtPath})
        /\ End
     \/ /\ AtPath # None /\ IsStage(AtPath)
        /\ Retain(ChangedAtPath)
        /\ run' = [run EXCEPT !.at = next,
                              !.changed = @ \/ ChangedAtPath # {}]
  /\ UNCHANGED <<desired, base, active, settled, disk, editor, saves, crashes>>

Final == Confirm("final", "ack")
Acknowledge == Confirm("ack", "finish")

Settle == settled' = IF Backup = None THEN settled
                     ELSE Put(settled, active.id, active.base)
Own == IF Backup = None THEN {} ELSE {active.id}

(* Mistake: what the database wants now is recorded as published. *)
RecordedAsDesired == desired
(* What reached the disk is recorded. *)
Recorded == active.target

(* finish_projection_bound(): the inode of the stage is known to have been *)
(* at the path, with its text or one that was made from it.                *)
Finish ==
  /\ At("finish")
  /\ base = active.base
  /\ base' = [rev |-> Recorded.rev, text |-> Recorded.text,
              inode |-> active.stage]
  /\ active' = None
  /\ Settle
  /\ Retiring(Own, IF run.changed THEN "failed" ELSE "project")
  /\ UNCHANGED <<desired, seen, disk, editor, saves, crashes>>

(* finish_projection(): the stage is left where it is. *)
Cancel ==
  /\ At("cancel")
  /\ active' = None
  /\ Settle
  /\ stage' = None /\ text' = Forgotten({stage})
  /\ Retiring(Own, "project")
  /\ UNCHANGED <<desired, base, seen, dest, previous, editor, saves, crashes>>

(* A changed publication is an error. *)
Failed ==
  /\ At("failed")
  /\ End
  /\ UNCHANGED <<db, disk, editor, saves, crashes>>

-----------------------------------------------------------------------------
(* observe_streamed_file()                                                 *)

Clean(file) == SameText(file, base) /\ SameInode(file, base)

(* An attempt that displaced nothing can be given up for an observation.   *)
Undisplaced(file) ==
  /\ active.phase \in {"prepared", "staged"}
  /\ ~IsStage(file)
  /\ active.id \notin DOMAIN previous

Observed(file, authority) ==
  [text |-> file.text, base |-> base,
   inode |-> IF authority THEN file.inode ELSE None, resolved |-> FALSE]

Observe ==
  /\ At("observe")
  /\ \/ /\ AtPath = None
        /\ IF base = None THEN Goto("project") ELSE End
        /\ UNCHANGED seen
     \/ /\ AtPath # None /\ Clean(AtPath)
        /\ Goto("project")
        /\ UNCHANGED seen
     \/ /\ AtPath # None /\ SameText(AtPath, base) /\ ~SameInode(AtPath, base)
        /\ seen' = seen \cup {Observed(AtPath, FALSE)}
        /\ End
     \/ /\ AtPath # None /\ ~SameText(AtPath, base)
        /\ LET o == Observed(AtPath, TRUE) IN
             /\ seen' = seen \cup {o}
             /\ IF active # None /\ ~Undisplaced(AtPath) THEN End
                ELSE run' = [run EXCEPT !.at = IF active # None THEN "drop"
                                               ELSE "verify", !.obs = o]
  /\ UNCHANGED <<desired, base, active, settled, disk, editor, saves, crashes>>

DropAttempt ==
  /\ At("drop")
  /\ active' = None
  /\ stage' = None /\ text' = Forgotten({stage})
  /\ Goto("verify")
  /\ UNCHANGED <<desired, base, settled, seen, dest, previous, editor,
                 saves, crashes>>

(* Only a note that was on disk before takes in what is there now, and     *)
(* only if it still is.                                                    *)
Verify ==
  /\ At("verify")
  /\ IF /\ base # None
        /\ AtPath = [inode |-> run.obs.inode, text |-> run.obs.text]
     THEN Goto("import") ELSE End
  /\ UNCHANGED <<db, disk, editor, saves, crashes>>

(* Mistake: the branch replaces the text of the database. *)
BranchOnly(current, branch, since) == branch
(* plan_external_text_with_baseline() *)
Merged(current, branch, since) == (current \cup branch) \ (since \ branch)

(* import_family_observation_content(): the observed branch becomes the    *)
(* baseline, the merge a new revision of the text.                         *)
Import ==
  /\ At("import")
  /\ base = run.obs.base
  /\ desired' = [rev |-> desired.rev + 1,
                 text |-> Merged(desired.text, run.obs.text, base.text)]
  /\ base' = [rev |-> 0, text |-> run.obs.text, inode |-> run.obs.inode]
  /\ seen' = (seen \ {run.obs}) \cup {[run.obs EXCEPT !.resolved = TRUE]}
  /\ run' = [run EXCEPT !.at = "project", !.obs = None]
  /\ UNCHANGED <<active, settled, disk, editor, saves, crashes>>

-----------------------------------------------------------------------------
(* The editor                                                              *)

NewEdit == [by |-> "editor", n |-> edits + 1]

Acts ==
  /\ edits < MaxEdits /\ saves + edits < MaxActs
  /\ edits' = edits + 1
  /\ UNCHANGED <<db, stage, previous, run, saves, crashes>>

Written(new) == {e \in new : e.by = "editor"}
(* Displaced by the attempt that is not completed: it may go back. *)
Away == {previous[n] : n \in DOMAIN previous \ DOMAIN settled}

Open ==
  /\ dest # None
  /\ handle # dest \/ buffer # text[dest]
  /\ handle' = dest /\ buffer' = text[dest]
  /\ UNCHANGED <<db, disk, run, owed, removed, raced, edits, saves, crashes>>

(* The displaced file that is about to be unlinked has been compared. *)
Compared(inode) == At("remove") /\ inode = previous[First(run.left)]

(* Wherever the file was moved meanwhile, while it has a name: what is     *)
(* written to a file without one is lost to everybody.                     *)
WriteHandle ==
  /\ Acts
  /\ handle \in Linked
  /\ LET new == buffer \cup {NewEdit} IN
       /\ text' = [text EXCEPT ![handle] = new]
       /\ owed' = (owed \ (text[handle] \ new)) \cup Written(new)
       /\ removed' = IF handle \in {dest} \cup Away
                     THEN removed \cup (text[handle] \ new) ELSE removed
       /\ raced' = IF Compared(handle) THEN raced \cup new ELSE raced \ new
       /\ buffer' = new
  /\ UNCHANGED <<dest, handle>>

(* The usual atomic save: a new file renamed over the old one, with or     *)
(* without a change.                                                       *)
Replace ==
  /\ Acts
  /\ dest # None
  /\ \E new \in {buffer, buffer \cup {NewEdit}} :
       /\ text' = Put(Forgotten({dest}), NewInode, new)
       /\ owed' = (owed \ (text[dest] \ new)) \cup Written(new)
       /\ removed' = removed \cup (text[dest] \ new)
       /\ raced' = raced \ new
       /\ buffer' = new
  /\ dest' = NewInode
  /\ UNCHANGED handle

(* A file made where there is none leaves out what the application is      *)
(* moving away from there.                                                 *)
CreateFile ==
  /\ Acts
  /\ dest = None
  /\ \E kept \in {{}, buffer} : LET new == kept \cup {NewEdit} IN
       /\ text' = Put(text, NewInode, new)
       /\ owed' = owed \cup Written(new)
       /\ removed' = removed \cup ((UNION {text[i] : i \in Away}) \ new)
       /\ raced' = raced \ new
       /\ buffer' = new
  /\ dest' = NewInode
  /\ UNCHANGED handle

DeleteFile ==
  /\ Acts
  /\ dest # None
  /\ owed' = owed \ text[dest]
  /\ removed' = removed \cup text[dest]
  /\ dest' = None /\ text' = Forgotten({dest})
  /\ UNCHANGED <<handle, buffer, raced>>

-----------------------------------------------------------------------------

Crash ==
  /\ ~At("idle") /\ crashes < MaxCrashes
  /\ crashes' = crashes + 1
  /\ run' = Idle
  /\ UNCHANGED <<db, disk, editor, saves>>

Step ==
  \/ Retire \/ Unlink \/ Remove \/ Resume \/ Project \/ Look \/ Restore
  \/ Stage \/ Write \/ Mark \/ Displace \/ Check \/ Publish \/ Final \/ Acknowledge \/ Finish
  \/ Cancel \/ Failed \/ Observe \/ DropAttempt \/ Verify \/ Import

EditorActs == Open \/ WriteHandle \/ Replace \/ CreateFile \/ DeleteFile

Next == Save \/ Recover \/ Reconcile \/ Step \/ EditorActs \/ Crash

Spec == Init /\ [][Next]_vars

(* The process goes on with its call, and the watcher or the next start    *)
(* looks at the file again and again.                                      *)
FairSpec == Spec /\ WF_vars(Step) /\ SF_vars(Reconcile)

-----------------------------------------------------------------------------
(* Properties                                                              *)

(* Types; and a name at the path never shows an unfinished file, whatever  *)
(* died while it was staged.                                               *)
TypeOK ==
  /\ desired \in Version
  /\ base \in Baseline \cup {None}
  /\ active \in Attempt \cup {None}
  /\ DOMAIN settled \subseteq Nat
  /\ \A n \in DOMAIN settled : settled[n] \in Baseline \cup {None}
  /\ seen \subseteq Observation
  /\ DOMAIN previous \subseteq Nat
  /\ Linked \subseteq Inodes
  /\ \A i \in Inodes : text[i] \in (SUBSET Edit) \cup {None}
  /\ run \in Run
  /\ handle \in Inodes \cup {None}
  /\ {buffer, owed, removed, raced} \subseteq SUBSET Edit
  /\ saves \in 0 .. MaxSaves /\ edits \in 0 .. MaxEdits /\ crashes \in 0 .. MaxCrashes
  /\ dest # None => text[dest] # None

(* "Changed bytes become a durable inert observation first" (native.rs:    *)
(* 855): whatever the renames, crashes and late writes, an edit that was   *)
(* written to the file is in the database, in an observation or in a file  *)
(* that still has a name, until an editor removes it.  One kind of write   *)
(* the code cannot see: to a displaced file, through a handle opened       *)
(* before, between its last comparison and its unlinking (fs.rs:309).      *)
NothingLost ==
  \A e \in owed \ raced :
    \/ e \in desired.text
    \/ \E o \in seen : e \in o.text
    \/ \E i \in Linked : text[i] # None /\ e \in text[i]

(* An import takes an edit back only when somebody's file really left it   *)
(* out: an editor wrote over the file at the path that had it, deleted     *)
(* that file, or made one while a publication had moved it away.  So an    *)
(* edit that was not published yet, or was published after the last save   *)
(* of the editor, is never taken back, and neither is one for a late write *)
(* to a file that a finished publication displaced.  What an editor        *)
(* overwrites with an older text is taken back: plan_external_branch       *)
(* compares with the baseline.                                             *)
EditsSurvive == [][desired.text \ desired'.text \subseteq removed]_vars

(* The application takes none of its own files for somebody's: without an  *)
(* act of an editor no crash makes it report a conflict, and no call finds *)
(* a file it does not know.                                                *)
ConflictsAreReal == edits = 0 => seen = {}

(* After the last save, edit and crash the file holds what the database    *)
(* wants, or the disagreement of an editor is kept where the user sees it. *)
Published ==
  /\ active = None /\ IsPublished
  /\ dest = base.inode /\ text[dest] = desired.text
Disputed == edits > 0 /\ (dest = None \/ \E o \in seen : ~o.resolved)
FileSettles == <>[](Published \/ Disputed)
===============================================================================
