----------------------- MODULE PublicationJournalProofs -----------------------
(***************************************************************************)
(* Proofs about PublicationJournal, for any number of commits, of acts of  *)
(* the editor and of processes that die.                                   *)
(*                                                                         *)
(* The invariant says of every inode which name it has (Names), of the     *)
(* attempt how far it can have got (Attempts), of the edits where they are *)
(* (Reports, Owes) and of each file that an editor left out what it lacks  *)
(* of the one before it (Stems); of the call, what it may rely on after    *)
(* what it has read (Calls, Reading); and, as long as no editor acts, that *)
(* the files are where the two renames of an attempt leave them (Alone,    *)
(* Expected).                                                              *)
(***************************************************************************)
EXTENDS PublicationJournal, FiniteSetTheorems, WellFoundedInduction, TLAPS

-------------------------------------------------------------------------------
(* The inductive invariant.                                                *)

(* Every inode has one name, and the editor never had the stage open.      *)
Names ==
  /\ Cardinality(Inodes) \in Nat /\ Inodes = 1 .. Cardinality(Inodes)
  /\ dest # None => dest # stage
  /\ stage # None => handle # stage
  /\ \A n \in DOMAIN previous :
       /\ previous[n] \in Inodes /\ text[previous[n]] # None
       /\ previous[n] # dest /\ previous[n] # stage
  /\ \A n, m \in DOMAIN previous : previous[n] = previous[m] => n = m
  /\ DOMAIN previous \subseteq Inodes /\ DOMAIN settled \subseteq DOMAIN previous

(* The attempt that is not completed.                                      *)
Attempts ==
  /\ stage # None => active # None
  /\ base # None => base.text \subseteq desired.text
  /\ active # None =>
       /\ active.base = base /\ active.target.text \subseteq desired.text
       /\ base # None => base.text \subseteq active.target.text
       /\ active.id \notin DOMAIN settled
       /\ active.id \in Inodes \/ (active.id = NewInode /\ stage = None /\ active.stage = None)
       /\ active.stage # None => /\ active.stage \in Inodes
                                 /\ stage \in {None, active.stage}
                                 /\ \A n \in DOMAIN previous : previous[n] # active.stage

(* What an editor wrote and the application has is in an observation.      *)
SeenEdits == UNION {o.text : o \in seen}
Reported(T) == \A e \in T : e.by = "editor" => e \in SeenEdits
Reports ==
  /\ Reported(desired.text)
  /\ \A n \in DOMAIN settled : settled[n] # None => Reported(settled[n].text)
  /\ stage # None /\ text[stage] # None => Reported(text[stage])

(* So the edits in files are the only ones to be looked after.             *)
InFile(e, but) ==
  \/ dest # None /\ e \in text[dest]
  \/ stage # None /\ text[stage] # None /\ e \in text[stage]
  \/ \E n \in DOMAIN previous : n \notin but /\ e \in text[previous[n]]
Safe(but) == \A e \in owed \ raced : e \in SeenEdits \/ InFile(e, but)
Owes == (\A e \in owed : e.by = "editor") /\ Safe({})

(* What a file lacks of the one it was made from an editor left out; while *)
(* there is none, the one that was moved away counts.                      *)
From(T, file) == T \subseteq file \cup removed
Shown == IF dest = None THEN {} ELSE text[dest]
Kept == IF dest = None THEN UNION {text[i] : i \in Away} ELSE text[dest]
Stems ==
  /\ base # None => From(base.text, Kept)
  /\ active # None =>
       /\ base # None /\ active.id \in DOMAIN previous =>
            From(base.text, text[previous[active.id]])
       /\ dest # None /\ dest = active.stage => From(active.target.text, text[dest])
       /\ stage # None /\ stage = active.stage => text[stage] = active.target.text

(* Where a call is, and what it found out on its way there.                *)
Working == {"look", "restore", "reinstate", "stage", "write", "mark", "displace",
            "moved", "check", "undo", "publish", "published", "final", "ack",
            "finish", "cancel", "drop"}
Staged == {"mark", "displace", "moved", "check", "publish"}
Renamed == {"published", "final", "ack", "finish"}
Importing == {"drop", "verify", "import"}

Calls ==
  /\ run.at \in Working => active # None
  /\ run.at \in {"verify", "import", "failed"} \/ run.then = "failed" => active = None
  /\ run.then = "failed" => run.at \in {"retire", "unlink", "remove"}
  /\ run.at \in Importing => run.obs \in seen /\ run.obs.inode # None
  /\ run.at \in Staged => Complete
  /\ run.at = "write" => stage # None /\ active.stage = None
  /\ run.at \in Staged \ {"mark"} => active.stage = stage
  /\ run.at \in Renamed => stage = None /\ active.stage # None
  /\ run.at = "displace" \/ (run.at \in {"stage", "write", "mark"} /\ run.displaces) =>
       active.id \notin DOMAIN previous
  /\ run.at \in {"retire", "unlink", "remove"} =>
       run.left \subseteq DOMAIN settled /\ run.then \in {"resume", "project", "failed"}
  /\ run.at \in {"unlink", "remove"} => run.left # {}
  /\ run.at = "unlink" => run.old # None
  /\ run.at = "import" => base # None

(* What it read of a file is still good for what it will do with it.       *)
Reading ==
  /\ run.at = "unlink" => Reported(run.old.text)
  /\ run.at = "remove" => Safe({First(run.left)})
  /\ run.at = "cancel" /\ base # None /\ active.id \in DOMAIN previous =>
       From(base.text, Shown)
  /\ run.at = "finish" => From(active.target.text, Shown)
  /\ run.at \in Importing /\ base # None => From(base.text, run.obs.text)
  /\ run.at = "import" => From(run.obs.text, Shown)

(* Without an act of an editor: where the files are.                       *)
There(file, baseline) == file = baseline.inode /\ text[file] = baseline.text
InPlace == IF base = None THEN dest = None ELSE dest # None /\ There(dest, base)
SetAside == /\ base # None /\ active.id \in DOMAIN previous
            /\ There(previous[active.id], base)
(* Before, between and after the two renames of an attempt.                *)
Waiting == /\ active.id \notin DOMAIN previous /\ InPlace
           /\ active.stage # None => stage = active.stage
Between == SetAside /\ dest = None /\ active.stage # None /\ stage = active.stage
Out == /\ IF base = None THEN active.id \notin DOMAIN previous ELSE SetAside
       /\ active.stage # None /\ dest = active.stage /\ text[dest] = active.target.text
Empty == Between \/ (Waiting /\ base = None)

Alone ==
  /\ seen = {}
  /\ \A n \in DOMAIN settled : settled[n] # None /\ There(previous[n], settled[n])
  /\ active = None => InPlace
  /\ active # None => Waiting \/ Between \/ Out
(* ... and where that finds a call.                                        *)
Expected ==
  /\ run.at = "cancel" => Waiting
  /\ run.at = "restore" => Between
  /\ run.at \in {"stage", "write", "mark"} =>
       IF run.displaces THEN Waiting /\ base # None ELSE Empty
  /\ run.at = "displace" => Waiting /\ base # None
  /\ run.at \in {"moved", "check"} => Between
  /\ run.at = "publish" => Empty
  /\ run.at \in Renamed => Out
  /\ ~run.changed
  /\ run.at \notin {"reinstate", "undo", "failed"} \cup Importing
  /\ run.at = "observe" => active = None
  /\ run.then # "failed"

Files == TypeOK /\ Names /\ Attempts /\ Reports /\ Owes /\ Stems
RunFits == Calls /\ Reading
IInv == Files /\ RunFits /\ (edits = 0 => Alone /\ Expected)
-------------------------------------------------------------------------------
(* What the operators of the module do.                                    *)

File == [inode : Nat, text : SUBSET Edit]

LEMMA Nobody ==
  /\ None \notin Nat /\ None \notin Baseline /\ None \notin Attempt
  /\ None \notin Observation /\ None \notin File /\ None \notin SUBSET Edit
BY NoneAssumption DEF File

LEMMA DropFacts ==
  ASSUME NEW f, NEW k
  PROVE  /\ DOMAIN Drop(f, k) = DOMAIN f \ {k}
         /\ \A x \in DOMAIN f : x # k => Drop(f, k)[x] = f[x]
BY DEF Drop

LEMMA ForgottenFacts ==
  ASSUME NEW gone
  PROVE  /\ DOMAIN Forgotten(gone) = Inodes
         /\ \A i \in Inodes : i \in gone => Forgotten(gone)[i] = {}
         /\ \A i \in Inodes : i \notin gone => Forgotten(gone)[i] = text[i]
BY DEF Forgotten, Inodes

LEMMA FirstFacts ==
  ASSUME NEW S \in SUBSET Nat, S # {}
  PROVE  First(S) \in S
<1> DEFINE R == {ss \in Nat \X Nat : ss[1] < ss[2]}
<1>1. IsWellFoundedOn(R, Nat)
  BY NatLessThanWellFounded DEF OpToRel
<1>2. PICK x \in S : \A y \in S : ~ (<<y, x>> \in R)
  <2> HIDE DEF R
  <2> QED
    BY <1>1, WFMin
<1>3. \A y \in S : ~ (y < x)
  BY <1>2
<1>4. \A y \in S : x <= y
  <2> HIDE DEF R
  <2> QED
    BY <1>3
<1> QED
  BY <1>4 DEF First

(* What is known of the files.                                             *)
LEMMA Facts ==
  ASSUME TypeOK, Names
  PROVE  /\ Inodes \subseteq Nat /\ NewInode \in Nat /\ NewInode \notin Inodes
         /\ None \notin Inodes
         /\ dest # None => dest \in Inodes /\ text[dest] \in SUBSET Edit
         /\ stage # None => stage \in Inodes
         /\ \A n \in DOMAIN previous :
              /\ n \in Nat /\ n \in Inodes /\ previous[n] \in Inodes /\ previous[n] # None
              /\ text[previous[n]] \in SUBSET Edit
<1>1. Inodes \subseteq Nat /\ NewInode \in Nat /\ NewInode \notin Inodes
  <2> DEFINE k == Cardinality(Inodes)
  <2>1. k \in Nat /\ Inodes = 1 .. k /\ NewInode = k + 1
    BY DEF Names, NewInode
  <2> HIDE DEF k
  <2> QED
    BY <2>1
<1>2. None \notin Inodes
  BY <1>1, Nobody
<1>3. /\ dest # None => dest \in Inodes
      /\ stage # None => stage \in Inodes
  BY DEF TypeOK, Linked
<1>4. \A i \in Inodes : text[i] # None => text[i] \in SUBSET Edit
  BY DEF TypeOK
<1>5. dest # None => text[dest] # None
  BY DEF TypeOK
<1> QED
  BY <1>1, <1>2, <1>3, <1>4, <1>5 DEF Names

LEMMA Snapshots ==
  ASSUME TypeOK, Names
  PROVE  /\ AtPath = None <=> dest = None
         /\ dest # None => AtPath.inode = dest /\ AtPath.text = text[dest] /\ AtPath \in File
         /\ \A n : Displaced(n) = None <=> n \notin DOMAIN previous
         /\ \A n \in DOMAIN previous :
              /\ Displaced(n).inode = previous[n] /\ Displaced(n).text = text[previous[n]]
              /\ Displaced(n) \in File
<1>1. \A i \in Inodes : text[i] \in SUBSET Edit =>
        Snapshot(i) # None /\ Snapshot(i).inode = i /\ Snapshot(i).text = text[i]
                           /\ Snapshot(i) \in File
  <2> SUFFICES ASSUME NEW i \in Inodes, text[i] \in SUBSET Edit
               PROVE  Snapshot(i) # None /\ Snapshot(i).inode = i /\ Snapshot(i).text = text[i]
                           /\ Snapshot(i) \in File
    OBVIOUS
  <2>1. i # None /\ i \in Nat
    BY Facts
  <2>2. Snapshot(i) = [inode |-> i, text |-> text[i]]
    BY <2>1 DEF Snapshot
  <2>3. Snapshot(i) \in File
    BY <2>1, <2>2 DEF File
  <2> QED
    BY <2>2, <2>3, Nobody
<1>2. Snapshot(None) = None
  BY DEF Snapshot
<1> QED
  BY <1>1, <1>2, Facts DEF AtPath, Displaced

-------------------------------------------------------------------------------
(* What a part of the invariant depends on.                                *)

LEMMA NamesStay ==
  ASSUME Names, UNCHANGED <<settled, dest, stage, previous, text, handle>>
  PROVE  Names'
BY DEF Names, Inodes

LEMMA AttemptsStay ==
  ASSUME Attempts, UNCHANGED <<desired, base, active, settled, stage, previous, text>>
  PROVE  Attempts'
BY DEF Attempts, Inodes, NewInode

LEMMA ReportsStay ==
  ASSUME Reports, SeenEdits \subseteq SeenEdits', UNCHANGED <<desired, settled, stage, text>>
  PROVE  Reports'
BY DEF Reports, Reported

LEMMA OwesStay ==
  ASSUME Owes, SeenEdits \subseteq SeenEdits', UNCHANGED <<owed, raced, dest, stage, previous, text>>
  PROVE  Owes'
<1>1. \A e : InFile(e, {})' <=> InFile(e, {})
  BY DEF InFile
<1> QED
  BY <1>1 DEF Owes, Safe

LEMMA KeptStays ==
  ASSUME UNCHANGED <<settled, dest, previous, text>>
  PROVE  Kept' = Kept /\ Shown' = Shown
BY DEF Kept, Shown, Away

LEMMA StemsStay ==
  ASSUME Stems, UNCHANGED <<base, active, settled, dest, stage, previous, text, removed>>
  PROVE  Stems'
<1>1. Kept' = Kept
  BY KeptStays
<1> QED
  BY <1>1 DEF Stems, From

LEMMA AloneStay ==
  ASSUME Alone, UNCHANGED <<base, active, settled, seen, dest, stage, previous, text>>
  PROVE  Alone'
BY DEF Alone, Waiting, Between, Out, InPlace, SetAside, There

LEMMA TypesStay ==
  ASSUME TypeOK, run' \in Run, seen' \subseteq Observation, crashes' \in 0 .. MaxCrashes,
         UNCHANGED <<desired, base, active, settled, disk, editor, saves>>
  PROVE  TypeOK'
BY DEF TypeOK, Linked, Inodes, disk, editor

(* When only the call and what has been observed change.                   *)
LEMMA FilesStay ==
  ASSUME Files, run' \in Run, seen' \subseteq Observation, SeenEdits \subseteq SeenEdits',
         crashes' \in 0 .. MaxCrashes,
         UNCHANGED <<desired, base, active, settled, disk, editor, saves>>
  PROVE  Files'
<1> USE DEF disk, editor
<1>1. TypeOK'
  BY TypesStay DEF Files
<1>2. Names' /\ Attempts'
  BY NamesStay, AttemptsStay DEF Files
<1>3. Reports'
  BY ReportsStay DEF Files
<1>4. Owes'
  BY OwesStay DEF Files
<1>5. Stems'
  BY StemsStay DEF Files
<1> QED
  BY <1>1, <1>2, <1>3, <1>4, <1>5 DEF Files

-------------------------------------------------------------------------------
(* Where a call goes.                                                      *)

LEMMA GotoFacts ==
  ASSUME run \in Run, NEW s \in Steps, Goto(s)
  PROVE  /\ run' \in Run /\ run'.at = s
         /\ run'.part = run.part /\ run'.left = run.left /\ run'.then = run.then
         /\ run'.displaces = run.displaces /\ run'.changed = run.changed
         /\ run'.old = run.old /\ run'.obs = run.obs
BY DEF Goto, Run

LEMMA EndFacts ==
  ASSUME run \in Run, End
  PROVE  /\ run' \in Run /\ run'.at \in {"idle", "observe"} /\ run'.then = "idle"
         /\ ~run'.changed
BY ZenonT(40) DEF End, Ended, Idle, Run, Steps

(* Nothing is asked of a call that is over or begins to observe.           *)
LEMMA Resting ==
  ASSUME run'.at \in {"idle", "observe"}, run'.then = "idle", ~run'.changed
  PROVE  /\ RunFits'
         /\ active' = None \/ run'.at = "idle" => Expected'
<1>1. Calls'
  BY DEF Calls, Working, Importing, Staged, Renamed
<1>2. Reading'
  BY DEF Reading, Importing
<1>3. active' = None \/ run'.at = "idle" => Expected'
  BY DEF Expected, Importing, Renamed
<1> QED
  BY <1>1, <1>2, <1>3 DEF RunFits

LEMMA Retires ==
  ASSUME run'.at = "retire", run'.left \subseteq DOMAIN settled',
         run'.then \in {"resume", "project", "failed"},
         run'.then = "failed" => active' = None
  PROVE  RunFits' /\ (run'.then # "failed" /\ ~run'.changed => Expected')
<1>1. Calls'
  BY DEF Calls, Working, Importing, Staged, Renamed
<1>2. Reading'
  BY DEF Reading, Importing
<1>3. run'.then # "failed" /\ ~run'.changed => Expected'
  BY DEF Expected, Importing, Renamed
<1> QED
  BY <1>1, <1>2, <1>3 DEF RunFits

(* A step that only moves the call and adds observations.                  *)
LEMMA Observing ==
  ASSUME IInv, run' \in Run, seen' \subseteq Observation, SeenEdits \subseteq SeenEdits',
         crashes' \in 0 .. MaxCrashes,
         UNCHANGED <<desired, base, active, settled, disk, editor, saves>>,
         RunFits', edits = 0 => seen' = seen /\ Expected'
  PROVE  IInv'
<1>1. Files'
  BY FilesStay DEF IInv
<1>2. ASSUME edits' = 0
      PROVE  Alone' /\ Expected'
  <2>1. edits = 0 /\ seen' = seen /\ Expected'
    BY <1>2 DEF editor
  <2>2. Alone'
    BY <2>1, AloneStay DEF IInv, disk
  <2> QED
    BY <2>1, <2>2
<1> QED
  BY <1>1, <1>2 DEF IInv

LEMMA Unchanged ==
  ASSUME IInv, edits = 0
  PROVE  ~run.changed
BY DEF IInv, Expected

LEMMA Starting ==
  ASSUME NEW part \in {"recover", "reconcile"}, run' = Starts(part), TypeOK,
         settled' = settled
  PROVE  run' \in Run /\ RunFits' /\ Expected'
<1>1. /\ run'.at = "retire" /\ run'.left = DOMAIN settled' /\ run'.then = "resume"
      /\ run' \in Run /\ ~run'.changed
  <2>1. DOMAIN settled \in SUBSET Nat
    BY DEF TypeOK
  <2> QED
    BY <2>1 DEF Starts, Idle, Run, Steps
<1> QED
  BY <1>1, Retires

(* The steps that only move the call.                                      *)
LEMMA Moving ==
  ASSUME IInv, Recover \/ Reconcile \/ Resume \/ Failed \/ Verify \/ Crash
  PROVE  IInv'
<1>1. TypeOK /\ run \in Run /\ seen \subseteq Observation /\ crashes \in 0 .. MaxCrashes
  BY DEF IInv, Files, TypeOK
<1>2. /\ UNCHANGED <<desired, base, active, settled, disk, editor, saves, seen>>
      /\ crashes' \in 0 .. MaxCrashes
  BY <1>1, JournalAssumption
     DEF Recover, Reconcile, Resume, Failed, Verify, Crash, db, disk, editor
<1>3. SeenEdits' = SeenEdits
  BY <1>2 DEF SeenEdits
<1> SUFFICES run' \in Run /\ RunFits' /\ (edits = 0 => Expected')
  BY <1>1, <1>2, <1>3, Observing
<1>4. CASE Recover \/ Reconcile
  BY <1>1, <1>2, <1>4, Starting DEF Recover, Reconcile
<1>5. CASE Resume
  <2>1. CASE active # None /\ Goto("look")
    <3>1. run' \in Run /\ run'.at = "look" /\ run'.then = run.then /\ run'.changed = run.changed
      BY <1>1, <2>1, GotoFacts DEF Steps
    <3>2. run.then # "failed"
      BY <2>1 DEF IInv, RunFits, Calls
    <3>3. Calls'
      BY <1>2, <2>1, <3>1, <3>2 DEF Calls, Working, Importing, Staged, Renamed
    <3>4. Reading'
      BY <3>1 DEF Reading, Importing
    <3>5. edits = 0 => Expected'
      BY <3>1, <3>2, Unchanged DEF Expected, Importing, Renamed
    <3> QED
      BY <3>1, <3>3, <3>4, <3>5 DEF RunFits
  <2>2. CASE active = None /\ End
    BY <1>1, <1>2, <2>2, EndFacts, Resting
  <2>3. CASE active = None /\ Goto("project")
    <3>1. run' \in Run /\ run'.at = "project" /\ run'.then = run.then /\ run'.changed = run.changed
      BY <1>1, <2>3, GotoFacts DEF Steps
    <3>2. Calls'
      <4>1. run.then # "failed"
        BY <1>5 DEF Resume, At, IInv, RunFits, Calls
      <4> QED
        BY <1>2, <2>3, <3>1, <4>1 DEF Calls, Working, Importing, Staged, Renamed
    <3>3. Reading'
      BY <3>1 DEF Reading, Importing
    <3>4. edits = 0 => Expected'
      BY <3>1, Unchanged DEF IInv, Expected, Importing, Renamed
    <3> QED
      BY <3>1, <3>2, <3>3, <3>4 DEF RunFits
  <2> QED
    BY <1>5, <2>1, <2>2, <2>3 DEF Resume
<1>6. CASE Failed
  <2>1. End /\ active = None
    BY <1>6 DEF Failed, IInv, RunFits, Calls, At
  <2> QED
    BY <1>1, <1>2, <2>1, EndFacts, Resting
<1>7. CASE Verify
  <2>1. active = None /\ run.at = "verify"
    BY <1>7 DEF Verify, IInv, RunFits, Calls, At
  <2>2. CASE End
    BY <1>1, <1>2, <2>1, <2>2, EndFacts, Resting
  <2>3. CASE /\ base # None
             /\ AtPath = [inode |-> run.obs.inode, text |-> run.obs.text]
             /\ Goto("import")
    <3>1. /\ run' \in Run /\ run'.at = "import" /\ run'.then = run.then
          /\ run'.changed = run.changed /\ run'.obs = run.obs
      BY <1>1, <2>3, GotoFacts DEF Steps
    <3>2. edits # 0
      BY <2>1 DEF IInv, Expected, Importing
    <3>3. Calls'
      BY <1>2, <2>1, <2>3, <3>1 DEF Calls, Working, Importing, Staged, Renamed, IInv, RunFits
    <3>4. dest # None /\ text[dest] = run.obs.text
      <4>1. run.obs \in Observation /\ run.obs.inode # None
        BY <1>1, <2>1 DEF IInv, RunFits, Calls, Importing
      <4>2. AtPath \in File
        BY <2>3, <4>1 DEF File, Observation
      <4> QED
        BY <2>3, <4>2, Snapshots, Nobody DEF IInv, Files
    <3>5. Reading'
      <4>1. Shown' = run.obs.text
        BY <1>2, <3>4, KeptStays DEF Shown, disk
      <4> QED
        BY <1>2, <2>1, <2>3, <3>1, <4>1 DEF Reading, Importing, IInv, RunFits, From, editor
    <3> QED
      BY <3>1, <3>2, <3>3, <3>5 DEF RunFits
  <2> QED
    BY <1>7, <2>2, <2>3 DEF Verify
<1>8. CASE Crash
  <2>1. run' \in Run /\ run'.at = "idle" /\ run'.then = "idle" /\ ~run'.changed
    BY <1>8 DEF Crash, Idle, Run, Steps
  <2> QED
    BY <2>1, Resting
<1> QED
  BY <1>4, <1>5, <1>6, <1>7, <1>8

-------------------------------------------------------------------------------
(* The steps that observe.                                                 *)

LEMMA Retaining ==
  ASSUME IInv, active # None, NEW files \in SUBSET File, Retain(files)
  PROVE  /\ seen' \subseteq Observation /\ seen \subseteq seen'
         /\ SeenEdits \subseteq SeenEdits'
         /\ \A f \in files : f.text \subseteq SeenEdits'
         /\ files = {} => seen' = seen
<1> DEFINE O(f) == [text |-> f.text, base |-> active.base, inode |-> None,
                    resolved |-> FALSE]
<1>1. seen \subseteq Observation /\ active.base \in Baseline \cup {None}
  BY DEF IInv, Files, TypeOK, Attempt
<1>2. seen' = seen \cup {O(f) : f \in files}
  BY DEF Retain
<1>3. \A f \in files : O(f) \in Observation /\ O(f).text = f.text
  BY <1>1 DEF Observation, File
<1> HIDE DEF O
<1>4. seen' \subseteq Observation /\ seen \subseteq seen' /\ (files = {} => seen' = seen)
  BY <1>1, <1>2, <1>3
<1>5. SeenEdits \subseteq SeenEdits'
  BY <1>4 DEF SeenEdits
<1>6. \A f \in files : f.text \subseteq SeenEdits'
  <2> SUFFICES ASSUME NEW f \in files
               PROVE  f.text \subseteq SeenEdits'
    OBVIOUS
  <2>1. O(f) \in seen' /\ O(f).text = f.text
    BY <1>2, <1>3
  <2> QED
    BY <2>1 DEF SeenEdits
<1> QED
  BY <1>4, <1>5, <1>6

(* Without an act of an editor the files tell where the attempt is.        *)
LEMMA Sorted ==
  ASSUME IInv, active # None, edits = 0
  PROVE  /\ KeptBackup = {} /\ ~ForeignBackup /\ ~EditedBackup
         /\ WasPublished => Out
         /\ ~WasPublished /\ Backup # None => Between
         /\ ~WasPublished /\ Backup = None => Waiting
         /\ seen = {}
<1>1. Waiting \/ Between \/ Out
  BY DEF IInv, Alone
<1>2. active.base = base
  BY DEF IInv, Files, Attempts
<1>3. Backup # None <=> active.id \in DOMAIN previous
  BY Snapshots DEF IInv, Files, Backup
<1>4. WasPublished <=> dest # None /\ active.stage # None /\ dest = active.stage
  BY Snapshots DEF IInv, Files, WasPublished, IsStage
<1>5. Waiting => ~WasPublished
  BY <1>4 DEF IInv, Files, Names, Waiting
<1>6. Backup # None => SetAside
  BY <1>1, <1>3 DEF Waiting, Between, Out
<1>7. Backup # None => ~ForeignBackup /\ ~EditedBackup
  BY <1>2, <1>3, <1>6, Snapshots
     DEF IInv, Files, Backup, SetAside, There, ForeignBackup, EditedBackup, Edited,
         SameText, SameInode
<1>8. KeptBackup = {} /\ ~ForeignBackup /\ ~EditedBackup
  BY <1>7 DEF KeptBackup, ForeignBackup, EditedBackup
<1> QED
  BY <1>1, <1>3, <1>4, <1>5, <1>8 DEF Between, Out, Waiting, SetAside, IInv, Alone

(* A call goes on with the attempt.                                        *)
LEMMA GoingOn ==
  ASSUME run'.at \in {"look", "restore", "reinstate", "cancel", "undo"},
         active' # None, run'.then # "failed",
         run'.at = "cancel" /\ base' # None /\ active'.id \in DOMAIN previous' =>
           From(base.text, Shown)'
  PROVE  RunFits'
<1>1. Calls'
  BY DEF Calls, Working, Importing, Staged, Renamed
<1>2. Reading'
  BY DEF Reading, Importing
<1> QED
  BY <1>1, <1>2 DEF RunFits

LEMMA Looking ==
  ASSUME IInv, Look
  PROVE  IInv'
<1>1. TypeOK /\ Names /\ run \in Run /\ crashes \in 0 .. MaxCrashes
  BY DEF IInv, Files, TypeOK
<1>2. /\ active # None /\ run.at = "look"
      /\ UNCHANGED <<desired, base, active, settled, disk, editor, saves, crashes>>
  BY DEF Look, LookForeign, LookPublished, LookSuperseded, LookDisplaced, LookUntouched,
         Looks, At
<1>3. run.then # "failed" /\ active.base = base
  BY <1>2 DEF IInv, RunFits, Calls, Files, Attempts
<1>4. KeptBackup \in SUBSET File
  BY <1>1, Snapshots DEF KeptBackup, ForeignBackup, EditedBackup, Backup
<1>5. AtPath # None => AtPath \in File /\ dest # None /\ AtPath.inode = dest
                       /\ AtPath.text = text[dest]
  BY <1>1, Snapshots
<1>6. edits = 0 => seen = {}
  BY <1>2, Sorted
<1> SUFFICES /\ \E files \in SUBSET File : Retain(files) /\ (edits = 0 => files = {})
             /\ run' \in Run /\ RunFits' /\ (edits = 0 => Expected')
  <2>1. PICK files \in SUBSET File : Retain(files) /\ (edits = 0 => files = {})
    OBVIOUS
  <2>2. /\ seen' \subseteq Observation /\ SeenEdits \subseteq SeenEdits'
        /\ files = {} => seen' = seen
    BY <1>2, <2>1, Retaining
  <2> QED
    BY <1>1, <1>2, <2>1, <2>2, Observing
<1>7. CASE LookForeign
  <2>1. Retain(KeptBackup) /\ End /\ edits # 0
    BY <1>2, <1>7, Sorted DEF LookForeign
  <2> QED
    BY <1>1, <1>4, <2>1, EndFacts, Resting
<1>8. CASE LookPublished
  <2>1. /\ WasPublished /\ Retain(KeptBackup \cup ChangedAtPath)
        /\ run' = [run EXCEPT !.at = "ack", !.changed = ChangedAtPath # {}]
    BY <1>8 DEF LookPublished, Looks
  <2>2. dest # None /\ active.stage # None /\ dest = active.stage /\ AtPath # None
    BY <1>1, <2>1, Snapshots DEF WasPublished, IsStage
  <2>3. stage = None
    BY <1>2, <2>2 DEF IInv, Files, Names, Attempts
  <2>4. /\ run' \in Run /\ run'.at = "ack" /\ run'.then = run.then
        /\ run'.changed = (ChangedAtPath # {})
    BY <1>1, <2>1 DEF Run, Steps
  <2>5. edits = 0 => Out /\ ChangedAtPath = {} /\ KeptBackup = {}
    BY <1>2, <1>5, <2>1, <2>2, Sorted DEF Out, ChangedAtPath
  <2>6. Calls'
    BY <1>2, <1>3, <2>2, <2>3, <2>4 DEF Calls, Working, Importing, Staged, Renamed, disk
  <2>7. Reading'
    BY <2>4 DEF Reading, Importing
  <2>8. edits = 0 => Expected'
    <3> SUFFICES ASSUME edits = 0
                 PROVE  Expected'
      OBVIOUS
    <3>1. Out'
      BY <1>2, <2>5 DEF Out, SetAside, There, disk
    <3> QED
      BY <1>3, <2>4, <2>5, <3>1 DEF Expected, Importing, Renamed
  <2>9. ChangedAtPath \in SUBSET File
    BY <1>5, <2>2 DEF ChangedAtPath
  <2>10. KeptBackup \cup ChangedAtPath \in SUBSET File
    BY <1>4, <2>9
  <2>11. edits = 0 => KeptBackup \cup ChangedAtPath = {}
    BY <2>5
  <2> QED
    BY <2>1, <2>4, <2>6, <2>7, <2>8, <2>10, <2>11 DEF RunFits
<1>9. CASE LookSuperseded
  <2> DEFINE more == IF AtPath # None /\ Edited(AtPath) THEN {AtPath} ELSE {}
             next == IF AtPath = None /\ Backup # None THEN "restore" ELSE "cancel"
  <2>1. ~WasPublished /\ Retain(KeptBackup \cup more) /\ Goto(next)
    BY <1>9 DEF LookSuperseded, Looks
  <2>2. KeptBackup \cup more \in SUBSET File
    BY <1>4, <1>5
  <2>3. next \in Steps /\ next \in {"restore", "cancel"}
    BY DEF Steps
  <2>4. ASSUME edits = 0
        PROVE  /\ KeptBackup \cup more = {}
               /\ IF next = "restore" THEN Between ELSE Waiting
    <3>1. KeptBackup = {} /\ (Backup # None => Between) /\ (Backup = None => Waiting)
      BY <1>2, <2>1, <2>4, Sorted
    <3>2. CASE Backup # None
      <4>1. dest = None /\ AtPath = None
        BY <1>5, <3>1, <3>2 DEF Between
      <4> QED
        BY <3>1, <3>2, <4>1
    <3>3. CASE Backup = None
      <4>1. AtPath # None => ~Edited(AtPath)
        BY <1>3, <1>5, <3>1, <3>3 DEF Waiting, InPlace, There, Edited, SameText
      <4> QED
        BY <3>1, <3>3, <4>1
    <3> QED
      BY <3>2, <3>3
  <2> HIDE DEF more, next
  <2>5. run' \in Run /\ run'.at = next /\ run'.then = run.then /\ run'.changed = run.changed
    BY <1>1, <2>1, <2>3, GotoFacts
  <2>6. RunFits'
    <3>1. ASSUME next = "cancel", base # None, active.id \in DOMAIN previous
          PROVE  From(base.text, Shown)
      <4>1. AtPath # None
        BY <1>1, <3>1, Snapshots DEF next, Backup
      <4>2. dest # None /\ Kept = Shown
        BY <1>5, <4>1 DEF Kept, Shown
      <4> QED
        BY <3>1, <4>2 DEF IInv, Files, Stems
    <3>2. Shown' = Shown /\ UNCHANGED <<base, active, previous, removed>>
      BY <1>2, KeptStays DEF disk, editor
    <3> QED
      BY <1>2, <1>3, <2>3, <2>5, <3>1, <3>2, GoingOn DEF From
  <2>7. edits = 0 => Expected'
    <3> SUFFICES ASSUME edits = 0
                 PROVE  Expected'
      OBVIOUS
    <3>1. (Between => Between') /\ (Waiting => Waiting')
      BY <1>2 DEF Between, Waiting, InPlace, SetAside, There, disk
    <3> QED
      BY <1>3, <2>3, <2>4, <2>5, <3>1, Unchanged DEF Expected, Importing, Renamed
  <2> QED
    BY <2>1, <2>2, <2>4, <2>5, <2>6, <2>7
<1>10. CASE LookDisplaced
  <2>1. ~WasPublished /\ Backup # None
    BY <1>10 DEF LookDisplaced
  <2>2. edits = 0 => Between /\ ~EditedBackup /\ KeptBackup = {} /\ AtPath = None
    BY <1>2, <1>5, <2>1, Sorted DEF Between
  <2>3. CASE EditedBackup /\ Looks({}) /\ IF AtPath = None THEN Goto("reinstate") ELSE End
    <3>1. edits # 0 /\ Retain(KeptBackup)
      BY <2>2, <2>3 DEF Looks, Retain
    <3>2. CASE End
      BY <1>1, <1>4, <3>1, <3>2, EndFacts, Resting
    <3>3. CASE Goto("reinstate")
      <4>1. /\ run' \in Run /\ run'.at = "reinstate" /\ run'.then = run.then
            /\ run'.changed = run.changed
        BY <1>1, <3>3, GotoFacts DEF Steps
      <4>2. RunFits'
        BY <1>2, <1>3, <4>1, GoingOn
      <4> QED
        BY <1>4, <3>1, <4>1, <4>2
    <3> QED
      BY <2>3, <3>2, <3>3
  <2>4. CASE ~EditedBackup /\ AtPath # None /\ Looks({AtPath}) /\ End
    <3>1. edits # 0 /\ Retain(KeptBackup \cup {AtPath})
      BY <2>2, <2>4 DEF Looks
    <3>2. KeptBackup \cup {AtPath} \in SUBSET File
      BY <1>4, <1>5, <2>4
    <3> QED
      BY <1>1, <2>4, <3>1, <3>2, EndFacts, Resting
  <2>5. CASE /\ ~EditedBackup /\ AtPath = None /\ Looks({})
             /\ run' = [run EXCEPT !.at = "stage", !.displaces = FALSE]
    <3>1. Retain(KeptBackup)
      BY <2>5 DEF Looks, Retain
    <3>2. /\ run' \in Run /\ run'.at = "stage" /\ run'.then = run.then
          /\ run'.changed = run.changed /\ ~run'.displaces
      BY <1>1, <2>5 DEF Run, Steps
    <3>3. Calls'
      BY <1>2, <1>3, <3>2 DEF Calls, Working, Importing, Staged, Renamed
    <3>4. Reading'
      BY <3>2 DEF Reading, Importing
    <3>5. Between => Empty'
      BY <1>2 DEF Empty, Between, SetAside, There, disk
    <3>6. edits = 0 => Expected'
      BY <1>3, <2>2, <3>2, <3>5, Unchanged DEF Expected, Importing, Renamed
    <3> QED
      BY <1>4, <2>2, <3>1, <3>2, <3>3, <3>4, <3>6 DEF RunFits
  <2> QED
    BY <1>10, <2>3, <2>4, <2>5 DEF LookDisplaced
<1>11. CASE LookUntouched
  <2>1. ~WasPublished /\ Backup = None /\ KeptBackup = {}
    BY <1>11 DEF LookUntouched, KeptBackup, ForeignBackup, EditedBackup
  <2>2. active.id \notin DOMAIN previous
    BY <1>1, <2>1, Snapshots DEF Backup
  <2>3. ASSUME edits = 0
        PROVE  /\ Waiting
               /\ AtPath # None => SameText(AtPath, active.base) /\ SameInode(AtPath, active.base)
               /\ base # None <=> AtPath # None
    <3>1. Waiting
      BY <1>2, <2>1, <2>3, Sorted
    <3> QED
      BY <1>1, <1>3, <1>5, <3>1, Snapshots DEF Waiting, InPlace, There, SameText, SameInode
  <2>4. ASSUME Looks({}), NEW moves \in BOOLEAN,
               run' = [run EXCEPT !.at = "stage", !.displaces = moves],
               moves <=> AtPath # None
        PROVE  /\ \E files \in SUBSET File : Retain(files) /\ (edits = 0 => files = {})
               /\ run' \in Run /\ RunFits' /\ (edits = 0 => Expected')
    <3>1. Retain({}) /\ {} \in SUBSET File
      BY <2>1, <2>4 DEF Looks, Retain
    <3>2. /\ run' \in Run /\ run'.at = "stage" /\ run'.then = run.then
          /\ run'.changed = run.changed /\ run'.displaces = moves
      BY <1>1, <2>4 DEF Run, Steps
    <3>3. Calls'
      BY <1>2, <1>3, <2>2, <3>2 DEF Calls, Working, Importing, Staged, Renamed, disk
    <3>4. Reading'
      BY <3>2 DEF Reading, Importing
    <3>5. Waiting => Waiting'
      BY <1>2 DEF Waiting, InPlace, There, disk
    <3>6. edits = 0 => Expected'
      <4> SUFFICES ASSUME edits = 0
                   PROVE  Expected'
        OBVIOUS
      <4>1. IF moves THEN Waiting' /\ base' # None ELSE Empty'
        BY <1>2, <2>3, <2>4, <3>5 DEF Empty
      <4> QED
        BY <1>3, <3>2, <4>1, Unchanged DEF Expected, Importing, Renamed
    <3> QED
      BY <3>1, <3>2, <3>3, <3>4, <3>6 DEF RunFits
  <2>5. CASE /\ active.base = None /\ AtPath = None /\ Looks({})
             /\ run' = [run EXCEPT !.at = "stage", !.displaces = FALSE]
    BY <2>4, <2>5
  <2>6. CASE /\ AtPath # None /\ Looks({})
             /\ run' = [run EXCEPT !.at = "stage", !.displaces = TRUE]
    BY <2>4, <2>6
  <2>7. CASE /\ AtPath # None /\ (Edited(AtPath) \/ ~SameInode(AtPath, active.base))
             /\ Looks({AtPath}) /\ End
    <3>1. Retain({AtPath}) /\ {AtPath} \in SUBSET File
      BY <1>5, <2>1, <2>7 DEF Looks, Retain
    <3>2. edits # 0
      BY <2>3, <2>7 DEF Edited
    <3> QED
      BY <1>1, <2>7, <3>1, <3>2, EndFacts, Resting
  <2>8. CASE active.base # None /\ AtPath = None /\ Looks({}) /\ End
    <3>1. Retain({}) /\ {} \in SUBSET File
      BY <2>1, <2>8 DEF Looks, Retain
    <3>2. edits # 0
      BY <1>3, <2>3, <2>8
    <3> QED
      BY <1>1, <2>8, <3>1, <3>2, EndFacts, Resting
  <2> QED
    BY <1>11, <2>5, <2>6, <2>7, <2>8 DEF LookUntouched
<1> QED
  BY <1>7, <1>8, <1>9, <1>10, <1>11 DEF Look

LEMMA Rereading ==
  ASSUME IInv, Check \/ Final \/ Acknowledge
  PROVE  IInv'
<1>1. /\ TypeOK /\ Names /\ run \in Run /\ crashes \in 0 .. MaxCrashes
      /\ seen \subseteq Observation
  BY DEF IInv, Files, TypeOK
<1>2. /\ run.at \in {"check", "final", "ack"}
      /\ UNCHANGED <<desired, base, active, settled, disk, editor, saves, crashes>>
  BY DEF Check, Final, Acknowledge, Confirm, At
<1>3. active # None /\ run.then # "failed" /\ active.base = base
  BY <1>2 DEF IInv, RunFits, Calls, Working, Files, Attempts
<1>4. KeptBackup \in SUBSET File
  BY <1>1, Snapshots DEF KeptBackup, ForeignBackup, EditedBackup, Backup
<1>5. AtPath # None => AtPath \in File /\ dest # None /\ AtPath.inode = dest
                       /\ AtPath.text = text[dest]
  BY <1>1, Snapshots
<1> SUFFICES /\ \/ seen' = seen
                \/ \E files \in SUBSET File : Retain(files) /\ (edits = 0 => files = {})
             /\ run' \in Run /\ RunFits' /\ (edits = 0 => Expected')
  <2>1. CASE seen' = seen
    <3>1. SeenEdits' = SeenEdits
      BY <2>1 DEF SeenEdits
    <3> QED
      BY <1>1, <1>2, <2>1, <3>1, Observing
  <2>2. CASE \E files \in SUBSET File : Retain(files) /\ (edits = 0 => files = {})
    <3>1. PICK files \in SUBSET File : Retain(files) /\ (edits = 0 => files = {})
      BY <2>2
    <3>2. /\ seen' \subseteq Observation /\ SeenEdits \subseteq SeenEdits'
          /\ files = {} => seen' = seen
      BY <1>3, <3>1, Retaining
    <3> QED
      BY <1>1, <1>2, <3>1, <3>2, Observing
  <2> QED
    BY <2>1, <2>2
<1>6. CASE Check
  <2> DEFINE next == IF KeptBackup = {} THEN "publish" ELSE "undo"
  <2>1. run.at = "check" /\ Retain(KeptBackup) /\ Goto(next)
    BY <1>6 DEF Check, At
  <2>2. next \in Steps /\ next \in {"publish", "undo"}
    BY DEF Steps
  <2>3. edits = 0 => Between /\ KeptBackup = {} /\ next = "publish"
    BY <1>3, <2>1, Sorted DEF IInv, Expected
  <2> HIDE DEF next
  <2>4. /\ run' \in Run /\ run'.at = next /\ run'.then = run.then /\ run'.changed = run.changed
    BY <1>1, <2>1, <2>2, GotoFacts
  <2>5. Complete /\ active.stage = stage
    BY <2>1 DEF IInv, RunFits, Calls, Staged
  <2>6. Calls'
    <3>1. Complete'
      BY <1>2, <2>5 DEF Complete, disk
    <3> QED
      BY <1>2, <1>3, <2>2, <2>4, <2>5, <3>1
         DEF Calls, Working, Importing, Staged, Renamed, disk
  <2>7. Reading'
    BY <2>2, <2>4 DEF Reading, Importing
  <2>8. Between => Empty'
    BY <1>2 DEF Empty, Between, SetAside, There, disk
  <2>9. edits = 0 => Expected'
    BY <1>3, <2>3, <2>4, <2>8, Unchanged DEF Expected, Importing, Renamed
  <2> QED
    BY <1>4, <2>1, <2>3, <2>4, <2>6, <2>7, <2>9 DEF RunFits
<1>7. ASSUME NEW step, NEW next, Confirm(step, next),
             (step = "final" /\ next = "ack") \/ (step = "ack" /\ next = "finish")
      PROVE  /\ \/ seen' = seen
                \/ \E files \in SUBSET File : Retain(files) /\ (edits = 0 => files = {})
             /\ run' \in Run /\ RunFits' /\ (edits = 0 => Expected')
  <2>1. run.at = step /\ run.at \in {"final", "ack"} /\ next \in {"ack", "finish"}
    BY <1>7 DEF Confirm, At
  <2>2. edits = 0 => Out /\ ~run.changed
    BY <2>1 DEF IInv, Expected, Renamed
  <2>3. stage = None /\ active.stage # None
    BY <2>1 DEF IInv, RunFits, Calls, Renamed
  <2>4. CASE AtPath = None /\ End /\ UNCHANGED seen
    <3>1. edits # 0
      BY <1>1, <2>2, <2>3, <2>4, Snapshots DEF Out
    <3> QED
      BY <1>1, <2>4, <3>1, EndFacts, Resting
  <2>5. CASE AtPath # None /\ ~IsStage(AtPath) /\ Retain({AtPath}) /\ End
    <3>1. edits # 0
      BY <1>5, <2>2, <2>3, <2>5 DEF Out, IsStage
    <3>2. {AtPath} \in SUBSET File
      BY <1>5, <2>5
    <3> QED
      BY <1>1, <2>5, <3>1, <3>2, EndFacts, Resting
  <2>6. CASE /\ AtPath # None /\ IsStage(AtPath) /\ Retain(ChangedAtPath)
             /\ run' = [run EXCEPT !.at = next, !.changed = @ \/ ChangedAtPath # {}]
    <3>1. dest # None /\ dest = active.stage
      BY <1>5, <2>6 DEF IsStage
    <3>2. /\ run' \in Run /\ run'.at = next /\ run'.then = run.then
          /\ run'.changed = (run.changed \/ ChangedAtPath # {})
      BY ZenonT(40), <1>1, <2>1, <2>6 DEF Run, Steps
    <3>3. ChangedAtPath \in SUBSET File
      BY <1>5, <2>6 DEF ChangedAtPath
    <3>4. edits = 0 => ChangedAtPath = {} /\ Out /\ ~run'.changed
      BY <1>5, <2>2, <2>6, <3>2 DEF ChangedAtPath, Out
    <3>5. Calls'
      BY <1>2, <1>3, <2>1, <2>3, <3>2 DEF Calls, Working, Importing, Staged, Renamed, disk
    <3>6. Reading'
      <4>1. From(active.target.text, Shown)
        BY <1>3, <3>1 DEF IInv, Files, Stems, Shown
      <4>2. Shown' = Shown
        BY <1>2, KeptStays DEF disk
      <4> QED
        BY <1>2, <2>1, <3>2, <4>1, <4>2 DEF Reading, Importing, From, editor
    <3>7. Out => Out'
      BY <1>2 DEF Out, SetAside, There, disk
    <3>8. edits = 0 => Expected'
      BY <1>3, <2>1, <3>2, <3>4, <3>7 DEF Expected, Importing, Renamed
    <3> QED
      BY <2>6, <3>2, <3>3, <3>4, <3>5, <3>6, <3>8 DEF RunFits
  <2> QED
    BY <1>7, <2>4, <2>5, <2>6 DEF Confirm
<1>8. CASE Final
  BY <1>7, <1>8 DEF Final
<1>9. CASE Acknowledge
  BY <1>7, <1>9 DEF Acknowledge
<1> QED
  BY <1>6, <1>8, <1>9

LEMMA Observes ==
  ASSUME IInv, Observe
  PROVE  IInv'
<1>1. /\ TypeOK /\ Names /\ run \in Run /\ crashes \in 0 .. MaxCrashes
      /\ seen \subseteq Observation /\ base \in Baseline \cup {None}
  BY DEF IInv, Files, TypeOK
<1>2. /\ run.at = "observe"
      /\ UNCHANGED <<desired, base, active, settled, disk, editor, saves, crashes>>
  BY DEF Observe, At
<1>3. AtPath # None => AtPath \in File /\ dest # None /\ AtPath.inode = dest
                       /\ AtPath.text = text[dest]
  BY <1>1, Snapshots
<1>4. AtPath = None => dest = None
  BY <1>1, Snapshots
<1>5. run.then # "failed"
  BY <1>2 DEF IInv, RunFits, Calls
<1>6. edits = 0 => active = None /\ InPlace /\ run.then # "failed"
  BY <1>2 DEF IInv, Expected, Alone
<1> SUFFICES /\ seen' \subseteq Observation /\ seen \subseteq seen'
             /\ edits = 0 => seen' = seen
             /\ run' \in Run /\ RunFits' /\ (edits = 0 => Expected')
  <2>1. SeenEdits \subseteq SeenEdits'
    BY DEF SeenEdits
  <2> QED
    BY <1>1, <1>2, <2>1, Observing
<1>7. ASSUME Goto("project")
      PROVE  run' \in Run /\ RunFits' /\ (edits = 0 => Expected')
  <2>1. run' \in Run /\ run'.at = "project" /\ run'.then = run.then /\ run'.changed = run.changed
    BY <1>1, <1>7, GotoFacts DEF Steps
  <2>2. Calls'
    BY <1>2, <1>5, <2>1 DEF Calls, Working, Importing, Staged, Renamed
  <2>3. Reading'
    BY <2>1 DEF Reading, Importing
  <2>4. edits = 0 => Expected'
    BY <1>6, <2>1, Unchanged DEF Expected, Importing, Renamed
  <2> QED
    BY <2>1, <2>2, <2>3, <2>4 DEF RunFits
<1>8. ASSUME End
      PROVE  run' \in Run /\ RunFits' /\ (edits = 0 => Expected')
  BY <1>1, <1>2, <1>6, <1>8, EndFacts, Resting
<1>9. CASE AtPath = None /\ UNCHANGED seen
  BY <1>1, <1>2, <1>7, <1>8, <1>9 DEF Observe
<1>10. CASE AtPath # None /\ Clean(AtPath) /\ Goto("project") /\ UNCHANGED seen
  BY <1>1, <1>7, <1>10
<1>11. ASSUME AtPath # None, NEW b \in BOOLEAN
       PROVE  /\ Observed(AtPath, b) \in Observation
              /\ Observed(AtPath, b).text = text[dest]
              /\ b => Observed(AtPath, b).inode # None
  BY <1>1, <1>3, <1>11, Nobody DEF Observed, Observation, File
<1>12. AtPath # None /\ edits = 0 => Clean(AtPath)
  BY <1>3, <1>6 DEF InPlace, There, Clean, SameText, SameInode
<1>13. CASE /\ AtPath # None /\ SameText(AtPath, base) /\ ~SameInode(AtPath, base)
            /\ seen' = seen \cup {Observed(AtPath, FALSE)} /\ End
  <2>1. edits # 0
    BY <1>12, <1>13 DEF Clean
  <2> QED
    BY <1>1, <1>8, <1>11, <1>13, <2>1
<1>14. CASE /\ AtPath # None /\ ~SameText(AtPath, base)
            /\ LET o == Observed(AtPath, TRUE) IN
                 /\ seen' = seen \cup {o}
                 /\ IF active # None /\ ~Undisplaced(AtPath) THEN End
                    ELSE run' = [run EXCEPT !.at = IF active # None THEN "drop"
                                                   ELSE "verify", !.obs = o]
  <2> DEFINE o == Observed(AtPath, TRUE)
             next == IF active # None THEN "drop" ELSE "verify"
  <2>1. edits # 0
    BY <1>12, <1>14 DEF Clean
  <2>2. o \in Observation /\ o.text = text[dest] /\ o.inode # None
    BY <1>11, <1>14
  <2>3. next \in Steps /\ next \in Importing /\ next # "import"
        /\ (next = "drop" => active # None) /\ (next = "verify" => active = None)
    BY DEF Steps, Importing
  <2>4. seen' = seen \cup {o}
    BY <1>14
  <2>5. End \/ run' = [run EXCEPT !.at = next, !.obs = o]
    BY <1>14
  <2> HIDE DEF o, next
  <2>6. seen' \subseteq Observation /\ seen \subseteq seen' /\ o \in seen'
    BY <1>1, <2>2, <2>4
  <2>7. CASE End
    BY <1>8, <2>1, <2>6, <2>7
  <2>8. CASE run' = [run EXCEPT !.at = next, !.obs = o]
    <3>1. /\ run' \in Run /\ run'.at = next /\ run'.then = run.then
          /\ run'.changed = run.changed /\ run'.obs = o
      BY <1>1, <2>2, <2>3, <2>8 DEF Run
    <3>2. Calls'
      BY <1>2, <1>5, <2>2, <2>3, <2>6, <3>1 DEF Calls, Working, Importing, Staged, Renamed
    <3>3. base # None => From(base.text, o.text)
      BY <1>3, <1>14, <2>2 DEF IInv, Files, Stems, Kept
    <3>4. Reading'
      BY <1>2, <2>3, <3>1, <3>3 DEF Reading, Importing, From, editor
    <3> QED
      BY <2>1, <2>6, <3>1, <3>2, <3>4 DEF RunFits
  <2> QED
    BY <2>5, <2>7, <2>8
<1> QED
  BY <1>9, <1>10, <1>13, <1>14 DEF Observe

-------------------------------------------------------------------------------
(* Displaced files.                                                        *)

LEMMA OwesGo ==
  ASSUME Owes, UNCHANGED <<owed, raced>>, SeenEdits \subseteq SeenEdits',
         \A e \in owed \ raced : InFile(e, {}) => e \in SeenEdits' \/ InFile(e, {})'
  PROVE  Owes'
BY DEF Owes, Safe

LEMMA Retirement ==
  ASSUME IInv, Retire
  PROVE  IInv'
<1>1. /\ TypeOK /\ Names /\ run \in Run /\ crashes \in 0 .. MaxCrashes
      /\ seen \subseteq Observation
      /\ \A n \in DOMAIN settled : settled[n] \in Baseline \cup {None}
      /\ DOMAIN settled \subseteq Nat
  BY DEF IInv, Files, TypeOK
<1>2. /\ run.at = "retire"
      /\ UNCHANGED <<desired, base, active, settled, disk, editor, saves, crashes>>
  BY DEF Retire, At
<1>3. /\ run.left \subseteq DOMAIN settled /\ run.then \in {"resume", "project", "failed"}
      /\ run.then = "failed" => active = None
  BY <1>2 DEF IInv, RunFits, Calls
<1>4. edits = 0 => run.then # "failed"
  BY DEF IInv, Expected
<1> SUFFICES /\ seen' \subseteq Observation /\ seen \subseteq seen'
             /\ edits = 0 => seen' = seen
             /\ run' \in Run /\ RunFits' /\ (edits = 0 => Expected')
  <2>1. SeenEdits \subseteq SeenEdits'
    BY DEF SeenEdits
  <2> QED
    BY <1>1, <1>2, <2>1, Observing
<1>5. CASE /\ run.left = {}
           /\ run' = [Idle EXCEPT !.at = run.then, !.part = run.part, !.blocked = run.blocked]
           /\ UNCHANGED seen
  <2>1. run' \in Run /\ run'.at = run.then /\ run'.then = "idle" /\ ~run'.changed
    BY <1>1, <1>5 DEF Idle, Run, Steps
  <2>2. Calls'
    BY <1>2, <1>3, <2>1 DEF Calls, Working, Importing, Staged, Renamed
  <2>3. Reading'
    BY <1>3, <2>1 DEF Reading, Importing
  <2>4. edits = 0 => Expected'
    BY <1>3, <1>4, <2>1 DEF Expected, Importing, Renamed
  <2> QED
    BY <1>1, <1>5, <2>1, <2>2, <2>3, <2>4 DEF RunFits
<1> DEFINE n == First(run.left)
<1>6. run.left # {} => n \in run.left /\ n \in DOMAIN settled /\ n \in DOMAIN previous
  <2>1. run.left \in SUBSET Nat
    BY <1>1, <1>3
  <2> QED
    BY <1>1, <1>3, <2>1, FirstFacts DEF Names
<1> HIDE DEF n
<1>7. CASE /\ run.left # {} /\ SameInode(Displaced(n), settled[n])
           /\ seen' = seen \cup
                {[text |-> f.text, base |-> settled[n], inode |-> None, resolved |-> FALSE] :
                   f \in CapturedBefore(Displaced(n), settled[n])}
           /\ run' = [run EXCEPT !.at = "unlink", !.old = Displaced(n)]
  <2> DEFINE old == Displaced(n)
             o == [text |-> old.text, base |-> settled[n], inode |-> None, resolved |-> FALSE]
  <2>1. old \in File /\ old # None /\ old.inode = previous[n] /\ old.text = text[previous[n]]
    BY <1>1, <1>6, <1>7, Snapshots, Nobody
  <2>2. settled[n] # None
    BY <1>7 DEF SameInode
  <2>3. o \in Observation /\ o.text = old.text
    BY <1>1, <1>6, <1>7, <2>1 DEF Observation, File
  <2>4. \/ SameText(old, settled[n]) /\ seen' = seen
        \/ seen' = seen \cup {o}
    <3>1. CASE SameText(old, settled[n])
      <4>1. CapturedBefore(old, settled[n]) = {}
        BY <3>1 DEF CapturedBefore
      <4> QED
        BY <1>7, <3>1, <4>1
    <3>2. CASE ~SameText(old, settled[n])
      <4>1. CapturedBefore(old, settled[n]) = {old}
        BY <3>2 DEF CapturedBefore
      <4> QED
        BY <1>7, <4>1
    <3> QED
      BY <3>1, <3>2
  <2>5. run' = [run EXCEPT !.at = "unlink", !.old = old]
    BY <1>7
  <2>6. edits = 0 => SameText(old, settled[n])
    BY <1>6, <1>7, <2>1, <2>2 DEF IInv, Alone, There, SameText
  <2> HIDE DEF old, o
  <2>7. /\ run' \in Run /\ run'.at = "unlink" /\ run'.then = run.then /\ run'.changed = run.changed
        /\ run'.left = run.left /\ run'.old = old
    BY <1>1, <2>1, <2>5 DEF Run, Steps, File
  <2>8. Calls'
    BY <1>2, <1>3, <1>7, <2>1, <2>7 DEF Calls, Working, Importing, Staged, Renamed
  <2>9. Reading'
    <3>1. CASE SameText(old, settled[n]) /\ seen' = seen
      <4>1. Reported(settled[n].text)
        BY <1>6, <1>7, <2>2 DEF IInv, Files, Reports, Reported
      <4>2. SeenEdits' = SeenEdits
        BY <3>1 DEF SeenEdits
      <4>3. run'.old.text = settled[n].text
        BY <2>7, <3>1 DEF SameText
      <4> QED
        BY <2>7, <4>1, <4>2, <4>3 DEF Reading, Importing, Reported
    <3>2. CASE seen' = seen \cup {o}
      <4>1. old.text \subseteq SeenEdits'
        BY <2>3, <3>2 DEF SeenEdits
      <4> QED
        BY <2>7, <4>1 DEF Reading, Importing, Reported
    <3> QED
      BY <2>4, <3>1, <3>2
  <2>10. edits = 0 => Expected'
    BY <1>4, <2>7, Unchanged DEF Expected, Importing, Renamed
  <2>11. seen' \subseteq Observation /\ seen \subseteq seen'
    BY <1>1, <2>3, <2>4
  <2>12. edits = 0 => seen' = seen
    <3>1. edits = 0 => CapturedBefore(old, settled[n]) = {}
      BY <2>6 DEF CapturedBefore
    <3> QED
      BY <1>7, <3>1 DEF old
  <2> QED
    BY <2>7, <2>8, <2>9, <2>10, <2>11, <2>12 DEF RunFits
<1>8. CASE /\ run' = [run EXCEPT !.left = @ \ {n}, !.blocked = TRUE]
           /\ UNCHANGED seen
  <2>1. /\ run' \in Run /\ run'.at = "retire" /\ run'.then = run.then
        /\ run'.changed = run.changed /\ run'.left = run.left \ {n}
    BY <1>1, <1>2, <1>8 DEF Run
  <2>2. RunFits' /\ (run.then # "failed" /\ ~run.changed => Expected')
    BY <1>2, <1>3, <2>1, Retires
  <2> QED
    BY <1>1, <1>4, <1>8, <2>1, <2>2, Unchanged
<1> QED
  BY <1>5, <1>7, <1>8 DEF Retire, n

LEMMA Unlinking ==
  ASSUME IInv, Unlink
  PROVE  IInv'
<1>1. /\ TypeOK /\ Names /\ run \in Run /\ seen \subseteq Observation
      /\ crashes \in 0 .. MaxCrashes
  BY DEF IInv, Files, TypeOK
<1>2. run.at = "unlink" /\ UNCHANGED <<db, disk, editor, saves, crashes>>
  BY DEF Unlink, At
<1>3. /\ run.left \subseteq DOMAIN settled /\ run.then \in {"resume", "project", "failed"}
      /\ run.then = "failed" => active = None
      /\ run.left # {} /\ run.old # None /\ Reported(run.old.text)
  BY <1>2 DEF IInv, RunFits, Calls, Reading
<1>4. edits = 0 => run.then # "failed"
  BY DEF IInv, Expected
<1>5. UNCHANGED <<desired, base, active, settled, disk, editor, saves, crashes, seen>>
  BY <1>2 DEF db
<1>6. SeenEdits' = SeenEdits
  BY <1>5 DEF SeenEdits
<1> SUFFICES run' \in Run /\ RunFits' /\ (edits = 0 => Expected')
  BY <1>1, <1>5, <1>6, Observing
<1> DEFINE n == First(run.left)
<1>7. CASE Displaced(n) = run.old /\ Goto("remove")
  <2>1. /\ run' \in Run /\ run'.at = "remove" /\ run'.then = run.then
        /\ run'.changed = run.changed /\ run'.left = run.left
    BY <1>1, <1>7, GotoFacts DEF Steps
  <2>2. Calls'
    BY <1>3, <1>5, <2>1 DEF Calls, Working, Importing, Staged, Renamed
  <2>3. n \in DOMAIN previous /\ text[previous[n]] = run.old.text
    BY <1>1, <1>3, <1>7, Snapshots
  <2> HIDE DEF n
  <2>4. \A e \in owed \ raced : e \in SeenEdits \/ InFile(e, {n})
    <3> SUFFICES ASSUME NEW e \in owed \ raced, e \notin SeenEdits
                 PROVE  InFile(e, {n})
      OBVIOUS
    <3>1. e.by = "editor" /\ InFile(e, {})
      BY DEF IInv, Files, Owes, Safe
    <3>2. e \notin text[previous[n]]
      BY <1>3, <2>3, <3>1 DEF Reported
    <3> QED
      BY <3>1, <3>2 DEF InFile
  <2>5. Safe({First(run.left)})'
    <3>1. \A e : InFile(e, {n}) => InFile(e, {First(run.left)})'
      BY <1>5, <2>1 DEF InFile, disk, n
    <3> QED
      BY <1>5, <1>6, <2>4, <3>1 DEF Safe, editor
  <2>6. Reading'
    BY <2>1, <2>5 DEF Reading, Importing
  <2>7. edits = 0 => Expected'
    BY <1>4, <2>1, Unchanged DEF Expected, Importing, Renamed
  <2> QED
    BY <2>1, <2>2, <2>6, <2>7 DEF RunFits
<1>8. CASE run' = [run EXCEPT !.at = "retire", !.left = @ \ {n}, !.old = None, !.blocked = TRUE]
  <2>1. /\ run' \in Run /\ run'.at = "retire" /\ run'.then = run.then
        /\ run'.changed = run.changed /\ run'.left = run.left \ {n}
    BY <1>1, <1>8 DEF Run, Steps
  <2>2. RunFits' /\ (run.then # "failed" /\ ~run.changed => Expected')
    BY <1>3, <1>5, <2>1, Retires
  <2> QED
    BY <1>4, <2>1, <2>2, Unchanged
<1> QED
  BY <1>7, <1>8 DEF Unlink

LEMMA Removing ==
  ASSUME IInv, Remove
  PROVE  IInv'
<1>1. /\ Files /\ TypeOK /\ Names /\ run \in Run
      /\ seen \subseteq Observation /\ crashes \in 0 .. MaxCrashes
  BY DEF IInv, Files, TypeOK
<1> DEFINE n == First(run.left)
<1>2. /\ run.at = "remove"
      /\ UNCHANGED <<desired, base, active, seen, dest, stage, editor, saves, crashes>>
      /\ previous' = Drop(previous, n)
      /\ settled' = Drop(settled, n)
      /\ text' = Forgotten({previous[n]})
      /\ run' = [run EXCEPT !.at = "retire", !.left = @ \ {n}, !.old = None]
  BY DEF Remove, At
<1>3. /\ run.left \subseteq DOMAIN settled /\ run.then \in {"resume", "project", "failed"}
      /\ run.then = "failed" => active = None
      /\ run.left # {}
  BY <1>2 DEF IInv, RunFits, Calls
<1>4. edits = 0 => run.then # "failed"
  BY DEF IInv, Expected
<1>5. n \in run.left
  <2>1. run.left \in SUBSET Nat
    BY <1>1 DEF Run
  <2> QED
    BY <1>3, <2>1, FirstFacts
<1>6. SeenEdits' = SeenEdits
  BY <1>2 DEF SeenEdits
<1>7. Safe({n})
  BY <1>2 DEF IInv, RunFits, Reading
<1> HIDE DEF n
<1>8. n \in DOMAIN previous /\ previous[n] \in Inodes /\ n \in DOMAIN settled
  BY <1>1, <1>3, <1>5 DEF Names
<1>9. /\ DOMAIN previous' = DOMAIN previous \ {n}
      /\ \A m \in DOMAIN previous : m # n => previous'[m] = previous[m]
  BY <1>2, DropFacts
<1>10. /\ DOMAIN settled' = DOMAIN settled \ {n}
       /\ \A m \in DOMAIN settled : m # n => settled'[m] = settled[m]
  BY <1>2, DropFacts
<1>11. /\ Inodes' = Inodes /\ NewInode' = NewInode /\ text'[previous[n]] = {}
       /\ \A i \in Inodes : i # previous[n] => text'[i] = text[i]
  <2>1. /\ DOMAIN text' = Inodes /\ text'[previous[n]] = {}
        /\ \A i \in Inodes : i # previous[n] => text'[i] = text[i]
    BY <1>2, <1>8, ForgottenFacts
  <2> QED
    BY <2>1 DEF Inodes, NewInode
<1>12. /\ run' \in Run /\ run'.at = "retire" /\ run'.then = run.then
       /\ run'.changed = run.changed /\ run'.left = run.left \ {n}
  BY <1>1, <1>2 DEF Run, Steps
<1>13. /\ \A m \in DOMAIN previous' :
            /\ m # n /\ m \in DOMAIN previous /\ previous'[m] = previous[m]
            /\ previous[m] # previous[n] /\ text'[previous[m]] = text[previous[m]]
       /\ dest # None => dest \in Inodes /\ text'[dest] = text[dest]
       /\ stage # None => stage \in Inodes /\ text'[stage] = text[stage]
  BY <1>1, <1>8, <1>9, <1>11, Facts DEF Names
<1> HIDE <1>2
<1>14. TypeOK'
  <2>1. Linked' \subseteq Inodes'
    BY <1>1, <1>2, <1>11, <1>13, Facts DEF Linked
  <2>2. \A i \in Inodes' : text'[i] \in (SUBSET Edit) \cup {None}
    BY <1>11 DEF TypeOK, Files, IInv
  <2> QED
    BY <1>1, <1>2, <1>9, <1>10, <1>11, <1>12, <1>13, <2>1, <2>2 DEF TypeOK, editor
<1>15. Names'
  <2>1. /\ dest' # None => dest' # stage'
        /\ stage' # None => handle' # stage'
        /\ Cardinality(Inodes') \in Nat /\ Inodes' = 1 .. Cardinality(Inodes')
    BY <1>1, <1>2, <1>11 DEF Names, editor
  <2>2. \A m \in DOMAIN previous' :
          /\ previous'[m] \in Inodes' /\ text'[previous'[m]] # None
          /\ previous'[m] # dest' /\ previous'[m] # stage'
    <3> SUFFICES ASSUME NEW m \in DOMAIN previous'
                 PROVE  /\ previous'[m] \in Inodes' /\ text'[previous'[m]] # None
                        /\ previous'[m] # dest' /\ previous'[m] # stage'
      OBVIOUS
    <3>1. /\ m \in DOMAIN previous /\ previous'[m] = previous[m]
          /\ text'[previous[m]] = text[previous[m]]
      BY <1>13
    <3>2. /\ previous[m] \in Inodes /\ text[previous[m]] # None
          /\ previous[m] # dest /\ previous[m] # stage
      BY <1>1, <3>1 DEF Names
    <3> QED
      BY <1>2, <1>11, <3>1, <3>2
  <2>3. /\ \A l, m \in DOMAIN previous' : previous'[l] = previous'[m] => l = m
        /\ DOMAIN previous' \subseteq Inodes' /\ DOMAIN settled' \subseteq DOMAIN previous'
    BY <1>1, <1>9, <1>10, <1>11, <1>13 DEF Names
  <2> QED
    BY <2>1, <2>2, <2>3 DEF Names
<1>16. Attempts'
  BY <1>1, <1>2, <1>10, <1>11, <1>13 DEF Attempts, Files
<1>17. Reports'
  BY <1>1, <1>2, <1>6, <1>10, <1>13 DEF Reports, Reported, Files
<1>18. Owes'
  <2>1. \A e : InFile(e, {n}) => InFile(e, {})'
    BY <1>2, <1>9, <1>13 DEF InFile
  <2>2. Safe({})'
    BY <1>2, <1>6, <1>7, <2>1 DEF Safe, editor
  <2> QED
    BY <1>1, <1>2, <2>2 DEF Owes, Files, editor
<1>19. Stems'
  <2>1. Kept \subseteq Kept'
    <3>1. ASSUME NEW m \in DOMAIN previous \ DOMAIN settled
          PROVE  /\ m \in DOMAIN previous' \ DOMAIN settled' /\ previous'[m] = previous[m]
                 /\ text'[previous'[m]] = text[previous[m]]
      BY <1>8, <1>9, <1>10, <1>13
    <3>2. CASE dest # None
      BY <1>2, <1>13, <3>2 DEF Kept
    <3>3. CASE dest = None
      BY <1>2, <3>1, <3>3 DEF Kept, Away
    <3> QED
      BY <3>2, <3>3
  <2>2. active # None => active.id # n
    BY <1>1, <1>8 DEF Files, Attempts
  <2> QED
    BY <1>1, <1>2, <1>9, <1>13, <2>1, <2>2 DEF Stems, From, Files, editor
<1>20. RunFits' /\ (run.then # "failed" /\ ~run.changed => Expected')
  BY <1>2, <1>3, <1>10, <1>12, Retires
<1>21. ASSUME edits = 0
       PROVE  Alone'
  <2>1. Alone /\ (active # None => active.id # n)
    BY <1>1, <1>8, <1>21 DEF IInv, Files, Attempts
  <2>2. \A m \in DOMAIN settled' : settled'[m] # None /\ There(previous[m], settled[m])'
    BY <1>1, <1>10, <1>9, <1>13, <2>1 DEF Alone, There, Names
  <2>3. (InPlace => InPlace')
    BY <1>2, <1>13 DEF InPlace, There
  <2>4. active # None => /\ active.id \in DOMAIN previous' <=> active.id \in DOMAIN previous
                         /\ SetAside => SetAside'
    BY <1>2, <1>9, <1>13, <2>1 DEF SetAside, There
  <2>5. active # None => Waiting' \/ Between' \/ Out'
    BY <1>2, <1>13, <2>1, <2>3, <2>4 DEF Alone, Waiting, Between, Out
  <2> QED
    BY <1>2, <1>10, <1>9, <2>1, <2>2, <2>3, <2>5, <1>13 DEF Alone
<1> QED
  BY <1>2, <1>4, <1>14, <1>15, <1>16, <1>17, <1>18, <1>19, <1>20, <1>21, Unchanged
     DEF IInv, Files, editor

-------------------------------------------------------------------------------
(* The transactions.                                                       *)

LEMMA Saving ==
  ASSUME IInv, Save
  PROVE  IInv'
<1> DEFINE e == [by |-> "app", n |-> saves + 1]
<1>1. TypeOK /\ Names
  BY DEF IInv, Files
<1>2. /\ UNCHANGED <<base, active, settled, seen, disk, editor, crashes>>
      /\ saves' = saves + 1 /\ saves < MaxSaves /\ saves + edits < MaxActs
      /\ desired' = [rev |-> desired.rev + 1, text |-> desired.text \cup {e}]
      /\ run' = Starts("recover")
  BY DEF Save
<1>3. saves \in Nat /\ edits \in Nat /\ {MaxSaves, MaxActs} \subseteq Nat
      /\ desired \in Version
  BY <1>1, JournalAssumption DEF TypeOK
<1>4. e \in Edit /\ e.by = "app" /\ saves' \in 0 .. MaxSaves
  BY <1>2, <1>3 DEF Edit
<1> HIDE DEF e
<1>5. /\ desired' \in Version /\ desired'.text = desired.text \cup {e}
      /\ desired.text \subseteq desired'.text
  BY <1>2, <1>3, <1>4 DEF Version
<1>6. SeenEdits' = SeenEdits
  BY <1>2 DEF SeenEdits
<1>7. run' \in Run /\ RunFits' /\ Expected'
  BY <1>1, <1>2, Starting
<1>8. TypeOK'
  BY <1>1, <1>2, <1>4, <1>5, <1>7 DEF TypeOK, Linked, Inodes, disk, editor
<1>9. Names'
  BY <1>1, <1>2, NamesStay DEF disk, editor
<1>10. Attempts'
  BY <1>2, <1>5 DEF IInv, Files, Attempts, Inodes, NewInode, disk
<1>11. Reports'
  BY <1>2, <1>4, <1>5, <1>6 DEF IInv, Files, Reports, Reported, disk
<1>12. Owes'
  BY <1>2, <1>6, OwesStay DEF IInv, Files, disk, editor
<1>13. Stems'
  BY <1>2, StemsStay DEF IInv, Files, disk, editor
<1>14. edits' = 0 => Alone'
  BY <1>2, AloneStay DEF IInv, disk, editor
<1> QED
  BY <1>7, <1>8, <1>9, <1>10, <1>11, <1>12, <1>13, <1>14 DEF IInv, Files

LEMMA Projecting ==
  ASSUME IInv, Project
  PROVE  IInv'
<1>1. /\ TypeOK /\ Names /\ Attempts /\ Stems /\ run \in Run /\ crashes \in 0 .. MaxCrashes
      /\ seen \subseteq Observation /\ desired \in Version /\ base \in Baseline \cup {None}
  BY DEF IInv, Files, TypeOK
<1>2. /\ run.at = "project"
      /\ UNCHANGED <<desired, base, settled, seen, disk, editor, saves, crashes>>
  BY DEF Project, At
<1>3. SeenEdits' = SeenEdits
  BY <1>2 DEF SeenEdits
<1>4. run.then # "failed"
  BY <1>2 DEF IInv, RunFits, Calls
<1>5. CASE active # None /\ Goto("look") /\ UNCHANGED active
  <2>1. run' \in Run /\ run'.at = "look" /\ run'.then = run.then /\ run'.changed = run.changed
    BY <1>1, <1>5, GotoFacts DEF Steps
  <2>2. RunFits'
    BY <1>4, <1>5, <2>1, GoingOn
  <2>3. edits = 0 => Expected'
    BY <1>4, <1>5, <2>1, Unchanged DEF Expected, Importing, Renamed
  <2> QED
    BY <1>1, <1>2, <1>3, <1>5, <2>1, <2>2, <2>3, Observing
<1>6. CASE active = None /\ End /\ UNCHANGED active
  <2>1. run' \in Run /\ RunFits' /\ Expected'
    BY <1>1, <1>6, EndFacts, Resting
  <2> QED
    BY <1>1, <1>2, <1>3, <1>6, <2>1, Observing
<1>7. CASE /\ active = None
           /\ active' = [id |-> NewInode, base |-> base, target |-> desired,
                         phase |-> "prepared", stage |-> None]
           /\ Goto("look")
  <2>1. /\ active' \in Attempt /\ active' # None /\ active'.id = NewInode /\ active'.base = base
        /\ active'.target = desired /\ active'.stage = None
    <3>1. NewInode \in Nat
      BY <1>1, Facts
    <3> QED
      BY <1>1, <1>7, <3>1, Nobody DEF Attempt
  <2>2. run' \in Run /\ run'.at = "look" /\ run'.then = run.then /\ run'.changed = run.changed
    BY <1>1, <1>7, GotoFacts DEF Steps
  <2>3. NewInode \notin DOMAIN previous /\ NewInode \notin DOMAIN settled /\ stage = None
    BY <1>1, <1>7, Facts DEF Names, Attempts
  <2>4. TypeOK'
    BY <1>1, <1>2, <2>1, <2>2 DEF TypeOK, Linked, Inodes, disk, editor
  <2>5. Names'
    BY <1>1, <1>2, NamesStay DEF disk, editor
  <2>6. Attempts'
    BY <1>1, <1>2, <1>7, <2>1, <2>3 DEF Attempts, Inodes, NewInode, disk
  <2>7. Reports'
    BY <1>2, <1>3, ReportsStay DEF IInv, Files, disk
  <2>8. Owes'
    BY <1>2, <1>3, OwesStay DEF IInv, Files, disk, editor
  <2>9. Stems'
    <3>1. Kept' = Kept
      BY <1>2, KeptStays DEF disk
    <3> QED
      BY <1>1, <1>2, <2>1, <2>3, <3>1 DEF Stems, From, disk, editor
  <2>10. RunFits'
    BY <1>4, <2>1, <2>2, GoingOn
  <2>11. edits = 0 => Expected'
    BY <1>4, <2>1, <2>2, Unchanged DEF Expected, Importing, Renamed
  <2>12. ASSUME edits = 0
         PROVE  Alone'
    <3>1. Alone /\ InPlace
      BY <1>7, <2>12 DEF IInv, Alone
    <3>2. InPlace'
      BY <1>2, <3>1 DEF InPlace, There, disk
    <3>3. Waiting'
      BY <1>2, <2>1, <2>3, <3>2 DEF Waiting, disk
    <3> QED
      BY <1>2, <2>1, <3>1, <3>3 DEF Alone, There, disk
  <2> QED
    BY <1>2, <2>4, <2>5, <2>6, <2>7, <2>8, <2>9, <2>10, <2>11, <2>12 DEF IInv, Files, editor
<1> QED
  BY <1>5, <1>6, <1>7 DEF Project

LEMMA Marking ==
  ASSUME IInv, Mark
  PROVE  IInv'
<1>1. /\ TypeOK /\ Names /\ Attempts /\ Stems /\ run \in Run /\ crashes \in 0 .. MaxCrashes
  BY DEF IInv, Files, TypeOK
<1>2. /\ run.at \in {"mark", "moved", "published"}
      /\ UNCHANGED <<desired, base, settled, seen, disk, editor, saves, crashes>>
      /\ \/ /\ run.at = "mark"
            /\ active' = [active EXCEPT !.phase = "staged", !.stage = stage]
            /\ Goto(IF run.displaces THEN "displace" ELSE "publish")
         \/ /\ run.at = "moved"
            /\ active' = [active EXCEPT !.phase = "displaced"]
            /\ Goto("check")
         \/ /\ run.at = "published"
            /\ active' = [active EXCEPT !.phase = "published"]
            /\ Goto("final")
  BY DEF Mark, At
<1>3. active # None /\ active \in Attempt /\ run.then # "failed"
  BY <1>1, <1>2 DEF IInv, RunFits, Calls, Working, TypeOK
<1>4. Calls /\ (edits = 0 => Expected /\ Alone)
  BY DEF IInv, RunFits
<1>5. run.at = "mark" => Complete /\ stage # None /\ stage \in Inodes /\ Inodes \subseteq Nat
  BY <1>1, <1>4, Facts DEF Calls, Staged, Complete
<1>6. run.at = "moved" => Complete /\ active.stage = stage
  BY <1>4 DEF Calls, Staged
<1> DEFINE next == IF run.at = "mark" THEN IF run.displaces THEN "displace" ELSE "publish"
                   ELSE IF run.at = "moved" THEN "check" ELSE "final"
<1>7. /\ run' \in Run /\ run'.at = next /\ run'.then = run.then /\ run'.changed = run.changed
  <2>1. next \in Steps /\ Goto(next)
    BY <1>2 DEF Steps
  <2> HIDE DEF next
  <2> QED
    BY <1>1, <2>1, GotoFacts
<1>8. /\ active' \in Attempt /\ active'.id = active.id /\ active'.base = active.base
      /\ active'.target = active.target
      /\ active'.stage = IF run.at = "mark" THEN stage ELSE active.stage
      /\ active' # None
  <2>1. /\ active' \in Attempt /\ active'.id = active.id /\ active'.base = active.base
        /\ active'.target = active.target
        /\ active'.stage = IF run.at = "mark" THEN stage ELSE active.stage
    <3>1. CASE run.at = "mark"
      BY <1>2, <1>3, <1>5, <3>1 DEF Attempt
    <3>2. CASE run.at # "mark"
      BY <1>2, <1>3, <3>2 DEF Attempt
    <3> QED
      BY <3>1, <3>2
  <2> QED
    BY <2>1, Nobody
<1>9. UNCHANGED <<desired, base, settled, seen, dest, stage, previous, text, handle, buffer, owed, removed, raced,
                  edits, saves, crashes>>
  BY <1>2 DEF disk, editor
<1>10. SeenEdits' = SeenEdits
  BY <1>2 DEF SeenEdits
<1>11. TypeOK'
  BY <1>1, <1>7, <1>8, <1>9 DEF TypeOK, Linked, Inodes
<1>12. Names'
  BY <1>1, <1>9, NamesStay
<1>13. Attempts'
  BY <1>1, <1>3, <1>5, <1>8, <1>9 DEF Attempts, Names, Inodes, NewInode
<1>14. Reports' /\ Owes'
  BY <1>9, <1>10, ReportsStay, OwesStay DEF IInv, Files
<1>15. Stems'
  <2>1. Kept' = Kept
    BY <1>9, KeptStays
  <2> QED
    BY <1>1, <1>3, <1>5, <1>8, <1>9, <2>1 DEF Stems, From, Names, Complete
<1>16. RunFits'
  <2>1. next \in Staged => Complete' /\ active'.stage = stage
    BY <1>2, <1>5, <1>6, <1>8, <1>9, Nobody DEF Complete, Staged
  <2>2. next = "displace" => active'.id \notin DOMAIN previous'
    BY <1>2, <1>4, <1>8, <1>9 DEF Calls
  <2>3. next = "final" => stage' = None /\ active'.stage # None
    BY <1>2, <1>4, <1>8, <1>9 DEF Calls, Renamed
  <2>4. next \in {"displace", "publish", "check", "final"}
    OBVIOUS
  <2> HIDE DEF next
  <2>5. Calls'
    BY <1>3, <1>7, <1>8, <1>9, <2>1, <2>2, <2>3, <2>4
       DEF Calls, Working, Importing, Staged, Renamed
  <2>6. Reading'
    BY <1>7, <2>4 DEF Reading, Importing
  <2> QED
    BY <2>5, <2>6 DEF RunFits
<1>17. ASSUME edits = 0
       PROVE  Alone' /\ Expected'
  <2>1. /\ InPlace' <=> InPlace
        /\ SetAside' <=> SetAside
    BY <1>8, <1>9 DEF InPlace, SetAside, There
  <2>2. Waiting => Waiting'
    BY <1>8, <1>9, <2>1 DEF Waiting
  <2>3. Between => Between'
    BY <1>8, <1>9, <2>1 DEF Between
  <2>4. Out /\ run.at # "mark" => Out'
    BY <1>8, <1>9, <2>1 DEF Out
  <2>5. run.at = "mark" => IF run.displaces THEN Waiting /\ base # None ELSE Empty
    BY <1>4, <1>17 DEF Expected
  <2>6. Empty => Empty'
    BY <1>9, <2>2, <2>3 DEF Empty
  <2>7. Waiting' \/ Between' \/ Out'
    BY <1>3, <1>4, <1>17, <2>2, <2>3, <2>4, <2>5, <2>6 DEF Alone, Empty
  <2>8. Alone'
    BY <1>4, <1>8, <1>9, <1>17, <2>7 DEF Alone, There
  <2>9. Expected'
    <3>1. next = "displace" => Waiting' /\ base' # None
      BY <1>2, <1>9, <2>2, <2>5
    <3>2. next = "publish" => Empty'
      BY <1>2, <2>5, <2>6
    <3>3. next = "check" => Between'
      BY <1>2, <1>4, <1>17, <2>3 DEF Expected
    <3>4. next = "final" => Out' /\ ~run.changed
      BY <1>2, <1>4, <1>17, <2>4 DEF Expected, Renamed
    <3>5. next \in {"displace", "publish", "check", "final"}
      OBVIOUS
    <3> HIDE DEF next
    <3> QED
      BY <1>3, <1>7, <1>17, <3>1, <3>2, <3>3, <3>4, <3>5, Unchanged DEF Expected, Importing, Renamed
  <2> QED
    BY <2>8, <2>9
<1> QED
  BY <1>9, <1>11, <1>12, <1>13, <1>14, <1>15, <1>16, <1>17 DEF IInv, Files

LEMMA Settling ==
  ASSUME TypeOK, Names, Settle
  PROVE  /\ Own \subseteq {active.id} /\ Own \subseteq DOMAIN previous
         /\ active.id \in DOMAIN previous => Own = {active.id}
         /\ DOMAIN settled' = DOMAIN settled \cup Own
         /\ \A n \in Own : settled'[n] = active.base
         /\ \A n \in DOMAIN settled \ Own : settled'[n] = settled[n]
<1>1. Backup = None <=> active.id \notin DOMAIN previous
  BY Snapshots DEF Backup
<1>2. CASE Backup = None
  BY <1>1, <1>2 DEF Settle, Own
<1>3. CASE Backup # None
  <2>1. settled' = Put(settled, active.id, active.base) /\ Own = {active.id}
    BY <1>3 DEF Settle, Own
  <2>2. /\ DOMAIN settled' = DOMAIN settled \cup {active.id}
        /\ settled'[active.id] = active.base
        /\ \A n \in DOMAIN settled : n # active.id => settled'[n] = settled[n]
    BY <2>1 DEF Put
  <2> QED
    BY <1>1, <1>3, <2>1, <2>2
<1> QED
  BY <1>2, <1>3

LEMMA Finishing ==
  ASSUME IInv, Finish
  PROVE  IInv'
<1>1. /\ TypeOK /\ Names /\ Attempts /\ Reports /\ Stems /\ run \in Run
      /\ \A n \in DOMAIN settled : settled[n] \in Baseline \cup {None}
  BY DEF IInv, Files, TypeOK
<1>2. /\ run.at = "finish" /\ base = active.base /\ active' = None /\ Settle
      /\ base' = [rev |-> active.target.rev, text |-> active.target.text, inode |-> active.stage]
      /\ Retiring(Own, IF run.changed THEN "failed" ELSE "project")
      /\ UNCHANGED <<desired, seen, disk, editor, saves, crashes>>
  BY DEF Finish, At, Recorded
<1>3. /\ active # None /\ active \in Attempt /\ active.stage # None /\ stage = None
      /\ active.stage \in Nat
  <2>1. active # None /\ active.stage # None /\ stage = None
    BY <1>2 DEF IInv, RunFits, Calls, Working, Renamed
  <2> QED
    BY <1>1, <2>1 DEF TypeOK, Attempt
<1>4. /\ base' \in Baseline /\ base' # None /\ base'.text = active.target.text
      /\ base'.inode = active.stage
  <2>1. active.target \in Version
    BY <1>3 DEF Attempt
  <2> QED
    BY <1>2, <1>3, <2>1, Nobody DEF Baseline, Version
<1>5. /\ Own \subseteq {active.id} /\ Own \subseteq DOMAIN previous
      /\ active.id \in DOMAIN previous => Own = {active.id}
      /\ DOMAIN settled' = DOMAIN settled \cup Own
      /\ \A n \in Own : settled'[n] = base
      /\ \A n \in DOMAIN settled \ Own : settled'[n] = settled[n]
  BY <1>1, <1>2, Settling
<1>6. UNCHANGED <<desired, seen, dest, stage, previous, text, handle, buffer, owed, removed, raced,
                  edits, saves, crashes>>
  BY <1>2 DEF disk, editor
<1>7. SeenEdits' = SeenEdits
  BY <1>6 DEF SeenEdits
<1>8. DOMAIN previous \subseteq Nat /\ base \in Baseline \cup {None}
  BY <1>1 DEF TypeOK
<1>9. /\ run' \in Run /\ run'.at = "retire" /\ run'.left = Own
      /\ run'.then = IF run.changed THEN "failed" ELSE "project"
      /\ run'.changed = run.changed
  <2>1. Own \in SUBSET Nat
    BY <1>5, <1>8
  <2> QED
    BY ZenonT(40), <1>1, <1>2, <2>1 DEF Retiring, Run, Steps
<1> HIDE <1>2
<1>10. active' = None
  BY <1>2
<1>11. TypeOK'
  <2>1. \A n \in DOMAIN settled' : n \in Nat /\ settled'[n] \in Baseline \cup {None}
    BY <1>1, <1>5, <1>8 DEF Names
  <2> QED
    BY <1>1, <1>4, <1>6, <1>9, <1>10, <2>1 DEF TypeOK, Linked, Inodes
<1>12. Names'
  BY <1>1, <1>5, <1>6 DEF Names, Inodes
<1>13. Attempts'
  BY <1>1, <1>3, <1>4, <1>6, <1>10 DEF Attempts
<1>14. Reports'
  <2>1. base # None => Reported(base.text)
    BY <1>1 DEF Attempts, Reports, Reported
  <2> QED
    BY <1>1, <1>3, <1>5, <1>6, <1>7, <2>1 DEF Reports, Reported
<1>15. Owes'
  BY <1>6, <1>7, OwesStay DEF IInv, Files
<1>16. Stems'
  <2>1. From(active.target.text, Shown)
    BY <1>2 DEF IInv, RunFits, Reading
  <2>2. Shown \subseteq Kept'
    BY <1>6 DEF Shown, Kept
  <2> QED
    BY <1>4, <1>6, <1>10, <2>1, <2>2 DEF Stems, From
<1>17. RunFits' /\ (~run.changed => Expected')
  BY <1>5, <1>9, <1>10, Retires
<1>18. ASSUME edits = 0
       PROVE  Alone' /\ ~run.changed
  <2>1. Alone /\ Out /\ ~run.changed
    BY <1>2, <1>18 DEF IInv, Expected, Renamed
  <2>2. InPlace'
    BY <1>3, <1>4, <1>6, <2>1 DEF InPlace, There, Out
  <2>3. \A n \in Own : base # None /\ There(previous[n], base)
    BY <1>5, <2>1 DEF Out, SetAside
  <2>4. \A n \in DOMAIN settled' : settled'[n] # None /\ There(previous[n], settled[n])'
    BY <1>5, <1>6, <2>1, <2>3 DEF Alone, There
  <2> QED
    BY <1>6, <1>10, <2>1, <2>2, <2>4 DEF Alone
<1> QED
  BY <1>6, <1>11, <1>12, <1>13, <1>14, <1>15, <1>16, <1>17, <1>18 DEF IInv, Files

(* The stage is removed; what it held is known.                            *)
LEMMA StageGone ==
  ASSUME Files, stage' = None, text' = Forgotten({stage}),
         UNCHANGED <<dest, previous>>
  PROVE  /\ Inodes' = Inodes /\ NewInode' = NewInode
         /\ \A i \in Inodes : i # stage => text'[i] = text[i]
         /\ \A i \in Inodes : text'[i] \in (SUBSET Edit) \cup {None}
         /\ dest # None => text'[dest] = text[dest]
         /\ \A n \in DOMAIN previous : text'[previous[n]] = text[previous[n]]
         /\ \A e \in owed \ raced : InFile(e, {}) => e \in SeenEdits \/ InFile(e, {})'
<1>1. TypeOK /\ Names /\ Reports
  BY DEF Files
<1>2. /\ DOMAIN text' = Inodes
      /\ \A i \in Inodes : i = stage => text'[i] = {}
      /\ \A i \in Inodes : i # stage => text'[i] = text[i]
  BY ForgottenFacts
<1>3. Inodes' = Inodes /\ NewInode' = NewInode
  BY <1>2 DEF Inodes, NewInode
<1>4. \A i \in Inodes : text[i] \in (SUBSET Edit) \cup {None}
  BY <1>1 DEF TypeOK
<1>5. dest # None => text'[dest] = text[dest]
  BY <1>1, <1>2, Facts DEF Names
<1>6. \A n \in DOMAIN previous : text'[previous[n]] = text[previous[n]]
  BY <1>1, <1>2 DEF Names
<1>7. ASSUME NEW e \in owed \ raced, InFile(e, {})
      PROVE  e \in SeenEdits \/ InFile(e, {})'
  <2>1. CASE stage # None /\ text[stage] # None /\ e \in text[stage]
    BY <1>1, <2>1 DEF Reports, Reported, Files, Owes
  <2>2. CASE ~(stage # None /\ text[stage] # None /\ e \in text[stage])
    BY <1>5, <1>6, <1>7, <2>2 DEF InFile
  <2> QED
    BY <2>1, <2>2
<1>8. \A i \in Inodes : text'[i] \in (SUBSET Edit) \cup {None}
  BY <1>2, <1>4
<1> QED
  BY <1>2, <1>3, <1>5, <1>6, <1>7, <1>8

LEMMA Cancelling ==
  ASSUME IInv, Cancel
  PROVE  IInv'
<1>1. /\ TypeOK /\ Names /\ Attempts /\ Reports /\ Stems /\ run \in Run /\ Files
      /\ \A n \in DOMAIN settled : settled[n] \in Baseline \cup {None}
  BY DEF IInv, Files, TypeOK
<1>2. /\ run.at = "cancel" /\ active' = None /\ Settle /\ stage' = None
      /\ text' = Forgotten({stage})
      /\ Retiring(Own, "project")
      /\ UNCHANGED <<desired, base, seen, dest, previous, editor, saves, crashes>>
  BY DEF Cancel, At
<1>3. active # None /\ active.base = base
  BY <1>1, <1>2 DEF IInv, RunFits, Calls, Working, Attempts
<1>4. /\ Own \subseteq {active.id} /\ Own \subseteq DOMAIN previous
      /\ active.id \in DOMAIN previous => Own = {active.id}
      /\ DOMAIN settled' = DOMAIN settled \cup Own
      /\ \A n \in Own : settled'[n] = base
      /\ \A n \in DOMAIN settled \ Own : settled'[n] = settled[n]
  BY <1>1, <1>2, <1>3, Settling
<1>5. /\ Inodes' = Inodes /\ NewInode' = NewInode
      /\ \A i \in Inodes : i # stage => text'[i] = text[i]
      /\ \A i \in Inodes : text'[i] \in (SUBSET Edit) \cup {None}
      /\ dest # None => text'[dest] = text[dest]
      /\ \A n \in DOMAIN previous : text'[previous[n]] = text[previous[n]]
      /\ \A e \in owed \ raced : InFile(e, {}) => e \in SeenEdits \/ InFile(e, {})'
  BY <1>1, <1>2, StageGone
<1>6. DOMAIN previous \subseteq Nat /\ base \in Baseline \cup {None}
  BY <1>1 DEF TypeOK
<1>7. run' \in Run /\ run'.at = "retire" /\ run'.left = Own /\ run'.then = "project"
      /\ run'.changed = run.changed
  <2>1. Own \in SUBSET Nat
    BY <1>4, <1>6
  <2> QED
    BY <1>1, <1>2, <2>1 DEF Retiring, Run, Steps
<1>8. /\ active' = None /\ stage' = None
      /\ UNCHANGED <<desired, base, seen, dest, previous, handle, buffer, owed, removed, raced, edits,
                     saves, crashes>>
  BY <1>2 DEF editor
<1>9. SeenEdits' = SeenEdits
  BY <1>8 DEF SeenEdits
<1> HIDE <1>2
<1>10. TypeOK'
  <2>1. \A n \in DOMAIN settled' : n \in Nat /\ settled'[n] \in Baseline \cup {None}
    BY <1>1, <1>4, <1>6 DEF Names
  <2>2. Linked' \subseteq Inodes'
    BY <1>1, <1>5, <1>8 DEF Linked, TypeOK
  <2> QED
    BY <1>1, <1>5, <1>7, <1>8, <2>1, <2>2 DEF TypeOK
<1>11. Names'
  BY <1>1, <1>4, <1>5, <1>8, Facts DEF Names
<1>12. Attempts'
  BY <1>1, <1>8 DEF Attempts
<1>13. Reports'
  <2>1. base # None => Reported(base.text)
    BY <1>1 DEF Attempts, Reports, Reported
  <2> QED
    BY <1>1, <1>4, <1>8, <1>9, <2>1 DEF Reports, Reported
<1>14. Owes'
  BY <1>1, <1>5, <1>8, <1>9, OwesGo DEF Files
<1>15. Stems'
  <2>1. CASE Own = {}
    <3>1. \A n \in DOMAIN previous : text'[previous[n]] = text[previous[n]]
      BY <1>5
    <3>2. Away' = Away
      BY <1>4, <1>8, <2>1 DEF Away
    <3>3. UNION {text'[i] : i \in Away} = UNION {text[i] : i \in Away}
      BY <3>1 DEF Away
    <3>4. Kept' = Kept
      BY <1>5, <1>8, <3>2, <3>3 DEF Kept
    <3> QED
      BY <1>1, <1>8, <3>4 DEF Stems, From
  <2>2. CASE Own # {}
    <3>1. base # None => From(base.text, Shown)
      BY <1>2, <1>4, <2>2 DEF IInv, RunFits, Reading
    <3>2. Shown \subseteq Kept'
      BY <1>5, <1>8 DEF Shown, Kept
    <3> QED
      BY <1>8, <3>1, <3>2 DEF Stems, From
  <2> QED
    BY <2>1, <2>2
<1>16. RunFits' /\ (edits = 0 => Expected')
  BY <1>4, <1>7, Retires, Unchanged
<1>17. ASSUME edits = 0
       PROVE  Alone'
  <2>1. Alone /\ Waiting
    BY <1>2, <1>17 DEF IInv, Expected
  <2>2. InPlace'
    BY <1>5, <1>8, <2>1 DEF InPlace, There, Waiting
  <2>3. Own = {}
    BY <1>4, <2>1 DEF Waiting
  <2>4. \A n \in DOMAIN settled' : settled'[n] # None /\ There(previous[n], settled[n])'
    BY <1>1, <1>4, <1>5, <1>8, <2>1, <2>3 DEF Alone, There, Names
  <2> QED
    BY <1>8, <2>1, <2>2, <2>4 DEF Alone
<1> QED
  BY <1>8, <1>10, <1>11, <1>12, <1>13, <1>14, <1>15, <1>16, <1>17 DEF IInv, Files

LEMMA Dropping ==
  ASSUME IInv, DropAttempt
  PROVE  IInv'
<1>1. TypeOK /\ Names /\ Attempts /\ Reports /\ Stems /\ run \in Run /\ Files
  BY DEF IInv, Files, TypeOK
<1>2. /\ run.at = "drop" /\ active' = None /\ stage' = None
      /\ text' = Forgotten({stage}) /\ Goto("verify")
      /\ UNCHANGED <<desired, base, settled, seen, dest, previous, editor, saves, crashes>>
  BY DEF DropAttempt, At
<1>3. /\ Inodes' = Inodes /\ NewInode' = NewInode
      /\ \A i \in Inodes : i # stage => text'[i] = text[i]
      /\ \A i \in Inodes : text'[i] \in (SUBSET Edit) \cup {None}
      /\ dest # None => text'[dest] = text[dest]
      /\ \A n \in DOMAIN previous : text'[previous[n]] = text[previous[n]]
      /\ \A e \in owed \ raced : InFile(e, {}) => e \in SeenEdits \/ InFile(e, {})'
  BY <1>1, <1>2, StageGone
<1>4. /\ run' \in Run /\ run'.at = "verify" /\ run'.then = run.then
      /\ run'.changed = run.changed /\ run'.obs = run.obs
  BY <1>1, <1>2, GotoFacts DEF Steps
<1>5. /\ active' = None /\ stage' = None
      /\ UNCHANGED <<desired, base, settled, seen, dest, previous, handle, buffer, owed, removed, raced, edits,
                     saves, crashes>>
  BY <1>2 DEF editor
<1>6. SeenEdits' = SeenEdits
  BY <1>5 DEF SeenEdits
<1>7. edits # 0 /\ Calls /\ Reading
  BY <1>2 DEF IInv, RunFits, Expected, Importing
<1>8. TypeOK'
  <2>1. Linked' \subseteq Inodes'
    BY <1>1, <1>3, <1>5 DEF Linked, TypeOK
  <2> QED
    BY <1>1, <1>3, <1>4, <1>5, <2>1 DEF TypeOK
<1>9. Names'
  BY <1>1, <1>3, <1>5, Facts DEF Names
<1>10. Attempts' /\ Reports'
  BY <1>1, <1>5, <1>6 DEF Attempts, Reports, Reported
<1>11. Owes'
  BY <1>1, <1>3, <1>5, <1>6, OwesGo DEF Files
<1>12. Stems'
  <2>1. \A n \in DOMAIN previous : text'[previous[n]] = text[previous[n]]
    BY <1>3
  <2>2. Away' = Away
    BY <1>5 DEF Away
  <2>3. UNION {text'[i] : i \in Away} = UNION {text[i] : i \in Away}
    BY <2>1 DEF Away
  <2>4. Kept' = Kept
    BY <1>3, <1>5, <2>2, <2>3 DEF Kept
  <2> QED
    BY <1>1, <1>5, <2>4 DEF Stems, From
<1>13. Calls'
  BY <1>2, <1>4, <1>5, <1>7 DEF Calls, Working, Importing, Staged, Renamed
<1>14. Reading'
  BY <1>2, <1>4, <1>5, <1>7 DEF Reading, Importing, From
<1> QED
  BY <1>5, <1>7, <1>8, <1>9, <1>10, <1>11, <1>12, <1>13, <1>14 DEF IInv, Files, RunFits

LEMMA Imported ==
  ASSUME IInv, Import
  PROVE  IInv'
<1>1. /\ TypeOK /\ Names /\ Attempts /\ Reports /\ Stems /\ run \in Run /\ Files
      /\ seen \subseteq Observation /\ desired \in Version
  BY DEF IInv, Files, TypeOK
<1>2. /\ run.at = "import" /\ base = run.obs.base
      /\ desired' = [rev |-> desired.rev + 1,
                     text |-> Merged(desired.text, run.obs.text, base.text)]
      /\ base' = [rev |-> 0, text |-> run.obs.text, inode |-> run.obs.inode]
      /\ seen' = (seen \ {run.obs}) \cup {[run.obs EXCEPT !.resolved = TRUE]}
      /\ run' = [run EXCEPT !.at = "project", !.obs = None]
      /\ UNCHANGED <<active, settled, disk, editor, saves, crashes>>
  BY DEF Import, At
<1>3. Calls /\ Reading
  BY DEF IInv, RunFits
<1>4. /\ active = None /\ base # None /\ run.then # "failed" /\ run.at \in Importing
      /\ run.obs \in seen /\ run.obs.inode # None
  BY <1>2, <1>3 DEF Calls, Importing
<1> DEFINE o == run.obs
           resolved == [o EXCEPT !.resolved = TRUE]
<1>5. /\ o \in Observation /\ o.text \in SUBSET Edit /\ o.inode \in Nat
      /\ resolved \in Observation /\ resolved.text = o.text
  BY <1>1, <1>4 DEF Observation
<1>6. base.text \in SUBSET Edit /\ base.text \subseteq desired.text
  BY <1>1, <1>4 DEF TypeOK, Baseline, Attempts
<1>7. /\ base' \in Baseline /\ base' # None /\ base'.text = o.text
  BY <1>2, <1>5, Nobody DEF Baseline
<1>8. /\ desired' \in Version
      /\ desired'.text \subseteq desired.text \cup o.text /\ o.text \subseteq desired'.text
  <2>1. desired'.text = (desired.text \cup o.text) \ (base.text \ o.text)
    BY <1>2 DEF Merged
  <2>2. desired'.rev = desired.rev + 1 /\ desired.rev \in Nat /\ desired.text \in SUBSET Edit
    BY <1>1, <1>2 DEF Version
  <2>3. desired'.text \in SUBSET Edit
    BY <1>5, <2>1, <2>2
  <2>4. desired' = [rev |-> desired'.rev, text |-> desired'.text]
    BY <1>2
  <2> QED
    BY <2>1, <2>2, <2>3, <2>4 DEF Version
<1>9. /\ run' \in Run /\ run'.at = "project" /\ run'.then = run.then /\ run'.changed = run.changed
  BY <1>1, <1>2 DEF Run, Steps
<1>10. seen' = (seen \ {o}) \cup {resolved}
  BY <1>2
<1>11. UNCHANGED <<active, settled, dest, stage, previous, text, handle, buffer, owed, removed, raced, edits,
                   saves, crashes>>
  BY <1>2 DEF disk, editor
<1>12. edits # 0
  BY <1>4 DEF IInv, Expected
<1>13. From(o.text, Shown)
  BY <1>2, <1>3 DEF Reading
<1> HIDE <1>2 DEF o, resolved
<1>14. seen' \subseteq Observation /\ SeenEdits' = SeenEdits /\ o.text \subseteq SeenEdits
  <2>1. seen' \subseteq Observation
    BY <1>1, <1>5, <1>10
  <2>2. o \in seen /\ o.text \subseteq SeenEdits
    BY <1>4 DEF o, SeenEdits
  <2>3. \A e \in SeenEdits : e \in SeenEdits'
    BY <1>5, <1>10, <2>2 DEF SeenEdits
  <2>4. \A e \in SeenEdits' : e \in SeenEdits
    BY <1>5, <1>10, <2>2 DEF SeenEdits
  <2> QED
    BY <2>1, <2>2, <2>3, <2>4
<1>15. TypeOK'
  BY <1>1, <1>7, <1>8, <1>9, <1>11, <1>14 DEF TypeOK, Linked, Inodes
<1>16. Names'
  BY <1>1, <1>11, NamesStay
<1>17. Attempts'
  BY <1>1, <1>4, <1>7, <1>8, <1>11 DEF Attempts
<1>18. Reports'
  BY <1>1, <1>8, <1>11, <1>14 DEF Reports, Reported
<1>19. Owes'
  BY <1>1, <1>11, <1>14, OwesStay DEF Files
<1>20. Stems'
  <2>1. Shown \subseteq Kept'
    BY <1>11 DEF Shown, Kept
  <2> QED
    BY <1>4, <1>7, <1>11, <1>13, <2>1 DEF Stems, From
<1>21. Calls'
  BY <1>4, <1>9, <1>11 DEF Calls, Working, Importing, Staged, Renamed
<1>22. Reading'
  BY <1>9 DEF Reading, Importing
<1> QED
  BY <1>11, <1>12, <1>15, <1>16, <1>17, <1>18, <1>19, <1>20, <1>21, <1>22 DEF IInv, Files, RunFits

-------------------------------------------------------------------------------
(* The files of the vault.                                                 *)

LEMMA PuttingBack ==
  ASSUME IInv, Restore
  PROVE  IInv'
<1>1. /\ TypeOK /\ Names /\ Attempts /\ Reports /\ Stems /\ run \in Run /\ Files
      /\ seen \subseteq Observation /\ crashes \in 0 .. MaxCrashes
  BY DEF IInv, Files, TypeOK
<1>2. /\ run.at \in {"restore", "reinstate", "undo"}
      /\ UNCHANGED <<db, editor, saves, crashes>>
  BY DEF Restore, PutBack, At
<1>3. active # None /\ run.then # "failed"
  BY <1>2 DEF IInv, RunFits, Calls, Working
<1>4. edits = 0 => Between /\ Alone /\ run.at = "restore"
  BY <1>2 DEF IInv, Expected
<1>5. UNCHANGED <<desired, base, active, settled, seen, handle, buffer, owed, removed, raced, edits, saves, crashes>>
  BY <1>2 DEF db, editor
<1>6. SeenEdits' = SeenEdits
  BY <1>5 DEF SeenEdits
<1>7. CASE dest # None /\ End /\ UNCHANGED disk
  <2>1. edits # 0
    BY <1>4, <1>7 DEF Between
  <2> QED
    BY <1>1, <1>5, <1>6, <1>7, <2>1, EndFacts, Resting, Observing DEF editor
<1>8. CASE /\ dest = None /\ Backup # None
           /\ dest' = previous[active.id]
           /\ previous' = Drop(previous, active.id)
           /\ UNCHANGED <<stage, text>>
           /\ IF run.at = "restore" THEN Goto("cancel") ELSE End
  <2>1. active.id \in DOMAIN previous
    BY <1>1, <1>8, Snapshots DEF Backup
  <2>2. /\ DOMAIN previous' = DOMAIN previous \ {active.id}
        /\ \A n \in DOMAIN previous : n # active.id => previous'[n] = previous[n]
    BY <1>8, DropFacts
  <2>3. /\ UNCHANGED <<stage, text>> /\ dest' = previous[active.id] /\ dest = None
        /\ Inodes' = Inodes /\ NewInode' = NewInode
        /\ dest' \in Inodes /\ dest' # None /\ text[dest'] # None
    BY <1>1, <1>8, <2>1, Facts DEF Inodes, NewInode, Names
  <2>4. /\ run' \in Run /\ RunFits' /\ run'.then # "failed"
        /\ run.changed \/ ~run'.changed
        /\ IF run.at = "restore" THEN run'.at = "cancel" ELSE run'.at \in {"idle", "observe"}
    <3>1. CASE run.at = "restore"
      <4>1. run' \in Run /\ run'.at = "cancel" /\ run'.then = run.then /\ run'.changed = run.changed
        BY <1>1, <1>8, <3>1, GotoFacts DEF Steps
      <4>2. active'.id \notin DOMAIN previous'
        BY <1>5, <2>2
      <4> QED
        BY <1>3, <1>5, <3>1, <4>1, <4>2, GoingOn
    <3>2. CASE run.at # "restore"
      BY <1>1, <1>8, <3>2, EndFacts, Resting
    <3> QED
      BY <3>1, <3>2
  <2> HIDE <1>8
  <2>5. TypeOK'
    <3>1. Linked' \subseteq Inodes'
      BY <1>1, <2>2, <2>3, Facts DEF Linked
    <3> QED
      BY <1>1, <1>5, <2>2, <2>3, <2>4, <3>1 DEF TypeOK
  <2>6. Names'
    <3>1. active.id \notin DOMAIN settled
      BY <1>1, <1>3 DEF Attempts
    <3> QED
      BY <1>1, <1>5, <2>1, <2>2, <2>3, <3>1 DEF Names
  <2>7. Attempts'
    BY <1>1, <1>5, <2>2, <2>3 DEF Attempts
  <2>8. Reports'
    BY <1>1, <1>5, <1>6, <2>3 DEF Reports, Reported
  <2>9. Owes'
    <3>1. \A e : InFile(e, {}) => InFile(e, {})'
      BY <2>1, <2>2, <2>3 DEF InFile
    <3> QED
      BY <1>1, <1>5, <1>6, <3>1, OwesGo DEF Files
  <2>10. Stems'
    <3>1. dest' # active.stage
      BY <1>1, <1>3, <2>1, <2>3 DEF Attempts
    <3>2. base # None => From(base.text, text[dest'])
      BY <1>1, <1>3, <2>1, <2>3 DEF Stems
    <3>3. Kept' = text[dest']
      BY <2>3 DEF Kept
    <3> QED
      BY <1>1, <1>5, <2>1, <2>2, <2>3, <3>1, <3>2, <3>3 DEF Stems, From
  <2>11. ASSUME edits = 0
         PROVE  Alone' /\ Expected'
    <3>1. Between /\ Alone /\ run.at = "restore"
      BY <1>4, <2>11
    <3>2. base # None /\ There(dest', base) /\ active.stage # None /\ stage = active.stage
      BY <2>3, <3>1 DEF Between, SetAside
    <3>3. InPlace'
      BY <1>5, <2>3, <3>2 DEF InPlace, There
    <3>4. Waiting'
      BY <1>5, <2>2, <2>3, <3>2, <3>3 DEF Waiting
    <3>5. \A n \in DOMAIN settled' : settled'[n] # None /\ There(previous[n], settled[n])'
      <4>1. active.id \notin DOMAIN settled /\ DOMAIN settled \subseteq DOMAIN previous
        BY <1>1, <1>3 DEF Attempts, Names
      <4> QED
        BY <1>5, <2>2, <2>3, <3>1, <4>1 DEF Alone, There
    <3>6. Alone'
      BY <1>3, <1>5, <3>1, <3>4, <3>5 DEF Alone
    <3> QED
      BY <2>4, <2>11, <3>1, <3>4, <3>6, Unchanged DEF Expected, Importing, Renamed
  <2> QED
    BY <1>5, <2>4, <2>5, <2>6, <2>7, <2>8, <2>9, <2>10, <2>11 DEF IInv, Files
<1>9. \/ dest # None /\ End /\ UNCHANGED disk
      \/ /\ dest = None /\ Backup # None
         /\ dest' = previous[active.id]
         /\ previous' = Drop(previous, active.id)
         /\ UNCHANGED <<stage, text>>
         /\ IF run.at = "restore" THEN Goto("cancel") ELSE End
  BY DEF Restore, PutBack, At
<1> QED
  BY <1>7, <1>8, <1>9

(* One more inode.                                                         *)
LEMMA OneMore ==
  ASSUME Names, DOMAIN text' = Inodes \cup {NewInode}
  PROVE  /\ Inodes' = Inodes \cup {NewInode} /\ NewInode' # NewInode
         /\ Cardinality(Inodes') \in Nat /\ Inodes' = 1 .. Cardinality(Inodes')
<1> DEFINE k == Cardinality(Inodes)
<1>1. k \in Nat /\ Inodes = 1 .. k /\ NewInode = k + 1
  BY DEF Names, NewInode
<1>2. Inodes' = Inodes \cup {NewInode}
  BY DEF Inodes
<1> HIDE DEF k
<1>3. Inodes' = 1 .. k + 1 /\ k + 1 \in Nat
  BY <1>1, <1>2
<1>4. Cardinality(1 .. k + 1) = k + 1
  <2>1. \A m \in Nat : Cardinality(1 .. m) = IF 1 > m THEN 0 ELSE m - 1 + 1
    BY FS_Interval
  <2> DEFINE m == k + 1
  <2>2. m \in Nat /\ ~(1 > m) /\ m - 1 + 1 = m
    BY <1>1
  <2> HIDE DEF m
  <2>3. Cardinality(1 .. m) = m
    BY <2>1, <2>2
  <2> QED
    BY <2>3 DEF m
<1>5. Cardinality(Inodes') = k + 1
  BY <1>3, <1>4
<1>6. NewInode' # NewInode
  <2>1. NewInode' = k + 1 + 1
    BY <1>5 DEF NewInode
  <2> QED
    BY <1>1, <2>1
<1> QED
  BY <1>2, <1>3, <1>5, <1>6

(* A file that was not there.                                              *)
LEMMA NewFile ==
  ASSUME TypeOK, Names, NEW v \in (SUBSET Edit) \cup {None}, text' = Put(text, NewInode, v)
  PROVE  /\ Inodes' = Inodes \cup {NewInode} /\ NewInode' # NewInode
         /\ Cardinality(Inodes') \in Nat /\ Inodes' = 1 .. Cardinality(Inodes')
         /\ text'[NewInode] = v
         /\ \A i \in Inodes : text'[i] = text[i]
         /\ \A i \in Inodes' : text'[i] \in (SUBSET Edit) \cup {None}
<1>1. NewInode \notin Inodes
  BY Facts
<1>2. /\ DOMAIN text' = Inodes \cup {NewInode} /\ text'[NewInode] = v
      /\ \A i \in Inodes : i # NewInode => text'[i] = text[i]
  BY DEF Put, Inodes
<1>3. /\ Inodes' = Inodes \cup {NewInode} /\ NewInode' # NewInode
      /\ Cardinality(Inodes') \in Nat /\ Inodes' = 1 .. Cardinality(Inodes')
  BY <1>2, OneMore
<1>4. \A i \in Inodes : text'[i] = text[i]
  BY <1>1, <1>2
<1>5. \A i \in Inodes' : text'[i] \in (SUBSET Edit) \cup {None}
  BY <1>2, <1>3, <1>4 DEF TypeOK
<1> QED
  BY <1>2, <1>3, <1>4, <1>5

LEMMA Staging ==
  ASSUME IInv, Stage
  PROVE  IInv'
<1>1. /\ TypeOK /\ Names /\ Attempts /\ Reports /\ Stems /\ run \in Run /\ Files
      /\ seen \subseteq Observation /\ crashes \in 0 .. MaxCrashes
  BY DEF IInv, Files, TypeOK
<1>2. /\ run.at = "stage"
      /\ UNCHANGED <<db, editor, saves, crashes>>
  BY DEF Stage, At
<1>3. /\ active # None /\ run.then # "failed"
      /\ run.displaces => active.id \notin DOMAIN previous
  BY <1>2 DEF IInv, RunFits, Calls, Working
<1>4. edits = 0 => Alone /\ IF run.displaces THEN Waiting /\ base # None ELSE Empty
  BY <1>2 DEF IInv, Expected
<1>5. UNCHANGED <<desired, base, active, settled, seen, handle, buffer, owed, removed, raced, edits, saves, crashes>>
  BY <1>2 DEF db, editor
<1>6. SeenEdits' = SeenEdits
  BY <1>5 DEF SeenEdits
<1>7. CASE Complete /\ Goto("mark") /\ UNCHANGED disk
  <2>1. /\ run' \in Run /\ run'.at = "mark" /\ run'.then = run.then /\ run'.changed = run.changed
        /\ run'.displaces = run.displaces
    BY <1>1, <1>7, GotoFacts DEF Steps
  <2>2. Complete' /\ UNCHANGED <<dest, stage, previous, text>>
    BY <1>5, <1>7 DEF Complete, disk
  <2>3. Calls'
    BY <1>3, <1>5, <2>1, <2>2 DEF Calls, Working, Importing, Staged, Renamed
  <2>4. Reading'
    BY <2>1 DEF Reading, Importing
  <2>5. /\ Waiting => Waiting'
        /\ Between => Between'
    BY <1>5, <2>2 DEF Waiting, Between, SetAside, InPlace, There
  <2>6. edits = 0 => Expected'
    BY <1>3, <1>4, <1>5, <2>1, <2>5, Unchanged DEF Expected, Empty, Importing, Renamed
  <2> QED
    BY <1>1, <1>5, <1>6, <1>7, <2>1, <2>3, <2>4, <2>6, Observing DEF RunFits, editor
<1>8. CASE stage = None /\ active.stage # None /\ End /\ UNCHANGED disk
  <2>1. edits # 0
    BY <1>4, <1>8 DEF Empty, Between, Waiting
  <2> QED
    BY <1>1, <1>5, <1>6, <1>8, <2>1, EndFacts, Resting, Observing DEF editor
<1>9. CASE /\ active.stage = None /\ stage' = NewInode
           /\ text' = Put(text, NewInode, None) /\ Goto("write")
           /\ UNCHANGED <<dest, previous>>
  <2>1. /\ Inodes' = Inodes \cup {NewInode} /\ NewInode' # NewInode
        /\ Cardinality(Inodes') \in Nat /\ Inodes' = 1 .. Cardinality(Inodes')
        /\ text'[NewInode] = None
        /\ \A i \in Inodes : text'[i] = text[i]
        /\ \A i \in Inodes' : text'[i] \in (SUBSET Edit) \cup {None}
    BY <1>1, <1>9, NewFile
  <2>2. /\ stage' = NewInode /\ UNCHANGED <<dest, previous>>
        /\ NewInode \notin Inodes /\ NewInode # None /\ NewInode \in Nat
    BY <1>1, <1>9, Facts, Nobody
  <2>3. /\ dest # None => dest \in Inodes /\ text'[dest] = text[dest]
        /\ \A n \in DOMAIN previous :
             previous[n] \in Inodes /\ text'[previous[n]] = text[previous[n]]
        /\ handle \in Inodes \cup {None}
    BY <1>1, <2>1, Facts DEF TypeOK
  <2>4. /\ run' \in Run /\ run'.at = "write" /\ run'.then = run.then /\ run'.changed = run.changed
        /\ run'.displaces = run.displaces
    BY <1>1, <1>9, GotoFacts DEF Steps
  <2>5. active.stage = None
    BY <1>9
  <2> HIDE <1>9
  <2>6. TypeOK'
    <3>1. Linked' \subseteq Inodes'
      BY <2>1, <2>2, <2>3 DEF Linked
    <3> QED
      BY <1>1, <1>5, <2>1, <2>2, <2>3, <2>4, <3>1 DEF TypeOK
  <2>7. Names'
    BY ZenonT(40), <1>1, <1>5, <2>1, <2>2, <2>3 DEF Names
  <2>8. Attempts'
    BY <1>1, <1>3, <1>5, <2>1, <2>2, <2>5 DEF Attempts
  <2>9. Reports'
    BY <1>1, <1>5, <1>6, <2>1, <2>2 DEF Reports, Reported
  <2>10. Owes'
    <3>1. ASSUME NEW e \in owed \ raced, InFile(e, {})
          PROVE  e \in SeenEdits \/ InFile(e, {})'
      <4>1. CASE stage # None /\ text[stage] # None /\ e \in text[stage]
        BY <1>1, <4>1 DEF Reports, Reported, Files, Owes
      <4>2. CASE ~(stage # None /\ text[stage] # None /\ e \in text[stage])
        BY <2>2, <2>3, <3>1, <4>2 DEF InFile
      <4> QED
        BY <4>1, <4>2
    <3> QED
      BY <1>1, <1>5, <1>6, <3>1, OwesGo DEF Files
  <2>11. Stems'
    <3>1. Away' = Away
      BY <1>5, <2>2 DEF Away
    <3>2. UNION {text'[i] : i \in Away} = UNION {text[i] : i \in Away}
      BY <2>3 DEF Away
    <3>3. Kept' = Kept
      BY <2>2, <2>3, <3>1, <3>2 DEF Kept
    <3> QED
      BY <1>1, <1>5, <2>2, <2>3, <2>5, <3>3 DEF Stems, From
  <2>12. Calls'
    BY <1>3, <1>5, <2>2, <2>4, <2>5 DEF Calls, Working, Importing, Staged, Renamed
  <2>13. Reading'
    BY <2>4 DEF Reading, Importing
  <2>14. ASSUME edits = 0
         PROVE  Alone' /\ Expected'
    <3>1. Alone /\ Waiting /\ (run.displaces <=> base # None)
      BY <1>4, <2>5, <2>14 DEF Empty, Between
    <3>2. InPlace'
      BY <1>5, <2>2, <2>3, <3>1 DEF InPlace, There, Waiting
    <3>3. Waiting'
      BY <1>5, <2>2, <2>5, <3>1, <3>2 DEF Waiting
    <3>4. \A n \in DOMAIN settled' : settled'[n] # None /\ There(previous[n], settled[n])'
      BY <1>1, <1>5, <2>2, <2>3, <3>1 DEF Alone, There, Names
    <3>5. Alone'
      BY <1>3, <1>5, <3>1, <3>3, <3>4 DEF Alone
    <3> QED
      BY <1>3, <1>5, <2>4, <2>14, <3>1, <3>3, <3>5, Unchanged
         DEF Expected, Empty, Importing, Renamed
  <2> QED
    BY <1>5, <2>6, <2>7, <2>8, <2>9, <2>10, <2>11, <2>12, <2>13, <2>14 DEF IInv, Files, RunFits
<1> QED
  BY <1>7, <1>8, <1>9 DEF Stage

LEMMA Writing ==
  ASSUME IInv, Write
  PROVE  IInv'
<1>1. /\ TypeOK /\ Names /\ Attempts /\ Reports /\ Stems /\ run \in Run /\ Files
  BY DEF IInv, Files, TypeOK
<1>2. /\ run.at = "write" /\ text' = [text EXCEPT ![stage] = active.target.text]
      /\ Goto("mark")
      /\ UNCHANGED <<db, dest, stage, previous, editor, saves, crashes>>
  BY DEF Write, At
<1>3. /\ active # None /\ run.then # "failed" /\ stage # None /\ active.stage = None
      /\ run.displaces => active.id \notin DOMAIN previous
  BY <1>2 DEF IInv, RunFits, Calls, Working
<1>4. edits = 0 => Alone /\ IF run.displaces THEN Waiting /\ base # None ELSE Empty
  BY <1>2 DEF IInv, Expected
<1>5. UNCHANGED <<desired, base, active, settled, seen, dest, stage, previous, handle, buffer, owed, removed, raced, edits, saves, crashes>>
  BY <1>2 DEF db, editor
<1>6. SeenEdits' = SeenEdits
  BY <1>5 DEF SeenEdits
<1>7. active.target.text \in SUBSET Edit
  BY <1>1, <1>3 DEF TypeOK, Attempt, Version
<1>8. stage \in Inodes
  BY <1>1, <1>3, Facts
<1>9. /\ Inodes' = Inodes /\ NewInode' = NewInode /\ text'[stage] = active.target.text
      /\ \A i \in Inodes : i # stage => text'[i] = text[i]
      /\ \A i \in Inodes : text'[i] \in (SUBSET Edit) \cup {None}
  <2>1. /\ DOMAIN text' = DOMAIN text /\ text'[stage] = active.target.text
        /\ \A i \in DOMAIN text : i # stage => text'[i] = text[i]
    BY <1>2, <1>8 DEF Inodes
  <2>2. \A i \in Inodes : text[i] \in (SUBSET Edit) \cup {None}
    BY <1>1 DEF TypeOK
  <2> QED
    BY <1>7, <2>1, <2>2 DEF Inodes, NewInode
<1>10. /\ dest # None => dest \in Inodes /\ text'[dest] = text[dest]
       /\ \A n \in DOMAIN previous : text'[previous[n]] = text[previous[n]]
  BY <1>1, <1>9, Facts DEF Names
<1>11. /\ run' \in Run /\ run'.at = "mark" /\ run'.then = run.then /\ run'.changed = run.changed
       /\ run'.displaces = run.displaces
  BY <1>1, <1>2, GotoFacts DEF Steps
<1> HIDE <1>2
<1>12. TypeOK'
  <2>1. Linked' \subseteq Inodes'
    BY <1>1, <1>5, <1>9 DEF Linked, TypeOK
  <2> QED
    BY <1>1, <1>5, <1>9, <1>10, <1>11, <2>1 DEF TypeOK
<1>13. Names'
  BY <1>1, <1>5, <1>9, <1>10 DEF Names
<1>14. Attempts'
  BY <1>1, <1>5, <1>9 DEF Attempts
<1>15. Reports'
  <2>1. Reported(active.target.text)
    BY <1>1, <1>3 DEF Attempts, Reports, Reported
  <2> QED
    BY <1>1, <1>5, <1>6, <1>9, <2>1 DEF Reports, Reported
<1>16. Owes'
  <2>1. ASSUME NEW e \in owed \ raced, InFile(e, {})
        PROVE  e \in SeenEdits \/ InFile(e, {})'
    <3>1. CASE stage # None /\ text[stage] # None /\ e \in text[stage]
      BY <1>1, <3>1 DEF Reports, Reported, Files, Owes
    <3>2. CASE ~(stage # None /\ text[stage] # None /\ e \in text[stage])
      BY <1>5, <1>10, <2>1, <3>2 DEF InFile
    <3> QED
      BY <3>1, <3>2
  <2> QED
    BY <1>1, <1>5, <1>6, <2>1, OwesGo DEF Files
<1>17. Stems'
  <2>1. Away' = Away
    BY <1>5 DEF Away
  <2>2. UNION {text'[i] : i \in Away} = UNION {text[i] : i \in Away}
    BY <1>10 DEF Away
  <2>3. Kept' = Kept
    BY <1>5, <1>10, <2>1, <2>2 DEF Kept
  <2> QED
    BY <1>1, <1>3, <1>5, <1>10, <2>3 DEF Stems, From
<1>18. Calls'
  <2>1. Complete'
    BY <1>3, <1>5, <1>9 DEF Complete
  <2> QED
    BY <1>3, <1>5, <1>11, <2>1 DEF Calls, Working, Importing, Staged, Renamed
<1>19. Reading'
  BY <1>11 DEF Reading, Importing
<1>20. ASSUME edits = 0
       PROVE  Alone' /\ Expected'
  <2>1. Alone /\ Waiting /\ (run.displaces <=> base # None)
    BY <1>3, <1>4, <1>20 DEF Empty, Between
  <2>2. InPlace'
    BY <1>5, <1>10, <2>1 DEF InPlace, There, Waiting
  <2>3. Waiting'
    BY <1>3, <1>5, <2>1, <2>2 DEF Waiting
  <2>4. \A n \in DOMAIN settled' : settled'[n] # None /\ There(previous[n], settled[n])'
    BY <1>1, <1>5, <1>10, <2>1 DEF Alone, There, Names
  <2>5. Alone'
    BY <1>3, <1>5, <2>1, <2>3, <2>4 DEF Alone
  <2> QED
    BY <1>3, <1>5, <1>11, <1>20, <2>1, <2>3, <2>5, Unchanged DEF Expected, Empty, Importing, Renamed
<1> QED
  BY <1>5, <1>12, <1>13, <1>14, <1>15, <1>16, <1>17, <1>18, <1>19, <1>20 DEF IInv, Files, RunFits

LEMMA Displacing ==
  ASSUME IInv, Displace
  PROVE  IInv'
<1>1. /\ TypeOK /\ Names /\ Attempts /\ Reports /\ Stems /\ run \in Run /\ Files
      /\ seen \subseteq Observation /\ crashes \in 0 .. MaxCrashes
  BY DEF IInv, Files, TypeOK
<1>2. /\ run.at = "displace"
      /\ UNCHANGED <<db, stage, text, editor, saves, crashes>>
  BY DEF Displace, At
<1>3. /\ active # None /\ run.then # "failed" /\ Complete /\ active.stage = stage
      /\ stage # None /\ active.id \notin DOMAIN previous
  BY <1>2 DEF IInv, RunFits, Calls, Working, Staged, Complete
<1>4. edits = 0 => Alone /\ Waiting /\ base # None
  BY <1>2 DEF IInv, Expected
<1>5. UNCHANGED <<desired, base, active, settled, seen, stage, text, handle, buffer, owed, removed, raced, edits,
                  saves, crashes>>
  BY <1>2 DEF db, editor
<1>6. SeenEdits' = SeenEdits
  BY <1>5 DEF SeenEdits
<1>7. CASE dest = None /\ End /\ UNCHANGED <<dest, previous>>
  <2>1. edits # 0
    BY <1>4, <1>7 DEF Waiting, InPlace
  <2> QED
    BY <1>1, <1>5, <1>6, <1>7, <2>1, EndFacts, Resting, Observing DEF editor, disk
<1>8. CASE /\ dest # None /\ previous' = Put(previous, active.id, dest)
           /\ dest' = None /\ Goto("moved")
  <2>1. /\ DOMAIN previous' = DOMAIN previous \cup {active.id}
        /\ previous'[active.id] = dest
        /\ \A n \in DOMAIN previous : n # active.id /\ previous'[n] = previous[n]
    BY <1>3, <1>8 DEF Put
  <2>2. /\ dest # None /\ dest' = None /\ dest \in Inodes /\ text[dest] # None
        /\ Inodes' = Inodes /\ NewInode' = NewInode
    BY <1>1, <1>5, <1>8, Facts DEF Inodes, NewInode, TypeOK
  <2>3. active.id \in Inodes /\ active.id \in Nat
    BY <1>1, <1>3, Facts DEF Attempts
  <2>4. run' \in Run /\ run'.at = "moved" /\ run'.then = run.then /\ run'.changed = run.changed
    BY <1>1, <1>8, GotoFacts DEF Steps
  <2> HIDE <1>8
  <2>5. TypeOK'
    <3>1. Linked' \subseteq Inodes'
      BY <1>1, <1>5, <2>1, <2>2, Facts DEF Linked
    <3> QED
      BY <1>1, <1>5, <2>1, <2>2, <2>3, <2>4, <3>1 DEF TypeOK
  <2>6. Names'
    BY <1>1, <1>5, <2>1, <2>2, <2>3, Facts DEF Names
  <2>7. Attempts'
    BY <1>1, <1>3, <1>5, <2>1, <2>2 DEF Attempts, Names
  <2>8. Reports'
    BY <1>1, <1>5, <1>6, ReportsStay DEF Files
  <2>9. Owes'
    <3>1. \A e : InFile(e, {}) => InFile(e, {})'
      BY <1>5, <2>1, <2>2 DEF InFile
    <3> QED
      BY <1>1, <1>5, <1>6, <3>1, OwesGo DEF Files
  <2>10. Stems'
    <3>1. active.id \notin DOMAIN settled
      BY <1>1, <1>3 DEF Attempts
    <3>2. dest \in Away'
      BY <1>5, <2>1, <3>1 DEF Away
    <3>3. Kept \subseteq Kept'
      BY <1>5, <2>2, <3>2 DEF Kept
    <3>4. Kept = text[dest]
      BY <2>2 DEF Kept
    <3> QED
      BY <1>1, <1>5, <2>1, <2>2, <3>3, <3>4 DEF Stems, From
  <2>11. Calls'
    <3>1. Complete'
      BY <1>3, <1>5 DEF Complete
    <3> QED
      BY <1>3, <1>5, <2>4, <3>1 DEF Calls, Working, Importing, Staged, Renamed
  <2>12. Reading'
    BY <2>4 DEF Reading, Importing
  <2>13. ASSUME edits = 0
         PROVE  Alone' /\ Expected'
    <3>1. Alone /\ base # None /\ There(dest, base)
      BY <1>4, <2>13 DEF Waiting, InPlace
    <3>2. SetAside'
      BY <1>5, <2>1, <3>1 DEF SetAside, There
    <3>3. Between'
      BY <1>3, <1>5, <2>2, <3>2 DEF Between
    <3>4. \A n \in DOMAIN settled' : settled'[n] # None /\ There(previous[n], settled[n])'
      BY <1>1, <1>5, <2>1, <3>1 DEF Alone, There, Names
    <3>5. Alone'
      BY <1>3, <1>5, <3>1, <3>3, <3>4 DEF Alone
    <3> QED
      BY <1>3, <2>4, <2>13, <3>3, <3>5, Unchanged DEF Expected, Importing, Renamed
  <2> QED
    BY <1>5, <2>5, <2>6, <2>7, <2>8, <2>9, <2>10, <2>11, <2>12, <2>13 DEF IInv, Files, RunFits
<1> QED
  BY <1>7, <1>8 DEF Displace

LEMMA Publishing ==
  ASSUME IInv, Publish
  PROVE  IInv'
<1>1. /\ TypeOK /\ Names /\ Attempts /\ Reports /\ Stems /\ run \in Run /\ Files
      /\ seen \subseteq Observation /\ crashes \in 0 .. MaxCrashes
  BY DEF IInv, Files, TypeOK
<1>2. /\ run.at = "publish"
      /\ UNCHANGED <<desired, base, active, settled, previous, text, editor, saves, crashes>>
  BY DEF Publish, At
<1>3. /\ active # None /\ run.then # "failed" /\ Complete /\ active.stage = stage
      /\ stage # None /\ text[stage] = active.target.text
  BY <1>2 DEF IInv, RunFits, Calls, Working, Staged, Complete
<1>4. edits = 0 => Alone /\ Empty /\ dest = None
  BY <1>2 DEF IInv, Expected, Empty, Between, Waiting, InPlace
<1>5. UNCHANGED <<desired, base, active, settled, previous, text, handle, buffer, owed, removed, raced, edits,
                  saves, crashes>>
  BY <1>2 DEF editor
<1>6. CASE dest # None /\ Retain({AtPath}) /\ End /\ UNCHANGED <<dest, stage>>
  <2>1. {AtPath} \in SUBSET File
    BY <1>1, <1>6, Snapshots
  <2>2. seen' \subseteq Observation /\ SeenEdits \subseteq SeenEdits'
    BY <1>3, <1>6, <2>1, Retaining
  <2>3. run' \in Run /\ RunFits'
    BY <1>1, <1>6, EndFacts, Resting
  <2> QED
    BY <1>1, <1>4, <1>5, <1>6, <2>2, <2>3, Observing DEF editor, disk
<1>7. CASE dest = None /\ dest' = stage /\ stage' = None /\ Goto("published") /\ UNCHANGED seen
  <2>1. /\ dest = None /\ dest' = stage /\ stage' = None /\ seen' = seen
        /\ stage \in Inodes /\ Inodes' = Inodes /\ NewInode' = NewInode
    BY <1>1, <1>3, <1>5, <1>7, Facts DEF Inodes, NewInode
  <2>2. SeenEdits' = SeenEdits
    BY <2>1 DEF SeenEdits
  <2>3. run' \in Run /\ run'.at = "published" /\ run'.then = run.then /\ run'.changed = run.changed
    BY <1>1, <1>7, GotoFacts DEF Steps
  <2>4. active.target.text \in SUBSET Edit /\ text[stage] # None
    <3>1. active.target.text \in SUBSET Edit
      BY <1>1, <1>3 DEF TypeOK, Attempt, Version
    <3> QED
      BY <1>3, <3>1, Nobody
  <2> HIDE <1>7
  <2>5. TypeOK'
    <3>1. Linked' \subseteq Inodes'
      BY <1>1, <1>5, <2>1 DEF Linked, TypeOK
    <3> QED
      BY <1>1, <1>5, <2>1, <2>3, <2>4, <3>1 DEF TypeOK
  <2>6. Names'
    BY <1>1, <1>3, <1>5, <2>1, Facts DEF Names
  <2>7. Attempts'
    BY <1>1, <1>5, <2>1 DEF Attempts
  <2>8. Reports'
    BY <1>1, <1>5, <2>1, <2>2 DEF Reports, Reported
  <2>9. Owes'
    <3>1. \A e : InFile(e, {}) => InFile(e, {})'
      BY <1>5, <2>1 DEF InFile
    <3> QED
      BY <1>1, <1>5, <2>2, <3>1, OwesGo DEF Files
  <2>10. Stems'
    <3>1. base # None => base.text \subseteq text[stage]
      BY <1>1, <1>3 DEF Attempts
    <3>2. Kept' = text[stage]
      BY <1>3, <1>5, <2>1 DEF Kept
    <3> QED
      BY <1>1, <1>3, <1>5, <2>1, <3>1, <3>2 DEF Stems, From
  <2>11. Calls'
    BY <1>3, <1>5, <2>1, <2>3 DEF Calls, Working, Importing, Staged, Renamed
  <2>12. Reading'
    BY <2>3 DEF Reading, Importing
  <2>13. ASSUME edits = 0
         PROVE  Alone' /\ Expected'
    <3>1. Alone /\ Empty
      BY <1>4, <2>13
    <3>2. IF base = None THEN active.id \notin DOMAIN previous ELSE SetAside
      BY <3>1 DEF Empty, Between, Waiting, SetAside
    <3>3. SetAside => SetAside'
      BY <1>5 DEF SetAside, There
    <3>4. Out'
      BY <1>3, <1>5, <2>1, <3>2, <3>3 DEF Out
    <3>5. \A n \in DOMAIN settled' : settled'[n] # None /\ There(previous[n], settled[n])'
      BY <1>5, <3>1 DEF Alone, There
    <3>6. Alone'
      BY <1>3, <1>5, <2>1, <3>1, <3>4, <3>5 DEF Alone
    <3> QED
      BY <1>3, <2>3, <2>13, <3>4, <3>6, Unchanged DEF Expected, Importing, Renamed
  <2> QED
    BY <1>5, <2>5, <2>6, <2>7, <2>8, <2>9, <2>10, <2>11, <2>12, <2>13 DEF IInv, Files, RunFits
<1> QED
  BY <1>6, <1>7 DEF Publish

-------------------------------------------------------------------------------
(* The editor.                                                             *)

(* Without the displaced file that is about to be unlinked, if there is    *)
(* one: written to after it was compared, it may not count.                *)
Watched(but) == but = {} \/ (run.at = "remove" /\ but = {First(run.left)})

LEMMA SafeGo ==
  ASSUME NEW but, Safe(but), seen' = seen,
         \A e \in owed' \ raced' :
           InFile(e, but)' \/ (e \in owed \ raced /\ (InFile(e, but) => InFile(e, but)'))
  PROVE  Safe(but)'
BY DEF Safe, SeenEdits

(* What an editor makes of the files; it never touches a stage.            *)
LEMMA Acting ==
  ASSUME IInv, TypeOK', Names', edits' # 0,
         UNCHANGED <<desired, base, active, settled, seen, stage, previous, run>>,
         Inodes' = Inodes \/ Inodes' = Inodes \cup {NewInode},
         stage # None => text'[stage] = text[stage],
         dest' # None => dest' = dest \/ dest' = NewInode,
         removed \subseteq removed',
         Kept \subseteq Kept' \cup removed', Shown \subseteq Shown' \cup removed',
         \A n \in DOMAIN previous \ DOMAIN settled :
           text[previous[n]] \subseteq text'[previous[n]] \cup removed',
         \A e \in owed' : e.by = "editor",
         \A but : Watched(but) /\ Safe(but) => Safe(but)'
  PROVE  IInv'
<1>1. /\ TypeOK /\ Names /\ Attempts /\ Reports /\ Owes /\ Stems /\ Calls /\ Reading
  BY DEF IInv, Files, RunFits
<1>2. SeenEdits' = SeenEdits
  BY DEF SeenEdits
<1>3. NewInode \notin Inodes
  BY <1>1, Facts
<1>4. \A T : From(T, Shown) => T \subseteq Shown' \cup removed'
  BY DEF From
<1>5. Attempts'
  <2>1. Inodes' = Inodes => NewInode' = NewInode
    BY DEF NewInode
  <2> QED
    BY <1>1, <2>1 DEF Attempts
<1>6. Reports'
  BY <1>1, <1>2 DEF Reports, Reported
<1>7. Owes'
  <2>1. Safe({})'
    BY <1>1 DEF Owes, Watched
  <2> QED
    BY <2>1 DEF Owes
<1>8. Stems'
  <2>1. active # None /\ dest' # None /\ dest' = active.stage => dest' = dest
    BY <1>1, <1>3 DEF Attempts
  <2>2. base # None => base.text \subseteq Kept' \cup removed'
    BY <1>1 DEF Stems, From
  <2>3. active # None /\ dest' # None /\ dest' = active.stage =>
          active.target.text \subseteq text'[dest'] \cup removed'
    BY <1>1, <1>4, <2>1 DEF Stems, From, Shown
  <2>4. active # None /\ base # None /\ active.id \in DOMAIN previous =>
          base.text \subseteq text'[previous[active.id]] \cup removed'
    BY <1>1 DEF Stems, From, Attempts
  <2>5. active # None /\ stage # None /\ stage = active.stage =>
          text'[stage] = active.target.text
    BY <1>1 DEF Stems
  <2> QED
    BY <2>2, <2>3, <2>4, <2>5 DEF Stems, From
<1>9. Calls'
  <2>1. Complete => Complete'
    BY DEF Complete
  <2> QED
    BY <1>1, <2>1 DEF Calls, Working, Importing, Staged, Renamed
<1>10. Reading'
  <2>1. run.at = "finish" => active.target.text \subseteq Shown' \cup removed'
    BY <1>1, <1>4 DEF Reading
  <2>2. run.at = "import" => run.obs.text \subseteq Shown' \cup removed'
    BY <1>1, <1>4 DEF Reading
  <2>3. run.at \in Importing /\ base # None => base.text \subseteq run.obs.text \cup removed'
    BY <1>1 DEF Reading, From
  <2>4. run.at = "unlink" => Reported(run.old.text)'
    BY <1>1, <1>2 DEF Reading, Reported
  <2>5. run.at = "cancel" /\ base # None /\ active.id \in DOMAIN previous =>
          base.text \subseteq Shown' \cup removed'
    BY <1>1, <1>4 DEF Reading
  <2>6. run.at = "remove" => Safe({First(run.left)})'
    <3> SUFFICES ASSUME run.at = "remove"
                 PROVE  Safe({First(run.left)})'
      OBVIOUS
    <3>1. PICK but : but = {First(run.left)}
      OBVIOUS
    <3>2. Safe(but)'
      BY <1>1, <3>1 DEF Reading, Watched
    <3> QED
      BY <3>1, <3>2
  <2> QED
    BY <2>1, <2>2, <2>3, <2>4, <2>5, <2>6 DEF Reading, From, Importing
<1> QED
  BY <1>5, <1>6, <1>7, <1>8, <1>9, <1>10 DEF IInv, Files, RunFits

LEMMA ActsFacts ==
  ASSUME IInv, Acts
  PROVE  /\ TypeOK /\ Names /\ Files
         /\ NewEdit \in Edit /\ NewEdit.by = "editor"
         /\ edits' \in 0 .. MaxEdits /\ edits' # 0
         /\ UNCHANGED <<desired, base, active, settled, seen, stage, previous, run, saves, crashes>>
         /\ buffer \in SUBSET Edit /\ owed \in SUBSET Edit /\ removed \in SUBSET Edit
         /\ raced \in SUBSET Edit /\ \A e \in owed : e.by = "editor"
<1>1. TypeOK /\ Names /\ Files
  BY DEF IInv, Files
<1>2. saves \in Nat /\ edits \in Nat /\ {MaxEdits, MaxActs} \subseteq Nat
  BY <1>1, JournalAssumption DEF TypeOK
<1>3. edits' = edits + 1 /\ edits < MaxEdits /\ saves + edits < MaxActs
  BY DEF Acts
<1>4. NewEdit \in Edit /\ NewEdit.by = "editor"
  BY <1>2, <1>3 DEF NewEdit, Edit
<1>5. edits' \in 0 .. MaxEdits /\ edits' # 0
  BY <1>2, <1>3
<1>6. /\ buffer \in SUBSET Edit /\ owed \in SUBSET Edit /\ removed \in SUBSET Edit
      /\ raced \in SUBSET Edit /\ \A e \in owed : e.by = "editor"
  BY <1>1 DEF TypeOK, Files, Owes
<1> QED
  BY <1>1, <1>4, <1>5, <1>6 DEF Acts, db

LEMMA Handling ==
  ASSUME IInv, WriteHandle
  PROVE  IInv'
<1>0. PICK new : new = buffer \cup {NewEdit}
  OBVIOUS
<1>1. /\ Acts /\ UNCHANGED <<dest, handle>> /\ handle \in Linked
      /\ text' = [text EXCEPT ![handle] = new]
      /\ owed' = (owed \ (text[handle] \ new)) \cup Written(new)
      /\ removed' = IF handle \in {dest} \cup Away
                    THEN removed \cup (text[handle] \ new) ELSE removed
      /\ raced' = IF Compared(handle) THEN raced \cup new ELSE raced \ new
      /\ buffer' = new
  BY <1>0 DEF WriteHandle
<1>2. /\ TypeOK /\ Names /\ Files
      /\ NewEdit \in Edit /\ NewEdit.by = "editor"
      /\ edits' \in 0 .. MaxEdits /\ edits' # 0
      /\ UNCHANGED <<desired, base, active, settled, seen, stage, previous, run, saves, crashes>>
      /\ buffer \in SUBSET Edit /\ owed \in SUBSET Edit /\ removed \in SUBSET Edit
      /\ raced \in SUBSET Edit /\ \A e \in owed : e.by = "editor"
  BY <1>1, ActsFacts
<1>3. /\ new \in SUBSET Edit /\ new # None
      /\ Written(new) \subseteq new /\ \A e \in Written(new) : e.by = "editor"
  <2>1. new \in SUBSET Edit
    BY <1>0, <1>2
  <2> QED
    BY <2>1, Nobody DEF Written
<1> HIDE <1>0 DEF NewEdit
<1>4. \/ dest # None /\ handle = dest
      \/ \E n \in DOMAIN previous : handle = previous[n]
  BY <1>1, <1>2 DEF Linked, Names
<1>5. handle # stage /\ handle \in Inodes /\ text[handle] \in SUBSET Edit
  BY <1>2, <1>4, Facts DEF Names
<1>6. /\ Inodes' = Inodes /\ text'[handle] = new
      /\ \A i \in Inodes : i # handle => text'[i] = text[i]
  BY <1>1, <1>5 DEF Inodes
<1>7. /\ stage # None => text'[stage] = text[stage]
      /\ dest # None => dest \in Inodes /\ text'[dest] # None
      /\ \A n \in DOMAIN previous : previous[n] \in Inodes /\ text'[previous[n]] # None
  BY <1>2, <1>3, <1>5, <1>6, Facts DEF Names, TypeOK
<1>8. TypeOK'
  <2>1. Linked' \subseteq Inodes'
    BY <1>1, <1>2, <1>6 DEF Linked, TypeOK
  <2>2. \A i \in Inodes' : text'[i] \in (SUBSET Edit) \cup {None}
    BY <1>2, <1>3, <1>6 DEF TypeOK
  <2>3. {buffer', owed', removed', raced'} \subseteq SUBSET Edit
    BY <1>1, <1>2, <1>3, <1>5
  <2> QED
    BY <1>1, <1>2, <1>6, <1>7, <2>1, <2>2, <2>3 DEF TypeOK
<1>9. Names'
  BY <1>1, <1>2, <1>6, <1>7 DEF Names
<1>10. \A i \in Inodes : i \in {dest} \cup Away => text[i] \subseteq text'[i] \cup removed'
  BY <1>1, <1>6
<1>11. \A n \in DOMAIN previous \ DOMAIN settled : previous[n] \in Away
  BY DEF Away
<1>12. Away' = Away /\ \A i \in Away : i \in Inodes
  BY <1>2, <1>7 DEF Away
<1>13. Shown \subseteq Shown' \cup removed'
  BY <1>1, <1>7, <1>10 DEF Shown
<1>14. Kept \subseteq Kept' \cup removed'
  <2>1. CASE dest # None
    BY <1>1, <1>7, <1>10, <2>1 DEF Kept
  <2>2. CASE dest = None
    BY <1>1, <1>10, <1>12, <2>2 DEF Kept
  <2> QED
    BY <2>1, <2>2
<1>15. ASSUME NEW but, Watched(but), Safe(but)
       PROVE  Safe(but)'
  <2> SUFFICES ASSUME NEW e \in owed' \ raced'
               PROVE  InFile(e, but)' \/ (e \in owed \ raced /\ (InFile(e, but) => InFile(e, but)'))
    BY <1>2, <1>15, SafeGo
  <2>1. CASE e \in new
    <3>1. ~Compared(handle)
      BY <1>1, <2>1
    <3>2. \A n \in DOMAIN previous : handle = previous[n] => n \notin but
      BY <1>15, <3>1 DEF Watched, Compared, At
    <3> QED
      BY <1>1, <1>2, <1>4, <1>6, <2>1, <3>2 DEF InFile
  <2>2. CASE e \notin new
    <3>1. e \in owed /\ e \notin raced /\ e \notin text[handle]
      BY <1>1, <1>3, <2>2
    <3>2. InFile(e, but) => InFile(e, but)'
      BY <1>1, <1>2, <1>6, <1>7, <3>1 DEF InFile
    <3> QED
      BY <3>1, <3>2
  <2> QED
    BY <2>1, <2>2
<1>16. removed \subseteq removed' /\ \A e \in owed' : e.by = "editor"
  BY <1>1, <1>2, <1>3
<1>17. \A n \in DOMAIN previous \ DOMAIN settled :
         text[previous[n]] \subseteq text'[previous[n]] \cup removed'
  BY <1>10, <1>11, <1>12
<1> QED
  BY <1>1, <1>2, <1>6, <1>7, <1>8, <1>9, <1>13, <1>14, <1>15, <1>16, <1>17, Acting

(* A new file at the path, with or without one that it replaces.           *)
LEMMA Made ==
  ASSUME IInv, Acts, UNCHANGED handle, dest' = NewInode,
         NEW new \in SUBSET Edit,
         DOMAIN text' = Inodes \cup {NewInode}, text'[NewInode] = new,
         \A i \in Inodes : i = dest => text'[i] = {},
         \A i \in Inodes : i # dest => text'[i] = text[i],
         owed' = (owed \ (Shown \ new)) \cup Written(new),
         removed' = removed \cup (Kept \ new),
         raced' = raced \ new, buffer' = new
  PROVE  IInv'
<1>1. /\ TypeOK /\ Names /\ Files
      /\ edits' \in 0 .. MaxEdits /\ edits' # 0
      /\ UNCHANGED <<desired, base, active, settled, seen, stage, previous, run, saves, crashes>>
      /\ owed \in SUBSET Edit /\ removed \in SUBSET Edit
      /\ raced \in SUBSET Edit /\ \A e \in owed : e.by = "editor"
  BY ActsFacts
<1>2. /\ new # None /\ Written(new) \subseteq new /\ \A e \in Written(new) : e.by = "editor"
  BY Nobody DEF Written
<1>3. /\ NewInode \notin Inodes /\ NewInode # None /\ Inodes \subseteq Nat
      /\ dest # None => dest \in Inodes /\ text[dest] \in SUBSET Edit
  BY <1>1, Facts, Nobody
<1>4. /\ Inodes' = Inodes \cup {NewInode} /\ NewInode' # NewInode
      /\ Cardinality(Inodes') \in Nat /\ Inodes' = 1 .. Cardinality(Inodes')
  BY <1>1, OneMore
<1>5. dest' # None /\ text'[dest'] = new /\ Shown' = new /\ Kept' = new
  BY <1>3 DEF Shown, Kept
<1>6. /\ stage # None => stage \in Inodes /\ text'[stage] = text[stage]
      /\ \A n \in DOMAIN previous : text'[previous[n]] = text[previous[n]]
  BY <1>1, Facts DEF Names
<1>7. Shown \subseteq Kept /\ Kept \in SUBSET Edit
  <2>1. CASE dest # None
    BY <1>3, <2>1 DEF Shown, Kept
  <2>2. CASE dest = None
    <3>1. \A i \in Away : text[i] \in SUBSET Edit
      BY <1>1, Facts DEF Away
    <3> QED
      BY <2>2, <3>1 DEF Shown, Kept
  <2> QED
    BY <2>1, <2>2
<1>8. TypeOK'
  <2>1. Linked' \subseteq Inodes'
    BY <1>1, <1>4 DEF Linked, TypeOK
  <2>2. \A i \in Inodes' : text'[i] \in (SUBSET Edit) \cup {None}
    <3>1. \A i \in Inodes : text'[i] \in (SUBSET Edit) \cup {None}
      BY <1>1 DEF TypeOK
    <3> QED
      BY <1>4, <3>1
  <2>3. {buffer', owed', removed', raced'} \subseteq SUBSET Edit
    BY <1>1, <1>2, <1>7
  <2> QED
    BY <1>1, <1>2, <1>4, <1>5, <2>1, <2>2, <2>3 DEF TypeOK
<1>9. Names'
  <2>1. /\ dest' # stage
        /\ stage # None => handle # stage
        /\ \A n \in DOMAIN previous : previous[n] # dest'
    BY <1>1, <1>3, <1>6 DEF Names
  <2>2. \A n \in DOMAIN previous :
          previous[n] \in Inodes' /\ text'[previous[n]] # None /\ previous[n] # stage
    BY <1>1, <1>4, <1>6 DEF Names
  <2>3. /\ \A n, m \in DOMAIN previous : previous[n] = previous[m] => n = m
        /\ DOMAIN previous \subseteq Inodes' /\ DOMAIN settled \subseteq DOMAIN previous
    BY <1>1, <1>4 DEF Names
  <2> QED
    BY <1>1, <1>4, <2>1, <2>2, <2>3 DEF Names
<1>10. ASSUME NEW but, Watched(but), Safe(but)
       PROVE  Safe(but)'
  <2> SUFFICES ASSUME NEW e \in owed' \ raced'
               PROVE  InFile(e, but)' \/ (e \in owed \ raced /\ (InFile(e, but) => InFile(e, but)'))
    BY <1>1, <1>10, SafeGo
  <2>1. CASE e \in new
    BY <1>5, <2>1 DEF InFile
  <2>2. CASE e \notin new
    <3>1. e \in owed /\ e \notin raced /\ e \notin Shown
      BY <1>2, <2>2
    <3>2. InFile(e, but) => InFile(e, but)'
      BY <1>1, <1>6, <3>1 DEF InFile, Shown
    <3> QED
      BY <3>1, <3>2
  <2> QED
    BY <2>1, <2>2
<1>11. removed \subseteq removed' /\ \A e \in owed' : e.by = "editor"
  BY <1>1, <1>2
<1>12. Kept \subseteq Kept' \cup removed' /\ Shown \subseteq Shown' \cup removed'
  BY <1>5, <1>7
<1> QED
  BY <1>1, <1>4, <1>6, <1>8, <1>9, <1>10, <1>11, <1>12, Acting

LEMMA Replacing ==
  ASSUME IInv, Replace
  PROVE  IInv'
<1>1. Acts /\ UNCHANGED handle /\ dest # None /\ dest' = NewInode
  BY DEF Replace
<1>2. PICK new \in {buffer, buffer \cup {NewEdit}} :
        /\ text' = Put(Forgotten({dest}), NewInode, new)
        /\ owed' = (owed \ (text[dest] \ new)) \cup Written(new)
        /\ removed' = removed \cup (text[dest] \ new)
        /\ raced' = raced \ new
        /\ buffer' = new
  BY DEF Replace
<1>3. new \in SUBSET Edit
  <2>1. buffer \in SUBSET Edit /\ NewEdit \in Edit
    BY <1>1, ActsFacts
  <2> QED
    BY <1>2, <2>1
<1>4. NewInode \notin Inodes
  BY Facts DEF IInv, Files
<1>5. /\ DOMAIN Forgotten({dest}) = Inodes
      /\ \A i \in Inodes : i = dest => Forgotten({dest})[i] = {}
      /\ \A i \in Inodes : i # dest => Forgotten({dest})[i] = text[i]
  BY ForgottenFacts
<1>6. /\ DOMAIN text' = DOMAIN Forgotten({dest}) \cup {NewInode}
      /\ text'[NewInode] = new
      /\ \A i \in DOMAIN Forgotten({dest}) : i # NewInode => text'[i] = Forgotten({dest})[i]
  BY <1>2 DEF Put
<1>7. /\ DOMAIN text' = Inodes \cup {NewInode}
      /\ \A i \in Inodes : i = dest => text'[i] = {}
      /\ \A i \in Inodes : i # dest => text'[i] = text[i]
  BY <1>4, <1>5, <1>6
<1>8. Shown = text[dest] /\ Kept = text[dest]
  BY <1>1 DEF Shown, Kept
<1> QED
  BY <1>1, <1>2, <1>3, <1>6, <1>7, <1>8, Made

LEMMA Creating ==
  ASSUME IInv, CreateFile
  PROVE  IInv'
<1>1. Acts /\ UNCHANGED handle /\ dest = None /\ dest' = NewInode
  BY DEF CreateFile
<1>2. PICK kept \in {{}, buffer} :
        /\ text' = Put(text, NewInode, kept \cup {NewEdit})
        /\ owed' = owed \cup Written(kept \cup {NewEdit})
        /\ removed' = removed \cup ((UNION {text[i] : i \in Away}) \ (kept \cup {NewEdit}))
        /\ raced' = raced \ (kept \cup {NewEdit})
        /\ buffer' = kept \cup {NewEdit}
  BY DEF CreateFile
<1>3. PICK new : new = kept \cup {NewEdit}
  OBVIOUS
<1>4. new \in SUBSET Edit
  <2>1. buffer \in SUBSET Edit /\ NewEdit \in Edit
    BY <1>1, ActsFacts
  <2> QED
    BY <1>2, <1>3, <2>1
<1>5. NewInode \notin Inodes /\ None \notin Inodes
  BY Facts DEF IInv, Files
<1>6. /\ DOMAIN text' = Inodes \cup {NewInode} /\ text'[NewInode] = new
      /\ \A i \in Inodes : i = dest => text'[i] = {}
      /\ \A i \in Inodes : i # dest => text'[i] = text[i]
  BY <1>1, <1>2, <1>3, <1>5 DEF Put, Inodes
<1>7. Shown = {} /\ Kept = UNION {text[i] : i \in Away}
  BY <1>1 DEF Shown, Kept
<1>8. /\ owed' = (owed \ (Shown \ new)) \cup Written(new)
      /\ removed' = removed \cup (Kept \ new)
      /\ raced' = raced \ new /\ buffer' = new
  <2>1. owed \ (Shown \ new) = owed
    BY <1>7
  <2>2. owed' = owed \cup Written(new)
    BY <1>2, <1>3
  <2>3. removed' = removed \cup (Kept \ new)
    BY <1>2, <1>3, <1>7
  <2>4. raced' = raced \ new /\ buffer' = new
    BY <1>2, <1>3
  <2> QED
    BY <2>1, <2>2, <2>3, <2>4
<1> QED
  BY <1>1, <1>4, <1>6, <1>8, Made

LEMMA Deleting ==
  ASSUME IInv, DeleteFile
  PROVE  IInv'
<1>1. /\ Acts /\ UNCHANGED <<handle, buffer, raced>> /\ dest # None /\ dest' = None
      /\ owed' = owed \ text[dest] /\ removed' = removed \cup text[dest]
      /\ text' = Forgotten({dest})
  BY DEF DeleteFile
<1>2. /\ TypeOK /\ Names /\ Files
      /\ edits' \in 0 .. MaxEdits /\ edits' # 0
      /\ UNCHANGED <<desired, base, active, settled, seen, stage, previous, run, saves, crashes>>
      /\ buffer \in SUBSET Edit /\ owed \in SUBSET Edit /\ removed \in SUBSET Edit
      /\ raced \in SUBSET Edit /\ \A e \in owed : e.by = "editor"
  BY <1>1, ActsFacts
<1>3. /\ DOMAIN text' = Inodes
      /\ \A i \in Inodes : i = dest => text'[i] = {}
      /\ \A i \in Inodes : i # dest => text'[i] = text[i]
  BY <1>1, ForgottenFacts
<1>4. Inodes' = Inodes
  BY <1>3 DEF Inodes
<1>5. /\ stage # None => text'[stage] = text[stage]
      /\ \A n \in DOMAIN previous : text'[previous[n]] = text[previous[n]]
      /\ text[dest] \in SUBSET Edit
  BY <1>1, <1>2, <1>3, Facts DEF Names
<1>6. TypeOK'
  <2>1. Linked' \subseteq Inodes'
    BY <1>1, <1>2, <1>4 DEF Linked, TypeOK
  <2>2. \A i \in Inodes' : text'[i] \in (SUBSET Edit) \cup {None}
    BY <1>2, <1>3, <1>4 DEF TypeOK
  <2>3. {buffer', owed', removed', raced'} \subseteq SUBSET Edit
    BY <1>1, <1>2, <1>5
  <2> QED
    BY <1>1, <1>2, <1>4, <2>1, <2>2, <2>3 DEF TypeOK
<1>7. Names'
  BY <1>1, <1>2, <1>4, <1>5, Facts DEF Names
<1>8. ASSUME NEW but, Watched(but), Safe(but)
      PROVE  Safe(but)'
  <2> SUFFICES ASSUME NEW e \in owed' \ raced'
               PROVE  InFile(e, but)' \/ (e \in owed \ raced /\ (InFile(e, but) => InFile(e, but)'))
    BY <1>2, <1>8, SafeGo
  <2>1. e \in owed \ raced /\ e \notin text[dest]
    BY <1>1
  <2> QED
    BY <1>1, <1>2, <1>5, <2>1 DEF InFile
<1>9. Kept \subseteq Kept' \cup removed' /\ Shown \subseteq Shown' \cup removed'
  BY <1>1 DEF Kept, Shown
<1>10. removed \subseteq removed' /\ \A e \in owed' : e.by = "editor"
  BY <1>1, <1>2
<1> QED
  BY <1>1, <1>2, <1>4, <1>5, <1>6, <1>7, <1>8, <1>9, <1>10, Acting

(* Nothing but what an editor has open changes, or nothing at all.         *)
LEMMA Opening ==
  ASSUME IInv, Open \/ UNCHANGED vars
  PROVE  IInv'
<1>1. /\ TypeOK /\ Names /\ Attempts /\ Reports /\ Owes /\ Stems /\ Calls /\ Reading
  BY DEF IInv, Files, RunFits
<1>2. /\ UNCHANGED <<desired, base, active, settled, seen, dest, stage, previous, text, run,
                     owed, removed, raced, edits, saves, crashes>>
      /\ \/ handle' = handle /\ buffer' = buffer
         \/ dest # None /\ handle' = dest /\ buffer' = text[dest]
  BY DEF Open, vars, db, disk, editor
<1>3. SeenEdits' = SeenEdits /\ Inodes' = Inodes /\ NewInode' = NewInode /\ Shown' = Shown
  BY <1>2, KeptStays DEF SeenEdits, Inodes, NewInode
<1>4. TypeOK'
  <2>1. handle' \in Inodes \cup {None} /\ buffer' \in SUBSET Edit
    BY <1>1, <1>2, Facts DEF TypeOK
  <2>2. Linked' = Linked
    BY <1>2 DEF Linked
  <2> QED
    BY <1>1, <1>2, <1>3, <2>1, <2>2 DEF TypeOK
<1>5. Names'
  BY <1>1, <1>2, <1>3 DEF Names
<1>6. Attempts' /\ Reports' /\ Owes' /\ Stems'
  BY <1>1, <1>2, <1>3, AttemptsStay, ReportsStay, OwesStay, StemsStay
<1>7. Calls'
  <2>1. Complete => Complete'
    BY <1>2 DEF Complete
  <2> QED
    BY <1>1, <1>2, <2>1 DEF Calls, Working, Importing, Staged, Renamed
<1>8. Reading'
  <2>1. run.at = "remove" => Safe({First(run.left)})'
    BY <1>1, <1>2, <1>3 DEF Reading, Safe, InFile
  <2> QED
    BY <1>1, <1>2, <1>3, <2>1 DEF Reading, Importing, From, Reported
<1>9. ASSUME edits' = 0
      PROVE  Alone' /\ Expected'
  <2>1. Alone /\ Expected
    BY <1>2, <1>9 DEF IInv
  <2>2. Alone'
    BY <1>2, <2>1, AloneStay
  <2>3. (Waiting => Waiting') /\ (Between => Between') /\ (Out => Out')
    BY <1>2 DEF Waiting, Between, Out, InPlace, SetAside, There
  <2>4. Empty => Empty'
    BY <1>2, <2>3 DEF Empty
  <2>5. Expected'
    BY <1>2, <2>1, <2>3, <2>4 DEF Expected, Importing, Renamed
  <2> QED
    BY <2>2, <2>5
<1> QED
  BY <1>4, <1>5, <1>6, <1>7, <1>8, <1>9 DEF IInv, Files, RunFits

-------------------------------------------------------------------------------
(* Every behaviour.                                                        *)

LEMMA Initial ==
  ASSUME Init
  PROVE  IInv
<1>1. /\ desired = [rev |-> 1, text |-> {}] /\ active = None /\ settled = <<>> /\ seen = {}
      /\ stage = None /\ previous = <<>> /\ run = Idle /\ handle = None
      /\ buffer = {} /\ owed = {} /\ removed = {} /\ raced = {} /\ saves = 0 /\ edits = 0 /\ crashes = 0
  BY DEF Init
<1>2. DOMAIN settled = {} /\ DOMAIN previous = {}
  BY <1>1
<1>3. run \in Run /\ run.at = "idle" /\ run.then = "idle" /\ ~run.changed
  BY <1>1 DEF Idle, Run, Steps
<1>4. Calls /\ Reading
  BY <1>3 DEF Calls, Reading, Working, Importing, Staged, Renamed
<1>5. \/ base = None /\ dest = None /\ Inodes = {}
      \/ /\ base \in Baseline /\ base # None /\ base.text = {} /\ base.inode = 1
         /\ dest = 1 /\ Inodes = {1} /\ text[1] = {}
  <2>1. CASE base = None /\ dest = None /\ text = <<>>
    BY <2>1 DEF Inodes
  <2>2. CASE /\ base = [rev |-> 1, text |-> {}, inode |-> 1]
             /\ dest = 1 /\ text = [i \in {1} |-> {}]
    <3>1. [rev |-> 1, text |-> {}, inode |-> 1] \in Baseline
      BY DEF Baseline
    <3> QED
      BY <2>2, <3>1, Nobody DEF Inodes
  <2> QED
    BY <2>1, <2>2 DEF Init
<1>6. /\ Cardinality(Inodes) \in Nat /\ Inodes = 1 .. Cardinality(Inodes)
  <2>1. Cardinality({}) = 0 /\ Cardinality({1}) = 1
    BY FS_EmptySet, FS_Singleton
  <2>2. {} = 1 .. 0 /\ {1} = 1 .. 1
    OBVIOUS
  <2>3. CASE Inodes = {}
    <3>1. Cardinality(Inodes) = 0
      BY <2>1, <2>3
    <3> QED
      BY <2>2, <2>3, <3>1
  <2>4. CASE Inodes = {1}
    <3>1. Cardinality(Inodes) = 1
      BY <2>1, <2>4
    <3> QED
      BY <2>2, <2>4, <3>1
  <2> QED
    BY <1>5, <2>3, <2>4
<1>7. /\ Linked = {dest} \ {None}
      /\ dest # None => dest \in Inodes /\ text[dest] = {}
  BY <1>1, <1>2, <1>5 DEF Linked
<1>8. {} # None
  BY Nobody
<1>9. TypeOK
  <2>1. desired \in Version
    BY <1>1 DEF Version
  <2>2. \A i \in Inodes : text[i] \in (SUBSET Edit) \cup {None}
    BY <1>5
  <2> QED
    BY <1>1, <1>2, <1>3, <1>5, <1>7, <1>8, <2>1, <2>2, JournalAssumption DEF TypeOK
<1>10. Names
  BY <1>1, <1>2, <1>6 DEF Names
<1>11. Attempts /\ Reports /\ Owes /\ Stems
  <2>1. base # None => Kept = {}
    BY <1>5, <1>7, Nobody DEF Kept
  <2> QED
    BY <1>1, <1>2, <1>5, <2>1 DEF Attempts, Reports, Reported, Owes, Safe, Stems, From
<1>12. Alone
  <2>1. InPlace
    BY <1>5, Nobody DEF InPlace, There
  <2> QED
    BY <1>1, <1>2, <2>1 DEF Alone
<1>13. Expected
  BY <1>3 DEF Expected, Importing, Renamed
<1> QED
  BY <1>4, <1>9, <1>10, <1>11, <1>12, <1>13 DEF IInv, Files, RunFits

LEMMA Inductive ==
  ASSUME IInv, [Next]_vars
  PROVE  IInv'
<1>1. CASE Save
  BY <1>1, Saving
<1>2. CASE Recover \/ Reconcile \/ Resume \/ Failed \/ Verify \/ Crash
  BY <1>2, Moving
<1>3. CASE Retire \/ Unlink \/ Remove
  BY <1>3, Retirement, Unlinking, Removing
<1>4. CASE Project \/ Mark \/ Finish \/ Cancel \/ DropAttempt \/ Import
  BY <1>4, Projecting, Marking, Finishing, Cancelling, Dropping, Imported
<1>5. CASE Look \/ Check \/ Final \/ Acknowledge \/ Observe
  BY <1>5, Looking, Rereading, Observes
<1>6. CASE Restore \/ Stage \/ Write \/ Displace \/ Publish
  BY <1>6, PuttingBack, Staging, Writing, Displacing, Publishing
<1>7. CASE WriteHandle \/ Replace \/ CreateFile \/ DeleteFile
  BY <1>7, Handling, Replacing, Creating, Deleting
<1>8. CASE Open \/ UNCHANGED vars
  BY <1>8, Opening
<1> QED
  BY <1>1, <1>2, <1>3, <1>4, <1>5, <1>6, <1>7, <1>8 DEF Next, Step, EditorActs

(* IInv holds in every state: where the inodes are, what the attempt and   *)
(* the call know of them, and that what an editor wrote is in a file or in *)
(* an observation.                                                         *)
THEOREM Invariance == Spec => []IInv
<1>1. Init => IInv
  BY Initial
<1>2. IInv /\ [Next]_vars => IInv'
  BY Inductive
<1> QED
  BY <1>1, <1>2, PTL DEF Spec

(* The variables have their types, and the path never shows a file that    *)
(* stage_projection_content() has not finished.                            *)
THEOREM TypeCorrect == Spec => []TypeOK
<1>1. IInv => TypeOK
  BY DEF IInv, Files
<1> QED
  BY <1>1, Invariance, PTL

(* Whatever recover_locked(), resume() and the observation of an external  *)
(* file do to the files, and wherever a process dies, what an editor wrote *)
(* is in the database, in an observation or in a file with a name; but for *)
(* what was written to a displaced file between its last comparison and    *)
(* unlink_regular_identity().                                              *)
THEOREM NothingIsLost == Spec => []NothingLost
<1>1. IInv => NothingLost
  <2> SUFFICES ASSUME IInv, NEW e \in owed \ raced, e \notin SeenEdits
               PROVE  \E i \in Linked : text[i] # None /\ e \in text[i]
    BY DEF NothingLost, SeenEdits
  <2>1. TypeOK /\ Names /\ InFile(e, {})
    BY DEF IInv, Files, Owes, Safe
  <2> QED
    BY <2>1, Facts DEF InFile, Linked, TypeOK, Names
<1> QED
  BY <1>1, Invariance, PTL

(* Without an act of an editor, no crash and no recovery makes the vault   *)
(* record a conflict.                                                      *)
THEOREM ConflictsHaveAnEditor == Spec => []ConflictsAreReal
<1>1. IInv => ConflictsAreReal
  BY DEF IInv, Alone, ConflictsAreReal
<1> QED
  BY <1>1, Invariance, PTL

(* import_family_observation_content() takes no edit out of the text but   *)
(* one that an editor left out of a file: of the file at the path, of the  *)
(* one that the attempt had moved away from there, or of one made in       *)
(* between.                                                                *)
THEOREM ImportKeepsEdits == Spec => EditsSurvive
<1>1. ASSUME IInv, [Next]_vars
      PROVE  desired.text \ desired'.text \subseteq removed
  <2>1. CASE Import
    <3>1. /\ run.at = "import"
          /\ desired'.text =
               (desired.text \cup run.obs.text) \ (base.text \ run.obs.text)
      BY <2>1 DEF Import, At, Merged
    <3>2. base # None
      BY <1>1, <3>1 DEF IInv, RunFits, Calls
    <3>3. From(base.text, run.obs.text)
      BY <1>1, <3>1, <3>2 DEF IInv, RunFits, Reading, Importing
    <3> QED
      BY <3>1, <3>3 DEF From
  <2>2. CASE Save
    BY <2>2 DEF Save
  <2>3. CASE ~Import /\ ~Save
    <3>1. desired' = desired
      BY <1>1, <2>3
         DEF Next, Step, EditorActs, Recover, Reconcile, Crash, Retire, Unlink, Remove, Resume,
             Project, Look, LookForeign, LookPublished, LookSuperseded, LookDisplaced,
             LookUntouched, Looks, Restore, PutBack, Stage, Write, Mark, Displace, Check,
             Publish, Final, Acknowledge, Confirm, Finish, Cancel, Failed, Observe, DropAttempt,
             Verify, Open, WriteHandle, Replace, CreateFile, DeleteFile, Acts, vars, db
    <3> QED
      BY <3>1
  <2> QED
    BY <2>1, <2>2, <2>3
<1> QED
  BY <1>1, Invariance, PTL DEF Spec, EditsSurvive

===============================================================================
