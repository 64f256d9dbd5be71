------------------------- MODULE RestoreFilesProofs -------------------------
(***************************************************************************)
(* What RestoreFiles keeps, for any set of entries and contents.           *)
(*                                                                         *)
(* The invariant says, for each phase of a restore, where the old and the  *)
(* new content of every entry is: it follows the two lists moved_old and   *)
(* installed of the code.                                                  *)
(***************************************************************************)
EXTENDS RestoreFiles, TLAPS

Phase == {"moveOut", "install", "remove", "putBack"}

(* Which restore can stand at which step. *)
KindInv ==
  /\ pc # "idle" => op \in {"extensions", "bookmarks"} /\ result = "none"
  /\ pc \in {"prepare", "remove", "putBack"} => op = "extensions"

(* The history of what was staged, and what it may contain. *)
StagedInv ==
  /\ pc \in {"prepare", "moveOut"} \/ (pc = "backup" /\ op = "extensions") => staged = wanted
  /\ \A p \in Path : ~Target(p) => wanted[p] = Absent
  /\ \A p \in Preferences :
       before[p] # Absent /\ wanted[p] # Absent => wanted[p].other = before[p].other

(* Nothing is touched before there is a backup. *)
EarlyInv ==
  /\ pc \in {"stage", "backup", "prepare"} =>
       /\ live = before
       /\ previous = Nothing
       /\ moved = {}
       /\ installed = {}
       /\ ~trouble
  /\ pc \in Phase \cup {"prepare"} \/ (pc = "stage" /\ op = "bookmarks")
       => backup = BackupOf(before)
  /\ \A p \in Path : ~Target(p) => live[p] = before[p]

MoveOutInv ==
  pc = "moveOut" =>
    /\ installed = {}
    /\ ~trouble
    /\ \A p \in moved : /\ Target(p)
                        /\ before[p] # Absent
                        /\ previous[p] = before[p]
                        /\ live[p] = Absent
    /\ \A p \in Path \ moved : live[p] = before[p] /\ previous[p] = Absent
    /\ \A p \in todo : p \notin moved /\ Target(p) /\ before[p] # Absent
    /\ \A p \in Path : Target(p) /\ before[p] # Absent => p \in moved \cup todo

InstallInv ==
  pc = "install" =>
    /\ ~trouble
    /\ \A p \in Path : p \in moved <=> Target(p) /\ before[p] # Absent
    /\ \A p \in Path : previous[p] = IF p \in moved THEN before[p] ELSE Absent
    /\ \A p \in Path : live[p] = IF p \in installed THEN wanted[p]
                                 ELSE IF p \in moved THEN Absent ELSE before[p]
    /\ \A p \in Path : staged[p] = IF p \in installed THEN Absent ELSE wanted[p]
    /\ \A p \in Path : p \in installed \cup todo <=> wanted[p] # Absent
    /\ installed \cap todo = {}

(* While the rollback runs: an entry was moved, or was absent, or was not   *)
(* reached yet.                                                            *)
RollbackInv ==
  pc \in {"remove", "putBack"} =>
    /\ \A p \in moved : Target(p) /\ before[p] # Absent
    /\ \A p \in installed : Target(p) /\ (p \in moved \/ before[p] = Absent)
    /\ \A p \in Path \ (moved \cup installed) : live[p] = before[p]

RemoveInv ==
  pc = "remove" =>
    /\ \A p \in moved : previous[p] = before[p]
    /\ \A p \in moved \ installed : live[p] = Absent
    /\ todo \subseteq installed
    /\ \A p \in installed \ todo : live[p] = Absent \/ trouble

PutBackInv ==
  pc = "putBack" =>
    /\ \A p \in installed \ moved : live[p] = Absent \/ trouble
    /\ todo \subseteq moved
    /\ \A p \in todo : previous[p] = before[p]
    /\ \A p \in moved \ todo : live[p] = before[p] \/ (trouble /\ previous[p] = before[p])

IInv ==
  /\ TypeOK
  /\ KindInv
  /\ StagedInv
  /\ EarlyInv
  /\ MoveOutInv
  /\ InstallInv
  /\ RollbackInv
  /\ RemoveInv
  /\ PutBackInv
  /\ OldDataIsOnDisk
  /\ ReplacedIsBackedUp
  /\ UndoneIsUndone
  /\ RestoredExactly

-----------------------------------------------------------------------------
(* The contents of a profile, entry by entry.                              *)
LEMMA ProfileEntries ==
  ASSUME NEW files \in Profile
  PROVE  /\ files \in [Path -> Content]
         /\ \A p \in Path : Fits(p, files[p])
BY DEF Profile

(* Replacing an entry by one of its kind leaves a profile a profile.       *)
LEMMA ProfileUpdate ==
  ASSUME NEW files \in Profile, NEW p \in Path, NEW content, Fits(p, content)
  PROVE  [files EXCEPT ![p] = content] \in Profile
<1>1. content \in Content
  BY DEF Fits, Contents, Content
<1> QED
  BY <1>1, ProfileEntries DEF Profile

(* An entry of any kind may be absent. *)
LEMMA AbsentFits ==
  ASSUME NEW p \in Path
  PROVE  Fits(p, Absent)
BY DEF Fits, Contents

LEMMA NothingIsProfile == Nothing \in Profile
BY AbsentFits DEF Nothing, Profile, Content

-----------------------------------------------------------------------------
(* The initial states satisfy the invariant. *)
LEMMA Initially == Init => IInv
<1> SUFFICES ASSUME Init PROVE IInv
  OBVIOUS
<1>1. TypeOK
  BY NothingIsProfile DEF Init, TypeOK, Step, Nothing
<1>2. \A p \in Path : wanted[p] = Absent
  BY DEF Init, Nothing
<1> QED
  BY <1>1, <1>2 DEF Init, IInv, KindInv, StagedInv, EarlyInv, Phase, MoveOutInv, InstallInv,
    RollbackInv, RemoveInv, PutBackInv, OldDataIsOnDisk, ReplacedIsBackedUp,
    UndoneIsUndone, RestoredExactly, ExtensionPath, Path

(***************************************************************************)
(* One lemma for each action.                                              *)
(***************************************************************************)

LEMMA StartKeeps ==
  ASSUME IInv, NEW kind \in {"extensions", "bookmarks"}, Start(kind)
  PROVE  IInv'
<1>1. TypeOK'
  BY NothingIsProfile DEF IInv, TypeOK, Start, Step, Nothing
<1>2. \A p \in Path : Nothing[p] = Absent
  BY DEF Nothing
<1> QED
  BY <1>1, <1>2 DEF IInv, Start, KindInv, StagedInv, EarlyInv, Phase, MoveOutInv, InstallInv,
    RollbackInv, RemoveInv, PutBackInv, OldDataIsOnDisk, ReplacedIsBackedUp,
    UndoneIsUndone, RestoredExactly, ExtensionPath, Path

(* The process ends: where the data is stays as it was. *)
LEMMA CrashKeeps ==
  ASSUME IInv, Crash
  PROVE  IInv'
<1>1. TypeOK'
  BY DEF IInv, TypeOK, Crash, Step
<1> QED
  BY <1>1 DEF IInv, Crash, KindInv, StagedInv, EarlyInv, Phase, MoveOutInv, InstallInv,
    RollbackInv, RemoveInv, PutBackInv, OldDataIsOnDisk, ReplacedIsBackedUp,
    UndoneIsUndone, RestoredExactly, Target, Kept, BackupOf

(* Staging the payload: the other settings are those of the live file. *)
LEMMA StageExtensionsKeeps ==
  ASSUME IInv, StageExtensions
  PROVE  IInv'
<1>1. PICK payload \in [ExtensionPath -> Version \cup {Absent}] :
        staged' = [p \in Path |->
                     IF p \in Preferences THEN NewPreferences(live[p], payload[p])
                     ELSE IF p \in Directory THEN payload[p]
                     ELSE Absent]
  BY DEF StageExtensions
<1>2. \A p \in Path : Fits(p, staged'[p])
  <2> SUFFICES ASSUME NEW p \in Path PROVE Fits(p, staged'[p])
    OBVIOUS
  <2>1. CASE p \in Preferences
    <3>1. payload[p] \in Version \cup {Absent}
      BY <2>1 DEF ExtensionPath
    <3>2. Fits(p, live[p])
      BY ProfileEntries DEF IInv, TypeOK
    <3>3. live[p] \in PreferenceFile \cup {Absent}
      BY <2>1, <3>2, PathAssumption DEF Fits, Contents
    <3>4. NewPreferences(live[p], payload[p]) \in PreferenceFile \cup {Absent}
      BY <3>1, <3>3 DEF NewPreferences, PreferenceFile
    <3> QED
      BY <1>1, <2>1, <3>4 DEF Fits, Contents
  <2>2. CASE p \in Directory
    BY <1>1, <2>2, PathAssumption DEF Fits, Contents, ExtensionPath
  <2>3. CASE p \notin Preferences \cup Directory
    BY <1>1, <2>3 DEF Fits, Contents
  <2> QED
    BY <2>1, <2>2, <2>3
<1>3. staged' \in Profile
  <2>1. \A p \in Path : staged'[p] \in Content
    BY <1>2 DEF Fits, Contents, Content
  <2> QED
    BY <1>1, <1>2, <2>1 DEF Profile
<1>4. TypeOK'
  BY <1>3 DEF IInv, TypeOK, StageExtensions, Step
<1>5. StagedInv'
  <2>1. \A p \in Path : ~Target(p)' => wanted'[p] = Absent
    BY <1>1, PathAssumption DEF StageExtensions, Target, Path, ExtensionPath
  <2>2. \A p \in Preferences :
          before[p] # Absent /\ wanted'[p] # Absent => wanted'[p].other = before[p].other
    BY <1>1 DEF StageExtensions, IInv, EarlyInv, NewPreferences, Path, ExtensionPath
  <2> QED
    BY <2>1, <2>2 DEF StagedInv, StageExtensions
<1> QED
  BY <1>4, <1>5 DEF IInv, StageExtensions, KindInv, EarlyInv, Phase, MoveOutInv, InstallInv,
    RollbackInv, RemoveInv, PutBackInv, OldDataIsOnDisk, ReplacedIsBackedUp,
    UndoneIsUndone, RestoredExactly, Target

LEMMA StageBookmarksKeeps ==
  ASSUME IInv, StageBookmarks
  PROVE  IInv'
<1>1. PICK v \in Version : staged' = [Nothing EXCEPT ![Bookmarks] = v]
  BY DEF StageBookmarks
<1>2. Bookmarks \in Path /\ Fits(Bookmarks, v)
  BY PathAssumption DEF Path, Fits, Contents
<1>3. staged' \in Profile
  BY <1>1, <1>2, NothingIsProfile, ProfileUpdate
<1>4. TypeOK'
  BY <1>2, <1>3 DEF IInv, TypeOK, StageBookmarks, Step
<1>5. StagedInv'
  BY <1>1, PathAssumption DEF StagedInv, StageBookmarks, Target, Nothing, Path, ExtensionPath
<1>6. MoveOutInv'
  BY <1>2 DEF IInv, StageBookmarks, EarlyInv, MoveOutInv, Target, Nothing
<1> QED
  BY <1>4, <1>5, <1>6 DEF IInv, StageBookmarks, KindInv, EarlyInv, Phase, InstallInv, RollbackInv,
    RemoveInv, PutBackInv, OldDataIsOnDisk, ReplacedIsBackedUp, UndoneIsUndone,
    RestoredExactly, Target, BackupOf

LEMMA WriteBackupKeeps ==
  ASSUME IInv, WriteBackup
  PROVE  IInv'
<1>1. TypeOK'
  BY DEF IInv, TypeOK, WriteBackup, Step, BackupOf
<1> QED
  BY <1>1 DEF IInv, WriteBackup, KindInv, StagedInv, EarlyInv, Phase, MoveOutInv, InstallInv,
    RollbackInv, RemoveInv, PutBackInv, OldDataIsOnDisk, ReplacedIsBackedUp,
    UndoneIsUndone, RestoredExactly, Target, BackupOf

LEMMA PrepareKeeps ==
  ASSUME IInv, Prepare
  PROVE  IInv'
<1>1. TypeOK'
  BY DEF IInv, TypeOK, Prepare, Step, Present
<1>2. MoveOutInv'
  BY PathAssumption DEF IInv, Prepare, KindInv, EarlyInv, MoveOutInv, Target, Nothing,
    Present, Path, ExtensionPath
<1> QED
  BY <1>1, <1>2 DEF IInv, Prepare, KindInv, StagedInv, EarlyInv, Phase, InstallInv, RollbackInv,
    RemoveInv, PutBackInv, OldDataIsOnDisk, ReplacedIsBackedUp, UndoneIsUndone,
    RestoredExactly, Target, BackupOf

LEMMA RefuseKeeps ==
  ASSUME IInv, Refuse
  PROVE  IInv'
<1>1. TypeOK'
  BY NothingIsProfile DEF IInv, TypeOK, Refuse, Return, Step
<1> QED
  BY <1>1 DEF IInv, Refuse, Return, KindInv, StagedInv, EarlyInv, Phase, MoveOutInv, InstallInv,
    RollbackInv, RemoveInv, PutBackInv, OldDataIsOnDisk, ReplacedIsBackedUp,
    UndoneIsUndone, RestoredExactly, Target

LEMMA MoveOutKeeps ==
  ASSUME IInv, NEW p \in Path, MoveOut(p)
  PROVE  IInv'
<1>1. TypeOK'
  BY ProfileEntries, ProfileUpdate, AbsentFits DEF IInv, TypeOK, MoveOut
<1>2. live \in [Path -> Content] /\ previous \in [Path -> Content]
  BY ProfileEntries DEF IInv, TypeOK
<1>3. MoveOutInv'
  BY <1>2 DEF IInv, MoveOut, MoveOutInv, Target
<1>4. EarlyInv'
  BY <1>2 DEF IInv, MoveOut, EarlyInv, MoveOutInv, Target, Phase, BackupOf
<1>5. OldDataIsOnDisk'
  BY <1>2, <1>3 DEF MoveOut, MoveOutInv, OldDataIsOnDisk
<1>6. ReplacedIsBackedUp'
  BY <1>4 DEF MoveOut, EarlyInv, ReplacedIsBackedUp, Phase, BackupOf, Target
<1> QED
  BY <1>1, <1>3, <1>4, <1>5, <1>6 DEF IInv, MoveOut, KindInv, StagedInv, InstallInv, RollbackInv,
    RemoveInv, PutBackInv, UndoneIsUndone, RestoredExactly, Target

(* The entries that were moved are handed to the rollback. *)
LEMMA BeginRollbackKeeps ==
  ASSUME IInv, BeginRollback, pc \in {"moveOut", "install"}, op = "extensions"
  PROVE  IInv'
<1>1. TypeOK'
  BY DEF IInv, TypeOK, BeginRollback, Step
<1>2. RollbackInv' /\ RemoveInv'
  BY DEF IInv, TypeOK, StagedInv, BeginRollback, MoveOutInv, InstallInv, RollbackInv, RemoveInv, Target
<1> QED
  BY <1>1, <1>2 DEF IInv, BeginRollback, KindInv, StagedInv, EarlyInv, Phase, MoveOutInv, InstallInv,
    PutBackInv, OldDataIsOnDisk, ReplacedIsBackedUp, UndoneIsUndone, RestoredExactly,
    Target, BackupOf

(* The rename of the bookmarks away failed: nothing has been moved. *)
LEMMA MoveOutFailsKeeps ==
  ASSUME IInv, MoveOutFails
  PROVE  IInv'
<1>1. CASE op = "extensions" /\ BeginRollback
  BY <1>1, BeginRollbackKeeps DEF MoveOutFails
<1>2. CASE /\ op = "bookmarks"
           /\ Return("error")
           /\ UNCHANGED <<live, previous, backup, op, moved, installed, trouble, before, wanted>>
  <2>1. TypeOK'
    BY <1>2, NothingIsProfile DEF IInv, TypeOK, MoveOutFails, Return, Step
  <2>2. live = before
    <3>1. \A p \in Path : live[p] = before[p]
      BY <1>2 DEF IInv, TypeOK, EarlyInv, MoveOutFails, MoveOutInv, Target, Path
    <3> QED
      BY <3>1, ProfileEntries DEF IInv, TypeOK
  <2> QED
    BY <1>2, <2>1, <2>2 DEF IInv, MoveOutFails, Return, KindInv, StagedInv, EarlyInv, Phase, MoveOutInv,
      InstallInv, RollbackInv, RemoveInv, PutBackInv, OldDataIsOnDisk, ReplacedIsBackedUp,
      UndoneIsUndone, RestoredExactly, Target
<1> QED
  BY <1>1, <1>2 DEF MoveOutFails

LEMMA MakeParentFailsKeeps ==
  ASSUME IInv, NEW p \in Path, MakeParentFails(p)
  PROVE  IInv'
<1>1. TypeOK'
  BY NothingIsProfile DEF IInv, TypeOK, MakeParentFails, Return, Drop, Step
<1> QED
  BY <1>1 DEF IInv, MakeParentFails, Return, Drop, KindInv, StagedInv, EarlyInv, Phase, MoveOutInv,
    InstallInv, RollbackInv, RemoveInv, PutBackInv, OldDataIsOnDisk, ReplacedIsBackedUp,
    UndoneIsUndone, RestoredExactly, Target

LEMMA AllMovedOutKeeps ==
  ASSUME IInv, AllMovedOut
  PROVE  IInv'
<1>1. TypeOK'
  BY DEF IInv, TypeOK, AllMovedOut, Step, Present
<1>2. InstallInv'
  BY DEF IInv, TypeOK, AllMovedOut, StagedInv, MoveOutInv, InstallInv, Target, Present
<1> QED
  BY <1>1, <1>2 DEF IInv, AllMovedOut, KindInv, StagedInv, EarlyInv, Phase, MoveOutInv, RollbackInv,
    RemoveInv, PutBackInv, OldDataIsOnDisk, ReplacedIsBackedUp, UndoneIsUndone,
    RestoredExactly, Target, BackupOf

LEMMA InstallKeeps ==
  ASSUME IInv, NEW p \in Path, Install(p)
  PROVE  IInv'
<1>1. TypeOK'
  BY ProfileEntries, ProfileUpdate, AbsentFits DEF IInv, TypeOK, Install
<1>2. live \in [Path -> Content] /\ staged \in [Path -> Content]
  BY ProfileEntries DEF IInv, TypeOK
<1>3. InstallInv'
  BY <1>2 DEF IInv, Install, InstallInv, Target
<1>4. EarlyInv'
  BY <1>2 DEF IInv, Install, EarlyInv, StagedInv, InstallInv, Target, Phase, BackupOf
<1>5. OldDataIsOnDisk'
  BY <1>2, <1>3, <1>4 DEF IInv, Install, InstallInv, EarlyInv, OldDataIsOnDisk, Target
<1>6. ReplacedIsBackedUp'
  BY <1>4 DEF Install, EarlyInv, ReplacedIsBackedUp, Phase, BackupOf, Target
<1> QED
  BY <1>1, <1>3, <1>4, <1>5, <1>6 DEF IInv, Install, KindInv, StagedInv, MoveOutInv, RollbackInv,
    RemoveInv, PutBackInv, UndoneIsUndone, RestoredExactly, Target

(* The bookmarks: either the old file is back, or it stays where it is. *)
LEMMA InstallFailsKeeps ==
  ASSUME IInv, InstallFails
  PROVE  IInv'
<1>1. CASE op = "extensions" /\ BeginRollback
  BY <1>1, BeginRollbackKeeps DEF InstallFails
<1>2. CASE /\ op = "bookmarks"
           /\ Return("error") \/ Return("reported")
           /\ UNCHANGED <<live, previous, backup, op, moved, installed, trouble, before, wanted>>
  <2>1. TypeOK'
    BY <1>2, NothingIsProfile DEF IInv, TypeOK, Return, Step
  <2>2. pc = "install" /\ pc' = "idle" /\ result' \in {"error", "reported"}
    BY <1>2 DEF InstallFails, Return
  <2> QED
    BY <1>2, <2>1, <2>2 DEF IInv, KindInv, StagedInv, EarlyInv, Phase, MoveOutInv, InstallInv,
      RollbackInv, RemoveInv, PutBackInv, OldDataIsOnDisk, ReplacedIsBackedUp,
      UndoneIsUndone, RestoredExactly, Target
<1>3. CASE /\ op = "bookmarks"
           /\ moved # {}
           /\ Return("undone")
           /\ live' = [live EXCEPT ![Bookmarks] = previous[Bookmarks]]
           /\ previous' = [previous EXCEPT ![Bookmarks] = Absent]
           /\ UNCHANGED <<backup, op, moved, installed, trouble, before, wanted>>
  <2>1. Bookmarks \in Path
    BY DEF Path
  <2>2. TypeOK'
    BY <1>3, <2>1, NothingIsProfile, ProfileEntries, ProfileUpdate, AbsentFits
    DEF IInv, TypeOK, Return, Step
  <2>3. live' = before
    <3>1. moved = {Bookmarks}
      BY <1>3 DEF IInv, TypeOK, InstallFails, InstallInv, Target
    <3>2. \A p \in Path : live'[p] = before[p]
      BY <1>3, <2>1, <3>1, ProfileEntries DEF IInv, TypeOK, InstallFails, EarlyInv, InstallInv, Target
    <3>3. live' \in [Path -> Content] /\ before \in [Path -> Content]
      BY <2>2, ProfileEntries DEF IInv, TypeOK
    <3> QED
      BY <3>2, <3>3
  <2> QED
    BY <1>3, <2>2, <2>3 DEF IInv, Return, KindInv, StagedInv, EarlyInv, Phase, MoveOutInv,
      InstallInv, RollbackInv, RemoveInv, PutBackInv, OldDataIsOnDisk, ReplacedIsBackedUp,
      UndoneIsUndone, RestoredExactly, Target
<1> QED
  BY <1>1, <1>2, <1>3 DEF InstallFails, BeginRollback, Return

(* The return with success: everything wanted is installed. *)
LEMMA AllInstalledKeeps ==
  ASSUME IInv, AllInstalled
  PROVE  IInv'
<1>1. TypeOK'
  BY NothingIsProfile DEF IInv, TypeOK, AllInstalled, Return, Drop, Step
<1>2. \A p \in Path : live[p] = IF Target(p) THEN wanted[p] ELSE before[p]
  BY DEF IInv, AllInstalled, StagedInv, EarlyInv, InstallInv
<1>3. RestoredExactly'
  BY <1>2 DEF IInv, AllInstalled, Return, StagedInv, RestoredExactly, Target, Path, ExtensionPath
<1>4. OldDataIsOnDisk'
  BY DEF IInv, AllInstalled, Return, OldDataIsOnDisk
<1> QED
  BY <1>1, <1>3, <1>4 DEF IInv, AllInstalled, Return, KindInv, StagedInv, EarlyInv, Phase, MoveOutInv,
    InstallInv, RollbackInv, RemoveInv, PutBackInv, ReplacedIsBackedUp, UndoneIsUndone, Target

LEMMA RemoveInstalledKeeps ==
  ASSUME IInv, NEW p \in Path, RemoveInstalled(p)
  PROVE  IInv'
<1>1. live \in [Path -> Content] /\ previous \in [Path -> Content]
  BY ProfileEntries DEF IInv, TypeOK
<1>2. PICK content : live' = [live EXCEPT ![p] = content] /\ Fits(p, content)
                     /\ (content = Absent \/ trouble')
  <2>1. live = [live EXCEPT ![p] = live[p]]
    BY <1>1
  <2>2. Fits(p, live[p]) /\ (p \in Directory => Fits(p, Damaged))
    BY ProfileEntries DEF IInv, TypeOK, Fits
  <2> QED
    BY <2>1, <2>2, AbsentFits DEF RemoveInstalled
<1>3. TypeOK'
  BY <1>2, ProfileUpdate DEF IInv, TypeOK, RemoveInstalled
<1>4. p \in installed /\ Target(p) /\ (trouble => trouble')
  BY DEF IInv, RemoveInstalled, RollbackInv, RemoveInv
<1>5. RollbackInv' /\ RemoveInv'
  BY <1>1, <1>2, <1>4 DEF IInv, RemoveInstalled, RollbackInv, RemoveInv, Target
<1>6. EarlyInv'
  BY <1>1, <1>2, <1>4 DEF IInv, RemoveInstalled, EarlyInv, Target, Phase, BackupOf
<1>7. OldDataIsOnDisk'
  BY <1>1, <1>2, <1>4 DEF IInv, RemoveInstalled, RollbackInv, RemoveInv, OldDataIsOnDisk
<1>8. ReplacedIsBackedUp'
  BY <1>6 DEF RemoveInstalled, EarlyInv, ReplacedIsBackedUp, Phase, BackupOf, Target
<1> QED
  BY <1>3, <1>5, <1>6, <1>7, <1>8 DEF IInv, RemoveInstalled, KindInv, StagedInv, MoveOutInv, InstallInv,
    PutBackInv, UndoneIsUndone, RestoredExactly, Target

LEMMA AllRemovedKeeps ==
  ASSUME IInv, AllRemoved
  PROVE  IInv'
<1>1. TypeOK'
  BY DEF IInv, TypeOK, AllRemoved, Step
<1>2. RollbackInv' /\ PutBackInv'
  BY DEF IInv, AllRemoved, RollbackInv, RemoveInv, PutBackInv, Target
<1> QED
  BY <1>1, <1>2 DEF IInv, AllRemoved, KindInv, StagedInv, EarlyInv, Phase, MoveOutInv, InstallInv,
    RemoveInv, OldDataIsOnDisk, ReplacedIsBackedUp, UndoneIsUndone, RestoredExactly,
    Target, BackupOf

LEMMA PutBackKeeps ==
  ASSUME IInv, NEW p \in Path, PutBack(p)
  PROVE  IInv'
<1>1. /\ live \in [Path -> Content] /\ previous \in [Path -> Content]
      /\ p \in todo /\ p \in moved /\ Target(p) /\ previous[p] = before[p]
  BY ProfileEntries DEF IInv, TypeOK, PutBack, RollbackInv, PutBackInv
<1>2. TypeOK'
  <2>1. live' \in Profile /\ previous' \in Profile
    <3>1. Fits(p, previous[p])
      BY ProfileEntries DEF IInv, TypeOK
    <3>2. live \in Profile /\ previous \in Profile
      BY DEF IInv, TypeOK
    <3>3. /\ [live EXCEPT ![p] = previous[p]] \in Profile
          /\ [previous EXCEPT ![p] = Absent] \in Profile
      BY <3>1, <3>2, ProfileUpdate, AbsentFits
    <3> QED
      BY <3>2, <3>3 DEF PutBack
  <2> QED
    BY <2>1 DEF IInv, TypeOK, PutBack
<1>3. CASE /\ live' = [live EXCEPT ![p] = previous[p]]
           /\ previous' = [previous EXCEPT ![p] = Absent]
           /\ UNCHANGED trouble
  <2>1. RollbackInv' /\ PutBackInv'
    BY <1>1, <1>3 DEF IInv, PutBack, RollbackInv, PutBackInv, Target
  <2>2. EarlyInv'
    BY <1>1, <1>3 DEF IInv, PutBack, EarlyInv, Target, Phase, BackupOf
  <2>3. OldDataIsOnDisk' /\ ReplacedIsBackedUp'
    BY <1>1, <1>3 DEF IInv, PutBack, OldDataIsOnDisk, ReplacedIsBackedUp
  <2> QED
    BY <1>2, <2>1, <2>2, <2>3 DEF IInv, PutBack, KindInv, StagedInv, MoveOutInv, InstallInv, RemoveInv,
      UndoneIsUndone, RestoredExactly, Target
<1>4. CASE trouble' = TRUE /\ UNCHANGED <<live, previous>>
  <2>1. RollbackInv' /\ PutBackInv'
    BY <1>1, <1>4 DEF IInv, PutBack, RollbackInv, PutBackInv, Target
  <2> QED
    BY <1>2, <1>4, <2>1 DEF IInv, PutBack, KindInv, StagedInv, EarlyInv, Phase, MoveOutInv, InstallInv,
      RemoveInv, OldDataIsOnDisk, ReplacedIsBackedUp, UndoneIsUndone, RestoredExactly,
      Target, BackupOf
<1> QED
  BY <1>3, <1>4 DEF PutBack

(* Without trouble every entry is back, or is absent as it was. *)
LEMMA RolledBackKeeps ==
  ASSUME IInv, RolledBack
  PROVE  IInv'
<1>1. TypeOK'
  BY NothingIsProfile DEF IInv, TypeOK, RolledBack, Return, Drop, Step
<1>2. ~trouble => live = before
  <2> SUFFICES ASSUME ~trouble PROVE live = before
    OBVIOUS
  <2>1. \A p \in Path : live[p] = before[p]
    BY DEF IInv, RolledBack, RollbackInv, PutBackInv
  <2> QED
    BY <2>1, ProfileEntries DEF IInv, TypeOK
<1>3. op = "extensions" /\ result' = IF trouble THEN "reported" ELSE "undone"
  BY DEF IInv, KindInv, RolledBack, Return
<1> QED
  BY <1>1, <1>2, <1>3 DEF IInv, RolledBack, Return, KindInv, StagedInv, EarlyInv, Phase, MoveOutInv,
    InstallInv, RollbackInv, RemoveInv, PutBackInv, OldDataIsOnDisk, ReplacedIsBackedUp,
    UndoneIsUndone, RestoredExactly, Target

(* A stuttering step changes nothing the invariant speaks of. *)
LEMMA StutterKeeps ==
  ASSUME IInv, UNCHANGED vars
  PROVE  IInv'
BY DEF IInv, vars, TypeOK, KindInv, StagedInv, EarlyInv, Phase, MoveOutInv, InstallInv,
  RollbackInv, RemoveInv, PutBackInv, OldDataIsOnDisk, ReplacedIsBackedUp,
  UndoneIsUndone, RestoredExactly, Target, Kept, BackupOf

LEMMA Invariance == Spec => []IInv
<1>1. IInv /\ [Next]_vars => IInv'
  BY StartKeeps, CrashKeeps, StageExtensionsKeeps, StageBookmarksKeeps, WriteBackupKeeps,
    PrepareKeeps, RefuseKeeps, MoveOutKeeps, MoveOutFailsKeeps, MakeParentFailsKeeps,
    AllMovedOutKeeps, InstallKeeps, InstallFailsKeeps, AllInstalledKeeps,
    RemoveInstalledKeeps, AllRemovedKeeps, PutBackKeeps, RolledBackKeeps, StutterKeeps
  DEF Next, RestoreStep
<1> QED
  BY <1>1, Initially, PTL DEF Spec

-----------------------------------------------------------------------------
(* restore_extension_bundle and restore_bookmarks keep every entry of the   *)
(* kind the code expects in its place.                                     *)
THEOREM TypeCorrect == Spec => []TypeOK
BY Invariance, PTL DEF IInv

(* However a restore is interrupted, the old data is still in the profile's *)
(* directory; of bookmarks also whenever restore_bookmarks returns an error.*)
THEOREM OldDataSurvives == Spec => []OldDataIsOnDisk
BY Invariance, PTL DEF IInv

(* Nothing is replaced that create_extension_bundle or                      *)
(* create_backup_archive has not put into a complete archive.              *)
THEOREM BackupComesFirst == Spec => []ReplacedIsBackedUp
BY Invariance, PTL DEF IInv

(* rollback_extension_targets: what rollback_summary says is true.         *)
THEOREM RollbackIsComplete == Spec => []UndoneIsUndone
BY Invariance, PTL DEF IInv

(* A restore that returns no error has replaced exactly what it was to.    *)
THEOREM RestoreIsExact == Spec => []RestoredExactly
BY Invariance, PTL DEF IInv
=============================================================================
