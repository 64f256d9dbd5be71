---------------------------- MODULE RestoreFiles ----------------------------
(***************************************************************************)
(* The replacement of profile files: restore_extension_bundle and          *)
(* restore_bookmarks of helium-sync-profile.                               *)
(*                                                                         *)
(* Both write a backup, stage the new data beside the old, rename the old  *)
(* away and the new in, one rename at a time.  Any of these may fail, and  *)
(* the process may end between any two.  The two differ in the order of    *)
(* backup and staging, in how a failed rename is undone, and in what is    *)
(* left behind: the staging and rollback directories of extensions are     *)
(* temporary and removed on return, with what they still hold; the file    *)
(* that held the old bookmarks stays unless it is removed.                 *)
(*                                                                         *)
(* Entries are renamed in no particular order here, in sorted order by the *)
(* code.  Every restore has directories and files of its own, with unique  *)
(* names, and none reads those of an earlier one.                          *)
(***************************************************************************)
EXTENDS FiniteSets

CONSTANTS
  Directory,    \* EXTENSION_DIRECTORIES and the IndexedDB of extensions
  Nested,       \* those in a directory of their own, IndexedDB
  Preferences,  \* EXTENSION_PREFERENCE_FILES, of which a restore replaces
                \* the section "extensions" only
  Bookmarks,    \* the Bookmarks file
  Version,      \* contents of a directory, a section or a file
  Absent,       \* no entry, no section
  Damaged       \* a directory removed in part

ASSUME PathAssumption ==
  /\ Nested \subseteq Directory
  /\ Directory \cap Preferences = {}
  /\ Bookmarks \notin Directory \cup Preferences

ASSUME ContentAssumption ==
  /\ Absent \notin Version
  /\ Damaged \notin Version
  /\ Absent # Damaged

VARIABLES
  live,       \* the profile
  staged,     \* the new entries that are not installed yet
  previous,   \* the old entries that are moved away
  backup,     \* the archive in Downloads, once it is complete
  op,         \* the restore that runs or ran last
  pc,         \* its next step
  todo,       \* the entries it has yet to rename or remove in this step
  moved,      \* moved_old
  installed,  \* installed
  trouble,    \* rollback_errors is not empty
  result,     \* what it returned
  before,     \* history: the profile as the restore found it
  wanted      \* history: what it staged

vars == <<live, staged, previous, backup, op, pc, todo, moved, installed,
          trouble, result, before, wanted>>

ExtensionPath == Directory \cup Preferences
Path == ExtensionPath \cup {Bookmarks}

(* A preference file holds the synced section and all other settings.      *)
PreferenceFile == [extensions : Version \cup {Absent}, other : Version \cup {Absent}]

Contents(p) == (IF p \in Preferences THEN PreferenceFile ELSE Version) \cup {Absent}

Content == Version \cup PreferenceFile \cup {Absent, Damaged}

Fits(p, content) == content \in Contents(p) \/ (p \in Directory /\ content = Damaged)

Profile == {files \in [Path -> Content] : \A p \in Path : Fits(p, files[p])}

Nothing == [p \in Path |-> Absent]

(* The entries that the restore may replace. *)
Target(p) == (op = "bookmarks") = (p = Bookmarks)

Init ==
  /\ live \in {files \in Profile : \A p \in Path : files[p] # Damaged}
  /\ staged = Nothing
  /\ previous = Nothing
  /\ backup = Nothing
  /\ op = "none"
  /\ pc = "idle"
  /\ todo = {}
  /\ moved = {}
  /\ installed = {}
  /\ trouble = FALSE
  /\ result = "none"
  /\ before = live
  /\ wanted = Nothing

Present(files) == {p \in Path : files[p] # Absent}

(* The function returns; a bundle restore drops its temporary directories. *)
Return(r) ==
  /\ pc' = "idle"
  /\ todo' = {}
  /\ result' = r
  /\ staged' = Nothing

Drop == previous' = Nothing

Start(kind) ==
  /\ pc = "idle"
  /\ op' = kind
  /\ pc' = IF kind = "extensions" THEN "stage" ELSE "backup"
  /\ before' = live
  /\ staged' = Nothing
  /\ previous' = Nothing
  /\ backup' = Nothing
  /\ wanted' = Nothing
  /\ todo' = {}
  /\ moved' = {}
  /\ installed' = {}
  /\ trouble' = FALSE
  /\ result' = "none"
  /\ UNCHANGED live

(* The process ends and leaves all files as they are.                      *)
Crash ==
  /\ pc # "idle"
  /\ pc' = "idle"
  /\ result' = "crashed"
  /\ UNCHANGED <<live, staged, previous, backup, op, todo, moved, installed,
                 trouble, before, wanted>>

-----------------------------------------------------------------------------
(***************************************************************************)
(* Before anything is replaced                                             *)
(***************************************************************************)

(* Mutants of NewPreferences: the section alone is written, or the other    *)
(* settings are not copied.                                                *)
NewPreferencesBare(file, section) == section

NewPreferencesSectionOnly(file, section) ==
  IF file = Absent /\ section = Absent THEN Absent
  ELSE [extensions |-> section, other |-> Absent]

(* stage_preference_files: the archive's section in the file as it is, no  *)
(* file where there was none and the archive has no section.               *)
NewPreferences(file, section) ==
  IF file = Absent /\ section = Absent THEN Absent
  ELSE [extensions |-> section, other |-> IF file = Absent THEN Absent ELSE file.other]

(* extract_extension_payload and stage_preference_files. *)
StageExtensions ==
  /\ op = "extensions"
  /\ pc = "stage"
  /\ \E payload \in [ExtensionPath -> Version \cup {Absent}] :
       staged' = [p \in Path |->
                    IF p \in Preferences THEN NewPreferences(live[p], payload[p])
                    ELSE IF p \in Directory THEN payload[p]
                    ELSE Absent]
  /\ wanted' = staged'
  /\ pc' = "backup"
  /\ UNCHANGED <<live, previous, backup, op, todo, moved, installed, trouble, result, before>>

StageBookmarks ==
  /\ op = "bookmarks"
  /\ pc = "stage"
  /\ \E v \in Version : staged' = [Nothing EXCEPT ![Bookmarks] = v]
  /\ wanted' = staged'
  /\ todo' = {p \in {Bookmarks} : live[p] # Absent}
  /\ pc' = "moveOut"
  /\ UNCHANGED <<live, previous, backup, op, moved, installed, trouble, result, before>>

(* What a backup keeps of an entry: of a preference file the section only. *)
Kept(p, content) ==
  IF p \in Preferences /\ content # Absent THEN content.extensions ELSE content

BackupOf(files) ==
  [p \in Path |-> IF Target(p) THEN Kept(p, files[p]) ELSE Absent]

(* A mutant of WriteBackup: the staged data are archived. *)
WriteBackupOfStaged ==
  /\ pc = "backup"
  /\ backup' = BackupOf(staged)
  /\ pc' = IF op = "extensions" THEN "prepare" ELSE "stage"
  /\ UNCHANGED <<live, staged, previous, op, todo, moved, installed, trouble, result,
                 before, wanted>>

(* create_extension_bundle, create_backup_archive *)
WriteBackup ==
  /\ pc = "backup"
  /\ backup' = BackupOf(live)
  /\ pc' = IF op = "extensions" THEN "prepare" ELSE "stage"
  /\ UNCHANGED <<live, staged, previous, op, todo, moved, installed, trouble, result,
                 before, wanted>>

(* The rollback directory is made and the targets are listed.              *)
Prepare ==
  /\ pc = "prepare"
  /\ todo' = Present(live) \cap ExtensionPath
  /\ pc' = "moveOut"
  /\ UNCHANGED <<live, staged, previous, backup, op, moved, installed, trouble, result,
                 before, wanted>>

(* Validation, staging, the backup and the directories may fail. *)
Refuse ==
  /\ pc \in {"stage", "backup", "prepare"}
  /\ Return("error")
  /\ UNCHANGED <<live, previous, backup, op, moved, installed, trouble, before, wanted>>

-----------------------------------------------------------------------------
(***************************************************************************)
(* The replacement                                                         *)
(***************************************************************************)

(* A mutant of MoveOut: the old entry is removed instead. *)
MoveOutRemoves(p) ==
  /\ pc = "moveOut"
  /\ p \in todo
  /\ live' = [live EXCEPT ![p] = Absent]
  /\ moved' = moved \cup {p}
  /\ todo' = todo \ {p}
  /\ UNCHANGED <<staged, previous, backup, op, pc, installed, trouble, result, before, wanted>>

MoveOut(p) ==
  /\ pc = "moveOut"
  /\ p \in todo
  /\ previous' = [previous EXCEPT ![p] = live[p]]
  /\ live' = [live EXCEPT ![p] = Absent]
  /\ moved' = moved \cup {p}
  /\ todo' = todo \ {p}
  /\ UNCHANGED <<staged, backup, op, pc, installed, trouble, result, before, wanted>>

(* A mutant of BeginRollback: installed entries are not removed. *)
BeginRollbackOfMoved ==
  /\ pc' = "putBack"
  /\ todo' = moved
  /\ UNCHANGED <<live, staged, previous, backup, op, moved, installed, trouble, result,
                 before, wanted>>

(* rollback_extension_targets: first the installed entries are removed. *)
BeginRollback ==
  /\ pc' = "remove"
  /\ todo' = installed
  /\ UNCHANGED <<live, staged, previous, backup, op, moved, installed, trouble, result,
                 before, wanted>>

(* The rename of an extension entry fails: what was moved comes back.  The *)
(* rename of the bookmarks fails: nothing was moved.                       *)
MoveOutFails ==
  /\ pc = "moveOut"
  /\ todo # {}
  /\ \/ /\ op = "extensions"
        /\ BeginRollback
     \/ /\ op = "bookmarks"
        /\ Return("error")
        /\ UNCHANGED <<live, previous, backup, op, moved, installed, trouble, before, wanted>>

(* The directory for a nested entry cannot be made in the rollback         *)
(* directory: the function returns without moving anything back.           *)
MakeParentFails(p) ==
  /\ op = "extensions"
  /\ pc = "moveOut"
  /\ p \in todo \cap Nested
  /\ moved \cap Nested = {}
  /\ Return("error")
  /\ Drop
  /\ UNCHANGED <<live, backup, op, moved, installed, trouble, before, wanted>>

AllMovedOut ==
  /\ pc = "moveOut"
  /\ todo = {}
  /\ pc' = "install"
  /\ todo' = Present(staged)
  /\ UNCHANGED <<live, staged, previous, backup, op, moved, installed, trouble, result,
                 before, wanted>>

Install(p) ==
  /\ pc = "install"
  /\ p \in todo
  /\ live' = [live EXCEPT ![p] = staged[p]]
  /\ staged' = [staged EXCEPT ![p] = Absent]
  /\ installed' = installed \cup {p}
  /\ todo' = todo \ {p}
  /\ UNCHANGED <<previous, backup, op, pc, moved, trouble, result, before, wanted>>

(* The old bookmarks are renamed back at once, which may fail as well.     *)
InstallFails ==
  /\ pc = "install"
  /\ todo # {}
  /\ \/ /\ op = "extensions"
        /\ BeginRollback
     \/ /\ op = "bookmarks"
        /\ IF moved = {} THEN Return("error") /\ UNCHANGED <<live, previous>>
           ELSE \/ Return("reported") /\ UNCHANGED <<live, previous>>
                \/ /\ Return("undone")
                   /\ live' = [live EXCEPT ![Bookmarks] = previous[Bookmarks]]
                   /\ previous' = [previous EXCEPT ![Bookmarks] = Absent]
        /\ UNCHANGED <<backup, op, moved, installed, trouble, before, wanted>>

(* The old bookmarks are removed; an error of this is returned. *)
AllInstalled ==
  /\ pc = "install"
  /\ todo = {}
  /\ \/ Return("ok") /\ Drop
     \/ op = "bookmarks" /\ moved # {} /\ Return("error") /\ UNCHANGED previous
  /\ UNCHANGED <<live, backup, op, moved, installed, trouble, before, wanted>>

-----------------------------------------------------------------------------
(***************************************************************************)
(* rollback_extension_targets                                              *)
(***************************************************************************)

RemoveInstalled(p) ==
  /\ pc = "remove"
  /\ p \in todo
  /\ todo' = todo \ {p}
  /\ \/ /\ live' = [live EXCEPT ![p] = Absent]
        /\ UNCHANGED trouble
     \/ /\ live' \in {live, [live EXCEPT ![p] = IF p \in Directory THEN Damaged ELSE @]}
        /\ trouble' = TRUE
  /\ UNCHANGED <<staged, previous, backup, op, pc, moved, installed, result, before, wanted>>

AllRemoved ==
  /\ pc = "remove"
  /\ todo = {}
  /\ pc' = "putBack"
  /\ todo' = moved
  /\ UNCHANGED <<live, staged, previous, backup, op, moved, installed, trouble, result,
                 before, wanted>>

(* A rename replaces a file, but no directory that has anything in it.     *)
MayPutBack(p) == p \in Preferences \/ live[p] \in {Absent, Damaged}

PutBack(p) ==
  /\ pc = "putBack"
  /\ p \in todo
  /\ todo' = todo \ {p}
  /\ \/ /\ MayPutBack(p)
        /\ live' = [live EXCEPT ![p] = previous[p]]
        /\ previous' = [previous EXCEPT ![p] = Absent]
        /\ UNCHANGED trouble
     \/ /\ trouble' = TRUE
        /\ UNCHANGED <<live, previous>>
  /\ UNCHANGED <<staged, backup, op, pc, moved, installed, result, before, wanted>>

(* rollback_summary, and the return that drops the temporary directories.  *)
RolledBack ==
  /\ pc = "putBack"
  /\ todo = {}
  /\ Return(IF trouble THEN "reported" ELSE "undone")
  /\ Drop
  /\ UNCHANGED <<live, backup, op, moved, installed, trouble, before, wanted>>

RestoreStep ==
  \/ StageExtensions
  \/ StageBookmarks
  \/ WriteBackup
  \/ Prepare
  \/ Refuse
  \/ \E p \in Path : MoveOut(p)
  \/ MoveOutFails
  \/ \E p \in Path : MakeParentFails(p)
  \/ AllMovedOut
  \/ \E p \in Path : Install(p)
  \/ InstallFails
  \/ AllInstalled
  \/ \E p \in Path : RemoveInstalled(p)
  \/ AllRemoved
  \/ \E p \in Path : PutBack(p)
  \/ RolledBack

Next ==
  \/ \E kind \in {"extensions", "bookmarks"} : Start(kind)
  \/ RestoreStep
  \/ Crash

Spec == Init /\ [][Next]_vars

-----------------------------------------------------------------------------
(***************************************************************************)
(* Properties                                                              *)
(***************************************************************************)

Step == {"idle", "stage", "backup", "prepare", "moveOut", "install", "remove", "putBack"}

TypeOK ==
  /\ live \in Profile
  /\ staged \in Profile
  /\ previous \in Profile
  /\ wanted \in Profile
  /\ before \in Profile
  /\ DOMAIN backup = Path
  /\ op \in {"none", "extensions", "bookmarks"}
  /\ pc \in Step
  /\ todo \subseteq Path
  /\ moved \subseteq Path
  /\ installed \subseteq Path
  /\ trouble \in BOOLEAN
  /\ result \in {"none", "ok", "error", "undone", "reported", "crashed"}

(* Whenever the process ends, the old data is still in the profile's        *)
(* directory, in its place or where it was moved; so are the old bookmarks  *)
(* when their restore returns an error, whichever of its renames failed.   *)
OldDataIsOnDisk ==
  pc # "idle" \/ result = "crashed" \/ (op = "bookmarks" /\ result # "ok") =>
    \A p \in Path : before[p] # Absent => before[p] \in {live[p], previous[p]}

(* README.md:7, "Every local replacement is backed up": nothing in the      *)
(* profile differs from what the restore found before a complete archive    *)
(* holds it, other settings of a preference file excepted.                 *)
ReplacedIsBackedUp ==
  \A p \in Path : live[p] # before[p] => backup[p] = Kept(p, before[p])

(* An error that says that the original data was restored is right: every   *)
(* entry is as it was, including those that were absent.                   *)
UndoneIsUndone == result = "undone" => live = before

(* A restore that succeeds has replaced all it was to replace, removed what *)
(* the archive does not have, and kept every other setting and file.       *)
RestoredExactly ==
  pc = "idle" /\ result = "ok" =>
    /\ \A p \in Path : live[p] = IF Target(p) THEN wanted[p] ELSE before[p]
    /\ \A p \in Preferences :
         before[p] # Absent /\ live[p] # Absent => live[p].other = before[p].other
=============================================================================
