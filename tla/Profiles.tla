------------------------------ MODULE Profiles ------------------------------
(***************************************************************************)
(* The profiles of one installation: create_browser_profile,               *)
(* archive_profile, restore_archived_profile, delete_archived_profile and  *)
(* the listing of profiles with its repair of the default, all of the      *)
(* desktop client's main.rs, over the preferences and the archive registry *)
(* of its state database.                                                  *)
(*                                                                         *)
(* A directory and the row that tells of it change in two steps; either    *)
(* may fail, and the client may stop between them.  The commands that move *)
(* directories exclude each other by the lock profile_operations; listing  *)
(* profiles and choosing the default do not take it, and run beside them.  *)
(*                                                                         *)
(* A profile is a number, wherever its directory is.  What a sync stores   *)
(* for a directory name, mapping and base, stands for the profile that was *)
(* synced under it.                                                        *)
(***************************************************************************)
EXTENDS Naturals, Sequences, FiniteSets

CONSTANTS
  MaxName,      \* bound: the last profile directory name, 9 at most
  None,         \* no profile, no name
  MaxProfiles,  \* bound: profiles ever created
  MaxArchives   \* bound: archive directories ever created

ASSUME ProfilesAssumption ==
  /\ MaxName \in 0 .. 9
  /\ None \notin Nat
  /\ MaxProfiles \in Nat \ {0}
  /\ MaxArchives \in Nat

VARIABLES
  dirs,        \* the profile in each directory of the user data
  stored,      \* the profile in each archive directory, by archive
  registry,    \* table profile_archives
  known,       \* table profile_preferences: its names
  default,     \* the name whose row has is_default = 1
  bases,       \* the profile whose sync state is stored under a name
  pc,          \* next step of the command that holds the lock, and of one
               \* that does not need it
  arg,         \* the name or the archive it works on
  report,      \* the names that its discovery has found
  after,       \* what it does after ensure_discovered_profiles
  overlapped,  \* history: whether the other has moved since that began
  born,        \* history: the directory each profile was created in
  unrecorded,  \* history: profiles whose archiving was cut off
  deleted,     \* history: profiles the user has deleted for good
  freed        \* history: names that were free again after such a profile

(* The directory that Helium itself creates, and "Profile 1" and so on. *)
Default == 0
Name == 0 .. MaxName

database == <<registry, known, default, bases>>
files == <<dirs, stored>>
histories == <<born, unrecorded, deleted, freed>>
tasks == <<pc, arg, report, after, overlapped>>
vars == <<dirs, stored, registry, known, default, bases, pc, arg, report, after,
          overlapped, born, unrecorded, deleted, freed>>

Task == {"command", "view"}
Profile == DOMAIN born

Live == {n \in Name : dirs[n] # None}

Row == [archive : 1 .. MaxArchives, name : Name]

Init ==
  /\ born = <<Default>>
  /\ dirs = [n \in Name |-> IF n = Default THEN 1 ELSE None]
  /\ stored = << >>
  /\ registry = {}
  /\ known = {}
  /\ default = None
  /\ bases = [n \in Name |-> None]
  /\ pc = [t \in Task |-> "idle"]
  /\ arg = [t \in Task |-> None]
  /\ report = [t \in Task |-> {}]
  /\ after = [t \in Task |-> "idle"]
  /\ overlapped = [t \in Task |-> FALSE]
  /\ unrecorded = {}
  /\ deleted = {}
  /\ freed = {}

Other(t) == CHOOSE o \in Task : o # t

(* Task t goes on with a step; a listing of the other is overlapped.       *)
Goto(t, step) ==
  /\ pc' = [pc EXCEPT ![t] = step]
  /\ overlapped' = [overlapped EXCEPT ![Other(t)] = TRUE, ![t] = @ /\ step # "discover"]

(* The task ends, with its answer or an error. *)
End(t) ==
  /\ pc' = [pc EXCEPT ![t] = "idle"]
  /\ arg' = [arg EXCEPT ![t] = None]
  /\ report' = [report EXCEPT ![t] = {}]
  /\ after' = [after EXCEPT ![t] = "idle"]
  /\ overlapped' = [overlapped EXCEPT ![Other(t)] = TRUE, ![t] = FALSE]

(* ensure_discovered_profiles, and then step. *)
List(t, step) ==
  /\ Goto(t, "discover")
  /\ after' = [after EXCEPT ![t] = step]
  /\ report' = [report EXCEPT ![t] = {}]

Begin(t, x) ==
  /\ pc[t] = "idle"
  /\ arg' = [arg EXCEPT ![t] = x]

(* The commands that move directories run one at a time. *)
Locked == pc["command"] = "idle"

(* The client process ends, with everything it was doing. *)
Crash ==
  /\ \E t \in Task : pc[t] # "idle"
  /\ pc' = [t \in Task |-> "idle"]
  /\ arg' = [t \in Task |-> None]
  /\ report' = [t \in Task |-> {}]
  /\ after' = [t \in Task |-> "idle"]
  /\ overlapped' = [t \in Task |-> FALSE]
  /\ unrecorded' = IF pc["command"] \in {"record", "moveBack"}
                   THEN unrecorded \cup {stored[Len(stored)]} ELSE unrecorded
  /\ UNCHANGED <<database, files, born, deleted, freed>>

-----------------------------------------------------------------------------
(***************************************************************************)
(* ensure_discovered_profiles                                              *)
(***************************************************************************)

Discover(t) ==
  /\ pc[t] = "discover"
  /\ report' = [report EXCEPT ![t] = Live]
  /\ pc' = [pc EXCEPT ![t] = "register"]
  /\ overlapped' = [overlapped EXCEPT ![Other(t)] = TRUE, ![t] = FALSE]
  /\ UNCHANGED <<database, files, arg, after, histories>>

(* Goes on when the profiles are listed and there is a default. *)
Continue(t) ==
  IF after[t] = "idle" THEN End(t)
  ELSE Goto(t, after[t]) /\ UNCHANGED <<arg, report, after>>

(* A mutant of DefaultIsPresent: any default row will do. *)
DefaultIsSet(t) == default # None

(* current_default_is_present *)
DefaultIsPresent(t) == default \in report[t]

(* A row for each profile found, then the preferences are read.            *)
Register(t) ==
  /\ pc[t] = "register"
  /\ known' = known \cup report[t]
  /\ IF DefaultIsPresent(t) \/ report[t] = {}
     THEN Continue(t)
     ELSE Goto(t, "chooseDefault") /\ UNCHANGED <<arg, report, after>>
  /\ UNCHANGED <<registry, default, bases, files, histories>>

(* "Default", or else the first profile found: in the order of the strings, *)
(* which is that of the numbers below 10.                                  *)
ChooseDefault(t) ==
  /\ pc[t] = "chooseDefault"
  /\ \E n \in report[t] :
       /\ \A m \in report[t] : n <= m
       /\ default' = n
  /\ Continue(t)
  /\ UNCHANGED <<registry, known, bases, files, histories>>

(* A statement or a scan of the directories fails. *)
ListingFails(t) ==
  /\ pc[t] \in {"discover", "register", "chooseDefault", "setDefault"}
  /\ End(t)
  /\ UNCHANGED <<database, files, histories>>

(* discover_profiles *)
View ==
  /\ Begin("view", None)
  /\ List("view", "idle")
  /\ UNCHANGED <<database, files, histories>>

(* set_default_profile: the chosen profile may have been archived since.   *)
BeginSetDefault(n) ==
  /\ Begin("view", n)
  /\ List("view", "setDefault")
  /\ UNCHANGED <<database, files, histories>>

(* A mutant of SetDefault: the row is not looked for. *)
SetDefaultUnchecked(t) ==
  /\ pc[t] = "setDefault"
  /\ default' = arg[t]
  /\ List(t, "idle")
  /\ UNCHANGED <<registry, known, bases, files, arg, histories>>

SetDefault(t) ==
  /\ pc[t] = "setDefault"
  /\ IF arg[t] \in known
     THEN default' = arg[t] /\ List(t, "idle") /\ UNCHANGED arg
     ELSE End(t) /\ UNCHANGED default
  /\ UNCHANGED <<registry, known, bases, files, histories>>

-----------------------------------------------------------------------------
(***************************************************************************)
(* create_browser_profile, and a sync                                      *)
(***************************************************************************)

(* A mutant of Reserved: archived profiles keep no name. *)
ReservedNone == {}

Reserved == {row.name : row \in registry}

(* create_profile_with_reserved: the first directory that did not exist.   *)
CreateProfile(n) ==
  /\ Locked
  /\ Len(born) < MaxProfiles
  /\ n # Default
  /\ n \notin Reserved \cup Live
  /\ 1 .. n - 1 \subseteq Reserved \cup Live
  /\ born' = Append(born, n)
  /\ dirs' = [dirs EXCEPT ![n] = Len(born) + 1]
  /\ Begin("command", n)
  /\ Goto("command", "ensure")
  /\ UNCHANGED <<database, stored, report, after, unrecorded, deleted, freed>>

(* ensure_profile for the new directory, which may fail. *)
EnsureProfile ==
  /\ pc["command"] = "ensure"
  /\ \/ /\ known' = known \cup {arg["command"]}
        /\ List("command", "idle")
        /\ UNCHANGED arg
     \/ /\ End("command")
        /\ UNCHANGED known
  /\ UNCHANGED <<registry, default, bases, files, histories>>

(* persist_sync_state, at the end of sync_profile: see BookmarkSync. *)
Sync(n) ==
  /\ Locked
  /\ n \in Live
  /\ bases[n] # dirs[n]
  /\ bases' = [bases EXCEPT ![n] = dirs[n]]
  /\ UNCHANGED <<registry, known, default, files, tasks, histories>>

-----------------------------------------------------------------------------
(***************************************************************************)
(* archive_profile                                                         *)
(***************************************************************************)

BeginArchive(n) ==
  /\ Locked
  /\ n \in Live
  /\ Begin("command", n)
  /\ List("command", "moveOut")
  /\ UNCHANGED <<database, files, histories>>

(* A rename into a new directory of the archive root, which may fail. *)
MoveOut ==
  /\ pc["command"] = "moveOut"
  /\ \/ /\ Len(stored) < MaxArchives
        /\ stored' = Append(stored, dirs[arg["command"]])
        /\ dirs' = [dirs EXCEPT ![arg["command"]] = None]
        /\ Goto("command", "record")
        /\ UNCHANGED <<arg, report, after>>
     \/ End("command") /\ UNCHANGED files
  /\ UNCHANGED <<database, histories>>

NewRow == [archive |-> Len(stored), name |-> arg["command"]]

(* record_profile_archive, one transaction; a name has one row at most.    *)
Record ==
  /\ pc["command"] = "record"
  /\ arg["command"] \notin Reserved
  /\ registry' = registry \cup {NewRow}
  /\ default' = IF default = arg["command"] THEN None ELSE default
  /\ List("command", "idle")
  /\ UNCHANGED <<known, bases, files, arg, histories>>

(* A mutant of RecordFails: the directory stays where it is. *)
RecordFailsKeepsMove ==
  /\ pc["command"] = "record"
  /\ End("command")
  /\ UNCHANGED <<database, files, histories>>

RecordFails ==
  /\ pc["command"] = "record"
  /\ Goto("command", "moveBack")
  /\ UNCHANGED <<database, files, arg, report, after, histories>>

(* A mutant of MoveBack: the archive is removed in any case. *)
MoveBackCleansUp ==
  /\ pc["command"] = "moveBack"
  /\ \/ dirs' = [dirs EXCEPT ![arg["command"]] = stored[Len(stored)]]
     \/ UNCHANGED dirs
  /\ stored' = [stored EXCEPT ![Len(stored)] = None]
  /\ End("command")
  /\ UNCHANGED <<database, histories>>

(* The directory goes back, or the error says that it did not. *)
MoveBack ==
  /\ pc["command"] = "moveBack"
  /\ \/ /\ dirs' = [dirs EXCEPT ![arg["command"]] = stored[Len(stored)]]
        /\ stored' = [stored EXCEPT ![Len(stored)] = None]
        /\ UNCHANGED unrecorded
     \/ /\ unrecorded' = unrecorded \cup {stored[Len(stored)]}
        /\ UNCHANGED files
  /\ End("command")
  /\ UNCHANGED <<database, born, deleted, freed>>

-----------------------------------------------------------------------------
(***************************************************************************)
(* restore_archived_profile                                                *)
(***************************************************************************)

RowOf(archive) == CHOOSE row \in registry : row.archive = archive

(* The archive is there and nothing is in its place. *)
MayRestore(row) ==
  /\ stored[row.archive] # None
  /\ dirs[row.name] = None

MoveIn(row) ==
  /\ Locked
  /\ row \in registry
  /\ MayRestore(row)
  /\ dirs' = [dirs EXCEPT ![row.name] = stored[row.archive]]
  /\ stored' = [stored EXCEPT ![row.archive] = None]
  /\ Begin("command", row.archive)
  /\ Goto("command", "forgetRestored")
  /\ UNCHANGED <<database, report, after, histories>>

(* remove_profile_archive; when it fails the directory goes back, unless   *)
(* that fails as well.                                                     *)
ForgetRestored ==
  /\ pc["command"] = "forgetRestored"
  /\ LET row == RowOf(arg["command"]) IN
     \/ /\ registry' = registry \ {row}
        /\ List("command", "idle")
        /\ UNCHANGED <<arg, files>>
     \/ /\ End("command")
        /\ dirs' = [dirs EXCEPT ![row.name] = None]
        /\ stored' = [stored EXCEPT ![row.archive] = dirs[row.name]]
        /\ UNCHANGED registry
     \/ /\ End("command")
        /\ UNCHANGED <<registry, files>>
  /\ UNCHANGED <<known, default, bases, histories>>

-----------------------------------------------------------------------------
(***************************************************************************)
(* delete_archived_profile                                                 *)
(***************************************************************************)

(* The directory is removed, in part if that fails; a row whose directory  *)
(* is not there is only forgotten.                                         *)
RemoveArchive(row) ==
  /\ Locked
  /\ row \in registry
  /\ Begin("command", row.archive)
  /\ IF stored[row.archive] = None
     THEN UNCHANGED <<stored, deleted, report, after>> /\ Goto("command", "forgetDeleted")
     ELSE /\ deleted' = deleted \cup {stored[row.archive]}
          /\ UNCHANGED <<report, after>>
          /\ \/ /\ stored' = [stored EXCEPT ![row.archive] = None]
                /\ Goto("command", "forgetDeleted")
             \/ /\ UNCHANGED stored
                /\ Goto("command", "fail")
  /\ UNCHANGED <<database, dirs, born, unrecorded, freed>>

(* remove_profile_archive: the name is free. *)
ForgetDeleted ==
  /\ pc["command"] = "forgetDeleted"
  /\ registry' = registry \ {RowOf(arg["command"])}
  /\ freed' = freed \cup {RowOf(arg["command"]).name}
  /\ List("command", "idle")
  /\ UNCHANGED <<known, default, bases, files, arg, born, unrecorded, deleted>>

DeleteFails ==
  /\ pc["command"] \in {"fail", "forgetDeleted"}
  /\ End("command")
  /\ UNCHANGED <<database, files, histories>>

-----------------------------------------------------------------------------
Next ==
  \/ \E t \in Task : Discover(t) \/ Register(t) \/ ChooseDefault(t) \/ SetDefault(t)
                       \/ ListingFails(t)
  \/ View
  \/ \E n \in Name : BeginSetDefault(n) \/ CreateProfile(n) \/ Sync(n) \/ BeginArchive(n)
  \/ EnsureProfile
  \/ MoveOut
  \/ Record
  \/ RecordFails
  \/ MoveBack
  \/ \E row \in registry : MoveIn(row) \/ RemoveArchive(row)
  \/ ForgetRestored
  \/ ForgetDeleted
  \/ DeleteFails
  \/ Crash

Spec == Init /\ [][Next]_vars

-----------------------------------------------------------------------------
(***************************************************************************)
(* Properties                                                              *)
(***************************************************************************)

Step == {"idle", "discover", "register", "chooseDefault", "setDefault", "ensure", "moveOut",
         "record", "moveBack", "forgetRestored", "forgetDeleted", "fail"}

TypeOK ==
  /\ born \in Seq(Name)
  /\ dirs \in [Name -> Profile \cup {None}]
  /\ stored \in Seq(Profile \cup {None})
  /\ registry \subseteq Row
  /\ known \subseteq Name
  /\ default \in known \cup {None}
  /\ bases \in [Name -> Profile \cup {None}]
  /\ pc \in [Task -> Step]
  /\ arg \in [Task -> Name \cup DOMAIN stored \cup {None}]
  /\ report \in [Task -> SUBSET Name]
  /\ after \in [Task -> {"idle", "moveOut", "setDefault"}]
  /\ overlapped \in [Task -> BOOLEAN]
  /\ unrecorded \subseteq Profile
  /\ deleted \subseteq Profile
  /\ freed \subseteq Name

Places(i) ==
  {<<"dir", n>> : n \in {m \in Name : dirs[m] = i}}
    \cup {<<"archive", a>> : a \in {b \in DOMAIN stored : stored[b] = i}}

(* README.md:5, "Profiles can be moved into recoverable local archives,     *)
(* restored later, or permanently deleted": whatever fails, a profile the   *)
(* user has not deleted is in one place, its own directory or an archive.  *)
EveryProfileIsKept ==
  \A i \in Profile \ deleted :
    /\ Cardinality(Places(i)) = 1
    /\ \A n \in Name : dirs[n] = i => n = born[i]

(* An archive can be restored from the list, under the name of its profile, *)
(* unless its archiving was cut off between the rename and the row.        *)
ArchivedIsRegistered ==
  \A a \in DOMAIN stored :
    stored[a] # None =>
      \/ [archive |-> a, name |-> born[stored[a]]] \in registry
      \/ stored[a] \in unrecorded
      \/ pc["command"] \in {"record", "moveBack"} /\ a = Len(stored)

(* A profile is synced against the base of another only under a name that   *)
(* was free again after a deletion or an archiving that was cut off: names  *)
(* of archived profiles stay reserved.                                     *)
BaseIsItsOwn ==
  \A n \in Live :
    \/ bases[n] \in {None, dirs[n]}
    \/ n \in freed
    \/ bases[n] \in unrecorded

(* What ensure_discovered_profiles is for: a listing of at least one profile *)
(* that no other command overlaps ends with a default that is there, also  *)
(* when the former one was archived, deleted or cut off, or chosen by a    *)
(* listing that a command had overlapped.                                  *)
ListingRepairsDefault ==
  [][\A t \in Task :
       /\ Register(t) \/ ChooseDefault(t)
       /\ pc'[t] # "chooseDefault"
       /\ report[t] # {}
       /\ ~overlapped[t]
       => default' \in Live']_vars
=============================================================================
