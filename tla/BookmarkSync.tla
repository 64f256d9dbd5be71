---------------------------- MODULE BookmarkSync ----------------------------
(***************************************************************************)
(* Bookmark synchronization of one profile directory between devices that  *)
(* share a recovery key: the bookmark half of sync_profile_with_server,    *)
(* save_profile_to_server and load_profile_from_server, over upload and    *)
(* load_bookmarks of the client core.                                      *)
(*                                                                         *)
(* The snapshot is one object, written against the revision it replaces    *)
(* and read back.  Every request is one step: another device may act       *)
(* between any two.  A snapshot here is flat and gives each bookmark one   *)
(* value, for merge_optional_node decides by node whose version survives;  *)
(* MergeBookmarks has the trees and the fields.  Every edit makes a value  *)
(* of its own, so that it can be followed.                                 *)
(***************************************************************************)
EXTENDS Naturals, SequencesExt

CONSTANTS
  Device,
  Bookmark,    \* node identifiers
  None,        \* no object, nothing saved
  Commands,    \* the commands users give: "sync", "save", "load"
  Synced,      \* whether the devices start from a common synchronized state
  MaxEdits,    \* bound: edits of all users, and files their browsers write anew
  MaxObjects,  \* bound: objects ever created
  MaxRevision, \* bound: revisions of an object
  Faults       \* a device may stop ("crash"), a request may go unserved
               \* ("request") or unanswered ("reply"), a restore may fail ("file")

ASSUME ConstantAssumption ==
  /\ Commands \subseteq {"sync", "save", "load"}
  /\ Synced \in BOOLEAN
  /\ MaxEdits \in Nat
  /\ MaxObjects \in Nat \ {0}
  /\ MaxRevision \in Nat \ {0}
  /\ Faults \subseteq {"crash", "request", "reply", "file"}
  /\ None \notin Nat

VARIABLES
  objects,  \* server: the versions of each snapshot object, by revision
  newest,   \* server: the object changed last, which discovery finds
  local,    \* the bookmarks in the device's profile
  missing,  \* the devices whose profile has no Bookmarks file
  saved,    \* the mapping and base in the device's state database
  pc,       \* what the device does next
  mode,     \* the command it is executing
  target,   \* the object the command works on
  seen,     \* the revision of it that the command has read or written
  merged,   \* the snapshot the command is to upload, restore and save as base
  edits,    \* how many edits users have made, new files included
  replaced, \* history: the values the user of a device edited or deleted there
  forgotten \* history: what the base of a device had when its browser wrote a
            \* new Bookmarks file, because there was none

server == <<objects, newest>>
files == <<local, missing>>
history == <<edits, replaced, forgotten>>
vars == <<server, files, saved, pc, mode, target, seen, merged, history>>

ObjectId == 1 .. MaxObjects
Revision == 0 .. MaxRevision

(* The value of a bookmark: the number of the edit that made it.           *)
Absent == 0
Value == 0 .. MaxEdits

Snapshot == [Bookmark -> Value]
Empty == [b \in Bookmark |-> Absent]

Saved == [object : ObjectId, revision : Revision, base : Snapshot]

Step == {"idle", "locate", "read", "upload", "verify", "restore", "persist"}

Init ==
  /\ objects = IF Synced THEN << <<Empty>> >> ELSE << >>
  /\ newest = IF Synced THEN 1 ELSE None
  /\ local = [d \in Device |-> Empty]
  /\ missing = {}
  /\ saved = [d \in Device |-> IF Synced THEN [object |-> 1, revision |-> 1, base |-> Empty]
                               ELSE None]
  /\ pc = [d \in Device |-> "idle"]
  /\ mode = [d \in Device |-> "none"]
  /\ target = [d \in Device |-> None]
  /\ seen = [d \in Device |-> 0]
  /\ merged = [d \in Device |-> Empty]
  /\ edits = 0
  /\ replaced = [d \in Device |-> {}]
  /\ forgotten = {}

Current(id) == Last(objects[id])

Goto(d, step) == pc' = [pc EXCEPT ![d] = step]

(* The command ends, with success or an error; its locals are gone. *)
End(d) ==
  /\ Goto(d, "idle")
  /\ mode' = [mode EXCEPT ![d] = "none"]
  /\ target' = [target EXCEPT ![d] = None]
  /\ seen' = [seen EXCEPT ![d] = 0]
  /\ merged' = [merged EXCEPT ![d] = Empty]

(***************************************************************************)
(* Around the commands                                                     *)
(***************************************************************************)

(* The user adds, edits or deletes a bookmark in Helium, which no command  *)
(* runs beside.                                                            *)
UseBrowser(d) ==
  /\ pc[d] = "idle"
  /\ d \notin missing
  /\ edits < MaxEdits
  /\ edits' = edits + 1
  /\ \E b \in Bookmark, v \in {Absent, edits + 1} :
       /\ v # local[d][b]
       /\ local' = [local EXCEPT ![d][b] = v]
       /\ replaced' = [replaced EXCEPT ![d] = @ \cup ({local[d][b]} \ {Absent})]
  /\ UNCHANGED <<server, missing, saved, pc, mode, target, seen, merged, forgotten>>

Base(d) == IF saved[d] = None THEN Empty ELSE saved[d].base

(* Helium is opened on a profile without a Bookmarks file and writes one    *)
(* without bookmarks.  What the base has, and the file had, it has deleted *)
(* for all that a later sync can tell.                                     *)
StartAnew(d) ==
  /\ pc[d] = "idle"
  /\ d \in missing
  /\ edits < MaxEdits
  /\ edits' = edits + 1
  /\ missing' = missing \ {d}
  /\ forgotten' = forgotten \cup (Range(Base(d)) \ {Absent})
  /\ UNCHANGED <<server, local, saved, pc, mode, target, seen, merged, replaced>>

Start(d, m) ==
  /\ pc[d] = "idle"
  /\ mode' = [mode EXCEPT ![d] = m]
  /\ Goto(d, "locate")
  /\ UNCHANGED <<server, files, saved, target, seen, merged, history>>

(* The process dies: the profile and the state database remain. *)
Crash(d) ==
  /\ "crash" \in Faults
  /\ pc[d] # "idle"
  /\ End(d)
  /\ UNCHANGED <<server, files, saved, history>>

(***************************************************************************)
(* The merge, bookmark by bookmark                                         *)
(***************************************************************************)

(* A mutant of MergeValues: the server's version is taken. *)
MergeRemote(base, l, r) == r

(* merge_optional_node: of two changes the remote one wins, and a change    *)
(* wins over a deletion.                                                   *)
MergeValues(base, l, r) ==
  IF l = r \/ r = base THEN l
  ELSE IF l = base \/ r # Absent THEN r ELSE l

Merge(d, remote) ==
  [b \in Bookmark |-> MergeValues(Base(d)[b], local[d][b], remote[b])]

(***************************************************************************)
(* Finding and reading the server's copy                                   *)
(***************************************************************************)

(* A sync and a save read the Bookmarks file first; a load does not. *)
ReadsBookmarks(d) == mode[d] \in {"sync", "save"}

(* read_bookmarks without a file: the command ends. *)
ReadBookmarksFails(d) ==
  /\ pc[d] = "locate"
  /\ ReadsBookmarks(d) /\ d \in missing
  /\ End(d)
  /\ UNCHANGED <<server, files, saved, history>>

(* A sync takes the mapped object or the one changed last that discovery   *)
(* finds, and creates one if there is none.  A save writes against the     *)
(* stored mapping without reading; a load requires a mapping.              *)
Locate(d) ==
  /\ pc[d] = "locate"
  /\ ReadsBookmarks(d) => d \notin missing
  /\ \/ /\ mode[d] \in {"sync", "load"}
        /\ saved[d] # None
        /\ target' = [target EXCEPT ![d] = saved[d].object]
        /\ Goto(d, "read")
        /\ UNCHANGED <<mode, seen, merged>>
     \/ /\ mode[d] = "sync"
        /\ saved[d] = None
        /\ newest # None
        /\ target' = [target EXCEPT ![d] = newest]
        /\ Goto(d, "read")
        /\ UNCHANGED <<mode, seen, merged>>
     \/ /\ mode[d] = "save"
        /\ saved[d] # None
        /\ target' = [target EXCEPT ![d] = saved[d].object]
        /\ seen' = [seen EXCEPT ![d] = saved[d].revision]
        /\ merged' = [merged EXCEPT ![d] = local[d]]
        /\ Goto(d, "upload")
        /\ UNCHANGED mode
     \/ /\ mode[d] = "save" \/ (mode[d] = "sync" /\ newest = None)
        /\ saved[d] = None
        /\ merged' = [merged EXCEPT ![d] = local[d]]
        /\ Goto(d, "upload")
        /\ UNCHANGED <<mode, target, seen>>
     \/ /\ mode[d] = "load"
        /\ saved[d] = None
        /\ End(d)
  /\ UNCHANGED <<server, files, saved, history>>

(* What is left to do once the server holds the snapshot s. *)
AfterServer(d, s) == IF s # local[d] THEN "restore" ELSE "persist"

ReadObject(d) ==
  /\ pc[d] = "read"
  /\ LET remote == Current(target[d])
         result == IF mode[d] = "sync" THEN Merge(d, remote) ELSE remote
     IN  /\ seen' = [seen EXCEPT ![d] = Len(objects[target[d]])]
         /\ merged' = [merged EXCEPT ![d] = result]
         /\ Goto(d, IF result # remote THEN "upload"
                    ELSE IF mode[d] = "load" THEN "restore" ELSE AfterServer(d, result))
  /\ UNCHANGED <<server, files, saved, mode, target, history>>

(***************************************************************************)
(* upload                                                                  *)
(***************************************************************************)

(* A mutant of MayUpload: the revision is not compared. *)
MayUploadAnyway(d) ==
  IF target[d] = None THEN Len(objects) < MaxObjects
  ELSE Len(objects[target[d]]) < MaxRevision

(* The server creates an object, or replaces the revision that was read.   *)
MayUpload(d) ==
  IF target[d] = None THEN Len(objects) < MaxObjects
  ELSE Len(objects[target[d]]) = seen[d] /\ seen[d] < MaxRevision

Conflict(d) == target[d] # None /\ Len(objects[target[d]]) # seen[d]

PutObject(d) ==
  IF target[d] = None
  THEN /\ objects' = Append(objects, <<merged[d]>>)
       /\ newest' = Len(objects) + 1
  ELSE /\ objects' = [objects EXCEPT ![target[d]] = Append(@, merged[d])]
       /\ newest' = target[d]

Upload(d) ==
  /\ pc[d] = "upload"
  /\ MayUpload(d)
  /\ PutObject(d)
  /\ target' = [target EXCEPT ![d] = IF @ = None THEN Len(objects) + 1 ELSE @]
  /\ Goto(d, "verify")
  /\ UNCHANGED <<files, saved, mode, seen, merged, history>>

(* A conflict, an unserved or an unanswered request: the command ends. *)
UploadFails(d) ==
  /\ pc[d] = "upload"
  /\ \/ Conflict(d) /\ UNCHANGED server
     \/ "request" \in Faults /\ UNCHANGED server
     \/ "reply" \in Faults /\ MayUpload(d) /\ PutObject(d)
  /\ End(d)
  /\ UNCHANGED <<files, saved, history>>

(* A mutant of Verify: what is read back is not compared. *)
VerifyAnything(d) ==
  /\ pc[d] = "verify"
  /\ seen' = [seen EXCEPT ![d] = Len(objects[target[d]])]
  /\ Goto(d, IF mode[d] = "save" THEN "persist" ELSE AfterServer(d, merged[d]))
  /\ UNCHANGED <<server, files, saved, mode, target, merged, history>>

(* The object is read back: its revision is taken if it is what was        *)
(* written, also when another device has written the same since.           *)
Verify(d) ==
  /\ pc[d] = "verify"
  /\ IF Current(target[d]) = merged[d]
     THEN /\ seen' = [seen EXCEPT ![d] = Len(objects[target[d]])]
          /\ Goto(d, IF mode[d] = "save" THEN "persist" ELSE AfterServer(d, merged[d]))
          /\ UNCHANGED <<mode, target, merged>>
     ELSE End(d)
  /\ UNCHANGED <<server, files, saved, history>>

RequestFails(d) ==
  /\ \/ pc[d] \in {"read", "verify"}
     \/ pc[d] = "locate" /\ mode[d] = "sync" /\ saved[d] = None
  /\ {"request", "reply"} \cap Faults # {}
  /\ End(d)
  /\ UNCHANGED <<server, files, saved, history>>

(***************************************************************************)
(* restore_bookmarks, persist_sync_state                                   *)
(***************************************************************************)

(* A mutant of Restore: the snapshot is staged and never put in place. *)
RestoreStagesOnly(d) ==
  /\ pc[d] = "restore"
  /\ End(d)
  /\ UNCHANGED <<server, files, saved, history>>

Restore(d) ==
  /\ pc[d] = "restore"
  /\ local' = [local EXCEPT ![d] = merged[d]]
  /\ missing' = missing \ {d}
  /\ Goto(d, "persist")
  /\ UNCHANGED <<server, saved, mode, target, seen, merged, history>>

(* An error before the file is replaced, or when the previous one is       *)
(* removed after it was.                                                   *)
RestoreFails(d) ==
  /\ pc[d] = "restore"
  /\ "file" \in Faults
  /\ \/ UNCHANGED local
     \/ d \notin missing /\ local' = [local EXCEPT ![d] = merged[d]]
  /\ End(d)
  /\ UNCHANGED <<server, missing, saved, history>>

(* The process ends between the rename of the previous file and that of the *)
(* new one, or the second fails and the first is not undone: the profile   *)
(* has no Bookmarks file.                                                  *)
RestoreHalfDone(d) ==
  /\ pc[d] = "restore"
  /\ {"crash", "file"} \cap Faults # {}
  /\ d \notin missing
  /\ local' = [local EXCEPT ![d] = Empty]
  /\ missing' = missing \cup {d}
  /\ End(d)
  /\ UNCHANGED <<server, saved, history>>

(* A mutant of Persist: the revision after the one read is stored. *)
PersistNextRevision(d) ==
  /\ pc[d] = "persist"
  /\ saved' = [saved EXCEPT ![d] =
                 [object |-> target[d], revision |-> seen[d] + 1, base |-> merged[d]]]
  /\ End(d)
  /\ UNCHANGED <<server, files, history>>

(* Mapping and base, one transaction. *)
Persist(d) ==
  /\ pc[d] = "persist"
  /\ saved' = [saved EXCEPT ![d] =
                 [object |-> target[d], revision |-> seen[d], base |-> merged[d]]]
  /\ End(d)
  /\ UNCHANGED <<server, files, history>>

DeviceStep(d) ==
  \/ ReadBookmarksFails(d)
  \/ Locate(d)
  \/ ReadObject(d)
  \/ Upload(d)
  \/ UploadFails(d)
  \/ Verify(d)
  \/ RequestFails(d)
  \/ Restore(d)
  \/ RestoreFails(d)
  \/ RestoreHalfDone(d)
  \/ Persist(d)

Next ==
  \E d \in Device :
    \/ UseBrowser(d)
    \/ StartAnew(d)
    \/ \E m \in Commands : Start(d, m)
    \/ DeviceStep(d)
    \/ Crash(d)

Spec == Init /\ [][Next]_vars

-----------------------------------------------------------------------------
(***************************************************************************)
(* Properties                                                              *)
(***************************************************************************)

TypeOK ==
  /\ objects \in Seq(Seq(Snapshot))
  /\ newest \in DOMAIN objects \cup {None}
  /\ local \in [Device -> Snapshot]
  /\ missing \subseteq Device
  /\ saved \in [Device -> Saved \cup {None}]
  /\ pc \in [Device -> Step]
  /\ mode \in [Device -> {"none", "sync", "save", "load"}]
  /\ target \in [Device -> ObjectId \cup {None}]
  /\ seen \in [Device -> Revision]
  /\ merged \in [Device -> Snapshot]
  /\ edits \in 0 .. MaxEdits
  /\ replaced \in [Device -> SUBSET Value]
  /\ forgotten \subseteq Value

(* The mapping's revision and the base speak of the same version of the     *)
(* object, whoever wrote between the upload and the read back: else a later *)
(* conditional write would replace a version that was never merged.        *)
BaseIsTheNamedVersion ==
  \A d \in Device :
    saved[d] # None =>
      /\ saved[d].object \in DOMAIN objects
      /\ saved[d].revision \in DOMAIN objects[saved[d].object]
      /\ saved[d].base = objects[saved[d].object][saved[d].revision]

(* What users edited or deleted, and what was forgotten with a lost file. *)
AllGone == forgotten \cup UNION {replaced[d] : d \in Device}

(* The server loses a value of a bookmark only when some user has edited or *)
(* deleted it, whatever requests fail or devices stop in between.  The     *)
(* exception is what a base names of a Bookmarks file that a restore cut   *)
(* off between its renames has moved away, and only once the browser has   *)
(* written another: until then read_bookmarks stops every sync and save.   *)
ServerLosesOnlyReplaced ==
  [][\A id \in DOMAIN objects : \A b \in Bookmark :
       Last(objects'[id])[b] # Current(id)[b] =>
         Current(id)[b] \in AllGone \cup {Absent}]_vars

(* A sync takes a bookmark out of a profile only when some user has edited  *)
(* or deleted what was there: "changed" wins over "deleted", and an edit    *)
(* not yet uploaded is never taken for a deletion on the server.  The      *)
(* exceptions are a restore that leaves no Bookmarks file, and what other  *)
(* devices lost that way.                                                  *)
SyncRemovesOnlyReplaced ==
  [][\A d \in Device : \A b \in Bookmark :
       mode[d] = "sync" /\ pc[d] = "restore" /\ d \notin missing'
         /\ local[d][b] # Absent /\ local'[d][b] = Absent
       => local[d][b] \in AllGone]_vars

(* When the users leave their bookmarks alone, all profiles and the server's *)
(* copy become the same and stay so: no device waits for ever, and no two   *)
(* undo each other's merges once their syncs do not overlap any more.       *)
Converges == <>[](\A d \in Device : local[d] = Current(1))

(* README.md:7, "Independent bookmark additions, edits, and deletions are   *)
(* reconciled against an encrypted local merge base": what a user edited or *)
(* deleted on a device is not put back there by a later sync.              *)
ReplacedStaysGone ==
  [][\A d \in Device : \A b \in Bookmark :
       mode[d] = "sync" /\ pc[d] = "restore" /\ local'[d][b] # local[d][b]
         => local'[d][b] \notin replaced[d]]_vars
=============================================================================
