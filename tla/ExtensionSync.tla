--------------------------- MODULE ExtensionSync ---------------------------
(***************************************************************************)
(* Extension synchronization of one profile directory between devices that *)
(* share a recovery key: sync_extensions_with_server and the two Recovery  *)
(* commands of the desktop client, over save_extension_bundle and          *)
(* load_extension_bundle of the client core.                               *)
(*                                                                         *)
(* An archive is uploaded as chunks, objects of their own that are written *)
(* once, and then published by writing the manifest that names them; the   *)
(* chunks of the manifest it replaces are deleted last.  Every request is  *)
(* one step: another device may act between any two.  The server is the    *)
(* ObjectStore: a write succeeds only against the revision it names.  An   *)
(* archive stands for its SHA-256; encryption is ideal.                    *)
(***************************************************************************)
EXTENDS Naturals, SequencesExt

CONSTANTS
  Device,
  Archive,      \* extension archives, by hash
  Blank,        \* the archive of a profile nobody has changed yet
  None,         \* no object, no archive
  Gone,         \* the content of a deleted chunk
  ChunkCount,   \* chunks an archive is split into
  MaxChunks,    \* bound: chunk objects ever created
  MaxManifests, \* bound: manifest objects ever created
  MaxRevision,  \* bound: revisions of a manifest
  Faults        \* what may go wrong: a device may stop ("crash"), a request
                \* may go unserved ("request") or unanswered ("reply")

ASSUME ConstantAssumption ==
  /\ Blank \in Archive
  /\ None \notin Archive \cup Nat
  /\ Gone \notin Archive
  /\ ChunkCount \in Nat \ {0}
  /\ MaxChunks \in Nat
  /\ MaxManifests \in Nat
  /\ MaxRevision \in Nat \ {0}
  /\ Faults \subseteq {"crash", "request", "reply"}

VARIABLES
  manifests,  \* server: the versions of each manifest object, by revision;
              \* it serves the last one
  newest,     \* server: the manifest object changed last, which discovery finds
  chunks,     \* server: the content of each chunk object
  unconfirmed, \* history: the manifests whose last version was stored by a save
               \* that failed for want of an answer
  local,      \* the archive that a capture of the device's profile gives
  saved,      \* the mapping and base in the device's state database
  pc,         \* what the device does next
  mode,       \* the command it is executing
  target,     \* the manifest object the command works on
  seen,       \* the manifest version it has read
  old,        \* the chunks a publication replaces
  up,         \* the chunks it has uploaded
  todo        \* the chunks it has yet to delete or to download

server == <<manifests, newest, chunks, unconfirmed>>
vars == <<manifests, newest, chunks, unconfirmed, local, saved, pc, mode, target, seen, old, up, todo>>

ManifestId == 1 .. MaxManifests
ChunkId == 1 .. MaxChunks

Manifest == [archive : Archive, chunks : Seq(ChunkId)]

(* "save" and "load" are the Recovery commands, the others what a sync does. *)
Mode == {"none", "sync", "syncSave", "syncLoad", "save", "load"}

Step == {"idle", "locate", "read", "readOld", "upload", "publish", "verify",
         "deleteOld", "cleanup", "fetch", "download", "restore", "persist"}

Init ==
  /\ manifests = << >>
  /\ newest = None
  /\ chunks = << >>
  /\ unconfirmed = {}
  /\ local = [d \in Device |-> Blank]
  /\ saved = [d \in Device |-> None]
  /\ pc = [d \in Device |-> "idle"]
  /\ mode = [d \in Device |-> "none"]
  /\ target = [d \in Device |-> None]
  /\ seen = [d \in Device |-> None]
  /\ old = [d \in Device |-> << >>]
  /\ up = [d \in Device |-> << >>]
  /\ todo = [d \in Device |-> << >>]

(* What the server answers for a manifest object. *)
Current(id) == Last(manifests[id])

Read(id) == [revision |-> Len(manifests[id]), manifest |-> Current(id)]

Goto(d, step) == pc' = [pc EXCEPT ![d] = step]

(* The command ends, with success or an error; its locals are gone. *)
End(d) ==
  /\ Goto(d, "idle")
  /\ mode' = [mode EXCEPT ![d] = "none"]
  /\ target' = [target EXCEPT ![d] = None]
  /\ seen' = [seen EXCEPT ![d] = None]
  /\ old' = [old EXCEPT ![d] = << >>]
  /\ up' = [up EXCEPT ![d] = << >>]
  /\ todo' = [todo EXCEPT ![d] = << >>]

(***************************************************************************)
(* Around the commands                                                     *)
(***************************************************************************)

(* The user changes extensions in Helium, which no command runs beside.    *)
UseBrowser(d) ==
  /\ pc[d] = "idle"
  /\ \E a \in Archive \ {local[d]} : local' = [local EXCEPT ![d] = a]
  /\ UNCHANGED <<server, saved, pc, mode, target, seen, old, up, todo>>

Start(d, m) ==
  /\ pc[d] = "idle"
  /\ mode' = [mode EXCEPT ![d] = m]
  /\ Goto(d, "locate")
  /\ UNCHANGED <<server, local, saved, target, seen, old, up, todo>>

(* The process dies: the profile and the state database remain. *)
Crash(d) ==
  /\ "crash" \in Faults
  /\ pc[d] # "idle"
  /\ End(d)
  /\ UNCHANGED <<server, local, saved>>

(***************************************************************************)
(* remote_extension_manifest                                               *)
(***************************************************************************)

(* The mapped object, or else the one changed last that discovery finds. *)
Located(d) ==
  IF saved[d] # None THEN saved[d].object ELSE newest

Saving == {"sync", "syncSave", "save"}

Locate(d) ==
  /\ pc[d] = "locate"
  /\ LET id == Located(d) IN
     IF id # None
     THEN /\ target' = [target EXCEPT ![d] = id]
          /\ Goto(d, "read")
          /\ UNCHANGED <<mode, seen, old, up, todo>>
     ELSE IF mode[d] \in Saving
     THEN /\ Goto(d, "upload")
          /\ UNCHANGED <<mode, target, seen, old, up, todo>>
     ELSE End(d)
  /\ UNCHANGED <<server, local, saved>>

(* A mutant of Decision: a remote change wins over a local one. *)
DecisionRemoteWins(d, r) ==
  CASE saved[d] = None                -> IF local[d] = r THEN "persist" ELSE "syncLoad"
    [] saved[d] # None /\ saved[d].archive # r                             -> "syncLoad"
    [] saved[d] # None /\ saved[d].archive = r /\ saved[d].archive # local[d] -> "syncSave"
    [] saved[d] # None /\ saved[d].archive = r /\ saved[d].archive = local[d] -> "persist"

(* What a sync does with the remote archive r, given its base.             *)
Decision(d, r) ==
  LET known == saved[d] # None
      localChanged == saved[d].archive # local[d]
      remoteChanged == saved[d].archive # r
  IN  CASE ~known /\ local[d] = r                  -> "persist"
        [] ~known /\ local[d] # r                  -> "syncLoad"
        [] known /\ ~localChanged /\ ~remoteChanged -> "persist"
        [] known /\ ~localChanged /\ remoteChanged  -> "syncLoad"
        [] known /\ localChanged /\ ~remoteChanged  -> "syncSave"
        [] known /\ localChanged /\ remoteChanged   -> "conflict"

(* A sync decides on this read; a save goes on to publish against it; a    *)
(* load takes only the object identifier from it.                          *)
ReadManifest(d) ==
  /\ pc[d] = "read"
  /\ LET m == Current(target[d])
         next == Decision(d, m.archive)
     IN  \/ /\ mode[d] = "sync"
            /\ next \in {"syncLoad", "syncSave"}
            /\ mode' = [mode EXCEPT ![d] = next]
            /\ Goto(d, "locate")
            /\ UNCHANGED <<target, seen, old, up, todo>>
         \/ /\ mode[d] = "sync"
            /\ next = "persist"
            /\ seen' = [seen EXCEPT ![d] = Read(target[d])]
            /\ Goto(d, "persist")
            /\ UNCHANGED <<mode, target, old, up, todo>>
         \/ /\ mode[d] = "sync"
            /\ next = "conflict"
            /\ End(d)
         \/ /\ mode[d] \in {"syncSave", "save"}
            /\ seen' = [seen EXCEPT ![d] = Read(target[d])]
            /\ Goto(d, "readOld")
            /\ UNCHANGED <<mode, target, old, up, todo>>
         \/ /\ mode[d] \in {"syncLoad", "load"}
            /\ Goto(d, "fetch")
            /\ UNCHANGED <<mode, target, seen, old, up, todo>>
  /\ UNCHANGED <<server, local, saved>>

(***************************************************************************)
(* save_extension_bundle                                                   *)
(***************************************************************************)

(* A mutant of ReadOldManifest: the old chunks make room for the new ones. *)
ReadOldManifestDeletes(d) ==
  /\ pc[d] = "readOld"
  /\ chunks' = [c \in DOMAIN chunks |->
                   IF c \in ToSet(Current(target[d]).chunks) THEN Gone ELSE chunks[c]]
  /\ Goto(d, "upload")
  /\ UNCHANGED <<manifests, newest, unconfirmed, local, saved, mode, target, seen, old, up, todo>>

(* The manifest is read again for the chunks to delete in the end. *)
ReadOldManifest(d) ==
  /\ pc[d] = "readOld"
  /\ old' = [old EXCEPT ![d] = Current(target[d]).chunks]
  /\ Goto(d, "upload")
  /\ UNCHANGED <<server, local, saved, mode, target, seen, up, todo>>

NewChunk(d) == Append(chunks, local[d])

(* A chunk is written and read back; nobody else knows its identifier. *)
UploadChunk(d) ==
  /\ pc[d] = "upload"
  /\ Len(chunks) < MaxChunks
  /\ chunks' = NewChunk(d)
  /\ up' = [up EXCEPT ![d] = Append(@, Len(chunks) + 1)]
  /\ Goto(d, IF Len(up[d]) + 1 = ChunkCount THEN "publish" ELSE "upload")
  /\ UNCHANGED <<manifests, newest, unconfirmed, local, saved, mode, target, seen, old, todo>>

(* Delete what was uploaded, then report the error. *)
BeginCleanup(d) ==
  /\ Goto(d, "cleanup")
  /\ todo' = [todo EXCEPT ![d] = up[d]]
  /\ UNCHANGED <<mode, target, seen, old, up>>

(* The chunk that failed is not among the uploaded ones, stored or not. *)
UploadFails(d) ==
  /\ pc[d] = "upload"
  /\ \/ "request" \in Faults /\ UNCHANGED chunks
     \/ /\ "reply" \in Faults
        /\ Len(chunks) < MaxChunks
        /\ chunks' = NewChunk(d)
  /\ BeginCleanup(d)
  /\ UNCHANGED <<manifests, newest, unconfirmed, local, saved>>

(* The server replaces the revision that the request names, or creates.    *)
MayPublish(d) ==
  IF target[d] = None THEN Len(manifests) < MaxManifests
  ELSE Len(manifests[target[d]]) = seen[d].revision /\ seen[d].revision < MaxRevision

Conflict(d) ==
  /\ target[d] # None
  /\ Len(manifests[target[d]]) # seen[d].revision

NewManifest(d) == [archive |-> local[d], chunks |-> up[d]]

NextVersion(d) ==
  IF target[d] = None THEN <<Len(manifests) + 1, 1>>
  ELSE <<target[d], seen[d].revision + 1>>

PutManifest(d) ==
  IF target[d] = None
  THEN /\ manifests' = Append(manifests, <<NewManifest(d)>>)
       /\ newest' = Len(manifests) + 1
  ELSE /\ manifests' = [manifests EXCEPT ![target[d]] = Append(@, NewManifest(d))]
       /\ newest' = target[d]

PublishManifest(d) ==
  /\ pc[d] = "publish"
  /\ MayPublish(d)
  /\ PutManifest(d)
  /\ unconfirmed' = unconfirmed \ {target[d]}
  /\ target' = [target EXCEPT ![d] = NextVersion(d)[1]]
  /\ seen' = [seen EXCEPT ![d] = [revision |-> NextVersion(d)[2], manifest |-> NewManifest(d)]]
  /\ Goto(d, "verify")
  /\ UNCHANGED <<chunks, local, saved, mode, old, up, todo>>

(* A conflict, an unserved or an unanswered request: the new chunks go.    *)
PublishFails(d) ==
  /\ pc[d] = "publish"
  /\ \/ Conflict(d) /\ UNCHANGED <<manifests, newest, unconfirmed>>
     \/ "request" \in Faults /\ UNCHANGED <<manifests, newest, unconfirmed>>
     \/ /\ "reply" \in Faults
        /\ MayPublish(d)
        /\ PutManifest(d)
        /\ unconfirmed' = unconfirmed \cup {NextVersion(d)[1]}
  /\ BeginCleanup(d)
  /\ UNCHANGED <<chunks, local, saved>>

(* The read back finds what was written, unless another has written since. *)
VerifyManifest(d) ==
  /\ pc[d] = "verify"
  /\ IF Current(target[d]) = seen[d].manifest
     THEN /\ todo' = [todo EXCEPT ![d] = old[d]]
          /\ Goto(d, "deleteOld")
          /\ UNCHANGED <<mode, target, seen, old, up>>
     ELSE BeginCleanup(d)
  /\ UNCHANGED <<server, local, saved>>

VerifyFails(d) ==
  /\ pc[d] = "verify"
  /\ {"request", "reply"} \cap Faults # {}
  /\ unconfirmed' = unconfirmed \cup
       {id \in {target[d]} : Len(manifests[id]) = seen[d].revision}
  /\ BeginCleanup(d)
  /\ UNCHANGED <<manifests, newest, chunks, local, saved>>

(* delete_objects stops at the first error; deleting a chunk that another  *)
(* has deleted is one, for the revision is no longer the uploaded one.     *)
DeleteChunk(d) ==
  /\ pc[d] \in {"deleteOld", "cleanup"}
  /\ todo[d] # << >>
  /\ chunks[Head(todo[d])] # Gone
  /\ chunks' = [chunks EXCEPT ![Head(todo[d])] = Gone]
  /\ todo' = [todo EXCEPT ![d] = Tail(@)]
  /\ UNCHANGED <<manifests, newest, unconfirmed, local, saved, pc, mode, target, seen, old, up>>

DeleteFails(d) ==
  /\ pc[d] \in {"deleteOld", "cleanup"}
  /\ todo[d] # << >>
  /\ \/ chunks[Head(todo[d])] = Gone /\ UNCHANGED chunks
     \/ "request" \in Faults /\ UNCHANGED chunks
     \/ "reply" \in Faults /\ chunks' = [chunks EXCEPT ![Head(todo[d])] = Gone]
  /\ End(d)
  /\ UNCHANGED <<manifests, newest, unconfirmed, local, saved>>

(* The old chunks are gone: the state is persisted next. *)
OldDeleted(d) ==
  /\ pc[d] = "deleteOld"
  /\ todo[d] = << >>
  /\ Goto(d, "persist")
  /\ UNCHANGED <<server, local, saved, mode, target, seen, old, up, todo>>

CleanupDone(d) ==
  /\ pc[d] = "cleanup"
  /\ todo[d] = << >>
  /\ End(d)
  /\ UNCHANGED <<server, local, saved>>

(***************************************************************************)
(* load_extension_bundle, restore_extension_bundle                         *)
(***************************************************************************)

FetchManifest(d) ==
  /\ pc[d] = "fetch"
  /\ seen' = [seen EXCEPT ![d] = Read(target[d])]
  /\ todo' = [todo EXCEPT ![d] = Current(target[d]).chunks]
  /\ Goto(d, "download")
  /\ UNCHANGED <<server, local, saved, mode, target, old, up>>

(* A deleted chunk does not decrypt, another archive's does not verify. *)
ChunkVerifies(d) == chunks[Head(todo[d])] = seen[d].manifest.archive

DownloadChunk(d) ==
  /\ pc[d] = "download"
  /\ todo[d] # << >>
  /\ IF ChunkVerifies(d)
     THEN /\ todo' = [todo EXCEPT ![d] = Tail(@)]
          /\ Goto(d, IF Len(todo[d]) = 1 THEN "restore" ELSE "download")
          /\ UNCHANGED <<mode, target, seen, old, up>>
     ELSE End(d)
  /\ UNCHANGED <<server, local, saved>>

Restore(d) ==
  /\ pc[d] = "restore"
  /\ local' = [local EXCEPT ![d] = seen[d].manifest.archive]
  /\ Goto(d, "persist")
  /\ UNCHANGED <<server, saved, mode, target, seen, old, up, todo>>

(* The process ends during the renames of a restore, or one fails that is   *)
(* not rolled back: the profile is a mixture, another archive.             *)
RestoreHalfDone(d) ==
  /\ pc[d] = "restore"
  /\ \E a \in Archive \ {local[d]} : local' = [local EXCEPT ![d] = a]
  /\ End(d)
  /\ UNCHANGED <<server, saved>>

(* A mutant of CommandFails: a restore that fails is taken for a success. *)
CommandFailsUnnoticed(d) ==
  /\ pc[d] = "restore"
  /\ Goto(d, "persist")
  /\ UNCHANGED <<server, local, saved, mode, target, seen, old, up, todo>>

(* Reading requests that fail, and a restore that fails and rolls back. *)
CommandFails(d) ==
  /\ \/ pc[d] \in {"locate", "read", "readOld", "fetch", "download"}
        /\ {"request", "reply"} \cap Faults # {}
     \/ pc[d] = "restore"
  /\ End(d)
  /\ UNCHANGED <<server, local, saved>>

(* A mutant of Persist: the manifest is saved where its hash belongs. *)
PersistManifest(d) ==
  /\ pc[d] = "persist"
  /\ saved' = [saved EXCEPT ![d] = [object |-> target[d], archive |-> seen[d].manifest]]
  /\ End(d)
  /\ UNCHANGED <<server, local>>

(* persist_extension_sync_state: mapping and base, one transaction. *)
Persist(d) ==
  /\ pc[d] = "persist"
  /\ saved' = [saved EXCEPT ![d] = [object |-> target[d], archive |-> seen[d].manifest.archive]]
  /\ End(d)
  /\ UNCHANGED <<server, local>>

DeviceStep(d) ==
  \/ Locate(d)
  \/ ReadManifest(d)
  \/ ReadOldManifest(d)
  \/ UploadChunk(d)
  \/ UploadFails(d)
  \/ PublishManifest(d)
  \/ PublishFails(d)
  \/ VerifyManifest(d)
  \/ VerifyFails(d)
  \/ DeleteChunk(d)
  \/ DeleteFails(d)
  \/ OldDeleted(d)
  \/ CleanupDone(d)
  \/ FetchManifest(d)
  \/ DownloadChunk(d)
  \/ Restore(d)
  \/ RestoreHalfDone(d)
  \/ CommandFails(d)
  \/ Persist(d)

Next ==
  \E d \in Device :
    \/ UseBrowser(d)
    \/ \E m \in {"sync", "save", "load"} : Start(d, m)
    \/ DeviceStep(d)
    \/ Crash(d)

Spec == Init /\ [][Next]_vars

-----------------------------------------------------------------------------
(***************************************************************************)
(* Properties                                                              *)
(***************************************************************************)

Reading == [revision : 1 .. MaxRevision, manifest : Manifest]

TypeOK ==
  /\ manifests \in Seq(Seq(Manifest))
  /\ newest \in DOMAIN manifests \cup {None}
  /\ chunks \in Seq(Archive \cup {Gone})
  /\ local \in [Device -> Archive]
  /\ unconfirmed \subseteq DOMAIN manifests
  /\ saved \in [Device -> [object : ManifestId, archive : Archive] \cup {None}]
  /\ pc \in [Device -> Step]
  /\ mode \in [Device -> Mode]
  /\ target \in [Device -> ManifestId \cup {None}]
  /\ seen \in [Device -> Reading \cup {None}]
  /\ old \in [Device -> Seq(ChunkId)]
  /\ up \in [Device -> Seq(ChunkId)]
  /\ todo \in [Device -> Seq(ChunkId)]

Complete(manifest) == \A c \in ToSet(manifest.chunks) : chunks[c] = manifest.archive

(* Whoever loads what the server serves gets the whole archive, whatever    *)
(* fails: the chunks of a current manifest are all stored, unless its save  *)
(* failed because an answer was lost.  Copy-on-write is for this.          *)
ConfirmedIsComplete ==
  \A id \in DOMAIN manifests :
    id \notin unconfirmed => Complete(Current(id))

(* docs/security-model.md:9, "Copy-on-write publication keeps the previous  *)
(* manifest valid until all new chunks have uploaded and round-trip         *)
(* verified": the same without the exception.                              *)
PublishedIsComplete ==
  \A id \in DOMAIN manifests : Complete(Current(id))

(* A device takes for its base only an archive that its profile holds and   *)
(* its manifest object did hold: else a later comparison with the base sees *)
(* no change where there is one, and a sync restores over it.              *)
BaseIsAgreed ==
  [][\A d \in Device :
       saved'[d] # saved[d] =>
         /\ saved'[d].archive = local[d]
         /\ saved'[d].object \in DOMAIN manifests
         /\ \E r \in DOMAIN manifests[saved'[d].object] :
              manifests[saved'[d].object][r].archive = saved'[d].archive]_vars

(* A sync restores over a profile only when nothing in it changed since the *)
(* last sync, or when it has never been synced.                            *)
SyncKeepsLocalChanges ==
  [][\A d \in Device :
       pc[d] = "restore" /\ local'[d] # local[d] /\ mode[d] = "syncLoad"
         => saved[d] = None \/ local[d] = saved[d].archive]_vars

(* docs/client.md:27, "Concurrent local and remote extension changes ...    *)
(* are never silently merged or overwritten": a sync replaces on the server *)
(* only the archive that was this device's base.                           *)
NoSilentOverwrite ==
  [][\A d \in Device :
       pc[d] = "publish" /\ pc'[d] = "verify" /\ mode[d] = "syncSave"
         => Current(target[d]).archive = saved[d].archive]_vars
=============================================================================
