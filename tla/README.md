# Helium Sync in TLA+

A verification development of Helium Sync: a self-hosted server that stores
encrypted objects, and a desktop client that keeps the bookmarks and extensions
of Helium browser profiles in step between devices. The modules are translated
from the Rust sources under `src/crates/`; each definition names its lines in
`PROJECT.json` (`map`).

## 1. The system

| Component | State | Operations | Correct when |
|---|---|---|---|
| Server handlers (`helium-sync-server/src/api.rs`) | tables `devices`, `objects`, `changes` | register, list, revoke device; get, put, delete object; batch; changes | rows and change log agree; revisions of an object are 1, 2, 3 ...; a request is all or nothing; a revoked device writes nothing; what was answered is never lost |
| Server database (`storage.rs`) | SQLite file in WAL mode, 8 connections | transactions of the handlers | a crash loses only what was not committed; transactions never wait for each other |
| Extension sync (`src-tauri/src/main.rs`, `orchestration.rs`) | on the server a manifest and its chunks; on the device a mapping and a base hash | sync, "Replace server copy", "Restore server copy" | a published manifest is complete; the base is a common archive; no change is overwritten unseen |
| Bookmark sync (`main.rs`, `orchestration.rs`) | a snapshot object; a mapping and a base snapshot | sync, save, load | an edit of either side survives the merge; devices converge |
| Bookmark merge (`helium-sync-profile/src/lib.rs`) | none | three-way merge of trees | no node lost, duplicated or made its own ancestor; unchanged sides take the other |
| File restore (`helium-sync-profile/src/lib.rs`) | files of a profile and of its backup | restore bookmarks, restore extensions | at any crash the old or the new data exist; a failed restore changes nothing |
| Profile archives (`main.rs`, `state.rs`) | directories and the archive registry | archive, restore, delete | each profile is in exactly one place and findable |
| Local state (`state.rs`) | client SQLite database | mappings, bases, preferences, device id | mapping and base change together; one default profile |
| Sign-in and session (`main.rs`, client `api.rs`, `secrets.rs`) | the master key and the connection form in the keyring; the session; the lock `profile_operations` | connect over HTTPS or SSH, import a recovery code, save, load, sync | one command at a time; a session works under the stored key; a failed sign-in changes nothing that worked |
| Discovery (`orchestration.rs`, `changes` of the server) | the pages read so far | page through the change feed, try candidates | a copy that is there is found, and no second one made; nothing another key encrypted is replaced |
| Transports, server authentication, configuration, discovery of profiles, user interface | connections, settings | I/O around the above | not modelled, see section 7 |

How they interact. The client talks to the server by HTTP requests, over HTTPS
or an SSH forward; every one may fail, go unserved or be served without its
answer arriving, and the client never retries. All coordination between
devices is by the conditional writes of the server: a write names the revision
it replaces. The commands of one desktop client exclude each other through the
mutex `profile_operations`; two devices share nothing but the server. Helium
itself writes the same profile files, and the commands refuse to start while
it runs.

What is hard. On the server: read-then-write transactions that interleave at
statement granularity, a lock upgrade that fails or would deadlock, batches
that fail in the middle, tasks dropped when the client disconnects. On the
client: commands of many requests with other devices acting in between,
decisions made on one reading and carried out on another, crashes between
publishing and remembering, answers that are lost. `PROJECT.json` lists each
hazard at its line with the properties that would catch it.

## 2. Modules

| Module | Models | Uses |
|---|---|---|
| `StoreTables` | the three tables, the checks and the effect of one operation (`put_object_tx`, `delete_object_tx`, `ensure_active_device`, `validate_put`) | |
| `ObjectStore` | abstract: a store whose requests take effect at one instant; an object's revision is the number of its changes | `StoreTables` |
| `SyncServer` | the handlers statement by statement over SQLite transactions | `StoreTables`, refines `ObjectStore` |
| `SyncServerProofs` | the inductive invariant of `SyncServer` and the theorems | `SyncServer` |
| `SyncServerRefinementProofs` | that `SyncServer` implements `ObjectStore` | `SyncServerProofs` |
| `ExtensionSync` | extension sync request by request, several devices, over the store's conditional writes | |
| `ExtensionSyncProofs` | the inductive invariant of `ExtensionSync` and the theorems | `ExtensionSync` |
| `MergeBookmarks` | `merge_bookmarks` on trees, and the edits of two users it is checked on | |
| `MergeBookmarksProofs` | the merge of trees of any depth: the recursion, the inductions, the theorems | `MergeBookmarks` |
| `BookmarkSync` | bookmark sync request by request, several devices, with the merge decided bookmark by bookmark | |
| `BookmarkSyncProofs` | the inductive invariant of `BookmarkSync` and the theorems | `BookmarkSync` |
| `RestoreFiles` | `restore_bookmarks` and `restore_extension_bundle`, rename by rename | |
| `RestoreFilesProofs` | the inductive invariant of `RestoreFiles` and the theorems | `RestoreFiles` |
| `Profiles` | create, archive, restore, delete and list the profiles of one installation | |
| `ProfilesProofs` | the inductive invariant of `Profiles` and the theorems | `Profiles` |
| `ChangeFeed` | a page of `changes`, and the candidates a discovery collects from pages | |
| `SignIn` | sign-in, recovery keys, and which object under which key the commands of several devices work on | `ChangeFeed` |
| `SignInProofs` | the inductive invariant of `SignIn` and the theorems | `SignIn` |
| `MCSyncServer`, `MCExtensionSync`, `MCMergeBookmarks`, `MCBookmarkSync`, `MCRestoreFiles`, `MCProfiles`, `MCSignIn` | instances for TLC | |
| `MCBookmarkConverge` | `BookmarkSync` with a bounded number of overlapping syncs, and its fairness | `BookmarkSync` |

### `SyncServer`

`db` is the committed database. A handler is a task of the server; `pc` says
before which statement it stands, `view` is the database its transaction sees,
`fresh` whether its snapshot is still the last commit, and `writer` which
transaction holds SQLite's one write lock. A batch is a request of several
operations, `put_object` and `delete_object` are requests of one.

| Action | Code |
|---|---|
| `BeginWrite` | `pool.begin()` of put_object, delete_object, batch |
| `CheckOperation` / `RejectOperation` | the SELECTs and every early return of `put_object_tx` / `delete_object_tx`; an error drops the transaction |
| `WriteOperation` / `WriteFails` | the INSERT into `changes` and the upsert of `objects`; the first needs the write lock |
| `CommitWrite`, `SendReply` | `commit()`, the answer |
| `BeginRegister`, `SelectDevice`, `InsertRow`, `InsertFails` | `register_device`: two separate statements |
| `RevokeDevice` | the UPDATE of `revoke_device` |
| `DropHandler`, `Crash` | the task of a closed connection is dropped; the process ends |

SQLite is modelled as the code configures it (`storage.rs`: WAL, `FULL`
synchronous) and uses it (sqlx's `begin()` is `BEGIN DEFERRED`): the first
SELECT takes the snapshot, and the first INSERT of a transaction that has read
fails at once if another transaction holds the lock or has committed since,
without waiting for the busy timeout, which applies only to statements that
hold no snapshot. Such a failure is the handler's `database_unavailable`.
Timestamps decide nothing and are left out; envelopes are opaque.

### `ExtensionSync`

The server's part is what `ObjectStore` promises: `manifests[id]` is the
sequence of versions of a manifest object, indexed by revision, `chunks` the
content of chunk objects, `newest` the manifest object the change feed names
last, which is what discovery finds. A device has its profile's archive
(`local`, standing for its SHA-256, as captures of the same data are equal),
the mapping and base of its state database (`saved`) and the locals of the
command it runs.

| Action | Code |
|---|---|
| `Locate`, `ReadManifest` | `remote_extension_manifest`: the mapping, or discovery; then the manifest |
| `Decision` | the match of `sync_extensions_with_server`; its branches call the Recovery commands, which locate and read again |
| `ReadOldManifest`, `UploadChunk`, `PublishManifest`, `VerifyManifest`, `DeleteChunk` | `save_extension_bundle` and `upload`: PUT, then GET to compare |
| `UploadFails`, `PublishFails`, `VerifyFails`, `DeleteFails` | its error paths with `delete_objects`, which stops at the first error |
| `FetchManifest`, `DownloadChunk`, `Restore` | `load_extension_bundle`, `restore_extension_bundle` |
| `RestoreHalfDone` | the same, cut off between two renames: see `RestoreFiles` |
| `Persist` | `persist_extension_sync_state`, one transaction |
| `Crash`, `UseBrowser` | the client process ends; the user changes extensions between commands |

`Faults` chooses what may go wrong: `"crash"`, `"request"` (a request is not
served) and `"reply"` (it is served, the answer is lost). The encryption is
ideal: a stored chunk decrypts to what was uploaded. `unconfirmed` remembers
the objects whose last version was stored while its client did not learn it.

### `MergeBookmarks`

A node is a record with its id, kind, name, url and children; an `Option` is a
set of at most one node. `MergeOptional`, `MergePresent` and `MergeChildren`
are the functions of the code and return the nodes with the number of
conflicts. They call each other through a parameter, the merge of nodes one
level below, and `MergeAt[d]` closes the recursion: a recursive function of the
depth, with a domain (`Versions(d)`, what base, local and remote hold in one
place), so that it can be proved about. `Trees` and `Levels`, the trees of a
profile and the places of a tree, are recursive functions of the depth too. The
dates of a node are merged exactly as its name is and left out.
A root is merged by its key as a sibling is by its id. The state machine makes
the inputs: two profiles that start equal, with their common snapshot as base
or with none, and are edited as Helium lets a user edit (add, delete, rename,
change the address, move). Helium is external: all that is assumed is that an
id is unique in its own profile. The properties compare the result with a
reference stated path by path, without the recursion and its early returns.

### `BookmarkSync`

As in `ExtensionSync` the server's part is what `ObjectStore` promises. A
snapshot gives each bookmark one value, `MergeValues` is `merge_optional_node`
for it; the value of an edit is its number, so an edit can be followed through
merges, and `replaced` remembers which values the user of a device has edited
or deleted there. `missing` says which profiles have no `Bookmarks` file:
`restore_bookmarks` moves the file away before it moves the new one in
(`lib.rs:1436`, `lib.rs:1443`), and may end between the two, because the
process does or because the second rename fails and cannot be undone. Nothing
repairs that but a load, which does not read the file, or Helium, which writes
a file without bookmarks when it is opened; `forgotten` remembers what the base
of the device had then. Putting the previous file or the backup back by hand is
not modelled, nor is a profile that Helium has never opened: no command does
anything with its bookmarks.

| Action | Code |
|---|---|
| `ReadBookmarksFails` | `read_bookmarks` without a file, at the start of a sync or save (`main.rs:1186`, `orchestration.rs:155`) |
| `Locate` | the mapping, or `discover_bookmarks`; a save takes the stored revision without reading |
| `ReadObject`, `Merge` | `load_bookmarks`, `merge_bookmarks` with the saved base; what is left to do follows from which side the result differs from |
| `Upload`, `UploadFails`, `Verify` | `upload`: PUT, then GET to compare; the revision taken is the one read back |
| `Restore`, `RestoreFails` | `restore_bookmarks`, which may fail before the file is replaced or after |
| `RestoreHalfDone` | `restore_bookmarks` cut off between its two renames, or failing in the second and in undoing the first |
| `Persist` | `persist_sync_state`, one transaction |
| `RequestFails`, `Crash`, `UseBrowser`, `StartAnew` | a GET that fails; the process ends; the user edits between commands; Helium writes a new file where there is none |

The extension half, which every command runs first, shares no state with it: a
command it stops is one that does not start here.

### `RestoreFiles`

`live`, `staged` and `previous` are the entries of the profile, of the staging
directory and of the place the old ones are moved to; `backup` is the archive
in Downloads; `moved` and `installed` are the lists of the code. A preference
file has the section that is synced and its other settings.

| Action | Code |
|---|---|
| `StageExtensions`, `StageBookmarks` | `extract_extension_payload` and `stage_preference_files`; the new `Bookmarks` file |
| `WriteBackup` | `create_extension_bundle`, `create_backup_archive`: after staging for extensions, before it for bookmarks |
| `Prepare`, `Refuse` | `extension_restore_targets`; every error before the first rename |
| `MoveOut`, `Install` | one rename each |
| `MoveOutFails`, `MakeParentFails`, `InstallFails` | their error paths: rolled back, returned at once, or renamed back |
| `RemoveInstalled`, `PutBack`, `RolledBack` | `rollback_extension_targets` and `rollback_summary` |
| `AllInstalled` | success; for bookmarks the old file is removed, which may fail |
| `Crash` | the process ends, all files stay |

Entries are renamed in any order, the code sorts them; a removal that fails may
leave a directory removed in part (`Damaged`).

### `Profiles`

A profile is a number, `dirs` says which profile is in which directory and
`stored` which is in which archive directory; `registry`, `known`, `default` and
`bases` are the tables `profile_archives`, `profile_preferences` and the base of
a sync. There are two tasks: `command` holds `profile_operations`, `view` is a
command that does not take it. Both run `ensure_discovered_profiles`, whose
steps interleave with everything else.

| Action | Code |
|---|---|
| `Discover`, `Register`, `ChooseDefault`, `ListingFails` | `ensure_discovered_profiles`: the scan, the rows, the repair of the default |
| `View`, `BeginSetDefault`, `SetDefault` | `discover_profiles`, `set_default_profile` |
| `CreateProfile`, `EnsureProfile` | `create_browser_profile` |
| `BeginArchive`, `MoveOut`, `Record`, `RecordFails`, `MoveBack` | `archive_profile` |
| `MoveIn`, `ForgetRestored` | `restore_archived_profile`, with the way back when the row stays |
| `RemoveArchive`, `ForgetDeleted`, `DeleteFails` | `delete_archived_profile` |
| `Sync` | the end of a sync, as far as its base is concerned |
| `Crash` | the client process ends |

Directories with other names than `Default` and `Profile N`, which Helium may
list in its own `Local State`, are left out.

### `SignIn`

An object on the server is its kind, the profile it names inside its
encryption, and the key of its last version; `feed` is the change log that
discovery pages through. On each device `keyring` and `settings` are the two
entries of the secret store, `saved` the mapping and the base by address and
kind with the key the base was encrypted under, and `session`, `pc` and `run`
the running app. A master key and its recovery code are one value: a device
generates one key, named after it, and `Shared` is a key whose code every user
has. Decryption succeeds under the key of encryption and fails otherwise.

| Action | Code |
|---|---|
| `StartConnect` | `connect_https`, `connect_ssh`: the lock, the end of the old session |
| `LoadOrCreateMasterKey` | `load_or_create_master_key` |
| `Authenticate` | `negotiate`, `status`, `register_device`, where `device_exists` is as good |
| `PersistSettings` | `persist_connection_settings`, then the choice of `forced_default_sync` |
| `StartCommand` | `session_context` of save, load, sync and launch |
| `FetchMapped` | `load_bookmarks` or `load_extension_manifest` of the mapped object; a wrong key ends the command |
| `ReadPage` | one iteration of the loop of `discover_bookmarks` and `discover_extension_bundle` |
| `TryCandidate`, `NothingFound` | the newest candidate is opened: passed over when it is undecryptable or of another profile, taken otherwise |
| `NothingSaved` | a load of bookmarks without a mapping |
| `Put`, `Verify` | `upload`: PUT, then GET to compare |
| `Record` (in `FetchMapped`, `TryCandidate`, `Verify`) | `persist_extension_sync_state`, `persist_sync_state`; after the extensions come the bookmarks |
| `ImportRecoveryCode` | `import_recovery_code` |
| `FailCommand`, `Quit` | any error, also of a request that took effect; the app ends |

A step is one request with what the client does locally until the next. What a
sync decides by content is a choice: it keeps, uploads or restores, and for the
extensions goes on like the save or load it calls, which look for the manifest
once more (`Transfer`). Each device has one profile, "mine"; the copies of
another profile are on the server from the start. Bookmarks and manifests are
never deleted, so a candidate is never a tombstone. One app runs per device:
the lock is one of the process, and a second process would be a second device
with the same keyring, which the code does not expect either.

## 3. Runs

| Run | Instance | Question |
|---|---|---|
| `server` | 2 handlers, 2 devices, 2 objects, revisions up to 2, log of at most 3 changes, 10 requests of which 4 are batches | do the tables, the log and the acknowledgements agree, does every request look atomic, and does every handler end |
| `ext_faults` | 2 devices, 3 archives, 2 chunks of one per archive, all faults | is a confirmed manifest always complete, is the base always a common archive, and is a changed profile never restored over |
| `ext_overwrite` | no faults | finding 1 |
| `ext_unanswered` | lost answers | finding 2 |
| `merge` | a folder, a bookmark in it and one beside it; 3 edits, 2 new ids | does the merge keep, drop and count what the reference says |
| `merge_additions` | the same | finding 3 |
| `bookmark_faults` | 2 devices, 1 bookmark, 2 edits, 2 objects, all faults | is the base what its revision names; is anything lost that nobody deleted, also after a restore that was cut off |
| `bookmark_converge` | 2 devices, 2 bookmarks, 3 edits, 2 overlaps | do profiles and server become equal |
| `bookmark_undone` | 2 devices, 2 bookmarks, 3 edits, no faults | finding 4 |
| `restore_files` | one plain and one IndexedDB directory, one preference file, the bookmarks; 2 contents | what is where when a restore fails, is undone or is cut off |
| `profiles` | 2 names, 3 profiles, 2 archives | is every profile kept and found, and is no profile synced as another |
| `sign_in` | 2 devices, 2 addresses, pages of 2, 3 commands, 1 import | is a copy found wherever it is, and do objects, bases, sessions and secret stores agree on their keys |

Bounds. `MaxCursor` and `MaxRevision` bound the log and the revisions of
`server`; both limits exist in the code (2^63 - 1), and the error paths at them
are taken. At the limit of two a put over a tombstone is refused; that one
which is accepted goes on from the tombstone's revision is proved for every
limit (`RevisionsAreConsecutive`). Two handlers suffice for every conflict of
two transactions: there is one write lock, and a handler that neither holds it
nor wants it changes nothing; the theorems are for any number of them.
`MaxDepth` bounds the depth of bookmark trees by the number of ids, and no tree
of a profile has a longer path, as an id occurs once; it cuts nothing off. In
`ExtensionSync`, `MaxChunks`, `MaxManifests` and `MaxRevision` bound what can
be created: two manifests give the race of first syncs, two chunks and two
revisions the replacement of a version beside every step of another device.
That a device chooses its revision on one version and reads the chunks to
delete from a second, while a third is published, needs three revisions, which
with all faults take TLC too long: `ext_overwrite` and `ext_unanswered` have
them without, and `ServedIsComplete` is proved for every bound. `restore_files`
has one entry of each kind the code treats differently, with two directories to
be undone in either order; a third content would be told apart by nothing. In
`profiles` three profiles are needed for a name to be taken, archived and taken
again, and two archives for a profile to be archived while another is. In
`sign_in` three commands are two first syncs that race and one that meets what
they left; the feed, with the two changes it starts with, comes in two pages or
more from the first object on, so that objects are written while a discovery
stands between two pages; one import takes a device from any key to any other.
Both devices start with no key or with `Shared`, the keys of new and of paired
devices. The run does not check for deadlock: when the commands are used up,
everyone may be idle. Symmetry is used in the runs of safety properties only.
`MaxEdits` = 3 in `merge` gives every pair of one edit against two, and every
conflict of the merge is one of two edits; a third tests that an unrelated edit
changes nothing. In `bookmark_faults` an edit and a deletion, or an edit and a
file written anew (`StartAnew` counts as an edit), three revisions and two
objects give the races of first syncs, of save against sync, a write by another
device between any two steps, and what follows a lost file; merges of different
bookmarks do not meet, so one suffices there, and `bookmark_converge` has two.
Its `MaxRevision` is never reached: a device that stood at the bound for ever
would violate `Converges`.

Fairness. `FairSpec` of `SyncServer` asks for weak fairness of each handler's
next statement: the runtime polls every task and SQLite answers every
statement, with a result or an error. Nothing is asked of clients, of crashes
or of dropped connections. `MCSpec` of `MCBookmarkConverge` asks that a started
command runs on (weak fairness) and that each device starts a sync again and
again while no other runs one (strong fairness): the desktop client starts one
every 30 seconds (`main.ts:721`), a sync takes a few requests, and the timers
of two machines are not in step. The assumption is needed. Two devices whose
syncs overlap for ever can each write between the other's upload and read back;
both keep their old bases and change a bookmark back and forth.

`SignIn` states no fairness: `CursorAdvances` is the bounded part of "discovery
ends", that each page brings it nearer to the end of the feed as it then is; it
does end once the others pause, and nothing in the code makes them.

## 4. What the runs show, and where they contradict the documents

The server keeps its promises. `RowsMatchLog`, `RevisionHistory` and
`AckedWritesAreLogged` say that the two tables a write touches tell one story,
that no revision is ever given twice, and that an answer is never taken back;
`RevokedDevicesDoNotWrite` holds even for the transaction that read the device
row before the revocation, because its lock upgrade then fails.
`ImplementsObjectStore` puts it together: with `devices`, `feed` and `content`
read off the committed database, each step of `SyncServer` is one request of
the atomic store or a stutter, crashes and dropped handlers included.

The extension protocol is safe against crashes and failing requests at any
step, half done restores included: a manifest whose upload was confirmed keeps
all its chunks (`ConfirmedIsComplete`), the base is always an archive that
device and server held (`BaseIsAgreed`), and a sync never restores over an
unsynced change (`SyncKeepsLocalChanges`). Two runs find behaviours the
documents exclude:

1. `ext_overwrite` (`NoSilentOverwrite`): a sync decides to upload on one
   reading of the manifest, and `save_extensions_to_server` reads it again and
   publishes against that second revision. A version published in between is
   replaced, although `docs/client.md:27` says concurrent changes are never
   silently overwritten.
2. `ext_unanswered` (`PublishedIsComplete`): when the manifest was stored but
   the answer was lost, the client deletes the new chunks. The server then
   serves a manifest whose chunks are gone (`docs/security-model.md:9`).

The merge agrees with its reference (`EditsSurvive`, `SurvivorsAreExact`): no
edit is undone because of another, a change wins over a deletion, a conflict
count of zero is the truth, and a merge repeated after a crash changes nothing
(`ResumedMergeIsStable`). The protocol around it keeps bookmarks that nobody
edited or deleted on the server and in the profiles (`ServerLosesOnlyReplaced`,
`SyncRemovesOnlyReplaced`), because the revision a device stores always names
the version it stores as base (`BaseIsTheNamedVersion`), and profiles converge.
That holds through crashes, failing requests and failing restores, with one
exception. A restore that ends between its two renames leaves the profile
without a `Bookmarks` file. Until there is one again every sync and save stops
in `read_bookmarks`, so that the server loses nothing; but once Helium has been
opened and has written a new file, the next sync or save takes what it lacks
for deleted, removes it from the server, and the other devices follow. What was
lost is then still in the backup in Downloads and in the hidden previous file.
Both properties except this and nothing else: without `forgotten` TLC finds
`ServerLosesOnlyReplaced` violated, and so it does when the missing file is
read as an empty one instead of stopping the command. Two behaviours contradict
`README.md:7`:

3. `merge_additions` (`AdditionsSurvive`): nodes are matched by the id in the
   `Bookmarks` file, which each browser chooses for itself; two new bookmarks
   with one id are merged into one.
4. `bookmark_undone` (`ReplacedStaysGone`): when another device writes between
   a device's upload and its read back, the upload counts as failed and the
   base stays old; what the user deletes next is put back by the next sync.

A restore keeps its promise (`README.md:7`, "Every local replacement is backed
up"): nothing differs from what was found before a complete backup holds it
(`ReplacedIsBackedUp`), a crash leaves the old data on the disk
(`OldDataIsOnDisk`), "the original extension data was restored" is never said
when it was not (`UndoneIsUndone`), and a success is complete
(`RestoredExactly`). A profile that nobody deleted is in one place, in its own
directory or an archive (`EveryProfileIsKept`), and an archive is in the list
(`ArchivedIsRegistered`) unless its archiving was cut off between the rename
and the row.

Signing in and out, importing keys and failing in between never bring a key to
the wrong place: a session works under the key in the secret store
(`SessionKeyIsStored`), a base is under the key of the object it belongs to
(`BaseOpensWithItsObject`), no command replaces what it could not read
(`ObjectsKeepTheirKey`), and a generated key is stored before anything needs it
and lost only by an import over it (`NeededKeysAreStored`). That
`save_profile` is among the commands that replace nothing unreadable is owed to
the order of its steps: its bookmarks are written without being read, and only
the extensions, read just before under the same key, stand between it and
bookmarks of an older key. `docs/client.md:12` promises that invalid attempts
leave the settings alone (`SettingsWork`) and that a new device discovers
existing copies instead of creating unrelated ones: `CopiedOnlyWhenAbsent`
(step 7, `docs/client.md:13`) holds, with two exceptions, below.

Limits of the code that the models show but no run is kept for: two devices
that sync a profile for the first time at once create two objects for it, and
each keeps to its own; so does a save that finds extensions on the server but
has no mapping for the bookmarks, which it does not look for
(`main.rs:1102`); after an import of another key every mapped object stays
undecryptable, each command on its profile fails, and nothing in the client
removes the mapping; after a crash between publishing extensions and saving
the base the next sync stops on a conflict between equal archives; a
reordering of a bookmark folder is undone when the other side changed anything
in or below that folder; a bookmark moved on one side and edited on the other
is kept at both places; when the directory for the first IndexedDB entry cannot
be made (`lib.rs:1075`), the restore returns with other entries already moved
out, drops them with the rollback directory and does not name the backup that
holds them; a restore of bookmarks whose last step fails reports an error
although the bookmarks were replaced; one that is cut off or cannot be undone
between its renames leaves no `Bookmarks` file, and the file Helium then writes
makes the next sync or save delete on the server what it lacks (`forgotten`,
above); a backup of extensions holds only the
synced section of a preference file, so that a rollback which itself fails can
lose its other settings; chunks of a save that died stay on the server; a
profile whose archiving was cut off between rename and row is neither listed
nor registered; a profile created under the name of a deleted one inherits its
mapping and base, so that its first sync takes the bookmarks it lacks for
deleted (`BaseIsItsOwn` excepts it); a listing beside an archiving can leave a
default that is not there until the next one (`ListingRepairsDefault`).

## 5. Proofs

Every safety property of the passing runs is a theorem, for every value of the
constants: 39 theorems are listed in `PROJECT.json`, in 8 modules. Except for
the refinement and the merge, whose arguments are below, each proof has the
form of the components': an inductive invariant `IInv`, which TLC checked on
the run's instance before it was proved; lemmas on the operators; one lemma per
action, or per kind of step, that it keeps `IInv`; and the theorems.

`SyncServerProofs` proves, for any sets of devices, names, objects, requests
and handlers and for any bounds, under the assumptions `SentinelAssumption`,
`BoundAssumption`, `RequestAssumption` and `HandlerAssumption` only:
`TypeCorrect`, `RowsAlwaysMatchLog`, `RevisionsAreConsecutive`,
`AckedWritesStayLogged`, `HistoryStays` and `RevocationHolds`.

None of these is inductive alone. `IInv` adds what a transaction in flight may
rely on: the view of every handler is a consistent database
(`AllConsistent`: `RowIsLastChange` and `RevisionsConsecutive`); a handler past
its checks has a view in which the operation is allowed (`ControlInv`); the
view of the transaction that holds the write lock extends the database that is
committed *now*, by changes of devices active in it, and before its first
INSERT a fresh view is the committed database (`LockInv`); and what is about to
be answered is committed (`AnswerInv`). `LockInv` is what the lock buys: a
commit by anyone else would have needed the lock or made the snapshot old, so a
COMMIT only ever appends, and only for devices that are still active. The
lemmas follow the operators (`AfterWrite`, `WriteKeepsRows`,
`WriteKeepsRevisions`, `WriteExtends`), then the actions, one lemma each, then
`Invariance`.

`RestoreFilesProofs` proves, for any entries and contents, under
`PathAssumption` and `ContentAssumption` only: `TypeCorrect`,
`OldDataSurvives`, `BackupComesFirst`, `RollbackIsComplete` and
`RestoreIsExact`. Its invariant says for each phase where every entry is:
before the first rename the profile is as it was found (`EarlyInv`); while old
entries move out, one is in its place or moved, never both (`MoveOutInv`); an
installed entry holds what was staged (`InstallInv`); and during a rollback
without trouble an entry that is done is as it was (`RollbackInv`,
`RemoveInv`, `PutBackInv`). `KindInv` keeps bookmarks and extensions apart: a
restore of one never has an entry of the other to rename.

`SignInProofs` proves all eight properties of the run `sign_in`, for any sets of
devices and addresses, any page size above zero, any objects under the shared
key at the start and any number of commands and imports, under
`ConstantAssumption` only: `TypeCorrect`, `DiscoveryIsComplete`,
`ObjectKeysStay`, `StoredBasesOpen`, `SessionKeyStored`, `NeededKeysStored`,
`WorkingSettingsStay` and `PagingAdvances`. `DeviceInv` is about one device and
what it knows of a server that only grows (`Grows`), so a step of one device
keeps it for all others (`OtherInv`), and one lemma per action is left for the
device that moves. Two of its parts carry the weight. `SearchInv`: what fits a
command and changed up to its cursor is among its candidates, and with the last
page up to the horizon, the length of the feed at the first request; it stays
true when others append, and trying a candidate removes only what does not fit,
so a search without candidates has missed nothing. `SavedInv` with `BookInv`:
the bookmarks of an address are mapped only after its extensions and under the
same key, and a command that has come to the bookmarks has the extensions mapped
under the key it works with; hence the mapping that a save follows without
looking names an object of this key. That an object's last change in a page
exists (`GreatestNatural`) is taken from the well-foundedness of the naturals.

`SyncServerRefinementProofs` proves `ServerImplementsStore`, that is
`Spec => ImplementsObjectStore`, under the same assumptions as
`SyncServerProofs`. A transaction applies its operations one by one to its own
copy; the store says at once, in terms of the request and the database before
it, what all of them do. `Applied(v, t, r, k)` is that closed form for the
first `k` operations of `r`: which revision, namespace and envelope each object
has, which rows the log has got, and that each operation was acceptable.
`AppliedNothing` and `AppliedOneMore` make it grow with a transaction without
an induction over the request, and `AppliedIsWrite` reads the store's `Write`
off it at the COMMIT. `RefInv` says that it holds, against the database that is
committed *now*, of the transaction with the write lock, and that the revision
of a row counts the changes of its object (`Counted`), as the abstract
`Revision` does.

`ExtensionSyncProofs` proves `TypeCorrect`, `ServedIsComplete`,
`BasesAreAgreed` and `LoadsKeepLocalChanges`, for any devices, archives, chunks
per archive and bounds, and any set of faults, under `ConstantAssumption` only.
That a served manifest is complete is a matter of who may delete which chunk,
and the invariant is about ownership: no chunk belongs to two versions
(`Owned`); what a device has uploaded is there and named by no manifest until
it publishes (`FreshInv`); what a device deletes is named by no manifest but a
replaced or an unconfirmed one (`SpentInv`); and two devices never upload what
the other deletes or uploads (`Apart`). `OldInv` says why the chunks of the old
version may go: they are those of the version the publication names, or of a
later one, and then the publication is refused. `SeenInv` and `LoadInv` carry a
reading to the restore and the base it leads to.

`BookmarkSyncProofs` proves `TypeCorrect`, `BaseNamesItsVersion`,
`ServerKeepsValues` and `SyncKeepsBookmarks`, for any devices, bookmarks,
edits, commands, bounds and faults, under `ConstantAssumption` only. `Kept(R,
v, w)` says that from snapshot `v` to `w` only values in `R` were lost. It
holds, with the values that some user replaced and those forgotten with a lost
file (`AllGone`), between any two versions of an object in their order
(`HistoryKept`) and between the base of a device and its profile, if that has a
`Bookmarks` file (`MappingInv`); a profile without one is in the hands of a
load at most, so that nothing is ever merged with it or uploaded from it
(`MissingInv`); and when its browser writes a new file, all that the base has
is forgotten, so that `MappingInv` holds of it at once. The lemmas on
`MergeValues` show that a merge keeps it. A device that has read, merged,
uploaded or restored knows which version its result continues (`SeenInv`,
`MergedInv`), also when others wrote meanwhile: the conditional write takes
only what continues the last version, and a sync that reads back other contents
than it wrote does not persist.

`ProfilesProofs` proves `TypeCorrect`, `ProfilesAreKept`, `ArchivesAreListed`,
`BasesAreTheirOwn` and `ListingsRepairDefault`, for any number of names up to
the ten the model has, of profiles and of archives, under `ProfilesAssumption`
only. The invariant says where profiles are: a directory holds the profile that
was created in it, an archived profile is archived once and not in its
directory, and one that was not deleted is in one of the two (`DirsInv`,
`StoredInv`, `KeptInv`); rows belong to different archives and names
(`RowsInv`); between a rename and its row the command knows which archive is
without one (`RecordingInv`, `ForgettingInv`); and the base under a name is that
of the profile there, of the one about to be recorded, or of the one that the
row of the name archives (`BaseInv`). `ReportInv` is what a listing may rely on
while no other task has moved.

`MergeBookmarksProofs` proves the five properties of `merge` for every two
profiles that edits lead to, however many, and so for trees of any depth and
width: `EditsAreKept`, `MergedPlacesKnown`, `NoSilentConflict`,
`ResumedMergeStable` and `SidesAlike`, under `SeedAssumption`,
`NewValueAssumption` and `DepthAssumption` only. Here the state is simple and
the operators are not. `MergeInv` says that every profile is one (ids in one
place each, `IsProfile`), that no node has changed its kind since the start
(`KindsKept`) and that the base is the snapshot all started from;
`ProfilesStayWhole` proves it, and TLC has checked it on the states of `merge`.
The rest is about the recursion, in four steps.

1. *The functions exist.* A recursive definition says something only if some
   function satisfies its equation. `NodeEquation`, `MergeEquation`,
   `TreesEquation` and `LevelEquation` prove that one does, from functions on
   `0..n` that agree where they overlap. The induction is over a set of numbers
   (`NatSetInduction`, from the well-foundedness of the naturals): a statement
   about all depths is that a set of depths is all of `Nat`, which needs no
   operator as a parameter of a theorem.
2. *One folder.* `MergeOfChildren`: looked up by id, the merge of two folders
   holds at each id the merge of what the three have there, each id once
   (`SiblingIdsType`, `KeptType`), and the sum of its conflicts is zero only if
   all are. This is where the code's order of reading
   (`SiblingIds`) and its map from ids to nodes disappear.
3. *Induction on the depth.* A merge of nodes is a node of that depth
   (`MergeIsTyped`); merging its result again with the same local node gives the
   same result (`MergeIsStable`), which needs that what both sides changed does
   not come out as it was in the base (`MergeProgresses`); and exchanging the
   sides counts the same conflicts (`MergeCountsAlike`).
4. *Along a path.* The properties speak of places, not of recursion.
   `Walk(nodes, path, k)` is the node at the first `k` ids of a path
   (`PathsAreWalks`). As long as both sides have the node (`JoinedDown`), or no
   conflict was counted (`QuietDown`), the merged tree has at each step the
   merge of the three (`JoinedStep`); where one side ends, the other is kept
   whole or dropped whole (`OneMerged`, `BothMerged`). `ExactAlong` and
   `EditsAlong` read the reference off that. They need that base and sides agree
   on what is a folder, which `KindsKept` gives them (`SideAgrees`).

Model-checked only. `RequestsEnd` and `Converges` are liveness under fairness,
which the prover does not do. The properties of the runs that find a violation
do not hold. `MergeBookmarks` and `BookmarkSync` are not tied together by a
theorem: that `MergeValues` decides as `MergeOptional` does for a bookmark with
one field is read off the two definitions.

## 6. Plan

The server, the two sync protocols, the merge, the restore, the sign-in and the
profiles are modelled and proved about. What would come next, in order of
importance:

1. Theorems that tie the modules together: that the conditional writes
   `ExtensionSync` and `BookmarkSync` take for granted are what `ObjectStore`
   promises of one object, and that `BookmarkSync` merges as `MergeBookmarks`
   does.
2. `ServerStart`: the socket file between two server processes, its stale check
   (`lib.rs:70`) and its removal after shutdown (`lib.rs:160`).

## 7. Not modelled

The primitives of the cryptography and the form of envelopes and recovery codes
(ideal), TLS and SSH (libraries and I/O), bearer token authentication (a
comparison without state), configuration precedence, certificate generation,
socket set-up and removal, the device identity, discovery of installations
and profiles, the user interface, and the build, packaging and container files.
Read-only handlers return the committed state in one SELECT. The modules take
the browser for closed while a command runs, which the commands check at their
start only (`main.rs:1324`).
