------------------------------- MODULE SignIn -------------------------------
(***************************************************************************)
(* Sign-in, recovery keys and the discovery of what other devices saved:   *)
(* connect_https, connect_ssh, import_recovery_code and the commands that  *)
(* use the session, as far as they decide which object on the server a     *)
(* device works on and under which key.                                    *)
(*                                                                         *)
(* A command holds profile_operations from its first step to its last, so  *)
(* a device runs one at a time; between any two of its requests another    *)
(* device may act.  What a sync does with contents is in BookmarkSync and  *)
(* ExtensionSync; here it reads, then leaves alone or replaces.            *)
(***************************************************************************)
EXTENDS ChangeFeed, FiniteSets

CONSTANTS
  Device,
  Shared,      \* a master key whose recovery code every user has
  Endpoint,    \* the server's addresses: local state is kept for each
  None,
  Preloaded,   \* the objects on the server at the start
  PageLimit,   \* changes in a page: 100 in the code
  MaxCommands, \* bound: sign-ins and commands of all users
  MaxImports   \* bound: recovery codes imported

Kind == {"ext", "book"}   \* extension manifest and bookmark snapshot
Key == Device \cup {Shared} \* a device generates one key, named after it
Profile == {"mine", "other"}

ObjectType == [kind : Kind, profile : Profile, key : Key, horizon : Nat]

ASSUME ConstantAssumption ==
  /\ Shared \notin Device
  /\ None \notin Nat \cup Key \cup {"valid", "refused"} \cup [object : Nat, revision : Nat]
                     \cup [object : Nat, revision : Nat, base : Key]
  /\ Preloaded \in Seq([kind : Kind, profile : Profile, key : {Shared}, horizon : {0}])
  /\ PageLimit \in Nat \ {0}
  /\ MaxCommands \in Nat
  /\ MaxImports \in Nat

VARIABLES
  objects,   \* server: by identifier, and the key of the last version;
             \* horizon: how much of the feed there was when its creator
             \* began to look for it, 0 when it did not look
  feed,      \* server: the object of every change
  keyring,   \* the master key in the device's secret store
  settings,  \* the connection form there: None, "valid" or "refused"
  saved,     \* the mapping and base in the local state, by endpoint and kind
  session,   \* the key and endpoint the app is signed in with
  pc,        \* what the running command does next
  run,       \* its locals
  made,      \* history: the devices that generated a key
  dropped,   \* history: keys that an import took out of a secret store
  commands, imports \* the bounded counters

server == <<objects, feed>>
disk == <<keyring, settings, saved>>
history == <<made, dropped, commands, imports>>
vars == <<server, disk, session, pc, run, history>>

ObjectId == 1 .. Len(objects)

Revision(o) == Cardinality({i \in DOMAIN feed : feed[i] = o})

(* The locals of a command that starts, or has come to its next kind. *)
Begun(command, endpoint, valid, key, kind) ==
  [command |-> command, endpoint |-> endpoint, valid |-> valid, key |-> key, kind |-> kind,
   transfer |-> "none", after |-> 0, candidates |-> NoCandidates, horizon |-> 0, remote |-> None]

NoRun == Begun("none", None, FALSE, None, "ext")

Init ==
  /\ objects = Preloaded
  /\ feed = [i \in DOMAIN Preloaded |-> i]
  /\ keyring \in [Device -> {None, Shared}]
  /\ settings = [d \in Device |-> None]
  /\ saved = [d \in Device |-> [e \in Endpoint |-> [k \in Kind |-> None]]]
  /\ session = [d \in Device |-> None]
  /\ pc = [d \in Device |-> "idle"]
  /\ run = [d \in Device |-> NoRun]
  /\ made = {}
  /\ dropped = {}
  /\ commands = 0
  /\ imports = 0

Goto(d, step) == pc' = [pc EXCEPT ![d] = step]

(* The command ends, with success or an error; the lock is released. *)
End(d) ==
  /\ Goto(d, "idle")
  /\ run' = [run EXCEPT ![d] = NoRun]

Mapping(d) == saved[d][run[d].endpoint][run[d].kind]

(* An object decrypts under the key it was encrypted with, or fails its    *)
(* authentication; a base likewise.                                        *)
Decrypts(d, o) == objects[o].key = run[d].key

BaseDecrypts(d, entry) == entry.base = run[d].key

(***************************************************************************)
(* Signing in                                                              *)
(***************************************************************************)

(* connect_https, connect_ssh: the session is gone before anything is      *)
(* checked.                                                                *)
StartConnect(d, e, valid) ==
  /\ pc[d] = "idle"
  /\ commands < MaxCommands
  /\ commands' = commands + 1
  /\ session' = [session EXCEPT ![d] = None]
  /\ run' = [run EXCEPT ![d] = Begun("connect", e, valid, None, "ext")]
  /\ Goto(d, "key")
  /\ UNCHANGED <<server, disk, made, dropped, imports>>

(* Wrong: the new key is used and never stored. *)
LoadOrCreateMasterKeyUnstored(d) ==
  /\ pc[d] = "key"
  /\ \/ /\ keyring[d] # None
        /\ run' = [run EXCEPT ![d].key = keyring[d]]
        /\ UNCHANGED <<keyring, made>>
     \/ /\ keyring[d] = None
        /\ made' = made \cup {d}
        /\ run' = [run EXCEPT ![d].key = d]
        /\ UNCHANGED keyring
  /\ Goto(d, "authenticate")
  /\ UNCHANGED <<server, settings, saved, session, dropped, commands, imports>>

LoadOrCreateMasterKey(d) ==
  /\ pc[d] = "key"
  /\ \/ /\ keyring[d] # None
        /\ run' = [run EXCEPT ![d].key = keyring[d]]
        /\ UNCHANGED <<keyring, made>>
     \/ /\ keyring[d] = None
        /\ made' = made \cup {d}
        /\ keyring' = [keyring EXCEPT ![d] = d]
        /\ run' = [run EXCEPT ![d].key = d]
  /\ Goto(d, "authenticate")
  /\ UNCHANGED <<server, settings, saved, session, dropped, commands, imports>>

(* Wrong: any answer will do. *)
AuthenticateAnyway(d) ==
  /\ pc[d] = "authenticate"
  /\ Goto(d, "settings")
  /\ UNCHANGED <<server, disk, session, run, history>>

(* The version is negotiated, the status read and the device registered;   *)
(* a device that exists already is as good.                                *)
Accepted(d) == run[d].valid

Authenticate(d) ==
  /\ pc[d] = "authenticate"
  /\ \/ Accepted(d) /\ Goto(d, "settings") /\ UNCHANGED run
     \/ ~Accepted(d) /\ End(d)
  /\ UNCHANGED <<server, disk, session, history>>

(* The command has succeeded; a sign-in ends with a session. *)
Finish(d) ==
  /\ session' = IF run[d].command = "connect"
                THEN [session EXCEPT ![d] = [key |-> run[d].key, endpoint |-> run[d].endpoint]]
                ELSE session
  /\ End(d)

(* forced_default_sync: a sync, when this profile is the default one. *)
ForcedDefaultSync(d) ==
  \/ Goto(d, "locate") /\ UNCHANGED <<run, session>>
  \/ Finish(d)

(* persist_connection_settings, then the endpoint's row in the local state. *)
PersistSettings(d) ==
  /\ pc[d] = "settings"
  /\ settings' = [settings EXCEPT ![d] = IF run[d].valid THEN "valid" ELSE "refused"]
  /\ ForcedDefaultSync(d)
  /\ UNCHANGED <<server, keyring, saved, history>>

(***************************************************************************)
(* The commands of a session                                               *)
(***************************************************************************)

(* Wrong: a save replaces the bookmarks without the extensions before them. *)
StartCommandBookmarksOnly(d, c) ==
  /\ pc[d] = "idle"
  /\ session[d] # None
  /\ commands < MaxCommands
  /\ commands' = commands + 1
  /\ run' = [run EXCEPT ![d] = Begun(c, session[d].endpoint, FALSE, session[d].key,
                                     IF c = "save" THEN "book" ELSE "ext")]
  /\ Goto(d, "locate")
  /\ UNCHANGED <<server, disk, session, made, dropped, imports>>

StartCommand(d, c) ==
  /\ pc[d] = "idle"
  /\ session[d] # None
  /\ commands < MaxCommands
  /\ commands' = commands + 1
  /\ run' = [run EXCEPT ![d] = Begun(c, session[d].endpoint, FALSE, session[d].key, "ext")]
  /\ Goto(d, "locate")
  /\ UNCHANGED <<server, disk, session, made, dropped, imports>>

(* A save writes the bookmarks to what the mapping names, without looking. *)
Blind(d) == run[d].command = "save" /\ run[d].kind = "book"

(* A load takes the bookmarks from where the mapping says, or not at all. *)
Unsaved(d) == run[d].command = "load" /\ run[d].kind = "book" /\ Mapping(d) = None

(* Wrong: save_mapping alone, which keeps no base. *)
RecordMapping(d, version) ==
  /\ saved' = [saved EXCEPT ![d][run[d].endpoint][run[d].kind] =
                  [object |-> version.object, revision |-> version.revision, base |-> None]]
  /\ \/ /\ run[d].kind = "ext"
        /\ run' = [run EXCEPT ![d] = Begun(run[d].command, run[d].endpoint, FALSE, run[d].key,
                                           "book")]
        /\ Goto(d, "locate")
        /\ UNCHANGED session
     \/ /\ run[d].kind = "book"
        /\ Finish(d)

(* persist_extension_sync_state, persist_sync_state: the mapping and the   *)
(* base encrypted under the session's key, in one transaction; after the   *)
(* extensions come the bookmarks.                                          *)
Record(d, version) ==
  /\ saved' = [saved EXCEPT ![d][run[d].endpoint][run[d].kind] =
                  [object |-> version.object, revision |-> version.revision,
                   base |-> run[d].key]]
  /\ \/ /\ run[d].kind = "ext"
        /\ run' = [run EXCEPT ![d] = Begun(run[d].command, run[d].endpoint, FALSE, run[d].key,
                                           "book")]
        /\ Goto(d, "locate")
        /\ UNCHANGED session
     \/ /\ run[d].kind = "book"
        /\ Finish(d)

ToPut(d, remote, horizon) ==
  /\ run' = [run EXCEPT ![d] = [@ EXCEPT !.remote = remote, !.horizon = horizon,
                                         !.after = 0, !.candidates = NoCandidates]]
  /\ Goto(d, "put")
  /\ UNCHANGED <<saved, session>>

(* A sync that is to upload or to restore the extensions goes on like a    *)
(* save or a load of them, which look for their manifest once more.        *)
Transfer(d, direction) ==
  /\ run' = [run EXCEPT ![d] = [@ EXCEPT !.transfer = direction, !.horizon = 0, !.after = 0,
                                         !.candidates = NoCandidates]]
  /\ Goto(d, "locate")
  /\ UNCHANGED <<saved, session>>

Saves(d) == "save" \in {run[d].command, run[d].transfer}

Loads(d) == "load" \in {run[d].command, run[d].transfer}

(* persist without a transfer when both sides agree, which needs no base;  *)
(* an upload of the extensions needs one.  Their conflict is one of the    *)
(* errors of FailCommand.                                                  *)
Reconcile(d, remote) ==
  \/ Record(d, remote)
  \/ run[d].kind = "book" /\ ToPut(d, remote, 0)
  \/ run[d].kind = "ext" /\ Mapping(d) # None /\ Transfer(d, "save")
  \/ run[d].kind = "ext" /\ Transfer(d, "load")

BaseOpens(d) == \A entry \in {Mapping(d)} \ {None} : BaseDecrypts(d, entry)

(* With a remote copy: a save replaces it, a load takes it, a sync opens   *)
(* its base and compares.                                                  *)
Proceed(d, remote) ==
  \/ Saves(d) /\ ToPut(d, remote, 0)
  \/ Loads(d) /\ Record(d, remote)
  \/ ~Saves(d) /\ ~Loads(d) /\ BaseOpens(d) /\ Reconcile(d, remote)
  \/ ~Saves(d) /\ ~Loads(d) /\ ~BaseOpens(d) /\ End(d) /\ UNCHANGED <<saved, session>>

Found(o) == [object |-> o, revision |-> Revision(o)]

(* Wrong: a mapped object that fails authentication is used all the same. *)
FetchMappedUnchecked(d) ==
  /\ pc[d] = "locate"
  /\ ~Blind(d)
  /\ Mapping(d) # None
  /\ Proceed(d, Found(Mapping(d).object))
  /\ UNCHANGED <<server, keyring, settings, history>>

(* load_bookmarks, load_extension_manifest of the mapped object: one that  *)
(* fails authentication ends the command.                                  *)
FetchMapped(d) ==
  /\ pc[d] = "locate"
  /\ ~Blind(d)
  /\ Mapping(d) # None
  /\ \/ /\ Decrypts(d, Mapping(d).object)
        /\ Proceed(d, Found(Mapping(d).object))
     \/ /\ ~Decrypts(d, Mapping(d).object)
        /\ End(d)
        /\ UNCHANGED <<saved, session>>
  /\ UNCHANGED <<server, keyring, settings, history>>

NothingSaved(d) ==
  /\ pc[d] = "locate"
  /\ Unsaved(d)
  /\ End(d)
  /\ UNCHANGED <<server, disk, session, history>>

Discovers(d) ==
  \/ pc[d] = "locate" /\ Mapping(d) = None /\ ~Blind(d) /\ ~Unsaved(d)
  \/ pc[d] = "page"

Wanted(d) == {o \in ObjectId : objects[o].kind = run[d].kind}

(* Wrong: the next request asks for the same page. *)
ReadPageAgain(d) ==
  /\ Discovers(d)
  /\ LET page == Page(feed, run[d].after, PageLimit)
     IN  /\ run' = [run EXCEPT
                      ![d].candidates = Collect(@, feed, page.cursors, Wanted(d)),
                      ![d].horizon = IF pc[d] = "locate" THEN Len(feed) ELSE @]
         /\ Goto(d, IF page.more THEN "page" ELSE "candidate")
  /\ UNCHANGED <<server, disk, session, history>>

(* One page of the discovery.  The cursor advances on every page that has  *)
(* more after it, so the client's check that it did never fails.           *)
ReadPage(d) ==
  /\ Discovers(d)
  /\ LET page == Page(feed, run[d].after, PageLimit)
     IN  /\ run' = [run EXCEPT
                      ![d].candidates = Collect(@, feed, page.cursors, Wanted(d)),
                      ![d].horizon = IF pc[d] = "locate" THEN Len(feed) ELSE @,
                      ![d].after = IF page.more THEN page.next ELSE 0]
         /\ Goto(d, IF page.more THEN "page" ELSE "candidate")
  /\ UNCHANGED <<server, disk, session, history>>

(* The newest candidate is read: one that this key cannot open, or of      *)
(* another profile, is passed over.                                        *)
TryCandidate(d) ==
  /\ pc[d] = "candidate"
  /\ \E o \in DOMAIN run[d].candidates :
       /\ IsNewest(run[d].candidates, o)
       /\ \/ /\ Decrypts(d, o) /\ objects[o].profile = "mine"
             /\ Proceed(d, Found(o))
          \/ /\ ~Decrypts(d, o) \/ objects[o].profile # "mine"
             /\ run' = [run EXCEPT ![d].candidates = Without(@, o)]
             /\ UNCHANGED <<pc, saved, session>>
  /\ UNCHANGED <<server, keyring, settings, history>>

(* Discovery found nothing: a load has nothing to take, a save or a sync   *)
(* creates the copy.                                                       *)
NothingFound(d) ==
  /\ pc[d] = "candidate"
  /\ run[d].candidates = NoCandidates
  /\ \/ Loads(d) /\ End(d) /\ UNCHANGED <<saved, session>>
     \/ ~Loads(d) /\ ToPut(d, None, run[d].horizon)
  /\ UNCHANGED <<server, keyring, settings, history>>

Create(d) ==
  /\ objects' = Append(objects, [kind |-> run[d].kind, profile |-> "mine", key |-> run[d].key,
                                 horizon |-> run[d].horizon])
  /\ feed' = Append(feed, Len(objects'))
  /\ run' = [run EXCEPT ![d].remote = [object |-> Len(objects'), revision |-> 1]]
  /\ Goto(d, "verify")

(* The next revision, when the one that was read is still the current one. *)
Replace(d, version) ==
  \/ /\ version.revision = Revision(version.object)
     /\ objects' = [objects EXCEPT ![version.object].key = run[d].key]
     /\ feed' = Append(feed, version.object)
     /\ run' = [run EXCEPT ![d].remote = [object |-> version.object,
                                          revision |-> version.revision + 1]]
     /\ Goto(d, "verify")
  \/ /\ version.revision # Revision(version.object)
     /\ End(d)
     /\ UNCHANGED server

(* upload's PUT, of what was decided or of what a blind save takes from the *)
(* mapping.                                                                *)
Put(d) ==
  /\ \/ pc[d] = "put" /\ run[d].remote = None /\ Create(d)
     \/ pc[d] = "put" /\ run[d].remote # None /\ Replace(d, run[d].remote)
     \/ pc[d] = "locate" /\ Blind(d) /\ Mapping(d) = None /\ Create(d)
     \/ pc[d] = "locate" /\ Blind(d) /\ Mapping(d) # None /\ Replace(d, Mapping(d))
  /\ UNCHANGED <<disk, session, history>>

(* upload's read back compares contents: a manifest another device wrote   *)
(* meanwhile names other chunks, its bookmarks may be the same.            *)
Verify(d) ==
  /\ pc[d] = "verify"
  /\ LET o == run[d].remote.object
         replaced == run[d].remote.revision # Revision(o)
     IN  \/ /\ replaced => run[d].kind = "book" /\ Decrypts(d, o)
            /\ Record(d, Found(o))
         \/ /\ replaced
            /\ End(d)
            /\ UNCHANGED <<saved, session>>
  /\ UNCHANGED <<server, keyring, settings, history>>

(***************************************************************************)
(* Keys, errors and restarts                                               *)
(***************************************************************************)

(* Wrong: the session of the old key goes on. *)
ImportKeepsSession(d, k) ==
  /\ pc[d] = "idle"
  /\ imports < MaxImports
  /\ imports' = imports + 1
  /\ keyring' = [keyring EXCEPT ![d] = k]
  /\ dropped' = dropped \cup ({keyring[d]} \ {None, k})
  /\ UNCHANGED <<server, settings, saved, session, pc, run, made, commands>>

(* import_recovery_code with a code that somebody has. *)
ImportRecoveryCode(d, k) ==
  /\ pc[d] = "idle"
  /\ imports < MaxImports
  /\ imports' = imports + 1
  /\ keyring' = [keyring EXCEPT ![d] = k]
  /\ dropped' = dropped \cup ({keyring[d]} \ {None, k})
  /\ session' = [session EXCEPT ![d] = None]
  /\ UNCHANGED <<server, settings, saved, pc, run, made, commands>>

(* Any step of a command may fail, a request after it took effect; Helium  *)
(* may be open, a file unreadable, the extensions in conflict.             *)
FailCommand(d) ==
  /\ pc[d] # "idle"
  /\ End(d)
  /\ UNCHANGED <<server, disk, session, history>>

(* The app is closed or dies: what is on disk and on the server remains. *)
Quit(d) ==
  /\ pc[d] # "idle" \/ session[d] # None
  /\ session' = [session EXCEPT ![d] = None]
  /\ End(d)
  /\ UNCHANGED <<server, disk, history>>

CommandStep(d) ==
  \/ LoadOrCreateMasterKey(d)
  \/ Authenticate(d)
  \/ PersistSettings(d)
  \/ FetchMapped(d)
  \/ NothingSaved(d)
  \/ ReadPage(d)
  \/ TryCandidate(d)
  \/ NothingFound(d)
  \/ Put(d)
  \/ Verify(d)

Next ==
  \E d \in Device :
    \/ \E e \in Endpoint, valid \in BOOLEAN : StartConnect(d, e, valid)
    \/ \E c \in {"sync", "save", "load"} : StartCommand(d, c)
    \/ \E k \in made \cup {Shared} : ImportRecoveryCode(d, k)
    \/ CommandStep(d)
    \/ FailCommand(d)
    \/ Quit(d)

Spec == Init /\ [][Next]_vars

-----------------------------------------------------------------------------
(***************************************************************************)
(* Properties                                                              *)
(***************************************************************************)

Version == [object : Nat, revision : Nat]

Step ==
  {"idle", "key", "authenticate", "settings", "locate", "page", "candidate", "put", "verify"}

(* The locals of a command; a candidate is an object and the cursor of a   *)
(* change of it.                                                           *)
IsRun(r) ==
  /\ r \in [command : {"none", "connect", "sync", "save", "load"},
            endpoint : Endpoint \cup {None}, valid : BOOLEAN, key : Key \cup {None},
            kind : Kind, transfer : {"none", "save", "load"}, after : Nat, candidates : {r.candidates},
            horizon : Nat, remote : Version \cup {None}]
  /\ DOMAIN r.candidates \subseteq ObjectId
  /\ r.candidates \in [DOMAIN r.candidates -> Nat]

(* Every variable has its type. *)
TypeOK ==
  /\ objects \in Seq(ObjectType)
  /\ feed \in Seq(ObjectId)
  /\ keyring \in [Device -> Key \cup {None}]
  /\ settings \in [Device -> {None, "valid", "refused"}]
  /\ saved \in [Device -> [Endpoint -> [Kind ->
                 [object : ObjectId, revision : Nat, base : Key] \cup {None}]]]
  /\ session \in [Device -> [key : Key, endpoint : Endpoint] \cup {None}]
  /\ pc \in [Device -> Step]
  /\ DOMAIN run = Device /\ \A d \in Device : IsRun(run[d])
  /\ made \subseteq Device
  /\ dropped \subseteq Key
  /\ commands \in Nat
  /\ imports \in Nat

Alike(o, p) ==
  /\ objects[o].kind = objects[p].kind
  /\ objects[o].profile = objects[p].profile
  /\ objects[o].key = objects[p].key

(* A device creates a copy only when the feed had none under its key when  *)
(* it began to look: whatever pages the feed came in, whatever other devices  *)
(* wrote meanwhile and wherever an earlier command stopped, discovery      *)
(* misses nothing (discover_bookmarks, discover_extension_bundle).  Only   *)
(* two first syncs at once, or a save without one, make a second copy.     *)
CopiedOnlyWhenAbsent ==
  \A o, p \in ObjectId :
    o < p /\ Alike(o, p) => \A i \in 1 .. objects[p].horizon : feed[i] # o

(* No command replaces what was encrypted under another recovery key, not  *)
(* even save_profile, which writes the bookmarks without reading them.     *)
ObjectsKeepTheirKey ==
  [][\A o \in ObjectId : objects'[o].key = objects[o].key]_vars

(* The base of a mapping opens under the key that opens the object it      *)
(* names: "Stored sync base" errors cannot follow a read that succeeded    *)
(* (persist_sync_state, open_sync_base).                                   *)
BaseOpensWithItsObject ==
  \A d \in Device, e \in Endpoint, k \in Kind :
    LET entry == saved[d][e][k]
    IN  entry # None => /\ objects[entry.object].key = entry.base
                        /\ objects[entry.object].kind = k
                        /\ objects[entry.object].profile = "mine"

(* Who is signed in works under the key that is in the secret store: what  *)
(* reveal_recovery_code shows opens what the session writes, and a restart *)
(* or an import never leaves another key at work.                          *)
SessionKeyIsStored ==
  \A d \in Device : session[d] # None => session[d].key = keyring[d]

(* A key that something on the server needs is in somebody's secret store, *)
(* unless an import has taken it out (load_or_create_master_key).          *)
NeededKeysAreStored ==
  \A o \in ObjectId :
    objects[o].key \in {Shared} \cup dropped \cup {keyring[d] : d \in Device}

(* Invalid attempts do not replace the last working settings (connect). *)
SettingsWork == \A d \in Device : settings[d] # "refused"

(* While there are more pages each starts after the one before, so that a   *)
(* discovery comes to the end of the feed as soon as others stop writing,   *)
(* and "server change cursor did not advance" is never reported.           *)
CursorAdvances ==
  [][\A d \in Device :
       run'[d] # run[d] /\ pc'[d] = "page" =>
         run[d].after < run'[d].after /\ run'[d].after < Len(feed)]_vars
=============================================================================
