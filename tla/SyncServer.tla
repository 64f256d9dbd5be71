----------------------------- MODULE SyncServer -----------------------------
(***************************************************************************)
(* The request handlers of the sync server over SQLite in WAL mode.        *)
(*                                                                         *)
(* put_object, delete_object and batch run in a deferred transaction: its  *)
(* first SELECT fixes a snapshot, its first INSERT takes the database's    *)
(* one write lock, which fails at once when another transaction holds it   *)
(* or has committed since the snapshot (SQLITE_BUSY, SQLITE_BUSY_SNAPSHOT; *)
(* the handler answers database_unavailable).  register_device is a SELECT *)
(* and then an INSERT, each a transaction of its own; revoke_device is one *)
(* UPDATE.  A client that goes away makes the server drop the handler,     *)
(* which rolls its transaction back; a crash drops every handler.          *)
(***************************************************************************)
EXTENDS StoreTables, FiniteSets

CONSTANTS
  Handler,   \* request tasks that hold a connection of the pool at a time
  Request,   \* the bodies clients send: nonempty sequences of operations
  NoHandler  \* nobody holds the write lock

ASSUME RequestAssumption ==
  /\ Request \subseteq Seq(Operation)
  /\ \A r \in Request : r # << >>

ASSUME HandlerAssumption == NoHandler \notin Handler

VARIABLES
  db,      \* the committed database
  writer,  \* the handler whose transaction holds the write lock
  pc,      \* where each handler is
  ops,     \* the operations of the request a handler serves
  done,    \* how many of them its transaction has applied
  view,    \* the database as its transaction sees it
  fresh,   \* whether its snapshot is still the last commit
  asked,   \* the device id and name a registration is about
  acks     \* the writes clients were told of: <<cursor, change row>>

vars == <<db, writer, pc, ops, done, view, fresh, asked, acks>>

Idle == "idle"          \* no request
Select == "select"      \* register_device before its SELECT
Insert == "insert"      \* register_device between SELECT and INSERT
Check == "check"        \* before the SELECTs of operation done + 1
Write == "write"        \* before its INSERT
Commit == "commit"      \* every operation applied
Reply == "reply"        \* committed, the answer not yet sent

ControlPoint == {Idle, Select, Insert, Check, Write, Commit, Reply}

Next1(h) == ops[h][done[h] + 1]

Init ==
  /\ db = EmptyDatabase
  /\ writer = NoHandler
  /\ pc = [h \in Handler |-> Idle]
  /\ ops = [h \in Handler |-> << >>]
  /\ done = [h \in Handler |-> 0]
  /\ view = [h \in Handler |-> EmptyDatabase]
  /\ fresh = [h \in Handler |-> FALSE]
  /\ asked = [h \in Handler |-> << >>]
  /\ acks = {}

(* The handler ends and its transaction, if any, is rolled back. *)
Release(h) ==
  /\ pc' = [pc EXCEPT ![h] = Idle]
  /\ ops' = [ops EXCEPT ![h] = << >>]
  /\ done' = [done EXCEPT ![h] = 0]
  /\ view' = [view EXCEPT ![h] = EmptyDatabase]
  /\ fresh' = [fresh EXCEPT ![h] = FALSE]
  /\ asked' = [asked EXCEPT ![h] = << >>]
  /\ writer' = IF writer = h THEN NoHandler ELSE writer

(* A commit makes the snapshots of the others old. *)
Publish(h, new) ==
  /\ db' = new
  /\ fresh' = [g \in Handler |-> FALSE]

(***************************************************************************)
(* put_object, delete_object, batch                                        *)
(***************************************************************************)

BeginWrite(h, r) ==
  /\ pc[h] = Idle
  /\ pc' = [pc EXCEPT ![h] = Check]
  /\ ops' = [ops EXCEPT ![h] = r]
  /\ UNCHANGED <<db, writer, done, view, fresh, asked, acks>>

(* The first SELECT of the transaction takes the snapshot. *)
Seen(h) == IF done[h] = 0 THEN db ELSE view[h]

CheckOperation(h) ==
  /\ pc[h] = Check
  /\ OperationAllowed(Seen(h), Next1(h))
  /\ pc' = [pc EXCEPT ![h] = Write]
  /\ view' = [view EXCEPT ![h] = Seen(h)]
  /\ fresh' = [fresh EXCEPT ![h] = done[h] = 0 \/ @]
  /\ UNCHANGED <<db, writer, ops, done, asked, acks>>

(* Wrong: a batch that fails in the middle keeps what it has written. *)
RejectOperationKeepsPrefix(h) ==
  /\ pc[h] = Check
  /\ ~OperationAllowed(Seen(h), Next1(h))
  /\ IF done[h] > 0
     THEN /\ pc' = [pc EXCEPT ![h] = Commit]
          /\ UNCHANGED <<writer, ops, done, view, fresh, asked>>
     ELSE Release(h)
  /\ UNCHANGED <<db, acks>>

(* Any failed check ends the handler with its error, and the transaction. *)
RejectOperation(h) ==
  /\ pc[h] = Check
  /\ ~OperationAllowed(Seen(h), Next1(h))
  /\ Release(h)
  /\ UNCHANGED <<db, acks>>

(* May the transaction of h write: it holds the lock or can take it. *)
LockAvailable(h) == writer = h \/ (writer = NoHandler /\ fresh[h])

(* Wrong: the SELECTs are not in the transaction of the INSERT. *)
WriteOperationOutside(h) ==
  /\ pc[h] = Write
  /\ writer \in {h, NoHandler}
  /\ Len(Seen(h).changes) < MaxCursor
  /\ writer' = h
  /\ view' = [view EXCEPT ![h] = ApplyOperation(Seen(h), Next1(h))]
  /\ done' = [done EXCEPT ![h] = @ + 1]
  /\ pc' = [pc EXCEPT ![h] = IF done[h] + 1 = Len(ops[h]) THEN Commit ELSE Check]
  /\ UNCHANGED <<db, ops, fresh, asked, acks>>

WriteOperation(h) ==
  /\ pc[h] = Write
  /\ LockAvailable(h)
  /\ Len(view[h].changes) < MaxCursor
  /\ writer' = h
  /\ view' = [view EXCEPT ![h] = ApplyOperation(@, Next1(h))]
  /\ done' = [done EXCEPT ![h] = @ + 1]
  /\ pc' = [pc EXCEPT ![h] = IF done[h] + 1 = Len(ops[h]) THEN Commit ELSE Check]
  /\ UNCHANGED <<db, ops, fresh, asked, acks>>

(* Wrong: the transaction waits for the lock it cannot get. *)
WriteFailsWaits(h) ==
  /\ pc[h] = Write
  /\ Len(view[h].changes) >= MaxCursor
  /\ Release(h)
  /\ UNCHANGED <<db, acks>>

(* SQLITE_BUSY, SQLITE_BUSY_SNAPSHOT or SQLITE_FULL. *)
WriteFails(h) ==
  /\ pc[h] = Write
  /\ ~LockAvailable(h) \/ Len(view[h].changes) >= MaxCursor
  /\ Release(h)
  /\ UNCHANGED <<db, acks>>

(* Wrong: the transaction ends without its commit(), and is rolled back. *)
CommitWriteForgotten(h) ==
  /\ pc[h] = Commit
  /\ writer' = NoHandler
  /\ pc' = [pc EXCEPT ![h] = Reply]
  /\ UNCHANGED <<db, ops, done, view, fresh, asked, acks>>

CommitWrite(h) ==
  /\ pc[h] = Commit
  /\ Publish(h, view[h])
  /\ writer' = NoHandler
  /\ pc' = [pc EXCEPT ![h] = Reply]
  /\ UNCHANGED <<ops, done, view, asked, acks>>

(* The objects the answer carries are those the transaction wrote. *)
Answer(h) ==
  LET n == Len(view[h].changes)
  IN  {<<c, view[h].changes[c]>> : c \in (n - done[h] + 1) .. n}

SendReply(h) ==
  /\ pc[h] = Reply
  /\ acks' = acks \cup Answer(h)
  /\ Release(h)
  /\ UNCHANGED db

(***************************************************************************)
(* register_device, revoke_device                                          *)
(***************************************************************************)

BeginRegister(h, d, n) ==
  /\ pc[h] = Idle
  /\ pc' = [pc EXCEPT ![h] = Select]
  /\ asked' = [asked EXCEPT ![h] = <<d, n>>]
  /\ UNCHANGED <<db, writer, ops, done, view, fresh, acks>>

(* An existing row is answered from, as the device itself or as           *)
(* device_exists; neither writes.                                          *)
SelectDevice(h) ==
  /\ pc[h] = Select
  /\ IF asked[h][1] \in DOMAIN db.devices
     THEN Release(h)
     ELSE /\ pc' = [pc EXCEPT ![h] = Insert]
          /\ UNCHANGED <<writer, ops, done, view, fresh, asked>>
  /\ UNCHANGED <<db, acks>>

(* Wrong: INSERT OR REPLACE. *)
InsertRowReplaces(h) ==
  /\ pc[h] = Insert
  /\ writer = NoHandler
  /\ db' = InsertDevice(db, asked[h][1], asked[h][2])
  /\ pc' = [pc EXCEPT ![h] = Idle]
  /\ asked' = [asked EXCEPT ![h] = << >>]
  /\ fresh' = [g \in Handler |-> FALSE]
  /\ UNCHANGED <<writer, ops, done, view, acks>>

InsertRow(h) ==
  /\ pc[h] = Insert
  /\ writer = NoHandler
  /\ asked[h][1] \notin DOMAIN db.devices
  /\ db' = InsertDevice(db, asked[h][1], asked[h][2])
  /\ pc' = [pc EXCEPT ![h] = Idle]
  /\ asked' = [asked EXCEPT ![h] = << >>]
  /\ fresh' = [g \in Handler |-> FALSE]
  /\ UNCHANGED <<writer, ops, done, view, acks>>

(* The primary key refuses a second row; a lock held for longer than the   *)
(* busy timeout refuses any.                                               *)
InsertFails(h) ==
  /\ pc[h] = Insert
  /\ asked[h][1] \in DOMAIN db.devices \/ writer # NoHandler
  /\ Release(h)
  /\ UNCHANGED <<db, acks>>

RevokeDevice(d) ==
  /\ writer = NoHandler
  /\ EnsureActiveDevice(db, d)
  /\ db' = SetRevoked(db, d)
  /\ fresh' = [g \in Handler |-> FALSE]
  /\ UNCHANGED <<writer, pc, ops, done, view, asked, acks>>

(***************************************************************************)
(* Failures                                                                *)
(***************************************************************************)

(* The client disconnects, or a statement fails: nothing is answered. *)
DropHandler(h) ==
  /\ pc[h] # Idle
  /\ Release(h)
  /\ UNCHANGED <<db, acks>>

(* The process dies; what was committed is on disk. *)
Crash ==
  /\ \E h \in Handler : pc[h] # Idle
  /\ writer' = NoHandler
  /\ pc' = [h \in Handler |-> Idle]
  /\ ops' = [h \in Handler |-> << >>]
  /\ done' = [h \in Handler |-> 0]
  /\ view' = [h \in Handler |-> EmptyDatabase]
  /\ fresh' = [h \in Handler |-> FALSE]
  /\ asked' = [h \in Handler |-> << >>]
  /\ UNCHANGED <<db, acks>>

HandlerStep(h) ==
  \/ CheckOperation(h)
  \/ RejectOperation(h)
  \/ WriteOperation(h)
  \/ WriteFails(h)
  \/ CommitWrite(h)
  \/ SendReply(h)
  \/ SelectDevice(h)
  \/ InsertRow(h)
  \/ InsertFails(h)

Next ==
  \/ \E h \in Handler, r \in Request : BeginWrite(h, r)
  \/ \E h \in Handler, d \in Device, n \in Name : BeginRegister(h, d, n)
  \/ \E h \in Handler : HandlerStep(h)
  \/ \E h \in Handler : DropHandler(h)
  \/ \E d \in Device : RevokeDevice(d)
  \/ Crash

Spec == Init /\ [][Next]_vars

(* A handler that can go on does: the runtime polls every task.  Dropping   *)
(* a handler, a crash and what clients send are not obligations.           *)
FairSpec == Spec /\ \A h \in Handler : WF_vars(HandlerStep(h))

-----------------------------------------------------------------------------
(***************************************************************************)
(* Properties                                                              *)
(***************************************************************************)

(* Every variable has its type: the rows of api.rs's statements fit the    *)
(* tables of the migrations.                                               *)
TypeOK ==
  /\ IsDatabase(db)
  /\ writer \in Handler \cup {NoHandler}
  /\ pc \in [Handler -> ControlPoint]
  /\ ops \in [Handler -> Request \cup {<< >>}]
  /\ done \in [Handler -> Nat]
  /\ DOMAIN view = Handler /\ \A h \in Handler : IsDatabase(view[h])
  /\ fresh \in [Handler -> BOOLEAN]
  /\ asked \in [Handler -> (Device \X Name) \cup {<< >>}]
  /\ acks \subseteq (Nat \X ChangeRow)

(* The change log of a database, per object. *)
ChangesIn(t, o) == {i \in DOMAIN t.changes : t.changes[i].object = o}

(* The row of an object is its last change, and an object without a row    *)
(* has no change: get_object and changes tell the same story.              *)
RowIsLastChange(t) ==
  /\ \A o \in DOMAIN t.objects :
       LET row == t.objects[o] IN
       /\ row.cursor \in ChangesIn(t, o)
       /\ \A i \in ChangesIn(t, o) : i <= row.cursor
       /\ t.changes[row.cursor] =
            [object |-> o, namespace |-> row.namespace, revision |-> row.revision,
             device |-> row.device, deleted |-> row.deleted]
       /\ row.deleted <=> row.envelope = NoEnvelope
  /\ \A i \in DOMAIN t.changes : t.changes[i].object \in DOMAIN t.objects

(* Between two changes of an object that follow each other the revision    *)
(* grows by one, and the first has revision 1: no two writers were ever     *)
(* given the same revision (put_object_tx, delete_object_tx).              *)
RevisionsConsecutive(t) ==
  \A i \in DOMAIN t.changes :
    LET o == t.changes[i].object
        before == {j \in ChangesIn(t, o) : j < i}
    IN  IF before = {}
        THEN t.changes[i].revision = 1 /\ ~t.changes[i].deleted
        ELSE \E j \in before :
               /\ \A k \in before : k <= j
               /\ t.changes[i].revision = t.changes[j].revision + 1

RowsMatchLog == RowIsLastChange(db)

RevisionHistory == RevisionsConsecutive(db)

(* A write a client was told of is in the log at the cursor it was told,   *)
(* with its revision, whatever ran, failed or crashed since.               *)
AckedWritesAreLogged ==
  \A a \in acks : a[1] \in DOMAIN db.changes /\ db.changes[a[1]] = a[2]

(* The log only grows at its end; no device row is lost, renamed or        *)
(* reinstated; no object row is lost (deletes retain tombstones).          *)
HistoryIsKept ==
  [][/\ \A i \in DOMAIN db.changes :
          i \in DOMAIN db'.changes /\ db'.changes[i] = db.changes[i]
     /\ \A d \in DOMAIN db.devices :
          /\ d \in DOMAIN db'.devices
          /\ db'.devices[d].name = db.devices[d].name
          /\ db.devices[d].revoked => db'.devices[d].revoked
     /\ DOMAIN db.objects \subseteq DOMAIN db'.objects]_vars

(* No change by a device enters the log once its revocation is committed,   *)
(* also when the transaction read the device row before the revocation.    *)
RevokedDevicesDoNotWrite ==
  [][\A i \in DOMAIN db'.changes \ DOMAIN db.changes :
       EnsureActiveDevice(db, db'.changes[i].device)]_vars

(* Every request takes effect at one instant, as a whole and against the    *)
(* revisions of that instant.                                              *)
Store == INSTANCE ObjectStore WITH
  devices <- db.devices,
  feed    <- db.changes,
  content <- [o \in DOMAIN db.objects |-> db.objects[o].envelope]

ImplementsObjectStore == Store!ASpec

(* A handler that began ends: transactions that meet at the write lock do   *)
(* not wait for each other.                                                *)
RequestsEnd == \A h \in Handler : pc[h] # Idle ~> pc[h] = Idle
=============================================================================
