---------------------------- MODULE StoreTables ----------------------------
(***************************************************************************)
(* The three tables of the sync server's database (devices, objects,       *)
(* changes) and what one write operation reads and writes in them.         *)
(*                                                                         *)
(* A table is a function on the keys of its rows; the change log is the    *)
(* sequence of its rows, so that the AUTOINCREMENT cursor of a row is its  *)
(* index: no row is ever deleted, and a rolled back insert gives its       *)
(* cursor back.  Timestamps carry no decision and are left out.            *)
(***************************************************************************)
EXTENDS Naturals, Sequences

CONSTANTS
  Device,       \* device identifiers
  Name,         \* device names
  Object,       \* object identifiers
  Namespace,    \* object namespaces
  Envelope,     \* encrypted envelopes that pass validate_put
  Malformed,    \* an envelope or namespace that validate_put refuses
  NoEnvelope,   \* the NULL envelope of a tombstone
  NoBase,       \* the absent base_revision of a creation
  MaxRevision,  \* the largest storable revision: 2^63 - 1 in the code
  MaxCursor     \* the largest AUTOINCREMENT row id: 2^63 - 1 in SQLite

ASSUME SentinelAssumption ==
  /\ NoBase \notin Nat
  /\ Malformed \notin Envelope
  /\ NoEnvelope \notin Envelope

ASSUME BoundAssumption ==
  /\ MaxRevision \in Nat \ {0}
  /\ MaxCursor \in Nat \ {0}

DeviceRow == [name : Name, revoked : BOOLEAN]

(* What the revision columns hold: positive integers of 64 bits. *)
StoredRevision == 1 .. MaxRevision

ObjectRow ==
  [namespace : Namespace, revision : StoredRevision, cursor : Nat,
   device : Device, deleted : BOOLEAN, envelope : Envelope \cup {NoEnvelope}]

ChangeRow ==
  [object : Object, namespace : Namespace, revision : StoredRevision,
   device : Device, deleted : BOOLEAN]

PutOp ==
  [kind : {"put"}, object : Object, namespace : Namespace, device : Device,
   base : Nat \cup {NoBase}, envelope : Envelope \cup {Malformed}]

DeleteOp == [kind : {"delete"}, object : Object, device : Device, base : Nat]

Operation == PutOp \cup DeleteOp

(* Table f: keys among D, rows in R. *)
IsTable(f, D, R) == DOMAIN f \subseteq D /\ f \in [DOMAIN f -> R]

IsDatabase(t) ==
  /\ t = [devices |-> t.devices, objects |-> t.objects, changes |-> t.changes]
  /\ IsTable(t.devices, Device, DeviceRow)
  /\ IsTable(t.objects, Object, ObjectRow)
  /\ t.changes \in Seq(ChangeRow)

NoRows == [x \in {} |-> x]

EmptyDatabase == [devices |-> NoRows, objects |-> NoRows, changes |-> << >>]

(* Table f with the row of key k written to r, inserted or replaced. *)
Upsert(f, k, r) == [x \in DOMAIN f \cup {k} |-> IF x = k THEN r ELSE f[x]]

EnsureActiveDevice(db, d) == d \in DOMAIN db.devices /\ ~db.devices[d].revoked

(***************************************************************************)
(* Writes.                                                                 *)
(***************************************************************************)

(* Wrong: a tombstone counts as no object, so its revisions start over. *)
BaseMatchesTombstoneAbsent(db, op) ==
  IF op.object \in DOMAIN db.objects /\ ~db.objects[op.object].deleted
  THEN op.base = db.objects[op.object].revision
  ELSE op.kind = "put" /\ op.base = NoBase

(* The base_revision that a write to object o must carry. *)
BaseMatches(db, op) ==
  IF op.object \in DOMAIN db.objects
  THEN op.base = db.objects[op.object].revision
  ELSE op.kind = "put" /\ op.base = NoBase

NewRevision(op) == IF op.base = NoBase THEN 1 ELSE op.base + 1

(* Wrong: put_object_tx without validate_put. *)
OperationAllowedUnvalidated(db, op) ==
  /\ EnsureActiveDevice(db, op.device)
  /\ BaseMatches(db, op)
  /\ NewRevision(op) <= MaxRevision

(* All the checks that put_object_tx and delete_object_tx make before their *)
(* INSERT; the operation that fails one of them ends with an error reply.   *)
OperationAllowed(db, op) ==
  /\ op.kind = "put" => op.envelope # Malformed
  /\ EnsureActiveDevice(db, op.device)
  /\ BaseMatches(db, op)
  /\ NewRevision(op) <= MaxRevision

(* put_object_tx takes the namespace of the request, delete_object_tx the *)
(* one the row already has.                                               *)
NamespaceOf(db, op) ==
  IF op.kind = "put" THEN op.namespace ELSE db.objects[op.object].namespace

ChangeOf(db, op) ==
  [object |-> op.object, namespace |-> NamespaceOf(db, op),
   revision |-> NewRevision(op), device |-> op.device,
   deleted |-> op.kind = "delete"]

(* Wrong: the row keeps the cursor of the change before. *)
ObjectOfStaleCursor(db, op) ==
  [namespace |-> NamespaceOf(db, op), revision |-> NewRevision(op),
   cursor |-> IF op.object \in DOMAIN db.objects THEN db.objects[op.object].cursor
                                                 ELSE Len(db.changes) + 1,
   device |-> op.device, deleted |-> op.kind = "delete",
   envelope |-> IF op.kind = "put" THEN op.envelope ELSE NoEnvelope]

ObjectOf(db, op) ==
  [namespace |-> NamespaceOf(db, op), revision |-> NewRevision(op),
   cursor |-> Len(db.changes) + 1, device |-> op.device,
   deleted |-> op.kind = "delete",
   envelope |-> IF op.kind = "put" THEN op.envelope ELSE NoEnvelope]

(* The INSERT into changes and the upsert of the object row. *)
ApplyOperation(db, op) ==
  [devices |-> db.devices,
   objects |-> Upsert(db.objects, op.object, ObjectOf(db, op)),
   changes |-> Append(db.changes, ChangeOf(db, op))]

(***************************************************************************)
(* Device statements, each its own transaction.                            *)
(***************************************************************************)

InsertDevice(db, d, n) ==
  [db EXCEPT !.devices = Upsert(@, d, [name |-> n, revoked |-> FALSE])]

SetRevoked(db, d) == [db EXCEPT !.devices[d].revoked = TRUE]
=============================================================================
