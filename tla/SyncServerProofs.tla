-------------------------- MODULE SyncServerProofs --------------------------
(***************************************************************************)
(* Proofs about SyncServer, for any set of handlers, devices, objects and  *)
(* requests.                                                               *)
(***************************************************************************)
EXTENDS SyncServer, SequenceTheorems, TLAPS

(***************************************************************************)
(* The inductive invariant.  The committed database and every              *)
(* transaction's copy are consistent; the copy of the transaction that     *)
(* holds the write lock extends the committed database, because nobody     *)
(* else commits while it does and it started from the last commit.         *)
(***************************************************************************)

Consistent(t) == RowIsLastChange(t) /\ RevisionsConsecutive(t)

(* Database v is t with more changes, all of them by devices active in t. *)
IsExtension(v, t) ==
  /\ v.devices = t.devices
  /\ DOMAIN t.objects \subseteq DOMAIN v.objects
  /\ Len(t.changes) <= Len(v.changes)
  /\ \A i \in 1 .. Len(t.changes) : v.changes[i] = t.changes[i]
  /\ \A i \in Len(t.changes) + 1 .. Len(v.changes) :
       EnsureActiveDevice(t, v.changes[i].device)

AllConsistent == Consistent(db) /\ \A h \in Handler : Consistent(view[h])

(* Where a handler is tells what its variables hold. *)
ControlInv ==
  \A h \in Handler :
    /\ pc[h] \in {Select, Insert} => asked[h] \in Device \X Name
    /\ pc[h] \in {Check, Write} => ops[h] \in Request /\ done[h] < Len(ops[h])
    /\ pc[h] = Write => OperationAllowed(view[h], Next1(h))
    /\ pc[h] \notin {Check, Write, Commit, Reply} => done[h] = 0
    /\ done[h] <= Len(view[h].changes)

LockInv ==
  \A h \in Handler :
    /\ writer = h <=> (pc[h] \in {Check, Write, Commit} /\ done[h] > 0)
    /\ pc[h] = Commit => done[h] > 0
    /\ writer = h => IsExtension(view[h], db)
    /\ pc[h] = Write /\ done[h] = 0 /\ fresh[h] => view[h] = db

(* What was answered or is about to be is committed. *)
AnswerInv ==
  \A h \in Handler :
    pc[h] = Reply =>
      /\ Len(view[h].changes) <= Len(db.changes)
      /\ \A i \in 1 .. Len(view[h].changes) : view[h].changes[i] = db.changes[i]

IInv ==
  /\ TypeOK
  /\ AllConsistent
  /\ ControlInv
  /\ LockInv
  /\ AnswerInv
  /\ AckedWritesAreLogged

(***************************************************************************)
(* Lemmas about the statements.                                            *)
(***************************************************************************)

(* What a write that passed the checks inserts has the type of its table. *)
LEMMA RowTypes ==
  ASSUME NEW t, IsDatabase(t), NEW op \in Operation, OperationAllowed(t, op)
  PROVE  /\ op.object \in Object
         /\ ChangeOf(t, op) \in ChangeRow
         /\ ObjectOf(t, op) \in ObjectRow
<1> DEFINE o == op.object
<1>1. o \in Object /\ op.device \in Device
  BY DEF Operation, PutOp, DeleteOp
<1>2. NewRevision(op) \in StoredRevision
  <2>1. NewRevision(op) \in Nat \ {0}
    BY DEF NewRevision, Operation, PutOp, DeleteOp
  <2>2. QED BY <2>1, BoundAssumption DEF OperationAllowed, StoredRevision
<1>3. NamespaceOf(t, op) \in Namespace
  <2>1. CASE op.kind = "put"
    BY <2>1 DEF NamespaceOf, Operation, PutOp, DeleteOp
  <2>2. CASE op.kind # "put"
    <3>1. o \in DOMAIN t.objects
      BY <2>2 DEF OperationAllowed, BaseMatches
    <3>2. t.objects[o] \in ObjectRow
      BY <3>1 DEF IsDatabase, IsTable
    <3>3. QED BY <2>2, <3>2 DEF NamespaceOf, ObjectRow
  <2>3. QED BY <2>1, <2>2
<1>4. op.kind = "put" => op.envelope \in Envelope
  BY DEF OperationAllowed, Operation, PutOp, DeleteOp
<1>5. Len(t.changes) \in Nat
  BY DEF IsDatabase
<1>6. ChangeOf(t, op) \in ChangeRow
  BY <1>1, <1>2, <1>3 DEF ChangeOf, ChangeRow
<1>7. ObjectOf(t, op) \in ObjectRow
  BY <1>1, <1>2, <1>3, <1>4, <1>5 DEF ObjectOf, ObjectRow
<1>8. QED BY <1>1, <1>6, <1>7

(* The database after a write, table by table. *)
LEMMA AfterWrite ==
  ASSUME NEW t, IsDatabase(t), NEW op \in Operation, OperationAllowed(t, op)
  PROVE  LET u == ApplyOperation(t, op)
             n == Len(t.changes)
         IN  /\ IsDatabase(u)
             /\ u.devices = t.devices
             /\ Len(u.changes) = n + 1
             /\ DOMAIN u.changes = 1 .. n + 1
             /\ \A i \in 1 .. n : u.changes[i] = t.changes[i]
             /\ u.changes[n + 1] = ChangeOf(t, op)
             /\ DOMAIN u.objects = DOMAIN t.objects \cup {op.object}
             /\ u.objects[op.object] = ObjectOf(t, op)
             /\ \A x \in DOMAIN t.objects \ {op.object} : u.objects[x] = t.objects[x]
<1> DEFINE u == ApplyOperation(t, op)
<1>1. /\ op.object \in Object
      /\ ChangeOf(t, op) \in ChangeRow
      /\ ObjectOf(t, op) \in ObjectRow
  BY RowTypes
<1>2. IsTable(t.objects, Object, ObjectRow) /\ t.changes \in Seq(ChangeRow)
  BY DEF IsDatabase
<1>3. /\ u.devices = t.devices
      /\ u.objects = Upsert(t.objects, op.object, ObjectOf(t, op))
      /\ u.changes = Append(t.changes, ChangeOf(t, op))
      /\ u = [devices |-> u.devices, objects |-> u.objects, changes |-> u.changes]
  BY DEF ApplyOperation
<1> DEFINE up == Upsert(t.objects, op.object, ObjectOf(t, op))
<1>a. /\ IsTable(up, Object, ObjectRow)
      /\ DOMAIN up = DOMAIN t.objects \cup {op.object}
      /\ up[op.object] = ObjectOf(t, op)
      /\ \A x \in DOMAIN t.objects \ {op.object} : up[x] = t.objects[x]
  BY <1>1, <1>2 DEF IsTable, Upsert
<1>4. /\ IsTable(u.objects, Object, ObjectRow)
      /\ DOMAIN u.objects = DOMAIN t.objects \cup {op.object}
      /\ u.objects[op.object] = ObjectOf(t, op)
      /\ \A x \in DOMAIN t.objects \ {op.object} : u.objects[x] = t.objects[x]
  BY <1>3, <1>a
<1>5. /\ u.changes \in Seq(ChangeRow)
      /\ Len(u.changes) = Len(t.changes) + 1
      /\ DOMAIN u.changes = 1 .. Len(t.changes) + 1
      /\ \A i \in 1 .. Len(t.changes) : u.changes[i] = t.changes[i]
      /\ u.changes[Len(t.changes) + 1] = ChangeOf(t, op)
  BY <1>1, <1>2, <1>3
<1>6. IsDatabase(u)
  BY <1>3, <1>4, <1>5 DEF IsDatabase
<1>7. QED BY <1>3, <1>4, <1>5, <1>6

(* A write keeps the rows the last change of their objects. *)
LEMMA WriteKeepsRows ==
  ASSUME NEW t, IsDatabase(t), RowIsLastChange(t),
         NEW op \in Operation, OperationAllowed(t, op)
  PROVE  RowIsLastChange(ApplyOperation(t, op))
<1> DEFINE u == ApplyOperation(t, op)
           n == Len(t.changes)
<1>1. /\ Len(u.changes) = n + 1
      /\ DOMAIN u.changes = 1 .. n + 1
      /\ \A i \in 1 .. n : u.changes[i] = t.changes[i]
      /\ u.changes[n + 1] = ChangeOf(t, op)
      /\ DOMAIN u.objects = DOMAIN t.objects \cup {op.object}
      /\ u.objects[op.object] = ObjectOf(t, op)
      /\ \A x \in DOMAIN t.objects \ {op.object} : u.objects[x] = t.objects[x]
  BY AfterWrite
<1>2. n \in Nat /\ DOMAIN t.changes = 1 .. n
  BY DEF IsDatabase
<1>3. op.kind = "put" => op.envelope # NoEnvelope
  BY SentinelAssumption DEF OperationAllowed, Operation, PutOp, DeleteOp
<1> HIDE DEF u
<1>4. ASSUME NEW o \in DOMAIN u.objects, o # op.object
      PROVE  /\ o \in DOMAIN t.objects
             /\ u.objects[o] = t.objects[o]
             /\ ChangesIn(u, o) = ChangesIn(t, o)
  <2>1. u.changes[n + 1].object = op.object
    BY <1>1 DEF ChangeOf
  <2>2. QED BY <1>1, <1>2, <1>4, <2>1 DEF ChangesIn
<1>5. ASSUME NEW o \in DOMAIN u.objects
      PROVE  LET row == u.objects[o] IN
             /\ row.cursor \in ChangesIn(u, o)
             /\ \A i \in ChangesIn(u, o) : i <= row.cursor
             /\ u.changes[row.cursor] =
                  [object |-> o, namespace |-> row.namespace, revision |-> row.revision,
                   device |-> row.device, deleted |-> row.deleted]
             /\ row.deleted <=> row.envelope = NoEnvelope
  <2>1. CASE o # op.object
    <3>1. /\ t.objects[o].cursor \in ChangesIn(t, o)
          /\ \A i \in ChangesIn(t, o) : i <= t.objects[o].cursor
          /\ t.changes[t.objects[o].cursor] =
               [object |-> o, namespace |-> t.objects[o].namespace,
                revision |-> t.objects[o].revision,
                device |-> t.objects[o].device, deleted |-> t.objects[o].deleted]
          /\ t.objects[o].deleted <=> t.objects[o].envelope = NoEnvelope
      BY <1>4, <2>1 DEF RowIsLastChange
    <3>2. t.objects[o].cursor \in 1 .. n
      BY <1>2, <3>1 DEF ChangesIn
    <3>3. QED BY <1>1, <1>4, <2>1, <3>1, <3>2
  <2>2. CASE o = op.object
    <3>1. u.objects[o] = ObjectOf(t, op)
      BY <1>1, <2>2
    <3>2. u.objects[o].cursor = n + 1
      BY <3>1 DEF ObjectOf
    <3>3. n + 1 \in ChangesIn(u, o)
      BY <1>1, <1>2, <2>2 DEF ChangesIn, ChangeOf
    <3>4. \A i \in ChangesIn(u, o) : i <= n + 1
      BY <1>1, <1>2 DEF ChangesIn
    <3>5. u.changes[n + 1] =
            [object |-> o, namespace |-> u.objects[o].namespace,
             revision |-> u.objects[o].revision,
             device |-> u.objects[o].device, deleted |-> u.objects[o].deleted]
      BY <1>1, <2>2, <3>1 DEF ChangeOf, ObjectOf
    <3>6. u.objects[o].deleted <=> u.objects[o].envelope = NoEnvelope
      <4>1. /\ u.objects[o].deleted = (op.kind = "delete")
            /\ u.objects[o].envelope = IF op.kind = "put" THEN op.envelope ELSE NoEnvelope
        BY <3>1 DEF ObjectOf
      <4>2. op.kind \in {"put", "delete"}
        BY DEF Operation, PutOp, DeleteOp
      <4>3. QED BY <1>3, <4>1, <4>2
    <3>7. QED BY <3>2, <3>3, <3>4, <3>5, <3>6
  <2>3. QED BY <2>1, <2>2
<1>6. \A i \in DOMAIN u.changes : u.changes[i].object \in DOMAIN u.objects
  <2>1. \A i \in 1 .. n : t.changes[i].object \in DOMAIN t.objects
    BY <1>2 DEF RowIsLastChange
  <2>2. u.changes[n + 1].object = op.object
    BY <1>1 DEF ChangeOf
  <2>3. QED BY <1>1, <1>2, <2>1, <2>2
<1>7. QED BY <1>5, <1>6 DEF RowIsLastChange, u

(* A write is given the revision after the last one of its object. *)
LEMMA WriteKeepsRevisions ==
  ASSUME NEW t, IsDatabase(t), Consistent(t),
         NEW op \in Operation, OperationAllowed(t, op)
  PROVE  RevisionsConsecutive(ApplyOperation(t, op))
<1> DEFINE u == ApplyOperation(t, op)
           n == Len(t.changes)
           Before(d, i) == {j \in ChangesIn(d, d.changes[i].object) : j < i}
<1>1. /\ DOMAIN u.changes = 1 .. n + 1
      /\ \A i \in 1 .. n : u.changes[i] = t.changes[i]
      /\ u.changes[n + 1] = ChangeOf(t, op)
  BY AfterWrite
<1>2. n \in Nat /\ DOMAIN t.changes = 1 .. n
  BY DEF IsDatabase
<1> HIDE DEF u
<1>3. ASSUME NEW i \in 1 .. n
      PROVE  Before(u, i) = Before(t, i)
  BY <1>1, <1>2 DEF ChangesIn
<1>4. Before(u, n + 1) = ChangesIn(t, op.object)
  BY <1>1, <1>2 DEF ChangesIn, ChangeOf
<1>5. ASSUME NEW i \in DOMAIN u.changes
      PROVE  IF Before(u, i) = {}
             THEN u.changes[i].revision = 1 /\ ~u.changes[i].deleted
             ELSE \E j \in Before(u, i) :
                    /\ \A k \in Before(u, i) : k <= j
                    /\ u.changes[i].revision = u.changes[j].revision + 1
  <2>1. CASE i \in 1 .. n
    <3>1. IF Before(t, i) = {}
          THEN t.changes[i].revision = 1 /\ ~t.changes[i].deleted
          ELSE \E j \in Before(t, i) :
                 /\ \A k \in Before(t, i) : k <= j
                 /\ t.changes[i].revision = t.changes[j].revision + 1
      BY <1>2, <2>1 DEF Consistent, RevisionsConsecutive
    <3>2. Before(t, i) \subseteq 1 .. n
      BY <1>2 DEF ChangesIn
    <3> HIDE DEF Before
    <3>3. QED BY <1>1, <1>3, <2>1, <3>1, <3>2
  <2>2. CASE i = n + 1 /\ op.object \in DOMAIN t.objects
    <3> DEFINE c == t.objects[op.object].cursor
    <3>1. /\ c \in ChangesIn(t, op.object)
          /\ \A k \in ChangesIn(t, op.object) : k <= c
          /\ t.changes[c].revision = t.objects[op.object].revision
      <4> DEFINE row == t.objects[op.object]
      <4>1. /\ row.cursor \in ChangesIn(t, op.object)
            /\ \A k \in ChangesIn(t, op.object) : k <= row.cursor
            /\ t.changes[row.cursor] =
                 [object |-> op.object, namespace |-> row.namespace,
                  revision |-> row.revision, device |-> row.device,
                  deleted |-> row.deleted]
        BY <2>2 DEF Consistent, RowIsLastChange
      <4> HIDE DEF row
      <4>2. t.changes[row.cursor].revision = row.revision
        BY <4>1
      <4>3. QED BY <4>1, <4>2 DEF row
    <3>2. c \in 1 .. n
      BY <1>2, <3>1 DEF ChangesIn
    <3>3. t.objects[op.object].revision \in Nat
      BY <2>2 DEF IsDatabase, IsTable, ObjectRow, StoredRevision
    <3>4. u.changes[i].revision = t.objects[op.object].revision + 1
      BY <1>1, <2>2, <3>3, SentinelAssumption
      DEF OperationAllowed, BaseMatches, ChangeOf, NewRevision
    <3>5. u.changes[i].revision = u.changes[c].revision + 1
      BY <1>1, <3>1, <3>2, <3>4
    <3> HIDE DEF Before, c
    <3>6. QED BY <1>4, <2>2, <3>1, <3>5
  <2>3. CASE i = n + 1 /\ op.object \notin DOMAIN t.objects
    <3>1. ChangesIn(t, op.object) = {}
      BY <2>3 DEF Consistent, RowIsLastChange, ChangesIn
    <3>2. op.kind = "put" /\ op.base = NoBase
      BY <2>3 DEF OperationAllowed, BaseMatches
    <3>3. u.changes[i].revision = 1 /\ ~u.changes[i].deleted
      <4>1. u.changes[i] = ChangeOf(t, op)
        BY <1>1, <2>3
      <4>2. ChangeOf(t, op).revision = 1
        BY <3>2 DEF ChangeOf, NewRevision
      <4>3. ChangeOf(t, op).deleted = FALSE
        BY <3>2 DEF ChangeOf
      <4>4. QED BY <4>1, <4>2, <4>3
    <3> HIDE DEF Before
    <3>4. QED BY <1>4, <2>3, <3>1, <3>3
  <2>4. QED BY <1>1, <1>2, <2>1, <2>2, <2>3
<1>6. QED BY <1>5 DEF RevisionsConsecutive, u

(* A write extends what its transaction has so far. *)
LEMMA WriteExtends ==
  ASSUME NEW t, IsDatabase(t), NEW v, IsDatabase(v), IsExtension(v, t),
         NEW op \in Operation, OperationAllowed(v, op)
  PROVE  IsExtension(ApplyOperation(v, op), t)
<1> DEFINE u == ApplyOperation(v, op)
           n == Len(v.changes)
<1>1. /\ u.devices = v.devices
      /\ Len(u.changes) = n + 1
      /\ \A i \in 1 .. n : u.changes[i] = v.changes[i]
      /\ u.changes[n + 1] = ChangeOf(v, op)
      /\ DOMAIN u.objects = DOMAIN v.objects \cup {op.object}
  BY AfterWrite
<1>2. n \in Nat /\ Len(t.changes) \in Nat
  BY DEF IsDatabase
<1>3. u.changes[n + 1].device = op.device
  BY <1>1 DEF ChangeOf
<1>4. EnsureActiveDevice(t, op.device)
  BY DEF OperationAllowed, EnsureActiveDevice, IsExtension
<1> HIDE DEF u
<1>5. \A i \in Len(t.changes) + 1 .. n + 1 : EnsureActiveDevice(t, u.changes[i].device)
  <2> TAKE i \in Len(t.changes) + 1 .. n + 1
  <2>1. CASE i = n + 1
    BY <1>3, <1>4, <2>1
  <2>2. CASE i # n + 1
    <3>1. i \in 1 .. n /\ i \in Len(t.changes) + 1 .. n
      BY <1>2, <2>2
    <3>2. u.changes[i] = v.changes[i]
      BY <1>1, <3>1
    <3>3. EnsureActiveDevice(t, v.changes[i].device)
      BY <3>1 DEF IsExtension
    <3>4. QED BY <3>2, <3>3
  <2>3. QED BY <2>1, <2>2
<1>6. \A i \in 1 .. Len(t.changes) : u.changes[i] = t.changes[i]
  BY <1>1, <1>2 DEF IsExtension
<1>7. /\ u.devices = t.devices
      /\ DOMAIN t.objects \subseteq DOMAIN u.objects
      /\ Len(t.changes) <= Len(u.changes)
  BY <1>1, <1>2 DEF IsExtension
<1>8. \A i \in Len(t.changes) + 1 .. Len(u.changes) : EnsureActiveDevice(t, u.changes[i].device)
  BY <1>1, <1>5
<1>9. IsExtension(u, t)
  BY <1>6, <1>7, <1>8 DEF IsExtension
<1>10. QED BY <1>9 DEF u

(* The device statements touch no other table. *)
LEMMA AfterDeviceStatement ==
  ASSUME NEW t, IsDatabase(t), Consistent(t), NEW d \in Device
  PROVE  /\ \A n \in Name :
              /\ IsDatabase(InsertDevice(t, d, n))
              /\ Consistent(InsertDevice(t, d, n))
              /\ InsertDevice(t, d, n).changes = t.changes
         /\ d \in DOMAIN t.devices =>
              /\ IsDatabase(SetRevoked(t, d))
              /\ Consistent(SetRevoked(t, d))
              /\ SetRevoked(t, d).changes = t.changes
<1>1. ASSUME NEW f, IsTable(f, Device, DeviceRow)
      PROVE  Consistent([t EXCEPT !.devices = f]) /\ IsDatabase([t EXCEPT !.devices = f])
  BY <1>1 DEF IsDatabase, Consistent, RowIsLastChange, RevisionsConsecutive, ChangesIn
<1>2. IsTable(t.devices, Device, DeviceRow)
  BY DEF IsDatabase
<1>3. ASSUME NEW n \in Name
      PROVE  /\ IsDatabase(InsertDevice(t, d, n))
             /\ Consistent(InsertDevice(t, d, n))
             /\ InsertDevice(t, d, n).changes = t.changes
  <2> DEFINE f == Upsert(t.devices, d, [name |-> n, revoked |-> FALSE])
  <2>1. IsTable(f, Device, DeviceRow)
    BY <1>2 DEF IsTable, Upsert, DeviceRow
  <2>2. InsertDevice(t, d, n) = [t EXCEPT !.devices = f]
    BY DEF InsertDevice, IsDatabase
  <2> HIDE DEF f
  <2>3. [t EXCEPT !.devices = f].changes = t.changes
    BY DEF IsDatabase
  <2>4. QED BY <1>1, <2>1, <2>2, <2>3
<1>4. ASSUME d \in DOMAIN t.devices
      PROVE  /\ IsDatabase(SetRevoked(t, d))
             /\ Consistent(SetRevoked(t, d))
             /\ SetRevoked(t, d).changes = t.changes
  <2> DEFINE f == [t.devices EXCEPT ![d].revoked = TRUE]
  <2>1. IsTable(f, Device, DeviceRow)
    BY <1>2, <1>4 DEF IsTable, DeviceRow
  <2>2. SetRevoked(t, d) = [t EXCEPT !.devices = f]
    BY <1>4 DEF SetRevoked, IsDatabase
  <2> HIDE DEF f
  <2>3. [t EXCEPT !.devices = f].changes = t.changes
    BY DEF IsDatabase
  <2>4. QED BY <1>1, <2>1, <2>2, <2>3
<1>5. QED BY <1>3, <1>4

(* Nothing is consistent. *)
LEMMA EmptyIsConsistent ==
  /\ IsDatabase(EmptyDatabase)
  /\ Consistent(EmptyDatabase)
  /\ Len(EmptyDatabase.changes) = 0
<1>1. /\ EmptyDatabase.devices = NoRows
      /\ EmptyDatabase.objects = NoRows
      /\ EmptyDatabase.changes = << >>
  BY DEF EmptyDatabase
<1>2. DOMAIN NoRows = {} /\ IsTable(NoRows, Device, DeviceRow) /\ IsTable(NoRows, Object, ObjectRow)
  BY DEF NoRows, IsTable
<1>3. DOMAIN << >> = {} /\ << >> \in Seq(ChangeRow) /\ Len(<< >>) = 0
  OBVIOUS
<1>4. IsDatabase(EmptyDatabase)
  BY <1>1, <1>2, <1>3 DEF IsDatabase, EmptyDatabase
<1>5. Consistent(EmptyDatabase)
  BY <1>1, <1>2, <1>3 DEF Consistent, RowIsLastChange, RevisionsConsecutive
<1>6. QED BY <1>1, <1>3, <1>4, <1>5

(* The next operation of a request. *)
LEMMA NextOperation ==
  ASSUME IInv, NEW h \in Handler, pc[h] \in {Check, Write}
  PROVE  Next1(h) \in Operation
<1>1. ops[h] \in Seq(Operation) /\ done[h] < Len(ops[h]) /\ done[h] \in Nat
  BY RequestAssumption DEF IInv, ControlInv, TypeOK
<1>2. QED BY <1>1 DEF Next1

(***************************************************************************)
(* The invariant is inductive: one lemma per action.                       *)
(***************************************************************************)

(* The empty database and the idle handlers of a server that starts (open   *)
(* in storage.rs) satisfy the invariant.                                   *)
LEMMA InitInv == Init => IInv
<1> SUFFICES ASSUME Init PROVE IInv
  OBVIOUS
<1> USE DEF Init
<1>1. TypeOK
  BY EmptyIsConsistent DEF TypeOK, ControlPoint
<1>2. AllConsistent
  BY EmptyIsConsistent DEF AllConsistent
<1>3. ControlInv
  BY EmptyIsConsistent DEF ControlInv, Idle, Select, Insert, Check, Write, Commit, Reply
<1>4. LockInv
  BY HandlerAssumption DEF LockInv, Idle, Check, Write, Commit
<1>5. AnswerInv
  BY DEF AnswerInv, Idle, Reply
<1>6. AckedWritesAreLogged
  BY DEF AckedWritesAreLogged
<1>7. QED BY <1>1, <1>2, <1>3, <1>4, <1>5, <1>6 DEF IInv

(* A handler that ends, with or without an answer, keeps the invariant. *)
LEMMA ReleaseKeepsInv ==
  ASSUME IInv, NEW h \in Handler, Release(h), db' = db,
         acks' \subseteq (Nat \X ChangeRow), AckedWritesAreLogged'
  PROVE  IInv'
<1> USE DEF Release, Idle, Select, Insert, Check, Write, Commit, Reply
<1>1. TypeOK'
  BY EmptyIsConsistent DEF IInv, TypeOK, ControlPoint
<1>2. AllConsistent'
  BY EmptyIsConsistent DEF IInv, TypeOK, AllConsistent
<1>3. ASSUME NEW g \in Handler, g # h
      PROVE  /\ pc'[g] = pc[g] /\ ops'[g] = ops[g] /\ done'[g] = done[g]
             /\ view'[g] = view[g] /\ fresh'[g] = fresh[g] /\ asked'[g] = asked[g]
             /\ writer' = g <=> writer = g
  BY <1>3, HandlerAssumption DEF IInv, TypeOK
<1>4. /\ pc'[h] = Idle /\ done'[h] = 0 /\ view'[h] = EmptyDatabase
      /\ fresh'[h] = FALSE /\ writer' # h
  BY HandlerAssumption DEF IInv, TypeOK
<1>5. ControlInv'
  <2>1. ASSUME NEW g \in Handler, g # h PROVE Next1(g)' = Next1(g)
    BY <1>3, <2>1 DEF Next1
  <2>2. QED BY <1>3, <1>4, <2>1, EmptyIsConsistent DEF IInv, ControlInv
<1>6. LockInv'
  BY <1>3, <1>4 DEF IInv, LockInv
<1>7. AnswerInv'
  BY <1>3, <1>4 DEF IInv, AnswerInv
<1>8. QED BY <1>1, <1>2, <1>5, <1>6, <1>7 DEF IInv

(* What was acked stays logged when the committed database is unchanged.   *)
LEMMA AcksUnchanged ==
  ASSUME IInv, db' = db, acks' = acks
  PROVE  acks' \subseteq (Nat \X ChangeRow) /\ AckedWritesAreLogged'
BY DEF IInv, TypeOK, AckedWritesAreLogged

(* A request that arrives reads and writes nothing yet. *)
LEMMA BeginKeepsInv ==
  ASSUME IInv, NEW h \in Handler,
         \/ \E r \in Request : BeginWrite(h, r)
         \/ \E d \in Device, n \in Name : BeginRegister(h, d, n)
  PROVE  IInv'
<1> USE DEF Idle, Select, Insert, Check, Write, Commit, Reply
<1>1. CASE \E r \in Request : BeginWrite(h, r)
  <2> PICK r \in Request : BeginWrite(h, r)
    BY <1>1
  <2> USE DEF BeginWrite
  <2>0. r \in Seq(Operation) /\ r # << >>
    BY RequestAssumption
  <2>1. Len(r) > 0 /\ done[h] = 0
    BY <2>0 DEF IInv, ControlInv
  <2>2. TypeOK'
    BY DEF IInv, TypeOK, ControlPoint
  <2>3. ControlInv'
    BY <2>1 DEF IInv, TypeOK, ControlInv, Next1
  <2>4. LockInv'
    BY <2>1 DEF IInv, TypeOK, LockInv
  <2>5. AllConsistent' /\ AnswerInv' /\ AckedWritesAreLogged'
    BY DEF IInv, TypeOK, AllConsistent, AnswerInv, AckedWritesAreLogged
  <2>6. QED BY <2>2, <2>3, <2>4, <2>5 DEF IInv
<1>2. CASE \E d \in Device, n \in Name : BeginRegister(h, d, n)
  <2> PICK d \in Device, n \in Name : BeginRegister(h, d, n)
    BY <1>2
  <2> USE DEF BeginRegister
  <2>1. TypeOK'
    BY DEF IInv, TypeOK, ControlPoint
  <2>2. ControlInv'
    BY DEF IInv, TypeOK, ControlInv, Next1
  <2>3. LockInv'
    BY DEF IInv, TypeOK, LockInv
  <2>4. AllConsistent' /\ AnswerInv' /\ AckedWritesAreLogged'
    BY DEF IInv, TypeOK, AllConsistent, AnswerInv, AckedWritesAreLogged
  <2>5. QED BY <2>1, <2>2, <2>3, <2>4 DEF IInv
<1>3. QED BY <1>1, <1>2

(* The SELECTs of put_object_tx and delete_object_tx fix the snapshot, and   *)
(* what they established is known of it until the INSERT.                  *)
LEMMA CheckKeepsInv ==
  ASSUME IInv, NEW h \in Handler, CheckOperation(h)
  PROVE  IInv'
<1> USE DEF Idle, Select, Insert, Check, Write, Commit, Reply
<1> USE DEF CheckOperation
<1>1. TypeOK'
  BY DEF IInv, TypeOK, ControlPoint, Seen
<1>2. AllConsistent'
  BY DEF IInv, TypeOK, AllConsistent, Seen
<1>3. ASSUME NEW g \in Handler, g # h
      PROVE  /\ pc'[g] = pc[g] /\ view'[g] = view[g] /\ fresh'[g] = fresh[g]
  BY <1>3 DEF IInv, TypeOK
<1>4. pc'[h] = Write /\ view'[h] = Seen(h)
  BY DEF IInv, TypeOK
<1>5. ControlInv'
  <2>1. ASSUME NEW g \in Handler PROVE Next1(g)' = Next1(g)
    BY DEF Next1
  <2>2. done[h] <= Len(Seen(h).changes)
    BY DEF IInv, TypeOK, ControlInv, Seen, IsDatabase
  <2>3. QED BY <1>3, <1>4, <2>1, <2>2 DEF IInv, TypeOK, ControlInv
<1>6. LockInv'
  BY <1>3, <1>4 DEF IInv, TypeOK, LockInv, Seen
<1>7. AnswerInv'
  BY <1>3, <1>4 DEF IInv, TypeOK, AnswerInv
<1>8. AckedWritesAreLogged'
  BY AcksUnchanged
<1>9. QED BY <1>1, <1>2, <1>5, <1>6, <1>7, <1>8 DEF IInv

(* The INSERT and the upsert of put_object_tx and delete_object_tx keep the  *)
(* database of the transaction consistent and past its snapshot.           *)
LEMMA WriteKeepsInv ==
  ASSUME IInv, NEW h \in Handler, WriteOperation(h)
  PROVE  IInv'
<1> DEFINE op == Next1(h)
           u == ApplyOperation(view[h], op)
<1>1. /\ pc[h] = Write /\ LockAvailable(h) /\ writer' = h
      /\ view' = [view EXCEPT ![h] = u]
      /\ done' = [done EXCEPT ![h] = @ + 1]
      /\ pc' = [pc EXCEPT ![h] = IF done[h] + 1 = Len(ops[h]) THEN Commit ELSE Check]
      /\ UNCHANGED <<db, ops, fresh, asked, acks>>
  BY DEF WriteOperation
<1>2. /\ op \in Operation /\ OperationAllowed(view[h], op)
      /\ IsDatabase(view[h]) /\ Consistent(view[h])
      /\ IsDatabase(db)
  BY <1>1, NextOperation DEF IInv, TypeOK, AllConsistent, ControlInv
<1>3. IsDatabase(u) /\ Len(u.changes) = Len(view[h].changes) + 1
  BY <1>2, AfterWrite
<1>4. Consistent(u)
  BY <1>2, WriteKeepsRows, WriteKeepsRevisions DEF Consistent
<1>5. IsExtension(view[h], db)
  <2>1. CASE writer = h
    BY <2>1 DEF IInv, LockInv
  <2>2. CASE writer # h
    <3>1. fresh[h]
      BY <1>1, <2>2 DEF LockAvailable
    <3>2. done[h] = 0
      BY <1>1, <2>2 DEF IInv, TypeOK, LockInv, Write, Commit, Check
    <3>3. view[h] = db
      BY <1>1, <3>1, <3>2 DEF IInv, LockInv
    <3>4. Len(db.changes) \in Nat
      BY <1>2 DEF IsDatabase
    <3>5. QED BY <3>3, <3>4 DEF IsExtension
  <2>3. QED BY <2>1, <2>2
<1>6. IsExtension(u, db)
  BY <1>2, <1>5, WriteExtends
<1>7. \A g \in Handler : g # h => writer # g
  BY <1>1, HandlerAssumption DEF LockAvailable
<1> HIDE DEF u
<1> USE DEF Idle, Select, Insert, Check, Write, Commit, Reply
<1>8. TypeOK'
  BY <1>1, <1>3 DEF IInv, TypeOK, ControlPoint
<1>9. AllConsistent'
  BY <1>1, <1>4 DEF IInv, TypeOK, AllConsistent
<1>10. ASSUME NEW g \in Handler, g # h
       PROVE  /\ pc'[g] = pc[g] /\ view'[g] = view[g] /\ done'[g] = done[g]
              /\ fresh'[g] = fresh[g] /\ ops'[g] = ops[g] /\ asked'[g] = asked[g]
              /\ Next1(g)' = Next1(g)
  BY <1>1, <1>10 DEF IInv, TypeOK, Next1
<1>11. /\ pc'[h] = IF done[h] + 1 = Len(ops[h]) THEN Commit ELSE Check
       /\ view'[h] = u /\ done'[h] = done[h] + 1
       /\ done[h] \in Nat /\ done[h] < Len(ops[h]) /\ ops'[h] = ops[h]
       /\ ops[h] \in Request /\ Len(ops[h]) \in Nat
       /\ done[h] <= Len(view[h].changes) /\ Len(view[h].changes) \in Nat
  BY <1>1, <1>2, RequestAssumption DEF IInv, TypeOK, ControlInv, IsDatabase
<1>12. ControlInv'
  <2> SUFFICES ASSUME NEW g \in Handler
               PROVE  /\ pc'[g] \in {Select, Insert} => asked'[g] \in Device \X Name
                      /\ pc'[g] \in {Check, Write} => ops'[g] \in Request /\ done'[g] < Len(ops'[g])
                      /\ pc'[g] = Write => OperationAllowed(view'[g], Next1(g)')
                      /\ pc'[g] \notin {Check, Write, Commit, Reply} => done'[g] = 0
                      /\ done'[g] <= Len(view'[g].changes)
    BY DEF ControlInv
  <2>1. CASE g = h
    BY <1>3, <1>11, <2>1
  <2>2. CASE g # h
    BY <1>10, <2>2 DEF IInv, ControlInv
  <2> QED BY <2>1, <2>2
<1>13. LockInv'
  BY <1>1, <1>6, <1>7, <1>10, <1>11 DEF IInv, LockInv
<1>14. AnswerInv'
  BY <1>1, <1>10, <1>11 DEF IInv, AnswerInv
<1>15. AckedWritesAreLogged'
  BY <1>1, AcksUnchanged
<1>16. QED BY <1>8, <1>9, <1>12, <1>13, <1>14, <1>15 DEF IInv

(* A COMMIT publishes a consistent database that extends the committed one. *)
LEMMA CommitKeepsInv ==
  ASSUME IInv, NEW h \in Handler, CommitWrite(h)
  PROVE  IInv'
<1> USE DEF Idle, Select, Insert, Check, Write, Commit, Reply
<1>1. /\ pc[h] = Commit /\ db' = view[h] /\ fresh' = [g \in Handler |-> FALSE]
      /\ writer' = NoHandler /\ pc' = [pc EXCEPT ![h] = Reply]
      /\ UNCHANGED <<ops, done, view, asked, acks>>
  BY DEF CommitWrite, Publish
<1>2. writer = h
  BY <1>1 DEF IInv, LockInv
<1>3. IsExtension(view[h], db)
  BY <1>2 DEF IInv, LockInv
<1>4. /\ IsDatabase(db) /\ Len(db.changes) \in Nat /\ DOMAIN db.changes = 1 .. Len(db.changes)
      /\ IsDatabase(view[h]) /\ Len(view[h].changes) \in Nat
      /\ DOMAIN view[h].changes = 1 .. Len(view[h].changes)
  BY DEF IInv, TypeOK, IsDatabase
<1>5. TypeOK'
  BY <1>1, <1>4 DEF IInv, TypeOK, ControlPoint
<1>6. AllConsistent'
  BY <1>1 DEF IInv, AllConsistent
<1>7. ControlInv'
  <2>1. ASSUME NEW g \in Handler PROVE Next1(g)' = Next1(g)
    BY <1>1 DEF Next1
  <2>2. QED BY <1>1, <2>1 DEF IInv, TypeOK, ControlInv
<1>8. LockInv'
  <2>1. ASSUME NEW g \in Handler, g # h
        PROVE  ~(pc[g] \in {Check, Write, Commit} /\ done[g] > 0) /\ pc[g] # Commit
    BY <1>2, <2>1 DEF IInv, LockInv
  <2>2. QED BY <1>1, <2>1, HandlerAssumption DEF IInv, TypeOK, LockInv
<1>9. AnswerInv'
  <2> SUFFICES ASSUME NEW g \in Handler, pc'[g] = Reply
               PROVE  /\ Len(view[g].changes) <= Len(view[h].changes)
                      /\ \A i \in 1 .. Len(view[g].changes) :
                           view[g].changes[i] = view[h].changes[i]
    BY <1>1 DEF AnswerInv
  <2>1. CASE g = h
    BY <1>4, <2>1
  <2>2. CASE g # h
    <3>1. /\ Len(view[g].changes) <= Len(db.changes)
          /\ \A i \in 1 .. Len(view[g].changes) : view[g].changes[i] = db.changes[i]
      BY <1>1, <2>2 DEF IInv, TypeOK, AnswerInv
    <3>2. Len(view[g].changes) \in Nat
      BY DEF IInv, TypeOK, IsDatabase
    <3>3. QED BY <1>3, <1>4, <3>1, <3>2 DEF IsExtension
  <2>3. QED BY <2>1, <2>2
<1>10. AckedWritesAreLogged'
  <2> SUFFICES ASSUME NEW a \in acks
               PROVE  a[1] \in DOMAIN view[h].changes /\ view[h].changes[a[1]] = a[2]
    BY <1>1 DEF AckedWritesAreLogged
  <2>1. a[1] \in 1 .. Len(db.changes) /\ db.changes[a[1]] = a[2]
    BY <1>4 DEF IInv, AckedWritesAreLogged
  <2>2. QED BY <1>3, <1>4, <2>1 DEF IsExtension
<1>11. QED BY <1>5, <1>6, <1>7, <1>8, <1>9, <1>10 DEF IInv

(* The answer tells of changes the log already has. *)
LEMMA ReplyKeepsInv ==
  ASSUME IInv, NEW h \in Handler, SendReply(h)
  PROVE  IInv'
<1> DEFINE n == Len(view[h].changes)
<1>1. /\ pc[h] = Reply /\ acks' = acks \cup Answer(h) /\ Release(h) /\ db' = db
  BY DEF SendReply
<1>2. /\ IsDatabase(view[h]) /\ n \in Nat /\ DOMAIN view[h].changes = 1 .. n
      /\ done[h] \in Nat /\ done[h] <= n
      /\ Len(db.changes) \in Nat /\ DOMAIN db.changes = 1 .. Len(db.changes)
      /\ view[h].changes \in Seq(ChangeRow)
  BY DEF IInv, TypeOK, ControlInv, IsDatabase
<1>3. ASSUME NEW a \in Answer(h)
      PROVE  \E c \in 1 .. n : a = <<c, view[h].changes[c]>>
  BY <1>2, <1>3 DEF Answer
<1>4. Answer(h) \subseteq (Nat \X ChangeRow)
  BY <1>2, <1>3
<1>5. ASSUME NEW a \in Answer(h)
      PROVE  a[1] \in DOMAIN db.changes /\ db.changes[a[1]] = a[2]
  BY <1>1, <1>2, <1>3, <1>5 DEF IInv, AnswerInv
<1>6. acks' \subseteq (Nat \X ChangeRow)
  BY <1>1, <1>4 DEF IInv, TypeOK
<1>7. AckedWritesAreLogged'
  BY <1>1, <1>5 DEF IInv, AckedWritesAreLogged
<1>8. QED BY <1>1, <1>6, <1>7, ReleaseKeepsInv

(* The SELECT of register_device leaves the database alone. *)
LEMMA SelectKeepsInv ==
  ASSUME IInv, NEW h \in Handler, SelectDevice(h)
  PROVE  IInv'
<1> USE DEF Idle, Select, Insert, Check, Write, Commit, Reply
<1>1. CASE Release(h)
  BY <1>1, ReleaseKeepsInv, AcksUnchanged DEF SelectDevice
<1>2. CASE /\ pc' = [pc EXCEPT ![h] = Insert]
           /\ UNCHANGED <<writer, ops, done, view, fresh, asked>>
  <2>1. pc[h] = Select /\ db' = db /\ acks' = acks
    BY DEF SelectDevice
  <2>2. TypeOK'
    BY <1>2, <2>1 DEF IInv, TypeOK, ControlPoint
  <2>3. ASSUME NEW g \in Handler PROVE Next1(g)' = Next1(g)
    BY <1>2 DEF Next1
  <2>4. ControlInv'
    BY <1>2, <2>1, <2>3 DEF IInv, TypeOK, ControlInv
  <2>5. LockInv'
    BY <1>2, <2>1 DEF IInv, TypeOK, LockInv
  <2>6. AnswerInv'
    BY <1>2, <2>1 DEF IInv, TypeOK, AnswerInv
  <2>7. AllConsistent'
    BY <1>2, <2>1 DEF IInv, AllConsistent
  <2>8. AckedWritesAreLogged'
    BY <2>1, AcksUnchanged
  <2>9. QED BY <2>2, <2>4, <2>5, <2>6, <2>7, <2>8 DEF IInv
<1>3. QED BY <1>1, <1>2 DEF SelectDevice

(* A device statement that commits t while no transaction has the lock. *)
LEMMA DeviceCommitKeepsInv ==
  ASSUME IInv, NEW t, IsDatabase(t), Consistent(t), t.changes = db.changes,
         db' = t, writer = NoHandler, fresh' = [g \in Handler |-> FALSE],
         UNCHANGED <<writer, ops, done, view, acks>>,
         pc' \in [Handler -> ControlPoint],
         asked' \in [Handler -> (Device \X Name) \cup {<< >>}],
         \A g \in Handler :
           \/ pc'[g] = pc[g] /\ asked'[g] = asked[g]
           \/ pc[g] = Insert /\ pc'[g] = Idle
  PROVE  IInv'
<1> USE DEF Idle, Select, Insert, Check, Write, Commit, Reply
<1>1. TypeOK'
  BY DEF IInv, TypeOK
<1>2. AllConsistent'
  BY DEF IInv, AllConsistent
<1>3. ASSUME NEW g \in Handler PROVE Next1(g)' = Next1(g)
  BY DEF Next1
<1>4. ControlInv'
  BY <1>3 DEF IInv, ControlInv
<1>5. LockInv'
  <2> SUFFICES ASSUME NEW g \in Handler
               PROVE  /\ writer # g
                      /\ ~(pc'[g] \in {Check, Write, Commit} /\ done[g] > 0)
                      /\ pc'[g] # Commit
                      /\ ~fresh'[g]
    BY DEF LockInv
  <2>1. QED BY HandlerAssumption DEF IInv, LockInv
<1>6. AnswerInv'
  BY DEF IInv, AnswerInv
<1>7. AckedWritesAreLogged'
  BY DEF IInv, AckedWritesAreLogged
<1>8. QED BY <1>1, <1>2, <1>4, <1>5, <1>6, <1>7 DEF IInv

(* The INSERT of register_device and the UPDATE of revoke_device. *)
LEMMA DeviceStatementsKeepInv ==
  ASSUME IInv,
         \/ \E h \in Handler : InsertRow(h)
         \/ \E d \in Device : RevokeDevice(d)
  PROVE  IInv'
<1>1. IsDatabase(db) /\ Consistent(db)
  BY DEF IInv, TypeOK, AllConsistent
<1>2. CASE \E h \in Handler : InsertRow(h)
  <2> PICK h \in Handler : InsertRow(h)
    BY <1>2
  <2>1. asked[h] \in Device \X Name
    BY DEF InsertRow, IInv, ControlInv
  <2> DEFINE t == InsertDevice(db, asked[h][1], asked[h][2])
  <2>2. IsDatabase(t) /\ Consistent(t) /\ t.changes = db.changes
    BY <1>1, <2>1, AfterDeviceStatement
  <2> HIDE DEF t
  <2>3. /\ db' = t /\ writer = NoHandler /\ fresh' = [g \in Handler |-> FALSE]
        /\ UNCHANGED <<writer, ops, done, view, acks>>
        /\ pc[h] = Insert
        /\ pc' = [pc EXCEPT ![h] = Idle]
        /\ asked' = [asked EXCEPT ![h] = << >>]
    BY DEF InsertRow, t
  <2>4. /\ pc' \in [Handler -> ControlPoint]
        /\ asked' \in [Handler -> (Device \X Name) \cup {<< >>}]
        /\ \A g \in Handler : \/ pc'[g] = pc[g] /\ asked'[g] = asked[g]
                              \/ pc[g] = Insert /\ pc'[g] = Idle
    BY <2>3 DEF IInv, TypeOK, ControlPoint
  <2>5. QED BY <2>2, <2>3, <2>4, DeviceCommitKeepsInv
<1>3. CASE \E d \in Device : RevokeDevice(d)
  <2> PICK d \in Device : RevokeDevice(d)
    BY <1>3
  <2> DEFINE t == SetRevoked(db, d)
  <2>1. d \in DOMAIN db.devices
    BY DEF RevokeDevice, EnsureActiveDevice
  <2>2. IsDatabase(t) /\ Consistent(t) /\ t.changes = db.changes
    BY <1>1, <2>1, AfterDeviceStatement
  <2> HIDE DEF t
  <2>3. /\ db' = t /\ writer = NoHandler /\ fresh' = [g \in Handler |-> FALSE]
        /\ UNCHANGED <<writer, pc, ops, done, view, asked, acks>>
    BY DEF RevokeDevice, t
  <2>4. /\ pc' \in [Handler -> ControlPoint]
        /\ asked' \in [Handler -> (Device \X Name) \cup {<< >>}]
        /\ \A g \in Handler : pc'[g] = pc[g] /\ asked'[g] = asked[g]
    BY <2>3 DEF IInv, TypeOK
  <2>5. QED BY <2>2, <2>3, <2>4, DeviceCommitKeepsInv
<1>4. QED BY <1>2, <1>3

(* A crash forgets the transactions and keeps what was committed. *)
LEMMA CrashKeepsInv ==
  ASSUME IInv, Crash
  PROVE  IInv'
<1> USE DEF Idle, Select, Insert, Check, Write, Commit, Reply, Crash
<1>1. TypeOK' /\ AllConsistent'
  BY EmptyIsConsistent DEF IInv, TypeOK, AllConsistent, ControlPoint
<1>2. ControlInv'
  BY EmptyIsConsistent DEF ControlInv
<1>3. LockInv' /\ AnswerInv'
  BY HandlerAssumption DEF LockInv, AnswerInv
<1>4. AckedWritesAreLogged'
  BY AcksUnchanged
<1>5. QED BY <1>1, <1>2, <1>3, <1>4 DEF IInv

(* Every step of a handler, a client or the process keeps the invariant. *)
LEMMA StepInv == IInv /\ [Next]_vars => IInv'
<1> SUFFICES ASSUME IInv, [Next]_vars PROVE IInv'
  OBVIOUS
<1>1. ASSUME NEW h \in Handler, NEW r \in Request, BeginWrite(h, r) PROVE IInv'
  BY <1>1, BeginKeepsInv
<1>2. ASSUME NEW h \in Handler, NEW d \in Device, NEW n \in Name, BeginRegister(h, d, n)
      PROVE  IInv'
  BY <1>2, BeginKeepsInv
<1>3. ASSUME NEW h \in Handler, HandlerStep(h) PROVE IInv'
  <2>1. CASE CheckOperation(h) BY <2>1, CheckKeepsInv
  <2>2. CASE RejectOperation(h)
    BY <2>2, ReleaseKeepsInv, AcksUnchanged DEF RejectOperation
  <2>3. CASE WriteOperation(h) BY <2>3, WriteKeepsInv
  <2>4. CASE WriteFails(h)
    BY <2>4, ReleaseKeepsInv, AcksUnchanged DEF WriteFails
  <2>5. CASE CommitWrite(h) BY <2>5, CommitKeepsInv
  <2>6. CASE SendReply(h) BY <2>6, ReplyKeepsInv
  <2>7. CASE SelectDevice(h) BY <2>7, SelectKeepsInv
  <2>8. CASE InsertRow(h) BY <2>8, DeviceStatementsKeepInv
  <2>9. CASE InsertFails(h)
    BY <2>9, ReleaseKeepsInv, AcksUnchanged DEF InsertFails
  <2>10. QED
    BY <1>3, <2>1, <2>2, <2>3, <2>4, <2>5, <2>6, <2>7, <2>8, <2>9 DEF HandlerStep
<1>4. ASSUME NEW h \in Handler, DropHandler(h) PROVE IInv'
  BY <1>4, ReleaseKeepsInv, AcksUnchanged DEF DropHandler
<1>5. ASSUME NEW d \in Device, RevokeDevice(d) PROVE IInv'
  BY <1>5, DeviceStatementsKeepInv
<1>6. CASE Crash BY <1>6, CrashKeepsInv
<1>7. CASE UNCHANGED vars
  BY <1>7 DEF vars, IInv, TypeOK, AllConsistent, ControlInv, LockInv, AnswerInv,
              AckedWritesAreLogged, Next1
<1>8. QED BY <1>1, <1>2, <1>3, <1>4, <1>5, <1>6, <1>7 DEF Next

(* The invariant holds in every reachable state. *)
LEMMA Invariance == Spec => []IInv
BY InitInv, StepInv, PTL DEF Spec

(***************************************************************************)
(* Theorems                                                                *)
(***************************************************************************)

(* Every reachable state of the server is well typed, whatever requests    *)
(* arrive and however the handlers of api.rs interleave.                   *)
THEOREM TypeCorrect == Spec => []TypeOK
<1>1. IInv => TypeOK
  BY DEF IInv
<1>2. QED BY <1>1, Invariance, PTL

(* The objects and changes tables that put_object_tx and delete_object_tx  *)
(* write tell the same story in every committed state.                     *)
THEOREM RowsAlwaysMatchLog == Spec => []RowsMatchLog
<1>1. IInv => RowsMatchLog
  BY DEF IInv, AllConsistent, Consistent, RowsMatchLog
<1>2. QED BY <1>1, Invariance, PTL

(* The changes of an object carry the revisions 1, 2, 3 ...: the promise   *)
(* of docs/protocol.md, "transactionally create revision base + 1".        *)
THEOREM RevisionsAreConsecutive == Spec => []RevisionHistory
<1>1. IInv => RevisionHistory
  BY DEF IInv, AllConsistent, Consistent, RevisionHistory
<1>2. QED BY <1>1, Invariance, PTL

(* No write a client was told of is ever lost from the log. *)
THEOREM AckedWritesStayLogged == Spec => []AckedWritesAreLogged
<1>1. IInv => AckedWritesAreLogged
  BY DEF IInv
<1>2. QED BY <1>1, Invariance, PTL

(* Whatever a step does to the committed database extends it, or leaves    *)
(* its changes and objects alone and only adds or revokes a device.        *)
DeviceTableKept ==
  \A d \in DOMAIN db.devices :
    /\ d \in DOMAIN db'.devices
    /\ db'.devices[d].name = db.devices[d].name
    /\ db.devices[d].revoked => db'.devices[d].revoked

(* A step extends the committed database as a write does, or changes device *)
(* rows only, and takes none of them back.                                 *)
LEMMA CommitExtends ==
  ASSUME IInv, [Next]_vars
  PROVE  \/ IsExtension(db', db)
         \/ db'.changes = db.changes /\ db'.objects = db.objects /\ DeviceTableKept
<1>1. IsDatabase(db)
  BY DEF IInv, TypeOK
<1>2. CASE db' = db
  BY <1>2 DEF DeviceTableKept
<1>3. CASE \E h \in Handler : CommitWrite(h)
  <2> PICK h \in Handler : CommitWrite(h)
    BY <1>3
  <2>1. writer = h /\ db' = view[h]
    BY DEF CommitWrite, Publish, IInv, LockInv
  <2>2. QED BY <2>1 DEF IInv, LockInv
<1>4. CASE \E h \in Handler : InsertRow(h)
  <2> PICK h \in Handler : InsertRow(h)
    BY <1>4
  <2> DEFINE d == asked[h][1]
             r == [name |-> asked[h][2], revoked |-> FALSE]
  <2>1. d \notin DOMAIN db.devices /\ db' = InsertDevice(db, d, asked[h][2])
    BY DEF InsertRow
  <2>2. /\ db'.changes = db.changes /\ db'.objects = db.objects
        /\ db'.devices = Upsert(db.devices, d, r)
    BY <1>1, <2>1 DEF InsertDevice, IsDatabase
  <2> HIDE DEF d, r
  <2>3. QED BY <2>1, <2>2 DEF Upsert, DeviceTableKept
<1>5. CASE \E d \in Device : RevokeDevice(d)
  <2> PICK d \in Device : RevokeDevice(d)
    BY <1>5
  <2>1. d \in DOMAIN db.devices /\ db' = SetRevoked(db, d)
    BY DEF RevokeDevice, EnsureActiveDevice
  <2>2. /\ db'.changes = db.changes /\ db'.objects = db.objects
        /\ db'.devices = [db.devices EXCEPT ![d].revoked = TRUE]
    BY <1>1, <2>1 DEF SetRevoked, IsDatabase
  <2>3. \A x \in DOMAIN db.devices : db.devices[x] \in DeviceRow
    BY <1>1 DEF IsDatabase, IsTable
  <2>4. QED BY <2>1, <2>2, <2>3 DEF DeviceTableKept, DeviceRow
<1>6. QED
  BY <1>2, <1>3, <1>4, <1>5
  DEF Next, vars, HandlerStep, BeginWrite, BeginRegister, CheckOperation,
      RejectOperation, WriteOperation, WriteFails, SendReply, SelectDevice,
      InsertFails, DropHandler, Crash

(* The log is append-only, device rows are permanent and tombstones stay:  *)
(* no handler of api.rs, and no interleaving of them, takes anything back.  *)
THEOREM HistoryStays == Spec => HistoryIsKept
<1> DEFINE Kept ==
      /\ \A i \in DOMAIN db.changes :
           i \in DOMAIN db'.changes /\ db'.changes[i] = db.changes[i]
      /\ \A d \in DOMAIN db.devices :
           /\ d \in DOMAIN db'.devices
           /\ db'.devices[d].name = db.devices[d].name
           /\ db.devices[d].revoked => db'.devices[d].revoked
      /\ DOMAIN db.objects \subseteq DOMAIN db'.objects
<1>1. ASSUME IInv, IInv', [Next]_vars PROVE Kept
  <2>1. /\ DOMAIN db.changes = 1 .. Len(db.changes) /\ Len(db.changes) \in Nat
        /\ DOMAIN db'.changes = 1 .. Len(db'.changes) /\ Len(db'.changes) \in Nat
    BY <1>1 DEF IInv, TypeOK, IsDatabase
  <2>2. CASE IsExtension(db', db)
    BY <2>1, <2>2 DEF IsExtension
  <2>3. CASE db'.changes = db.changes /\ db'.objects = db.objects /\ DeviceTableKept
    BY <2>3 DEF DeviceTableKept
  <2>4. QED BY <1>1, <2>2, <2>3, CommitExtends
<1>2. IInv /\ IInv' /\ [Next]_vars => [Kept]_vars
  BY <1>1
<1>3. QED BY <1>2, Invariance, PTL DEF Spec, HistoryIsKept

(* Revoking a device blocks its later writes (docs/security-model.md),     *)
(* those in flight included: ensure_active_device reads in the snapshot    *)
(* that the write lock then requires to be the last commit.                *)
THEOREM RevocationHolds == Spec => RevokedDevicesDoNotWrite
<1> DEFINE Blocked ==
      \A i \in DOMAIN db'.changes \ DOMAIN db.changes :
        EnsureActiveDevice(db, db'.changes[i].device)
<1>1. ASSUME IInv, IInv', [Next]_vars PROVE Blocked
  <2>1. /\ DOMAIN db.changes = 1 .. Len(db.changes) /\ Len(db.changes) \in Nat
        /\ DOMAIN db'.changes = 1 .. Len(db'.changes) /\ Len(db'.changes) \in Nat
    BY <1>1 DEF IInv, TypeOK, IsDatabase
  <2>2. CASE IsExtension(db', db)
    <3> SUFFICES ASSUME NEW i \in 1 .. Len(db'.changes), i \notin 1 .. Len(db.changes)
                 PROVE  EnsureActiveDevice(db, db'.changes[i].device)
      BY <2>1
    <3>1. i \in Len(db.changes) + 1 .. Len(db'.changes)
      BY <2>1
    <3>2. QED BY <2>2, <3>1 DEF IsExtension
  <2>3. CASE db'.changes = db.changes
    BY <2>3
  <2>4. QED BY <1>1, <2>2, <2>3, CommitExtends
<1>2. IInv /\ IInv' /\ [Next]_vars => [Blocked]_vars
  BY <1>1
<1>3. QED BY <1>2, Invariance, PTL DEF Spec, RevokedDevicesDoNotWrite
=============================================================================
