--------------------- MODULE SyncServerRefinementProofs ---------------------
(***************************************************************************)
(* SyncServer implements ObjectStore: every step of a handler is one whole  *)
(* request of the store, a device statement, or a stutter.                 *)
(***************************************************************************)
EXTENDS SyncServerProofs, FiniteSetTheorems

(***************************************************************************)
(* What the first k operations of request r make of database t, in terms   *)
(* of t and r alone.  A transaction applies them one by one to its copy;   *)
(* the store says at once what all of them do.                             *)
(***************************************************************************)

OpsOn(r, k, o) == {j \in 1 .. k : r[j].object = o}

PutsOn(r, k, o) == {j \in OpsOn(r, k, o) : r[j].kind = "put"}

RevisionAfter(t, r, k, o) == Cardinality(ChangesIn(t, o)) + Cardinality(OpsOn(r, k, o))

NamespaceAfter(t, r, k, o) ==
  IF PutsOn(r, k, o) # {} THEN r[Store!Latest(PutsOn(r, k, o))].namespace
                          ELSE t.changes[Store!Latest(ChangesIn(t, o))].namespace

EnvelopeAfter(t, r, k, o) ==
  IF OpsOn(r, k, o) # {} THEN Store!Written(r[Store!Latest(OpsOn(r, k, o))])
                         ELSE t.objects[o].envelope

AcceptableAt(t, r, i) ==
  LET n == RevisionAfter(t, r, i - 1, r[i].object) IN
  /\ EnsureActiveDevice(t, r[i].device)
  /\ r[i].base = IF n = 0 THEN NoBase ELSE n
  /\ r[i].kind = "put" => r[i].envelope # Malformed

EntryAt(t, r, i) ==
  [object |-> r[i].object,
   namespace |-> IF r[i].kind = "put" THEN r[i].namespace
                                      ELSE NamespaceAfter(t, r, i - 1, r[i].object),
   revision |-> RevisionAfter(t, r, i - 1, r[i].object) + 1,
   device |-> r[i].device,
   deleted |-> r[i].kind = "delete"]

(* Database v is t after the first k operations of r. *)
Applied(v, t, r, k) ==
  /\ v.devices = t.devices
  /\ Len(v.changes) = Len(t.changes) + k
  /\ \A i \in 1 .. Len(t.changes) : v.changes[i] = t.changes[i]
  /\ \A i \in 1 .. k : /\ AcceptableAt(t, r, i)
                       /\ v.changes[Len(t.changes) + i] = EntryAt(t, r, i)
  /\ DOMAIN v.objects = DOMAIN t.objects \cup {r[i].object : i \in 1 .. k}
  /\ \A o \in DOMAIN v.objects :
       /\ v.objects[o].revision = RevisionAfter(t, r, k, o)
       /\ v.objects[o].namespace = NamespaceAfter(t, r, k, o)
       /\ v.objects[o].envelope = EnvelopeAfter(t, r, k, o)

(* The revision of a row counts the changes of its object. *)
Counted(t) ==
  \A o \in DOMAIN t.objects : t.objects[o].revision = Cardinality(ChangesIn(t, o))

(* The copy of the transaction with the write lock is the committed         *)
(* database after the operations it has applied so far; it commits after   *)
(* the last one.                                                           *)
RefInv ==
  /\ Counted(db)
  /\ \A h \in Handler :
       /\ Counted(view[h])
       /\ writer = h => Applied(view[h], db, ops[h], done[h])
       /\ pc[h] = Commit => ops[h] \in Request /\ done[h] = Len(ops[h])

(***************************************************************************)
(* Lemmas about sets of positions                                          *)
(***************************************************************************)

(* The latest position is the one that no other exceeds. *)
LEMMA LatestIs ==
  ASSUME NEW S \in SUBSET Nat, NEW m \in S, \A j \in S : j <= m
  PROVE  Store!Latest(S) = m
<1>1. \A i \in S : (\A j \in S : j <= i) => i = m
  <2> SUFFICES ASSUME NEW i \in S, \A j \in S : j <= i PROVE i = m
    OBVIOUS
  <2>1. i <= m /\ m <= i /\ i \in Nat /\ m \in Nat
    OBVIOUS
  <2> QED BY <2>1
<1> QED BY <1>1 DEF Store!Latest

(* The changes of an object and the operations on it can be counted. *)
LEMMA Counts ==
  ASSUME NEW t, IsDatabase(t), NEW r, NEW k \in Nat, NEW o
  PROVE  /\ IsFiniteSet(ChangesIn(t, o)) /\ IsFiniteSet(OpsOn(r, k, o))
         /\ Cardinality(ChangesIn(t, o)) \in Nat /\ Cardinality(OpsOn(r, k, o)) \in Nat
         /\ Cardinality(ChangesIn(t, o)) = 0 <=> ChangesIn(t, o) = {}
         /\ Cardinality(OpsOn(r, k, o)) = 0 <=> OpsOn(r, k, o) = {}
         /\ ChangesIn(t, o) \subseteq 1 .. Len(t.changes) /\ Len(t.changes) \in Nat
<1>1. Len(t.changes) \in Nat /\ DOMAIN t.changes = 1 .. Len(t.changes)
  BY DEF IsDatabase
<1>2. ChangesIn(t, o) \in SUBSET (1 .. Len(t.changes)) /\ OpsOn(r, k, o) \in SUBSET (1 .. k)
  BY <1>1 DEF ChangesIn, OpsOn
<1>3. IsFiniteSet(1 .. Len(t.changes)) /\ IsFiniteSet(1 .. k)
  BY <1>1, FS_Interval
<1>4. IsFiniteSet(ChangesIn(t, o)) /\ IsFiniteSet(OpsOn(r, k, o))
  BY <1>2, <1>3, FS_Subset
<1> QED BY <1>1, <1>2, <1>4, FS_CardinalityType, FS_EmptySet

(* One more operation is the latest on its object, and none on the others. *)
LEMMA OneMore ==
  ASSUME NEW r \in Seq(Operation), NEW k \in Nat, k < Len(r), NEW o
  PROVE  /\ o = r[k + 1].object =>
              /\ OpsOn(r, k + 1, o) = OpsOn(r, k, o) \cup {k + 1}
              /\ Cardinality(OpsOn(r, k + 1, o)) = Cardinality(OpsOn(r, k, o)) + 1
              /\ Store!Latest(OpsOn(r, k + 1, o)) = k + 1
              /\ r[k + 1].kind = "put" => /\ PutsOn(r, k + 1, o) # {}
                                          /\ Store!Latest(PutsOn(r, k + 1, o)) = k + 1
              /\ r[k + 1].kind # "put" => PutsOn(r, k + 1, o) = PutsOn(r, k, o)
         /\ o # r[k + 1].object =>
              OpsOn(r, k + 1, o) = OpsOn(r, k, o) /\ PutsOn(r, k + 1, o) = PutsOn(r, k, o)
<1>1. CASE o # r[k + 1].object
  <2>1. OpsOn(r, k + 1, o) = OpsOn(r, k, o)
    BY <1>1 DEF OpsOn
  <2> QED BY <1>1, <2>1 DEF PutsOn
<1>2. CASE o = r[k + 1].object
  <2>1. OpsOn(r, k + 1, o) = OpsOn(r, k, o) \cup {k + 1} /\ k + 1 \notin OpsOn(r, k, o)
    BY <1>2 DEF OpsOn
  <2>2. IsFiniteSet(OpsOn(r, k, o))
    <3>1. OpsOn(r, k, o) \in SUBSET (1 .. k) /\ IsFiniteSet(1 .. k)
      BY FS_Interval DEF OpsOn
    <3> QED BY <3>1, FS_Subset
  <2>3. Cardinality(OpsOn(r, k + 1, o)) = Cardinality(OpsOn(r, k, o)) + 1
    BY <2>1, <2>2, FS_AddElement
  <2>4. /\ OpsOn(r, k + 1, o) \in SUBSET Nat /\ PutsOn(r, k + 1, o) \in SUBSET Nat
        /\ \A j \in OpsOn(r, k + 1, o) : j <= k + 1
        /\ \A j \in PutsOn(r, k + 1, o) : j <= k + 1
    BY DEF OpsOn, PutsOn
  <2>5. Store!Latest(OpsOn(r, k + 1, o)) = k + 1
    BY <2>1, <2>4, LatestIs
  <2>6. ASSUME r[k + 1].kind = "put"
        PROVE  /\ PutsOn(r, k + 1, o) # {}
               /\ Store!Latest(PutsOn(r, k + 1, o)) = k + 1
    <3>1. k + 1 \in PutsOn(r, k + 1, o)
      BY <2>1, <2>6 DEF PutsOn
    <3> QED BY <2>4, <3>1, LatestIs
  <2>7. ASSUME r[k + 1].kind # "put"
        PROVE  PutsOn(r, k + 1, o) = PutsOn(r, k, o)
    BY <2>1, <2>7 DEF PutsOn
  <2> QED BY <1>2, <2>1, <2>3, <2>5, <2>6, <2>7
<1> QED BY <1>1, <1>2

(***************************************************************************)
(* Lemmas about one operation                                              *)
(***************************************************************************)

(* A write keeps the revision of its object the count of its changes. *)
LEMMA WriteCounts ==
  ASSUME NEW t, IsDatabase(t), RowIsLastChange(t), Counted(t),
         NEW op \in Operation, OperationAllowed(t, op)
  PROVE  Counted(ApplyOperation(t, op))
<1> DEFINE u == ApplyOperation(t, op)
           n == Len(t.changes)
<1>1. /\ DOMAIN u.changes = 1 .. n + 1
      /\ \A i \in 1 .. n : u.changes[i] = t.changes[i]
      /\ u.changes[n + 1] = ChangeOf(t, op)
      /\ DOMAIN u.objects = DOMAIN t.objects \cup {op.object}
      /\ u.objects[op.object] = ObjectOf(t, op)
      /\ \A x \in DOMAIN t.objects \ {op.object} : u.objects[x] = t.objects[x]
  BY AfterWrite
<1>2. n \in Nat /\ DOMAIN t.changes = 1 .. n
  BY DEF IsDatabase
<1>3. u.changes[n + 1].object = op.object /\ u.objects[op.object].revision = NewRevision(op)
  BY <1>1 DEF ChangeOf, ObjectOf
<1> HIDE DEF u
<1>4. ASSUME NEW o \in DOMAIN u.objects, o # op.object
      PROVE  u.objects[o].revision = Cardinality(ChangesIn(u, o))
  <2>1. ChangesIn(u, o) = ChangesIn(t, o)
    BY <1>1, <1>2, <1>3, <1>4 DEF ChangesIn
  <2>2. o \in DOMAIN t.objects /\ u.objects[o] = t.objects[o]
    BY <1>1, <1>4
  <2> QED BY <2>1, <2>2 DEF Counted
<1>5. NewRevision(op) = Cardinality(ChangesIn(u, op.object))
  <2>1. /\ ChangesIn(u, op.object) = ChangesIn(t, op.object) \cup {n + 1}
        /\ n + 1 \notin ChangesIn(t, op.object)
    BY <1>1, <1>2, <1>3 DEF ChangesIn
  <2>2. Cardinality(ChangesIn(u, op.object)) = Cardinality(ChangesIn(t, op.object)) + 1
    <3>1. IsFiniteSet(ChangesIn(t, op.object))
      BY Counts
    <3> QED BY <2>1, <3>1, FS_AddElement
  <2>3. NewRevision(op) = Cardinality(ChangesIn(t, op.object)) + 1
    <3>1. CASE op.object \in DOMAIN t.objects
      <4>1. op.base = Cardinality(ChangesIn(t, op.object))
        BY <3>1 DEF OperationAllowed, BaseMatches, Counted
      <4>2. op.base \in Nat
        BY <4>1, Counts
      <4> QED BY <4>1, <4>2, SentinelAssumption DEF NewRevision
    <3>2. CASE op.object \notin DOMAIN t.objects
      <4>1. ChangesIn(t, op.object) = {}
        BY <3>2 DEF RowIsLastChange, ChangesIn
      <4>2. Cardinality(ChangesIn(t, op.object)) = 0
        BY <4>1, FS_EmptySet
      <4>3. op.base = NoBase
        BY <3>2 DEF OperationAllowed, BaseMatches
      <4> QED BY <4>2, <4>3 DEF NewRevision
    <3> QED BY <3>1, <3>2
  <2> QED BY <2>2, <2>3
<1> QED BY <1>1, <1>3, <1>4, <1>5 DEF Counted, u

(* A snapshot is the committed database after no operation. *)
LEMMA AppliedNothing ==
  ASSUME NEW t, IsDatabase(t), RowIsLastChange(t), Counted(t), NEW r
  PROVE  Applied(t, t, r, 0)
<1>1. Len(t.changes) \in Nat
  BY DEF IsDatabase
<1>2. \A o : OpsOn(r, 0, o) = {} /\ PutsOn(r, 0, o) = {}
  BY DEF OpsOn, PutsOn
<1>3. ASSUME NEW o \in DOMAIN t.objects
      PROVE  /\ t.objects[o].revision = RevisionAfter(t, r, 0, o)
             /\ t.objects[o].namespace = NamespaceAfter(t, r, 0, o)
             /\ t.objects[o].envelope = EnvelopeAfter(t, r, 0, o)
  <2>1. t.objects[o].revision = RevisionAfter(t, r, 0, o)
    <3>1. Cardinality(OpsOn(r, 0, o)) = 0
      BY <1>2, FS_EmptySet
    <3>2. Cardinality(ChangesIn(t, o)) \in Nat
      BY Counts
    <3> QED BY <3>1, <3>2 DEF RevisionAfter, Counted
  <2>2. t.objects[o].namespace = NamespaceAfter(t, r, 0, o)
    <3> DEFINE row == t.objects[o]
    <3>1. /\ row.cursor \in ChangesIn(t, o)
          /\ \A i \in ChangesIn(t, o) : i <= row.cursor
          /\ t.changes[row.cursor] =
               [object |-> o, namespace |-> row.namespace, revision |-> row.revision,
                device |-> row.device, deleted |-> row.deleted]
      BY DEF RowIsLastChange
    <3>2. ChangesIn(t, o) \in SUBSET Nat
      BY Counts
    <3> HIDE DEF row
    <3>3. Store!Latest(ChangesIn(t, o)) = row.cursor
      BY <3>1, <3>2, LatestIs
    <3>4. t.changes[row.cursor].namespace = row.namespace
      BY <3>1
    <3> QED BY <1>2, <3>3, <3>4 DEF NamespaceAfter, row
  <2>3. t.objects[o].envelope = EnvelopeAfter(t, r, 0, o)
    BY <1>2 DEF EnvelopeAfter
  <2> QED BY <2>1, <2>2, <2>3
<1>4. {r[i].object : i \in 1 .. 0} = {}
  OBVIOUS
<1> QED BY <1>1, <1>3, <1>4 DEF Applied

(* The checks of an operation are those of the store: it names the revision *)
(* that its object has after the operations before it.                     *)
LEMMA ChecksAreTheStores ==
  ASSUME NEW t, IsDatabase(t), RowIsLastChange(t),
         NEW v, NEW r \in Seq(Operation), NEW k \in Nat, k < Len(r),
         Applied(v, t, r, k), OperationAllowed(v, r[k + 1])
  PROVE  /\ AcceptableAt(t, r, k + 1)
         /\ NewRevision(r[k + 1]) = RevisionAfter(t, r, k, r[k + 1].object) + 1
         /\ NamespaceOf(v, r[k + 1]) =
              IF r[k + 1].kind = "put" THEN r[k + 1].namespace
              ELSE NamespaceAfter(t, r, k, r[k + 1].object)
<1> DEFINE op == r[k + 1]
           o == op.object
           n == RevisionAfter(t, r, k, o)
<1>1. /\ Cardinality(ChangesIn(t, o)) \in Nat /\ Cardinality(OpsOn(r, k, o)) \in Nat
      /\ Cardinality(ChangesIn(t, o)) = 0 <=> ChangesIn(t, o) = {}
      /\ Cardinality(OpsOn(r, k, o)) = 0 <=> OpsOn(r, k, o) = {}
  BY Counts
<1>2. n \in Nat /\ (n = 0 <=> ChangesIn(t, o) = {} /\ OpsOn(r, k, o) = {})
  BY <1>1 DEF RevisionAfter
<1>3. o \in DOMAIN v.objects <=> n # 0
  <2>1. o \in DOMAIN t.objects <=> ChangesIn(t, o) # {}
    <3>1. o \in DOMAIN t.objects => t.objects[o].cursor \in ChangesIn(t, o)
      BY DEF RowIsLastChange
    <3>2. \A i \in DOMAIN t.changes : t.changes[i].object \in DOMAIN t.objects
      BY DEF RowIsLastChange
    <3>3. ASSUME ChangesIn(t, o) # {} PROVE o \in DOMAIN t.objects
      BY <3>2, <3>3 DEF ChangesIn
    <3> QED BY <3>1, <3>3
  <2>2. o \in {r[i].object : i \in 1 .. k} <=> OpsOn(r, k, o) # {}
    BY DEF OpsOn
  <2>3. DOMAIN v.objects = DOMAIN t.objects \cup {r[i].object : i \in 1 .. k}
    BY DEF Applied
  <2> QED BY <1>2, <2>1, <2>2, <2>3
<1>4. op.base = IF n = 0 THEN NoBase ELSE n
  <2>1. CASE n = 0
    BY <1>3, <2>1 DEF OperationAllowed, BaseMatches
  <2>2. CASE n # 0
    <3>1. v.objects[o].revision = n
      BY <1>3, <2>2 DEF Applied
    <3> QED BY <1>3, <2>2, <3>1 DEF OperationAllowed, BaseMatches
  <2> QED BY <2>1, <2>2
<1>5. NewRevision(op) = n + 1
  BY <1>2, <1>4, SentinelAssumption DEF NewRevision
<1>6. NamespaceOf(v, op) =
        IF op.kind = "put" THEN op.namespace ELSE NamespaceAfter(t, r, k, o)
  <2>1. CASE op.kind = "put"
    BY <2>1 DEF NamespaceOf
  <2>2. CASE op.kind # "put"
    <3>1. o \in DOMAIN v.objects
      BY <2>2 DEF OperationAllowed, BaseMatches
    <3> QED BY <2>2, <3>1 DEF NamespaceOf, Applied
  <2> QED BY <2>1, <2>2
<1>7. EnsureActiveDevice(t, op.device)
  BY DEF OperationAllowed, EnsureActiveDevice, Applied
<1>8. op.kind = "put" => op.envelope # Malformed
  BY DEF OperationAllowed
<1>9. (k + 1) - 1 = k
  OBVIOUS
<1>10. AcceptableAt(t, r, k + 1)
  BY <1>4, <1>7, <1>8, <1>9 DEF AcceptableAt
<1> QED BY <1>5, <1>6, <1>10

(* One more operation applied. *)
LEMMA AppliedOneMore ==
  ASSUME NEW t, IsDatabase(t), RowIsLastChange(t), NEW v, IsDatabase(v),
         NEW r \in Seq(Operation), NEW k \in Nat, k < Len(r),
         Applied(v, t, r, k), OperationAllowed(v, r[k + 1])
  PROVE  Applied(ApplyOperation(v, r[k + 1]), t, r, k + 1)
<1> DEFINE op == r[k + 1]
           u == ApplyOperation(v, op)
           n == Len(t.changes)
<1>1. op \in Operation
  OBVIOUS
<1>2. /\ u.devices = v.devices
      /\ Len(u.changes) = Len(v.changes) + 1
      /\ \A i \in 1 .. Len(v.changes) : u.changes[i] = v.changes[i]
      /\ u.changes[Len(v.changes) + 1] = ChangeOf(v, op)
      /\ DOMAIN u.objects = DOMAIN v.objects \cup {op.object}
      /\ u.objects[op.object] = ObjectOf(v, op)
      /\ \A x \in DOMAIN v.objects \ {op.object} : u.objects[x] = v.objects[x]
  BY <1>1, AfterWrite
<1>3. /\ n \in Nat /\ Len(v.changes) = n + k /\ v.devices = t.devices
      /\ DOMAIN v.objects = DOMAIN t.objects \cup {r[i].object : i \in 1 .. k}
  BY DEF IsDatabase, Applied
<1>4. /\ AcceptableAt(t, r, k + 1)
      /\ NewRevision(op) = RevisionAfter(t, r, k, op.object) + 1
      /\ NamespaceOf(v, op) = IF op.kind = "put" THEN op.namespace
                              ELSE NamespaceAfter(t, r, k, op.object)
  BY ChecksAreTheStores
<1> HIDE DEF u, op, n
<1>5. \A i \in 1 .. n : u.changes[i] = t.changes[i]
  BY <1>2, <1>3 DEF Applied, n
<1>6. ASSUME NEW i \in 1 .. k + 1
      PROVE  AcceptableAt(t, r, i) /\ u.changes[n + i] = EntryAt(t, r, i)
  <2>1. CASE i \in 1 .. k
    <3>1. AcceptableAt(t, r, i) /\ v.changes[n + i] = EntryAt(t, r, i)
      BY <2>1 DEF Applied, n
    <3>2. n + i \in 1 .. Len(v.changes)
      BY <1>3, <2>1
    <3> QED BY <1>2, <3>1, <3>2
  <2>2. CASE i = k + 1
    <3>1. u.changes[n + i] = ChangeOf(v, op)
      <4>1. n + i = Len(v.changes) + 1
        BY <1>3, <2>2
      <4> QED BY <1>2, <4>1
    <3>2. i - 1 = k /\ r[i] = op
      BY <2>2 DEF op
    <3>3. ChangeOf(v, op) = EntryAt(t, r, i)
      BY <1>4, <3>2 DEF ChangeOf, EntryAt
    <3> QED BY <1>4, <2>2, <3>1, <3>3
  <2> QED BY <2>1, <2>2
<1>7. DOMAIN u.objects = DOMAIN t.objects \cup {r[i].object : i \in 1 .. k + 1}
  <2>1. {r[i].object : i \in 1 .. k + 1} = {r[i].object : i \in 1 .. k} \cup {op.object}
    BY DEF op
  <2> QED BY <1>2, <1>3, <2>1
<1>8. ASSUME NEW o \in DOMAIN u.objects
      PROVE  /\ u.objects[o].revision = RevisionAfter(t, r, k + 1, o)
             /\ u.objects[o].namespace = NamespaceAfter(t, r, k + 1, o)
             /\ u.objects[o].envelope = EnvelopeAfter(t, r, k + 1, o)
  <2>1. CASE o # op.object
    <3>1. o \in DOMAIN v.objects /\ u.objects[o] = v.objects[o]
      BY <1>2, <2>1
    <3>2. OpsOn(r, k + 1, o) = OpsOn(r, k, o) /\ PutsOn(r, k + 1, o) = PutsOn(r, k, o)
      BY <2>1, OneMore DEF op
    <3>3. /\ v.objects[o].revision = RevisionAfter(t, r, k, o)
          /\ v.objects[o].namespace = NamespaceAfter(t, r, k, o)
          /\ v.objects[o].envelope = EnvelopeAfter(t, r, k, o)
      BY <3>1 DEF Applied
    <3> QED BY <3>1, <3>2, <3>3 DEF RevisionAfter, NamespaceAfter, EnvelopeAfter
  <2>2. CASE o = op.object
    <3>1. /\ u.objects[o].revision = NewRevision(op)
          /\ u.objects[o].namespace = NamespaceOf(v, op)
          /\ u.objects[o].envelope = IF op.kind = "put" THEN op.envelope ELSE NoEnvelope
      BY <1>2, <2>2 DEF ObjectOf
    <3>2. /\ OpsOn(r, k + 1, o) = OpsOn(r, k, o) \cup {k + 1}
          /\ Cardinality(OpsOn(r, k + 1, o)) = Cardinality(OpsOn(r, k, o)) + 1
          /\ Store!Latest(OpsOn(r, k + 1, o)) = k + 1
          /\ op.kind = "put" => /\ PutsOn(r, k + 1, o) # {}
                                /\ Store!Latest(PutsOn(r, k + 1, o)) = k + 1
          /\ op.kind # "put" => PutsOn(r, k + 1, o) = PutsOn(r, k, o)
      <4>1. o = r[k + 1].object
        BY <2>2 DEF op
      <4>2. /\ OpsOn(r, k + 1, o) = OpsOn(r, k, o) \cup {k + 1}
            /\ Cardinality(OpsOn(r, k + 1, o)) = Cardinality(OpsOn(r, k, o)) + 1
            /\ Store!Latest(OpsOn(r, k + 1, o)) = k + 1
        BY ONLY <4>1, OneMore, r \in Seq(Operation), k \in Nat, k < Len(r)
      <4>3. /\ r[k + 1].kind = "put" => /\ PutsOn(r, k + 1, o) # {}
                                        /\ Store!Latest(PutsOn(r, k + 1, o)) = k + 1
            /\ r[k + 1].kind # "put" => PutsOn(r, k + 1, o) = PutsOn(r, k, o)
        BY ONLY <4>1, OneMore, r \in Seq(Operation), k \in Nat, k < Len(r)
      <4> QED BY <4>2, <4>3 DEF op
    <3>3. u.objects[o].revision = RevisionAfter(t, r, k + 1, o)
      <4>1. /\ Cardinality(ChangesIn(t, o)) \in Nat
            /\ Cardinality(OpsOn(r, k, o)) \in Nat
        BY Counts
      <4> QED BY <1>4, <2>2, <3>1, <3>2, <4>1 DEF RevisionAfter
    <3>4. u.objects[o].namespace = NamespaceAfter(t, r, k + 1, o)
      <4>1. CASE op.kind = "put"
        BY <1>4, <3>1, <3>2, <4>1 DEF NamespaceAfter, op
      <4>2. CASE op.kind # "put"
        BY <1>4, <2>2, <3>1, <3>2, <4>2 DEF NamespaceAfter
      <4> QED BY <4>1, <4>2
    <3>5. u.objects[o].envelope = EnvelopeAfter(t, r, k + 1, o)
      <4>1. OpsOn(r, k + 1, o) # {} /\ r[Store!Latest(OpsOn(r, k + 1, o))] = op
        BY <3>2 DEF op
      <4>2. EnvelopeAfter(t, r, k + 1, o) = Store!Written(op)
        BY <4>1 DEF EnvelopeAfter
      <4> QED BY <3>1, <4>2 DEF Store!Written
    <3> QED BY <3>3, <3>4, <3>5
  <2> QED BY <2>1, <2>2
<1>9. u.devices = t.devices /\ Len(u.changes) = n + (k + 1)
  <2>1. Len(u.changes) = Len(v.changes) + 1 /\ u.devices = v.devices
    BY <1>2
  <2>2. (n + k) + 1 = n + (k + 1)
    BY <1>3
  <2> QED BY <1>3, <2>1, <2>2
<1>10. Applied(u, t, r, k + 1)
  BY <1>5, <1>6, <1>7, <1>8, <1>9 DEF Applied, n
<1> QED BY <1>10 DEF u, op

(* The store counts as the server does. *)
LEMMA SameCount == \A S : Store!Cardinality(S) = Cardinality(S)
BY DEF Store!Cardinality, Cardinality

(* A whole request applied is one write of the store. *)
LEMMA AppliedIsWrite ==
  ASSUME NEW r \in Request, IsDatabase(db), IsDatabase(db)',
         Applied(db', db, r, Len(r))
  PROVE  Store!Write(r)
<1> DEFINE v == db'
           n == Len(db.changes)
<1>1. r \in Seq(Operation) /\ Len(r) \in Nat /\ DOMAIN r = 1 .. Len(r)
  BY RequestAssumption
<1>2. /\ db.changes \in Seq(ChangeRow) /\ v.changes \in Seq(ChangeRow)
      /\ n \in Nat /\ Len(v.changes) = n + Len(r) /\ v.devices = db.devices
      /\ \A i \in 1 .. n : v.changes[i] = db.changes[i]
      /\ \A i \in 1 .. Len(r) : v.changes[n + i] = EntryAt(db, r, i) /\ AcceptableAt(db, r, i)
  BY DEF IsDatabase, Applied
<1>3. \A o : Store!ChangesOf(o) = ChangesIn(db, o)
  BY DEF Store!ChangesOf, ChangesIn
<1>4. ASSUME NEW i \in 1 .. Len(r)
      PROVE  /\ Store!Earlier(r, i) = OpsOn(r, i - 1, r[i].object)
             /\ Store!Replaced(r, i) = RevisionAfter(db, r, i - 1, r[i].object)
  <2>1. Store!Earlier(r, i) = OpsOn(r, i - 1, r[i].object)
    BY DEF Store!Earlier, OpsOn
  <2> QED BY <1>3, <2>1, SameCount DEF Store!Replaced, Store!Revision, RevisionAfter
<1>5. ASSUME NEW i \in 1 .. Len(r)
      PROVE  Store!Acceptable(r, i)
  <2>1. AcceptableAt(db, r, i)
    BY <1>2
  <2> QED BY <1>4, <2>1
      DEF Store!Acceptable, AcceptableAt, EnsureActiveDevice, Store!EnsureActiveDevice
<1>6. ASSUME NEW i \in 1 .. Len(r)
      PROVE  Store!Entry(r, i) = v.changes[n + i]
  <2>1. {j \in Store!Earlier(r, i) : r[j].kind = "put"} = PutsOn(r, i - 1, r[i].object)
    BY <1>4 DEF PutsOn
  <2>2. Store!KeptNamespace(r, i) = NamespaceAfter(db, r, i - 1, r[i].object)
    BY <1>3, <2>1 DEF Store!KeptNamespace, NamespaceAfter
  <2>3. Store!Entry(r, i) = EntryAt(db, r, i)
    BY <1>4, <2>2 DEF Store!Entry, EntryAt
  <2> QED BY <1>2, <2>3
<1>7. v.changes = db.changes \o [i \in DOMAIN r |-> Store!Entry(r, i)]
  <2> DEFINE new == [i \in 1 .. Len(r) |-> Store!Entry(r, i)]
  <2>1. \A i \in 1 .. Len(r) : n + i \in 1 .. Len(v.changes)
    BY <1>1, <1>2
  <2>2. \A i \in 1 .. Len(r) : Store!Entry(r, i) \in ChangeRow
    BY <1>2, <1>6, <2>1
  <2>3. new \in Seq(ChangeRow) /\ Len(new) = Len(r)
    BY <1>1, <2>2
  <2>4. \A i \in 1 .. Len(r) : new[i] = v.changes[n + i]
    BY <1>6
  <2> HIDE DEF new
  <2>5. /\ db.changes \o new \in Seq(ChangeRow)
        /\ Len(db.changes \o new) = n + Len(r)
        /\ \A i \in 1 .. n + Len(r) :
             (db.changes \o new)[i] = IF i <= n THEN db.changes[i] ELSE new[i - n]
    <3>1. PICK s \in Seq(ChangeRow) : s = db.changes
      BY <1>2
    <3>2. /\ s \o new \in Seq(ChangeRow)
          /\ Len(s \o new) = Len(s) + Len(new)
          /\ \A i \in 1 .. Len(s) + Len(new) :
               (s \o new)[i] = IF i <= Len(s) THEN s[i] ELSE new[i - Len(s)]
      BY <2>3, ConcatProperties
    <3> QED BY <2>3, <3>1, <3>2
  <2>6. ASSUME NEW i \in 1 .. Len(v.changes)
        PROVE  v.changes[i] = (db.changes \o new)[i]
    <3>1. CASE i <= n
      BY <1>1, <1>2, <2>5, <3>1
    <3>2. CASE ~(i <= n)
      <4>1. i - n \in 1 .. Len(r) /\ n + (i - n) = i
        BY <1>1, <1>2, <3>2
      <4>2. new[i - n] = v.changes[i]
        BY <2>4, <4>1
      <4> QED BY <1>2, <2>5, <3>2, <4>2
    <3> QED BY <3>1, <3>2
  <2>7. v.changes = db.changes \o new
    BY <1>2, <2>5, <2>6, SeqEqual
  <2> QED BY <1>1, <2>7 DEF new
<1>8. Store!Touched(r) = {r[i].object : i \in 1 .. Len(r)}
  BY <1>1 DEF Store!Touched
<1>9. ASSUME NEW o \in DOMAIN v.objects
      PROVE  v.objects[o].envelope =
               IF o \in Store!Touched(r) THEN Store!Written(Store!LastOn(r, o))
                                         ELSE db.objects[o].envelope
  <2>1. v.objects[o].envelope = EnvelopeAfter(db, r, Len(r), o)
    BY DEF Applied
  <2>2. o \in Store!Touched(r) <=> OpsOn(r, Len(r), o) # {}
    BY <1>8 DEF OpsOn
  <2>3. {i \in DOMAIN r : r[i].object = o} = OpsOn(r, Len(r), o)
    BY <1>1 DEF OpsOn
  <2> QED BY <2>1, <2>2, <2>3 DEF EnvelopeAfter, Store!LastOn
<1>10. DOMAIN v.objects = DOMAIN db.objects \cup Store!Touched(r)
  BY <1>8 DEF Applied
<1> QED BY <1>1, <1>2, <1>5, <1>7, <1>9, <1>10 DEF Store!Write

(***************************************************************************)
(* The refinement invariant                                                *)
(***************************************************************************)

(* Nothing is counted. *)
LEMMA EmptyIsCounted == Counted(EmptyDatabase)
BY DEF Counted, EmptyDatabase, NoRows

(* A server that starts has no rows and no transactions. *)
LEMMA InitRef == Init => RefInv
<1> SUFFICES ASSUME Init PROVE RefInv
  OBVIOUS
<1>1. db = EmptyDatabase /\ \A h \in Handler : view[h] = EmptyDatabase
  BY DEF Init
<1>2. \A h \in Handler : writer # h /\ pc[h] # Commit
  BY HandlerAssumption DEF Init, Idle, Commit
<1> QED BY <1>1, <1>2, EmptyIsCounted DEF RefInv

(* A step that neither commits nor writes: whoever has the lock or is to    *)
(* commit afterwards had it before, with the same copy and request.        *)
LEMMA QuietKeepsRef ==
  ASSUME RefInv, db' = db,
         \A g \in Handler :
           /\ view'[g] \in {view[g], db, EmptyDatabase}
           /\ writer' = g =>
                writer = g /\ view'[g] = view[g] /\ ops'[g] = ops[g] /\ done'[g] = done[g]
           /\ pc'[g] = Commit =>
                pc[g] = Commit /\ ops'[g] = ops[g] /\ done'[g] = done[g]
  PROVE  RefInv'
<1>1. Counted(db)'
  BY DEF RefInv, Counted, ChangesIn
<1>2. ASSUME NEW g \in Handler PROVE Counted(view'[g])
  BY EmptyIsCounted DEF RefInv
<1>3. ASSUME NEW g \in Handler, writer' = g
      PROVE  Applied(view'[g], db', ops'[g], done'[g])
  BY <1>3 DEF RefInv
<1>4. ASSUME NEW g \in Handler, pc'[g] = Commit
      PROVE  ops'[g] \in Request /\ done'[g] = Len(ops'[g])
  BY <1>4 DEF RefInv
<1> QED BY <1>1, <1>2, <1>3, <1>4 DEF RefInv

(* A handler that ends. *)
LEMMA ReleaseKeepsRef ==
  ASSUME IInv, RefInv, NEW h \in Handler, Release(h), db' = db
  PROVE  RefInv'
<1>1. ASSUME NEW g \in Handler, g # h
      PROVE  /\ view'[g] = view[g] /\ ops'[g] = ops[g] /\ done'[g] = done[g]
             /\ pc'[g] = pc[g] /\ (writer' = g => writer = g)
  BY <1>1, HandlerAssumption DEF Release, IInv, TypeOK
<1>2. view'[h] = EmptyDatabase /\ pc'[h] = Idle /\ writer' # h
  BY HandlerAssumption DEF Release, IInv, TypeOK
<1> QED BY <1>1, <1>2, QuietKeepsRef DEF Idle, Commit

(* A request that arrives finds its handler without the lock. *)
LEMMA BeginKeepsRef ==
  ASSUME IInv, RefInv, NEW h \in Handler,
         \/ \E r \in Request : BeginWrite(h, r)
         \/ \E d \in Device, n \in Name : BeginRegister(h, d, n)
  PROVE  RefInv'
<1>1. writer # h
  BY DEF BeginWrite, BeginRegister, IInv, LockInv, Idle, Check, Write, Commit
<1>2. /\ db' = db /\ writer' = writer /\ view' = view /\ done' = done
      /\ pc'[h] # Commit
      /\ \A g \in Handler \ {h} : pc'[g] = pc[g] /\ ops'[g] = ops[g]
  BY DEF BeginWrite, BeginRegister, IInv, TypeOK, Check, Select, Commit
<1> QED BY <1>1, <1>2, QuietKeepsRef

(* The SELECTs read the copy, or take it from the committed database. *)
LEMMA CheckKeepsRef ==
  ASSUME IInv, RefInv, NEW h \in Handler, CheckOperation(h)
  PROVE  RefInv'
<1>1. /\ db' = db /\ writer' = writer /\ ops' = ops /\ done' = done
      /\ pc[h] = Check /\ pc'[h] = Write /\ view'[h] = Seen(h)
      /\ \A g \in Handler \ {h} : pc'[g] = pc[g] /\ view'[g] = view[g]
  BY DEF CheckOperation, IInv, TypeOK
<1>2. writer = h => view'[h] = view[h]
  BY <1>1 DEF IInv, LockInv, Seen, TypeOK
<1>3. view'[h] \in {view[h], db}
  BY <1>1 DEF Seen
<1> QED BY <1>1, <1>2, <1>3, QuietKeepsRef DEF Write, Commit

(* The SELECT of register_device writes nothing. *)
LEMMA SelectKeepsRef ==
  ASSUME IInv, RefInv, NEW h \in Handler, SelectDevice(h)
  PROVE  RefInv'
<1>1. CASE Release(h)
  BY <1>1, ReleaseKeepsRef DEF SelectDevice
<1>2. CASE /\ pc' = [pc EXCEPT ![h] = Insert]
           /\ UNCHANGED <<writer, ops, done, view, fresh, asked>>
  <2>1. /\ db' = db /\ pc'[h] = Insert /\ \A g \in Handler \ {h} : pc'[g] = pc[g]
        /\ writer' = writer /\ ops' = ops /\ done' = done /\ view' = view
    BY <1>2 DEF SelectDevice, IInv, TypeOK
  <2> QED BY <2>1, QuietKeepsRef DEF Insert, Commit
<1> QED BY <1>1, <1>2 DEF SelectDevice

(* The INSERT of the transaction applies the next operation of the request *)
(* to a copy that is what the operations before it made of the committed   *)
(* database: the lock is had, or free and the snapshot the last commit.    *)
LEMMA WriteKeepsRef ==
  ASSUME IInv, RefInv, NEW h \in Handler, WriteOperation(h)
  PROVE  RefInv'
<1> DEFINE u == ApplyOperation(view[h], Next1(h))
<1>1. /\ pc[h] = Write /\ LockAvailable(h) /\ writer' = h
      /\ view' = [view EXCEPT ![h] = u]
      /\ done' = [done EXCEPT ![h] = @ + 1]
      /\ pc' = [pc EXCEPT ![h] = IF done[h] + 1 = Len(ops[h]) THEN Commit ELSE Check]
      /\ db' = db /\ ops' = ops
  BY DEF WriteOperation
<1>2. /\ Next1(h) \in Operation /\ OperationAllowed(view[h], Next1(h))
      /\ IsDatabase(view[h]) /\ RowIsLastChange(view[h]) /\ Counted(view[h])
      /\ IsDatabase(db) /\ RowIsLastChange(db) /\ Counted(db)
  BY <1>1, NextOperation DEF IInv, TypeOK, AllConsistent, Consistent, ControlInv, RefInv
<1>3. /\ ops[h] \in Request /\ ops[h] \in Seq(Operation)
      /\ done[h] \in Nat /\ done[h] < Len(ops[h])
  BY <1>1, RequestAssumption DEF IInv, TypeOK, ControlInv
<1>4. Applied(view[h], db, ops[h], done[h])
  <2>1. CASE writer = h
    BY <2>1 DEF RefInv
  <2>2. CASE writer # h
    <3>1. fresh[h]
      BY <1>1, <2>2 DEF LockAvailable
    <3>2. done[h] = 0
      BY <1>1, <1>3, <2>2 DEF IInv, LockInv
    <3>3. view[h] = db
      BY <1>1, <3>1, <3>2 DEF IInv, LockInv
    <3> QED BY <1>2, <3>2, <3>3, AppliedNothing
  <2> QED BY <2>1, <2>2
<1>5. Applied(u, db, ops[h], done[h] + 1)
  BY <1>2, <1>3, <1>4, AppliedOneMore DEF Next1
<1>6. Counted(u)
  BY <1>2, WriteCounts
<1>7. \A g \in Handler \ {h} : writer' # g
  BY <1>1
<1> HIDE DEF u
<1>8. /\ view'[h] = u /\ done'[h] = done[h] + 1 /\ ops'[h] = ops[h]
      /\ pc'[h] = IF done[h] + 1 = Len(ops[h]) THEN Commit ELSE Check
      /\ \A g \in Handler \ {h} : /\ view'[g] = view[g] /\ done'[g] = done[g]
                                  /\ ops'[g] = ops[g] /\ pc'[g] = pc[g]
  BY <1>1 DEF IInv, TypeOK
<1>9. ASSUME NEW g \in Handler
      PROVE  /\ Counted(view'[g])
             /\ writer' = g => Applied(view'[g], db', ops'[g], done'[g])
             /\ pc'[g] = Commit => ops'[g] \in Request /\ done'[g] = Len(ops'[g])
  <2>1. CASE g = h
    BY <1>1, <1>3, <1>5, <1>6, <1>8, <2>1 DEF Check, Commit
  <2>2. CASE g # h
    BY <1>7, <1>8, <2>2 DEF RefInv
  <2> QED BY <2>1, <2>2
<1>10. Counted(db')
  BY <1>1, <1>2
<1> QED BY <1>9, <1>10 DEF RefInv

(* A step that makes t the committed database and leaves the lock free. *)
LEMMA PublishKeepsRef ==
  ASSUME RefInv, NEW t, Counted(t), db' = t, writer' = NoHandler,
         view' = view, ops' = ops, done' = done,
         \A g \in Handler : pc'[g] = Commit => pc[g] = Commit
  PROVE  RefInv'
<1>1. Counted(db')
  OBVIOUS
<1>2. \A g \in Handler : writer' # g
  BY HandlerAssumption
<1>3. ASSUME NEW g \in Handler
      PROVE  /\ Counted(view'[g])
             /\ pc'[g] = Commit => ops'[g] \in Request /\ done'[g] = Len(ops'[g])
  BY DEF RefInv
<1> QED BY <1>1, <1>2, <1>3 DEF RefInv

(* A commit publishes a counted database. *)
LEMMA CommitKeepsRef ==
  ASSUME IInv, RefInv, NEW h \in Handler, CommitWrite(h)
  PROVE  RefInv'
<1>1. /\ db' = view[h] /\ writer' = NoHandler
      /\ view' = view /\ ops' = ops /\ done' = done
      /\ pc' = [pc EXCEPT ![h] = Reply]
  BY DEF CommitWrite, Publish
<1>2. \A g \in Handler : pc'[g] = Commit => pc[g] = Commit
  BY <1>1 DEF IInv, TypeOK, Reply, Commit
<1>3. Counted(view[h])
  BY DEF RefInv
<1> QED BY <1>1, <1>2, <1>3, PublishKeepsRef

(* The device statements leave objects and changes alone. *)
LEMMA DevicesKeepRef ==
  ASSUME IInv, RefInv,
         \/ \E h \in Handler : InsertRow(h)
         \/ \E d \in Device : RevokeDevice(d)
  PROVE  RefInv'
<1>1. IsDatabase(db)
  BY DEF IInv, TypeOK
<1>2. db'.objects = db.objects /\ db'.changes = db.changes
  BY <1>1 DEF InsertRow, RevokeDevice, InsertDevice, SetRevoked, IsDatabase
<1>3. Counted(db')
  BY <1>2 DEF RefInv, Counted, ChangesIn
<1>4. writer' = NoHandler /\ view' = view /\ ops' = ops /\ done' = done
  BY DEF InsertRow, RevokeDevice
<1>5. \A g \in Handler : pc'[g] = Commit => pc[g] = Commit
  BY DEF InsertRow, RevokeDevice, IInv, TypeOK, Idle, Commit
<1> QED BY <1>3, <1>4, <1>5, PublishKeepsRef

(* A crash forgets every copy. *)
LEMMA CrashKeepsRef ==
  ASSUME RefInv, Crash
  PROVE  RefInv'
<1>1. /\ db' = db
      /\ \A g \in Handler : view'[g] = EmptyDatabase /\ writer' # g /\ pc'[g] # Commit
  BY HandlerAssumption DEF Crash, Idle, Commit
<1> QED BY <1>1, QuietKeepsRef

(* Every step keeps the refinement invariant. *)
LEMMA StepRef ==
  ASSUME IInv, RefInv, [Next]_vars
  PROVE  RefInv'
<1>1. ASSUME NEW h \in Handler, NEW r \in Request, BeginWrite(h, r) PROVE RefInv'
  BY <1>1, BeginKeepsRef
<1>2. ASSUME NEW h \in Handler, NEW d \in Device, NEW n \in Name, BeginRegister(h, d, n)
      PROVE  RefInv'
  BY <1>2, BeginKeepsRef
<1>3. ASSUME NEW h \in Handler, HandlerStep(h) PROVE RefInv'
  <2>1. CASE CheckOperation(h) BY <2>1, CheckKeepsRef
  <2>2. CASE RejectOperation(h) BY <2>2, ReleaseKeepsRef DEF RejectOperation
  <2>3. CASE WriteOperation(h) BY <2>3, WriteKeepsRef
  <2>4. CASE WriteFails(h) BY <2>4, ReleaseKeepsRef DEF WriteFails
  <2>5. CASE CommitWrite(h) BY <2>5, CommitKeepsRef
  <2>6. CASE SendReply(h) BY <2>6, ReleaseKeepsRef DEF SendReply
  <2>7. CASE SelectDevice(h) BY <2>7, SelectKeepsRef
  <2>8. CASE InsertRow(h) BY <2>8, DevicesKeepRef
  <2>9. CASE InsertFails(h) BY <2>9, ReleaseKeepsRef DEF InsertFails
  <2> QED BY <1>3, <2>1, <2>2, <2>3, <2>4, <2>5, <2>6, <2>7, <2>8, <2>9 DEF HandlerStep
<1>4. ASSUME NEW h \in Handler, DropHandler(h) PROVE RefInv'
  BY <1>4, ReleaseKeepsRef DEF DropHandler
<1>5. ASSUME NEW d \in Device, RevokeDevice(d) PROVE RefInv'
  BY <1>5, DevicesKeepRef
<1>6. CASE Crash BY <1>6, CrashKeepsRef
<1>7. CASE UNCHANGED vars
  <2>1. /\ db' = db /\ writer' = writer /\ view' = view /\ ops' = ops
        /\ done' = done /\ pc' = pc
    BY <1>7 DEF vars
  <2> QED BY <2>1, QuietKeepsRef
<1> QED BY <1>1, <1>2, <1>3, <1>4, <1>5, <1>6, <1>7 DEF Next

(***************************************************************************)
(* The refinement                                                          *)
(***************************************************************************)

(* The tables of a server that starts are those of an empty store. *)
LEMMA InitIsStoreInit == Init => Store!AInit
<1> SUFFICES ASSUME Init PROVE Store!AInit
  OBVIOUS
<1>1. db.devices = NoRows /\ db.objects = NoRows /\ db.changes = << >>
  BY DEF Init, EmptyDatabase
<1>2. DOMAIN NoRows = {}
  BY DEF NoRows
<1>3. [o \in DOMAIN db.objects |-> db.objects[o].envelope] = NoRows
  BY <1>1, <1>2 DEF NoRows
<1> QED BY <1>1, <1>3 DEF Store!AInit, Store!NoRows, NoRows

(* A step that leaves the database alone is a stutter of the store. *)
LEMMA SameDatabaseIsStutter ==
  ASSUME db' = db
  PROVE  UNCHANGED Store!avars
BY DEF Store!avars

(* COMMIT is where a whole request takes effect. *)
LEMMA CommitIsWrite ==
  ASSUME IInv, IInv', RefInv, NEW h \in Handler, CommitWrite(h)
  PROVE  Store!ANext
<1>1. db' = view[h] /\ pc[h] = Commit
  BY DEF CommitWrite, Publish
<1>2. writer = h
  BY <1>1 DEF IInv, LockInv
<1>3. PICK r \in Request : r = ops[h]
  BY <1>1 DEF RefInv
<1>4. Applied(view[h], db, r, Len(r))
  BY <1>1, <1>2, <1>3 DEF RefInv
<1>5. IsDatabase(db) /\ IsDatabase(db)'
  BY DEF IInv, TypeOK
<1>6. Applied(db', db, r, Len(r))
  BY <1>1, <1>4
<1>7. Store!Write(r)
  BY <1>5, <1>6, AppliedIsWrite
<1> QED BY <1>7 DEF Store!ANext

(* The INSERT of register_device registers, the UPDATE of revoke_device    *)
(* revokes.                                                                *)
LEMMA DeviceStatementIsAbstract ==
  ASSUME IInv,
         \/ \E h \in Handler : InsertRow(h)
         \/ \E d \in Device : RevokeDevice(d)
  PROVE  Store!ANext
<1>1. IsDatabase(db)
  BY DEF IInv, TypeOK
<1>2. CASE \E h \in Handler : InsertRow(h)
  <2> PICK h \in Handler : InsertRow(h)
    BY <1>2
  <2> PICK d, n : d = asked[h][1] /\ n = asked[h][2]
    OBVIOUS
  <2>1. d \in Device /\ n \in Name
    BY DEF InsertRow, IInv, ControlInv
  <2>2. d \notin DOMAIN db.devices /\ db' = InsertDevice(db, d, n)
    BY DEF InsertRow
  <2>3. /\ db'.changes = db.changes /\ db'.objects = db.objects
        /\ db'.devices = Upsert(db.devices, d, [name |-> n, revoked |-> FALSE])
    BY <1>1, <2>2 DEF InsertDevice, IsDatabase
  <2>4. Store!Register(d, n)
    BY <2>2, <2>3 DEF Store!Register, Store!Upsert, Upsert
  <2> QED BY <2>1, <2>4 DEF Store!ANext
<1>3. CASE \E d \in Device : RevokeDevice(d)
  <2> PICK d \in Device : RevokeDevice(d)
    BY <1>3
  <2>1. EnsureActiveDevice(db, d) /\ db' = SetRevoked(db, d)
    BY DEF RevokeDevice
  <2>2. /\ db'.changes = db.changes /\ db'.objects = db.objects
        /\ db'.devices = [db.devices EXCEPT ![d].revoked = TRUE]
    BY <1>1, <2>1 DEF SetRevoked, IsDatabase
  <2>3. Store!Revoke(d)
    BY <2>1, <2>2 DEF Store!Revoke, Store!EnsureActiveDevice, EnsureActiveDevice
  <2> QED BY <2>3 DEF Store!ANext
<1> QED BY <1>2, <1>3

(* A step of the server is a step of the store or a stutter. *)
LEMMA StepIsAbstract ==
  ASSUME IInv, IInv', RefInv, [Next]_vars
  PROVE  [Store!ANext]_(Store!avars)
<1>1. CASE \E h \in Handler : CommitWrite(h)
  BY <1>1, CommitIsWrite
<1>2. CASE \/ \E h \in Handler : InsertRow(h)
           \/ \E d \in Device : RevokeDevice(d)
  BY <1>2, DeviceStatementIsAbstract
<1>3. CASE db' = db
  BY <1>3, SameDatabaseIsStutter
<1> QED
  BY <1>1, <1>2, <1>3
  DEF Next, vars, HandlerStep, BeginWrite, BeginRegister, CheckOperation,
      RejectOperation, WriteOperation, WriteFails, SendReply, SelectDevice,
      InsertFails, DropHandler, Crash

(* The handlers of api.rs implement the store: a request of any length      *)
(* takes effect at its COMMIT, as a whole and against the revisions of that *)
(* instant, whatever other handlers, revocations and crashes do meanwhile. *)
THEOREM ServerImplementsStore == Spec => ImplementsObjectStore
<1>1. Init => RefInv
  BY InitRef
<1>2. IInv /\ RefInv /\ [Next]_vars => RefInv'
  BY StepRef
<1>3. IInv /\ IInv' /\ RefInv /\ [Next]_vars => [Store!ANext]_(Store!avars)
  BY StepIsAbstract
<1> QED
  BY <1>1, <1>2, <1>3, Invariance, InitIsStoreInit, PTL
  DEF Spec, ImplementsObjectStore, Store!ASpec
=============================================================================
