---------------------------- MODULE ObjectStore ----------------------------
(***************************************************************************)
(* What the server promises: a store of versioned objects, where a request *)
(* takes effect at one instant and as a whole.                             *)
(*                                                                         *)
(* The state is the devices, the feed of changes and the envelope of each  *)
(* object.  An object has no revision of its own: it is the number of      *)
(* changes the feed holds for it.  A write names the revision it replaces. *)
(***************************************************************************)
EXTENDS StoreTables, FiniteSets

CONSTANT Request

VARIABLES devices, feed, content

avars == <<devices, feed, content>>

ChangesOf(o) == {i \in DOMAIN feed : feed[i].object = o}

Revision(o) == Cardinality(ChangesOf(o))

Earlier(r, i) == {j \in 1 .. i - 1 : r[j].object = r[i].object}

Latest(S) == CHOOSE i \in S : \A j \in S : j <= i

(* The revision that operation i of r replaces, those before it included. *)
Replaced(r, i) == Revision(r[i].object) + Cardinality(Earlier(r, i))

Acceptable(r, i) ==
  /\ EnsureActiveDevice([devices |-> devices], r[i].device)
  /\ r[i].base = IF Replaced(r, i) = 0 THEN NoBase ELSE Replaced(r, i)
  /\ r[i].kind = "put" => r[i].envelope # Malformed

(* A deletion keeps the namespace of the last put. *)
KeptNamespace(r, i) ==
  LET puts == {j \in Earlier(r, i) : r[j].kind = "put"}
  IN  IF puts # {} THEN r[Latest(puts)].namespace
                   ELSE feed[Latest(ChangesOf(r[i].object))].namespace

Entry(r, i) ==
  [object |-> r[i].object,
   namespace |-> IF r[i].kind = "put" THEN r[i].namespace ELSE KeptNamespace(r, i),
   revision |-> Replaced(r, i) + 1,
   device |-> r[i].device,
   deleted |-> r[i].kind = "delete"]

Touched(r) == {r[i].object : i \in DOMAIN r}

LastOn(r, o) == r[Latest({i \in DOMAIN r : r[i].object = o})]

Written(op) == IF op.kind = "put" THEN op.envelope ELSE NoEnvelope

(* All of request r, or nothing. *)
Write(r) ==
  /\ \A i \in DOMAIN r : Acceptable(r, i)
  /\ feed' = feed \o [i \in DOMAIN r |-> Entry(r, i)]
  /\ content' = [o \in DOMAIN content \cup Touched(r) |->
                   IF o \in Touched(r) THEN Written(LastOn(r, o)) ELSE content[o]]
  /\ UNCHANGED devices

Register(d, n) ==
  /\ d \notin DOMAIN devices
  /\ devices' = Upsert(devices, d, [name |-> n, revoked |-> FALSE])
  /\ UNCHANGED <<feed, content>>

Revoke(d) ==
  /\ EnsureActiveDevice([devices |-> devices], d)
  /\ devices' = [devices EXCEPT ![d].revoked = TRUE]
  /\ UNCHANGED <<feed, content>>

AInit ==
  /\ devices = NoRows
  /\ feed = << >>
  /\ content = NoRows

ANext ==
  \/ \E r \in Request : Write(r)
  \/ \E d \in Device, n \in Name : Register(d, n)
  \/ \E d \in Device : Revoke(d)

ASpec == AInit /\ [][ANext]_avars
=============================================================================
