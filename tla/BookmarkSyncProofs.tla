------------------------- MODULE BookmarkSyncProofs -------------------------
(***************************************************************************)
(* Proofs about BookmarkSync, for any devices, bookmarks, commands, bounds  *)
(* and faults: its types, that mapping and base always name one version of *)
(* the object, that the server loses a value of a bookmark only when some  *)
(* user replaced it, and that a sync removes only what some user replaced, *)
(* each with the exception of a Bookmarks file lost by a restore.          *)
(***************************************************************************)
EXTENDS BookmarkSync, TLAPS

-----------------------------------------------------------------------------
(***************************************************************************)
(* The inductive invariant                                                 *)
(***************************************************************************)

(* From snapshot v to w only values in R were lost. *)
Kept(R, v, w) ==
  \A b \in Bookmark : w[b] # v[b] => v[b] \in R \cup {Absent}

(* The versions of an object lose only replaced values, however far apart. *)
HistoryKept ==
  \A id \in DOMAIN objects : \A i, j \in DOMAIN objects[id] :
    i <= j => Kept(AllGone, objects[id][i], objects[id][j])

ObjectsBounded ==
  /\ Len(objects) <= MaxObjects
  /\ \A id \in DOMAIN objects : Len(objects[id]) \in 1 .. MaxRevision

(* Mapping and base name one version, and the profile differs from the base *)
(* only where its user, or another before the version it restored, replaced *)
(* a value.                                                                *)
MappingInv(d) ==
  saved[d] # None =>
    /\ saved[d].object \in DOMAIN objects
    /\ saved[d].revision \in DOMAIN objects[saved[d].object]
    /\ saved[d].base = objects[saved[d].object][saved[d].revision]
    /\ d \notin missing => Kept(AllGone, saved[d].base, local[d])

(* A profile without a Bookmarks file is read by no command and restored by *)
(* a load.                                                                 *)
MissingInv(d) ==
  d \in missing =>
    /\ pc[d] \in {"idle", "locate", "read", "restore"}
    /\ pc[d] \in {"read", "restore"} => mode[d] = "load"

(* The object that a command works on. *)
TargetInv(d) ==
  /\ pc[d] \in {"idle", "locate"} => target[d] = None
  /\ pc[d] \in {"read", "verify", "restore", "persist"} => target[d] # None
  /\ target[d] # None => target[d] \in DOMAIN objects
  /\ pc[d] \in {"read", "upload", "verify", "restore"} /\ saved[d] # None =>
       target[d] = saved[d].object
  /\ pc[d] = "read" => mode[d] \in {"sync", "load"}

(* What is about to be uploaded loses only replaced values of the version it *)
(* names; what is restored or persisted is the version that was seen.      *)
SeenInv(d) ==
  /\ pc[d] = "upload" /\ target[d] # None =>
       /\ seen[d] \in DOMAIN objects[target[d]]
       /\ Kept(AllGone, objects[target[d]][seen[d]], merged[d])
  /\ pc[d] \in {"restore", "persist"} =>
       /\ seen[d] \in DOMAIN objects[target[d]]
       /\ merged[d] = objects[target[d]][seen[d]]

(* What a restore does to the profile, against its base and its content. *)
MergedInv(d) ==
  /\ pc[d] = "restore" /\ saved[d] # None => Kept(AllGone, saved[d].base, merged[d])
  /\ pc[d] = "persist" => merged[d] = local[d]
  /\ pc[d] \in {"upload", "verify"} /\ mode[d] = "save" => merged[d] = local[d]
  /\ pc[d] \in {"upload", "verify", "restore"} /\ mode[d] = "sync" =>
       \A b \in Bookmark :
         merged[d][b] = Absent /\ local[d][b] # Absent => local[d][b] \in AllGone

DeviceInv(d) == MappingInv(d) /\ MissingInv(d) /\ TargetInv(d) /\ SeenInv(d) /\ MergedInv(d)

IInv ==
  /\ TypeOK
  /\ ObjectsBounded
  /\ HistoryKept
  /\ \A d \in Device : DeviceInv(d)

-----------------------------------------------------------------------------
(***************************************************************************)
(* Snapshots and their merge                                               *)
(***************************************************************************)

(* A snapshot keeps itself. *)
LEMMA KeptSame == ASSUME NEW R, NEW v PROVE Kept(R, v, v)
BY DEF Kept

(* What two successive changes keep, both together keep. *)
LEMMA KeptBoth ==
  ASSUME NEW R, NEW u, NEW v, NEW w, Kept(R, u, v), Kept(R, v, w)
  PROVE  Kept(R, u, w)
BY DEF Kept

(* More replaced values excuse more. *)
LEMMA KeptMore ==
  ASSUME NEW R, NEW S, NEW v, NEW w, Kept(R, v, w), R \subseteq S
  PROVE  Kept(S, v, w)
BY DEF Kept

(* An empty base has nothing to lose. *)
LEMMA EmptyKept == ASSUME NEW R, NEW v PROVE Kept(R, Empty, v)
BY DEF Kept, Empty

(* The merge takes one of the two sides. *)
LEMMA MergeTakesASide ==
  ASSUME NEW base, NEW l, NEW r PROVE MergeValues(base, l, r) \in {l, r}
BY DEF MergeValues

(* A remote value is lost only where the user had replaced the base's.     *)
LEMMA MergeValueKeepsRemote ==
  ASSUME NEW R, NEW base, NEW l, NEW r,
         l # base => base \in R \cup {Absent},
         MergeValues(base, l, r) # r
  PROVE  r \in R \cup {Absent}
BY DEF MergeValues

(* A local value becomes a deletion only where the remote side replaced it. *)
LEMMA MergeValueDeletes ==
  ASSUME NEW R, NEW base, NEW l, NEW r,
         r # base => base \in R \cup {Absent},
         MergeValues(base, l, r) = Absent, l # Absent
  PROVE  l \in R
BY DEF MergeValues

-----------------------------------------------------------------------------
(***************************************************************************)
(* The server's objects                                                    *)
(***************************************************************************)

(* The objects are numbered from one, and so are the versions of each. *)
LEMMA ObjectFacts ==
  ASSUME TypeOK, ObjectsBounded
  PROVE  /\ DOMAIN objects = 1 .. Len(objects)
         /\ Len(objects) \in Nat
         /\ DOMAIN objects \subseteq ObjectId
         /\ \A id \in DOMAIN objects :
              /\ objects[id] \in Seq(Snapshot)
              /\ DOMAIN objects[id] = 1 .. Len(objects[id])
              /\ Len(objects[id]) \in DOMAIN objects[id]
              /\ Len(objects[id]) \in Revision
              /\ DOMAIN objects[id] \subseteq Revision
              /\ Current(id) = objects[id][Len(objects[id])]
              /\ \A i \in DOMAIN objects[id] : objects[id][i] \in Snapshot
<1> DEFINE Versions == Seq(Snapshot)
<1>1. objects \in Seq(Versions)
  BY DEF TypeOK
<1>2. /\ DOMAIN objects = 1 .. Len(objects)
      /\ Len(objects) \in Nat
      /\ \A id \in DOMAIN objects : objects[id] \in Versions
  <2> HIDE DEF Versions
  <2> QED BY <1>1
<1>3. DOMAIN objects \subseteq ObjectId
  BY <1>2, ConstantAssumption DEF ObjectsBounded, ObjectId
<1>4. ASSUME NEW id \in DOMAIN objects
      PROVE  /\ objects[id] \in Seq(Snapshot)
             /\ DOMAIN objects[id] = 1 .. Len(objects[id])
             /\ Len(objects[id]) \in DOMAIN objects[id]
             /\ Len(objects[id]) \in Revision
             /\ DOMAIN objects[id] \subseteq Revision
             /\ Current(id) = objects[id][Len(objects[id])]
             /\ \A i \in DOMAIN objects[id] : objects[id][i] \in Snapshot
  <2>1. PICK vs \in Seq(Snapshot) : vs = objects[id]
    BY <1>2
  <2>2. DOMAIN vs = 1 .. Len(vs) /\ \A i \in DOMAIN vs : vs[i] \in Snapshot
    BY DEF Snapshot
  <2>3. Len(vs) \in 1 .. MaxRevision
    BY <2>1 DEF ObjectsBounded
  <2>4. Len(vs) \in DOMAIN vs /\ Len(vs) \in Revision /\ DOMAIN vs \subseteq Revision
    BY <2>2, <2>3, ConstantAssumption DEF Revision
  <2>5. Current(id) = objects[id][Len(objects[id])]
    BY DEF Current, Last
  <2> QED BY <2>1, <2>2, <2>4, <2>5
<1> QED BY <1>2, <1>3, <1>4

(* Objects and versions are only added, and what was replaced stays so. *)
Grows ==
  /\ \A id \in DOMAIN objects :
       /\ id \in DOMAIN objects'
       /\ \A i \in DOMAIN objects[id] :
            i \in DOMAIN objects'[id] /\ objects'[id][i] = objects[id][i]
  /\ AllGone \subseteq AllGone'

(* Everything of a device but d stays as it is. *)
OthersRest(d) ==
  \A e \in Device \ {d} :
    /\ local'[e] = local[e] /\ (e \in missing' <=> e \in missing) /\ saved'[e] = saved[e]
    /\ pc'[e] = pc[e] /\ mode'[e] = mode[e] /\ target'[e] = target[e]
    /\ seen'[e] = seen[e] /\ merged'[e] = merged[e]

(* What a device knows of the server stays true while others act. *)
LEMMA OtherInv ==
  ASSUME NEW e \in Device, DeviceInv(e), Grows,
         local'[e] = local[e], e \in missing' <=> e \in missing, saved'[e] = saved[e],
         pc'[e] = pc[e], mode'[e] = mode[e], target'[e] = target[e],
         seen'[e] = seen[e], merged'[e] = merged[e]
  PROVE  DeviceInv(e)'
<1>0. \A v, w : Kept(AllGone, v, w) => Kept(AllGone', v, w)
  BY KeptMore DEF Grows
<1>1. MappingInv(e)'
  BY <1>0 DEF DeviceInv, MappingInv, Grows
<1>2. TargetInv(e)'
  BY DEF DeviceInv, TargetInv, Grows
<1>3. SeenInv(e)'
  BY <1>0 DEF DeviceInv, SeenInv, TargetInv, Grows
<1>4. MergedInv(e)'
  BY <1>0 DEF DeviceInv, MergedInv, Grows
<1>5. MissingInv(e)'
  BY DEF DeviceInv, MissingInv
<1> QED BY <1>1, <1>2, <1>3, <1>4, <1>5 DEF DeviceInv

(* A step of one device preserves the invariant if it does so for itself. *)
LEMMA Assemble ==
  ASSUME IInv, NEW d \in Device, TypeOK', ObjectsBounded', HistoryKept',
         Grows, OthersRest(d), DeviceInv(d)'
  PROVE  IInv'
<1>1. ASSUME NEW e \in Device PROVE DeviceInv(e)'
  <2>1. CASE e = d
    BY <2>1
  <2>2. CASE e # d
    BY <2>2, OtherInv DEF IInv, OthersRest
  <2> QED BY <2>1, <2>2
<1> QED BY <1>1 DEF IInv

(* The server keeps its promises while nobody writes to it. *)
LEMMA Quiet ==
  ASSUME IInv, UNCHANGED <<objects, replaced, forgotten>>
  PROVE  ObjectsBounded' /\ HistoryKept' /\ Grows
<1>1. AllGone' = AllGone
  BY DEF AllGone
<1>2. ObjectsBounded'
  BY DEF IInv, ObjectsBounded
<1>3. HistoryKept'
  BY <1>1 DEF IInv, HistoryKept
<1>4. Grows
  BY <1>1 DEF Grows
<1> QED BY <1>2, <1>3, <1>4

-----------------------------------------------------------------------------
(***************************************************************************)
(* Writing an object                                                       *)
(***************************************************************************)

(* Appending adds one element and moves none. *)
LEMMA AppendFacts ==
  ASSUME NEW S, NEW s \in Seq(S), NEW e \in S
  PROVE  /\ Append(s, e) \in Seq(S)
         /\ Len(Append(s, e)) = Len(s) + 1
         /\ DOMAIN Append(s, e) = 1 .. Len(s) + 1
         /\ DOMAIN s = 1 .. Len(s)
         /\ Len(s) \in Nat
         /\ \A i \in DOMAIN s : Append(s, e)[i] = s[i]
         /\ Append(s, e)[Len(s) + 1] = e
<1>1. Append(s, e) \in Seq(S)
  OBVIOUS
<1>2. Len(Append(s, e)) = Len(s) + 1 /\ DOMAIN s = 1 .. Len(s) /\ Len(s) \in Nat
  OBVIOUS
<1>3. DOMAIN Append(s, e) = 1 .. Len(s) + 1
  BY <1>1, <1>2
<1>4. \A i \in DOMAIN s : Append(s, e)[i] = s[i]
  BY <1>2
<1>5. Append(s, e)[Len(s) + 1] = e
  BY <1>2
<1> QED BY <1>1, <1>2, <1>3, <1>4, <1>5

(* One element is a sequence. *)
LEMMA OneElementSeq == ASSUME NEW S, NEW x \in S PROVE <<x>> \in Seq(S)
OBVIOUS

(* A new object holds what was uploaded. *)
LEMMA CreateKeeps ==
  ASSUME IInv, NEW d \in Device, target[d] = None, MayUpload(d), PutObject(d),
         UNCHANGED <<replaced, forgotten>>
  PROVE  /\ objects' \in Seq(Seq(Snapshot))
         /\ newest' \in DOMAIN objects'
         /\ newest' = Len(objects) + 1
         /\ newest' \in ObjectId
         /\ ObjectsBounded' /\ HistoryKept' /\ Grows
<1> DEFINE Versions == Seq(Snapshot)
<1>1. PICK m \in Snapshot : m = merged[d]
  BY DEF IInv, TypeOK
<1>2. PICK vs \in Versions : vs = <<m>>
  BY OneElementSeq
<1>3. Len(vs) = 1 /\ DOMAIN vs = {1} /\ vs[1] = m
  BY <1>2
<1>4. objects' = Append(objects, vs) /\ newest' = Len(objects) + 1
  BY <1>1, <1>2 DEF PutObject
<1>5. Len(objects) < MaxObjects
  BY DEF MayUpload
<1>6. objects \in Seq(Versions)
  BY DEF IInv, TypeOK
<1>7. /\ objects' \in Seq(Versions)
      /\ Len(objects') = Len(objects) + 1
      /\ DOMAIN objects' = 1 .. Len(objects) + 1
      /\ DOMAIN objects = 1 .. Len(objects)
      /\ Len(objects) \in Nat
      /\ \A i \in DOMAIN objects : objects'[i] = objects[i]
      /\ objects'[Len(objects) + 1] = vs
  <2>1. vs \in Versions
    OBVIOUS
  <2> HIDE DEF Versions
  <2>2. /\ Append(objects, vs) \in Seq(Versions)
        /\ Len(Append(objects, vs)) = Len(objects) + 1
        /\ DOMAIN Append(objects, vs) = 1 .. Len(objects) + 1
        /\ DOMAIN objects = 1 .. Len(objects)
        /\ Len(objects) \in Nat
        /\ \A i \in DOMAIN objects : Append(objects, vs)[i] = objects[i]
        /\ Append(objects, vs)[Len(objects) + 1] = vs
    BY <2>1, <1>6, AppendFacts
  <2> QED BY <2>2, <1>4
<1>8. \A id \in DOMAIN objects' : id \in DOMAIN objects \/ objects'[id] = vs
  BY <1>7
<1>9. AllGone' = AllGone
  BY DEF AllGone
<1>10. ObjectsBounded'
  <2>1. Len(objects') <= MaxObjects
    BY <1>5, <1>7, ConstantAssumption
  <2>2. ASSUME NEW id \in DOMAIN objects'
        PROVE  Len(objects'[id]) \in 1 .. MaxRevision
    <3>1. CASE id \in DOMAIN objects
      <4>1. Len(objects[id]) \in 1 .. MaxRevision
        BY <3>1 DEF IInv, ObjectsBounded
      <4> QED BY <4>1, <3>1, <1>7
    <3>2. CASE objects'[id] = vs
      BY <3>2, <1>3, ConstantAssumption
    <3> QED BY <3>1, <3>2, <1>8
  <2> QED BY <2>1, <2>2 DEF ObjectsBounded
<1>11. HistoryKept'
  <2> SUFFICES ASSUME NEW id \in DOMAIN objects', NEW i \in DOMAIN objects'[id],
                      NEW j \in DOMAIN objects'[id], i <= j
               PROVE  Kept(AllGone, objects'[id][i], objects'[id][j])
    BY <1>9 DEF HistoryKept
  <2>1. CASE id \in DOMAIN objects
    BY <2>1, <1>7 DEF IInv, HistoryKept
  <2>2. CASE objects'[id] = vs
    BY <2>2, <1>3, KeptSame
  <2> QED BY <2>1, <2>2, <1>8
<1>12. Grows
  BY <1>7, <1>9 DEF Grows
<1>13. newest' \in DOMAIN objects' /\ newest' \in ObjectId
  BY <1>4, <1>5, <1>7, ConstantAssumption DEF ObjectId
<1> QED BY <1>4, <1>7, <1>10, <1>11, <1>12, <1>13

(* A replaced object keeps its versions, and the new one loses only what    *)
(* some user replaced.                                                     *)
LEMMA ReplaceKeeps ==
  ASSUME IInv, NEW d \in Device, pc[d] = "upload", target[d] # None,
         MayUpload(d), PutObject(d), UNCHANGED <<replaced, forgotten>>
  PROVE  /\ objects' \in Seq(Seq(Snapshot))
         /\ newest' \in DOMAIN objects'
         /\ ObjectsBounded' /\ HistoryKept' /\ Grows
<1> DEFINE Versions == Seq(Snapshot)
<1>1. PICK m \in Snapshot : m = merged[d]
  BY DEF IInv, TypeOK
<1>2. PICK t \in DOMAIN objects : t = target[d]
  BY DEF IInv, DeviceInv, TargetInv
<1>3. /\ DOMAIN objects = 1 .. Len(objects)
      /\ Len(objects) \in Nat
      /\ DOMAIN objects[t] = 1 .. Len(objects[t])
      /\ Len(objects[t]) \in DOMAIN objects[t]
  BY ObjectFacts DEF IInv
<1>4. PICK vs \in Versions : vs = objects[t]
  BY ObjectFacts DEF IInv
<1>5. PICK ws \in Versions : ws = Append(vs, m)
  <2>1. Append(vs, m) \in Versions
    BY AppendFacts
  <2> QED BY <2>1
<1>6. objects' = [objects EXCEPT ![t] = ws] /\ newest' = t
  BY <1>1, <1>2, <1>4, <1>5 DEF PutObject
<1>7. Len(vs) < MaxRevision /\ Len(vs) = seen[d]
  BY <1>2, <1>4 DEF MayUpload
<1>8. /\ Len(ws) = Len(vs) + 1
      /\ DOMAIN ws = 1 .. Len(vs) + 1
      /\ DOMAIN vs = 1 .. Len(vs)
      /\ Len(vs) \in Nat
      /\ \A i \in DOMAIN vs : ws[i] = vs[i]
      /\ ws[Len(vs) + 1] = m
  BY <1>5, AppendFacts
<1>9. objects \in Seq(Versions)
  BY DEF IInv, TypeOK
<1>10. /\ objects' \in Seq(Versions)
       /\ Len(objects') = Len(objects)
       /\ DOMAIN objects' = DOMAIN objects
       /\ objects'[t] = ws
       /\ \A id \in DOMAIN objects \ {t} : objects'[id] = objects[id]
  <2> HIDE DEF Versions
  <2> QED BY <1>6, <1>9
<1>11. AllGone' = AllGone
  BY DEF AllGone
<1>12. ObjectsBounded'
  <2>1. Len(ws) \in 1 .. MaxRevision
    BY <1>7, <1>8, ConstantAssumption
  <2> QED BY <2>1, <1>10 DEF IInv, ObjectsBounded
<1>13. Kept(AllGone, vs[Len(vs)], m)
  BY <1>1, <1>2, <1>4, <1>7 DEF IInv, DeviceInv, SeenInv
<1>14. ASSUME NEW i \in DOMAIN ws, NEW j \in DOMAIN ws, i <= j
       PROVE  Kept(AllGone, ws[i], ws[j])
  <2>1. \A k, l \in DOMAIN vs : k <= l => Kept(AllGone, vs[k], vs[l])
    BY <1>4 DEF IInv, HistoryKept
  <2>2. CASE j \in DOMAIN vs
    <3>1. i \in DOMAIN vs
      BY <2>2, <1>8, <1>14
    <3> QED BY <2>1, <2>2, <3>1, <1>8, <1>14
  <2>3. CASE j = Len(vs) + 1 /\ i \in DOMAIN vs
    <3>1. Kept(AllGone, vs[i], vs[Len(vs)])
      BY <2>1, <2>3, <1>3, <1>4, <1>8
    <3>2. Kept(AllGone, vs[i], m)
      BY <3>1, <1>13, KeptBoth
    <3> QED BY <3>2, <2>3, <1>8
  <2>4. CASE j = Len(vs) + 1 /\ i = Len(vs) + 1
    BY <2>4, KeptSame
  <2> QED BY <2>2, <2>3, <2>4, <1>8, <1>14
<1>15. HistoryKept'
  <2> SUFFICES ASSUME NEW id \in DOMAIN objects', NEW i \in DOMAIN objects'[id],
                      NEW j \in DOMAIN objects'[id], i <= j
               PROVE  Kept(AllGone, objects'[id][i], objects'[id][j])
    BY <1>11 DEF HistoryKept
  <2>1. CASE id = t
    BY <2>1, <1>10, <1>14
  <2>2. CASE id # t
    BY <2>2, <1>10 DEF IInv, HistoryKept
  <2> QED BY <2>1, <2>2
<1>16. Grows
  <2>1. ASSUME NEW id \in DOMAIN objects, NEW i \in DOMAIN objects[id]
        PROVE  i \in DOMAIN objects'[id] /\ objects'[id][i] = objects[id][i]
    <3>1. CASE id = t
      BY <3>1, <1>4, <1>8, <1>10
    <3>2. CASE id # t
      BY <3>2, <1>10
    <3> QED BY <3>1, <3>2
  <2> QED BY <2>1, <1>10, <1>11 DEF Grows
<1> QED BY <1>6, <1>10, <1>12, <1>15, <1>16

-----------------------------------------------------------------------------
(***************************************************************************)
(* Every step preserves the invariant                                      *)
(***************************************************************************)

(* Mapping and base stay right as long as nobody touches them. *)
LEMMA MappingStays ==
  ASSUME NEW d \in Device, MappingInv(d), Grows,
         saved'[d] = saved[d], local'[d] = local[d], d \in missing' => d \in missing,
         d \in missing => d \in missing'
  PROVE  MappingInv(d)'
<1>0. \A v, w : Kept(AllGone, v, w) => Kept(AllGone', v, w)
  BY KeptMore DEF Grows
<1> QED BY <1>0 DEF MappingInv, Grows

(* A device that is idle has nothing to keep but mapping and base. *)
LEMMA IdleInv ==
  ASSUME NEW d \in Device, MappingInv(d)', pc'[d] = "idle", target'[d] = None
  PROVE  DeviceInv(d)'
BY DEF DeviceInv, MissingInv, TargetInv, SeenInv, MergedInv

(* The end of a command leaves the device idle and the others alone. *)
LEMMA EndFacts ==
  ASSUME TypeOK, NEW d \in Device, End(d)
  PROVE  /\ pc' \in [Device -> Step]
         /\ mode' \in [Device -> {"none", "sync", "save", "load"}]
         /\ target' \in [Device -> ObjectId \cup {None}]
         /\ seen' \in [Device -> Revision]
         /\ merged' \in [Device -> Snapshot]
         /\ pc'[d] = "idle" /\ target'[d] = None
         /\ \A e \in Device \ {d} :
              /\ pc'[e] = pc[e] /\ mode'[e] = mode[e] /\ target'[e] = target[e]
              /\ seen'[e] = seen[e] /\ merged'[e] = merged[e]
<1>1. Empty \in Snapshot
  BY ConstantAssumption DEF Empty, Snapshot, Value, Absent
<1>2. 0 \in Revision
  BY ConstantAssumption DEF Revision
<1>3. "idle" \in Step
  BY DEF Step
<1> QED BY <1>1, <1>2, <1>3 DEF TypeOK, End, Goto

(* A command that ends without writing anything. *)
LEMMA EndQuiet ==
  ASSUME IInv, NEW d \in Device, End(d), UNCHANGED <<server, files, saved, history>>
  PROVE  IInv'
<1>1. UNCHANGED <<objects, newest, local, missing, saved, edits, replaced, forgotten>>
  BY DEF server, files, history
<1>2. ObjectsBounded' /\ HistoryKept' /\ Grows
  BY <1>1, Quiet
<1>3. TypeOK'
  BY <1>1, EndFacts DEF IInv, TypeOK
<1>4. OthersRest(d)
  BY <1>1, EndFacts DEF IInv, OthersRest
<1>5. DeviceInv(d)'
  BY <1>1, <1>2, MappingStays, EndFacts, IdleInv DEF IInv, DeviceInv
<1> QED BY <1>2, <1>3, <1>4, <1>5, Assemble

(* UseBrowser: the value that the user replaces is remembered. *)
LEMMA UseBrowserKeeps ==
  ASSUME IInv, NEW d \in Device, UseBrowser(d)
  PROVE  IInv'
<1>1. PICK b \in Bookmark, v \in {Absent, edits + 1} :
        /\ v # local[d][b]
        /\ local' = [local EXCEPT ![d][b] = v]
        /\ replaced' = [replaced EXCEPT ![d] = @ \cup ({local[d][b]} \ {Absent})]
  BY DEF UseBrowser
<1>2. /\ pc[d] = "idle" /\ d \notin missing
      /\ edits < MaxEdits /\ edits' = edits + 1
      /\ UNCHANGED <<objects, newest, missing, saved, pc, mode, target, seen, merged,
                     forgotten>>
  BY DEF UseBrowser, server
<1>3. PICK old \in Snapshot : old = local[d]
  BY DEF IInv, TypeOK
<1>4. PICK new : new = [old EXCEPT ![b] = v]
  OBVIOUS
<1>5. local' = [local EXCEPT ![d] = new]
  BY <1>1, <1>3, <1>4
<1>6. v \in Value /\ edits' \in 0 .. MaxEdits
  BY <1>2, ConstantAssumption DEF IInv, TypeOK, Value, Absent
<1>7. new \in Snapshot
  BY <1>3, <1>4, <1>6 DEF Snapshot
<1>8. local' \in [Device -> Snapshot]
  BY <1>5, <1>7 DEF IInv, TypeOK
<1>9. replaced' \in [Device -> SUBSET Value]
  <2>1. old[b] \in Value
    BY <1>3 DEF Snapshot
  <2> QED BY <2>1, <1>1, <1>3 DEF IInv, TypeOK
<1>10. TypeOK'
  BY <1>2, <1>6, <1>8, <1>9 DEF IInv, TypeOK
<1>11. AllGone' = AllGone \cup ({old[b]} \ {Absent})
  <2>1. /\ replaced'[d] = replaced[d] \cup ({old[b]} \ {Absent})
        /\ \A e \in Device \ {d} : replaced'[e] = replaced[e]
    BY <1>1, <1>3 DEF IInv, TypeOK
  <2> QED BY <2>1, <1>2 DEF AllGone
<1>12. ObjectsBounded'
  BY <1>2 DEF IInv, ObjectsBounded
<1>13. \A u, w : Kept(AllGone, u, w) => Kept(AllGone', u, w)
  BY <1>11, KeptMore
<1>14. HistoryKept'
  BY <1>2, <1>13 DEF IInv, HistoryKept
<1>15. Grows
  BY <1>2, <1>11 DEF Grows
<1>16. OthersRest(d)
  BY <1>2, <1>5 DEF IInv, TypeOK, OthersRest
<1>17. local'[d] = new
  BY <1>5 DEF IInv, TypeOK
<1>18. MappingInv(d)'
  <2> SUFFICES ASSUME saved[d] # None
               PROVE  /\ saved[d].object \in DOMAIN objects
                      /\ saved[d].revision \in DOMAIN objects[saved[d].object]
                      /\ saved[d].base = objects[saved[d].object][saved[d].revision]
                      /\ Kept(AllGone', saved[d].base, new)
    BY <1>2, <1>17 DEF MappingInv
  <2>1. /\ saved[d].object \in DOMAIN objects
        /\ saved[d].revision \in DOMAIN objects[saved[d].object]
        /\ saved[d].base = objects[saved[d].object][saved[d].revision]
        /\ Kept(AllGone, saved[d].base, old)
    BY <1>2, <1>3 DEF IInv, DeviceInv, MappingInv
  <2>2. Kept(AllGone', old, new)
    BY <1>3, <1>4, <1>11 DEF Kept, Snapshot
  <2>3. Kept(AllGone', saved[d].base, new)
    BY <2>1, <2>2, <1>13, KeptBoth
  <2> QED BY <2>1, <2>3
<1>19. DeviceInv(d)'
  <2>1. target[d] = None
    BY <1>2 DEF IInv, DeviceInv, TargetInv
  <2> QED BY <2>1, <1>2, <1>18, IdleInv
<1> QED BY <1>10, <1>12, <1>14, <1>15, <1>16, <1>19, Assemble

(* Start: a command begins with nothing located. *)
LEMMA StartKeeps ==
  ASSUME IInv, NEW d \in Device, NEW m \in Commands, Start(d, m)
  PROVE  IInv'
<1>1. /\ pc[d] = "idle"
      /\ mode' = [mode EXCEPT ![d] = m] /\ pc' = [pc EXCEPT ![d] = "locate"]
      /\ UNCHANGED <<objects, newest, local, missing, saved, target, seen, merged,
                     edits, replaced, forgotten>>
  BY DEF Start, Goto, server, files, history
<1>2. ObjectsBounded' /\ HistoryKept' /\ Grows
  BY <1>1, Quiet
<1>3. TypeOK'
  BY <1>1, ConstantAssumption DEF IInv, TypeOK, Step
<1>4. OthersRest(d)
  BY <1>1 DEF IInv, TypeOK, OthersRest
<1>5. DeviceInv(d)'
  <2>1. pc'[d] = "locate" /\ target'[d] = None
    BY <1>1 DEF IInv, TypeOK, DeviceInv, TargetInv
  <2>2. MappingInv(d)'
    BY <1>1, <1>2, MappingStays DEF IInv, DeviceInv
  <2> QED BY <2>1, <2>2 DEF DeviceInv, MissingInv, TargetInv, SeenInv, MergedInv
<1> QED BY <1>2, <1>3, <1>4, <1>5, Assemble

(* Locate, of a mapped or a discovered object that is to be read. *)
LEMMA LocateToRead ==
  ASSUME IInv, NEW d \in Device, pc[d] = "locate", mode[d] \in {"sync", "load"},
         d \in missing => mode[d] = "load",
         NEW id \in DOMAIN objects,
         saved[d] # None => id = saved[d].object,
         target' = [target EXCEPT ![d] = id],
         pc' = [pc EXCEPT ![d] = "read"],
         UNCHANGED <<objects, newest, local, missing, saved, mode, seen, merged, edits,
                     replaced, forgotten>>
  PROVE  IInv'
<1>1. ObjectsBounded' /\ HistoryKept' /\ Grows
  BY Quiet
<1>2. id \in ObjectId /\ id # None
  BY ObjectFacts, ConstantAssumption DEF IInv, ObjectId
<1>3. TypeOK'
  BY <1>2 DEF IInv, TypeOK, Step
<1>4. OthersRest(d)
  BY DEF IInv, TypeOK, OthersRest
<1>5. MappingInv(d)'
  BY <1>1, MappingStays DEF IInv, DeviceInv
<1>6. pc'[d] = "read" /\ target'[d] = id
  BY DEF IInv, TypeOK
<1>7. DeviceInv(d)'
  BY <1>2, <1>5, <1>6 DEF DeviceInv, MissingInv, TargetInv, SeenInv, MergedInv
<1> QED BY <1>1, <1>3, <1>4, <1>7, Assemble

(* Locate, of a save that writes against its mapping. *)
LEMMA LocateToReplace ==
  ASSUME IInv, NEW d \in Device, pc[d] = "locate", mode[d] = "save", saved[d] # None,
         d \notin missing,
         target' = [target EXCEPT ![d] = saved[d].object],
         seen' = [seen EXCEPT ![d] = saved[d].revision],
         merged' = [merged EXCEPT ![d] = local[d]],
         pc' = [pc EXCEPT ![d] = "upload"],
         UNCHANGED <<objects, newest, local, missing, saved, mode, edits, replaced, forgotten>>
  PROVE  IInv'
<1>1. ObjectsBounded' /\ HistoryKept' /\ Grows
  BY Quiet
<1>2. /\ saved[d].object \in DOMAIN objects
      /\ saved[d].revision \in DOMAIN objects[saved[d].object]
      /\ saved[d].base = objects[saved[d].object][saved[d].revision]
      /\ Kept(AllGone, saved[d].base, local[d])
  BY DEF IInv, DeviceInv, MappingInv
<1>3. saved[d].object \in ObjectId /\ saved[d].revision \in Revision
  BY <1>2, ObjectFacts DEF IInv
<1>4. TypeOK'
  BY <1>3 DEF IInv, TypeOK, Step
<1>5. OthersRest(d)
  BY DEF IInv, TypeOK, OthersRest
<1>6. MappingInv(d)'
  BY <1>1, MappingStays DEF IInv, DeviceInv
<1>7. /\ pc'[d] = "upload" /\ target'[d] = saved[d].object
      /\ seen'[d] = saved[d].revision /\ merged'[d] = local[d]
  BY DEF IInv, TypeOK
<1>8. AllGone' = AllGone
  BY DEF AllGone
<1>9. TargetInv(d)'
  BY <1>2, <1>7 DEF TargetInv
<1>10. SeenInv(d)'
  BY <1>2, <1>7, <1>8 DEF SeenInv
<1>11. MergedInv(d)'
  BY <1>7 DEF MergedInv
<1>12. MissingInv(d)'
  BY DEF MissingInv
<1> QED BY <1>1, <1>4, <1>5, <1>6, <1>9, <1>10, <1>11, <1>12, Assemble DEF DeviceInv

(* Locate, of a command that is to create an object. *)
LEMMA LocateToCreate ==
  ASSUME IInv, NEW d \in Device, pc[d] = "locate", saved[d] = None, d \notin missing,
         merged' = [merged EXCEPT ![d] = local[d]],
         pc' = [pc EXCEPT ![d] = "upload"],
         UNCHANGED <<objects, newest, local, missing, saved, mode, target, seen, edits,
                     replaced, forgotten>>
  PROVE  IInv'
<1>1. ObjectsBounded' /\ HistoryKept' /\ Grows
  BY Quiet
<1>2. TypeOK'
  BY DEF IInv, TypeOK, Step
<1>3. OthersRest(d)
  BY DEF IInv, TypeOK, OthersRest
<1>4. MappingInv(d)'
  BY <1>1, MappingStays DEF IInv, DeviceInv
<1>5. pc'[d] = "upload" /\ target'[d] = None /\ merged'[d] = local[d]
  BY DEF IInv, TypeOK, DeviceInv, TargetInv
<1>6. TargetInv(d)' /\ SeenInv(d)'
  BY <1>5 DEF TargetInv, SeenInv
<1>7. MergedInv(d)'
  BY <1>5 DEF MergedInv
<1>8. MissingInv(d)'
  BY DEF MissingInv
<1> QED BY <1>1, <1>2, <1>3, <1>4, <1>6, <1>7, <1>8, Assemble DEF DeviceInv

(* Locate: every way a command finds its object. *)
LEMMA LocateKeeps ==
  ASSUME IInv, NEW d \in Device, Locate(d)
  PROVE  IInv'
<1>0. /\ pc[d] = "locate"
      /\ mode[d] \in {"sync", "save"} => d \notin missing
      /\ UNCHANGED <<objects, newest, local, missing, saved, edits, replaced, forgotten>>
      /\ UNCHANGED <<server, files, saved, history>>
  BY DEF Locate, ReadsBookmarks, server, files, history
<1>1. CASE /\ mode[d] \in {"sync", "load"} /\ saved[d] # None
           /\ target' = [target EXCEPT ![d] = saved[d].object]
           /\ Goto(d, "read") /\ UNCHANGED <<mode, seen, merged>>
  <2>1. PICK id \in DOMAIN objects : id = saved[d].object
    BY <1>1 DEF IInv, DeviceInv, MappingInv
  <2> QED BY <1>0, <1>1, <2>1, LocateToRead DEF Goto
<1>2. CASE /\ mode[d] = "sync" /\ saved[d] = None /\ newest # None
           /\ target' = [target EXCEPT ![d] = newest]
           /\ Goto(d, "read") /\ UNCHANGED <<mode, seen, merged>>
  <2>1. PICK id \in DOMAIN objects : id = newest
    BY <1>2 DEF IInv, TypeOK
  <2> QED BY <1>0, <1>2, <2>1, LocateToRead DEF Goto
<1>3. CASE /\ mode[d] = "save" /\ saved[d] # None
           /\ target' = [target EXCEPT ![d] = saved[d].object]
           /\ seen' = [seen EXCEPT ![d] = saved[d].revision]
           /\ merged' = [merged EXCEPT ![d] = local[d]]
           /\ Goto(d, "upload") /\ UNCHANGED mode
  BY <1>0, <1>3, LocateToReplace DEF Goto
<1>4. CASE /\ mode[d] \in {"sync", "save"} /\ saved[d] = None
           /\ merged' = [merged EXCEPT ![d] = local[d]]
           /\ Goto(d, "upload") /\ UNCHANGED <<mode, target, seen>>
  BY <1>0, <1>4, LocateToCreate DEF Goto
<1>5. CASE End(d)
  BY <1>0, <1>5, EndQuiet
<1> QED BY <1>1, <1>2, <1>3, <1>4, <1>5 DEF Locate

(* What a read makes of a remote snapshot: the merge loses neither a remote *)
(* value nor a local one, but replaced ones.                               *)
LEMMA MergeFacts ==
  ASSUME TypeOK, NEW d \in Device, NEW remote \in Snapshot, NEW R,
         Kept(R, Base(d), local[d]), Kept(R, Base(d), remote)
  PROVE  /\ Merge(d, remote) \in Snapshot
         /\ Kept(R, remote, Merge(d, remote))
         /\ \A b \in Bookmark :
              Merge(d, remote)[b] = Absent /\ local[d][b] # Absent => local[d][b] \in R
<1>1. PICK base : base = Base(d)
  OBVIOUS
<1>2. PICK own \in Snapshot : own = local[d]
  BY DEF TypeOK
<1>3. PICK result : result = Merge(d, remote)
  OBVIOUS
<1>4. result = [b \in Bookmark |-> MergeValues(base[b], own[b], remote[b])]
  BY <1>1, <1>2, <1>3 DEF Merge
<1>5. result \in Snapshot
  <2>1. \A b \in Bookmark : own[b] \in Value /\ remote[b] \in Value
    BY DEF Snapshot
  <2>2. \A b \in Bookmark : MergeValues(base[b], own[b], remote[b]) \in Value
    BY <2>1, MergeTakesASide
  <2> QED BY <2>2, <1>4 DEF Snapshot
<1>6. Kept(R, base, own) /\ Kept(R, base, remote)
  BY <1>1, <1>2
<1>7. ASSUME NEW b \in Bookmark, result[b] # remote[b]
      PROVE  remote[b] \in R \cup {Absent}
  <2>1. own[b] # base[b] => base[b] \in R \cup {Absent}
    BY <1>6 DEF Kept
  <2>2. MergeValues(base[b], own[b], remote[b]) # remote[b]
    BY <1>4, <1>7
  <2> QED BY <2>1, <2>2, MergeValueKeepsRemote
<1>8. ASSUME NEW b \in Bookmark, result[b] = Absent, own[b] # Absent
      PROVE  own[b] \in R
  <2>1. remote[b] # base[b] => base[b] \in R \cup {Absent}
    BY <1>6 DEF Kept
  <2>2. MergeValues(base[b], own[b], remote[b]) = Absent
    BY <1>4, <1>8
  <2> QED BY <2>1, <2>2, <1>8, MergeValueDeletes
<1>9. Kept(R, remote, result)
  BY <1>7 DEF Kept
<1> QED BY <1>2, <1>3, <1>5, <1>8, <1>9

(* The version served last keeps what the base of a device holds, and so   *)
(* does the Bookmarks file, if there is one.                               *)
LEMMA ServedKeepsBase ==
  ASSUME IInv, NEW d \in Device, saved[d] # None => target[d] = saved[d].object
  PROVE  /\ d \notin missing => Kept(AllGone, Base(d), local[d])
         /\ Kept(AllGone, Base(d), Current(target[d]))
<1>1. CASE saved[d] = None
  BY <1>1, EmptyKept DEF Base
<1>2. CASE saved[d] # None
  <2>0. PICK t \in DOMAIN objects : t = saved[d].object
    BY <1>2 DEF IInv, DeviceInv, MappingInv
  <2>1. PICK r \in DOMAIN objects[t] :
          /\ r = saved[d].revision
          /\ saved[d].base = objects[t][r]
          /\ d \notin missing => Kept(AllGone, saved[d].base, local[d])
    BY <1>2, <2>0 DEF IInv, DeviceInv, MappingInv
  <2>2. /\ DOMAIN objects[t] = 1 .. Len(objects[t])
        /\ Len(objects[t]) \in DOMAIN objects[t]
        /\ Current(t) = objects[t][Len(objects[t])]
    BY ObjectFacts DEF IInv
  <2>3. r <= Len(objects[t])
    BY <2>2
  <2>4. Kept(AllGone, objects[t][r], objects[t][Len(objects[t])])
    BY <2>2, <2>3 DEF IInv, HistoryKept
  <2>5. Base(d) = saved[d].base
    BY <1>2 DEF Base
  <2> QED BY <1>2, <2>0, <2>1, <2>2, <2>4, <2>5
<1> QED BY <1>1, <1>2

(* ReadObject: what was read is merged, and uploaded, restored or persisted. *)
LEMMA ReadObjectKeeps ==
  ASSUME IInv, NEW d \in Device, ReadObject(d)
  PROVE  IInv'
<1>1. PICK t \in DOMAIN objects : t = target[d]
  BY DEF IInv, DeviceInv, TargetInv, ReadObject
<1>2. /\ Len(objects[t]) \in DOMAIN objects[t]
      /\ Len(objects[t]) \in Revision
      /\ Current(t) = objects[t][Len(objects[t])]
      /\ objects[t][Len(objects[t])] \in Snapshot
  BY ObjectFacts DEF IInv
<1>3. PICK remote \in Snapshot : remote = Current(t)
  BY <1>2
<1>4. PICK result : result = IF mode[d] = "sync" THEN Merge(d, remote) ELSE remote
  OBVIOUS
<1>5. PICK step : step = IF result # remote THEN "upload"
                         ELSE IF mode[d] = "load" THEN "restore" ELSE AfterServer(d, result)
  OBVIOUS
<1>6. /\ pc[d] = "read"
      /\ seen' = [seen EXCEPT ![d] = Len(objects[t])]
      /\ merged' = [merged EXCEPT ![d] = result]
      /\ pc' = [pc EXCEPT ![d] = step]
      /\ UNCHANGED <<objects, newest, local, missing, saved, mode, target, edits,
                     replaced, forgotten>>
  BY <1>1, <1>3, <1>4, <1>5 DEF ReadObject, Goto, server, files, history
<1>7. /\ mode[d] \in {"sync", "load"}
      /\ saved[d] # None => target[d] = saved[d].object
      /\ target[d] # None
      /\ mode[d] = "sync" => d \notin missing
  BY <1>6 DEF IInv, DeviceInv, MissingInv, TargetInv
<1>8. /\ mode[d] = "sync" => Kept(AllGone, Base(d), local[d])
      /\ Kept(AllGone, Base(d), remote)
  BY <1>1, <1>3, <1>7, ServedKeepsBase
<1>9. /\ result \in Snapshot
      /\ Kept(AllGone, remote, result)
      /\ mode[d] = "sync" =>
           \A b \in Bookmark :
             result[b] = Absent /\ local[d][b] # Absent => local[d][b] \in AllGone
  <2>1. CASE mode[d] = "sync"
    BY <2>1, <1>4, <1>8, MergeFacts DEF IInv
  <2>2. CASE mode[d] # "sync"
    BY <2>2, <1>4, KeptSame
  <2> QED BY <2>1, <2>2
<1>10. /\ step \in {"upload", "restore", "persist"}
       /\ step \in {"restore", "persist"} => result = remote
       /\ step = "persist" => result = local[d]
       /\ step \in {"upload", "persist"} => mode[d] = "sync"
  BY <1>4, <1>5, <1>7 DEF AfterServer
<1>11. TypeOK'
  BY <1>2, <1>6, <1>9, <1>10 DEF IInv, TypeOK, Step
<1>12. ObjectsBounded' /\ HistoryKept' /\ Grows
  BY <1>6, Quiet
<1>13. OthersRest(d)
  BY <1>6 DEF IInv, TypeOK, OthersRest
<1>14. /\ pc'[d] = step /\ seen'[d] = Len(objects[t]) /\ merged'[d] = result
       /\ target'[d] = t /\ mode'[d] = mode[d]
       /\ local'[d] = local[d] /\ saved'[d] = saved[d]
       /\ objects' = objects
  BY <1>1, <1>6 DEF IInv, TypeOK
<1>15. AllGone' = AllGone
  BY <1>6 DEF AllGone
<1>16. MappingInv(d)'
  BY <1>6, <1>12, <1>14, MappingStays DEF IInv, DeviceInv
<1>17. TargetInv(d)'
  BY <1>1, <1>7, <1>10, <1>14 DEF TargetInv
<1>18. SeenInv(d)'
  BY <1>2, <1>3, <1>9, <1>10, <1>14, <1>15 DEF SeenInv
<1>19. MergedInv(d)'
  <2>1. step = "restore" /\ saved[d] # None => Kept(AllGone, saved[d].base, result)
    BY <1>8, <1>10 DEF Base
  <2>2. /\ pc'[d] = "restore" /\ saved'[d] # None => Kept(AllGone', saved'[d].base, merged'[d])
        /\ pc'[d] = "persist" => merged'[d] = local'[d]
        /\ pc'[d] \in {"upload", "verify"} /\ mode'[d] = "save" => merged'[d] = local'[d]
    BY <2>1, <1>7, <1>10, <1>14, <1>15
  <2>3. mode'[d] = "sync" =>
          \A b \in Bookmark :
            merged'[d][b] = Absent /\ local'[d][b] # Absent => local'[d][b] \in AllGone'
    BY <1>9, <1>14, <1>15
  <2> QED BY <2>2, <2>3 DEF MergedInv
<1>20. MissingInv(d)'
  BY <1>6, <1>7, <1>10, <1>14 DEF MissingInv
<1> QED BY <1>11, <1>12, <1>13, <1>16, <1>17, <1>18, <1>19, <1>20, Assemble DEF DeviceInv

(* A write keeps what the server promises, and the types. *)
LEMMA PutKeeps ==
  ASSUME IInv, NEW d \in Device, pc[d] = "upload", MayUpload(d), PutObject(d),
         UNCHANGED <<replaced, forgotten>>
  PROVE  /\ objects' \in Seq(Seq(Snapshot))
         /\ newest' \in DOMAIN objects'
         /\ ObjectsBounded' /\ HistoryKept' /\ Grows
BY CreateKeeps, ReplaceKeeps

(* Upload: the object that was created or replaced is read back next. *)
LEMMA UploadKeeps ==
  ASSUME IInv, NEW d \in Device, Upload(d)
  PROVE  IInv'
<1>1. /\ pc[d] = "upload" /\ MayUpload(d) /\ PutObject(d)
      /\ target' = [target EXCEPT ![d] = IF @ = None THEN Len(objects) + 1 ELSE @]
      /\ pc' = [pc EXCEPT ![d] = "verify"]
      /\ UNCHANGED <<local, missing, saved, mode, seen, merged, edits, replaced, forgotten>>
  BY DEF Upload, Goto, files, history
<1>2. /\ objects' \in Seq(Seq(Snapshot))
      /\ newest' \in DOMAIN objects'
      /\ ObjectsBounded' /\ HistoryKept' /\ Grows
  BY <1>1, PutKeeps
<1>3. PICK t : t = IF target[d] = None THEN Len(objects) + 1 ELSE target[d]
  OBVIOUS
<1>4. t \in DOMAIN objects' /\ t \in ObjectId /\ t # None
  <2>1. CASE target[d] = None
    <3>1. newest' = t /\ t \in DOMAIN objects' /\ t \in ObjectId
      BY <2>1, <1>1, <1>3, CreateKeeps
    <3> QED BY <3>1, ConstantAssumption DEF ObjectId
  <2>2. CASE target[d] # None
    <3>1. t \in DOMAIN objects /\ t \in ObjectId
      BY <2>2, <1>3, ObjectFacts DEF IInv, DeviceInv, TargetInv
    <3> QED BY <3>1, <2>2, <1>2, <1>3 DEF Grows
  <2> QED BY <2>1, <2>2
<1>5. target' = [target EXCEPT ![d] = t]
  BY <1>1, <1>3
<1>6. TypeOK'
  BY <1>1, <1>2, <1>4, <1>5 DEF IInv, TypeOK, Step
<1>7. OthersRest(d)
  BY <1>1, <1>5 DEF IInv, TypeOK, OthersRest
<1>8. MappingInv(d)'
  BY <1>1, <1>2, MappingStays DEF IInv, DeviceInv
<1>9. /\ pc'[d] = "verify" /\ target'[d] = t /\ mode'[d] = mode[d]
      /\ local'[d] = local[d] /\ saved'[d] = saved[d] /\ merged'[d] = merged[d]
  BY <1>1, <1>5 DEF IInv, TypeOK
<1>10. TargetInv(d)'
  <2>1. saved[d] # None => t = saved[d].object
    <3>1. saved[d] # None => target[d] = saved[d].object /\ target[d] \in ObjectId
      BY <1>1, ObjectFacts DEF IInv, DeviceInv, TargetInv, MappingInv
    <3>2. target[d] \in ObjectId => target[d] # None
      BY ConstantAssumption DEF ObjectId
    <3> QED BY <3>1, <3>2, <1>3
  <2> QED BY <2>1, <1>4, <1>9 DEF TargetInv
<1>11. SeenInv(d)'
  BY <1>9 DEF SeenInv
<1>12. MergedInv(d)'
  <2>1. AllGone \subseteq AllGone'
    BY <1>2 DEF Grows
  <2> QED BY <2>1, <1>1, <1>9 DEF IInv, DeviceInv, MergedInv
<1>13. MissingInv(d)'
  BY <1>1 DEF IInv, DeviceInv, MissingInv
<1> QED BY <1>2, <1>6, <1>7, <1>8, <1>10, <1>11, <1>12, <1>13, Assemble DEF DeviceInv

(* UploadFails: the object may have been written all the same. *)
LEMMA UploadFailsKeeps ==
  ASSUME IInv, NEW d \in Device, UploadFails(d)
  PROVE  IInv'
<1>1. /\ pc[d] = "upload" /\ End(d)
      /\ UNCHANGED <<local, missing, saved, edits, replaced, forgotten>>
      /\ UNCHANGED <<files, saved, history>>
  BY DEF UploadFails, files, history
<1>2. CASE UNCHANGED server
  BY <1>1, <1>2, EndQuiet
<1>3. CASE MayUpload(d) /\ PutObject(d)
  <2>1. /\ objects' \in Seq(Seq(Snapshot))
        /\ newest' \in DOMAIN objects'
        /\ ObjectsBounded' /\ HistoryKept' /\ Grows
    BY <1>1, <1>3, PutKeeps
  <2>2. TypeOK'
    BY <2>1, <1>1, EndFacts DEF IInv, TypeOK
  <2>3. OthersRest(d)
    BY <1>1, EndFacts DEF IInv, OthersRest
  <2>4. DeviceInv(d)'
    BY <2>1, <1>1, MappingStays, EndFacts, IdleInv DEF IInv, DeviceInv
  <2> QED BY <2>1, <2>2, <2>3, <2>4, Assemble
<1> QED BY <1>2, <1>3 DEF UploadFails

(* Verify: what is found as it was written is the version that is named. *)
LEMMA VerifyKeeps ==
  ASSUME IInv, NEW d \in Device, Verify(d)
  PROVE  IInv'
<1>1. PICK t \in DOMAIN objects : t = target[d]
  BY DEF IInv, DeviceInv, TargetInv, Verify
<1>2. /\ Len(objects[t]) \in DOMAIN objects[t]
      /\ Len(objects[t]) \in Revision
      /\ Current(t) = objects[t][Len(objects[t])]
  BY ObjectFacts DEF IInv
<1>3. /\ pc[d] = "verify"
      /\ UNCHANGED <<objects, newest, local, missing, saved, edits, replaced, forgotten>>
      /\ UNCHANGED <<server, files, saved, history>>
  BY DEF Verify, server, files, history
<1>4. CASE End(d)
  BY <1>3, <1>4, EndQuiet
<1>5. CASE /\ Current(target[d]) = merged[d]
           /\ seen' = [seen EXCEPT ![d] = Len(objects[target[d]])]
           /\ Goto(d, IF mode[d] = "save" THEN "persist" ELSE AfterServer(d, merged[d]))
           /\ UNCHANGED <<mode, target, merged>>
  <2>1. PICK step : step = IF mode[d] = "save" THEN "persist" ELSE AfterServer(d, merged[d])
    OBVIOUS
  <2>2. /\ seen' = [seen EXCEPT ![d] = Len(objects[t])] /\ pc' = [pc EXCEPT ![d] = step]
        /\ UNCHANGED <<mode, target, merged>>
        /\ merged[d] = objects[t][Len(objects[t])]
    BY <2>1, <1>1, <1>2, <1>5 DEF Goto
  <2>3. step \in {"restore", "persist"}
    BY <2>1 DEF AfterServer
  <2>4. step = "persist" => merged[d] = local[d]
    BY <2>1, <1>3 DEF AfterServer, IInv, DeviceInv, MergedInv
  <2>5. TypeOK'
    BY <2>2, <2>3, <1>2, <1>3 DEF IInv, TypeOK, Step
  <2>6. ObjectsBounded' /\ HistoryKept' /\ Grows
    BY <1>3, Quiet
  <2>7. OthersRest(d)
    BY <2>2, <1>3 DEF IInv, TypeOK, OthersRest
  <2>8. MappingInv(d)'
    BY <2>6, <1>3, MappingStays DEF IInv, DeviceInv
  <2>9. /\ pc'[d] = step /\ seen'[d] = Len(objects[t]) /\ merged'[d] = merged[d]
        /\ target'[d] = t /\ mode'[d] = mode[d]
        /\ local'[d] = local[d] /\ saved'[d] = saved[d] /\ objects' = objects
        /\ AllGone' = AllGone
    BY <2>2, <1>1, <1>3 DEF IInv, TypeOK, AllGone
  <2>10. /\ saved[d] # None => t = saved[d].object
         /\ t # None
    BY <1>1, <1>3 DEF IInv, DeviceInv, TargetInv
  <2>11. TargetInv(d)'
    BY <2>3, <2>9, <2>10 DEF TargetInv
  <2>12. SeenInv(d)'
    BY <2>2, <2>3, <2>9, <1>2 DEF SeenInv
  <2>13. MergedInv(d)'
    <3>1. saved[d] # None => Kept(AllGone, saved[d].base, merged[d])
      BY <2>2, <2>10, <1>1, <1>2, ServedKeepsBase DEF Base
    <3>2. mode[d] = "sync" =>
            \A b \in Bookmark :
              merged[d][b] = Absent /\ local[d][b] # Absent => local[d][b] \in AllGone
      BY <1>3 DEF IInv, DeviceInv, MergedInv
    <3> QED BY <3>1, <3>2, <2>3, <2>4, <2>9 DEF MergedInv
  <2>14. MissingInv(d)'
    BY <1>3 DEF IInv, DeviceInv, MissingInv
  <2> QED BY <2>5, <2>6, <2>7, <2>8, <2>11, <2>12, <2>13, <2>14, Assemble DEF DeviceInv
<1> QED BY <1>4, <1>5 DEF Verify

(* Restore: the profile becomes the version that was seen. *)
LEMMA RestoreKeeps ==
  ASSUME IInv, NEW d \in Device, Restore(d)
  PROVE  IInv'
<1>1. /\ pc[d] = "restore"
      /\ local' = [local EXCEPT ![d] = merged[d]] /\ missing' = missing \ {d}
      /\ pc' = [pc EXCEPT ![d] = "persist"]
      /\ UNCHANGED <<objects, newest, saved, mode, target, seen, merged, edits,
                     replaced, forgotten>>
  BY DEF Restore, Goto, server, files, history
<1>2. ObjectsBounded' /\ HistoryKept' /\ Grows
  BY <1>1, Quiet
<1>3. TypeOK'
  BY <1>1 DEF IInv, TypeOK, Step
<1>4. OthersRest(d)
  BY <1>1 DEF IInv, TypeOK, OthersRest
<1>5. /\ pc'[d] = "persist" /\ local'[d] = merged[d] /\ AllGone' = AllGone
  BY <1>1 DEF IInv, TypeOK, AllGone
<1>6. MappingInv(d)'
  BY <1>1, <1>5 DEF IInv, DeviceInv, MappingInv, MergedInv
<1>7. TargetInv(d)'
  BY <1>1, <1>5 DEF IInv, DeviceInv, TargetInv
<1>8. SeenInv(d)' /\ MergedInv(d)'
  BY <1>1, <1>5 DEF IInv, DeviceInv, SeenInv, MergedInv
<1>9. MissingInv(d)'
  BY <1>1 DEF MissingInv
<1> QED BY <1>2, <1>3, <1>4, <1>6, <1>7, <1>8, <1>9, Assemble DEF DeviceInv

(* RestoreFails: the profile may have been restored all the same. *)
LEMMA RestoreFailsKeeps ==
  ASSUME IInv, NEW d \in Device, RestoreFails(d)
  PROVE  IInv'
<1>1. /\ pc[d] = "restore" /\ End(d)
      /\ UNCHANGED <<objects, newest, missing, saved, edits, replaced, forgotten>>
      /\ UNCHANGED <<server, saved, history>>
  BY DEF RestoreFails, server, history
<1>2. CASE UNCHANGED local
  BY <1>1, <1>2, EndQuiet DEF files
<1>3. CASE local' = [local EXCEPT ![d] = merged[d]]
  <2>1. ObjectsBounded' /\ HistoryKept' /\ Grows
    BY <1>1, Quiet
  <2>2. TypeOK'
    BY <1>1, <1>3, EndFacts DEF IInv, TypeOK
  <2>3. OthersRest(d)
    <3>1. \A e \in Device \ {d} : local'[e] = local[e]
      BY <1>3 DEF IInv, TypeOK
    <3> QED BY <3>1, <1>1, EndFacts DEF IInv, OthersRest
  <2>4. local'[d] = merged[d] /\ AllGone' = AllGone
    BY <1>1, <1>3 DEF IInv, TypeOK, AllGone
  <2>5. MappingInv(d)'
    BY <2>4, <1>1 DEF IInv, DeviceInv, MappingInv, MergedInv
  <2>6. DeviceInv(d)'
    BY <2>5, <1>1, EndFacts, IdleInv DEF IInv
  <2> QED BY <2>1, <2>2, <2>3, <2>6, Assemble
<1> QED BY <1>2, <1>3 DEF RestoreFails

(* RestoreHalfDone: the profile has no Bookmarks file, and the base nothing *)
(* to be compared with.                                                    *)
LEMMA RestoreHalfDoneKeeps ==
  ASSUME IInv, NEW d \in Device, RestoreHalfDone(d)
  PROVE  IInv'
<1>1. /\ End(d)
      /\ local' = [local EXCEPT ![d] = Empty]
      /\ missing' = missing \cup {d}
      /\ UNCHANGED <<objects, newest, saved, edits, replaced, forgotten>>
  BY DEF RestoreHalfDone, server, history
<1>2. ObjectsBounded' /\ HistoryKept' /\ Grows
  BY <1>1, Quiet
<1>3. TypeOK'
  <2>1. Empty \in Snapshot
    BY ConstantAssumption DEF Empty, Snapshot, Value, Absent
  <2> QED BY <2>1, <1>1, EndFacts DEF IInv, TypeOK
<1>4. OthersRest(d)
  <2>1. \A e \in Device \ {d} : local'[e] = local[e] /\ (e \in missing' <=> e \in missing)
    BY <1>1 DEF IInv, TypeOK
  <2> QED BY <2>1, <1>1, EndFacts DEF IInv, OthersRest
<1>5. MappingInv(d)'
  BY <1>1 DEF IInv, DeviceInv, MappingInv
<1>6. DeviceInv(d)'
  BY <1>5, <1>1, EndFacts, IdleInv DEF IInv
<1> QED BY <1>2, <1>3, <1>4, <1>6, Assemble

(* StartAnew: what the base has and the file had is forgotten. *)
LEMMA StartAnewKeeps ==
  ASSUME IInv, NEW d \in Device, StartAnew(d)
  PROVE  IInv'
<1>1. /\ pc[d] = "idle" /\ edits < MaxEdits /\ edits' = edits + 1
      /\ missing' = missing \ {d}
      /\ forgotten' = forgotten \cup (Range(Base(d)) \ {Absent})
      /\ UNCHANGED <<objects, newest, local, saved, pc, mode, target, seen, merged, replaced>>
  BY DEF StartAnew, server
<1>2. Base(d) \in Snapshot
  <2>1. Empty \in Snapshot
    BY ConstantAssumption DEF Empty, Snapshot, Value, Absent
  <2>2. saved[d] # None => saved[d].base \in Snapshot
    BY DEF IInv, TypeOK, Saved
  <2> QED BY <2>1, <2>2 DEF Base
<1>3. /\ DOMAIN Base(d) = Bookmark
      /\ \A b \in Bookmark : Base(d)[b] \in Value /\ Base(d)[b] \in Range(Base(d))
      /\ Range(Base(d)) \subseteq Value
  BY <1>2 DEF Snapshot, Range
<1>4. AllGone' = AllGone \cup (Range(Base(d)) \ {Absent})
  BY <1>1 DEF AllGone
<1>5. TypeOK'
  <2>1. edits' \in 0 .. MaxEdits
    BY <1>1, ConstantAssumption DEF IInv, TypeOK
  <2>2. forgotten' \subseteq Value
    BY <1>1, <1>3 DEF IInv, TypeOK
  <2> QED BY <2>1, <2>2, <1>1 DEF IInv, TypeOK
<1>6. ObjectsBounded'
  BY <1>1 DEF IInv, ObjectsBounded
<1>7. \A u, w : Kept(AllGone, u, w) => Kept(AllGone', u, w)
  BY <1>4, KeptMore
<1>8. HistoryKept'
  BY <1>1, <1>7 DEF IInv, HistoryKept
<1>9. Grows
  BY <1>1, <1>4 DEF Grows
<1>10. OthersRest(d)
  BY <1>1 DEF OthersRest
<1>11. Kept(AllGone', Base(d), local[d])
  BY <1>3, <1>4 DEF Kept
<1>12. MappingInv(d)'
  BY <1>1, <1>11 DEF IInv, DeviceInv, MappingInv, Base
<1>13. DeviceInv(d)'
  <2>1. target[d] = None
    BY <1>1 DEF IInv, DeviceInv, TargetInv
  <2> QED BY <2>1, <1>1, <1>12, IdleInv
<1> QED BY <1>5, <1>6, <1>8, <1>9, <1>10, <1>13, Assemble

(* Persist: mapping and base name the version that the profile holds. *)
LEMMA PersistKeeps ==
  ASSUME IInv, NEW d \in Device, Persist(d)
  PROVE  IInv'
<1>1. PICK row : row = [object |-> target[d], revision |-> seen[d], base |-> merged[d]]
  OBVIOUS
<1>2. /\ pc[d] = "persist" /\ End(d)
      /\ saved' = [saved EXCEPT ![d] = row]
      /\ UNCHANGED <<objects, newest, local, missing, edits, replaced, forgotten>>
  BY <1>1 DEF Persist, server, files, history
<1>3. ObjectsBounded' /\ HistoryKept' /\ Grows
  BY <1>2, Quiet
<1>4. PICK t \in DOMAIN objects : t = target[d]
  BY <1>2 DEF IInv, DeviceInv, TargetInv
<1>5. /\ seen[d] \in DOMAIN objects[t]
      /\ merged[d] = objects[t][seen[d]]
      /\ merged[d] = local[d]
  BY <1>2, <1>4 DEF IInv, DeviceInv, SeenInv, MergedInv
<1>6. t \in ObjectId /\ seen[d] \in Revision /\ merged[d] \in Snapshot
  BY ObjectFacts DEF IInv, TypeOK
<1>7. row \in Saved
  BY <1>1, <1>4, <1>6 DEF Saved
<1>8. saved' \in [Device -> Saved \cup {None}]
  BY <1>2, <1>7 DEF IInv, TypeOK
<1>9. TypeOK'
  BY <1>2, <1>8, EndFacts DEF IInv, TypeOK
<1>10. OthersRest(d)
  <2>1. \A e \in Device \ {d} : saved'[e] = saved[e]
    BY <1>2 DEF IInv, TypeOK
  <2> QED BY <2>1, <1>2, EndFacts DEF IInv, OthersRest
<1>11. MappingInv(d)'
  <2>1. saved'[d] = row
    BY <1>2 DEF IInv, TypeOK
  <2>2. row.object = t /\ row.revision = seen[d] /\ row.base = merged[d]
    BY <1>1, <1>4
  <2>3. Kept(AllGone', merged[d], local[d])
    BY <1>5, KeptSame
  <2> QED BY <2>1, <2>2, <2>3, <1>2, <1>4, <1>5 DEF MappingInv
<1>12. DeviceInv(d)'
  BY <1>2, <1>11, EndFacts, IdleInv DEF IInv
<1> QED BY <1>3, <1>9, <1>10, <1>12, Assemble

(* Every step preserves the invariant. *)
LEMMA NextKeeps ==
  ASSUME IInv, Next
  PROVE  IInv'
<1>1. PICK d \in Device :
        \/ UseBrowser(d) \/ StartAnew(d) \/ (\E m \in Commands : Start(d, m))
        \/ DeviceStep(d) \/ Crash(d)
  BY DEF Next
<1>2. CASE UseBrowser(d)
  BY <1>2, UseBrowserKeeps
<1>3. CASE \E m \in Commands : Start(d, m)
  BY <1>3, StartKeeps
<1>4. CASE DeviceStep(d)
  <2>1. CASE Locate(d)
    BY <2>1, LocateKeeps
  <2>2. CASE ReadObject(d)
    BY <2>2, ReadObjectKeeps
  <2>3. CASE Upload(d)
    BY <2>3, UploadKeeps
  <2>4. CASE UploadFails(d)
    BY <2>4, UploadFailsKeeps
  <2>5. CASE Verify(d)
    BY <2>5, VerifyKeeps
  <2>6. CASE RequestFails(d)
    BY <2>6, EndQuiet DEF RequestFails
  <2>7. CASE Restore(d)
    BY <2>7, RestoreKeeps
  <2>8. CASE RestoreFails(d)
    BY <2>8, RestoreFailsKeeps
  <2>9. CASE Persist(d)
    BY <2>9, PersistKeeps
  <2>10. CASE ReadBookmarksFails(d)
    BY <2>10, EndQuiet DEF ReadBookmarksFails
  <2>11. CASE RestoreHalfDone(d)
    BY <2>11, RestoreHalfDoneKeeps
  <2> QED BY <1>4, <2>1, <2>2, <2>3, <2>4, <2>5, <2>6, <2>7, <2>8, <2>9, <2>10, <2>11
          DEF DeviceStep
<1>5. CASE Crash(d)
  BY <1>5, EndQuiet DEF Crash
<1>6. CASE StartAnew(d)
  BY <1>6, StartAnewKeeps
<1> QED BY <1>1, <1>2, <1>3, <1>4, <1>5, <1>6

(* The devices begin with nothing, or with one empty snapshot in common. *)
LEMMA InitKeeps == ASSUME Init PROVE IInv
<1>1. Empty \in Snapshot
  BY ConstantAssumption DEF Empty, Snapshot, Value, Absent
<1>2. 1 \in ObjectId /\ 1 \in Revision /\ 0 \in Revision /\ 1 <= MaxRevision /\ 1 <= MaxObjects
  BY ConstantAssumption DEF ObjectId, Revision
<1>3. PICK row : row = [object |-> 1, revision |-> 1, base |-> Empty]
  OBVIOUS
<1>4. row \in Saved /\ row.object = 1 /\ row.revision = 1 /\ row.base = Empty
  BY <1>1, <1>2, <1>3 DEF Saved
<1>5. PICK vs \in Seq(Snapshot) : vs = <<Empty>>
  BY <1>1, OneElementSeq
<1>6. Len(vs) = 1 /\ DOMAIN vs = {1} /\ vs[1] = Empty
  BY <1>5
<1>7. \/ /\ Synced
         /\ objects = <<vs>> /\ newest = 1
         /\ saved = [d \in Device |-> row]
      \/ /\ ~Synced
         /\ objects = << >> /\ newest = None
         /\ saved = [d \in Device |-> None]
  BY <1>3, <1>5 DEF Init
<1>8. /\ objects \in Seq(Seq(Snapshot))
      /\ newest \in DOMAIN objects \cup {None}
      /\ saved \in [Device -> Saved \cup {None}]
      /\ Len(objects) \in {0, 1}
      /\ \A id \in DOMAIN objects : objects[id] = vs
  <2>1. CASE Synced
    <3>1. objects = <<vs>> /\ <<vs>> \in Seq(Seq(Snapshot))
      BY <1>7, <2>1, OneElementSeq
    <3>2. DOMAIN objects = {1} /\ Len(objects) = 1 /\ objects[1] = vs
      BY <3>1
    <3> QED BY <3>1, <3>2, <1>4, <1>7, <2>1
  <2>2. CASE ~Synced
    <3>1. objects = << >> /\ << >> \in Seq(Seq(Snapshot))
      BY <1>7, <2>2
    <3>2. DOMAIN objects = {} /\ Len(objects) = 0
      BY <3>1
    <3> QED BY <3>1, <3>2, <1>7, <2>2
  <2> QED BY <2>1, <2>2
<1>9. TypeOK
  <2>1. /\ local \in [Device -> Snapshot] /\ merged \in [Device -> Snapshot]
        /\ seen \in [Device -> Revision]
    BY <1>1, <1>2 DEF Init
  <2>2. /\ pc \in [Device -> Step]
        /\ mode \in [Device -> {"none", "sync", "save", "load"}]
        /\ target \in [Device -> ObjectId \cup {None}]
        /\ edits \in 0 .. MaxEdits
        /\ replaced \in [Device -> SUBSET Value]
        /\ missing \subseteq Device /\ forgotten \subseteq Value
    BY ConstantAssumption DEF Init, Step
  <2> QED BY <2>1, <2>2, <1>8 DEF TypeOK
<1>10. Len(objects) <= MaxObjects
  <2>1. Len(objects) = 0 \/ Len(objects) = 1
    BY <1>8
  <2>2. 0 <= MaxObjects /\ 1 <= MaxObjects
    BY ConstantAssumption
  <2> QED BY <2>1, <2>2
<1>11. \A id \in DOMAIN objects : Len(objects[id]) \in 1 .. MaxRevision
  BY <1>6, <1>8, ConstantAssumption
<1>12. ObjectsBounded
  BY <1>10, <1>11 DEF ObjectsBounded
<1>13. HistoryKept
  BY <1>6, <1>8, KeptSame DEF HistoryKept
<1>14. ASSUME NEW d \in Device PROVE DeviceInv(d)
  <2>1. pc[d] = "idle" /\ target[d] = None /\ local[d] = Empty
    BY DEF Init
  <2>2. MappingInv(d)
    <3>1. CASE Synced
      <4>1. saved[d] = row /\ 1 \in DOMAIN objects /\ objects[1] = vs
        BY <1>7, <1>8, <3>1
      <4> QED BY <4>1, <2>1, <1>4, <1>6, KeptSame DEF MappingInv
    <3>2. CASE ~Synced
      BY <3>2, <1>7 DEF MappingInv
    <3> QED BY <3>1, <3>2
  <2> QED BY <2>1, <2>2 DEF DeviceInv, MissingInv, TargetInv, SeenInv, MergedInv
<1> QED BY <1>9, <1>12, <1>13, <1>14 DEF IInv

(* A step that changes nothing preserves the invariant. *)
LEMMA StutterKeeps == ASSUME IInv, UNCHANGED vars PROVE IInv'
<1>1. UNCHANGED <<objects, newest, local, missing, saved, pc, mode, target, seen,
                  merged, edits, replaced, forgotten>>
  BY DEF vars, server, files, history
<1>2. ObjectsBounded' /\ HistoryKept' /\ Grows
  BY <1>1, Quiet
<1>3. TypeOK'
  BY <1>1 DEF IInv, TypeOK
<1>4. \A d \in Device : DeviceInv(d)'
  BY <1>1, <1>2, OtherInv DEF IInv
<1> QED BY <1>2, <1>3, <1>4 DEF IInv

(* The invariant holds in every behaviour. *)
LEMMA InvariantHolds == Spec => []IInv
<1>1. Init => IInv
  BY InitKeeps
<1>2. IInv /\ [Next]_vars => IInv'
  BY NextKeeps, StutterKeeps
<1> QED BY <1>1, <1>2, PTL DEF Spec

-----------------------------------------------------------------------------
(***************************************************************************)
(* Theorems                                                                *)
(***************************************************************************)

(* The server's snapshots, the state of every device and the locals of its  *)
(* commands keep their types, also what a crash or an error leaves behind. *)
THEOREM TypeCorrect == Spec => []TypeOK
<1>1. IInv => TypeOK
  BY DEF IInv
<1> QED BY <1>1, InvariantHolds, PTL

(* persist_sync_state stores a revision and a base that are one version of  *)
(* the mapped object, whoever wrote between the upload and the read back:  *)
(* the next conditional write replaces only what was merged.               *)
THEOREM BaseNamesItsVersion == Spec => []BaseIsTheNamedVersion
<1>1. IInv => BaseIsTheNamedVersion
  BY DEF IInv, DeviceInv, MappingInv, BaseIsTheNamedVersion
<1> QED BY <1>1, InvariantHolds, PTL

(* A write to an object loses only replaced values of its last version. *)
LEMMA PutLosesOnlyReplaced ==
  ASSUME IInv, NEW d \in Device, pc[d] = "upload", MayUpload(d), PutObject(d),
         UNCHANGED <<replaced, forgotten>>, NEW id \in DOMAIN objects
  PROVE  Kept(AllGone, Current(id), Last(objects'[id]))
<1>1. /\ objects' \in Seq(Seq(Snapshot))
      /\ ObjectsBounded' /\ HistoryKept' /\ Grows
  BY PutKeeps
<1>2. /\ Len(objects[id]) \in DOMAIN objects[id]
      /\ Current(id) = objects[id][Len(objects[id])]
  BY ObjectFacts DEF IInv
<1>3. PICK n \in DOMAIN objects[id] : n = Len(objects[id])
  BY <1>2
<1>4. /\ id \in DOMAIN objects' /\ n \in DOMAIN objects'[id]
      /\ objects'[id][n] = Current(id)
  BY <1>1, <1>2, <1>3 DEF Grows
<1>5. PICK vs \in Seq(Snapshot) : vs = objects'[id]
  <2> DEFINE Versions == Seq(Snapshot)
  <2>1. objects' \in Seq(Versions)
    BY <1>1
  <2>2. objects'[id] \in Versions
    <3> HIDE DEF Versions
    <3> QED BY <2>1, <1>4
  <2> QED BY <2>2
<1>6. Len(vs) \in DOMAIN vs /\ n <= Len(vs)
  BY <1>4, <1>5
<1>7. AllGone' = AllGone
  BY DEF AllGone
<1>8. Kept(AllGone, vs[n], vs[Len(vs)])
  BY <1>1, <1>4, <1>5, <1>6, <1>7 DEF HistoryKept
<1> QED BY <1>4, <1>5, <1>8 DEF Last

(* Only upload writes to the server. *)
LEMMA ObjectsChange ==
  ASSUME Next
  PROVE  \/ UNCHANGED objects
         \/ \E d \in Device : /\ pc[d] = "upload" /\ MayUpload(d) /\ PutObject(d)
                              /\ UNCHANGED <<replaced, forgotten>>
BY DEF Next, DeviceStep, UseBrowser, StartAnew, Start, Crash, ReadBookmarksFails, Locate,
       ReadObject, Upload, UploadFails, Verify, RequestFails, Restore, RestoreFails,
       RestoreHalfDone, Persist, server, files, history

(* upload and what is merged for it never lose a value of a bookmark on the *)
(* server that no user has edited or deleted, however devices interleave,  *)
(* requests fail or devices stop, but for what a device's base names of a  *)
(* Bookmarks file that its browser had to write anew.                      *)
THEOREM ServerKeepsValues == Spec => ServerLosesOnlyReplaced
<1>1. ASSUME IInv, Next, NEW id \in DOMAIN objects, NEW b \in Bookmark,
             Last(objects'[id])[b] # Current(id)[b]
      PROVE  Current(id)[b] \in AllGone \cup {Absent}
  <2>1. CASE UNCHANGED objects
    BY <2>1, <1>1 DEF Current
  <2>2. CASE \E d \in Device : /\ pc[d] = "upload" /\ MayUpload(d) /\ PutObject(d)
                               /\ UNCHANGED <<replaced, forgotten>>
    <3>1. Kept(AllGone, Current(id), Last(objects'[id]))
      BY <2>2, <1>1, PutLosesOnlyReplaced
    <3> QED BY <3>1, <1>1 DEF Kept
  <2> QED BY <2>1, <2>2, <1>1, ObjectsChange
<1>2. IInv /\ [Next]_vars =>
        [\A id \in DOMAIN objects : \A b \in Bookmark :
           Last(objects'[id])[b] # Current(id)[b] =>
             Current(id)[b] \in AllGone \cup {Absent}]_vars
  BY <1>1
<1> QED BY <1>2, InvariantHolds, PTL DEF Spec, ServerLosesOnlyReplaced

(* While a device restores, its profile stays, becomes what was merged, or  *)
(* is left without a Bookmarks file.                                       *)
LEMMA RestoreChangesToMerged ==
  ASSUME IInv, Next, NEW d \in Device, pc[d] = "restore", d \notin missing'
  PROVE  local'[d] = local[d] \/ local'[d] = merged[d]
<1>1. PICK e \in Device :
        \/ UseBrowser(e) \/ StartAnew(e) \/ (\E m \in Commands : Start(e, m))
        \/ DeviceStep(e) \/ Crash(e)
  BY DEF Next
<1>2. CASE UNCHANGED local
  BY <1>2
<1>3. CASE UseBrowser(e)
  BY <1>3 DEF UseBrowser, IInv, TypeOK
<1>4. CASE pc[e] = "restore" /\ local' = [local EXCEPT ![e] = merged[e]]
  BY <1>4 DEF IInv, TypeOK
<1>5. CASE RestoreHalfDone(e)
  BY <1>5 DEF RestoreHalfDone, IInv, TypeOK
<1> QED BY <1>1, <1>2, <1>3, <1>4, <1>5
        DEF StartAnew, Start, Crash, DeviceStep, ReadBookmarksFails, Locate, ReadObject,
            Upload, UploadFails, Verify, RequestFails, Restore, RestoreFails, Persist, files

(* A sync's restore_bookmarks, also one that is cut off, either leaves a    *)
(* profile without a Bookmarks file or takes a bookmark out of it only when *)
(* some user has edited or deleted it, or it was forgotten with another    *)
(* file: the merge and the read back decide on what is there.              *)
THEOREM SyncKeepsBookmarks == Spec => SyncRemovesOnlyReplaced
<1>1. ASSUME IInv, Next, NEW d \in Device, NEW b \in Bookmark,
             mode[d] = "sync", pc[d] = "restore", d \notin missing',
             local[d][b] # Absent, local'[d][b] = Absent
      PROVE  local[d][b] \in AllGone
  <2>1. local'[d] = merged[d]
    BY <1>1, RestoreChangesToMerged
  <2> QED BY <2>1, <1>1 DEF IInv, DeviceInv, MergedInv
<1>2. ASSUME UNCHANGED vars, NEW d \in Device
      PROVE  local'[d] = local[d]
  BY <1>2 DEF vars, files
<1>3. IInv /\ [Next]_vars =>
        [\A d \in Device : \A b \in Bookmark :
           mode[d] = "sync" /\ pc[d] = "restore" /\ d \notin missing'
             /\ local[d][b] # Absent /\ local'[d][b] = Absent
           => local[d][b] \in AllGone]_vars
  BY <1>1, <1>2
<1> QED BY <1>3, InvariantHolds, PTL DEF Spec, SyncRemovesOnlyReplaced
=============================================================================
