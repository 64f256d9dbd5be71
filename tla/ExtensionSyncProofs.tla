------------------------ MODULE ExtensionSyncProofs ------------------------
(***************************************************************************)
(* Proofs about ExtensionSync, for any devices, archives, bounds and faults: *)
(* its types, that a manifest the server serves is complete unless its save *)
(* went unanswered, that a base was agreed on by a device and the server,   *)
(* and that a sync restores only over a profile that has not changed.      *)
(***************************************************************************)
EXTENDS ExtensionSync, TLAPS

-----------------------------------------------------------------------------
(***************************************************************************)
(* The inductive invariant                                                 *)
(***************************************************************************)

(* The chunks that version r of a manifest object names. *)
Names(id, r) == ToSet(manifests[id][r].chunks)

Bounded ==
  /\ Len(manifests) <= MaxManifests
  /\ Len(chunks) <= MaxChunks
  /\ \A id \in DOMAIN manifests : Len(manifests[id]) \in 1 .. MaxRevision
  /\ DOMAIN manifests # {} => newest # None

(* No chunk belongs to two versions, of one manifest object or of two. *)
Owned ==
  \A id \in DOMAIN manifests : \A r \in DOMAIN manifests[id] :
    /\ Names(id, r) \subseteq DOMAIN chunks
    /\ \A other \in DOMAIN manifests : \A k \in DOMAIN manifests[other] :
         other # id \/ k # r => Names(other, k) \cap Names(id, r) = {}

(* A device has chunks uploaded that no manifest names yet. *)
Fresh(d) == pc[d] \in {"upload", "publish"}

(* A device deletes chunks. *)
Deleting(d) == pc[d] \in {"deleteOld", "cleanup"}

(* The chunks uploaded so far are all there, and no manifest names them. *)
FreshInv(d) ==
  Fresh(d) =>
    /\ \A c \in ToSet(up[d]) : c \in DOMAIN chunks /\ chunks[c] = local[d]
    /\ \A id \in DOMAIN manifests : \A r \in DOMAIN manifests[id] :
         ToSet(up[d]) \cap Names(id, r) = {}

(* The chunks to delete are none that a confirmed manifest needs. *)
SpentInv(d) ==
  Deleting(d) =>
    /\ ToSet(todo[d]) \subseteq DOMAIN chunks
    /\ \A id \in DOMAIN manifests : \A r \in DOMAIN manifests[id] :
         ToSet(todo[d]) \cap Names(id, r) # {} =>
           r < Len(manifests[id]) \/ id \in unconfirmed

(* Two devices work on different chunks. *)
Apart(d, e) ==
  Fresh(d) =>
    /\ ToSet(up[d]) \cap ToSet(up[e]) = {}
    /\ Deleting(e) => ToSet(up[d]) \cap ToSet(todo[e]) = {}

(* The manifest objects a device knows exist. *)
KnownInv(d) ==
  /\ target[d] # None => target[d] \in DOMAIN manifests
  /\ saved[d] # None => saved[d].object \in DOMAIN manifests
  /\ pc[d] \in {"read", "readOld", "fetch", "download", "restore", "verify", "deleteOld",
                "persist"} => target[d] # None
  /\ ToSet(up[d]) \subseteq DOMAIN chunks
  /\ pc[d] \in {"idle", "locate", "read", "readOld"} => up[d] = << >> /\ old[d] = << >>

(* The chunks a publication is to replace are those of the version it names, *)
(* or of a later one, and then it will be refused.                         *)
OldInv(d) ==
  /\ pc[d] = "readOld" =>
       seen[d] \in Reading /\ seen[d].revision \in DOMAIN manifests[target[d]]
  /\ Fresh(d) /\ target[d] = None => old[d] = << >>
  /\ Fresh(d) /\ target[d] # None =>
       /\ seen[d] \in Reading
       /\ \E k \in DOMAIN manifests[target[d]] :
            seen[d].revision <= k /\ old[d] = manifests[target[d]][k].chunks
  /\ pc[d] = "verify" /\ old[d] # << >> =>
       \E k \in DOMAIN manifests[target[d]] :
         k < seen[d].revision /\ old[d] = manifests[target[d]][k].chunks

(* What a device has read or published is a version of its object. *)
SeenInv(d) ==
  /\ pc[d] \in {"download", "restore", "verify", "deleteOld", "persist"} =>
       /\ seen[d] \in Reading
       /\ seen[d].revision \in DOMAIN manifests[target[d]]
       /\ manifests[target[d]][seen[d].revision] = seen[d].manifest
  /\ pc[d] \in {"verify", "deleteOld", "persist"} => seen[d].manifest.archive = local[d]
  /\ pc[d] = "verify" => seen[d].manifest.chunks = up[d]

(* A sync that loads found a profile without changes. *)
LoadInv(d) ==
  mode[d] = "syncLoad" /\ pc[d] \in {"locate", "read", "fetch", "download", "restore"} =>
    saved[d] = None \/ local[d] = saved[d].archive

DeviceInv(d) == KnownInv(d) /\ OldInv(d) /\ SeenInv(d) /\ LoadInv(d)

IInv ==
  /\ TypeOK
  /\ Bounded
  /\ Owned
  /\ ConfirmedIsComplete
  /\ \A d \in Device : DeviceInv(d) /\ FreshInv(d) /\ SpentInv(d)
  /\ \A d \in Device : \A e \in Device \ {d} : Apart(d, e)

-----------------------------------------------------------------------------
(***************************************************************************)
(* Sequences                                                               *)
(***************************************************************************)

(* Nothing is in the empty sequence. *)
LEMMA EmptyToSet == ToSet(<< >>) = {}
BY DEF ToSet

(* What is in a sequence are its elements. *)
LEMMA ToSetFacts ==
  ASSUME NEW S, NEW s \in Seq(S)
  PROVE  ToSet(s) \subseteq S /\ \A x \in ToSet(s) : \E i \in DOMAIN s : s[i] = x
BY DEF ToSet

(* Appending adds one element and moves none. *)
LEMMA AppendFacts ==
  ASSUME NEW S, NEW s \in Seq(S), NEW e \in S
  PROVE  /\ Append(s, e) \in Seq(S)
         /\ Len(Append(s, e)) = Len(s) + 1
         /\ DOMAIN Append(s, e) = 1 .. Len(s) + 1
         /\ DOMAIN s = 1 .. Len(s)
         /\ Len(s) \in Nat
         /\ \A i \in DOMAIN s : Append(s, e)[i] = s[i]
         /\ Append(s, e)[Len(s) + 1] = e
<1>1. Append(s, e) \in Seq(S)
  OBVIOUS
<1>2. Len(Append(s, e)) = Len(s) + 1 /\ DOMAIN s = 1 .. Len(s) /\ Len(s) \in Nat
  OBVIOUS
<1>3. DOMAIN Append(s, e) = 1 .. Len(s) + 1
  BY <1>1, <1>2
<1>4. \A i \in DOMAIN s : Append(s, e)[i] = s[i]
  BY <1>2
<1>5. Append(s, e)[Len(s) + 1] = e
  BY <1>2
<1> QED BY <1>1, <1>2, <1>3, <1>4, <1>5

(* What is in a sequence with one more element. *)
LEMMA AppendToSet ==
  ASSUME NEW S, NEW s \in Seq(S), NEW e \in S
  PROVE  \A x \in ToSet(Append(s, e)) : x \in ToSet(s) \/ x = e
<1> SUFFICES ASSUME NEW x \in ToSet(Append(s, e)) PROVE x \in ToSet(s) \/ x = e
  OBVIOUS
<1>1. PICK t : t = Append(s, e)
  OBVIOUS
<1>2. /\ DOMAIN t = 1 .. Len(s) + 1 /\ DOMAIN s = 1 .. Len(s) /\ Len(s) \in Nat
      /\ \A i \in DOMAIN s : t[i] = s[i]
      /\ t[Len(s) + 1] = e
  BY <1>1, AppendFacts
<1>3. PICK i \in DOMAIN t : t[i] = x
  BY <1>1 DEF ToSet
<1>4. i \in DOMAIN s \/ i = Len(s) + 1
  BY <1>2, <1>3
<1> QED BY <1>2, <1>3, <1>4 DEF ToSet

(* The first element of a sequence and the rest. *)
LEMMA HeadTailFacts ==
  ASSUME NEW S, NEW s \in Seq(S), s # << >>
  PROVE  /\ Head(s) \in ToSet(s) /\ Head(s) \in S
         /\ Tail(s) \in Seq(S)
         /\ ToSet(Tail(s)) \subseteq ToSet(s)
<1>1. /\ Len(s) \in Nat \ {0} /\ DOMAIN s = 1 .. Len(s)
      /\ Head(s) = s[1] /\ Tail(s) \in Seq(S) /\ Len(Tail(s)) = Len(s) - 1
  OBVIOUS
<1>2. Head(s) \in ToSet(s) /\ Head(s) \in S
  BY <1>1 DEF ToSet
<1>3. PICK t : t = Tail(s)
  OBVIOUS
<1>4. DOMAIN t = 1 .. Len(s) - 1 /\ \A i \in DOMAIN t : t[i] = s[i + 1]
  BY <1>1, <1>3
<1>5. \A i \in DOMAIN t : i + 1 \in DOMAIN s
  BY <1>1, <1>4
<1>6. ToSet(t) \subseteq ToSet(s)
  BY <1>4, <1>5 DEF ToSet
<1> QED BY <1>1, <1>2, <1>3, <1>6

(* One element is a sequence. *)
LEMMA OneElementSeq == ASSUME NEW S, NEW x \in S PROVE <<x>> \in Seq(S)
OBVIOUS

-----------------------------------------------------------------------------
(***************************************************************************)
(* What the server holds                                                   *)
(***************************************************************************)

(* Manifest objects, their versions and the chunks are numbered from one. *)
LEMMA ServerFacts ==
  ASSUME TypeOK, Bounded
  PROVE  /\ DOMAIN manifests = 1 .. Len(manifests)
         /\ Len(manifests) \in Nat
         /\ DOMAIN manifests \subseteq ManifestId
         /\ DOMAIN chunks = 1 .. Len(chunks)
         /\ Len(chunks) \in Nat
         /\ DOMAIN chunks \subseteq ChunkId
         /\ \A id \in DOMAIN manifests :
              /\ manifests[id] \in Seq(Manifest)
              /\ DOMAIN manifests[id] = 1 .. Len(manifests[id])
              /\ Len(manifests[id]) \in DOMAIN manifests[id]
              /\ Len(manifests[id]) \in 1 .. MaxRevision
              /\ DOMAIN manifests[id] \subseteq 1 .. MaxRevision
              /\ Current(id) = manifests[id][Len(manifests[id])]
              /\ \A r \in DOMAIN manifests[id] : manifests[id][r] \in Manifest
<1> DEFINE Versions == Seq(Manifest)
<1>1. manifests \in Seq(Versions)
  BY DEF TypeOK
<1>2. /\ DOMAIN manifests = 1 .. Len(manifests)
      /\ Len(manifests) \in Nat
      /\ \A id \in DOMAIN manifests : manifests[id] \in Versions
  <2> HIDE DEF Versions
  <2> QED BY <1>1
<1>3. DOMAIN manifests \subseteq ManifestId
  BY <1>2, ConstantAssumption DEF Bounded, ManifestId
<1>4. DOMAIN chunks = 1 .. Len(chunks) /\ Len(chunks) \in Nat
  <2>1. PICK S : S = Archive \cup {Gone}
    OBVIOUS
  <2>2. chunks \in Seq(S)
    BY <2>1 DEF TypeOK
  <2> QED BY <2>2
<1>5. DOMAIN chunks \subseteq ChunkId
  BY <1>4, ConstantAssumption DEF Bounded, ChunkId
<1>6. ASSUME NEW id \in DOMAIN manifests
      PROVE  /\ manifests[id] \in Seq(Manifest)
             /\ DOMAIN manifests[id] = 1 .. Len(manifests[id])
             /\ Len(manifests[id]) \in DOMAIN manifests[id]
             /\ Len(manifests[id]) \in 1 .. MaxRevision
             /\ DOMAIN manifests[id] \subseteq 1 .. MaxRevision
             /\ Current(id) = manifests[id][Len(manifests[id])]
             /\ \A r \in DOMAIN manifests[id] : manifests[id][r] \in Manifest
  <2>0. PICK S : S = Manifest
    OBVIOUS
  <2>1. PICK vs \in Seq(S) : vs = manifests[id]
    BY <1>2, <2>0
  <2>2. DOMAIN vs = 1 .. Len(vs) /\ \A i \in DOMAIN vs : vs[i] \in S
    OBVIOUS
  <2>3. Len(vs) \in 1 .. MaxRevision
    BY <2>1 DEF Bounded
  <2>4. Len(vs) \in DOMAIN vs /\ DOMAIN vs \subseteq 1 .. MaxRevision
    BY <2>2, <2>3, ConstantAssumption
  <2>5. Current(id) = manifests[id][Len(manifests[id])]
    BY DEF Current, Last
  <2> QED BY <2>0, <2>1, <2>2, <2>3, <2>4, <2>5
<1> QED BY <1>2, <1>3, <1>4, <1>5, <1>6

(* What is read of a manifest object is its last version. *)
LEMMA ReadFacts ==
  ASSUME TypeOK, Bounded, NEW id \in DOMAIN manifests
  PROVE  /\ Read(id) \in Reading
         /\ Read(id).revision = Len(manifests[id])
         /\ Read(id).revision \in DOMAIN manifests[id]
         /\ Read(id).manifest = manifests[id][Read(id).revision]
         /\ Current(id).archive \in Archive
         /\ Current(id).chunks \in Seq(ChunkId)
<1>1. /\ Len(manifests[id]) \in DOMAIN manifests[id]
      /\ Len(manifests[id]) \in 1 .. MaxRevision
      /\ Current(id) = manifests[id][Len(manifests[id])]
      /\ manifests[id][Len(manifests[id])] \in Manifest
  BY ServerFacts
<1>2. Read(id) = [revision |-> Len(manifests[id]), manifest |-> manifests[id][Len(manifests[id])]]
  BY <1>1 DEF Read
<1> QED BY <1>1, <1>2 DEF Reading, Manifest

-----------------------------------------------------------------------------
(***************************************************************************)
(* What a step of one device leaves true                                   *)
(***************************************************************************)

(* Versions of manifests are only added. *)
Grows ==
  \A id \in DOMAIN manifests :
    /\ id \in DOMAIN manifests'
    /\ \A r \in DOMAIN manifests[id] :
         r \in DOMAIN manifests'[id] /\ manifests'[id][r] = manifests[id][r]

(* Chunks are only added, and none is deleted that another has uploaded and *)
(* not published yet.                                                      *)
ChunksSpared(d) ==
  \A c \in DOMAIN chunks :
    /\ c \in DOMAIN chunks'
    /\ \A e \in Device \ {d} : Fresh(e) /\ c \in ToSet(up[e]) => chunks'[c] = chunks[c]

(* What the device publishes are the chunks that it has uploaded. *)
OwnVersions(d) ==
  \A id \in DOMAIN manifests' : \A r \in DOMAIN manifests'[id] :
    \/ id \in DOMAIN manifests /\ r \in DOMAIN manifests[id]
    \/ Fresh(d) /\ ToSet(manifests'[id][r].chunks) = ToSet(up[d])

(* A manifest gets confirmed only by another version. *)
ConfirmsNew ==
  \A id \in DOMAIN manifests :
    /\ Len(manifests[id]) <= Len(manifests'[id])
    /\ id \in unconfirmed => id \in unconfirmed' \/ Len(manifests[id]) < Len(manifests'[id])

ServerStep(d) == Grows /\ ChunksSpared(d) /\ OwnVersions(d) /\ ConfirmsNew

(* Everything of a device but d stays as it is. *)
OthersRest(d) ==
  \A e \in Device \ {d} :
    /\ local'[e] = local[e] /\ saved'[e] = saved[e]
    /\ pc'[e] = pc[e] /\ mode'[e] = mode[e] /\ target'[e] = target[e]
    /\ seen'[e] = seen[e] /\ old'[e] = old[e] /\ up'[e] = up[e] /\ todo'[e] = todo[e]

(* What the device calls its own are its former chunks or new ones. *)
OwnChunks(d) ==
  /\ \A c \in ToSet(up'[d]) : c \in ToSet(up[d]) \/ c \notin DOMAIN chunks
  /\ Fresh(d)' => Fresh(d) \/ up'[d] = << >>
  /\ Deleting(d)' =>
       \A c \in ToSet(todo'[d]) :
         \/ c \in ToSet(up[d])
         \/ Deleting(d) /\ c \in ToSet(todo[d])
         \/ \E id \in DOMAIN manifests : \E r \in DOMAIN manifests[id] : c \in Names(id, r)

(* What a device knows of the server stays true while others act. *)
LEMMA OtherInv ==
  ASSUME NEW e \in Device, DeviceInv(e), Grows, DOMAIN chunks \subseteq DOMAIN chunks',
         local'[e] = local[e], saved'[e] = saved[e],
         pc'[e] = pc[e], mode'[e] = mode[e], target'[e] = target[e],
         seen'[e] = seen[e], old'[e] = old[e], up'[e] = up[e]
  PROVE  DeviceInv(e)'
<1>1. KnownInv(e)'
  BY DEF DeviceInv, KnownInv, Grows
<1>2. target[e] # None => target[e] \in DOMAIN manifests
  BY DEF DeviceInv, KnownInv
<1>3. pc[e] \in {"readOld", "download", "restore", "verify", "deleteOld", "persist"} =>
        target[e] # None
  BY DEF DeviceInv, KnownInv
<1>4. OldInv(e)'
  <2>1. pc[e] = "readOld" => seen[e] \in Reading /\ seen[e].revision \in DOMAIN manifests'[target[e]]
    BY <1>2, <1>3 DEF DeviceInv, OldInv, Grows
  <2>2. Fresh(e) /\ target[e] # None =>
          /\ seen[e] \in Reading
          /\ \E k \in DOMAIN manifests'[target[e]] :
               seen[e].revision <= k /\ old[e] = manifests'[target[e]][k].chunks
    BY <1>2 DEF DeviceInv, OldInv, Grows
  <2>3. pc[e] = "verify" /\ old[e] # << >> =>
          \E k \in DOMAIN manifests'[target[e]] :
            k < seen[e].revision /\ old[e] = manifests'[target[e]][k].chunks
    BY <1>2, <1>3 DEF DeviceInv, OldInv, Grows
  <2>4. Fresh(e) /\ target[e] = None => old[e] = << >>
    BY DEF DeviceInv, OldInv
  <2>5. Fresh(e)' = Fresh(e)
    BY DEF Fresh
  <2> QED BY <2>1, <2>2, <2>3, <2>4, <2>5 DEF OldInv
<1>5. SeenInv(e)'
  BY <1>2, <1>3 DEF DeviceInv, SeenInv, Grows
<1>6. LoadInv(e)'
  BY DEF DeviceInv, LoadInv
<1> QED BY <1>1, <1>4, <1>5, <1>6 DEF DeviceInv

(* Nor does it lose the chunks it has uploaded. *)
LEMMA OtherFresh ==
  ASSUME IInv, NEW d \in Device, NEW e \in Device, e # d, ServerStep(d), OthersRest(d)
  PROVE  FreshInv(e)'
<1>1. Fresh(e)' = Fresh(e) /\ up'[e] = up[e] /\ local'[e] = local[e]
  BY DEF Fresh, OthersRest
<1>2. SUFFICES ASSUME Fresh(e) PROVE FreshInv(e)'
  BY <1>1 DEF FreshInv
<1>3. ASSUME NEW c \in ToSet(up[e]) PROVE c \in DOMAIN chunks' /\ chunks'[c] = local[e]
  <2>1. c \in DOMAIN chunks /\ chunks[c] = local[e]
    BY <1>2 DEF IInv, FreshInv
  <2> QED BY <2>1, <1>2 DEF ServerStep, ChunksSpared
<1>4. ASSUME NEW id \in DOMAIN manifests', NEW r \in DOMAIN manifests'[id]
      PROVE  ToSet(up[e]) \cap ToSet(manifests'[id][r].chunks) = {}
  <2>1. CASE id \in DOMAIN manifests /\ r \in DOMAIN manifests[id]
    <3>1. manifests'[id][r] = manifests[id][r]
      BY <2>1 DEF ServerStep, Grows
    <3>2. ToSet(up[e]) \cap Names(id, r) = {}
      BY <2>1, <1>2 DEF IInv, FreshInv
    <3> QED BY <3>1, <3>2 DEF Names
  <2>2. CASE ToSet(manifests'[id][r].chunks) = ToSet(up[d])
    <3>1. ToSet(up[e]) \cap ToSet(up[d]) = {}
      BY <1>2 DEF IInv, Apart
    <3> QED BY <3>1, <2>2
  <2> QED BY <2>1, <2>2 DEF ServerStep, OwnVersions
<1> QED BY <1>1, <1>3, <1>4 DEF FreshInv, Names

(* Nor is anything published or confirmed that it is about to delete. *)
LEMMA OtherSpent ==
  ASSUME IInv, NEW d \in Device, NEW e \in Device, e # d, ServerStep(d), OthersRest(d)
  PROVE  SpentInv(e)'
<1>1. Deleting(e)' = Deleting(e) /\ todo'[e] = todo[e]
  BY DEF Deleting, OthersRest
<1>2. SUFFICES ASSUME Deleting(e) PROVE SpentInv(e)'
  BY <1>1 DEF SpentInv
<1>3. ToSet(todo[e]) \subseteq DOMAIN chunks'
  BY <1>2 DEF IInv, SpentInv, ServerStep, ChunksSpared
<1>4. ASSUME NEW id \in DOMAIN manifests', NEW r \in DOMAIN manifests'[id],
             ToSet(todo[e]) \cap ToSet(manifests'[id][r].chunks) # {}
      PROVE  r < Len(manifests'[id]) \/ id \in unconfirmed'
  <2>1. CASE id \in DOMAIN manifests /\ r \in DOMAIN manifests[id]
    <3>1. manifests'[id][r] = manifests[id][r]
      BY <2>1 DEF ServerStep, Grows
    <3>2. r < Len(manifests[id]) \/ id \in unconfirmed
      BY <2>1, <1>2, <1>4, <3>1 DEF IInv, SpentInv, Names
    <3>3. r \in Nat /\ r <= Len(manifests[id]) /\ Len(manifests[id]) \in Nat
      <4>1. DOMAIN manifests[id] = 1 .. Len(manifests[id]) /\ Len(manifests[id]) \in 1 .. MaxRevision
        BY <2>1, ServerFacts DEF IInv
      <4> QED BY <4>1, <2>1, ConstantAssumption
    <3>4. /\ Len(manifests[id]) <= Len(manifests'[id])
          /\ (id \in unconfirmed => id \in unconfirmed' \/ Len(manifests[id]) < Len(manifests'[id]))
      BY <2>1 DEF ServerStep, ConfirmsNew
    <3> QED BY <3>2, <3>3, <3>4
  <2>2. CASE Fresh(d) /\ ToSet(manifests'[id][r].chunks) = ToSet(up[d])
    <3>1. ToSet(up[d]) \cap ToSet(todo[e]) = {}
      BY <1>2, <2>2 DEF IInv, Apart
    <3> QED BY <3>1, <2>2, <1>4
  <2> QED BY <2>1, <2>2 DEF ServerStep, OwnVersions
<1> QED BY <1>1, <1>3, <1>4 DEF SpentInv, Names

(* Two devices go on working on different chunks. *)
LEMMA ApartStays ==
  ASSUME IInv, NEW d \in Device, NEW e \in Device, e # d, OwnChunks(d), OthersRest(d)
  PROVE  Apart(d, e)' /\ Apart(e, d)'
<1>1. /\ pc'[e] = pc[e] /\ up'[e] = up[e] /\ todo'[e] = todo[e]
      /\ Fresh(e)' = Fresh(e) /\ Deleting(e)' = Deleting(e)
  BY DEF OthersRest, Fresh, Deleting
<1>2. Apart(d, e) /\ Apart(e, d)
  BY DEF IInv
<1>3. ToSet(up[e]) \subseteq DOMAIN chunks
  BY DEF IInv, DeviceInv, KnownInv
<1>4. Deleting(e) => ToSet(todo[e]) \subseteq DOMAIN chunks
  BY DEF IInv, SpentInv
<1>5. Apart(d, e)'
  <2>1. SUFFICES ASSUME Fresh(d)'
                 PROVE  /\ ToSet(up'[d]) \cap ToSet(up[e]) = {}
                        /\ Deleting(e) => ToSet(up'[d]) \cap ToSet(todo[e]) = {}
    BY <1>1 DEF Apart
  <2>2. ASSUME NEW c \in ToSet(up'[d])
        PROVE  c \notin ToSet(up[e]) /\ (Deleting(e) => c \notin ToSet(todo[e]))
    <3>1. CASE c \notin DOMAIN chunks
      BY <3>1, <1>3, <1>4
    <3>2. CASE c \in ToSet(up[d])
      <4>1. Fresh(d)
        BY <3>2, <2>1, EmptyToSet DEF OwnChunks
      <4> QED BY <4>1, <3>2, <1>2 DEF Apart
    <3> QED BY <3>1, <3>2 DEF OwnChunks
  <2> QED BY <2>2
<1>6. Apart(e, d)'
  <2>1. SUFFICES ASSUME Fresh(e)
                 PROVE  /\ ToSet(up[e]) \cap ToSet(up'[d]) = {}
                        /\ Deleting(d)' => ToSet(up[e]) \cap ToSet(todo'[d]) = {}
    BY <1>1 DEF Apart
  <2>2. ToSet(up[e]) \cap ToSet(up[d]) = {}
    BY <2>1, <1>2 DEF Apart
  <2>3. ToSet(up[e]) \cap ToSet(up'[d]) = {}
    BY <2>2, <1>3 DEF OwnChunks
  <2>4. ASSUME Deleting(d)', NEW c \in ToSet(todo'[d]) PROVE c \notin ToSet(up[e])
    <3>1. CASE c \in ToSet(up[d])
      BY <3>1, <2>2
    <3>2. CASE Deleting(d) /\ c \in ToSet(todo[d])
      BY <3>2, <2>1, <1>2 DEF Apart
    <3>3. CASE \E id \in DOMAIN manifests : \E r \in DOMAIN manifests[id] : c \in Names(id, r)
      BY <3>3, <2>1 DEF IInv, FreshInv
    <3> QED BY <2>4, <3>1, <3>2, <3>3 DEF OwnChunks
  <2> QED BY <2>3, <2>4
<1> QED BY <1>5, <1>6

(* A step of one device keeps the invariant if it does so for the server and *)
(* for itself.                                                             *)
LEMMA Assemble ==
  ASSUME IInv, NEW d \in Device, TypeOK', Bounded', Owned', ConfirmedIsComplete',
         ServerStep(d), OthersRest(d), OwnChunks(d),
         DeviceInv(d)', FreshInv(d)', SpentInv(d)'
  PROVE  IInv'
<1>1. ASSUME NEW e \in Device PROVE DeviceInv(e)' /\ FreshInv(e)' /\ SpentInv(e)'
  <2>1. CASE e = d
    BY <2>1
  <2>2. CASE e # d
    <3>1. DeviceInv(e)'
      <4>1. DeviceInv(e) /\ Grows /\ DOMAIN chunks \subseteq DOMAIN chunks'
        BY DEF IInv, ServerStep, ChunksSpared
      <4> QED BY <2>2, <4>1, OtherInv DEF OthersRest
    <3> QED BY <3>1, <2>2, OtherFresh, OtherSpent
  <2> QED BY <2>1, <2>2
<1>2. ASSUME NEW e \in Device, NEW f \in Device \ {e} PROVE Apart(e, f)'
  <2>1. CASE e = d \/ f = d
    BY <2>1, ApartStays
  <2>2. CASE e # d /\ f # d
    <3>1. Apart(e, f)
      BY DEF IInv
    <3> QED BY <3>1, <2>2 DEF Apart, OthersRest, Fresh, Deleting
  <2> QED BY <2>1, <2>2
<1> QED BY <1>1, <1>2 DEF IInv

(* The server keeps its promises while nobody writes to it. *)
LEMMA Quiet ==
  ASSUME IInv, NEW d \in Device, UNCHANGED <<manifests, newest, chunks>>,
         unconfirmed \subseteq unconfirmed'
  PROVE  Bounded' /\ Owned' /\ ConfirmedIsComplete' /\ ServerStep(d)
<1>1. Bounded'
  BY DEF IInv, Bounded
<1>2. Owned'
  BY DEF IInv, Owned, Names
<1>3. ConfirmedIsComplete'
  BY DEF IInv, ConfirmedIsComplete, Complete, Current
<1>4. ServerStep(d)
  <2>1. \A id \in DOMAIN manifests : Len(manifests[id]) <= Len(manifests'[id])
    <3>1. \A id \in DOMAIN manifests : Len(manifests[id]) \in 1 .. MaxRevision
      BY DEF IInv, Bounded
    <3> QED BY <3>1, ConstantAssumption
  <2> QED BY <2>1 DEF ServerStep, Grows, ChunksSpared, OwnVersions, ConfirmsNew
<1> QED BY <1>1, <1>2, <1>3, <1>4

(* The command of a device ends. *)
LEMMA EndKeeps ==
  ASSUME IInv, NEW d \in Device, End(d),
         manifests' \in Seq(Seq(Manifest)), newest' \in DOMAIN manifests' \cup {None},
         chunks' \in Seq(Archive \cup {Gone}), unconfirmed' \subseteq DOMAIN manifests',
         Bounded', Owned', ConfirmedIsComplete', ServerStep(d),
         local' \in [Device -> Archive],
         saved' \in [Device -> [object : ManifestId, archive : Archive] \cup {None}],
         \A e \in Device \ {d} : local'[e] = local[e] /\ saved'[e] = saved[e],
         saved'[d] # None => saved'[d].object \in DOMAIN manifests'
  PROVE  IInv'
<1>1. /\ pc' = [pc EXCEPT ![d] = "idle"]
      /\ mode' = [mode EXCEPT ![d] = "none"]
      /\ target' = [target EXCEPT ![d] = None]
      /\ seen' = [seen EXCEPT ![d] = None]
      /\ old' = [old EXCEPT ![d] = << >>]
      /\ up' = [up EXCEPT ![d] = << >>]
      /\ todo' = [todo EXCEPT ![d] = << >>]
  BY DEF End, Goto
<1>2. /\ pc' \in [Device -> Step] /\ mode' \in [Device -> Mode]
      /\ target' \in [Device -> ManifestId \cup {None}]
      /\ seen' \in [Device -> Reading \cup {None}]
  BY <1>1 DEF IInv, TypeOK, Step, Mode
<1>3. /\ old' \in [Device -> Seq(ChunkId)] /\ up' \in [Device -> Seq(ChunkId)]
      /\ todo' \in [Device -> Seq(ChunkId)]
  <2>1. << >> \in Seq(ChunkId)
    OBVIOUS
  <2>2. PICK S : S = Seq(ChunkId)
    OBVIOUS
  <2>3. /\ << >> \in S /\ old \in [Device -> S] /\ up \in [Device -> S] /\ todo \in [Device -> S]
    BY <2>1, <2>2 DEF IInv, TypeOK
  <2> QED BY <2>2, <2>3, <1>1
<1>4. TypeOK'
  BY <1>2, <1>3 DEF TypeOK
<1>5. /\ pc'[d] = "idle" /\ mode'[d] = "none" /\ target'[d] = None
      /\ old'[d] = << >> /\ up'[d] = << >>
  BY <1>1 DEF IInv, TypeOK
<1>6. OthersRest(d)
  BY <1>1 DEF IInv, TypeOK, OthersRest
<1>7. ~Fresh(d)' /\ ~Deleting(d)'
  BY <1>5 DEF Fresh, Deleting
<1>8. OwnChunks(d)
  BY <1>5, <1>7, EmptyToSet DEF OwnChunks
<1>9. DeviceInv(d)'
  <2>1. KnownInv(d)'
    BY <1>5, EmptyToSet DEF KnownInv
  <2>2. OldInv(d)' /\ SeenInv(d)' /\ LoadInv(d)'
    BY <1>5, <1>7 DEF OldInv, SeenInv, LoadInv
  <2> QED BY <2>1, <2>2 DEF DeviceInv
<1>10. FreshInv(d)' /\ SpentInv(d)'
  BY <1>7 DEF FreshInv, SpentInv
<1> QED BY <1>4, <1>6, <1>8, <1>9, <1>10, Assemble

(* A command that ends leaves the server and the device's database alone. *)
LEMMA EndCalm ==
  ASSUME IInv, NEW d \in Device, End(d), UNCHANGED <<manifests, newest, chunks, saved>>,
         unconfirmed \subseteq unconfirmed', unconfirmed' \subseteq DOMAIN manifests,
         local' \in [Device -> Archive], \A e \in Device \ {d} : local'[e] = local[e]
  PROVE  IInv'
<1>1. Bounded' /\ Owned' /\ ConfirmedIsComplete' /\ ServerStep(d)
  BY Quiet
<1>2. saved[d] # None => saved[d].object \in DOMAIN manifests
  BY DEF IInv, DeviceInv, KnownInv
<1> QED BY <1>1, <1>2, EndKeeps DEF IInv, TypeOK

(* A step of one device that leaves the server alone. *)
LEMMA CalmStep ==
  ASSUME IInv, NEW d \in Device, UNCHANGED <<manifests, newest, chunks>>,
         unconfirmed \subseteq unconfirmed',
         TypeOK', OthersRest(d), OwnChunks(d), DeviceInv(d)', FreshInv(d)', SpentInv(d)'
  PROVE  IInv'
BY Quiet, Assemble

(* What a step of one device, from step to step, leaves of its locals. *)
LEMMA GotoFacts ==
  ASSUME TypeOK, NEW d \in Device, NEW step \in Step, Goto(d, step)
  PROVE  /\ pc' \in [Device -> Step] /\ pc'[d] = step
         /\ \A e \in Device \ {d} : pc'[e] = pc[e]
BY DEF TypeOK, Goto

-----------------------------------------------------------------------------
(***************************************************************************)
(* The steps that read                                                     *)
(***************************************************************************)

(* UseBrowser: no command runs beside it. *)
LEMMA UseBrowserKeeps ==
  ASSUME IInv, NEW d \in Device, UseBrowser(d)
  PROVE  IInv'
<1>1. /\ pc[d] = "idle"
      /\ UNCHANGED <<manifests, newest, chunks, unconfirmed, saved, pc, mode, target, seen,
                     old, up, todo>>
      /\ local' \in [Device -> Archive] /\ \A e \in Device \ {d} : local'[e] = local[e]
  BY DEF UseBrowser, server, IInv, TypeOK
<1>2. TypeOK' /\ OthersRest(d)
  BY <1>1 DEF IInv, TypeOK, OthersRest
<1>3. ~Fresh(d) /\ ~Fresh(d)' /\ ~Deleting(d)'
  BY <1>1 DEF Fresh, Deleting
<1>4. OwnChunks(d) /\ FreshInv(d)' /\ SpentInv(d)'
  BY <1>1, <1>3 DEF OwnChunks, FreshInv, SpentInv
<1>5. DeviceInv(d)'
  BY <1>1 DEF IInv, DeviceInv, KnownInv, OldInv, SeenInv, LoadInv, Fresh
<1> QED BY <1>1, <1>2, <1>4, <1>5, CalmStep

(* Start: a command begins. *)
LEMMA StartKeeps ==
  ASSUME IInv, NEW d \in Device, NEW m \in {"sync", "save", "load"}, Start(d, m)
  PROVE  IInv'
<1>1. /\ pc[d] = "idle" /\ mode' = [mode EXCEPT ![d] = m] /\ Goto(d, "locate")
      /\ UNCHANGED <<manifests, newest, chunks, unconfirmed, local, saved, target, seen,
                     old, up, todo>>
  BY DEF Start, server
<1>2. /\ pc' \in [Device -> Step] /\ pc'[d] = "locate"
      /\ \A e \in Device \ {d} : pc'[e] = pc[e]
      /\ mode' \in [Device -> Mode] /\ mode'[d] = m
      /\ \A e \in Device \ {d} : mode'[e] = mode[e]
  BY <1>1, GotoFacts DEF IInv, TypeOK, Step, Mode
<1>3. TypeOK' /\ OthersRest(d)
  BY <1>1, <1>2 DEF IInv, TypeOK, OthersRest
<1>4. ~Fresh(d)' /\ ~Deleting(d)'
  BY <1>2 DEF Fresh, Deleting
<1>5. OwnChunks(d) /\ FreshInv(d)' /\ SpentInv(d)'
  BY <1>1, <1>4 DEF OwnChunks, FreshInv, SpentInv
<1>6. DeviceInv(d)'
  BY <1>1, <1>2, <1>4 DEF IInv, DeviceInv, KnownInv, OldInv, SeenInv, LoadInv
<1> QED BY <1>1, <1>3, <1>5, <1>6, CalmStep

(* Steps that only end the command: a crash, a request or a restore that    *)
(* fails, the end of a clean-up.                                           *)
LEMMA EndingsKeep ==
  ASSUME IInv, NEW d \in Device,
         Crash(d) \/ CleanupDone(d) \/ CommandFails(d) \/ RestoreHalfDone(d)
  PROVE  IInv'
<1>1. End(d) /\ UNCHANGED <<manifests, newest, chunks, unconfirmed, saved>>
  BY DEF Crash, CleanupDone, CommandFails, RestoreHalfDone, server
<1>2. local' \in [Device -> Archive] /\ \A e \in Device \ {d} : local'[e] = local[e]
  <2>1. CASE RestoreHalfDone(d)
    BY <2>1 DEF RestoreHalfDone, IInv, TypeOK
  <2>2. CASE Crash(d) \/ CleanupDone(d) \/ CommandFails(d)
    <3>1. UNCHANGED local
      BY <2>2 DEF Crash, CleanupDone, CommandFails
    <3> QED BY <3>1 DEF IInv, TypeOK
  <2> QED BY <2>1, <2>2
<1> QED BY <1>1, <1>2, EndCalm DEF IInv, TypeOK

(* Locate: the mapped object, or the one changed last, or a new one. *)
LEMMA LocateKeeps ==
  ASSUME IInv, NEW d \in Device, Locate(d)
  PROVE  IInv'
<1>1. pc[d] = "locate" /\ UNCHANGED <<manifests, newest, chunks, unconfirmed, local, saved>>
  BY DEF Locate, server
<1>2. PICK id : id = Located(d)
  OBVIOUS
<1>3. /\ id # None => id \in DOMAIN manifests /\ id \in ManifestId
      /\ id = None => target[d] = None
  <2>1. newest \in DOMAIN manifests \cup {None}
    BY DEF IInv, TypeOK
  <2>2. saved[d] # None => saved[d].object \in DOMAIN manifests
    BY DEF IInv, DeviceInv, KnownInv
  <2>3. target[d] # None => newest # None
    BY DEF IInv, DeviceInv, KnownInv, Bounded
  <2>4. DOMAIN manifests \subseteq ManifestId /\ DOMAIN manifests \subseteq Nat
    BY ServerFacts DEF IInv
  <2> QED BY <1>2, <2>1, <2>2, <2>3, <2>4, ConstantAssumption DEF Located
<1>4. up[d] = << >> /\ old[d] = << >>
  BY <1>1 DEF IInv, DeviceInv, KnownInv
<1>5. CASE /\ id # None /\ target' = [target EXCEPT ![d] = id] /\ Goto(d, "read")
           /\ UNCHANGED <<mode, seen, old, up, todo>>
  <2>1. /\ pc' \in [Device -> Step] /\ pc'[d] = "read"
        /\ \A e \in Device \ {d} : pc'[e] = pc[e]
        /\ target' \in [Device -> ManifestId \cup {None}] /\ target'[d] = id
        /\ \A e \in Device \ {d} : target'[e] = target[e]
    BY <1>3, <1>5, GotoFacts DEF IInv, TypeOK, Step
  <2>2. TypeOK' /\ OthersRest(d)
    BY <1>1, <1>5, <2>1 DEF IInv, TypeOK, OthersRest
  <2>3. ~Fresh(d)' /\ ~Deleting(d)'
    BY <2>1 DEF Fresh, Deleting
  <2>4. OwnChunks(d) /\ FreshInv(d)' /\ SpentInv(d)'
    BY <1>5, <2>3 DEF OwnChunks, FreshInv, SpentInv
  <2>5. DeviceInv(d)'
    <3>1. KnownInv(d)' /\ OldInv(d)' /\ SeenInv(d)'
      BY <1>1, <1>3, <1>4, <1>5, <2>1, <2>3 DEF IInv, DeviceInv, KnownInv, OldInv, SeenInv
    <3>2. LoadInv(d)'
      BY <1>1, <1>5, <2>1 DEF IInv, DeviceInv, LoadInv
    <3> QED BY <3>1, <3>2 DEF DeviceInv
  <2> QED BY <1>1, <2>2, <2>4, <2>5, CalmStep
<1>6. CASE /\ id = None /\ Goto(d, "upload")
           /\ UNCHANGED <<mode, target, seen, old, up, todo>>
  <2>1. /\ pc' \in [Device -> Step] /\ pc'[d] = "upload"
        /\ \A e \in Device \ {d} : pc'[e] = pc[e]
    BY <1>6, GotoFacts DEF IInv, Step
  <2>2. TypeOK' /\ OthersRest(d)
    BY <1>1, <1>6, <2>1 DEF IInv, TypeOK, OthersRest
  <2>3. ~Deleting(d)'
    BY <2>1 DEF Deleting
  <2>4. OwnChunks(d) /\ FreshInv(d)' /\ SpentInv(d)'
    BY <1>4, <1>6, <2>3, EmptyToSet DEF OwnChunks, FreshInv, SpentInv
  <2>5. DeviceInv(d)'
    BY <1>1, <1>3, <1>4, <1>6, <2>1 DEF IInv, DeviceInv, KnownInv, OldInv, SeenInv, LoadInv
  <2> QED BY <1>1, <2>2, <2>4, <2>5, CalmStep
<1>7. CASE End(d)
  BY <1>1, <1>7, EndCalm DEF IInv, TypeOK
<1> QED BY <1>2, <1>5, <1>6, <1>7 DEF Locate

(* What a sync decides. *)
LEMMA DecisionFacts ==
  ASSUME NEW d \in Device, NEW r
  PROVE  /\ Decision(d, r) = "persist" => local[d] = r
         /\ Decision(d, r) = "syncLoad" => saved[d] = None \/ local[d] = saved[d].archive
BY DEF Decision

(* ReadManifest: a sync decides, a save and a load go on with their object. *)
LEMMA ReadManifestKeeps ==
  ASSUME IInv, NEW d \in Device, ReadManifest(d)
  PROVE  IInv'
<1>1. /\ pc[d] = "read"
      /\ UNCHANGED <<manifests, newest, chunks, unconfirmed, local, saved>>
  BY DEF ReadManifest, server
<1>2. PICK id \in DOMAIN manifests : id = target[d]
  BY <1>1 DEF IInv, DeviceInv, KnownInv
<1>3. up[d] = << >> /\ old[d] = << >>
  BY <1>1 DEF IInv, DeviceInv, KnownInv
<1>4. PICK next : next = Decision(d, Current(id).archive)
  OBVIOUS
<1>5. /\ next = "persist" => local[d] = Current(id).archive
      /\ next = "syncLoad" => saved[d] = None \/ local[d] = saved[d].archive
  BY <1>4, DecisionFacts
<1>6. PICK reading \in Reading :
        /\ reading = Read(id)
        /\ reading.revision \in DOMAIN manifests[id]
        /\ reading.manifest = manifests[id][reading.revision]
  BY ReadFacts DEF IInv
<1>7. reading.manifest = Current(id)
  BY <1>6 DEF Read
<1>8. ASSUME UNCHANGED <<target, old, up, todo>>,
             NEW step \in {"locate", "persist", "readOld", "fetch"}, Goto(d, step),
             mode' \in [Device -> Mode], seen' \in [Device -> Reading \cup {None}],
             \A e \in Device \ {d} : mode'[e] = mode[e] /\ seen'[e] = seen[e],
             step \in {"locate", "fetch"} => LoadInv(d)',
             step \in {"readOld", "persist"} => seen'[d] = reading,
             step = "persist" => next = "persist"
      PROVE  IInv'
  <2>1. /\ pc' \in [Device -> Step] /\ pc'[d] = step
        /\ \A e \in Device \ {d} : pc'[e] = pc[e]
    BY <1>8, GotoFacts DEF IInv, Step
  <2>2. TypeOK' /\ OthersRest(d)
    BY <1>1, <1>8, <2>1 DEF IInv, TypeOK, OthersRest
  <2>3. ~Fresh(d)' /\ ~Deleting(d)'
    BY <1>8, <2>1 DEF Fresh, Deleting
  <2>4. OwnChunks(d) /\ FreshInv(d)' /\ SpentInv(d)'
    BY <1>8, <2>3 DEF OwnChunks, FreshInv, SpentInv
  <2>5. DeviceInv(d)'
    <3>1. KnownInv(d)'
      BY <1>1, <1>3, <1>8, <2>1 DEF IInv, DeviceInv, KnownInv
    <3>2. OldInv(d)'
      BY <1>1, <1>2, <1>6, <1>8, <2>1, <2>3 DEF OldInv
    <3>3. SeenInv(d)'
      BY <1>1, <1>2, <1>5, <1>6, <1>7, <1>8, <2>1 DEF SeenInv
    <3>4. LoadInv(d)'
      BY <1>8, <2>1 DEF LoadInv
    <3> QED BY <3>1, <3>2, <3>3, <3>4 DEF DeviceInv
  <2> QED BY <1>1, <2>2, <2>4, <2>5, CalmStep
<1>9. CASE /\ next \in {"syncLoad", "syncSave"}
           /\ mode' = [mode EXCEPT ![d] = next] /\ Goto(d, "locate")
           /\ UNCHANGED <<target, seen, old, up, todo>>
  <2>1. /\ mode' \in [Device -> Mode] /\ mode'[d] = next
        /\ \A e \in Device \ {d} : mode'[e] = mode[e]
    BY <1>9 DEF IInv, TypeOK, Mode
  <2>2. LoadInv(d)'
    BY <2>1, <1>1, <1>5 DEF LoadInv
  <2> QED BY <2>1, <2>2, <1>8, <1>9 DEF IInv, TypeOK
<1>10. CASE /\ next = "persist"
            /\ seen' = [seen EXCEPT ![d] = Read(id)] /\ Goto(d, "persist")
            /\ UNCHANGED <<mode, target, old, up, todo>>
  <2>1. /\ seen' \in [Device -> Reading \cup {None}] /\ seen'[d] = reading
        /\ \A e \in Device \ {d} : seen'[e] = seen[e]
    BY <1>6, <1>10 DEF IInv, TypeOK
  <2> QED BY <2>1, <1>8, <1>10 DEF IInv, TypeOK
<1>11. CASE /\ seen' = [seen EXCEPT ![d] = Read(id)] /\ Goto(d, "readOld")
            /\ UNCHANGED <<mode, target, old, up, todo>>
  <2>1. /\ seen' \in [Device -> Reading \cup {None}] /\ seen'[d] = reading
        /\ \A e \in Device \ {d} : seen'[e] = seen[e]
    BY <1>6, <1>11 DEF IInv, TypeOK
  <2> QED BY <2>1, <1>8, <1>11 DEF IInv, TypeOK
<1>12. CASE Goto(d, "fetch") /\ UNCHANGED <<mode, target, seen, old, up, todo>>
  <2>1. LoadInv(d)'
    BY <1>1, <1>12 DEF IInv, DeviceInv, LoadInv
  <2> QED BY <2>1, <1>8, <1>12 DEF IInv, TypeOK
<1>13. CASE End(d)
  BY <1>1, <1>13, EndCalm DEF IInv, TypeOK
<1> QED BY <1>2, <1>4, <1>9, <1>10, <1>11, <1>12, <1>13 DEF ReadManifest

(* ReadOldManifest: the chunks to replace are those of a version not older *)
(* than the one that is named.                                             *)
LEMMA ReadOldManifestKeeps ==
  ASSUME IInv, NEW d \in Device, ReadOldManifest(d)
  PROVE  IInv'
<1>1. /\ pc[d] = "readOld" /\ Goto(d, "upload")
      /\ UNCHANGED <<manifests, newest, chunks, unconfirmed, local, saved, mode, target, seen,
                     up, todo>>
  BY DEF ReadOldManifest, server
<1>2. PICK id \in DOMAIN manifests : id = target[d] /\ id # None
  BY <1>1 DEF IInv, DeviceInv, KnownInv
<1>3. PICK s \in Seq(ChunkId) : s = Current(id).chunks
  BY ReadFacts DEF IInv
<1>4. old' = [old EXCEPT ![d] = s]
  BY <1>2, <1>3 DEF ReadOldManifest
<1>5. /\ old' \in [Device -> Seq(ChunkId)] /\ old'[d] = s
      /\ \A e \in Device \ {d} : old'[e] = old[e]
  <2>1. PICK S : S = Seq(ChunkId)
    OBVIOUS
  <2>2. s \in S /\ old \in [Device -> S]
    BY <2>1, <1>3 DEF IInv, TypeOK
  <2> QED BY <2>1, <2>2, <1>4
<1>6. /\ pc' \in [Device -> Step] /\ pc'[d] = "upload"
      /\ \A e \in Device \ {d} : pc'[e] = pc[e]
  BY <1>1, GotoFacts DEF IInv, Step
<1>7. TypeOK' /\ OthersRest(d)
  BY <1>1, <1>5, <1>6 DEF IInv, TypeOK, OthersRest
<1>8. up'[d] = << >> /\ ~Deleting(d)'
  BY <1>1, <1>6 DEF IInv, DeviceInv, KnownInv, Deleting
<1>9. OwnChunks(d) /\ FreshInv(d)' /\ SpentInv(d)'
  BY <1>8, EmptyToSet DEF OwnChunks, FreshInv, SpentInv
<1>10. DeviceInv(d)'
  <2>1. KnownInv(d)' /\ SeenInv(d)' /\ LoadInv(d)'
    BY <1>1, <1>6 DEF IInv, DeviceInv, KnownInv, SeenInv, LoadInv
  <2>2. /\ seen[d] \in Reading
        /\ seen[d].revision \in DOMAIN manifests[id]
    BY <1>1, <1>2 DEF IInv, DeviceInv, OldInv
  <2>3. PICK k \in DOMAIN manifests[id] : k = Len(manifests[id]) /\ Current(id) = manifests[id][k]
    BY ServerFacts DEF IInv
  <2>4. seen[d].revision <= k
    BY <2>2, <2>3, ServerFacts DEF IInv
  <2>5. OldInv(d)'
    BY <1>1, <1>2, <1>3, <1>5, <1>6, <2>2, <2>3, <2>4 DEF OldInv
  <2> QED BY <2>1, <2>5 DEF DeviceInv
<1> QED BY <1>1, <1>7, <1>9, <1>10, CalmStep

-----------------------------------------------------------------------------
(***************************************************************************)
(* Loading                                                                 *)
(***************************************************************************)

(* FetchManifest: what will be downloaded is a version of the object. *)
LEMMA FetchManifestKeeps ==
  ASSUME IInv, NEW d \in Device, FetchManifest(d)
  PROVE  IInv'
<1>1. /\ pc[d] = "fetch" /\ Goto(d, "download")
      /\ UNCHANGED <<manifests, newest, chunks, unconfirmed, local, saved, mode, target, old, up>>
  BY DEF FetchManifest, server
<1>2. PICK id \in DOMAIN manifests : id = target[d]
  BY <1>1 DEF IInv, DeviceInv, KnownInv
<1>3. PICK reading \in Reading :
        /\ reading = Read(id)
        /\ reading.revision \in DOMAIN manifests[id]
        /\ reading.manifest = manifests[id][reading.revision]
  BY ReadFacts DEF IInv
<1>4. PICK s \in Seq(ChunkId) : s = Current(id).chunks
  BY ReadFacts DEF IInv
<1>5. /\ seen' = [seen EXCEPT ![d] = reading] /\ todo' = [todo EXCEPT ![d] = s]
  BY <1>2, <1>3, <1>4 DEF FetchManifest
<1>6. /\ todo' \in [Device -> Seq(ChunkId)]
      /\ \A e \in Device \ {d} : todo'[e] = todo[e]
  <2>1. PICK S : S = Seq(ChunkId)
    OBVIOUS
  <2>2. s \in S /\ todo \in [Device -> S]
    BY <2>1, <1>4 DEF IInv, TypeOK
  <2> QED BY <2>1, <2>2, <1>5
<1>7. /\ seen' \in [Device -> Reading \cup {None}] /\ seen'[d] = reading
      /\ \A e \in Device \ {d} : seen'[e] = seen[e]
  BY <1>5 DEF IInv, TypeOK
<1>8. /\ pc' \in [Device -> Step] /\ pc'[d] = "download"
      /\ \A e \in Device \ {d} : pc'[e] = pc[e]
  BY <1>1, GotoFacts DEF IInv, Step
<1>9. TypeOK' /\ OthersRest(d)
  BY <1>1, <1>6, <1>7, <1>8 DEF IInv, TypeOK, OthersRest
<1>10. ~Fresh(d)' /\ ~Deleting(d)'
  BY <1>8 DEF Fresh, Deleting
<1>11. OwnChunks(d) /\ FreshInv(d)' /\ SpentInv(d)'
  BY <1>1, <1>10 DEF OwnChunks, FreshInv, SpentInv
<1>12. DeviceInv(d)'
  <2>1. KnownInv(d)' /\ OldInv(d)' /\ LoadInv(d)'
    BY <1>1, <1>8, <1>10 DEF IInv, DeviceInv, KnownInv, OldInv, LoadInv
  <2>2. SeenInv(d)'
    BY <1>1, <1>2, <1>3, <1>7, <1>8 DEF SeenInv
  <2> QED BY <2>1, <2>2 DEF DeviceInv
<1> QED BY <1>1, <1>9, <1>11, <1>12, CalmStep

(* DownloadChunk: one more chunk verifies, or the command ends. *)
LEMMA DownloadChunkKeeps ==
  ASSUME IInv, NEW d \in Device, DownloadChunk(d)
  PROVE  IInv'
<1>1. /\ pc[d] = "download" /\ todo[d] # << >>
      /\ UNCHANGED <<manifests, newest, chunks, unconfirmed, local, saved>>
  BY DEF DownloadChunk, server
<1>2. CASE End(d)
  BY <1>1, <1>2, EndCalm DEF IInv, TypeOK
<1>3. CASE /\ todo' = [todo EXCEPT ![d] = Tail(@)]
           /\ Goto(d, IF Len(todo[d]) = 1 THEN "restore" ELSE "download")
           /\ UNCHANGED <<mode, target, seen, old, up>>
  <2>1. PICK step \in {"restore", "download"} :
          step = IF Len(todo[d]) = 1 THEN "restore" ELSE "download"
    OBVIOUS
  <2>2. /\ pc' \in [Device -> Step] /\ pc'[d] = step
        /\ \A e \in Device \ {d} : pc'[e] = pc[e]
    <3>1. step \in Step
      BY DEF Step
    <3> QED BY <3>1, <2>1, <1>3, GotoFacts DEF IInv
  <2>3. /\ todo' \in [Device -> Seq(ChunkId)]
        /\ \A e \in Device \ {d} : todo'[e] = todo[e]
    <3>1. PICK S, t : S = Seq(ChunkId) /\ t = Tail(todo[d])
      OBVIOUS
    <3>2. t \in S
      BY <3>1, <1>1, HeadTailFacts DEF IInv, TypeOK
    <3>3. todo \in [Device -> S]
      BY <3>1 DEF IInv, TypeOK
    <3>4. todo' = [todo EXCEPT ![d] = t]
      BY <3>1, <1>3
    <3> QED BY <3>1, <3>2, <3>3, <3>4
  <2>4. TypeOK' /\ OthersRest(d)
    BY <1>1, <1>3, <2>2, <2>3 DEF IInv, TypeOK, OthersRest
  <2>5. ~Fresh(d)' /\ ~Deleting(d)'
    BY <2>2 DEF Fresh, Deleting
  <2>6. OwnChunks(d) /\ FreshInv(d)' /\ SpentInv(d)'
    BY <1>3, <2>5 DEF OwnChunks, FreshInv, SpentInv
  <2>7. DeviceInv(d)'
    BY <1>1, <1>3, <2>2, <2>5 DEF IInv, DeviceInv, KnownInv, OldInv, SeenInv, LoadInv
  <2> QED BY <1>1, <2>4, <2>6, <2>7, CalmStep
<1> QED BY <1>2, <1>3 DEF DownloadChunk

(* Restore: the profile holds the archive of the version that was read. *)
LEMMA RestoreKeeps ==
  ASSUME IInv, NEW d \in Device, Restore(d)
  PROVE  IInv'
<1>1. /\ pc[d] = "restore" /\ Goto(d, "persist")
      /\ local' = [local EXCEPT ![d] = seen[d].manifest.archive]
      /\ UNCHANGED <<manifests, newest, chunks, unconfirmed, saved, mode, target, seen,
                     old, up, todo>>
  BY DEF Restore, server
<1>2. seen[d] \in Reading
  BY <1>1 DEF IInv, DeviceInv, SeenInv
<1>3. /\ local' \in [Device -> Archive] /\ local'[d] = seen[d].manifest.archive
      /\ \A e \in Device \ {d} : local'[e] = local[e]
  <2>1. seen[d].manifest.archive \in Archive
    BY <1>2 DEF Reading, Manifest
  <2> QED BY <2>1, <1>1 DEF IInv, TypeOK
<1>4. /\ pc' \in [Device -> Step] /\ pc'[d] = "persist"
      /\ \A e \in Device \ {d} : pc'[e] = pc[e]
  BY <1>1, GotoFacts DEF IInv, Step
<1>5. TypeOK' /\ OthersRest(d)
  BY <1>1, <1>3, <1>4 DEF IInv, TypeOK, OthersRest
<1>6. ~Fresh(d)' /\ ~Deleting(d)'
  BY <1>4 DEF Fresh, Deleting
<1>7. OwnChunks(d) /\ FreshInv(d)' /\ SpentInv(d)'
  BY <1>1, <1>6 DEF OwnChunks, FreshInv, SpentInv
<1>8. DeviceInv(d)'
  BY <1>1, <1>3, <1>4, <1>6 DEF IInv, DeviceInv, KnownInv, OldInv, SeenInv, LoadInv
<1> QED BY <1>1, <1>5, <1>7, <1>8, CalmStep

(* Persist: mapping and base are those of the version that was seen. *)
LEMMA PersistKeeps ==
  ASSUME IInv, NEW d \in Device, Persist(d)
  PROVE  IInv'
<1>1. /\ pc[d] = "persist" /\ End(d)
      /\ saved' = [saved EXCEPT ![d] = [object |-> target[d],
                                        archive |-> seen[d].manifest.archive]]
      /\ UNCHANGED <<manifests, newest, chunks, unconfirmed, local>>
  BY DEF Persist, server
<1>2. PICK id \in DOMAIN manifests : id = target[d] /\ id \in ManifestId
  <2>1. target[d] \in DOMAIN manifests
    BY <1>1 DEF IInv, DeviceInv, KnownInv
  <2> QED BY <2>1, ServerFacts DEF IInv
<1>3. PICK a \in Archive : a = seen[d].manifest.archive
  <2>1. seen[d] \in Reading
    BY <1>1 DEF IInv, DeviceInv, SeenInv
  <2> QED BY <2>1 DEF Reading, Manifest
<1>4. PICK base : base = [object |-> id, archive |-> a]
  OBVIOUS
<1>5. saved' = [saved EXCEPT ![d] = base]
  BY <1>1, <1>2, <1>3, <1>4
<1>6. base \in [object : ManifestId, archive : Archive] /\ base.object = id
  BY <1>2, <1>3, <1>4
<1>7. /\ saved' \in [Device -> [object : ManifestId, archive : Archive] \cup {None}]
      /\ saved'[d] = base
      /\ \A e \in Device \ {d} : saved'[e] = saved[e]
  BY <1>5, <1>6 DEF IInv, TypeOK
<1>8. Bounded' /\ Owned' /\ ConfirmedIsComplete' /\ ServerStep(d)
  BY <1>1, Quiet
<1> QED BY <1>1, <1>6, <1>7, <1>8, EndKeeps DEF IInv, TypeOK

-----------------------------------------------------------------------------
(***************************************************************************)
(* Deleting chunks                                                         *)
(***************************************************************************)

(* A device begins to delete chunks that are its own or named by a version. *)
LEMMA BeginDeleting ==
  ASSUME IInv, NEW d \in Device,
         TypeOK', Bounded', Owned', ConfirmedIsComplete', ServerStep(d),
         NEW step \in {"deleteOld", "cleanup"}, NEW s \in Seq(ChunkId),
         pc' = [pc EXCEPT ![d] = step], todo' = [todo EXCEPT ![d] = s],
         UNCHANGED <<local, saved, mode, target, seen, old, up>>,
         step = "deleteOld" => pc[d] = "verify",
         \A c \in ToSet(s) :
           /\ c \in DOMAIN chunks
           /\ c \in ToSet(up[d]) \/ \E id \in DOMAIN manifests :
                                      \E r \in DOMAIN manifests[id] : c \in Names(id, r),
         \A id \in DOMAIN manifests' : \A r \in DOMAIN manifests'[id] :
           ToSet(s) \cap Names(id, r)' # {} => r < Len(manifests'[id]) \/ id \in unconfirmed'
  PROVE  IInv'
<1>1. /\ pc'[d] = step /\ todo'[d] = s
      /\ \A e \in Device \ {d} : pc'[e] = pc[e] /\ todo'[e] = todo[e]
  BY DEF IInv, TypeOK
<1>2. OthersRest(d)
  BY <1>1 DEF OthersRest
<1>3. ~Fresh(d)' /\ FreshInv(d)'
  BY <1>1 DEF Fresh, FreshInv
<1>4. OwnChunks(d)
  BY <1>1, <1>3 DEF OwnChunks
<1>5. SpentInv(d)'
  <2>1. ToSet(s) \subseteq DOMAIN chunks'
    BY DEF ServerStep, ChunksSpared
  <2> QED BY <2>1, <1>1 DEF SpentInv
<1>6. DeviceInv(d)'
  <2>1. DeviceInv(d) /\ Grows /\ DOMAIN chunks \subseteq DOMAIN chunks'
    BY DEF IInv, ServerStep, ChunksSpared
  <2>2. KnownInv(d)'
    BY <1>1, <2>1 DEF DeviceInv, KnownInv, Grows
  <2>3. OldInv(d)' /\ LoadInv(d)'
    BY <1>1, <1>3 DEF OldInv, LoadInv
  <2>4. SeenInv(d)'
    BY <1>1, <2>1 DEF DeviceInv, KnownInv, SeenInv, Grows
  <2> QED BY <2>2, <2>3, <2>4 DEF DeviceInv
<1> QED BY <1>2, <1>3, <1>4, <1>5, <1>6, Assemble

(* The types of a device that begins to delete. *)
LEMMA DeletingTypes ==
  ASSUME TypeOK, NEW d \in Device, NEW step \in {"deleteOld", "cleanup"},
         NEW s \in Seq(ChunkId),
         pc' = [pc EXCEPT ![d] = step], todo' = [todo EXCEPT ![d] = s]
  PROVE  pc' \in [Device -> Step] /\ todo' \in [Device -> Seq(ChunkId)]
<1>1. pc' \in [Device -> Step]
  BY DEF TypeOK, Step
<1>2. PICK S : S = Seq(ChunkId)
  OBVIOUS
<1>3. s \in S /\ todo \in [Device -> S]
  BY <1>2 DEF TypeOK
<1> QED BY <1>1, <1>2, <1>3

(* What a device published and has not verified yet is its own version. *)
LEMMA VerifyFacts ==
  ASSUME IInv, NEW d \in Device, pc[d] = "verify"
  PROVE  \E id \in DOMAIN manifests : \E r \in DOMAIN manifests[id] :
           /\ id = target[d] /\ r = seen[d].revision
           /\ manifests[id][r] = seen[d].manifest
           /\ Names(id, r) = ToSet(up[d])
           /\ r \in Nat /\ r <= Len(manifests[id]) /\ Len(manifests[id]) \in Nat
           /\ Current(id) = manifests[id][Len(manifests[id])]
           /\ id \in ManifestId
<1>1. PICK id \in DOMAIN manifests : id = target[d]
  BY DEF IInv, DeviceInv, KnownInv
<1>2. PICK r \in DOMAIN manifests[id] : r = seen[d].revision /\ manifests[id][r] = seen[d].manifest
  BY <1>1 DEF IInv, DeviceInv, SeenInv
<1>3. Names(id, r) = ToSet(up[d])
  BY <1>2 DEF IInv, DeviceInv, SeenInv, Names
<1>4. /\ DOMAIN manifests[id] = 1 .. Len(manifests[id])
      /\ Len(manifests[id]) \in 1 .. MaxRevision
      /\ Current(id) = manifests[id][Len(manifests[id])]
      /\ id \in ManifestId
  BY ServerFacts DEF IInv
<1>5. r \in Nat /\ r <= Len(manifests[id]) /\ Len(manifests[id]) \in Nat
  BY <1>4, ConstantAssumption
<1> QED BY <1>1, <1>2, <1>3, <1>4, <1>5

(* A version that shares a chunk with another is that version. *)
LEMMA SharedVersion ==
  ASSUME Owned, NEW id \in DOMAIN manifests, NEW r \in DOMAIN manifests[id],
         NEW i \in DOMAIN manifests, NEW k \in DOMAIN manifests[i],
         Names(id, r) \cap Names(i, k) # {}
  PROVE  i = id /\ k = r
BY DEF Owned

(* VerifyManifest: the old chunks go if the new version is served, else the *)
(* new ones, which another version has replaced already.                   *)
LEMMA VerifyManifestKeeps ==
  ASSUME IInv, NEW d \in Device, VerifyManifest(d)
  PROVE  IInv'
<1>1. /\ pc[d] = "verify"
      /\ UNCHANGED <<manifests, newest, chunks, unconfirmed, local, saved>>
      /\ UNCHANGED <<mode, target, seen, old, up>>
  BY DEF VerifyManifest, BeginCleanup, server
<1>2. PICK id \in DOMAIN manifests, r \in Nat :
        /\ id = target[d] /\ r = seen[d].revision /\ r \in DOMAIN manifests[id]
        /\ manifests[id][r] = seen[d].manifest
        /\ Names(id, r) = ToSet(up[d])
        /\ r <= Len(manifests[id]) /\ Len(manifests[id]) \in Nat
        /\ Current(id) = manifests[id][Len(manifests[id])]
  BY <1>1, VerifyFacts
<1>3. Bounded' /\ Owned' /\ ConfirmedIsComplete' /\ ServerStep(d)
  BY <1>1, Quiet
<1>4. PICK o \in Seq(ChunkId), u \in Seq(ChunkId) : o = old[d] /\ u = up[d]
  BY DEF IInv, TypeOK
<1>5. CASE Current(id) = seen[d].manifest
  <2>1. pc' = [pc EXCEPT ![d] = "deleteOld"] /\ todo' = [todo EXCEPT ![d] = o]
    BY <1>2, <1>4, <1>5 DEF VerifyManifest, Goto
  <2>2. TypeOK'
    <3>1. pc' \in [Device -> Step] /\ todo' \in [Device -> Seq(ChunkId)]
      BY <2>1, DeletingTypes DEF IInv
    <3> QED BY <3>1, <1>1 DEF IInv, TypeOK
  <2>3. CASE o = << >>
    <3>1. ToSet(o) = {}
      BY <2>3, EmptyToSet
    <3> QED BY <3>1, <2>1, <2>2, <1>1, <1>3, BeginDeleting
  <2>4. CASE o # << >>
    <3>1. PICK k \in DOMAIN manifests[id] : k < r /\ o = manifests[id][k].chunks
      BY <1>1, <1>2, <1>4, <2>4 DEF IInv, DeviceInv, OldInv
    <3>2. ToSet(o) = Names(id, k)
      BY <3>1 DEF Names
    <3>3. \A c \in ToSet(o) : c \in DOMAIN chunks /\ c \in Names(id, k)
      BY <3>2 DEF IInv, Owned
    <3>4. k < Len(manifests[id])
      <4>1. k \in Nat
        BY ServerFacts, ConstantAssumption DEF IInv
      <4> QED BY <4>1, <3>1, <1>2
    <3>5. ASSUME NEW i \in DOMAIN manifests', NEW j \in DOMAIN manifests'[i],
                 ToSet(o) \cap Names(i, j)' # {}
          PROVE  j < Len(manifests'[i])
      <4>1. i \in DOMAIN manifests /\ j \in DOMAIN manifests[i] /\ Names(i, j)' = Names(i, j)
        BY <3>5, <1>1 DEF Names
      <4>2. i = id /\ j = k
        BY <4>1, <3>2, <3>5, SharedVersion DEF IInv
      <4> QED BY <4>2, <3>4, <1>1
    <3> QED BY <3>3, <3>5, <2>1, <2>2, <1>1, <1>3, BeginDeleting
  <2> QED BY <2>3, <2>4
<1>6. CASE Current(id) # seen[d].manifest
  <2>1. pc' = [pc EXCEPT ![d] = "cleanup"] /\ todo' = [todo EXCEPT ![d] = u]
    BY <1>2, <1>4, <1>6 DEF VerifyManifest, BeginCleanup, Goto
  <2>2. TypeOK'
    <3>1. pc' \in [Device -> Step] /\ todo' \in [Device -> Seq(ChunkId)]
      BY <2>1, DeletingTypes DEF IInv
    <3> QED BY <3>1, <1>1 DEF IInv, TypeOK
  <2>3. \A c \in ToSet(u) : c \in DOMAIN chunks /\ c \in ToSet(up[d])
    BY <1>4 DEF IInv, DeviceInv, KnownInv
  <2>4. r < Len(manifests[id])
    BY <1>2, <1>6
  <2>5. ASSUME NEW i \in DOMAIN manifests', NEW j \in DOMAIN manifests'[i],
               ToSet(u) \cap Names(i, j)' # {}
        PROVE  j < Len(manifests'[i])
    <3>1. i \in DOMAIN manifests /\ j \in DOMAIN manifests[i] /\ Names(i, j)' = Names(i, j)
      BY <2>5, <1>1 DEF Names
    <3>2. i = id /\ j = r
      BY <3>1, <1>2, <1>4, <2>5, SharedVersion DEF IInv
    <3> QED BY <3>2, <2>4, <1>1
  <2> QED BY <2>1, <2>2, <2>3, <2>5, <1>1, <1>3, BeginDeleting
<1> QED BY <1>5, <1>6

(* VerifyFails: the new chunks go although the server may serve them. *)
LEMMA VerifyFailsKeeps ==
  ASSUME IInv, NEW d \in Device, VerifyFails(d)
  PROVE  IInv'
<1>1. /\ pc[d] = "verify"
      /\ UNCHANGED <<manifests, newest, chunks, local, saved>>
      /\ UNCHANGED <<mode, target, seen, old, up>>
  BY DEF VerifyFails, BeginCleanup
<1>2. PICK id \in DOMAIN manifests, r \in Nat :
        /\ id = target[d] /\ r = seen[d].revision /\ r \in DOMAIN manifests[id]
        /\ Names(id, r) = ToSet(up[d])
        /\ r <= Len(manifests[id]) /\ Len(manifests[id]) \in Nat
  BY <1>1, VerifyFacts
<1>3. /\ unconfirmed \subseteq unconfirmed'
      /\ unconfirmed' \subseteq DOMAIN manifests'
      /\ Len(manifests[id]) = r => id \in unconfirmed'
  BY <1>1, <1>2 DEF VerifyFails, IInv, TypeOK
<1>4. Bounded' /\ Owned' /\ ConfirmedIsComplete' /\ ServerStep(d)
  BY <1>1, <1>3, Quiet
<1>5. PICK u \in Seq(ChunkId) : u = up[d]
  BY DEF IInv, TypeOK
<1>6. pc' = [pc EXCEPT ![d] = "cleanup"] /\ todo' = [todo EXCEPT ![d] = u]
  BY <1>5 DEF VerifyFails, BeginCleanup, Goto
<1>7. TypeOK'
  <2>1. pc' \in [Device -> Step] /\ todo' \in [Device -> Seq(ChunkId)]
    BY <1>6, DeletingTypes DEF IInv
  <2> QED BY <2>1, <1>1, <1>3 DEF IInv, TypeOK
<1>8. \A c \in ToSet(u) : c \in DOMAIN chunks /\ c \in ToSet(up[d])
  BY <1>5 DEF IInv, DeviceInv, KnownInv
<1>9. ASSUME NEW i \in DOMAIN manifests', NEW j \in DOMAIN manifests'[i],
             ToSet(u) \cap Names(i, j)' # {}
      PROVE  j < Len(manifests'[i]) \/ i \in unconfirmed'
  <2>1. i \in DOMAIN manifests /\ j \in DOMAIN manifests[i] /\ Names(i, j)' = Names(i, j)
    BY <1>9, <1>1 DEF Names
  <2>2. i = id /\ j = r
    BY <2>1, <1>2, <1>5, <1>9, SharedVersion DEF IInv
  <2> QED BY <2>2, <1>1, <1>2, <1>3
<1> QED BY <1>1, <1>4, <1>6, <1>7, <1>8, <1>9, BeginDeleting

(* OldDeleted: what was published is the new base. *)
LEMMA OldDeletedKeeps ==
  ASSUME IInv, NEW d \in Device, OldDeleted(d)
  PROVE  IInv'
<1>1. /\ pc[d] = "deleteOld" /\ Goto(d, "persist")
      /\ UNCHANGED <<manifests, newest, chunks, unconfirmed, local, saved, mode, target, seen,
                     old, up, todo>>
  BY DEF OldDeleted, server
<1>2. /\ pc' \in [Device -> Step] /\ pc'[d] = "persist"
      /\ \A e \in Device \ {d} : pc'[e] = pc[e]
  BY <1>1, GotoFacts DEF IInv, Step
<1>3. TypeOK' /\ OthersRest(d)
  BY <1>1, <1>2 DEF IInv, TypeOK, OthersRest
<1>4. ~Fresh(d)' /\ ~Deleting(d)'
  BY <1>2 DEF Fresh, Deleting
<1>5. OwnChunks(d) /\ FreshInv(d)' /\ SpentInv(d)'
  BY <1>1, <1>4 DEF OwnChunks, FreshInv, SpentInv
<1>6. DeviceInv(d)'
  BY <1>1, <1>2, <1>4 DEF IInv, DeviceInv, KnownInv, OldInv, SeenInv, LoadInv
<1> QED BY <1>1, <1>3, <1>5, <1>6, CalmStep

(* A chunk that is gone was needed by no confirmed manifest and nobody's.  *)
LEMMA RemoveChunk ==
  ASSUME IInv, NEW d \in Device, Deleting(d), todo[d] # << >>,
         chunks' = [chunks EXCEPT ![Head(todo[d])] = Gone],
         UNCHANGED <<manifests, newest, unconfirmed>>
  PROVE  /\ chunks' \in Seq(Archive \cup {Gone})
         /\ DOMAIN chunks' = DOMAIN chunks
         /\ Bounded' /\ Owned' /\ ConfirmedIsComplete' /\ ServerStep(d)
<1>1. PICK c : c = Head(todo[d]) /\ c \in ToSet(todo[d])
  BY HeadTailFacts DEF IInv, TypeOK
<1>2. c \in DOMAIN chunks
  BY <1>1 DEF IInv, SpentInv
<1>3. PICK S : S = Archive \cup {Gone}
  OBVIOUS
<1>4. chunks \in Seq(S) /\ Gone \in S
  BY <1>3 DEF IInv, TypeOK
<1>5. /\ chunks' \in Seq(S) /\ DOMAIN chunks' = DOMAIN chunks /\ Len(chunks') = Len(chunks)
      /\ \A b \in DOMAIN chunks \ {c} : chunks'[b] = chunks[b]
  BY <1>1, <1>2, <1>4
<1>6. Bounded' /\ Owned'
  <2>1. Bounded'
    BY <1>5 DEF IInv, Bounded
  <2>2. Owned'
    BY <1>5 DEF IInv, Owned, Names
  <2> QED BY <2>1, <2>2
<1>7. ConfirmedIsComplete'
  <2>1. ASSUME NEW id \in DOMAIN manifests, id \notin unconfirmed,
               NEW b \in ToSet(Current(id).chunks)
        PROVE  chunks'[b] = Current(id).archive
    <3>1. PICK r \in DOMAIN manifests[id] : r = Len(manifests[id]) /\ Current(id) = manifests[id][r]
      BY ServerFacts DEF IInv
    <3>2. b \in Names(id, r) /\ b \in DOMAIN chunks
      BY <2>1, <3>1 DEF IInv, Owned, Names
    <3>3. ~(r < Len(manifests[id]))
      BY <3>1, ServerFacts, ConstantAssumption DEF IInv
    <3>4. b # c
      BY <1>1, <2>1, <3>2, <3>3 DEF IInv, SpentInv
    <3>5. chunks[b] = Current(id).archive
      BY <2>1 DEF IInv, ConfirmedIsComplete, Complete
    <3> QED BY <3>2, <3>4, <3>5, <1>5
  <2> QED BY <2>1 DEF ConfirmedIsComplete, Complete, Current
<1>8. ServerStep(d)
  <2>1. ChunksSpared(d)
    <3>1. \A e \in Device \ {d} : Fresh(e) => c \notin ToSet(up[e])
      BY <1>1 DEF IInv, Apart
    <3> QED BY <3>1, <1>5 DEF ChunksSpared
  <2>2. Grows /\ OwnVersions(d)
    BY DEF Grows, OwnVersions
  <2>3. ConfirmsNew
    BY ServerFacts, ConstantAssumption DEF IInv, ConfirmsNew
  <2> QED BY <2>1, <2>2, <2>3 DEF ServerStep
<1> QED BY <1>3, <1>5, <1>6, <1>7, <1>8

(* DeleteChunk: one chunk goes. *)
LEMMA DeleteChunkKeeps ==
  ASSUME IInv, NEW d \in Device, DeleteChunk(d)
  PROVE  IInv'
<1>1. /\ Deleting(d) /\ todo[d] # << >>
      /\ chunks' = [chunks EXCEPT ![Head(todo[d])] = Gone]
      /\ todo' = [todo EXCEPT ![d] = Tail(@)]
      /\ UNCHANGED <<manifests, newest, unconfirmed, local, saved, pc, mode, target, seen,
                     old, up>>
  BY DEF DeleteChunk, Deleting
<1>2. /\ chunks' \in Seq(Archive \cup {Gone})
      /\ DOMAIN chunks' = DOMAIN chunks
      /\ Bounded' /\ Owned' /\ ConfirmedIsComplete' /\ ServerStep(d)
  BY <1>1, RemoveChunk
<1>3. PICK t \in Seq(ChunkId) : t = Tail(todo[d]) /\ ToSet(t) \subseteq ToSet(todo[d])
  BY <1>1, HeadTailFacts DEF IInv, TypeOK
<1>4. /\ todo' \in [Device -> Seq(ChunkId)] /\ todo'[d] = t
      /\ \A e \in Device \ {d} : todo'[e] = todo[e]
  <2>1. PICK S : S = Seq(ChunkId)
    OBVIOUS
  <2>2. t \in S /\ todo \in [Device -> S]
    BY <2>1, <1>3 DEF IInv, TypeOK
  <2>3. todo' = [todo EXCEPT ![d] = t]
    BY <1>1, <1>3
  <2> QED BY <2>1, <2>2, <2>3
<1>5. TypeOK' /\ OthersRest(d)
  BY <1>1, <1>2, <1>4 DEF IInv, TypeOK, OthersRest
<1>6. Deleting(d)' = Deleting(d) /\ ~Fresh(d)'
  BY <1>1 DEF Deleting, Fresh
<1>7. OwnChunks(d)
  BY <1>1, <1>3, <1>4, <1>6 DEF OwnChunks
<1>8. DeviceInv(d)'
  <2>1. DeviceInv(d) /\ Grows /\ DOMAIN chunks \subseteq DOMAIN chunks'
    BY <1>2 DEF IInv, ServerStep
  <2> QED BY <2>1, <1>1, OtherInv
<1>9. FreshInv(d)'
  BY <1>6 DEF FreshInv
<1>10. SpentInv(d)'
  <2>1. ToSet(t) \subseteq DOMAIN chunks
    BY <1>1, <1>3 DEF IInv, SpentInv
  <2>2. \A id \in DOMAIN manifests : \A r \in DOMAIN manifests[id] :
          ToSet(t) \cap Names(id, r) # {} => r < Len(manifests[id]) \/ id \in unconfirmed
    BY <1>1, <1>3 DEF IInv, SpentInv
  <2> QED BY <2>1, <2>2, <1>1, <1>2, <1>4 DEF SpentInv, Names
<1> QED BY <1>2, <1>5, <1>7, <1>8, <1>9, <1>10, Assemble

(* DeleteFails: the chunk may be gone, and the command ends. *)
LEMMA DeleteFailsKeeps ==
  ASSUME IInv, NEW d \in Device, DeleteFails(d)
  PROVE  IInv'
<1>1. /\ Deleting(d) /\ todo[d] # << >> /\ End(d)
      /\ UNCHANGED <<manifests, newest, unconfirmed, local, saved>>
      /\ UNCHANGED chunks \/ chunks' = [chunks EXCEPT ![Head(todo[d])] = Gone]
  BY DEF DeleteFails, Deleting
<1>2. CASE UNCHANGED chunks
  BY <1>1, <1>2, EndCalm DEF IInv, TypeOK
<1>3. CASE chunks' = [chunks EXCEPT ![Head(todo[d])] = Gone]
  <2>1. /\ chunks' \in Seq(Archive \cup {Gone})
        /\ Bounded' /\ Owned' /\ ConfirmedIsComplete' /\ ServerStep(d)
    BY <1>1, <1>3, RemoveChunk
  <2>2. saved[d] # None => saved[d].object \in DOMAIN manifests
    BY DEF IInv, DeviceInv, KnownInv
  <2> QED BY <2>1, <2>2, <1>1, EndKeeps DEF IInv, TypeOK
<1> QED BY <1>1, <1>2, <1>3

-----------------------------------------------------------------------------
(***************************************************************************)
(* Uploading chunks                                                        *)
(***************************************************************************)

(* A new chunk has a new identifier, which no manifest names. *)
LEMMA AddChunk ==
  ASSUME IInv, NEW d \in Device, Len(chunks) < MaxChunks, chunks' = NewChunk(d),
         UNCHANGED <<manifests, newest, unconfirmed>>
  PROVE  /\ chunks' \in Seq(Archive \cup {Gone})
         /\ Len(chunks) + 1 \in ChunkId
         /\ Len(chunks) + 1 \notin DOMAIN chunks
         /\ Len(chunks) + 1 \in DOMAIN chunks'
         /\ chunks'[Len(chunks) + 1] = local[d]
         /\ \A c \in DOMAIN chunks : c \in DOMAIN chunks' /\ chunks'[c] = chunks[c]
         /\ Bounded' /\ Owned' /\ ConfirmedIsComplete' /\ ServerStep(d)
<1>1. PICK S : S = Archive \cup {Gone}
  OBVIOUS
<1>2. PICK a \in S : a = local[d]
  BY <1>1 DEF IInv, TypeOK
<1>3. chunks \in Seq(S) /\ chunks' = Append(chunks, a)
  BY <1>1, <1>2 DEF IInv, TypeOK, NewChunk
<1>4. /\ chunks' \in Seq(S) /\ Len(chunks') = Len(chunks) + 1
      /\ DOMAIN chunks' = 1 .. Len(chunks) + 1
      /\ DOMAIN chunks = 1 .. Len(chunks) /\ Len(chunks) \in Nat
      /\ \A c \in DOMAIN chunks : chunks'[c] = chunks[c]
      /\ chunks'[Len(chunks) + 1] = a
  BY <1>3, AppendFacts
<1>5. /\ Len(chunks) + 1 \in ChunkId
      /\ Len(chunks) + 1 \notin DOMAIN chunks
      /\ Len(chunks) + 1 \in DOMAIN chunks'
      /\ Len(chunks') <= MaxChunks
  BY <1>4, ConstantAssumption DEF ChunkId
<1>6. \A c \in DOMAIN chunks : c \in DOMAIN chunks' /\ chunks'[c] = chunks[c]
  BY <1>4
<1>7. Bounded' /\ Owned'
  <2>1. Bounded'
    BY <1>5 DEF IInv, Bounded
  <2>2. Owned'
    BY <1>6 DEF IInv, Owned, Names
  <2> QED BY <2>1, <2>2
<1>8. ConfirmedIsComplete'
  <2>1. ASSUME NEW id \in DOMAIN manifests, id \notin unconfirmed,
               NEW b \in ToSet(Current(id).chunks)
        PROVE  chunks'[b] = Current(id).archive
    <3>1. PICK r \in DOMAIN manifests[id] : r = Len(manifests[id]) /\ Current(id) = manifests[id][r]
      BY ServerFacts DEF IInv
    <3>2. b \in DOMAIN chunks
      BY <2>1, <3>1 DEF IInv, Owned, Names
    <3>3. chunks[b] = Current(id).archive
      BY <2>1 DEF IInv, ConfirmedIsComplete, Complete
    <3> QED BY <3>2, <3>3, <1>6
  <2> QED BY <2>1 DEF ConfirmedIsComplete, Complete, Current
<1>9. ServerStep(d)
  <2>1. ChunksSpared(d) /\ Grows /\ OwnVersions(d)
    BY <1>6 DEF ChunksSpared, Grows, OwnVersions
  <2>2. ConfirmsNew
    BY ServerFacts, ConstantAssumption DEF IInv, ConfirmsNew
  <2> QED BY <2>1, <2>2 DEF ServerStep
<1> QED BY <1>1, <1>2, <1>4, <1>5, <1>6, <1>7, <1>8, <1>9

(* UploadChunk: the device has one more chunk, with its own archive. *)
LEMMA UploadChunkKeeps ==
  ASSUME IInv, NEW d \in Device, UploadChunk(d)
  PROVE  IInv'
<1>1. /\ pc[d] = "upload" /\ Fresh(d)
      /\ Len(chunks) < MaxChunks /\ chunks' = NewChunk(d)
      /\ UNCHANGED <<manifests, newest, unconfirmed, local, saved, mode, target, seen, old, todo>>
  BY DEF UploadChunk, Fresh
<1>2. PICK n \in ChunkId : n = Len(chunks) + 1
  BY <1>1, AddChunk
<1>3. /\ chunks' \in Seq(Archive \cup {Gone})
      /\ n \notin DOMAIN chunks /\ n \in DOMAIN chunks' /\ chunks'[n] = local[d]
      /\ \A c \in DOMAIN chunks : c \in DOMAIN chunks' /\ chunks'[c] = chunks[c]
      /\ Bounded' /\ Owned' /\ ConfirmedIsComplete' /\ ServerStep(d)
  BY <1>1, <1>2, AddChunk
<1>4. PICK u \in Seq(ChunkId) : u = Append(up[d], n)
  <2>1. up[d] \in Seq(ChunkId)
    BY DEF IInv, TypeOK
  <2> QED BY <2>1, AppendFacts
<1>5. \A c \in ToSet(u) : c \in ToSet(up[d]) \/ c = n
  BY <1>4, AppendToSet DEF IInv, TypeOK
<1>6. /\ up' \in [Device -> Seq(ChunkId)] /\ up'[d] = u
      /\ \A e \in Device \ {d} : up'[e] = up[e]
  <2>1. PICK S : S = Seq(ChunkId)
    OBVIOUS
  <2>2. u \in S /\ up \in [Device -> S]
    BY <2>1, <1>4 DEF IInv, TypeOK
  <2>3. up' = [up EXCEPT ![d] = u]
    BY <1>2, <1>4 DEF UploadChunk
  <2> QED BY <2>1, <2>2, <2>3
<1>7. PICK step \in {"publish", "upload"} : Goto(d, step)
  BY DEF UploadChunk
<1>8. /\ pc' \in [Device -> Step] /\ pc'[d] = step
      /\ \A e \in Device \ {d} : pc'[e] = pc[e]
  <2>1. step \in Step
    BY DEF Step
  <2> QED BY <2>1, <1>7, GotoFacts DEF IInv
<1>9. TypeOK' /\ OthersRest(d)
  BY <1>1, <1>3, <1>6, <1>8 DEF IInv, TypeOK, OthersRest
<1>10. Fresh(d)' /\ ~Deleting(d)'
  BY <1>8 DEF Fresh, Deleting
<1>11. OwnChunks(d)
  BY <1>1, <1>3, <1>5, <1>6, <1>10 DEF OwnChunks
<1>12. FreshInv(d)'
  <2>1. \A c \in ToSet(up[d]) : c \in DOMAIN chunks /\ chunks[c] = local[d]
    BY <1>1 DEF IInv, FreshInv
  <2>2. \A c \in ToSet(u) : c \in DOMAIN chunks' /\ chunks'[c] = local[d]
    BY <2>1, <1>3, <1>5
  <2>3. ASSUME NEW id \in DOMAIN manifests, NEW r \in DOMAIN manifests[id]
        PROVE  ToSet(u) \cap Names(id, r) = {}
    <3>1. ToSet(up[d]) \cap Names(id, r) = {} /\ Names(id, r) \subseteq DOMAIN chunks
      BY <1>1 DEF IInv, FreshInv, Owned
    <3> QED BY <3>1, <1>3, <1>5
  <2> QED BY <2>2, <2>3, <1>1, <1>6 DEF FreshInv, Names
<1>13. SpentInv(d)'
  BY <1>10 DEF SpentInv
<1>14. DeviceInv(d)'
  <2>1. KnownInv(d)'
    <3>1. ToSet(u) \subseteq DOMAIN chunks'
      BY <1>3, <1>5 DEF IInv, DeviceInv, KnownInv
    <3> QED BY <3>1, <1>1, <1>6, <1>8 DEF IInv, DeviceInv, KnownInv
  <2>2. OldInv(d)' /\ SeenInv(d)' /\ LoadInv(d)'
    BY <1>1, <1>8, <1>10 DEF IInv, DeviceInv, OldInv, SeenInv, LoadInv
  <2> QED BY <2>1, <2>2 DEF DeviceInv
<1> QED BY <1>3, <1>9, <1>11, <1>12, <1>13, <1>14, Assemble

(* What was uploaded goes again, and no manifest names it. *)
LEMMA CleanupFresh ==
  ASSUME IInv, NEW d \in Device, Fresh(d), BeginCleanup(d),
         chunks' \in Seq(Archive \cup {Gone}),
         Bounded', Owned', ConfirmedIsComplete', ServerStep(d),
         UNCHANGED <<manifests, newest, unconfirmed, local, saved>>
  PROVE  IInv'
<1>1. PICK u \in Seq(ChunkId) : u = up[d]
  BY DEF IInv, TypeOK
<1>2. /\ pc' = [pc EXCEPT ![d] = "cleanup"] /\ todo' = [todo EXCEPT ![d] = u]
      /\ UNCHANGED <<mode, target, seen, old, up>>
  BY <1>1 DEF BeginCleanup, Goto
<1>3. TypeOK'
  <2>1. pc' \in [Device -> Step] /\ todo' \in [Device -> Seq(ChunkId)]
    BY <1>2, DeletingTypes DEF IInv
  <2> QED BY <2>1, <1>2 DEF IInv, TypeOK
<1>4. \A c \in ToSet(u) : c \in DOMAIN chunks /\ c \in ToSet(up[d])
  BY <1>1 DEF IInv, DeviceInv, KnownInv
<1>5. \A id \in DOMAIN manifests' : \A r \in DOMAIN manifests'[id] : ToSet(u) \cap Names(id, r)' = {}
  BY <1>1 DEF IInv, FreshInv, Names
<1>6. \A id \in DOMAIN manifests' : \A r \in DOMAIN manifests'[id] :
        ToSet(u) \cap Names(id, r)' # {} => r < Len(manifests'[id]) \/ id \in unconfirmed'
  BY <1>5
<1>7. UNCHANGED <<local, saved, mode, target, seen, old, up>>
  BY <1>2
<1> QED BY <1>2, <1>3, <1>4, <1>6, <1>7, BeginDeleting

(* UploadFails: the chunk may be stored, but nobody will ever name it. *)
LEMMA UploadFailsKeeps ==
  ASSUME IInv, NEW d \in Device, UploadFails(d)
  PROVE  IInv'
<1>1. /\ Fresh(d) /\ BeginCleanup(d)
      /\ UNCHANGED <<manifests, newest, unconfirmed, local, saved>>
      /\ UNCHANGED chunks \/ (Len(chunks) < MaxChunks /\ chunks' = NewChunk(d))
  BY DEF UploadFails, Fresh
<1>2. CASE UNCHANGED chunks
  <2>1. Bounded' /\ Owned' /\ ConfirmedIsComplete' /\ ServerStep(d)
    BY <1>1, <1>2, Quiet
  <2> QED BY <2>1, <1>1, <1>2, CleanupFresh DEF IInv, TypeOK
<1>3. CASE Len(chunks) < MaxChunks /\ chunks' = NewChunk(d)
  BY <1>1, <1>3, AddChunk, CleanupFresh
<1> QED BY <1>1, <1>2, <1>3

-----------------------------------------------------------------------------
(***************************************************************************)
(* Publishing                                                              *)
(***************************************************************************)

(* The manifest m becomes version r of the object id, and nothing else     *)
(* changes.                                                                *)
Added(id, r, m) ==
  /\ manifests' \in Seq(Seq(Manifest))
  /\ Len(manifests') <= MaxManifests
  /\ newest' = id /\ id \in ManifestId /\ r \in 1 .. MaxRevision
  /\ id \in DOMAIN manifests' /\ DOMAIN manifests \subseteq DOMAIN manifests'
  /\ \A i \in DOMAIN manifests' :
       i = id \/ (i \in DOMAIN manifests /\ manifests'[i] = manifests[i])
  /\ Len(manifests'[id]) = r /\ r \in DOMAIN manifests'[id] /\ manifests'[id][r] = m
  /\ \A k \in DOMAIN manifests'[id] :
       k = r \/ (id \in DOMAIN manifests /\ k \in DOMAIN manifests[id])
  /\ id \in DOMAIN manifests =>
       /\ Len(manifests[id]) < r /\ r \notin DOMAIN manifests[id]
       /\ \A k \in DOMAIN manifests[id] :
            k \in DOMAIN manifests'[id] /\ manifests'[id][k] = manifests[id][k]

(* What a device uploads is a manifest. *)
LEMMA NewManifestFacts ==
  ASSUME TypeOK, NEW d \in Device
  PROVE  /\ NewManifest(d) \in Manifest
         /\ NewManifest(d).archive = local[d] /\ NewManifest(d).chunks = up[d]
BY DEF TypeOK, NewManifest, Manifest

(* The first save creates an object. *)
LEMMA CreateFacts ==
  ASSUME IInv, NEW d \in Device, target[d] = None, MayPublish(d), PutManifest(d)
  PROVE  Added(NextVersion(d)[1], NextVersion(d)[2], NewManifest(d))
<1> DEFINE Versions == Seq(Manifest)
<1>1. PICK m \in Manifest : m = NewManifest(d)
  BY NewManifestFacts DEF IInv
<1>2. PICK vs \in Versions : vs = <<m>>
  BY OneElementSeq
<1>3. Len(vs) = 1 /\ DOMAIN vs = {1} /\ vs[1] = m
  BY <1>2
<1>4. PICK id : id = Len(manifests) + 1
  OBVIOUS
<1>5. manifests' = Append(manifests, vs) /\ newest' = id /\ NextVersion(d) = <<id, 1>>
  BY <1>1, <1>2, <1>4 DEF PutManifest, NextVersion
<1>6. Len(manifests) < MaxManifests
  BY DEF MayPublish
<1>7. manifests \in Seq(Versions)
  BY DEF IInv, TypeOK
<1>8. /\ manifests' \in Seq(Versions)
      /\ Len(manifests') = Len(manifests) + 1
      /\ DOMAIN manifests' = 1 .. Len(manifests) + 1
      /\ DOMAIN manifests = 1 .. Len(manifests)
      /\ Len(manifests) \in Nat
      /\ \A i \in DOMAIN manifests : manifests'[i] = manifests[i]
      /\ manifests'[id] = vs
  <2>1. vs \in Versions
    OBVIOUS
  <2> HIDE DEF Versions
  <2>2. /\ Append(manifests, vs) \in Seq(Versions)
        /\ Len(Append(manifests, vs)) = Len(manifests) + 1
        /\ DOMAIN Append(manifests, vs) = 1 .. Len(manifests) + 1
        /\ DOMAIN manifests = 1 .. Len(manifests)
        /\ Len(manifests) \in Nat
        /\ \A i \in DOMAIN manifests : Append(manifests, vs)[i] = manifests[i]
        /\ Append(manifests, vs)[Len(manifests) + 1] = vs
    BY <2>1, <1>7, AppendFacts
  <2> QED BY <2>2, <1>4, <1>5
<1>9. /\ id \in ManifestId /\ id \in DOMAIN manifests' /\ id \notin DOMAIN manifests
      /\ \A i \in DOMAIN manifests' : i = id \/ i \in DOMAIN manifests
      /\ DOMAIN manifests \subseteq DOMAIN manifests'
      /\ Len(manifests') <= MaxManifests
      /\ 1 \in 1 .. MaxRevision
  BY <1>4, <1>6, <1>8, ConstantAssumption DEF ManifestId
<1>10. Added(id, 1, m)
  BY <1>3, <1>5, <1>8, <1>9 DEF Added
<1> QED BY <1>1, <1>5, <1>10

(* A later save replaces the version that it names. *)
LEMMA ReplaceFacts ==
  ASSUME IInv, NEW d \in Device, target[d] # None, MayPublish(d), PutManifest(d)
  PROVE  Added(NextVersion(d)[1], NextVersion(d)[2], NewManifest(d))
<1> DEFINE Versions == Seq(Manifest)
<1>1. PICK m \in Manifest : m = NewManifest(d)
  BY NewManifestFacts DEF IInv
<1>2. PICK id \in DOMAIN manifests : id = target[d]
  BY DEF IInv, DeviceInv, KnownInv
<1>3. PICK vs \in Versions : vs = manifests[id]
  BY ServerFacts DEF IInv
<1>4. PICK ws \in Versions : ws = Append(vs, m)
  <2>1. Append(vs, m) \in Versions
    BY AppendFacts
  <2> QED BY <2>1
<1>5. /\ Len(ws) = Len(vs) + 1
      /\ DOMAIN ws = 1 .. Len(vs) + 1
      /\ DOMAIN vs = 1 .. Len(vs)
      /\ Len(vs) \in Nat
      /\ \A i \in DOMAIN vs : ws[i] = vs[i]
      /\ ws[Len(vs) + 1] = m
  BY <1>4, AppendFacts
<1>6. PICK r : r = Len(vs) + 1
  OBVIOUS
<1>7. /\ manifests' = [manifests EXCEPT ![id] = ws] /\ newest' = id
      /\ NextVersion(d) = <<id, r>>
      /\ Len(vs) < MaxRevision
  BY <1>1, <1>2, <1>3, <1>4, <1>6 DEF MayPublish, PutManifest, NextVersion
<1>8. manifests \in Seq(Versions)
  BY DEF IInv, TypeOK
<1>9. /\ manifests' \in Seq(Versions)
      /\ Len(manifests') = Len(manifests)
      /\ DOMAIN manifests' = DOMAIN manifests
      /\ manifests'[id] = ws
      /\ \A i \in DOMAIN manifests \ {id} : manifests'[i] = manifests[i]
  <2> HIDE DEF Versions
  <2> QED BY <1>7, <1>8
<1>10. /\ r \in 1 .. MaxRevision /\ r \in DOMAIN ws /\ r \notin DOMAIN vs /\ Len(vs) < r
       /\ \A k \in DOMAIN ws : k = r \/ k \in DOMAIN vs
       /\ \A k \in DOMAIN vs : k \in DOMAIN ws /\ ws[k] = vs[k]
  BY <1>5, <1>6, <1>7, ConstantAssumption
<1>11. Len(manifests') <= MaxManifests /\ id \in ManifestId
  BY <1>9, ServerFacts DEF IInv, Bounded
<1>12. Added(id, r, m)
  BY <1>3, <1>5, <1>6, <1>7, <1>9, <1>10, <1>11 DEF Added
<1> QED BY <1>1, <1>7, <1>12

(* The server's promises survive a publication, whose chunks are all there. *)
LEMMA AddedKeeps ==
  ASSUME IInv, NEW d \in Device, Fresh(d), UNCHANGED chunks,
         NEW id, NEW r, NEW m \in Manifest, Added(id, r, m),
         m.archive = local[d], m.chunks = up[d],
         unconfirmed' \subseteq unconfirmed \cup {id}, unconfirmed \ {id} \subseteq unconfirmed'
  PROVE  Bounded' /\ Owned' /\ ConfirmedIsComplete' /\ ServerStep(d)
<1>1. /\ \A c \in ToSet(up[d]) : c \in DOMAIN chunks /\ chunks[c] = local[d]
      /\ \A i \in DOMAIN manifests : \A k \in DOMAIN manifests[i] :
           ToSet(up[d]) \cap Names(i, k) = {}
  BY DEF IInv, FreshInv
<1>2. Names(id, r)' = ToSet(up[d])
  BY DEF Added, Names
<1>3. ASSUME NEW i \in DOMAIN manifests', NEW k \in DOMAIN manifests'[i]
      PROVE  \/ i = id /\ k = r
             \/ /\ i \in DOMAIN manifests /\ k \in DOMAIN manifests[i]
                /\ manifests'[i][k] = manifests[i][k] /\ Names(i, k)' = Names(i, k)
  <2>1. CASE i = id
    BY <2>1 DEF Added, Names
  <2>2. CASE i # id
    BY <2>2 DEF Added, Names
  <2> QED BY <2>1, <2>2
<1>4. Bounded'
  <2>1. id # None
    BY ConstantAssumption DEF Added, ManifestId
  <2>2. \A i \in DOMAIN manifests' : Len(manifests'[i]) \in 1 .. MaxRevision
    BY DEF Added, IInv, Bounded
  <2> QED BY <2>1, <2>2 DEF Added, IInv, Bounded
<1>5. Owned'
  <2>1. ASSUME NEW i \in DOMAIN manifests', NEW k \in DOMAIN manifests'[i]
        PROVE  Names(i, k)' \subseteq DOMAIN chunks
    BY <1>1, <1>2, <1>3 DEF IInv, Owned
  <2>2. ASSUME NEW i \in DOMAIN manifests', NEW k \in DOMAIN manifests'[i],
               NEW j \in DOMAIN manifests', NEW l \in DOMAIN manifests'[j],
               j # i \/ l # k
        PROVE  Names(j, l)' \cap Names(i, k)' = {}
    <3>1. CASE i = id /\ k = r
      BY <3>1, <2>2, <1>1, <1>2, <1>3
    <3>2. CASE j = id /\ l = r
      BY <3>2, <2>2, <1>1, <1>2, <1>3
    <3>3. CASE ~(i = id /\ k = r) /\ ~(j = id /\ l = r)
      <4>1. /\ i \in DOMAIN manifests /\ k \in DOMAIN manifests[i] /\ Names(i, k)' = Names(i, k)
            /\ j \in DOMAIN manifests /\ l \in DOMAIN manifests[j] /\ Names(j, l)' = Names(j, l)
        BY <3>3, <1>3
      <4> QED BY <4>1, <2>2 DEF IInv, Owned
    <3> QED BY <3>1, <3>2, <3>3
  <2> QED BY <2>1, <2>2 DEF Owned
<1>6. ConfirmedIsComplete'
  <2>1. ASSUME NEW i \in DOMAIN manifests', i \notin unconfirmed'
        PROVE  Complete(Current(i))'
    <3>1. CASE i = id
      <4>1. Current(i)' = m
        BY <3>1 DEF Added, Current, Last
      <4> QED BY <4>1, <1>1 DEF Complete
    <3>2. CASE i # id
      <4>1. i \in DOMAIN manifests /\ i \notin unconfirmed /\ Current(i)' = Current(i)
        BY <3>2, <2>1 DEF Added, Current
      <4>2. Complete(Current(i))
        BY <4>1 DEF IInv, ConfirmedIsComplete
      <4> QED BY <4>1, <4>2 DEF Complete
    <3> QED BY <3>1, <3>2
  <2> QED BY <2>1 DEF ConfirmedIsComplete
<1>7. ServerStep(d)
  <2>1. Grows
    BY DEF Added, Grows
  <2>2. ChunksSpared(d)
    BY DEF ChunksSpared
  <2>3. OwnVersions(d)
    BY <1>2, <1>3 DEF OwnVersions, Names
  <2>4. ASSUME NEW i \in DOMAIN manifests
        PROVE  /\ Len(manifests[i]) <= Len(manifests'[i])
               /\ i \in unconfirmed => i \in unconfirmed' \/ Len(manifests[i]) < Len(manifests'[i])
    <3>1. Len(manifests[i]) \in Nat
      BY ServerFacts, ConstantAssumption DEF IInv
    <3>2. r \in Nat
      BY ConstantAssumption DEF Added
    <3> QED BY <3>1, <3>2 DEF Added
  <2>5. ConfirmsNew
    BY <2>4 DEF ConfirmsNew
  <2> QED BY <2>1, <2>2, <2>3, <2>5 DEF ServerStep
<1> QED BY <1>4, <1>5, <1>6, <1>7

(* PublishManifest: the server serves the new version, whose chunks are     *)
(* those uploaded, and those to delete belong to an earlier version.       *)
LEMMA PublishManifestKeeps ==
  ASSUME IInv, NEW d \in Device, PublishManifest(d)
  PROVE  IInv'
<1>1. /\ pc[d] = "publish" /\ Fresh(d) /\ MayPublish(d) /\ PutManifest(d)
      /\ unconfirmed' = unconfirmed \ {target[d]}
      /\ Goto(d, "verify")
      /\ UNCHANGED <<chunks, local, saved, mode, old, up, todo>>
  BY DEF PublishManifest, Fresh
<1>2. PICK id, r : id = NextVersion(d)[1] /\ r = NextVersion(d)[2]
  OBVIOUS
<1>3. PICK m \in Manifest : m = NewManifest(d) /\ m.archive = local[d] /\ m.chunks = up[d]
  BY NewManifestFacts DEF IInv
<1>4. Added(id, r, m)
  BY <1>1, <1>2, <1>3, CreateFacts, ReplaceFacts
<1>5. target[d] # None => id = target[d] /\ id \in DOMAIN manifests
  BY <1>2 DEF NextVersion, IInv, DeviceInv, KnownInv
<1>6. /\ unconfirmed' \subseteq unconfirmed \cup {id} /\ unconfirmed \ {id} \subseteq unconfirmed'
      /\ unconfirmed' \subseteq DOMAIN manifests'
  <2>1. unconfirmed \subseteq DOMAIN manifests
    BY DEF IInv, TypeOK
  <2>2. None \notin DOMAIN manifests
    BY ServerFacts, ConstantAssumption DEF IInv
  <2> QED BY <2>1, <2>2, <1>1, <1>4, <1>5 DEF Added
<1>7. Bounded' /\ Owned' /\ ConfirmedIsComplete' /\ ServerStep(d)
  BY <1>1, <1>3, <1>4, <1>6, AddedKeeps
<1>8. /\ target' = [target EXCEPT ![d] = id]
      /\ seen' = [seen EXCEPT ![d] = [revision |-> r, manifest |-> m]]
  BY <1>2, <1>3 DEF PublishManifest
<1>9. PICK reading \in Reading :
        reading = [revision |-> r, manifest |-> m] /\ reading.revision = r /\ reading.manifest = m
  <2>1. r \in 1..MaxRevision
    BY <1>4 DEF Added
  <2>2. [revision |-> r, manifest |-> m] \in Reading
    BY <2>1, <1>3 DEF Reading
  <2> QED BY <2>2
<1>10. /\ target' \in [Device -> ManifestId \cup {None}] /\ target'[d] = id
       /\ seen' \in [Device -> Reading \cup {None}] /\ seen'[d] = reading
       /\ \A e \in Device \ {d} : target'[e] = target[e] /\ seen'[e] = seen[e]
  BY <1>4, <1>8, <1>9 DEF IInv, TypeOK, Added
<1>11. /\ pc' \in [Device -> Step] /\ pc'[d] = "verify"
       /\ \A e \in Device \ {d} : pc'[e] = pc[e]
  BY <1>1, GotoFacts DEF IInv, Step
<1>12. TypeOK' /\ OthersRest(d)
  BY <1>1, <1>4, <1>6, <1>10, <1>11 DEF IInv, TypeOK, OthersRest, Added
<1>13. ~Fresh(d)' /\ ~Deleting(d)'
  BY <1>11 DEF Fresh, Deleting
<1>14. OwnChunks(d) /\ FreshInv(d)' /\ SpentInv(d)'
  BY <1>1, <1>13 DEF OwnChunks, FreshInv, SpentInv
<1>15. KnownInv(d)' /\ SeenInv(d)' /\ LoadInv(d)'
  <2>1. id # None
    BY <1>4, ConstantAssumption DEF Added, ManifestId
  <2>2. saved[d] # None => saved[d].object \in DOMAIN manifests'
    BY <1>4 DEF IInv, DeviceInv, KnownInv, Added
  <2>3. ToSet(up[d]) \subseteq DOMAIN chunks
    BY DEF IInv, DeviceInv, KnownInv
  <2>4. KnownInv(d)'
    BY <2>1, <2>2, <2>3, <1>1, <1>4, <1>10, <1>11 DEF KnownInv, Added
  <2>5. SeenInv(d)'
    BY <1>1, <1>3, <1>4, <1>9, <1>10, <1>11 DEF SeenInv, Added
  <2>6. LoadInv(d)'
    BY <1>11 DEF LoadInv
  <2> QED BY <2>4, <2>5, <2>6
<1>16. OldInv(d)'
  <2>1. ASSUME old[d] # << >>
        PROVE  \E k \in DOMAIN manifests'[id] : k < r /\ old[d] = manifests'[id][k].chunks
    <3>1. id = target[d] /\ id \in DOMAIN manifests
      BY <2>1, <1>1, <1>5 DEF IInv, DeviceInv, OldInv
    <3>2. PICK k \in DOMAIN manifests[id] : old[d] = manifests[id][k].chunks
      BY <2>1, <3>1, <1>1 DEF IInv, DeviceInv, OldInv
    <3>3. k \in Nat /\ k <= Len(manifests[id]) /\ Len(manifests[id]) \in Nat
      <4>1. DOMAIN manifests[id] = 1 .. Len(manifests[id]) /\ Len(manifests[id]) \in 1 .. MaxRevision
        BY <3>1, ServerFacts DEF IInv
      <4> QED BY <4>1, ConstantAssumption
    <3>4. r \in Nat /\ Len(manifests[id]) < r
      BY <3>1, <1>4, ConstantAssumption DEF Added
    <3>5. k \in DOMAIN manifests'[id] /\ manifests'[id][k] = manifests[id][k]
      BY <3>1, <1>4 DEF Added
    <3> QED BY <3>2, <3>3, <3>4, <3>5
  <2> QED BY <2>1, <1>1, <1>9, <1>10, <1>11, <1>13 DEF OldInv
<1> QED BY <1>7, <1>12, <1>14, <1>15, <1>16, Assemble DEF DeviceInv

(* PublishFails: the new chunks go, and a version that was stored all the   *)
(* same is not confirmed.                                                  *)
LEMMA PublishFailsKeeps ==
  ASSUME IInv, NEW d \in Device, PublishFails(d)
  PROVE  IInv'
<1>1. /\ Fresh(d) /\ BeginCleanup(d) /\ UNCHANGED <<chunks, local, saved>>
  BY DEF PublishFails, Fresh
<1>2. CASE UNCHANGED <<manifests, newest, unconfirmed>>
  <2>1. Bounded' /\ Owned' /\ ConfirmedIsComplete' /\ ServerStep(d)
    BY <1>1, <1>2, Quiet
  <2>2. UNCHANGED <<manifests, newest, unconfirmed, local, saved>>
    BY <1>1, <1>2
  <2>3. chunks' \in Seq(Archive \cup {Gone})
    BY <1>1 DEF IInv, TypeOK
  <2> QED BY <2>1, <2>2, <2>3, <1>1, CleanupFresh
<1>3. CASE /\ MayPublish(d) /\ PutManifest(d)
           /\ unconfirmed' = unconfirmed \cup {NextVersion(d)[1]}
  <2>1. PICK id, r : id = NextVersion(d)[1] /\ r = NextVersion(d)[2]
    OBVIOUS
  <2>2. PICK m \in Manifest : m = NewManifest(d) /\ m.archive = local[d] /\ m.chunks = up[d]
    BY NewManifestFacts DEF IInv
  <2>3. Added(id, r, m)
    BY <1>3, <2>1, <2>2, CreateFacts, ReplaceFacts
  <2>4. unconfirmed' = unconfirmed \cup {id} /\ unconfirmed' \subseteq DOMAIN manifests'
    BY <1>3, <2>1, <2>3 DEF IInv, TypeOK, Added
  <2>5. Bounded' /\ Owned' /\ ConfirmedIsComplete' /\ ServerStep(d)
    BY <1>1, <2>2, <2>3, <2>4, AddedKeeps
  <2>6. PICK u \in Seq(ChunkId) : u = up[d]
    BY DEF IInv, TypeOK
  <2>7. /\ pc' = [pc EXCEPT ![d] = "cleanup"] /\ todo' = [todo EXCEPT ![d] = u]
        /\ UNCHANGED <<mode, target, seen, old, up>>
    BY <1>1, <2>6 DEF BeginCleanup, Goto
  <2>8. TypeOK'
    <3>1. pc' \in [Device -> Step] /\ todo' \in [Device -> Seq(ChunkId)]
      BY <2>7, DeletingTypes DEF IInv
    <3> QED BY <3>1, <2>3, <2>4, <2>7, <1>1 DEF IInv, TypeOK, Added
  <2>9. \A c \in ToSet(u) : c \in DOMAIN chunks /\ c \in ToSet(up[d])
    BY <2>6 DEF IInv, DeviceInv, KnownInv
  <2>10. ASSUME NEW i \in DOMAIN manifests', NEW j \in DOMAIN manifests'[i],
                ToSet(u) \cap Names(i, j)' # {}
         PROVE  i \in unconfirmed'
    <3>1. CASE i = id
      BY <3>1, <2>4
    <3>2. CASE i # id
      <4>1. i \in DOMAIN manifests /\ j \in DOMAIN manifests[i] /\ Names(i, j)' = Names(i, j)
        BY <3>2, <2>3 DEF Added, Names
      <4> QED BY <4>1, <2>6, <2>10, <1>1 DEF IInv, FreshInv
    <3> QED BY <3>1, <3>2
  <2>11. UNCHANGED <<local, saved, mode, target, seen, old, up>>
    BY <1>1, <2>7
  <2> QED BY <2>5, <2>7, <2>8, <2>9, <2>10, <2>11, BeginDeleting
<1> QED BY <1>2, <1>3 DEF PublishFails

-----------------------------------------------------------------------------
(***************************************************************************)
(* The invariant holds                                                     *)
(***************************************************************************)

(* No manifests, no chunks, and devices that have done nothing. *)
LEMMA InitKeeps == Init => IInv
<1> SUFFICES ASSUME Init PROVE IInv
  OBVIOUS
<1>1. /\ manifests = << >> /\ DOMAIN manifests = {} /\ Len(manifests) = 0
      /\ chunks = << >> /\ DOMAIN chunks = {} /\ Len(chunks) = 0
      /\ newest = None /\ unconfirmed = {}
  BY DEF Init
<1>2. \A d \in Device :
        /\ pc[d] = "idle" /\ mode[d] = "none" /\ target[d] = None /\ saved[d] = None
        /\ old[d] = << >> /\ up[d] = << >>
  BY DEF Init
<1>3. TypeOK
  <2>1. manifests \in Seq(Seq(Manifest)) /\ chunks \in Seq(Archive \cup {Gone})
    <3>1. PICK S, T : S = Seq(Manifest) /\ T = Archive \cup {Gone}
      OBVIOUS
    <3>2. << >> \in Seq(S) /\ << >> \in Seq(T)
      OBVIOUS
    <3> QED BY <3>1, <3>2, <1>1
  <2>2. /\ old \in [Device -> Seq(ChunkId)] /\ up \in [Device -> Seq(ChunkId)]
        /\ todo \in [Device -> Seq(ChunkId)]
    <3>1. << >> \in Seq(ChunkId)
      BY DEF ChunkId
    <3>2. PICK S : S = Seq(ChunkId) /\ << >> \in S
      BY <3>1
    <3> QED BY <3>2 DEF Init
  <2>3. /\ local \in [Device -> Archive]
        /\ saved \in [Device -> [object : ManifestId, archive : Archive] \cup {None}]
        /\ pc \in [Device -> Step] /\ mode \in [Device -> Mode]
        /\ target \in [Device -> ManifestId \cup {None}]
        /\ seen \in [Device -> Reading \cup {None}]
    BY ConstantAssumption DEF Init, Step, Mode
  <2> QED BY <2>1, <2>2, <2>3, <1>1 DEF TypeOK
<1>4. Bounded /\ Owned /\ ConfirmedIsComplete
  BY <1>1, ConstantAssumption DEF Bounded, Owned, ConfirmedIsComplete
<1>5. \A d \in Device : ~Fresh(d) /\ ~Deleting(d)
  BY <1>2 DEF Fresh, Deleting
<1>6. ASSUME NEW d \in Device PROVE DeviceInv(d)
  <2>1. KnownInv(d) /\ OldInv(d)
    BY <1>2, <1>5, EmptyToSet DEF KnownInv, OldInv
  <2>2. SeenInv(d) /\ LoadInv(d)
    BY <1>2 DEF SeenInv, LoadInv
  <2> QED BY <2>1, <2>2 DEF DeviceInv
<1>7. \A d \in Device : FreshInv(d) /\ SpentInv(d) /\ \A e \in Device \ {d} : Apart(d, e)
  BY <1>5 DEF FreshInv, SpentInv, Apart
<1> QED BY <1>3, <1>4, <1>6, <1>7 DEF IInv

(* Every step of every device keeps the invariant. *)
LEMMA NextKeeps == ASSUME IInv, Next PROVE IInv'
<1>1. PICK d \in Device :
        \/ UseBrowser(d) \/ (\E m \in {"sync", "save", "load"} : Start(d, m))
        \/ DeviceStep(d) \/ Crash(d)
  BY DEF Next
<1>2. CASE UseBrowser(d) \/ \E m \in {"sync", "save", "load"} : Start(d, m)
  BY <1>2, UseBrowserKeeps, StartKeeps
<1>3. CASE Crash(d) \/ CleanupDone(d) \/ CommandFails(d) \/ RestoreHalfDone(d)
  BY <1>3, EndingsKeep
<1>4. CASE Locate(d) \/ ReadManifest(d) \/ ReadOldManifest(d) \/ UploadChunk(d) \/ UploadFails(d)
  BY <1>4, LocateKeeps, ReadManifestKeeps, ReadOldManifestKeeps, UploadChunkKeeps,
     UploadFailsKeeps
<1>5. CASE PublishManifest(d) \/ PublishFails(d) \/ VerifyManifest(d) \/ VerifyFails(d)
  BY <1>5, PublishManifestKeeps, PublishFailsKeeps, VerifyManifestKeeps, VerifyFailsKeeps
<1>6. CASE DeleteChunk(d) \/ DeleteFails(d) \/ OldDeleted(d)
  BY <1>6, DeleteChunkKeeps, DeleteFailsKeeps, OldDeletedKeeps
<1>7. CASE FetchManifest(d) \/ DownloadChunk(d) \/ Restore(d) \/ Persist(d)
  BY <1>7, FetchManifestKeeps, DownloadChunkKeeps, RestoreKeeps, PersistKeeps
<1> QED BY <1>1, <1>2, <1>3, <1>4, <1>5, <1>6, <1>7 DEF DeviceStep

(* Nothing changes in a step of something else. *)
LEMMA StutterKeeps == ASSUME IInv, UNCHANGED vars PROVE IInv'
<1>1. UNCHANGED <<manifests, newest, chunks, unconfirmed, local, saved, pc, mode, target, seen,
                  old, up, todo>>
  BY DEF vars
<1>2. TypeOK' /\ Bounded'
  BY <1>1 DEF IInv, TypeOK, Bounded
<1>3. Owned' /\ ConfirmedIsComplete'
  BY <1>1 DEF IInv, Owned, Names, ConfirmedIsComplete, Complete, Current
<1>4. \A d \in Device : Fresh(d)' = Fresh(d) /\ Deleting(d)' = Deleting(d)
  BY <1>1 DEF Fresh, Deleting
<1>5. ASSUME NEW d \in Device PROVE DeviceInv(d)' /\ FreshInv(d)' /\ SpentInv(d)'
  <2>1. DeviceInv(d)'
    <3>1. DeviceInv(d) /\ Grows /\ DOMAIN chunks \subseteq DOMAIN chunks'
      BY <1>1 DEF IInv, Grows
    <3> QED BY <3>1, <1>1, OtherInv
  <2>2. FreshInv(d)' /\ SpentInv(d)'
    BY <1>1, <1>4 DEF IInv, FreshInv, SpentInv, Names
  <2> QED BY <2>1, <2>2
<1>6. \A d \in Device : \A e \in Device \ {d} : Apart(d, e)'
  BY <1>1, <1>4 DEF IInv, Apart
<1> QED BY <1>2, <1>3, <1>5, <1>6 DEF IInv

(* The invariant holds in every state the devices can be in. *)
LEMMA InvariantHolds == Spec => []IInv
<1>1. IInv /\ [Next]_vars => IInv'
  BY NextKeeps, StutterKeeps
<1> QED BY <1>1, InitKeeps, PTL DEF Spec

-----------------------------------------------------------------------------
(***************************************************************************)
(* The theorems                                                            *)
(***************************************************************************)

(* Manifests, chunks and what the devices know of them have their types in  *)
(* every state, whatever fails.                                            *)
THEOREM TypeCorrect == Spec => []TypeOK
<1>1. IInv => TypeOK
  BY DEF IInv
<1> QED BY <1>1, InvariantHolds, PTL

(* Copy-on-write keeps what the server serves complete, however many        *)
(* devices publish, clean up and crash: a chunk is deleted only when no     *)
(* manifest but a replaced or an unconfirmed one names it.                 *)
THEOREM ServedIsComplete == Spec => []ConfirmedIsComplete
<1>1. IInv => ConfirmedIsComplete
  BY DEF IInv
<1> QED BY <1>1, InvariantHolds, PTL

(* Only persisting changes a base, to what profile and version hold. *)
LEMMA SavedChanges ==
  ASSUME IInv, Next, NEW d \in Device, saved'[d] # saved[d]
  PROVE  /\ saved'[d].archive = local[d]
         /\ saved'[d].object \in DOMAIN manifests
         /\ \E r \in DOMAIN manifests[saved'[d].object] :
              manifests[saved'[d].object][r].archive = saved'[d].archive
<1>1. PICK e \in Device :
        \/ UseBrowser(e) \/ (\E m \in {"sync", "save", "load"} : Start(e, m))
        \/ DeviceStep(e) \/ Crash(e)
  BY DEF Next
<1>2. Persist(e)
  <2>1. CASE UseBrowser(e) \/ (\E m \in {"sync", "save", "load"} : Start(e, m)) \/ Crash(e)
    BY <2>1 DEF UseBrowser, Start, Crash
  <2>2. CASE Locate(e) \/ ReadManifest(e) \/ ReadOldManifest(e) \/ UploadChunk(e) \/ UploadFails(e)
    BY <2>2 DEF Locate, ReadManifest, ReadOldManifest, UploadChunk, UploadFails
  <2>3. CASE PublishManifest(e) \/ PublishFails(e) \/ VerifyManifest(e) \/ VerifyFails(e)
    BY <2>3 DEF PublishManifest, PublishFails, VerifyManifest, VerifyFails
  <2>4. CASE DeleteChunk(e) \/ DeleteFails(e) \/ OldDeleted(e) \/ CleanupDone(e)
    BY <2>4 DEF DeleteChunk, DeleteFails, OldDeleted, CleanupDone
  <2>5. CASE \/ FetchManifest(e) \/ DownloadChunk(e) \/ Restore(e) \/ RestoreHalfDone(e)
             \/ CommandFails(e)
    BY <2>5 DEF FetchManifest, DownloadChunk, Restore, RestoreHalfDone, CommandFails
  <2> QED BY <1>1, <2>1, <2>2, <2>3, <2>4, <2>5 DEF DeviceStep
<1>3. /\ pc[e] = "persist"
      /\ saved' = [saved EXCEPT ![e] = [object |-> target[e],
                                        archive |-> seen[e].manifest.archive]]
  BY <1>2 DEF Persist
<1>4. e = d
  BY <1>3 DEF IInv, TypeOK
<1>5. saved'[d] = [object |-> target[d], archive |-> seen[d].manifest.archive]
  BY <1>3, <1>4 DEF IInv, TypeOK
<1>6. saved'[d].object = target[d] /\ saved'[d].archive = seen[d].manifest.archive
  BY <1>5
<1>7. /\ target[d] \in DOMAIN manifests
      /\ seen[d].revision \in DOMAIN manifests[target[d]]
      /\ manifests[target[d]][seen[d].revision] = seen[d].manifest
      /\ seen[d].manifest.archive = local[d]
  BY <1>3, <1>4 DEF IInv, DeviceInv, KnownInv, SeenInv
<1> QED BY <1>6, <1>7

(* A base is an archive that the profile holds and its manifest object held, *)
(* on every device, however the commands interleave and fail.              *)
THEOREM BasesAreAgreed == Spec => BaseIsAgreed
<1>1. IInv /\ [Next]_vars =>
        [\A d \in Device :
           saved'[d] # saved[d] =>
             /\ saved'[d].archive = local[d]
             /\ saved'[d].object \in DOMAIN manifests
             /\ \E r \in DOMAIN manifests[saved'[d].object] :
                  manifests[saved'[d].object][r].archive = saved'[d].archive]_vars
  BY SavedChanges
<1> QED BY <1>1, InvariantHolds, PTL DEF Spec, BaseIsAgreed

(* A sync replaces the archive of a profile only if the profile is as the   *)
(* last sync left it, or was never synced.                                 *)
THEOREM LoadsKeepLocalChanges == Spec => SyncKeepsLocalChanges
<1>1. IInv /\ [Next]_vars =>
        [\A d \in Device :
           pc[d] = "restore" /\ local'[d] # local[d] /\ mode[d] = "syncLoad"
             => saved[d] = None \/ local[d] = saved[d].archive]_vars
  BY DEF IInv, DeviceInv, LoadInv
<1> QED BY <1>1, InvariantHolds, PTL DEF Spec, SyncKeepsLocalChanges
=============================================================================
