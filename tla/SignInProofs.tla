---------------------------- MODULE SignInProofs ----------------------------
(***************************************************************************)
(* What SignIn keeps, for any devices, addresses, keys and page size and   *)
(* any number of commands.                                                 *)
(***************************************************************************)
EXTENDS SignIn, FiniteSetTheorems, WellFoundedInduction, TLAPS

-----------------------------------------------------------------------------
(***************************************************************************)
(* The inductive invariant.  DeviceInv is about one device and what it     *)
(* knows of the server, which only grows meanwhile.                        *)
(***************************************************************************)

(* What a mapping and its base are. *)
Entry == [object : ObjectId, revision : Nat, base : Key]

(* A running command works under the key in the secret store. *)
KeyInv(d) ==
  /\ pc[d] \notin {"idle", "key"} => run[d].key = keyring[d] /\ run[d].key \in Key
  /\ pc[d] # "idle" => run[d].endpoint \in Endpoint
  /\ pc[d] = "key" => session[d] = None
  /\ session[d] # None => session[d].key = keyring[d]

SettingsInv(d) ==
  /\ settings[d] # "refused"
  /\ pc[d] = "settings" => run[d].valid

(* A search has not begun, and before it the extensions come first. *)
FreshInv(d) ==
  /\ pc[d] \in {"key", "authenticate", "settings", "locate"} =>
       run[d].after = 0 /\ run[d].candidates = NoCandidates /\ run[d].horizon = 0
  /\ pc[d] \in {"key", "authenticate", "settings"} => run[d].kind = "ext"

(* Object o can be the one that command run[d] is about. *)
Fits(d, o) ==
  /\ objects[o].kind = run[d].kind
  /\ objects[o].profile = "mine"
  /\ objects[o].key = run[d].key

(* The two mappings of an address are under one key, that of the objects;  *)
(* the extensions are mapped first.                                        *)
SavedInv(d) ==
  /\ \A e \in Endpoint, k \in Kind :
       saved[d][e][k] # None =>
         /\ objects[saved[d][e][k].object].key = saved[d][e][k].base
         /\ objects[saved[d][e][k].object].kind = k
         /\ objects[saved[d][e][k].object].profile = "mine"
  /\ \A e \in Endpoint :
       saved[d][e]["book"] # None =>
         /\ saved[d][e]["ext"] # None
         /\ saved[d][e]["ext"].base = saved[d][e]["book"].base

(* A command that is at the bookmarks has mapped the extensions. *)
BookInv(d) ==
  pc[d] # "idle" /\ run[d].kind = "book" =>
    /\ saved[d][run[d].endpoint]["ext"] # None
    /\ saved[d][run[d].endpoint]["ext"].base = run[d].key

(* Discovery is for what is not mapped; a mapping that a command goes by   *)
(* is under its key.                                                       *)
LookInv(d) ==
  /\ pc[d] \in {"page", "candidate"} => Mapping(d) = None
  /\ pc[d] \in {"put", "verify"} /\ Mapping(d) # None => Mapping(d).base = run[d].key

(* What is to be written, or was. *)
TargetInv(d) ==
  /\ pc[d] = "verify" => run[d].remote # None
  /\ pc[d] \in {"put", "verify"} /\ run[d].remote # None =>
       run[d].remote.object \in ObjectId /\ Fits(d, run[d].remote.object)

(* What a search has seen: nothing that fits is left out. *)
SearchInv(d) ==
  /\ run[d].horizon <= Len(feed)
  /\ \A o \in DOMAIN run[d].candidates : objects[o].kind = run[d].kind
  /\ pc[d] = "page" =>
       /\ run[d].after <= Len(feed)
       /\ \A i \in DOMAIN feed :
            i <= run[d].after /\ Fits(d, feed[i]) => feed[i] \in DOMAIN run[d].candidates
  /\ pc[d] = "candidate" =>
       \A i \in 1 .. run[d].horizon :
         Fits(d, feed[i]) => feed[i] \in DOMAIN run[d].candidates
  /\ pc[d] = "put" /\ run[d].remote = None =>
       \A i \in 1 .. run[d].horizon : ~ Fits(d, feed[i])

DeviceInv(d) ==
  /\ KeyInv(d)
  /\ SettingsInv(d)
  /\ FreshInv(d)
  /\ SavedInv(d)
  /\ BookInv(d)
  /\ LookInv(d)
  /\ TargetInv(d)
  /\ SearchInv(d)

(* No object was looked for in more of the feed than there is. *)
HorizonInv == \A o \in ObjectId : objects[o].horizon <= Len(feed)

IInv ==
  /\ TypeOK
  /\ HorizonInv
  /\ CopiedOnlyWhenAbsent
  /\ NeededKeysAreStored
  /\ \A d \in Device : DeviceInv(d)

-----------------------------------------------------------------------------
(* Numbers *)

(* A set of natural numbers has a least element. *)
LEMMA LeastNatural ==
  ASSUME NEW T \in SUBSET Nat, T # {}
  PROVE  \E m \in T : \A n \in T : m <= n
<1> DEFINE R == OpToRel(<, Nat)
<1>1. IsWellFoundedOn(R, Nat)
  BY NatLessThanWellFounded, Zenon
<1>2. \A x \in Nat, y \in Nat : y < x => <<y, x>> \in R
  BY DEF OpToRel
<1> HIDE DEF R
<1>3. PICK m \in T : \A n \in T : <<n, m>> \notin R
  BY <1>1, WFMin
<1>4. \A n \in T : ~ (n < m)
  BY <1>2, <1>3
<1>5. \A n \in T : m <= n
  BY <1>4
<1> QED BY <1>5

(* A bounded set of natural numbers has a greatest element. *)
LEMMA GreatestNatural ==
  ASSUME NEW T \in SUBSET Nat, T # {}, NEW bound \in Nat, \A n \in T : n <= bound
  PROVE  \E m \in T : \A n \in T : n <= m
<1> DEFINE U == {bound - n : n \in T}
<1>1. U \in SUBSET Nat /\ U # {}
  <2>1. \A n \in T : bound - n \in Nat
    OBVIOUS
  <2> QED BY <2>1
<1>2. PICK u \in U : \A v \in U : u <= v
  BY <1>1, LeastNatural, Zenon
<1>3. PICK m \in T : u = bound - m
  BY <1>2
<1>4. \A n \in T : bound - m <= bound - n
  BY <1>2, <1>3
<1>5. \A n \in T : n <= m
  BY <1>4
<1> QED BY <1>5

-----------------------------------------------------------------------------
(* Pages of the feed *)

(* A page that has more after it brings the cursor on, and a page leaves   *)
(* nothing out up to its end.                                              *)
LEMMA PageFacts ==
  ASSUME NEW S, NEW f \in Seq(S), NEW after \in Nat, NEW limit \in Nat \ {0}
  PROVE  LET page == Page(f, after, limit)
         IN  /\ page.cursors \subseteq DOMAIN f
             /\ page.more \in BOOLEAN
             /\ page.next \in Nat
             /\ page.more => /\ after < page.next /\ page.next < Len(f)
                             /\ \A i \in DOMAIN f : after < i /\ i <= page.next => i \in page.cursors
             /\ ~page.more => \A i \in DOMAIN f : after < i => i \in page.cursors
<1> DEFINE page == Page(f, after, limit)
<1>1. Len(f) \in Nat /\ DOMAIN f = 1 .. Len(f)
  OBVIOUS
<1>2. page.cursors = {i \in DOMAIN f : after < i /\ i <= after + limit}
  BY DEF Page
<1>3. page.more <=> Len(f) > after + limit
  BY DEF Page
<1>4. Len(f) > after + limit => page.next = after + limit
  <2>1. page.next = IF Len(f) > after THEN Smaller(after + limit, Len(f)) ELSE after
    BY DEF Page
  <2> HIDE DEF page
  <2> QED BY <1>1, <2>1 DEF Smaller
<1>5. page.next \in Nat
  BY <1>1 DEF Page, Smaller
<1>6. page.more \in BOOLEAN
  BY DEF Page
<1> HIDE DEF page
<1>7. page.more => \A i \in DOMAIN f : after < i /\ i <= page.next => i \in page.cursors
  BY <1>1, <1>2, <1>3, <1>4
<1>8. ~page.more => \A i \in DOMAIN f : after < i => i \in page.cursors
  BY <1>1, <1>2, <1>3
<1>9. page.more => after < page.next /\ page.next < Len(f)
  BY <1>1, <1>3, <1>4
<1>10. page.cursors \subseteq DOMAIN f
  BY <1>2
<1>11. QED
  BY <1>5, <1>6, <1>7, <1>8, <1>9, <1>10, Zenon DEF page

(* The last change of an object that a page has is one of the page's. *)
LEMMA LastChangeFacts ==
  ASSUME NEW S, NEW f \in Seq(S), NEW C \in SUBSET (DOMAIN f), NEW k \in C
  PROVE  LastChange(f, C, f[k]) \in Nat
<1> DEFINE T == {i \in C : f[i] = f[k]}
<1>1. T \in SUBSET Nat /\ T # {} /\ Len(f) \in Nat /\ \A n \in T : n <= Len(f)
  OBVIOUS
<1>2. PICK m \in T : \A n \in T : n <= m
  <2> HIDE DEF T
  <2> QED BY <1>1, GreatestNatural
<1>3. \E i \in C : f[i] = f[k] /\ \A j \in C : f[j] = f[k] => j <= i
  BY <1>2
<1>4. LastChange(f, C, f[k]) \in C
  BY <1>3 DEF LastChange
<1> QED BY <1>4

(* The number of changes of an object is a number. *)
LEMMA RevisionType ==
  ASSUME NEW S, feed \in Seq(S), NEW o
  PROVE  Revision(o) \in Nat
<1> DEFINE T == {i \in DOMAIN feed : feed[i] = o}
<1>1. DOMAIN feed = 1 .. Len(feed) /\ Len(feed) \in Nat
  OBVIOUS
<1>2. IsFiniteSet(1 .. Len(feed))
  BY <1>1, FS_Interval
<1>3. IsFiniteSet(T)
  BY <1>1, <1>2, FS_Subset
<1> QED BY <1>3, FS_CardinalityType DEF Revision

-----------------------------------------------------------------------------
(***************************************************************************)
(* The locals of a command and the other variables of its device.          *)
(***************************************************************************)

RunType == DOMAIN run = Device /\ \A d \in Device : IsRun(run[d])

(* Only device d moves, and its control stays well typed. *)
Moves(d) ==
  /\ pc' \in [Device -> Step]
  /\ RunType'
  /\ \A e \in Device \ {d} : pc'[e] = pc[e] /\ run'[e] = run[e]

(* Only the local state and the session of device d change. *)
Keeps(d) ==
  /\ saved' \in [Device -> [Endpoint -> [Kind -> Entry \cup {None}]]]
  /\ session' \in [Device -> [key : Key, endpoint : Endpoint] \cup {None}]
  /\ \A e \in Device \ {d} : saved'[e] = saved[e] /\ session'[e] = session[e]

LEMMA NoCandidatesFacts ==
  DOMAIN NoCandidates = {} /\ NoCandidates \in [DOMAIN NoCandidates -> Nat]
BY DEF NoCandidates

LEMMA RunElim ==
  ASSUME NEW r, IsRun(r)
  PROVE  /\ r = [command |-> r.command, endpoint |-> r.endpoint, valid |-> r.valid,
                 key |-> r.key, kind |-> r.kind, transfer |-> r.transfer, after |-> r.after,
                 candidates |-> r.candidates, horizon |-> r.horizon, remote |-> r.remote]
         /\ r.command \in {"none", "connect", "sync", "save", "load"}
         /\ r.endpoint \in Endpoint \cup {None}
         /\ r.valid \in BOOLEAN
         /\ r.key \in Key \cup {None}
         /\ r.kind \in Kind
         /\ r.transfer \in {"none", "save", "load"}
         /\ r.after \in Nat
         /\ DOMAIN r.candidates \subseteq ObjectId
         /\ r.candidates \in [DOMAIN r.candidates -> Nat]
         /\ r.horizon \in Nat
         /\ r.remote \in Version \cup {None}
BY DEF IsRun

(* The locals of a command that has just started, or come to the bookmarks. *)
LEMMA StartRun ==
  ASSUME NEW c \in {"none", "connect", "sync", "save", "load"},
         NEW e \in Endpoint \cup {None}, NEW v \in BOOLEAN, NEW k \in Key \cup {None},
         NEW kind \in Kind
  PROVE  IsRun(Begun(c, e, v, k, kind))
<1>1. 0 \in Nat /\ "none" \in {"none", "save", "load"} /\ None \in Version \cup {None}
  OBVIOUS
<1>2. DOMAIN NoCandidates \subseteq ObjectId
  BY NoCandidatesFacts
<1> QED BY <1>1, <1>2, NoCandidatesFacts DEF IsRun, Begun

LEMMA NoRunType == IsRun(NoRun)
<1>1. FALSE \in BOOLEAN /\ "ext" \in Kind
  BY DEF Kind
<1> QED BY <1>1, StartRun DEF NoRun

(* What is typed stays so while the server only grows. *)
LEMMA MovesIntro ==
  ASSUME TypeOK, NEW d \in Device, NEW r, NEW s \in Step, ObjectId \subseteq ObjectId',
         pc' = [pc EXCEPT ![d] = s], run' = [run EXCEPT ![d] = r], IsRun(r)'
  PROVE  Moves(d) /\ pc'[d] = s /\ run'[d] = r
<1>1. \A e \in Device : IsRun(run[e])'
  <2> TAKE e \in Device
  <2>1. IsRun(run[e])
    BY DEF TypeOK
  <2>2. CASE e = d
    BY <2>2 DEF TypeOK
  <2>3. CASE e # d
    <3>1. run'[e] = run[e]
      BY <2>3 DEF TypeOK
    <3>2. DOMAIN run[e].candidates \subseteq ObjectId'
      BY <2>1 DEF IsRun
    <3> QED BY <2>1, <3>1, <3>2 DEF IsRun
  <2> QED BY <2>2, <2>3
<1> QED BY <1>1 DEF TypeOK, Moves, RunType

LEMMA GotoFacts ==
  ASSUME TypeOK, NEW d \in Device, NEW s \in Step, Goto(d, s), UNCHANGED <<objects, run>>
  PROVE  Moves(d) /\ pc'[d] = s /\ run'[d] = run[d]
<1>1. ASSUME NEW e \in Device PROVE IsRun(run[e])'
  <2>1. IsRun(run[e]) /\ run'[e] = run[e] /\ ObjectId' = ObjectId
    BY DEF TypeOK, ObjectId
  <2> QED BY <2>1 DEF IsRun
<1>2. pc' \in [Device -> Step] /\ pc'[d] = s /\ \A e \in Device \ {d} : pc'[e] = pc[e]
  BY DEF Goto, TypeOK
<1> QED BY <1>1, <1>2 DEF Moves, RunType, TypeOK

LEMMA EndFacts ==
  ASSUME TypeOK, NEW d \in Device, End(d), UNCHANGED objects
  PROVE  Moves(d) /\ pc'[d] = "idle" /\ run'[d] = NoRun
<1>1. IsRun(NoRun)'
  BY NoRunType DEF IsRun, ObjectId
<1>2. "idle" \in Step /\ ObjectId' = ObjectId
  BY DEF Step, ObjectId
<1> QED BY <1>1, <1>2, MovesIntro DEF End, Goto

(* What Finish leaves: a sign-in has a session, under the key it worked with. *)
LEMMA FinishFacts ==
  ASSUME TypeOK, NEW d \in Device, Finish(d), UNCHANGED objects,
         run[d].key \in Key, run[d].endpoint \in Endpoint
  PROVE  /\ Moves(d) /\ pc'[d] = "idle" /\ run'[d] = NoRun
         /\ session' \in [Device -> [key : Key, endpoint : Endpoint] \cup {None}]
         /\ \A e \in Device \ {d} : session'[e] = session[e]
         /\ session'[d] \in {session[d], [key |-> run[d].key, endpoint |-> run[d].endpoint]}
<1>1. End(d)
  BY DEF Finish
<1>2. Moves(d) /\ pc'[d] = "idle" /\ run'[d] = NoRun
  BY <1>1, EndFacts
<1>3. [key |-> run[d].key, endpoint |-> run[d].endpoint] \in [key : Key, endpoint : Endpoint]
  OBVIOUS
<1>4. session \in [Device -> [key : Key, endpoint : Endpoint] \cup {None}]
  BY DEF TypeOK
<1> QED BY <1>2, <1>3, <1>4 DEF Finish

(* What Record leaves: the entry under the key of the command, and then the *)
(* bookmarks or the end.                                                   *)
LEMMA RecordFacts ==
  ASSUME TypeOK, NEW d \in Device, UNCHANGED objects,
         run[d].key \in Key, run[d].endpoint \in Endpoint,
         NEW version, version.object \in ObjectId, version.revision \in Nat,
         Record(d, version)
  PROVE  /\ Moves(d) /\ Keeps(d)
         /\ saved'[d][run[d].endpoint][run[d].kind] =
              [object |-> version.object, revision |-> version.revision, base |-> run[d].key]
         /\ \A e \in Endpoint, k \in Kind :
              e # run[d].endpoint \/ k # run[d].kind => saved'[d][e][k] = saved[d][e][k]
         /\ \/ /\ run[d].kind = "ext"
               /\ pc'[d] = "locate"
               /\ run'[d] = Begun(run[d].command, run[d].endpoint, FALSE, run[d].key, "book")
               /\ session'[d] = session[d]
            \/ /\ pc'[d] = "idle"
               /\ run'[d] = NoRun
               /\ session'[d] \in {session[d],
                                   [key |-> run[d].key, endpoint |-> run[d].endpoint]}
<1> DEFINE entry == [object |-> version.object, revision |-> version.revision,
                     base |-> run[d].key]
           e0 == run[d].endpoint
           k0 == run[d].kind
<1>1. entry \in Entry /\ k0 \in Kind /\ e0 \in Endpoint /\ run[d].command \in {"none", "connect", "sync", "save", "load"}
  BY RunElim DEF Entry, TypeOK
<1>2. saved \in [Device -> [Endpoint -> [Kind -> Entry \cup {None}]]]
  BY DEF TypeOK, Entry
<1>3. saved' = [saved EXCEPT ![d][e0][k0] = entry]
  BY DEF Record
<1>4. /\ saved' \in [Device -> [Endpoint -> [Kind -> Entry \cup {None}]]]
      /\ \A e \in Device \ {d} : saved'[e] = saved[e]
      /\ saved'[d][e0][k0] = entry
      /\ \A e \in Endpoint, k \in Kind : e # e0 \/ k # k0 => saved'[d][e][k] = saved[d][e][k]
  <2> HIDE DEF entry, e0, k0
  <2> QED BY <1>1, <1>2, <1>3
<1>5. session \in [Device -> [key : Key, endpoint : Endpoint] \cup {None}]
  BY DEF TypeOK
<1>6. CASE k0 = "ext"
  <2>1. /\ run' = [run EXCEPT ![d] = Begun(run[d].command, run[d].endpoint, FALSE, run[d].key,
                                           "book")]
        /\ pc' = [pc EXCEPT ![d] = "locate"]
        /\ session' = session
    BY <1>6 DEF Record, Goto
  <2>2. PICK r : r = Begun(run[d].command, run[d].endpoint, FALSE, run[d].key, "book")
    OBVIOUS
  <2>3. IsRun(r)
    <3>1. "book" \in Kind /\ FALSE \in BOOLEAN
      BY DEF Kind
    <3> QED BY <1>1, <2>2, <3>1, StartRun
  <2>4. IsRun(r)' /\ "locate" \in Step /\ ObjectId' = ObjectId
    BY <2>3 DEF IsRun, ObjectId, Step
  <2>5. Moves(d) /\ pc'[d] = "locate" /\ run'[d] = r
    BY <2>1, <2>2, <2>4, MovesIntro
  <2> QED BY <1>4, <1>5, <1>6, <2>1, <2>2, <2>5 DEF Keeps, Entry, ObjectId
<1>7. CASE k0 # "ext"
  <2>1. Finish(d)
    BY <1>7 DEF Record
  <2> QED BY <1>4, <2>1, FinishFacts DEF Keeps, Entry, ObjectId
<1> QED BY <1>6, <1>7

(* What ToPut and Transfer leave. *)
LEMMA ToPutFacts ==
  ASSUME TypeOK, NEW d \in Device, UNCHANGED objects,
         NEW remote \in Version \cup {None}, NEW horizon \in Nat,
         ToPut(d, remote, horizon)
  PROVE  /\ Moves(d) /\ pc'[d] = "put"
         /\ run'[d] = [run[d] EXCEPT !.remote = remote, !.horizon = horizon,
                                     !.after = 0, !.candidates = NoCandidates]
         /\ IsRun(run[d])
<1>a. PICK r : r = [run[d] EXCEPT !.remote = remote, !.horizon = horizon,
                               !.after = 0, !.candidates = NoCandidates]
  OBVIOUS
<1>1. IsRun(run[d])
  BY DEF TypeOK
<1>2. IsRun(r)
  BY <1>1, <1>a, NoCandidatesFacts DEF IsRun
<1>3. IsRun(r)' /\ "put" \in Step /\ ObjectId' = ObjectId
  BY <1>2 DEF IsRun, ObjectId, Step
<1>4. run' = [run EXCEPT ![d] = r] /\ pc' = [pc EXCEPT ![d] = "put"]
  BY <1>a DEF ToPut, Goto, TypeOK
<1>5. Moves(d) /\ pc'[d] = "put" /\ run'[d] = r
  BY <1>3, <1>4, MovesIntro
<1> QED BY <1>1, <1>a, <1>5

LEMMA TransferFacts ==
  ASSUME TypeOK, NEW d \in Device, UNCHANGED objects,
         NEW direction \in {"save", "load"}, Transfer(d, direction)
  PROVE  /\ Moves(d) /\ pc'[d] = "locate"
         /\ run'[d] = [run[d] EXCEPT !.transfer = direction, !.horizon = 0, !.after = 0,
                                     !.candidates = NoCandidates]
         /\ IsRun(run[d])
<1>a. PICK r : r = [run[d] EXCEPT !.transfer = direction, !.horizon = 0, !.after = 0,
                               !.candidates = NoCandidates]
  OBVIOUS
<1>1. IsRun(run[d])
  BY DEF TypeOK
<1>2. IsRun(r)
  BY <1>1, <1>a, NoCandidatesFacts DEF IsRun
<1>3. IsRun(r)' /\ "locate" \in Step /\ ObjectId' = ObjectId
  BY <1>2 DEF IsRun, ObjectId, Step
<1>4. run' = [run EXCEPT ![d] = r] /\ pc' = [pc EXCEPT ![d] = "locate"]
  BY <1>a DEF Transfer, Goto, TypeOK
<1>5. Moves(d) /\ pc'[d] = "locate" /\ run'[d] = r
  BY <1>3, <1>4, MovesIntro
<1> QED BY <1>1, <1>a, <1>5

-----------------------------------------------------------------------------
(***************************************************************************)
(* The invariant of the device that moves, by where its command goes.      *)
(***************************************************************************)

LEMMA SavedSame ==
  ASSUME NEW d \in Device, SavedInv(d), UNCHANGED objects, saved'[d] = saved[d]
  PROVE  SavedInv(d)'
BY DEF SavedInv

(* It ends. *)
LEMMA IdleInv ==
  ASSUME TypeOK, NEW d \in Device, DeviceInv(d), UNCHANGED <<objects, feed>>,
         pc'[d] = "idle", run'[d] = NoRun, saved'[d] = saved[d], settings'[d] = settings[d],
         session'[d] # None => session'[d].key = keyring'[d]
  PROVE  DeviceInv(d)'
<1>1. NoRun.horizon = 0 /\ NoRun.candidates = NoCandidates
  BY DEF NoRun, Begun
<1>2. Len(feed) \in Nat
  BY DEF TypeOK
<1>3. KeyInv(d)' /\ SettingsInv(d)' /\ FreshInv(d)' /\ BookInv(d)' /\ LookInv(d)' /\ TargetInv(d)'
  BY DEF DeviceInv, KeyInv, SettingsInv, FreshInv, BookInv, LookInv, TargetInv
<1>4. SavedInv(d)'
  BY DEF DeviceInv, SavedInv
<1>5. SearchInv(d)'
  BY <1>1, <1>2, NoCandidatesFacts DEF SearchInv
<1> QED BY <1>3, <1>4, <1>5 DEF DeviceInv

(* What is true of Mapping(d) is true of the entry of the locals. *)
LEMMA MappingIs ==
  ASSUME NEW d \in Device
  PROVE  Mapping(d) = saved[d][run[d].endpoint][run[d].kind]
BY DEF Mapping

(* It records what it has found or written. *)
LEMMA RecordInv ==
  ASSUME TypeOK, NEW d \in Device, DeviceInv(d), UNCHANGED <<objects, feed>>,
         pc[d] \notin {"idle", "key"}, settings'[d] = settings[d], keyring'[d] = keyring[d],
         NEW version, version.object \in ObjectId, version.revision \in Nat,
         Fits(d, version.object),
         Mapping(d) # None => Mapping(d).base = run[d].key,
         Record(d, version)
  PROVE  DeviceInv(d)' /\ Moves(d) /\ Keeps(d)
<1> DEFINE e0 == run[d].endpoint
           k0 == run[d].kind
           entry == [object |-> version.object, revision |-> version.revision,
                     base |-> run[d].key]
<1>1. run[d].key \in Key /\ e0 \in Endpoint /\ k0 \in Kind /\ run[d].key = keyring[d]
  BY RunElim DEF DeviceInv, KeyInv, TypeOK
<1>2. /\ Moves(d) /\ Keeps(d)
      /\ saved'[d][e0][k0] = entry
      /\ \A e \in Endpoint, k \in Kind : e # e0 \/ k # k0 => saved'[d][e][k] = saved[d][e][k]
      /\ \/ /\ k0 = "ext"
            /\ pc'[d] = "locate"
            /\ run'[d] = Begun(run[d].command, e0, FALSE, run[d].key, "book")
            /\ session'[d] = session[d]
         \/ /\ pc'[d] = "idle"
            /\ run'[d] = NoRun
            /\ session'[d] \in {session[d], [key |-> run[d].key, endpoint |-> e0]}
  BY <1>1, RecordFacts
<1>3. entry # None /\ entry.object = version.object /\ entry.base = run[d].key
  <2>1. version.object \in Nat
    BY DEF ObjectId, TypeOK
  <2>2. entry \in [object : Nat, revision : Nat, base : Key]
    BY <1>1, <2>1
  <2> QED BY <2>2, ConstantAssumption DEF ConstantAssumption
<1>4. Len(feed) \in Nat /\ NoRun.horizon = 0 /\ NoRun.candidates = NoCandidates
  BY DEF NoRun, Begun, TypeOK
<1>5. Fits(d, version.object) /\ (saved[d][e0][k0] # None => saved[d][e0][k0].base = run[d].key)
  BY MappingIs
<1> HIDE DEF entry
<1>6. SavedInv(d)'
  <2>1. ASSUME NEW e \in Endpoint, NEW k \in Kind, saved'[d][e][k] # None
        PROVE  /\ objects'[saved'[d][e][k].object].key = saved'[d][e][k].base
               /\ objects'[saved'[d][e][k].object].kind = k
               /\ objects'[saved'[d][e][k].object].profile = "mine"
    <3>1. CASE e = e0 /\ k = k0
      BY <1>2, <1>3, <1>5, <3>1 DEF Fits
    <3>2. CASE e # e0 \/ k # k0
      BY <1>2, <2>1, <3>2 DEF DeviceInv, SavedInv
    <3> QED BY <3>1, <3>2
  <2>2. ASSUME NEW e \in Endpoint, saved'[d][e]["book"] # None
        PROVE  saved'[d][e]["ext"] # None /\ saved'[d][e]["ext"].base = saved'[d][e]["book"].base
    <3>0. "ext" \in Kind /\ "book" \in Kind /\ Kind = {"ext", "book"}
      BY DEF Kind
    <3>1. CASE e # e0
      <4>1. saved'[d][e]["book"] = saved[d][e]["book"] /\ saved'[d][e]["ext"] = saved[d][e]["ext"]
        BY <1>2, <3>0, <3>1
      <4> QED BY <2>2, <4>1 DEF DeviceInv, SavedInv
    <3>2. CASE e = e0 /\ k0 = "ext"
      <4>1. saved'[d][e]["book"] = saved[d][e]["book"]
        BY <1>2, <3>0, <3>2
      <4>2. saved[d][e]["ext"] # None /\ saved[d][e]["ext"].base = saved[d][e]["book"].base
        BY <2>2, <4>1 DEF DeviceInv, SavedInv
      <4>3. saved[d][e]["book"].base = run[d].key
        BY <1>5, <3>2, <4>2
      <4> QED BY <1>2, <1>3, <3>2, <4>1, <4>3
    <3>3. CASE e = e0 /\ k0 = "book"
      <4>1. saved[d][e]["ext"] # None /\ saved[d][e]["ext"].base = run[d].key
        BY <3>3 DEF DeviceInv, BookInv
      <4>2. saved'[d][e]["ext"] = saved[d][e]["ext"]
        BY <1>2, <3>0, <3>3
      <4> QED BY <1>2, <1>3, <3>3, <4>1, <4>2
    <3> QED BY <1>1, <3>0, <3>1, <3>2, <3>3
  <2> QED BY <2>1, <2>2 DEF SavedInv
<1>7. CASE pc'[d] = "idle" /\ run'[d] = NoRun /\ session'[d] \in {session[d], [key |-> run[d].key, endpoint |-> e0]}
  <2>1. session'[d] # None => session'[d].key = keyring'[d]
    BY <1>1, <1>7 DEF DeviceInv, KeyInv
  <2>2. KeyInv(d)' /\ SettingsInv(d)' /\ FreshInv(d)' /\ BookInv(d)' /\ LookInv(d)' /\ TargetInv(d)'
    BY <1>7, <2>1 DEF DeviceInv, KeyInv, SettingsInv, FreshInv, BookInv, LookInv, TargetInv
  <2>3. SearchInv(d)'
    BY <1>4, <1>7, NoCandidatesFacts DEF SearchInv
  <2> QED BY <1>2, <1>6, <2>2, <2>3 DEF DeviceInv
<1>8. CASE /\ k0 = "ext" /\ pc'[d] = "locate" /\ session'[d] = session[d]
           /\ run'[d] = Begun(run[d].command, e0, FALSE, run[d].key, "book")
  <2>1. /\ pc'[d] = "locate"
        /\ run'[d].endpoint = e0 /\ run'[d].key = run[d].key /\ run'[d].kind = "book"
        /\ run'[d].after = 0 /\ run'[d].candidates = NoCandidates /\ run'[d].horizon = 0
    BY <1>8 DEF Begun
  <2>2. KeyInv(d)' /\ SettingsInv(d)' /\ FreshInv(d)' /\ LookInv(d)' /\ TargetInv(d)'
    BY <1>1, <1>8, <2>1 DEF DeviceInv, KeyInv, SettingsInv, FreshInv, LookInv, TargetInv
  <2>3. BookInv(d)'
    BY <1>2, <1>3, <1>8, <2>1 DEF BookInv
  <2>4. SearchInv(d)'
    BY <1>4, <2>1, NoCandidatesFacts DEF SearchInv
  <2> QED BY <1>2, <1>6, <2>2, <2>3, <2>4 DEF DeviceInv
<1> QED BY <1>2, <1>7, <1>8

(* It is to write a new object, or a version of one that fits. *)
LEMMA ToPutInv ==
  ASSUME TypeOK, NEW d \in Device, DeviceInv(d), UNCHANGED <<objects, feed, keyring, settings, saved, session>>,
         pc[d] \notin {"idle", "key"},
         NEW remote \in Version \cup {None}, NEW horizon \in Nat, horizon <= Len(feed),
         remote # None => remote.object \in ObjectId /\ Fits(d, remote.object),
         remote = None => \A i \in 1 .. horizon : ~ Fits(d, feed[i]),
         Mapping(d) # None => Mapping(d).base = run[d].key,
         ToPut(d, remote, horizon)
  PROVE  DeviceInv(d)' /\ Moves(d)
<1>1. /\ Moves(d) /\ pc'[d] = "put"
      /\ run'[d] = [run[d] EXCEPT !.remote = remote, !.horizon = horizon,
                                  !.after = 0, !.candidates = NoCandidates]
      /\ IsRun(run[d])
  BY ToPutFacts
<1>2. /\ run'[d].endpoint = run[d].endpoint /\ run'[d].key = run[d].key
      /\ run'[d].kind = run[d].kind /\ run'[d].remote = remote
      /\ run'[d].candidates = NoCandidates /\ run'[d].horizon = horizon
  BY <1>1 DEF IsRun
<1>3. KeyInv(d)' /\ SettingsInv(d)' /\ FreshInv(d)'
  BY <1>1, <1>2 DEF DeviceInv, KeyInv, SettingsInv, FreshInv
<1>4. SavedInv(d)' /\ BookInv(d)'
  BY <1>1, <1>2, SavedSame DEF DeviceInv, BookInv
<1>5. LookInv(d)'
  BY <1>1, <1>2 DEF LookInv, Mapping
<1>6. \A o : Fits(d, o)' <=> Fits(d, o)
  BY <1>2 DEF Fits
<1>7. TargetInv(d)'
  BY <1>1, <1>2, <1>6 DEF TargetInv, ObjectId
<1>8. SearchInv(d)'
  BY <1>1, <1>2, <1>6, NoCandidatesFacts DEF SearchInv
<1> QED BY <1>1, <1>3, <1>4, <1>5, <1>7, <1>8 DEF DeviceInv

(* It looks for the extensions once more. *)
LEMMA TransferInv ==
  ASSUME TypeOK, NEW d \in Device, DeviceInv(d), UNCHANGED <<objects, feed, keyring, settings, saved, session>>,
         pc[d] \notin {"idle", "key"},
         NEW direction \in {"save", "load"}, Transfer(d, direction)
  PROVE  DeviceInv(d)' /\ Moves(d)
<1>1. /\ Moves(d) /\ pc'[d] = "locate"
      /\ run'[d] = [run[d] EXCEPT !.transfer = direction, !.horizon = 0, !.after = 0,
                                  !.candidates = NoCandidates]
      /\ IsRun(run[d])
  BY TransferFacts
<1>2. /\ run'[d].endpoint = run[d].endpoint /\ run'[d].key = run[d].key
      /\ run'[d].kind = run[d].kind /\ run'[d].after = 0
      /\ run'[d].candidates = NoCandidates /\ run'[d].horizon = 0
  BY <1>1 DEF IsRun
<1>3. KeyInv(d)' /\ SettingsInv(d)' /\ FreshInv(d)'
  BY <1>1, <1>2 DEF DeviceInv, KeyInv, SettingsInv, FreshInv
<1>4. SavedInv(d)' /\ BookInv(d)' /\ LookInv(d)' /\ TargetInv(d)'
  BY <1>1, <1>2, SavedSame DEF DeviceInv, BookInv, LookInv, TargetInv
<1>5. SearchInv(d)'
  <2>1. Len(feed) \in Nat
    BY DEF TypeOK
  <2> QED BY <1>1, <1>2, <2>1, NoCandidatesFacts DEF SearchInv
<1> QED BY <1>1, <1>3, <1>4, <1>5 DEF DeviceInv

(* With a remote copy it records, goes on to write or to transfer, or ends. *)
LEMMA KeepsAll ==
  ASSUME TypeOK, NEW d \in Device, UNCHANGED <<objects, saved, session>>
  PROVE  Keeps(d)
BY DEF TypeOK, Keeps, Entry, ObjectId

LEMMA ProceedInv ==
  ASSUME TypeOK, NEW d \in Device, DeviceInv(d), UNCHANGED <<objects, feed, keyring, settings>>,
         pc[d] \notin {"idle", "key"},
         NEW remote \in Version, remote.object \in ObjectId, Fits(d, remote.object),
         Mapping(d) # None => Mapping(d).base = run[d].key,
         Proceed(d, remote)
  PROVE  DeviceInv(d)' /\ Moves(d) /\ Keeps(d)
<1>0. remote.revision \in Nat /\ 0 \in Nat /\ 0 <= Len(feed) /\ remote # None
  BY ConstantAssumption DEF Version, TypeOK, ConstantAssumption
<1>1. CASE Record(d, remote)
  BY <1>0, <1>1, RecordInv
<1>2. CASE ToPut(d, remote, 0)
  <2>1. UNCHANGED <<saved, session>>
    BY <1>2 DEF ToPut
  <2> QED BY <1>0, <1>2, <2>1, ToPutInv, KeepsAll
<1>3. CASE \E direction \in {"save", "load"} : Transfer(d, direction)
  <2>1. PICK direction \in {"save", "load"} : Transfer(d, direction)
    BY <1>3
  <2>2. UNCHANGED <<saved, session>>
    BY <2>1 DEF Transfer
  <2> QED BY <2>1, <2>2, TransferInv, KeepsAll
<1>4. CASE End(d) /\ UNCHANGED <<saved, session>>
  <2>1. Moves(d) /\ pc'[d] = "idle" /\ run'[d] = NoRun
    BY <1>4, EndFacts
  <2>2. session'[d] # None => session'[d].key = keyring'[d]
    BY <1>4 DEF DeviceInv, KeyInv
  <2> QED BY <1>4, <2>1, <2>2, IdleInv, KeepsAll
<1> QED BY <1>1, <1>2, <1>3, <1>4 DEF Proceed, Reconcile

-----------------------------------------------------------------------------
(***************************************************************************)
(* The server grows: what a device knows of it stays true.                 *)
(***************************************************************************)

Grows ==
  /\ objects' \in Seq(ObjectType)
  /\ Len(objects) <= Len(objects')
  /\ \A o \in ObjectId : /\ objects'[o].kind = objects[o].kind
                         /\ objects'[o].profile = objects[o].profile
                         /\ objects'[o].key = objects[o].key
                         /\ objects'[o].horizon = objects[o].horizon
  /\ feed' \in Seq(ObjectId')
  /\ Len(feed) <= Len(feed')
  /\ \A i \in DOMAIN feed : feed'[i] = feed[i]

LEMMA ObjectFacts ==
  ASSUME TypeOK
  PROVE  \A o \in ObjectId : objects[o].key \in Key /\ objects[o].horizon \in Nat
<1>1. \A o \in ObjectId : objects[o] \in ObjectType
  BY DEF TypeOK, ObjectId
<1> QED BY <1>1 DEF ObjectType

LEMMA GrowsFacts ==
  ASSUME TypeOK, Grows
  PROVE  /\ ObjectId \subseteq ObjectId' /\ ObjectId \subseteq Nat
         /\ Len(feed) \in Nat /\ Len(feed') \in Nat
         /\ DOMAIN feed = 1 .. Len(feed)
         /\ \A i \in 1 .. Len(feed) : i \in DOMAIN feed' /\ feed'[i] = feed[i] /\ feed[i] \in ObjectId
<1>1. ObjectId \subseteq ObjectId' /\ ObjectId \subseteq Nat
  BY DEF TypeOK, Grows, ObjectId
<1>2. /\ feed \in Seq(ObjectId) /\ feed' \in Seq(ObjectId') /\ Len(feed) <= Len(feed')
      /\ \A i \in DOMAIN feed : feed'[i] = feed[i]
  BY DEF TypeOK, Grows
<1> QED BY <1>1, <1>2

LEMMA GrowsUnchanged ==
  ASSUME TypeOK, UNCHANGED server
  PROVE  Grows
BY DEF TypeOK, Grows, server, ObjectId

LEMMA SavedGrows ==
  ASSUME TypeOK, NEW d \in Device, SavedInv(d), Grows, saved'[d] = saved[d]
  PROVE  SavedInv(d)'
<1>1. ASSUME NEW e \in Endpoint, NEW k \in Kind, saved[d][e][k] # None
      PROVE  saved[d][e][k].object \in ObjectId
  BY <1>1 DEF TypeOK
<1>2. \A o \in ObjectId : /\ objects'[o].kind = objects[o].kind
                          /\ objects'[o].profile = objects[o].profile
                          /\ objects'[o].key = objects[o].key
  BY DEF Grows
<1> QED BY <1>1, <1>2 DEF SavedInv

LEMMA OtherInv ==
  ASSUME TypeOK, NEW d \in Device, DeviceInv(d), Grows,
         keyring'[d] = keyring[d], settings'[d] = settings[d], saved'[d] = saved[d],
         session'[d] = session[d], pc'[d] = pc[d], run'[d] = run[d]
  PROVE  DeviceInv(d)'
<1>1. IsRun(run[d])
  BY DEF TypeOK
<1>2. \A o \in ObjectId : Fits(d, o)' <=> Fits(d, o)
  BY DEF Fits, Grows
<1>3. KeyInv(d)' /\ SettingsInv(d)' /\ FreshInv(d)' /\ BookInv(d)' /\ LookInv(d)'
  BY DEF DeviceInv, KeyInv, SettingsInv, FreshInv, BookInv, LookInv, Mapping
<1>4. SavedInv(d)'
  BY SavedGrows DEF DeviceInv
<1>5. TargetInv(d)'
  <2>1. pc[d] \in {"put", "verify"} /\ run[d].remote # None =>
          run[d].remote.object \in ObjectId' /\ Fits(d, run[d].remote.object)'
    BY <1>2, GrowsFacts DEF DeviceInv, TargetInv
  <2> QED BY <2>1 DEF DeviceInv, TargetInv
<1>6. SearchInv(d)'
  <2>1. run'[d].horizon \in Nat /\ run[d].after \in Nat /\ DOMAIN run[d].candidates \subseteq ObjectId
    BY <1>1, RunElim
  <2>2. run'[d].horizon <= Len(feed')
    BY <2>1, GrowsFacts DEF DeviceInv, SearchInv, Grows
  <2>3. \A o \in DOMAIN run'[d].candidates : objects'[o].kind = run'[d].kind
    BY <2>1 DEF DeviceInv, SearchInv, Grows
  <2>4. ASSUME pc'[d] = "page"
        PROVE  /\ run'[d].after <= Len(feed')
               /\ \A i \in DOMAIN feed' :
                    i <= run'[d].after /\ Fits(d, feed[i])' => feed'[i] \in DOMAIN run'[d].candidates
    <3>1. run[d].after <= Len(feed)
      BY <2>4 DEF DeviceInv, SearchInv
    <3>2. run[d].after <= Len(feed')
      BY <2>1, <3>1, GrowsFacts DEF Grows
    <3>3. ASSUME NEW i \in DOMAIN feed', i <= run[d].after, Fits(d, feed[i])'
          PROVE  feed'[i] \in DOMAIN run[d].candidates
      <4>1. i \in 1 .. Len(feed)
        <5>1. DOMAIN feed' = 1 .. Len(feed')
          BY DEF Grows
        <5> QED BY <2>1, <3>1, <3>3, <5>1, GrowsFacts
      <4>2. feed'[i] = feed[i] /\ feed[i] \in ObjectId /\ i \in DOMAIN feed
        BY <4>1, GrowsFacts
      <4>3. Fits(d, feed[i])
        BY <3>3, <4>2, <1>2 DEF Fits
      <4> QED BY <2>4, <3>3, <4>2, <4>3 DEF DeviceInv, SearchInv
    <3> QED BY <3>2, <3>3
  <2>5. ASSUME NEW i \in 1 .. run'[d].horizon
        PROVE  /\ feed'[i] = feed[i]
               /\ Fits(d, feed[i])' <=> Fits(d, feed[i])
    <3>1. run[d].horizon <= Len(feed)
      BY DEF DeviceInv, SearchInv
    <3>2. i \in 1 .. Len(feed)
      BY <2>1, <3>1, GrowsFacts
    <3>3. feed'[i] = feed[i] /\ feed[i] \in ObjectId
      BY <3>2, GrowsFacts
    <3> QED BY <3>3, <1>2 DEF Fits
  <2>6. pc'[d] = "candidate" =>
          \A i \in 1 .. run'[d].horizon :
            Fits(d, feed[i])' => feed'[i] \in DOMAIN run'[d].candidates
    BY <2>5 DEF DeviceInv, SearchInv
  <2>7. pc'[d] = "put" /\ run'[d].remote = None =>
          \A i \in 1 .. run'[d].horizon : ~ Fits(d, feed[i])'
    BY <2>5 DEF DeviceInv, SearchInv
  <2> QED BY <2>2, <2>3, <2>4, <2>6, <2>7 DEF SearchInv
<1> QED BY <1>3, <1>4, <1>5, <1>6 DEF DeviceInv

-----------------------------------------------------------------------------
(***************************************************************************)
(* From the device that moves to all of the state.                         *)
(***************************************************************************)

(* Only device d moves, and what it does to the server adds to it. *)
LEMMA Assemble ==
  ASSUME IInv, NEW d \in Device, Grows, Moves(d), Keeps(d), DeviceInv(d)',
         keyring' \in [Device -> Key \cup {None}],
         settings' \in [Device -> {None, "valid", "refused"}],
         \A e \in Device \ {d} : keyring'[e] = keyring[e] /\ settings'[e] = settings[e],
         made' \subseteq Device, dropped' \subseteq Key, commands' \in Nat, imports' \in Nat,
         NeededKeysAreStored', CopiedOnlyWhenAbsent', HorizonInv'
  PROVE  IInv'
<1>1. TypeOK'
  <2>1. saved' \in [Device -> [Endpoint -> [Kind -> Entry' \cup {None}]]]
    <3>1. Entry \subseteq Entry'
      <4>1. ObjectId \subseteq ObjectId'
        BY GrowsFacts DEF IInv
      <4> QED BY <4>1 DEF Entry
    <3>2. Entry \cup {None} \subseteq Entry' \cup {None}
      BY <3>1
    <3>3. \A x : x \in [Kind -> Entry \cup {None}] => x \in [Kind -> Entry' \cup {None}]
      BY <3>2
    <3>4. \A x : x \in [Endpoint -> [Kind -> Entry \cup {None}]] =>
                x \in [Endpoint -> [Kind -> Entry' \cup {None}]]
      BY <3>3
    <3> QED BY <3>4 DEF Keeps
  <2> QED BY <2>1 DEF Grows, Moves, RunType, Keeps, Entry, TypeOK
<1>2. ASSUME NEW e \in Device PROVE DeviceInv(e)'
  <2>1. CASE e = d
    BY <2>1
  <2>2. CASE e # d
    <3>1. /\ keyring'[e] = keyring[e] /\ settings'[e] = settings[e] /\ saved'[e] = saved[e]
          /\ session'[e] = session[e] /\ pc'[e] = pc[e] /\ run'[e] = run[e]
      BY <2>2 DEF Moves, Keeps
    <3>2. TypeOK /\ DeviceInv(e)
      BY DEF IInv
    <3> QED BY <3>1, <3>2, OtherInv
  <2> QED BY <2>1, <2>2
<1> QED BY <1>1, <1>2 DEF IInv

(* Only device d moves, and the server is as it was. *)
LEMMA AssembleLocal ==
  ASSUME IInv, NEW d \in Device, UNCHANGED server, Moves(d), Keeps(d), DeviceInv(d)',
         keyring' \in [Device -> Key \cup {None}],
         settings' \in [Device -> {None, "valid", "refused"}],
         \A e \in Device \ {d} : keyring'[e] = keyring[e] /\ settings'[e] = settings[e],
         made' \subseteq Device, dropped' \subseteq Key, commands' \in Nat, imports' \in Nat,
         \A k \in Key : k \in dropped \cup {keyring[e] : e \in Device} =>
                        k \in dropped' \cup {keyring'[e] : e \in Device}
  PROVE  IInv'
<1>1. Grows
  BY GrowsUnchanged DEF IInv
<1>2. HorizonInv' /\ CopiedOnlyWhenAbsent'
  <2>1. objects' = objects /\ feed' = feed /\ HorizonInv /\ CopiedOnlyWhenAbsent
    BY DEF IInv, server
  <2>2. HorizonInv'
    BY <2>1 DEF HorizonInv, ObjectId
  <2>3. CopiedOnlyWhenAbsent'
    BY <2>1 DEF CopiedOnlyWhenAbsent, Alike, ObjectId
  <2> QED BY <2>2, <2>3
<1>3. NeededKeysAreStored'
  <2>1. \A o \in ObjectId : objects[o].key \in Key
    BY ObjectFacts DEF IInv
  <2>2. ObjectId' = ObjectId /\ objects' = objects
    BY DEF server, ObjectId
  <2> QED BY <2>1, <2>2 DEF IInv, NeededKeysAreStored
<1> QED BY <1>1, <1>2, <1>3, Assemble

(* A step that touches neither the server, nor the secret store, nor the   *)
(* history.                                                                *)
LEMMA AssembleCommand ==
  ASSUME IInv, NEW d \in Device, UNCHANGED <<server, keyring, settings, history>>,
         Moves(d), Keeps(d), DeviceInv(d)'
  PROVE  IInv'
BY AssembleLocal DEF IInv, TypeOK, history

(* The command ends early, with or without its session. *)
LEMMA EndStep ==
  ASSUME IInv, NEW d \in Device, End(d), UNCHANGED <<server, disk, history>>,
         session' \in {session, [session EXCEPT ![d] = None]}
  PROVE  IInv'
<1>1. TypeOK /\ DeviceInv(d)
  BY DEF IInv
<1>2. UNCHANGED <<objects, feed, keyring, settings, saved>>
  BY DEF server, disk
<1>3. Moves(d) /\ pc'[d] = "idle" /\ run'[d] = NoRun
  BY <1>1, <1>2, EndFacts
<1>4. session'[d] \in {session[d], None}
  BY <1>1 DEF TypeOK
<1>5. Keeps(d)
  BY <1>1, <1>2 DEF TypeOK, Keeps, Entry, ObjectId
<1>6. session'[d] # None => session'[d].key = keyring'[d]
  BY <1>1, <1>2, <1>4 DEF DeviceInv, KeyInv
<1>7. DeviceInv(d)'
  BY <1>1, <1>2, <1>3, <1>6, IdleInv
<1> QED BY <1>2, <1>3, <1>5, <1>7, AssembleCommand

-----------------------------------------------------------------------------
(* Every step keeps the invariant: the steps of a sign-in. *)

(* A command begins, or waits where a search has not begun. *)
LEMMA FreshStep ==
  ASSUME TypeOK, NEW d \in Device, UNCHANGED <<objects, feed>>, saved'[d] = saved[d],
         pc'[d] \in {"key", "authenticate", "settings", "locate"},
         run'[d].after = 0, run'[d].candidates = NoCandidates, run'[d].horizon = 0,
         run'[d].kind = "ext", KeyInv(d)', SettingsInv(d)', SavedInv(d)
  PROVE  DeviceInv(d)'
<1>1. FreshInv(d)' /\ BookInv(d)' /\ LookInv(d)' /\ TargetInv(d)'
  BY DEF FreshInv, BookInv, LookInv, TargetInv
<1>2. SavedInv(d)'
  BY DEF SavedInv
<1>3. SearchInv(d)'
  <2>1. Len(feed) \in Nat /\ 0 <= Len(feed)
    BY DEF TypeOK
  <2> QED BY <2>1, NoCandidatesFacts DEF SearchInv
<1> QED BY <1>1, <1>2, <1>3 DEF DeviceInv

LEMMA StartConnectStep ==
  ASSUME IInv, NEW d \in Device, NEW e \in Endpoint, NEW valid \in BOOLEAN,
         StartConnect(d, e, valid)
  PROVE  IInv'
<1>0. TypeOK /\ DeviceInv(d)
  BY DEF IInv
<1>1. PICK r : r = Begun("connect", e, valid, None, "ext")
  OBVIOUS
<1>2. /\ run' = [run EXCEPT ![d] = r] /\ pc' = [pc EXCEPT ![d] = "key"]
      /\ session' = [session EXCEPT ![d] = None] /\ commands' = commands + 1
      /\ UNCHANGED <<objects, feed, keyring, settings, saved, made, dropped, imports>>
      /\ UNCHANGED server
  BY <1>1 DEF StartConnect, Goto, server, disk
<1>3. IsRun(r)'
  <2>1. "ext" \in Kind
    BY DEF Kind
  <2>2. IsRun(r)
    BY <1>1, <2>1, StartRun
  <2> QED BY <1>2, <2>2 DEF IsRun, ObjectId
<1>4. "key" \in Step /\ ObjectId' = ObjectId
  BY <1>2 DEF Step, ObjectId
<1>5. Moves(d) /\ pc'[d] = "key" /\ run'[d] = r
  BY <1>0, <1>2, <1>3, <1>4, MovesIntro
<1>6. Keeps(d) /\ session'[d] = None
  BY <1>0, <1>2 DEF TypeOK, Keeps, Entry, ObjectId
<1>7. /\ run'[d].endpoint = e /\ run'[d].kind = "ext" /\ run'[d].after = 0
      /\ run'[d].candidates = NoCandidates /\ run'[d].horizon = 0
  BY <1>1, <1>5 DEF Begun
<1>8. KeyInv(d)' /\ SettingsInv(d)'
  BY <1>0, <1>2, <1>5, <1>6, <1>7 DEF KeyInv, SettingsInv, DeviceInv
<1>9. DeviceInv(d)'
  BY <1>0, <1>2, <1>5, <1>7, <1>8, FreshStep DEF DeviceInv
<1>10. /\ keyring' \in [Device -> Key \cup {None}]
       /\ settings' \in [Device -> {None, "valid", "refused"}]
       /\ made' \subseteq Device /\ dropped' \subseteq Key /\ commands' \in Nat /\ imports' \in Nat
  BY <1>0, <1>2 DEF TypeOK
<1> QED BY <1>2, <1>5, <1>6, <1>9, <1>10, AssembleLocal

(* The key in use is stored before anything is encrypted with it. *)
LEMMA LoadOrCreateMasterKeyStep ==
  ASSUME IInv, NEW d \in Device, LoadOrCreateMasterKey(d)
  PROVE  IInv'
<1>0. TypeOK /\ DeviceInv(d) /\ IsRun(run[d])
  BY DEF IInv, TypeOK
<1>1. PICK k \in Key :
        /\ run' = [run EXCEPT ![d].key = k]
        /\ keyring' = [keyring EXCEPT ![d] = k]
        /\ keyring[d] \in {k, None}
        /\ made' \subseteq Device
  <2>1. CASE keyring[d] # None
    BY <1>0, <2>1 DEF LoadOrCreateMasterKey, TypeOK
  <2>2. CASE keyring[d] = None
    <3>1. d \in Key
      BY DEF Key
    <3> QED BY <1>0, <2>2, <3>1 DEF LoadOrCreateMasterKey, TypeOK
  <2> QED BY <2>1, <2>2
<1>2. /\ pc[d] = "key" /\ pc' = [pc EXCEPT ![d] = "authenticate"]
      /\ UNCHANGED <<objects, feed, settings, saved, session, dropped, commands, imports>>
      /\ UNCHANGED server
  BY DEF LoadOrCreateMasterKey, Goto, server
<1>3. PICK r : r = [run[d] EXCEPT !.key = k]
  OBVIOUS
<1>4. run' = [run EXCEPT ![d] = r]
  BY <1>0, <1>1, <1>3 DEF TypeOK
<1>5. IsRun(r)' /\ "authenticate" \in Step /\ ObjectId' = ObjectId
  BY <1>0, <1>2, <1>3 DEF IsRun, ObjectId, Step
<1>6. Moves(d) /\ pc'[d] = "authenticate" /\ run'[d] = r
  BY <1>0, <1>2, <1>4, <1>5, MovesIntro
<1>7. Keeps(d)
  BY <1>0, <1>2, KeepsAll
<1>8. /\ run'[d].key = k /\ run'[d].endpoint = run[d].endpoint /\ run'[d].kind = run[d].kind
      /\ run'[d].after = run[d].after /\ run'[d].candidates = run[d].candidates
      /\ run'[d].horizon = run[d].horizon /\ run'[d].valid = run[d].valid
  BY <1>0, <1>3, <1>6 DEF IsRun
<1>9. /\ keyring' \in [Device -> Key \cup {None}] /\ keyring'[d] = k
      /\ \A e \in Device \ {d} : keyring'[e] = keyring[e]
  BY <1>0, <1>1 DEF TypeOK
<1>10. KeyInv(d)' /\ SettingsInv(d)'
  BY <1>0, <1>2, <1>6, <1>8, <1>9 DEF KeyInv, SettingsInv, DeviceInv
<1>11. /\ run'[d].after = 0 /\ run'[d].candidates = NoCandidates
       /\ run'[d].horizon = 0 /\ run'[d].kind = "ext"
  BY <1>0, <1>2, <1>8 DEF DeviceInv, FreshInv
<1>12. DeviceInv(d)'
  BY <1>0, <1>2, <1>6, <1>10, <1>11, FreshStep DEF DeviceInv
<1>13. \A x \in Key : x \in dropped \cup {keyring[e] : e \in Device} =>
                      x \in dropped' \cup {keyring'[e] : e \in Device}
  <2>1. None \notin Key
    BY ConstantAssumption DEF ConstantAssumption
  <2>2. ASSUME NEW x \in Key, NEW e \in Device, x = keyring[e]
        PROVE  keyring'[e] = x
    <3>1. CASE e = d
      BY <1>1, <1>9, <2>1, <2>2, <3>1
    <3>2. CASE e # d
      BY <1>9, <2>2, <3>2
    <3> QED BY <3>1, <3>2
  <2> QED BY <1>2, <2>2
<1>14. /\ settings' \in [Device -> {None, "valid", "refused"}]
       /\ \A e \in Device \ {d} : settings'[e] = settings[e]
       /\ dropped' \subseteq Key /\ commands' \in Nat /\ imports' \in Nat
  BY <1>0, <1>2 DEF TypeOK
<1> QED BY <1>1, <1>2, <1>6, <1>7, <1>9, <1>12, <1>13, <1>14, AssembleLocal

LEMMA AuthenticateStep ==
  ASSUME IInv, NEW d \in Device, Authenticate(d)
  PROVE  IInv'
<1>0. TypeOK /\ DeviceInv(d) /\ IsRun(run[d])
  BY DEF IInv, TypeOK
<1>1. /\ pc[d] = "authenticate"
      /\ UNCHANGED <<server, disk, session, history>>
      /\ UNCHANGED <<objects, feed, keyring, settings, saved>>
  BY DEF Authenticate, server, disk
<1>2. CASE Accepted(d) /\ Goto(d, "settings") /\ UNCHANGED run
  <2>3. Moves(d) /\ pc'[d] = "settings" /\ run'[d] = run[d]
    BY <1>0, <1>1, <1>2, GotoFacts DEF Step
  <2>4. KeyInv(d)' /\ SettingsInv(d)'
    BY <1>0, <1>1, <1>2, <2>3 DEF KeyInv, SettingsInv, DeviceInv, Accepted
  <2>5. /\ run'[d].after = 0 /\ run'[d].candidates = NoCandidates
        /\ run'[d].horizon = 0 /\ run'[d].kind = "ext"
    BY <1>0, <1>1, <2>3 DEF DeviceInv, FreshInv
  <2>6. DeviceInv(d)'
    BY <1>0, <1>1, <2>3, <2>4, <2>5, FreshStep DEF DeviceInv
  <2> QED BY <1>0, <1>1, <2>3, <2>6, KeepsAll, AssembleCommand
<1>3. CASE ~Accepted(d) /\ End(d)
  BY <1>1, <1>3, EndStep
<1> QED BY <1>2, <1>3 DEF Authenticate

LEMMA PersistSettingsStep ==
  ASSUME IInv, NEW d \in Device, PersistSettings(d)
  PROVE  IInv'
<1>0. TypeOK /\ DeviceInv(d) /\ IsRun(run[d])
  BY DEF IInv, TypeOK
<1>1. /\ pc[d] = "settings" /\ ForcedDefaultSync(d)
      /\ UNCHANGED <<objects, feed, keyring, saved, made, dropped, commands, imports>>
      /\ UNCHANGED server
  BY DEF PersistSettings, server, history
<1>2. /\ run[d].valid /\ run[d].key = keyring[d] /\ run[d].key \in Key
      /\ run[d].endpoint \in Endpoint
  BY <1>0, <1>1 DEF DeviceInv, SettingsInv, KeyInv
<1>3. /\ settings' \in [Device -> {None, "valid", "refused"}] /\ settings'[d] = "valid"
      /\ \A e \in Device \ {d} : settings'[e] = settings[e]
  BY <1>0, <1>2 DEF PersistSettings, TypeOK
<1>4. CASE Goto(d, "locate") /\ UNCHANGED <<run, session>>
  <2>3. Moves(d) /\ pc'[d] = "locate" /\ run'[d] = run[d]
    BY <1>0, <1>1, <1>4, GotoFacts DEF Step
  <2>4. KeyInv(d)' /\ SettingsInv(d)'
    BY <1>0, <1>1, <1>2, <1>3, <1>4, <2>3 DEF KeyInv, SettingsInv, DeviceInv
  <2>5. /\ run'[d].after = 0 /\ run'[d].candidates = NoCandidates
        /\ run'[d].horizon = 0 /\ run'[d].kind = "ext"
    BY <1>0, <1>1, <2>3 DEF DeviceInv, FreshInv
  <2>6. DeviceInv(d)'
    BY <1>0, <1>1, <2>3, <2>4, <2>5, FreshStep DEF DeviceInv
  <2>7. Keeps(d)
    BY <1>0, <1>1, <1>4, KeepsAll
  <2>8. /\ keyring' \in [Device -> Key \cup {None}]
        /\ made' \subseteq Device /\ dropped' \subseteq Key /\ commands' \in Nat /\ imports' \in Nat
    BY <1>0, <1>1 DEF TypeOK
  <2> QED BY <1>1, <1>3, <2>3, <2>6, <2>7, <2>8, AssembleLocal
<1>5. CASE Finish(d)
  <2>1. /\ Moves(d) /\ pc'[d] = "idle" /\ run'[d] = NoRun
        /\ session' \in [Device -> [key : Key, endpoint : Endpoint] \cup {None}]
        /\ \A e \in Device \ {d} : session'[e] = session[e]
        /\ session'[d] \in {session[d], [key |-> run[d].key, endpoint |-> run[d].endpoint]}
    BY <1>0, <1>1, <1>2, <1>5, FinishFacts
  <2>2. session'[d] # None => session'[d].key = keyring'[d]
    BY <1>0, <1>1, <1>2, <2>1 DEF DeviceInv, KeyInv
  <2>3. KeyInv(d)' /\ SettingsInv(d)'
    BY <1>3, <2>1, <2>2 DEF KeyInv, SettingsInv
  <2>4. FreshInv(d)' /\ SavedInv(d)' /\ BookInv(d)' /\ LookInv(d)' /\ TargetInv(d)'
    BY <1>0, <1>1, <2>1 DEF DeviceInv, FreshInv, SavedInv, BookInv, LookInv, TargetInv
  <2>5. SearchInv(d)'
    <3>1. NoRun.horizon = 0 /\ NoRun.candidates = NoCandidates /\ Len(feed) \in Nat
      BY <1>0 DEF NoRun, Begun, TypeOK
    <3> QED BY <1>1, <2>1, <3>1, NoCandidatesFacts DEF SearchInv
  <2>6. DeviceInv(d)'
    BY <2>3, <2>4, <2>5 DEF DeviceInv
  <2>7. Keeps(d)
    BY <1>0, <1>1, <2>1 DEF TypeOK, Keeps, Entry, ObjectId
  <2>8. /\ keyring' \in [Device -> Key \cup {None}]
        /\ made' \subseteq Device /\ dropped' \subseteq Key /\ commands' \in Nat /\ imports' \in Nat
    BY <1>0, <1>1 DEF TypeOK
  <2> QED BY <1>1, <1>3, <2>1, <2>6, <2>7, <2>8, AssembleLocal
<1> QED BY <1>1, <1>4, <1>5 DEF ForcedDefaultSync

-----------------------------------------------------------------------------
(* The steps of a command. *)

LEMMA StartCommandStep ==
  ASSUME IInv, NEW d \in Device, NEW c \in {"sync", "save", "load"}, StartCommand(d, c)
  PROVE  IInv'
<1>0. TypeOK /\ DeviceInv(d)
  BY DEF IInv
<1>1. PICK r : r = Begun(c, session[d].endpoint, FALSE, session[d].key, "ext")
  OBVIOUS
<1>2. /\ run' = [run EXCEPT ![d] = r] /\ pc' = [pc EXCEPT ![d] = "locate"]
      /\ session[d] # None /\ commands' = commands + 1
      /\ UNCHANGED <<objects, feed, keyring, settings, saved, session, made, dropped, imports>>
      /\ UNCHANGED server
  BY <1>1 DEF StartCommand, Goto, server, disk
<1>3. /\ session[d].key \in Key /\ session[d].endpoint \in Endpoint
      /\ session[d].key = keyring[d]
  <2>1. session[d] \in [key : Key, endpoint : Endpoint]
    BY <1>0, <1>2 DEF TypeOK
  <2> QED BY <1>0, <1>2, <2>1 DEF DeviceInv, KeyInv
<1>4. IsRun(r)'
  <2>1. "ext" \in Kind /\ FALSE \in BOOLEAN /\ c \in {"none", "connect", "sync", "save", "load"}
    BY DEF Kind
  <2>2. IsRun(r)
    BY <1>1, <1>3, <2>1, StartRun
  <2> QED BY <1>2, <2>2 DEF IsRun, ObjectId
<1>5. "locate" \in Step /\ ObjectId' = ObjectId
  BY <1>2 DEF Step, ObjectId
<1>6. Moves(d) /\ pc'[d] = "locate" /\ run'[d] = r
  BY <1>0, <1>2, <1>4, <1>5, MovesIntro
<1>7. Keeps(d)
  BY <1>0, <1>2, KeepsAll
<1>8. /\ run'[d].endpoint = session[d].endpoint /\ run'[d].key = session[d].key
      /\ run'[d].kind = "ext" /\ run'[d].after = 0
      /\ run'[d].candidates = NoCandidates /\ run'[d].horizon = 0
  BY <1>1, <1>6 DEF Begun
<1>9. KeyInv(d)' /\ SettingsInv(d)'
  BY <1>0, <1>2, <1>3, <1>6, <1>8 DEF KeyInv, SettingsInv, DeviceInv
<1>10. DeviceInv(d)'
  BY <1>0, <1>2, <1>6, <1>8, <1>9, FreshStep DEF DeviceInv
<1>11. /\ keyring' \in [Device -> Key \cup {None}]
       /\ settings' \in [Device -> {None, "valid", "refused"}]
       /\ made' \subseteq Device /\ dropped' \subseteq Key /\ commands' \in Nat /\ imports' \in Nat
  BY <1>0, <1>2 DEF TypeOK
<1> QED BY <1>2, <1>6, <1>7, <1>10, <1>11, AssembleLocal

(* What the mapping names, when it can be read. *)
LEMMA MappedFits ==
  ASSUME TypeOK, NEW d \in Device, DeviceInv(d), pc[d] \notin {"idle", "key"}, Mapping(d) # None
  PROVE  /\ Mapping(d) \in Entry
         /\ Mapping(d).base = objects[Mapping(d).object].key
         /\ objects[Mapping(d).object].kind = run[d].kind
         /\ objects[Mapping(d).object].profile = "mine"
<1>1. run[d].endpoint \in Endpoint /\ run[d].kind \in Kind
  BY RunElim DEF DeviceInv, KeyInv, TypeOK
<1>2. Mapping(d) = saved[d][run[d].endpoint][run[d].kind]
  BY DEF Mapping
<1>3. Mapping(d) \in Entry
  BY <1>1, <1>2 DEF TypeOK, Entry
<1>4. PICK e \in Endpoint, k \in Kind : e = run[d].endpoint /\ k = run[d].kind
  BY <1>1
<1>5. Mapping(d) = saved[d][e][k]
  BY <1>2, <1>4
<1>6. saved[d][e][k] # None =>
        /\ objects[saved[d][e][k].object].key = saved[d][e][k].base
        /\ objects[saved[d][e][k].object].kind = k
        /\ objects[saved[d][e][k].object].profile = "mine"
  BY DEF DeviceInv, SavedInv
<1>7. /\ objects[Mapping(d).object].key = Mapping(d).base
      /\ objects[Mapping(d).object].kind = k
      /\ objects[Mapping(d).object].profile = "mine"
  BY <1>5, <1>6
<1> QED BY <1>3, <1>4, <1>7

LEMMA FoundType ==
  ASSUME TypeOK, NEW o \in ObjectId
  PROVE  Found(o) \in Version /\ Found(o).object = o
<1>1. Revision(o) \in Nat
  BY RevisionType DEF TypeOK
<1>2. o \in Nat
  BY DEF ObjectId
<1> QED BY <1>1, <1>2 DEF Found, Version

LEMMA FetchMappedStep ==
  ASSUME IInv, NEW d \in Device, FetchMapped(d)
  PROVE  IInv'
<1>0. TypeOK /\ DeviceInv(d)
  BY DEF IInv
<1>1. /\ pc[d] = "locate" /\ Mapping(d) # None
      /\ UNCHANGED <<server, keyring, settings, history>>
      /\ UNCHANGED <<objects, feed, keyring, settings>>
  BY DEF FetchMapped, server
<1>2. CASE Decrypts(d, Mapping(d).object) /\ Proceed(d, Found(Mapping(d).object))
  <2>1. PICK o \in ObjectId : o = Mapping(d).object
    BY <1>0, <1>1, MappedFits DEF Entry
  <2>2. Fits(d, o) /\ Mapping(d).base = run[d].key
    BY <1>0, <1>1, <1>2, <2>1, MappedFits DEF Fits, Decrypts
  <2>3. Found(o) \in Version /\ Found(o).object = o
    BY <1>0, FoundType
  <2>4. DeviceInv(d)' /\ Moves(d) /\ Keeps(d)
    <3>1. PICK remote : remote = Found(o)
      OBVIOUS
    <3>2. Proceed(d, remote)
      BY <1>2, <2>1, <3>1
    <3> QED BY <1>0, <1>1, <2>2, <2>3, <3>1, <3>2, ProceedInv
  <2> QED BY <1>1, <2>4, AssembleCommand
<1>3. CASE End(d) /\ UNCHANGED <<saved, session>>
  BY <1>1, <1>3, EndStep DEF disk
<1> QED BY <1>2, <1>3 DEF FetchMapped

LEMMA TryCandidateStep ==
  ASSUME IInv, NEW d \in Device, TryCandidate(d)
  PROVE  IInv'
<1>0. TypeOK /\ DeviceInv(d) /\ IsRun(run[d])
  BY DEF IInv, TypeOK
<1>1. /\ pc[d] = "candidate"
      /\ UNCHANGED <<server, keyring, settings, history>>
      /\ UNCHANGED <<objects, feed, keyring, settings>>
  BY DEF TryCandidate, server
<1>2. PICK o \in DOMAIN run[d].candidates :
        \/ Decrypts(d, o) /\ objects[o].profile = "mine" /\ Proceed(d, Found(o))
        \/ /\ ~Decrypts(d, o) \/ objects[o].profile # "mine"
           /\ run' = [run EXCEPT ![d].candidates = Without(@, o)]
           /\ UNCHANGED <<pc, saved, session>>
  BY DEF TryCandidate
<1>3. o \in ObjectId /\ objects[o].kind = run[d].kind /\ Mapping(d) = None
  BY <1>0, <1>1, RunElim DEF DeviceInv, SearchInv, LookInv
<1>4. CASE Decrypts(d, o) /\ objects[o].profile = "mine" /\ Proceed(d, Found(o))
  <2>1. Fits(d, o)
    BY <1>3, <1>4 DEF Fits, Decrypts
  <2>2. Found(o) \in Version /\ Found(o).object = o
    BY <1>0, <1>3, FoundType
  <2>3. DeviceInv(d)' /\ Moves(d) /\ Keeps(d)
    <3>1. PICK remote : remote = Found(o)
      OBVIOUS
    <3>2. Proceed(d, remote)
      BY <1>4, <3>1
    <3> QED BY <1>0, <1>1, <1>3, <2>1, <2>2, <3>1, <3>2, ProceedInv
  <2> QED BY <1>1, <2>3, AssembleCommand
<1>5. CASE /\ ~Decrypts(d, o) \/ objects[o].profile # "mine"
           /\ run' = [run EXCEPT ![d].candidates = Without(@, o)]
           /\ UNCHANGED <<pc, saved, session>>
  <2>1. PICK c : c = Without(run[d].candidates, o)
    OBVIOUS
  <2>2. /\ DOMAIN c = DOMAIN run[d].candidates \ {o}
        /\ c \in [DOMAIN c -> Nat] /\ DOMAIN c \subseteq ObjectId
    BY <1>0, <2>1, RunElim DEF Without
  <2>3. PICK r : r = [run[d] EXCEPT !.candidates = c]
    OBVIOUS
  <2>4. IsRun(r)' /\ ObjectId' = ObjectId
    BY <1>0, <1>1, <2>2, <2>3 DEF IsRun, ObjectId
  <2>5. run' = [run EXCEPT ![d] = r] /\ pc' = [pc EXCEPT ![d] = "candidate"]
    BY <1>0, <1>1, <1>5, <2>1, <2>3 DEF TypeOK
  <2>6. Moves(d) /\ pc'[d] = "candidate" /\ run'[d] = r
    BY <1>0, <1>1, <2>4, <2>5, MovesIntro DEF Step
  <2>7. /\ run'[d].endpoint = run[d].endpoint /\ run'[d].key = run[d].key
        /\ run'[d].kind = run[d].kind /\ run'[d].horizon = run[d].horizon
        /\ run'[d].candidates = c
    BY <1>0, <2>3, <2>6 DEF IsRun
  <2>8. KeyInv(d)' /\ SettingsInv(d)' /\ FreshInv(d)'
    BY <1>0, <1>1, <1>5, <2>6, <2>7 DEF DeviceInv, KeyInv, SettingsInv, FreshInv
  <2>9. SavedInv(d)' /\ BookInv(d)' /\ LookInv(d)' /\ TargetInv(d)'
    BY <1>0, <1>1, <1>3, <1>5, <2>6, <2>7
       DEF DeviceInv, SavedInv, BookInv, LookInv, TargetInv, Mapping
  <2>10. SearchInv(d)'
    <3>1. ~ Fits(d, o)
      BY <1>5 DEF Fits, Decrypts
    <3>2. \A x : Fits(d, x)' <=> Fits(d, x)
      BY <1>1, <2>7 DEF Fits
    <3>3. /\ run[d].horizon <= Len(feed)
          /\ \A x \in DOMAIN run[d].candidates : objects[x].kind = run[d].kind
          /\ \A i \in 1 .. run[d].horizon :
               Fits(d, feed[i]) => feed[i] \in DOMAIN run[d].candidates
      BY <1>0, <1>1 DEF DeviceInv, SearchInv
    <3>4. \A i \in 1 .. run[d].horizon : Fits(d, feed[i]) => feed[i] \in DOMAIN c
      BY <2>2, <3>1, <3>3
    <3> QED BY <1>1, <2>2, <2>6, <2>7, <3>2, <3>3, <3>4 DEF SearchInv
  <2> QED BY <1>0, <1>1, <1>5, <2>6, <2>8, <2>9, <2>10, KeepsAll, AssembleCommand DEF DeviceInv
<1> QED BY <1>2, <1>4, <1>5

(* With the candidates exhausted there is nothing that fits. *)
LEMMA NothingFoundStep ==
  ASSUME IInv, NEW d \in Device, NothingFound(d)
  PROVE  IInv'
<1>0. TypeOK /\ DeviceInv(d) /\ IsRun(run[d])
  BY DEF IInv, TypeOK
<1>1. /\ pc[d] = "candidate" /\ run[d].candidates = NoCandidates
      /\ UNCHANGED <<server, keyring, settings, history>>
      /\ UNCHANGED <<objects, feed, keyring, settings>>
  BY DEF NothingFound, server
<1>2. CASE End(d) /\ UNCHANGED <<saved, session>>
  BY <1>1, <1>2, EndStep DEF disk
<1>3. CASE ToPut(d, None, run[d].horizon)
  <2>1. /\ run[d].horizon \in Nat /\ run[d].horizon <= Len(feed) /\ Mapping(d) = None
        /\ \A i \in 1 .. run[d].horizon : ~ Fits(d, feed[i])
    BY <1>0, <1>1, RunElim, NoCandidatesFacts DEF DeviceInv, SearchInv, LookInv
  <2>2. UNCHANGED <<saved, session>>
    BY <1>3 DEF ToPut
  <2>3. DeviceInv(d)' /\ Moves(d)
    <3>1. PICK horizon \in Nat : horizon = run[d].horizon
      BY <2>1
    <3>2. None \in Version \cup {None} /\ ToPut(d, None, horizon)
      BY <1>3, <3>1
    <3> QED BY <1>0, <1>1, <2>1, <2>2, <3>1, <3>2, ToPutInv
  <2> QED BY <1>0, <1>1, <2>2, <2>3, KeepsAll, AssembleCommand
<1> QED BY <1>2, <1>3 DEF NothingFound

(* A page leaves out nothing that fits, and the cursor comes on. *)
LEMMA ReadPageStep ==
  ASSUME IInv, NEW d \in Device, ReadPage(d)
  PROVE  IInv'
<1>0. TypeOK /\ DeviceInv(d) /\ IsRun(run[d])
  BY DEF IInv, TypeOK
<1> DEFINE page == Page(feed, run[d].after, PageLimit)
           c == Collect(run[d].candidates, feed, page.cursors, Wanted(d))
           h == IF pc[d] = "locate" THEN Len(feed) ELSE run[d].horizon
           a == IF page.more THEN page.next ELSE 0
           s == IF page.more THEN "page" ELSE "candidate"
<1>1. /\ Discovers(d)
      /\ UNCHANGED <<server, keyring, settings, history>>
      /\ UNCHANGED <<objects, feed, keyring, settings, saved, session>>
  BY DEF ReadPage, server, disk
<1>2. /\ pc[d] \in {"locate", "page"} /\ Mapping(d) = None
  BY <1>0, <1>1 DEF Discovers, DeviceInv, LookInv
<1>3. /\ run[d].after \in Nat /\ run[d].horizon \in Nat
      /\ run[d].candidates \in [DOMAIN run[d].candidates -> Nat]
      /\ DOMAIN run[d].candidates \subseteq ObjectId
      /\ feed \in Seq(ObjectId) /\ Len(feed) \in Nat /\ DOMAIN feed = 1 .. Len(feed)
      /\ PageLimit \in Nat \ {0}
  BY <1>0, RunElim, ConstantAssumption DEF TypeOK, ConstantAssumption
<1>4. /\ page.cursors \subseteq DOMAIN feed
      /\ page.next \in Nat
      /\ page.more => /\ run[d].after < page.next /\ page.next < Len(feed)
                      /\ \A i \in DOMAIN feed :
                           run[d].after < i /\ i <= page.next => i \in page.cursors
      /\ ~page.more => \A i \in DOMAIN feed : run[d].after < i => i \in page.cursors
  BY <1>3, PageFacts
<1>5. run' = [run EXCEPT ![d].candidates = c, ![d].horizon = h, ![d].after = a]
  BY DEF ReadPage
<1>6. pc' = [pc EXCEPT ![d] = s]
  BY DEF ReadPage, Goto
<1>7. c \in [DOMAIN run[d].candidates \cup ({feed[i] : i \in page.cursors} \cap Wanted(d)) -> Nat]
  <2>1. page.cursors \in SUBSET (DOMAIN feed)
    BY <1>4
  <2> HIDE DEF page
  <2>2. ASSUME NEW i \in page.cursors PROVE LastChange(feed, page.cursors, feed[i]) \in Nat
    BY <1>3, <2>1, LastChangeFacts
  <2> QED BY <1>3, <2>2 DEF Collect
<1> HIDE DEF page
<1>8. a \in Nat /\ h \in Nat /\ s \in Step
  BY <1>3, <1>4 DEF Step
<1> HIDE DEF c, h, a, s
<1>9. PICK r : r = [run[d] EXCEPT !.candidates = c, !.horizon = h, !.after = a]
  OBVIOUS
<1>10. run' = [run EXCEPT ![d] = r]
  BY <1>0, <1>5, <1>9 DEF TypeOK
<1>11. /\ DOMAIN c = DOMAIN run[d].candidates \cup ({feed[i] : i \in page.cursors} \cap Wanted(d))
       /\ c \in [DOMAIN c -> Nat] /\ DOMAIN c \subseteq ObjectId
  BY <1>3, <1>7 DEF Wanted
<1>12. /\ r.endpoint = run[d].endpoint /\ r.key = run[d].key /\ r.kind = run[d].kind
       /\ r.candidates = c /\ r.horizon = h /\ r.after = a
       /\ IsRun(r)
  BY <1>0, <1>8, <1>9, <1>11 DEF IsRun
<1>13. IsRun(r)'
  BY <1>1, <1>12 DEF IsRun, ObjectId
<1>14. Moves(d) /\ pc'[d] = s /\ run'[d] = r
  <2>1. ObjectId \subseteq ObjectId'
    BY <1>1 DEF ObjectId
  <2> QED BY <1>0, <1>6, <1>8, <1>10, <1>13, <2>1, MovesIntro
<1>15. s \in {"page", "candidate"}
  BY DEF s
<1>16. KeyInv(d)' /\ SettingsInv(d)' /\ FreshInv(d)'
  BY <1>0, <1>1, <1>2, <1>12, <1>14, <1>15 DEF DeviceInv, KeyInv, SettingsInv, FreshInv
<1>17. SavedInv(d)' /\ BookInv(d)' /\ LookInv(d)' /\ TargetInv(d)'
  BY <1>0, <1>1, <1>2, <1>12, <1>14, <1>15
     DEF DeviceInv, SavedInv, BookInv, LookInv, TargetInv, Mapping
<1>18. \A o : Fits(d, o)' <=> Fits(d, o)
  BY <1>1, <1>12, <1>14 DEF Fits
(* Up to the end of this page all that fits is among the candidates. *)
<1>19. ASSUME NEW i \in DOMAIN feed, Fits(d, feed[i]), i <= run[d].after \/ i \in page.cursors
       PROVE  feed[i] \in DOMAIN c
  <2>1. CASE i \in page.cursors
    <3>1. feed[i] \in Wanted(d)
      BY <1>3, <1>19 DEF Wanted, Fits
    <3> QED BY <1>11, <2>1, <3>1
  <2>2. CASE i <= run[d].after
    <3>1. pc[d] = "page"
      BY <1>0, <1>2, <1>3, <2>2 DEF DeviceInv, FreshInv
    <3>2. feed[i] \in DOMAIN run[d].candidates
      BY <1>0, <1>19, <2>2, <3>1 DEF DeviceInv, SearchInv
    <3> QED BY <1>11, <3>2
  <2> QED BY <1>19, <2>1, <2>2
<1>20. \A o \in DOMAIN c : objects[o].kind = run[d].kind
  BY <1>0, <1>11 DEF DeviceInv, SearchInv, Wanted
<1>21. h <= Len(feed)
  BY <1>0, <1>3 DEF h, DeviceInv, SearchInv
<1>22. CASE page.more
  <2>1. s = "page" /\ a = page.next
    BY <1>22 DEF s, a
  <2>2. a <= Len(feed)
    BY <1>3, <1>4, <1>22, <2>1
  <2>3. \A i \in DOMAIN feed : i <= a /\ Fits(d, feed[i]) => feed[i] \in DOMAIN c
    BY <1>3, <1>4, <1>19, <1>22, <2>1
  <2>4. SearchInv(d)'
    BY <1>1, <1>12, <1>14, <1>18, <1>20, <1>21, <2>1, <2>2, <2>3 DEF SearchInv
  <2> QED BY <1>0, <1>1, <1>14, <1>16, <1>17, <2>4, KeepsAll, AssembleCommand DEF DeviceInv
<1>23. CASE ~page.more
  <2>1. s = "candidate" /\ a = 0
    BY <1>23 DEF s, a
  <2>2. \A i \in 1 .. h : Fits(d, feed[i]) => feed[i] \in DOMAIN c
    BY <1>3, <1>4, <1>8, <1>19, <1>21, <1>23
  <2>3. SearchInv(d)'
    BY <1>1, <1>12, <1>14, <1>18, <1>20, <1>21, <2>1, <2>2 DEF SearchInv
  <2> QED BY <1>0, <1>1, <1>14, <1>16, <1>17, <2>3, KeepsAll, AssembleCommand DEF DeviceInv
<1> QED BY <1>22, <1>23

-----------------------------------------------------------------------------
(* Writing to the server. *)

(* What is true once a device has written object v.object. *)
LEMMA WriteStep ==
  ASSUME IInv, NEW d \in Device, Grows, UNCHANGED <<disk, session, history>>,
         pc[d] \in {"locate", "put"}, Goto(d, "verify"),
         NEW v \in Version, run' = [run EXCEPT ![d].remote = v], v.object \in ObjectId',
         objects'[v.object].kind = run[d].kind, objects'[v.object].profile = "mine",
         objects'[v.object].key = run[d].key,
         Mapping(d) # None => Mapping(d).base = run[d].key,
         NeededKeysAreStored', CopiedOnlyWhenAbsent', HorizonInv'
  PROVE  IInv'
<1>0. /\ TypeOK /\ DeviceInv(d) /\ IsRun(run[d])
      /\ UNCHANGED <<keyring, settings, saved, session, made, dropped, commands, imports>>
  BY DEF IInv, TypeOK, disk, history
<1>1. PICK r : r = [run[d] EXCEPT !.remote = v]
  OBVIOUS
<1>2. run' = [run EXCEPT ![d] = r] /\ pc' = [pc EXCEPT ![d] = "verify"]
  BY <1>0, <1>1 DEF TypeOK, Goto
<1>3. /\ r.endpoint = run[d].endpoint /\ r.key = run[d].key /\ r.kind = run[d].kind
      /\ r.horizon = run[d].horizon /\ r.candidates = run[d].candidates /\ r.remote = v
      /\ IsRun(r)
  BY <1>0, <1>1 DEF IsRun
<1>4. ObjectId \subseteq ObjectId'
  BY <1>0, GrowsFacts
<1>5. IsRun(r)'
  <2>1. DOMAIN r.candidates \subseteq ObjectId'
    BY <1>3, <1>4, RunElim
  <2> QED BY <1>3, <2>1 DEF IsRun
<1>6. Moves(d) /\ pc'[d] = "verify" /\ run'[d] = r
  BY <1>0, <1>2, <1>4, <1>5, MovesIntro DEF Step
<1>7. Keeps(d)
  BY <1>0 DEF Keeps, TypeOK, Entry
<1>8. KeyInv(d)' /\ SettingsInv(d)' /\ FreshInv(d)'
  BY <1>0, <1>3, <1>6 DEF DeviceInv, KeyInv, SettingsInv, FreshInv
<1>9. SavedInv(d)'
  BY <1>0, SavedGrows DEF DeviceInv
<1>10. BookInv(d)' /\ LookInv(d)'
  BY <1>0, <1>3, <1>6 DEF DeviceInv, BookInv, LookInv, Mapping
<1>11. TargetInv(d)'
  <2>1. v # None
    BY ConstantAssumption DEF ConstantAssumption, Version
  <2> QED BY <1>3, <1>6, <2>1 DEF TargetInv, Fits
<1>12. SearchInv(d)'
  <2>1. run[d].horizon \in Nat /\ DOMAIN run[d].candidates \subseteq ObjectId
    BY <1>0, RunElim
  <2>2. run[d].horizon <= Len(feed')
    BY <1>0, <2>1, GrowsFacts DEF DeviceInv, SearchInv, Grows
  <2>3. \A o \in DOMAIN run[d].candidates : objects'[o].kind = run[d].kind
    BY <1>0, <2>1 DEF DeviceInv, SearchInv, Grows
  <2> QED BY <1>3, <1>6, <2>2, <2>3 DEF SearchInv
<1>13. DeviceInv(d)'
  BY <1>8, <1>9, <1>10, <1>11, <1>12 DEF DeviceInv
<1>14. /\ keyring' \in [Device -> Key \cup {None}]
       /\ settings' \in [Device -> {None, "valid", "refused"}]
       /\ made' \subseteq Device /\ dropped' \subseteq Key /\ commands' \in Nat /\ imports' \in Nat
  BY <1>0 DEF TypeOK
<1> QED BY <1>0, <1>6, <1>7, <1>13, <1>14, Assemble

(* A new object, when the feed of its horizon has none like it. *)
LEMMA CreateStep ==
  ASSUME IInv, NEW d \in Device, Create(d), UNCHANGED <<disk, session, history>>,
         pc[d] \in {"locate", "put"},
         \A i \in 1 .. run[d].horizon : ~ Fits(d, feed[i]),
         Mapping(d) # None => Mapping(d).base = run[d].key
  PROVE  IInv'
<1>0. TypeOK /\ DeviceInv(d) /\ IsRun(run[d]) /\ HorizonInv /\ CopiedOnlyWhenAbsent /\ NeededKeysAreStored
  BY DEF IInv, TypeOK
<1> DEFINE n == Len(objects) + 1
           new == [kind |-> run[d].kind, profile |-> "mine", key |-> run[d].key,
                   horizon |-> run[d].horizon]
<1>1. /\ run[d].kind \in Kind /\ run[d].key \in Key /\ run[d].horizon \in Nat
      /\ run[d].horizon <= Len(feed) /\ run[d].key = keyring[d]
  BY <1>0, RunElim DEF DeviceInv, KeyInv, SearchInv
<1>2. /\ objects \in Seq(ObjectType) /\ new \in ObjectType /\ Len(objects) \in Nat
      /\ feed \in Seq(ObjectId) /\ Len(feed) \in Nat
  BY <1>0, <1>1 DEF TypeOK, ObjectType, Profile
<1>3. objects' = Append(objects, new)
  BY DEF Create
<1>4. /\ objects' \in Seq(ObjectType) /\ Len(objects') = n
      /\ objects'[n] = new /\ \A o \in 1 .. Len(objects) : objects'[o] = objects[o]
  <2> HIDE DEF new
  <2> QED BY <1>2, <1>3
<1>5. ObjectId = 1 .. Len(objects) /\ ObjectId' = 1 .. n /\ n \in ObjectId'
  BY <1>2, <1>4 DEF ObjectId
<1>6. /\ feed' \in Seq(ObjectId') /\ Len(feed') = Len(feed) + 1
      /\ \A i \in 1 .. Len(feed) : feed'[i] = feed[i]
  <2>1. feed' = Append(feed, n)
    BY <1>4 DEF Create
  <2>2. feed \in Seq(ObjectId')
    <3>1. ObjectId \subseteq ObjectId'
      BY <1>2, <1>5
    <3> QED BY <1>2, <3>1
  <2> QED BY <1>2, <1>5, <2>1, <2>2
<1>7. Grows
  <2>1. \A o \in ObjectId : objects'[o] = objects[o]
    BY <1>4, <1>5
  <2>2. Len(objects) <= Len(objects') /\ Len(feed) <= Len(feed')
    BY <1>2, <1>4, <1>6
  <2>3. \A i \in DOMAIN feed : feed'[i] = feed[i]
    BY <1>2, <1>6
  <2> QED BY <1>4, <1>6, <2>1, <2>2, <2>3 DEF Grows
<1>8. run' = [run EXCEPT ![d].remote = [object |-> n, revision |-> 1]] /\ Goto(d, "verify")
  BY <1>4 DEF Create
<1>9. /\ objects'[n].kind = run[d].kind /\ objects'[n].profile = "mine"
      /\ objects'[n].key = run[d].key /\ objects'[n].horizon = run[d].horizon
  BY <1>4
<1> HIDE DEF new
<1>10. NeededKeysAreStored'
  <2>1. keyring' = keyring /\ dropped' = dropped
    BY DEF disk, history
  <2>2. \A o \in ObjectId' : o \in ObjectId \/ o = n
    BY <1>2, <1>5
  <2>3. objects'[n].key = keyring'[d]
    BY <1>1, <1>9, <2>1
  <2>4. \A o \in ObjectId : objects'[o] = objects[o]
    BY <1>4, <1>5
  <2> QED BY <1>0, <2>1, <2>2, <2>3, <2>4 DEF NeededKeysAreStored
<1>11. HorizonInv'
  <2>1. \A o \in ObjectId : objects[o].horizon \in Nat
    BY <1>0, ObjectFacts
  <2>2. ASSUME NEW o \in ObjectId' PROVE objects'[o].horizon <= Len(feed')
    <3>1. CASE o = n
      BY <1>1, <1>2, <1>6, <1>9, <3>1
    <3>2. CASE o \in ObjectId
      <4>1. objects'[o] = objects[o] /\ objects[o].horizon \in Nat
        BY <1>4, <1>5, <2>1, <3>2
      <4>2. objects[o].horizon <= Len(feed)
        BY <1>0, <3>2 DEF HorizonInv
      <4> QED BY <1>2, <1>6, <4>1, <4>2
    <3> QED BY <1>2, <1>5, <3>1, <3>2
  <2> QED BY <2>2 DEF HorizonInv
<1>12. CopiedOnlyWhenAbsent'
  <2>1. ASSUME NEW o \in ObjectId', NEW p \in ObjectId', o < p, Alike(o, p)',
               NEW i \in 1 .. objects'[p].horizon
        PROVE  feed'[i] # o
    <3>0. o \in ObjectId /\ objects'[o] = objects[o]
      BY <1>2, <1>4, <1>5, <2>1
    <3>1. CASE p = n
      <4>1. i \in 1 .. run[d].horizon /\ feed'[i] = feed[i]
        BY <1>1, <1>2, <1>6, <1>9, <2>1, <3>1
      <4>2. Fits(d, o)
        BY <1>9, <2>1, <3>0, <3>1 DEF Alike, Fits
      <4> QED BY <4>1, <4>2
    <3>2. CASE p \in ObjectId
      <4>1. objects'[p] = objects[p] /\ objects[p].horizon \in Nat
        BY <1>0, <1>4, <1>5, <3>2, ObjectFacts
      <4>2. Alike(o, p)
        BY <2>1, <3>0, <4>1 DEF Alike
      <4>3. i \in 1 .. objects[p].horizon /\ objects[p].horizon <= Len(feed)
        BY <1>0, <2>1, <3>2, <4>1 DEF HorizonInv
      <4>4. feed'[i] = feed[i]
        BY <1>2, <1>6, <4>1, <4>3
      <4> QED BY <1>0, <2>1, <3>0, <3>2, <4>2, <4>3, <4>4 DEF CopiedOnlyWhenAbsent
    <3> QED BY <1>2, <1>5, <3>1, <3>2
  <2> QED BY <2>1 DEF CopiedOnlyWhenAbsent
<1>13. PICK v : v = [object |-> n, revision |-> 1]
  OBVIOUS
<1>14. v \in Version /\ v.object = n
  BY <1>2, <1>13 DEF Version
<1> QED BY <1>5, <1>7, <1>8, <1>9, <1>10, <1>11, <1>12, <1>13, <1>14, WriteStep

(* The next version, under the key that its object has. *)
LEMMA ReplaceStep ==
  ASSUME IInv, NEW d \in Device, UNCHANGED <<disk, session, history>>,
         pc[d] \in {"locate", "put"},
         NEW version, version.object \in ObjectId, version.revision \in Nat,
         Fits(d, version.object), Replace(d, version),
         Mapping(d) # None => Mapping(d).base = run[d].key
  PROVE  IInv'
<1>0. TypeOK /\ DeviceInv(d) /\ HorizonInv /\ CopiedOnlyWhenAbsent /\ NeededKeysAreStored
  BY DEF IInv
<1>1. CASE /\ objects' = [objects EXCEPT ![version.object].key = run[d].key]
           /\ feed' = Append(feed, version.object)
           /\ run' = [run EXCEPT ![d].remote = [object |-> version.object,
                                                revision |-> version.revision + 1]]
           /\ Goto(d, "verify")
  <2>1. objects' = objects
    <3>1. PICK o \in ObjectId : o = version.object
      OBVIOUS
    <3>2. objects[o] \in ObjectType /\ objects[o].key = run[d].key
      BY <1>0, <3>1 DEF Fits, TypeOK, ObjectId
    <3>3. [objects[o] EXCEPT !.key = run[d].key] = objects[o]
      BY <3>2 DEF ObjectType
    <3>4. objects' = [objects EXCEPT ![o] = objects[o]]
      BY <1>1, <3>1, <3>3
    <3> QED BY <1>0, <3>4 DEF TypeOK
  <2>2. ObjectId' = ObjectId
    BY <2>1 DEF ObjectId
  <2>3. /\ feed' \in Seq(ObjectId) /\ Len(feed') = Len(feed) + 1 /\ Len(feed) \in Nat
        /\ \A i \in 1 .. Len(feed) : feed'[i] = feed[i]
    BY <1>0, <1>1 DEF TypeOK
  <2>4. Grows
    <3>1. objects' \in Seq(ObjectType) /\ Len(objects) \in Nat
      BY <1>0, <2>1 DEF TypeOK
    <3>2. feed' \in Seq(ObjectId') /\ Len(feed) <= Len(feed')
      BY <2>2, <2>3
    <3>3. \A i \in DOMAIN feed : feed'[i] = feed[i]
      <4>1. DOMAIN feed = 1 .. Len(feed)
        BY <1>0 DEF TypeOK
      <4> QED BY <2>3, <4>1
    <3>4. Len(objects) <= Len(objects') /\ \A o \in ObjectId : objects'[o] = objects[o]
      BY <2>1, <3>1
    <3> QED BY <3>1, <3>2, <3>3, <3>4 DEF Grows
  <2>5. NeededKeysAreStored'
    BY <1>0, <2>1, <2>2 DEF NeededKeysAreStored, disk, history
  <2>6. \A o \in ObjectId : objects[o].horizon \in Nat /\ objects[o].horizon <= Len(feed)
    BY <1>0, ObjectFacts DEF HorizonInv
  <2>7. HorizonInv'
    BY <2>1, <2>2, <2>3, <2>6 DEF HorizonInv
  <2>8. CopiedOnlyWhenAbsent'
    <3>1. ASSUME NEW o \in ObjectId, NEW p \in ObjectId, o < p, Alike(o, p)',
                 NEW i \in 1 .. objects[p].horizon
          PROVE  feed'[i] # o
      <4>1. Alike(o, p)
        BY <2>1, <3>1 DEF Alike
      <4>2. feed'[i] = feed[i]
        BY <2>3, <2>6, <3>1
      <4> QED BY <1>0, <3>1, <4>1, <4>2 DEF CopiedOnlyWhenAbsent
    <3> QED BY <2>1, <2>2, <3>1 DEF CopiedOnlyWhenAbsent
  <2>9. PICK v : v = [object |-> version.object, revision |-> version.revision + 1]
    OBVIOUS
  <2>10. v \in Version /\ v.object = version.object
    <3>1. version.object \in Nat
      BY DEF ObjectId
    <3> QED BY <2>9, <3>1 DEF Version
  <2>11. /\ run' = [run EXCEPT ![d].remote = v] /\ v.object \in ObjectId'
         /\ objects'[v.object].kind = run[d].kind /\ objects'[v.object].profile = "mine"
         /\ objects'[v.object].key = run[d].key
    BY <1>1, <2>1, <2>2, <2>9, <2>10 DEF Fits
  <2> QED BY <1>1, <2>4, <2>5, <2>7, <2>8, <2>10, <2>11, WriteStep
<1>2. CASE End(d) /\ UNCHANGED server
  BY <1>2, EndStep
<1> QED BY <1>1, <1>2 DEF Replace

(* What a command is about to write is of its kind and its profile and     *)
(* under its key, also where a save goes by the mapping without looking.   *)
LEMMA PutFits ==
  ASSUME TypeOK, NEW d \in Device, DeviceInv(d)
  PROVE  /\ pc[d] = "put" /\ run[d].remote # None =>
              /\ run[d].remote.object \in ObjectId /\ run[d].remote.revision \in Nat
              /\ Fits(d, run[d].remote.object)
         /\ pc[d] = "locate" /\ Blind(d) /\ Mapping(d) # None =>
              /\ Mapping(d).object \in ObjectId /\ Mapping(d).revision \in Nat
              /\ Fits(d, Mapping(d).object) /\ Mapping(d).base = run[d].key
<1>1. ASSUME pc[d] = "put", run[d].remote # None
      PROVE  /\ run[d].remote.object \in ObjectId /\ run[d].remote.revision \in Nat
             /\ Fits(d, run[d].remote.object)
  <2>1. run[d].remote \in Version
    BY <1>1, RunElim DEF TypeOK
  <2> QED BY <1>1, <2>1 DEF DeviceInv, TargetInv, Version
<1>2. ASSUME pc[d] = "locate", Blind(d), Mapping(d) # None
      PROVE  /\ Mapping(d).object \in ObjectId /\ Mapping(d).revision \in Nat
             /\ Fits(d, Mapping(d).object) /\ Mapping(d).base = run[d].key
  <2>1. /\ Mapping(d) \in Entry /\ Mapping(d).base = objects[Mapping(d).object].key
        /\ objects[Mapping(d).object].kind = run[d].kind
        /\ objects[Mapping(d).object].profile = "mine"
    BY <1>2, MappedFits
  <2>2. /\ run[d].kind = "book" /\ run[d].endpoint \in Endpoint
        /\ saved[d][run[d].endpoint]["book"] # None
    BY <1>2 DEF Blind, Mapping, DeviceInv, KeyInv
  <2>3. saved[d][run[d].endpoint]["ext"].base = saved[d][run[d].endpoint]["book"].base
    BY <2>2 DEF DeviceInv, SavedInv
  <2>4. saved[d][run[d].endpoint]["ext"].base = run[d].key
    BY <1>2, <2>2 DEF DeviceInv, BookInv
  <2>5. Mapping(d).base = run[d].key
    BY <2>2, <2>3, <2>4 DEF Mapping
  <2> QED BY <2>1, <2>5 DEF Entry, Fits
<1> QED BY <1>1, <1>2

LEMMA PutStep ==
  ASSUME IInv, NEW d \in Device, Put(d)
  PROVE  IInv'
<1>0. TypeOK /\ DeviceInv(d) /\ UNCHANGED <<disk, session, history>>
  BY DEF IInv, Put
<1>1. CASE pc[d] = "put" /\ run[d].remote = None /\ Create(d)
  <2>1. /\ \A i \in 1 .. run[d].horizon : ~ Fits(d, feed[i])
        /\ Mapping(d) # None => Mapping(d).base = run[d].key
    BY <1>0, <1>1 DEF DeviceInv, SearchInv, LookInv
  <2> QED BY <1>0, <1>1, <2>1, CreateStep
<1>2. CASE pc[d] = "put" /\ run[d].remote # None /\ Replace(d, run[d].remote)
  <2>1. Mapping(d) # None => Mapping(d).base = run[d].key
    BY <1>0, <1>2 DEF DeviceInv, LookInv
  <2>2. PICK version : version = run[d].remote
    OBVIOUS
  <2>3. version.object \in ObjectId /\ version.revision \in Nat /\ Fits(d, version.object)
    BY <1>0, <1>2, <2>2, PutFits
  <2>4. Replace(d, version)
    BY <1>2, <2>2
  <2> QED BY <1>0, <1>2, <2>1, <2>3, <2>4, ReplaceStep
<1>3. CASE pc[d] = "locate" /\ Blind(d) /\ Mapping(d) = None /\ Create(d)
  <2>1. \A i \in 1 .. run[d].horizon : ~ Fits(d, feed[i])
    <3>1. run[d].horizon = 0
      BY <1>0, <1>3 DEF DeviceInv, FreshInv
    <3> QED BY <3>1
  <2> QED BY <1>0, <1>3, <2>1, CreateStep
<1>4. CASE pc[d] = "locate" /\ Blind(d) /\ Mapping(d) # None /\ Replace(d, Mapping(d))
  <2>1. PICK version : version = Mapping(d)
    OBVIOUS
  <2>2. /\ version.object \in ObjectId /\ version.revision \in Nat /\ Fits(d, version.object)
        /\ Mapping(d).base = run[d].key
    BY <1>0, <1>4, <2>1, PutFits
  <2>3. Replace(d, version)
    BY <1>4, <2>1
  <2> QED BY <1>0, <1>4, <2>2, <2>3, ReplaceStep
<1> QED BY <1>1, <1>2, <1>3, <1>4 DEF Put

LEMMA VerifyStep ==
  ASSUME IInv, NEW d \in Device, Verify(d)
  PROVE  IInv'
<1>0. TypeOK /\ DeviceInv(d)
  BY DEF IInv
<1>1. /\ pc[d] = "verify"
      /\ UNCHANGED <<server, keyring, settings, history>>
      /\ UNCHANGED <<objects, feed, keyring, settings>>
  BY DEF Verify, server
<1>2. PICK o \in ObjectId : o = run[d].remote.object /\ Fits(d, o)
  BY <1>0, <1>1 DEF DeviceInv, TargetInv
<1>3. CASE Record(d, Found(o))
  <2>1. PICK version : version = Found(o)
    OBVIOUS
  <2>2. version.object = o /\ version.revision \in Nat
    BY <1>0, <2>1, FoundType DEF Version
  <2>3. /\ Record(d, version) /\ pc[d] \notin {"idle", "key"}
        /\ Mapping(d) # None => Mapping(d).base = run[d].key
    BY <1>0, <1>1, <1>3, <2>1 DEF DeviceInv, LookInv
  <2>4. DeviceInv(d)' /\ Moves(d) /\ Keeps(d)
    BY <1>0, <1>1, <1>2, <2>2, <2>3, RecordInv
  <2> QED BY <1>1, <2>4, AssembleCommand
<1>4. CASE End(d) /\ UNCHANGED <<saved, session>>
  BY <1>1, <1>4, EndStep DEF disk
<1> QED BY <1>2, <1>3, <1>4 DEF Verify

-----------------------------------------------------------------------------
(* The other steps, and the invariant. *)

LEMMA ImportRecoveryCodeStep ==
  ASSUME IInv, NEW d \in Device, NEW k \in made \cup {Shared}, ImportRecoveryCode(d, k)
  PROVE  IInv'
<1>0. TypeOK /\ DeviceInv(d) /\ k \in Key
  BY DEF IInv, TypeOK, Key
<1>1. /\ pc[d] = "idle" /\ imports' = imports + 1
      /\ keyring' = [keyring EXCEPT ![d] = k]
      /\ dropped' = dropped \cup ({keyring[d]} \ {None, k})
      /\ session' = [session EXCEPT ![d] = None]
      /\ UNCHANGED <<objects, feed, settings, saved, pc, run, made, commands>>
      /\ UNCHANGED server
  BY DEF ImportRecoveryCode, server
<1>2. /\ keyring' \in [Device -> Key \cup {None}] /\ keyring'[d] = k
      /\ \A e \in Device \ {d} : keyring'[e] = keyring[e]
      /\ dropped' \subseteq Key /\ imports' \in Nat /\ commands' \in Nat /\ made' \subseteq Device
      /\ settings' \in [Device -> {None, "valid", "refused"}]
  BY <1>0, <1>1 DEF TypeOK
<1>3. Moves(d)
  <2>1. ASSUME NEW e \in Device PROVE IsRun(run[e])'
    <3>1. IsRun(run[e]) /\ run'[e] = run[e] /\ ObjectId' = ObjectId
      BY <1>0, <1>1 DEF TypeOK, ObjectId
    <3> QED BY <3>1 DEF IsRun
  <2> QED BY <1>0, <1>1, <2>1 DEF Moves, RunType, TypeOK
<1>4. Keeps(d) /\ session'[d] = None
  BY <1>0, <1>1 DEF Keeps, TypeOK, Entry, ObjectId
<1>5. KeyInv(d)' /\ SettingsInv(d)' /\ FreshInv(d)'
  BY <1>0, <1>1, <1>4 DEF DeviceInv, KeyInv, SettingsInv, FreshInv
<1>6. SavedInv(d)' /\ BookInv(d)' /\ LookInv(d)' /\ TargetInv(d)'
  BY <1>0, <1>1 DEF DeviceInv, SavedInv, BookInv, LookInv, TargetInv, Mapping
<1>7. SearchInv(d)'
  BY <1>0, <1>1 DEF DeviceInv, SearchInv
<1>8. DeviceInv(d)'
  BY <1>5, <1>6, <1>7 DEF DeviceInv
<1>9. \A x \in Key : x \in dropped \cup {keyring[e] : e \in Device} =>
                     x \in dropped' \cup {keyring'[e] : e \in Device}
  <2>1. None \notin Key
    BY ConstantAssumption DEF ConstantAssumption
  <2>2. ASSUME NEW x \in Key, NEW e \in Device, x = keyring[e]
        PROVE  x \in dropped' \/ x = keyring'[e]
    <3>1. CASE e = d
      BY <1>1, <1>2, <2>1, <2>2, <3>1
    <3>2. CASE e # d
      BY <1>2, <2>2, <3>2
    <3> QED BY <3>1, <3>2
  <2> QED BY <1>1, <2>2
<1> QED BY <1>1, <1>2, <1>3, <1>4, <1>8, <1>9, AssembleLocal

LEMMA QuitSteps ==
  ASSUME IInv, NEW d \in Device, NothingSaved(d) \/ FailCommand(d) \/ Quit(d)
  PROVE  IInv'
BY EndStep DEF NothingSaved, FailCommand, Quit, disk

LEMMA NextStep ==
  ASSUME IInv, Next
  PROVE  IInv'
<1>1. PICK d \in Device :
        \/ \E e \in Endpoint, valid \in BOOLEAN : StartConnect(d, e, valid)
        \/ \E c \in {"sync", "save", "load"} : StartCommand(d, c)
        \/ \E k \in made \cup {Shared} : ImportRecoveryCode(d, k)
        \/ CommandStep(d)
        \/ FailCommand(d)
        \/ Quit(d)
  BY DEF Next
<1>2. CASE \E e \in Endpoint, valid \in BOOLEAN : StartConnect(d, e, valid)
  BY <1>2, StartConnectStep
<1>3. CASE \E c \in {"sync", "save", "load"} : StartCommand(d, c)
  BY <1>3, StartCommandStep
<1>4. CASE \E k \in made \cup {Shared} : ImportRecoveryCode(d, k)
  BY <1>4, ImportRecoveryCodeStep
<1>5. CASE CommandStep(d)
  BY <1>5, LoadOrCreateMasterKeyStep, AuthenticateStep, PersistSettingsStep, FetchMappedStep,
     QuitSteps, ReadPageStep, TryCandidateStep, NothingFoundStep, PutStep, VerifyStep
     DEF CommandStep
<1>6. CASE FailCommand(d) \/ Quit(d)
  BY <1>6, QuitSteps
<1> QED BY <1>1, <1>2, <1>3, <1>4, <1>5, <1>6

LEMMA InitIInv ==
  ASSUME Init
  PROVE  IInv
<1>1. /\ objects = Preloaded /\ feed = [i \in DOMAIN Preloaded |-> i]
      /\ Preloaded \in Seq([kind : Kind, profile : Profile, key : {Shared}, horizon : {0}])
      /\ Shared \in Key /\ None \notin Key
  BY ConstantAssumption DEF Init, ConstantAssumption, Key
<1>2. /\ Len(objects) \in Nat /\ DOMAIN Preloaded = 1 .. Len(objects)
      /\ feed \in Seq(ObjectId) /\ Len(feed) = Len(objects)
  <2>1. Len(Preloaded) \in Nat /\ DOMAIN Preloaded = 1 .. Len(Preloaded)
    BY <1>1
  <2> QED BY <1>1, <2>1 DEF ObjectId
<1> DEFINE First == [kind : Kind, profile : Profile, key : {Shared}, horizon : {0}]
<1>3. /\ \A o \in ObjectId : objects[o].key = Shared /\ objects[o].horizon = 0
      /\ objects \in Seq(ObjectType)
  <2>1. objects \in Seq(First)
    BY <1>1
  <2>2. (\A x \in First : x.key = Shared /\ x.horizon = 0) /\ First \subseteq ObjectType
    BY <1>1 DEF ObjectType
  <2> HIDE DEF First
  <2>3. \A o \in ObjectId : objects[o] \in First
    BY <2>1 DEF ObjectId
  <2> QED BY <2>1, <2>2, <2>3
<1>4. DOMAIN run = Device /\ \A d \in Device : run[d] = NoRun /\ IsRun(run[d])
  BY NoRunType DEF Init
<1>5. TypeOK
  <2>1. /\ keyring \in [Device -> Key \cup {None}]
        /\ settings \in [Device -> {None, "valid", "refused"}]
        /\ session \in [Device -> [key : Key, endpoint : Endpoint] \cup {None}]
        /\ pc \in [Device -> Step]
        /\ made \subseteq Device /\ dropped \subseteq Key /\ commands \in Nat /\ imports \in Nat
    BY <1>1 DEF Init, Step
  <2>2. saved \in [Device -> [Endpoint -> [Kind ->
                    [object : ObjectId, revision : Nat, base : Key] \cup {None}]]]
    BY DEF Init
  <2> QED BY <1>2, <1>3, <1>4, <2>1, <2>2 DEF TypeOK
<1>6. HorizonInv /\ CopiedOnlyWhenAbsent /\ NeededKeysAreStored
  <2>1. \A p \in ObjectId : 1 .. objects[p].horizon = {}
    BY <1>3
  <2> QED BY <1>2, <1>3, <2>1 DEF HorizonInv, CopiedOnlyWhenAbsent, NeededKeysAreStored
<1>7. ASSUME NEW d \in Device PROVE DeviceInv(d)
  <2>1. /\ pc[d] = "idle" /\ session[d] = None /\ settings[d] = None
        /\ \A e \in Endpoint, k \in Kind : saved[d][e][k] = None
    BY DEF Init
  <2>2. KeyInv(d) /\ FreshInv(d) /\ BookInv(d) /\ LookInv(d) /\ TargetInv(d)
    BY <2>1 DEF KeyInv, FreshInv, BookInv, LookInv, TargetInv
  <2>3. SettingsInv(d)
    BY <2>1, ConstantAssumption DEF SettingsInv, ConstantAssumption
  <2>4. SavedInv(d)
    BY <2>1 DEF SavedInv, Kind
  <2>5. SearchInv(d)
    <3>1. NoRun.horizon = 0 /\ NoRun.candidates = NoCandidates
      BY DEF NoRun, Begun
    <3> QED BY <1>2, <1>4, <2>1, <3>1, NoCandidatesFacts DEF SearchInv
  <2> QED BY <2>2, <2>3, <2>4, <2>5 DEF DeviceInv
<1> QED BY <1>5, <1>6, <1>7 DEF IInv

LEMMA InvariantHolds == Spec => []IInv
<1>1. IInv /\ UNCHANGED vars => IInv'
  <2> SUFFICES ASSUME IInv, UNCHANGED vars PROVE IInv'
    OBVIOUS
  <2>1. UNCHANGED <<objects, feed, keyring, settings, saved, session, pc, run, made, dropped,
                    commands, imports>>
    BY DEF vars, server, disk, history
  <2>2. TypeOK'
    <3>1. \A e \in Device : IsRun(run[e]) => IsRun(run[e])'
      BY <2>1 DEF IsRun, ObjectId
    <3> QED BY <2>1, <3>1 DEF IInv, TypeOK, ObjectId
  <2>3. HorizonInv' /\ NeededKeysAreStored'
    BY <2>1 DEF IInv, HorizonInv, NeededKeysAreStored, ObjectId
  <2>4. CopiedOnlyWhenAbsent'
    BY <2>1 DEF IInv, CopiedOnlyWhenAbsent, Alike, ObjectId
  <2>5. ASSUME NEW d \in Device PROVE DeviceInv(d)'
    <3>1. TypeOK /\ DeviceInv(d) /\ UNCHANGED server
      BY <2>1 DEF IInv, server
    <3> QED BY <2>1, <3>1, GrowsUnchanged, OtherInv
  <2> QED BY <2>2, <2>3, <2>4, <2>5 DEF IInv
<1>2. IInv /\ [Next]_vars => IInv'
  BY <1>1, NextStep
<1> QED BY <1>2, InitIInv, PTL DEF Spec

-----------------------------------------------------------------------------
(***************************************************************************)
(* Theorems                                                                *)
(***************************************************************************)

(* Every variable has its type, whatever the devices, the addresses and    *)
(* the page size, and however many commands run.                           *)
THEOREM TypeCorrect == Spec => []TypeOK
<1>1. IInv => TypeOK
  BY DEF IInv
<1> QED BY <1>1, InvariantHolds, PTL

(* A stored base opens under the key of the object that its mapping names, *)
(* and that object is this profile's and of its kind: persist_sync_state   *)
(* after any discovery, import and sign-in leaves no other pair behind.    *)
THEOREM StoredBasesOpen == Spec => []BaseOpensWithItsObject
<1>1. IInv => BaseOpensWithItsObject
  BY DEF IInv, DeviceInv, SavedInv, BaseOpensWithItsObject
<1> QED BY <1>1, InvariantHolds, PTL

(* The session's key is the one in the secret store, across sign-ins that  *)
(* fail, imports of recovery codes and restarts.                           *)
THEOREM SessionKeyStored == Spec => []SessionKeyIsStored
<1>1. IInv => SessionKeyIsStored
  BY DEF IInv, DeviceInv, KeyInv, SessionKeyIsStored
<1> QED BY <1>1, InvariantHolds, PTL

(* load_or_create_master_key stores a key before anything is encrypted     *)
(* with it: what is on the server can be opened by somebody, unless an     *)
(* import has replaced the key.                                            *)
THEOREM NeededKeysStored == Spec => []NeededKeysAreStored
<1>1. IInv => NeededKeysAreStored
  BY DEF IInv
<1> QED BY <1>1, InvariantHolds, PTL

(* A sign-in that was refused never replaces the last working settings.    *)
THEOREM WorkingSettingsStay == Spec => []SettingsWork
<1>1. IInv => SettingsWork
  BY DEF IInv, DeviceInv, SettingsInv, SettingsWork
<1> QED BY <1>1, InvariantHolds, PTL

(* discover_bookmarks and discover_extension_bundle miss nothing: for any  *)
(* page size and any writes of other devices between the pages, a copy is  *)
(* created only when the feed had none like it when the search began.      *)
THEOREM DiscoveryIsComplete == Spec => []CopiedOnlyWhenAbsent
<1>1. IInv => CopiedOnlyWhenAbsent
  BY DEF IInv
<1> QED BY <1>1, InvariantHolds, PTL

(* What a step writes over is under the key it writes with. *)
LEMMA KeysKeptStep ==
  ASSUME IInv, Next, NEW o \in ObjectId
  PROVE  objects'[o].key = objects[o].key
<1>0. TypeOK
  BY DEF IInv
<1>1. ASSUME NEW d \in Device, Put(d) PROVE objects'[o].key = objects[o].key
  <2>1. DeviceInv(d)
    BY DEF IInv
  <2>2. CASE Create(d)
    <3>1. PICK new : objects' = Append(objects, new)
      BY <2>2 DEF Create
    <3>2. objects'[o] = objects[o]
      BY <1>0, <3>1 DEF TypeOK, ObjectId
    <3> QED BY <3>2
  <2>3. ASSUME NEW version, version.object \in ObjectId, Fits(d, version.object),
               Replace(d, version)
        PROVE  objects'[o].key = objects[o].key
    <3>1. CASE objects' = [objects EXCEPT ![version.object].key = run[d].key]
      <4>1. PICK x \in ObjectId : x = version.object
        BY <2>3
      <4>2. objects[x].key = run[d].key /\ objects' = [objects EXCEPT ![x].key = run[d].key]
        BY <2>3, <3>1, <4>1 DEF Fits
      <4>3. objects[x] \in ObjectType /\ o \in DOMAIN objects
        BY <1>0 DEF TypeOK, ObjectId
      <4>4. CASE o = x
        BY <4>2, <4>3, <4>4 DEF ObjectType
      <4>5. CASE o # x
        BY <4>2, <4>3, <4>5
      <4> QED BY <4>4, <4>5
    <3>2. CASE UNCHANGED server
      BY <3>2 DEF server
    <3> QED BY <2>3, <3>1, <3>2 DEF Replace
  <2>4. CASE pc[d] = "put" /\ run[d].remote # None /\ Replace(d, run[d].remote)
    BY <1>0, <2>1, <2>3, <2>4, PutFits
  <2>5. CASE pc[d] = "locate" /\ Blind(d) /\ Mapping(d) # None /\ Replace(d, Mapping(d))
    BY <1>0, <2>1, <2>3, <2>5, PutFits
  <2> QED BY <1>1, <2>2, <2>4, <2>5 DEF Put
<1>2. ASSUME NEW d \in Device, CommandStep(d) PROVE Put(d) \/ UNCHANGED objects
  <2>1. LoadOrCreateMasterKey(d) \/ Authenticate(d) \/ PersistSettings(d) => UNCHANGED objects
    BY DEF LoadOrCreateMasterKey, Authenticate, PersistSettings, server
  <2>2. FetchMapped(d) \/ NothingSaved(d) \/ ReadPage(d) => UNCHANGED objects
    BY DEF FetchMapped, NothingSaved, ReadPage, server
  <2>3. TryCandidate(d) \/ NothingFound(d) \/ Verify(d) => UNCHANGED objects
    BY DEF TryCandidate, NothingFound, Verify, server
  <2> QED BY <1>2, <2>1, <2>2, <2>3 DEF CommandStep
<1>3. ASSUME NEW d \in Device,
             \/ \E e \in Endpoint, valid \in BOOLEAN : StartConnect(d, e, valid)
             \/ \E c \in {"sync", "save", "load"} : StartCommand(d, c)
             \/ \E k \in made \cup {Shared} : ImportRecoveryCode(d, k)
             \/ FailCommand(d)
             \/ Quit(d)
      PROVE  UNCHANGED objects
  BY <1>3 DEF StartConnect, StartCommand, ImportRecoveryCode, FailCommand, Quit, server
<1> QED BY <1>1, <1>2, <1>3 DEF Next

(* No command replaces what was encrypted under another key, not even the  *)
(* bookmarks that save_profile writes without reading what is there: they  *)
(* follow extensions that were mapped under the key at work.               *)
THEOREM ObjectKeysStay == Spec => ObjectsKeepTheirKey
<1>1. IInv /\ [Next]_vars =>
        [\A o \in ObjectId : objects'[o].key = objects[o].key]_vars
  BY KeysKeptStep
<1> QED BY <1>1, InvariantHolds, PTL DEF Spec, ObjectsKeepTheirKey

(* A command other than one that reads a page is not about to read another. *)
LEMMA ElsewhereStep ==
  ASSUME TypeOK, NEW d \in Device, NEW e \in Device,
         \/ \E a \in Endpoint, valid \in BOOLEAN : StartConnect(d, a, valid)
         \/ \E c \in {"sync", "save", "load"} : StartCommand(d, c)
         \/ \E k \in made \cup {Shared} : ImportRecoveryCode(d, k)
         \/ CommandStep(d) /\ ~ ReadPage(d)
         \/ FailCommand(d)
         \/ Quit(d)
  PROVE  run'[e] = run[e] \/ pc'[e] # "page"
<1>0. DOMAIN run = Device /\ pc \in [Device -> Step]
  BY DEF TypeOK
<1>1. ASSUME NEW s, s # "page", Goto(d, s), NEW r, run' = [run EXCEPT ![d] = r]
      PROVE  run'[e] = run[e] \/ pc'[e] # "page"
  BY <1>0, <1>1 DEF Goto
<1>2. CASE End(d)
  BY <1>0, <1>2 DEF End, Goto
<1>3. CASE UNCHANGED run
  BY <1>3
<1>4. CASE Finish(d)
  BY <1>2, <1>4 DEF Finish
<1>5. ASSUME NEW version, Record(d, version) PROVE run'[e] = run[e] \/ pc'[e] # "page"
  BY <1>0, <1>4, <1>5 DEF Record, Goto
<1>6. ASSUME NEW remote, NEW horizon, ToPut(d, remote, horizon)
      PROVE  run'[e] = run[e] \/ pc'[e] # "page"
  BY <1>0, <1>6 DEF ToPut, Goto
<1>7. ASSUME NEW direction, Transfer(d, direction)
      PROVE  run'[e] = run[e] \/ pc'[e] # "page"
  BY <1>0, <1>7 DEF Transfer, Goto
<1>8. ASSUME NEW remote, Proceed(d, remote) PROVE run'[e] = run[e] \/ pc'[e] # "page"
  BY <1>2, <1>5, <1>6, <1>7, <1>8 DEF Proceed, Reconcile
<1>9. CASE \/ \E a \in Endpoint, valid \in BOOLEAN : StartConnect(d, a, valid)
           \/ \E c \in {"sync", "save", "load"} : StartCommand(d, c)
           \/ \E k \in made \cup {Shared} : ImportRecoveryCode(d, k)
  BY <1>0, <1>3, <1>9 DEF StartConnect, StartCommand, ImportRecoveryCode, Goto
<1>10. CASE LoadOrCreateMasterKey(d)
  BY <1>0, <1>10 DEF LoadOrCreateMasterKey, Goto
<1>11. CASE Authenticate(d) \/ PersistSettings(d)
  BY <1>2, <1>3, <1>4, <1>11 DEF Authenticate, PersistSettings, ForcedDefaultSync
<1>12. CASE NothingSaved(d) \/ FailCommand(d) \/ Quit(d)
  BY <1>2, <1>12 DEF NothingSaved, FailCommand, Quit
<1>13. CASE FetchMapped(d)
  BY <1>2, <1>8, <1>13 DEF FetchMapped
<1>14. CASE TryCandidate(d)
  <2>1. CASE \E o \in DOMAIN run[d].candidates : Proceed(d, Found(o))
    BY <1>8, <2>1
  <2>2. CASE UNCHANGED pc /\ \E c : run' = [run EXCEPT ![d].candidates = c]
    BY <1>0, <1>14, <2>2 DEF TryCandidate
  <2> QED BY <1>14, <2>1, <2>2 DEF TryCandidate
<1>15. CASE NothingFound(d)
  BY <1>2, <1>6, <1>15 DEF NothingFound
<1>16. CASE Put(d)
  BY <1>0, <1>2, <1>16 DEF Put, Create, Replace, Goto
<1>17. CASE Verify(d)
  BY <1>2, <1>5, <1>17 DEF Verify
<1> QED
  BY <1>9, <1>10, <1>11, <1>12, <1>13, <1>14, <1>15, <1>16, <1>17 DEF CommandStep

(* A page that is not the last brings the cursor on. *)
LEMMA CursorStep ==
  ASSUME IInv, Next, NEW e \in Device, run'[e] # run[e], pc'[e] = "page"
  PROVE  run[e].after < run'[e].after /\ run'[e].after < Len(feed)
<1>0. TypeOK
  BY DEF IInv
<1>1. PICK d \in Device : ReadPage(d)
  BY <1>0, ElsewhereStep DEF Next
<1>2. d = e
  BY <1>0, <1>1 DEF ReadPage, TypeOK
<1> DEFINE page == Page(feed, run[e].after, PageLimit)
<1>3. IsRun(run[e]) /\ run[e].after \in Nat /\ feed \in Seq(ObjectId) /\ PageLimit \in Nat \ {0}
  BY <1>0, RunElim, ConstantAssumption DEF TypeOK, ConstantAssumption
<1>4. page.more => run[e].after < page.next /\ page.next < Len(feed)
  BY <1>3, PageFacts
<1>5. /\ pc' = [pc EXCEPT ![e] = IF page.more THEN "page" ELSE "candidate"]
      /\ \E c, h : run' = [run EXCEPT ![e].candidates = c, ![e].horizon = h,
                                      ![e].after = IF page.more THEN page.next ELSE 0]
  BY <1>1, <1>2 DEF ReadPage, Goto
<1> HIDE DEF page
<1>6. page.more
  BY <1>0, <1>5 DEF TypeOK
<1>7. run'[e].after = page.next
  BY <1>0, <1>3, <1>5, <1>6 DEF IsRun, TypeOK
<1> QED BY <1>4, <1>6, <1>7

(* The paging loop of a discovery advances: "server change cursor did not  *)
(* advance" is never reported, for any page size above zero.               *)
THEOREM PagingAdvances == Spec => CursorAdvances
<1>1. IInv /\ [Next]_vars =>
        [\A d \in Device :
           run'[d] # run[d] /\ pc'[d] = "page" =>
             run[d].after < run'[d].after /\ run'[d].after < Len(feed)]_vars
  BY CursorStep
<1> QED BY <1>1, InvariantHolds, PTL DEF Spec, CursorAdvances

=============================================================================
