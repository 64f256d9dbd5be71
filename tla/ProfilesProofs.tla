--------------------------- MODULE ProfilesProofs ---------------------------
(***************************************************************************)
(* Proofs about Profiles, for any number of names, profiles and archives:  *)
(* its types, that a profile the user has not deleted is in one place, that *)
(* archives can be restored from the registry, that a base is only used by *)
(* the profile it belongs to, and that a listing repairs the default.      *)
(***************************************************************************)
EXTENDS Profiles, FiniteSetTheorems, TLAPS

-----------------------------------------------------------------------------
(***************************************************************************)
(* The inductive invariant                                                 *)
(***************************************************************************)

(* A directory holds the profile that was created in it. *)
DirsInv == \A n \in Name : dirs[n] # None => born[dirs[n]] = n

(* What is archived is there once, and not in its directory. *)
StoredInv ==
  \A a \in DOMAIN stored : stored[a] # None =>
    /\ dirs[born[stored[a]]] # stored[a]
    /\ \A b \in DOMAIN stored : stored[b] = stored[a] => b = a

(* A profile that was not deleted is in its directory or archived. *)
KeptInv ==
  \A i \in Profile \ deleted :
    dirs[born[i]] = i \/ \E a \in DOMAIN stored : stored[a] = i

(* A row is the only one of its archive and of its name, and tells the name *)
(* of the profile in the archive.                                          *)
RowsInv ==
  /\ Len(stored) <= MaxArchives
  /\ \A row \in registry :
       /\ row.archive \in DOMAIN stored
       /\ stored[row.archive] # None => born[stored[row.archive]] = row.name
       /\ \A other \in registry :
            other.archive = row.archive \/ other.name = row.name => other = row

(* The command is between the rename of an archiving and its row. *)
Recording == pc["command"] \in {"record", "moveBack"}

RecordingInv ==
  Recording =>
    /\ arg["command"] \in Name
    /\ dirs[arg["command"]] = None
    /\ Len(stored) \in DOMAIN stored
    /\ stored[Len(stored)] # None
    /\ born[stored[Len(stored)]] = arg["command"]
    /\ \A row \in registry : row.archive # Len(stored)

(* What the other commands work on. *)
ForgettingInv ==
  /\ pc["command"] = "forgetRestored" =>
       \E row \in registry :
         row.archive = arg["command"] /\ stored[row.archive] = None /\ dirs[row.name] # None
  /\ pc["command"] = "forgetDeleted" =>
       \E row \in registry :
         row.archive = arg["command"] /\ stored[row.archive] = None

ListingSteps == {"discover", "register", "chooseDefault"}

CommandInv ==
  /\ pc["command"] = "ensure" => arg["command"] \in Name
  /\ \/ pc["command"] = "moveOut"
     \/ pc["command"] \in ListingSteps /\ after["command"] = "moveOut"
     => arg["command"] \in Live

(* What a listing has found, while no other task has moved, is what is there. *)
ReportInv ==
  \A t \in Task :
    /\ pc[t] = "chooseDefault" => report[t] \subseteq known
    /\ pc[t] \in {"register", "chooseDefault"} /\ ~overlapped[t] => report[t] = Live

(* The base under a name is that of the profile which is or was there last, *)
(* also while it is archived, or the name is excused.                      *)
BaseInv(n) ==
  \/ n \in freed
  \/ bases[n] \in unrecorded
  \/ bases[n] = None
  \/ dirs[n] # None /\ bases[n] = dirs[n]
  \/ dirs[n] = None /\ Recording /\ arg["command"] = n /\ bases[n] = stored[Len(stored)]
  \/ /\ dirs[n] = None /\ ~(Recording /\ arg["command"] = n)
     /\ \E row \in registry : row.name = n /\ stored[row.archive] \in {None, bases[n]}

IInv ==
  /\ TypeOK
  /\ DirsInv
  /\ StoredInv
  /\ KeptInv
  /\ RowsInv
  /\ RecordingInv
  /\ ForgettingInv
  /\ CommandInv
  /\ ReportInv
  /\ ArchivedIsRegistered
  /\ \A n \in Name : BaseInv(n)

-----------------------------------------------------------------------------
(***************************************************************************)
(* How a task moves                                                        *)
(***************************************************************************)

(* There are two tasks. *)
LEMMA OtherTask ==
  ASSUME NEW t \in Task
  PROVE  /\ Other(t) \in Task /\ Other(t) # t
         /\ \A u \in Task : u = t \/ u = Other(t)
<1>1. \E o \in Task : o # t
  BY DEF Task
<1>2. PICK o : o = CHOOSE u \in Task : u # t
  OBVIOUS
<1>3. o \in Task /\ o # t
  BY <1>1, <1>2
<1>4. \A u \in Task : u = t \/ u = o
  BY <1>3 DEF Task
<1> QED BY <1>2, <1>3, <1>4 DEF Other

(* The history of overlaps, whichever way a task moves. *)
LEMMA OverlappedFacts ==
  ASSUME TypeOK, NEW t \in Task, NEW v \in BOOLEAN,
         overlapped' = [overlapped EXCEPT ![Other(t)] = TRUE, ![t] = v]
  PROVE  /\ overlapped' \in [Task -> BOOLEAN]
         /\ overlapped'[Other(t)] = TRUE
         /\ overlapped'[t] = v
<1>1. PICK o \in Task : o = Other(t) /\ o # t
  BY OtherTask
<1>2. overlapped' = [overlapped EXCEPT ![o] = TRUE, ![t] = v]
  BY <1>1
<1>3. overlapped \in [Task -> BOOLEAN]
  BY DEF TypeOK
<1>4. overlapped' \in [Task -> BOOLEAN] /\ overlapped'[o] = TRUE /\ overlapped'[t] = v
  BY <1>1, <1>2, <1>3
<1> QED BY <1>1, <1>4

(* A task goes on with its next step. *)
LEMMA GotoFacts ==
  ASSUME TypeOK, NEW t \in Task, NEW step \in Step, Goto(t, step)
  PROVE  /\ pc' \in [Task -> Step]
         /\ pc'[t] = step /\ pc'[Other(t)] = pc[Other(t)]
         /\ overlapped' \in [Task -> BOOLEAN]
         /\ overlapped'[Other(t)]
         /\ step # "discover" /\ ~overlapped'[t] => ~overlapped[t]
<1>1. PICK v \in BOOLEAN : v = (overlapped[t] /\ step # "discover")
  OBVIOUS
<1>2. overlapped' = [overlapped EXCEPT ![Other(t)] = TRUE, ![t] = v]
  <2>1. PICK o \in Task : o = Other(t) /\ o # t
    BY OtherTask
  <2>2. overlapped' = [overlapped EXCEPT ![o] = TRUE, ![t] = @ /\ step # "discover"]
    BY <2>1 DEF Goto
  <2>3. overlapped' = [overlapped EXCEPT ![o] = TRUE, ![t] = v]
    BY <2>1, <2>2, <1>1
  <2> QED BY <2>1, <2>3
<1>3. /\ overlapped' \in [Task -> BOOLEAN]
      /\ overlapped'[Other(t)] = TRUE
      /\ overlapped'[t] = v
  BY <1>2, OverlappedFacts
<1>4. /\ pc' \in [Task -> Step]
      /\ pc'[t] = step /\ pc'[Other(t)] = pc[Other(t)]
  BY OtherTask DEF Goto, TypeOK
<1>5. overlapped'[Other(t)]
  BY <1>3
<1>6. step # "discover" /\ ~overlapped'[t] => ~overlapped[t]
  BY <1>1, <1>3
<1> QED BY <1>3, <1>4, <1>5, <1>6

(* A task begins to list the profiles. *)
LEMMA ListFacts ==
  ASSUME TypeOK, NEW t \in Task, NEW step \in {"idle", "moveOut", "setDefault"}, List(t, step)
  PROVE  /\ pc' \in [Task -> Step]
         /\ pc'[t] = "discover" /\ pc'[Other(t)] = pc[Other(t)]
         /\ overlapped' \in [Task -> BOOLEAN]
         /\ overlapped'[Other(t)]
         /\ after' \in [Task -> {"idle", "moveOut", "setDefault"}]
         /\ after'[t] = step /\ after'[Other(t)] = after[Other(t)]
         /\ report' \in [Task -> SUBSET Name]
         /\ report'[Other(t)] = report[Other(t)]
<1>1. Goto(t, "discover")
  BY DEF List
<1>2. "discover" \in Step
  BY DEF Step
<1>3. /\ after' \in [Task -> {"idle", "moveOut", "setDefault"}]
      /\ after'[t] = step /\ after'[Other(t)] = after[Other(t)]
      /\ report' \in [Task -> SUBSET Name]
      /\ report'[Other(t)] = report[Other(t)]
  BY OtherTask DEF List, TypeOK
<1> QED BY <1>1, <1>2, <1>3, GotoFacts

(* A task ends. *)
LEMMA EndFacts ==
  ASSUME TypeOK, NEW t \in Task, End(t)
  PROVE  /\ pc' \in [Task -> Step]
         /\ pc'[t] = "idle" /\ pc'[Other(t)] = pc[Other(t)]
         /\ overlapped' \in [Task -> BOOLEAN]
         /\ overlapped'[Other(t)]
         /\ arg' \in [Task -> Name \cup DOMAIN stored \cup {None}]
         /\ arg'[Other(t)] = arg[Other(t)]
         /\ after' \in [Task -> {"idle", "moveOut", "setDefault"}]
         /\ after'[t] = "idle" /\ after'[Other(t)] = after[Other(t)]
         /\ report' \in [Task -> SUBSET Name]
         /\ report'[Other(t)] = report[Other(t)]
<1>1. overlapped' = [overlapped EXCEPT ![Other(t)] = TRUE, ![t] = FALSE]
  BY DEF End
<1>2. /\ overlapped' \in [Task -> BOOLEAN]
      /\ overlapped'[Other(t)] = TRUE
  BY <1>1, OverlappedFacts
<1>3. /\ pc' \in [Task -> Step]
      /\ pc'[t] = "idle" /\ pc'[Other(t)] = pc[Other(t)]
  BY OtherTask DEF End, TypeOK, Step
<1>4. /\ arg' \in [Task -> Name \cup DOMAIN stored \cup {None}]
      /\ arg'[Other(t)] = arg[Other(t)]
  BY OtherTask DEF End, TypeOK
<1>5. /\ after' \in [Task -> {"idle", "moveOut", "setDefault"}]
      /\ after'[t] = "idle" /\ after'[Other(t)] = after[Other(t)]
      /\ report' \in [Task -> SUBSET Name]
      /\ report'[Other(t)] = report[Other(t)]
  BY OtherTask DEF End, TypeOK
<1> QED BY <1>2, <1>3, <1>4, <1>5

(* The report of the other task is overlapped, and the mover answers for its *)
(* own.                                                                    *)
LEMMA ReportStays ==
  ASSUME ReportInv, NEW t \in Task,
         pc'[Other(t)] = pc[Other(t)], report'[Other(t)] = report[Other(t)],
         overlapped'[Other(t)], known \subseteq known',
         pc'[t] = "chooseDefault" => report'[t] \subseteq known',
         pc'[t] \in {"register", "chooseDefault"} /\ ~overlapped'[t] => report'[t] = Live'
  PROVE  ReportInv'
<1>1. PICK o \in Task : o = Other(t)
  BY OtherTask
<1>2. ASSUME NEW u \in Task
      PROVE  /\ pc'[u] = "chooseDefault" => report'[u] \subseteq known'
             /\ pc'[u] \in {"register", "chooseDefault"} /\ ~overlapped'[u] => report'[u] = Live'
  <2>1. CASE u = t
    BY <2>1
  <2>2. CASE u = o
    <3>1. overlapped'[u]
      BY <2>2, <1>1
    <3>2. pc[u] = "chooseDefault" => report[u] \subseteq known
      BY DEF ReportInv
    <3>3. pc'[u] = pc[u] /\ report'[u] = report[u]
      BY <2>2, <1>1
    <3>4. pc'[u] = "chooseDefault" => report'[u] \subseteq known'
      BY <3>2, <3>3
    <3> QED BY <3>1, <3>4
  <2> QED BY <2>1, <2>2, <1>1, OtherTask
<1> QED BY <1>2 DEF ReportInv

-----------------------------------------------------------------------------
(***************************************************************************)
(* Steps that move no directory and change no row                          *)
(***************************************************************************)

Forgetting == pc["command"] \in {"forgetRestored", "forgetDeleted"}

(* Nothing is lost or mixed up while only the default, the list of names and *)
(* the places of the tasks in their commands change.                       *)
LEMMA CalmStep ==
  ASSUME IInv, UNCHANGED <<dirs, stored, registry, bases, born, unrecorded, deleted, freed>>,
         TypeOK', CommandInv', ReportInv',
         \/ pc'["command"] = pc["command"] /\ arg'["command"] = arg["command"]
         \/ ~Recording /\ ~Recording' /\ ~Forgetting'
  PROVE  IInv'
<1>1. DirsInv' /\ StoredInv' /\ KeptInv' /\ RowsInv'
  <2>1. DirsInv'
    BY DEF IInv, DirsInv
  <2>2. StoredInv'
    BY DEF IInv, StoredInv
  <2>3. KeptInv'
    BY DEF IInv, KeptInv, Profile
  <2>4. RowsInv'
    BY DEF IInv, RowsInv
  <2> QED BY <2>1, <2>2, <2>3, <2>4
<1>2. CASE pc'["command"] = pc["command"] /\ arg'["command"] = arg["command"]
  <2>1. Recording' = Recording
    BY <1>2 DEF Recording
  <2>2. RecordingInv'
    BY <1>2, <2>1 DEF IInv, RecordingInv
  <2>3. ForgettingInv'
    BY <1>2 DEF IInv, ForgettingInv
  <2>4. ArchivedIsRegistered'
    BY <1>2 DEF IInv, ArchivedIsRegistered
  <2>5. \A n \in Name : BaseInv(n)'
    BY <1>2, <2>1 DEF IInv, BaseInv
  <2> QED BY <1>1, <2>2, <2>3, <2>4, <2>5 DEF IInv
<1>3. CASE ~Recording /\ ~Recording' /\ ~Forgetting'
  <2>1. RecordingInv' /\ ForgettingInv'
    BY <1>3 DEF RecordingInv, ForgettingInv, Forgetting
  <2>2. ArchivedIsRegistered'
    BY <1>3 DEF IInv, ArchivedIsRegistered, Recording
  <2>3. \A n \in Name : BaseInv(n)'
    BY <1>3 DEF IInv, BaseInv
  <2> QED BY <1>1, <2>1, <2>2, <2>3 DEF IInv
<1> QED BY <1>2, <1>3

(* The command's own affairs stay right while the other task moves. *)
LEMMA CommandStays ==
  ASSUME CommandInv, UNCHANGED dirs, pc'["command"] = pc["command"],
         arg'["command"] = arg["command"], after'["command"] = after["command"]
  PROVE  CommandInv'
BY DEF CommandInv, Live

(* The two tasks by their names. *)
LEMMA TaskNames ==
  /\ "command" \in Task /\ "view" \in Task
  /\ Other("command") = "view" /\ Other("view") = "command"
  /\ \A t \in Task : t = "command" \/ t = "view"
<1>1. "command" \in Task /\ "view" \in Task
  BY DEF Task
<1>2. Other("command") \in Task /\ Other("command") # "command"
  BY <1>1, OtherTask
<1>3. Other("view") \in Task /\ Other("view") # "view"
  BY <1>1, OtherTask
<1> QED BY <1>1, <1>2, <1>3 DEF Task

(* The types of what a calm step changes make up those of the whole state. *)
LEMMA CalmTypes ==
  ASSUME TypeOK, UNCHANGED <<dirs, stored, registry, bases, born, unrecorded, deleted, freed>>,
         known' \subseteq Name, default' \in known' \cup {None},
         pc' \in [Task -> Step],
         arg' \in [Task -> Name \cup DOMAIN stored \cup {None}],
         report' \in [Task -> SUBSET Name],
         after' \in [Task -> {"idle", "moveOut", "setDefault"}],
         overlapped' \in [Task -> BOOLEAN]
  PROVE  TypeOK'
BY DEF TypeOK, Profile

(* A task that ends, where nothing is left half done. *)
LEMMA EndCalm ==
  ASSUME IInv, NEW t \in Task, End(t), t = "command" => ~Recording,
         known \subseteq known', known' \subseteq Name, default' \in known' \cup {None},
         UNCHANGED <<dirs, stored, registry, bases, born, unrecorded, deleted, freed>>
  PROVE  IInv'
<1>1. TypeOK'
  BY EndFacts, CalmTypes DEF IInv
<1>2. ReportInv'
  BY EndFacts, ReportStays DEF IInv
<1>3. CASE t = "view"
  <2>1. /\ pc'["command"] = pc["command"] /\ arg'["command"] = arg["command"]
        /\ after'["command"] = after["command"]
    BY <1>3, EndFacts, TaskNames DEF IInv
  <2>2. CommandInv'
    BY <2>1, CommandStays DEF IInv
  <2> QED BY <1>1, <1>2, <2>1, <2>2, CalmStep
<1>4. CASE t = "command"
  <2>1. pc'["command"] = "idle"
    BY <1>4, EndFacts DEF IInv
  <2>2. CommandInv' /\ ~Recording' /\ ~Forgetting'
    BY <2>1 DEF CommandInv, Recording, Forgetting, ListingSteps
  <2> QED BY <1>1, <1>2, <1>4, <2>2, CalmStep
<1> QED BY <1>3, <1>4, TaskNames

(* A task that begins to list the profiles, where nothing is left half done. *)
LEMMA ListCalm ==
  ASSUME IInv, NEW t \in Task, NEW step \in {"idle", "moveOut", "setDefault"}, List(t, step),
         t = "command" => ~Recording /\ (step = "moveOut" => arg'["command"] \in Live),
         arg' \in [Task -> Name \cup DOMAIN stored \cup {None}],
         arg'[Other(t)] = arg[Other(t)],
         known \subseteq known', known' \subseteq Name, default' \in known' \cup {None},
         UNCHANGED <<dirs, stored, registry, bases, born, unrecorded, deleted, freed>>
  PROVE  IInv'
<1>1. TypeOK'
  BY ListFacts, CalmTypes DEF IInv
<1>2. ReportInv'
  BY ListFacts, ReportStays DEF IInv
<1>3. CASE t = "view"
  <2>1. /\ pc'["command"] = pc["command"] /\ arg'["command"] = arg["command"]
        /\ after'["command"] = after["command"]
    BY <1>3, ListFacts, TaskNames DEF IInv
  <2>2. CommandInv'
    BY <2>1, CommandStays DEF IInv
  <2> QED BY <1>1, <1>2, <2>1, <2>2, CalmStep
<1>4. CASE t = "command"
  <2>1. pc'["command"] = "discover" /\ after'["command"] = step /\ Live' = Live
    BY <1>4, ListFacts DEF IInv, Live
  <2>2. CommandInv' /\ ~Recording' /\ ~Forgetting'
    BY <1>4, <2>1 DEF CommandInv, Recording, Forgetting, ListingSteps
  <2> QED BY <1>1, <1>2, <1>4, <2>2, CalmStep
<1> QED BY <1>3, <1>4, TaskNames

(* A task that goes on with step inside its command. *)
LEMMA GotoCalm ==
  ASSUME IInv, NEW t \in Task, NEW step \in Step, Goto(t, step),
         pc[t] \in ListingSteps, step \in {"chooseDefault", "moveOut", "setDefault"},
         step = "moveOut" => after[t] = "moveOut",
         step = "chooseDefault" => pc[t] = "register" /\ report[t] \subseteq known',
         known \subseteq known', known' \subseteq Name, default' \in known' \cup {None},
         UNCHANGED <<dirs, stored, registry, bases, born, unrecorded, deleted, freed,
                     arg, report, after>>
  PROVE  IInv'
<1>1. TypeOK'
  BY GotoFacts, CalmTypes DEF IInv, TypeOK
<1>2. /\ pc'[t] = step /\ pc'[Other(t)] = pc[Other(t)]
      /\ overlapped'[Other(t)]
      /\ ~overlapped'[t] => ~overlapped[t]
      /\ Live' = Live
  BY GotoFacts DEF IInv, Live
<1>3. pc'[t] \in {"register", "chooseDefault"} /\ ~overlapped'[t] => report'[t] = Live'
  BY <1>2 DEF IInv, ReportInv
<1>4. ReportInv'
  BY <1>2, <1>3, ReportStays DEF IInv
<1>5. CASE t = "view"
  <2>1. pc'["command"] = pc["command"]
    BY <1>2, <1>5, TaskNames
  <2>2. CommandInv'
    BY <2>1, CommandStays DEF IInv
  <2> QED BY <1>1, <1>4, <2>1, <2>2, CalmStep
<1>6. CASE t = "command"
  <2>1. CommandInv' /\ ~Recording' /\ ~Forgetting' /\ ~Recording
    BY <1>2, <1>6 DEF IInv, CommandInv, Recording, Forgetting, ListingSteps
  <2> QED BY <1>1, <1>4, <2>1, CalmStep
<1> QED BY <1>5, <1>6, TaskNames

(* Discover: what is found is what is there. *)
LEMMA DiscoverKeeps ==
  ASSUME IInv, NEW t \in Task, Discover(t)
  PROVE  IInv'
<1>1. /\ pc[t] = "discover"
      /\ report' = [report EXCEPT ![t] = Live]
      /\ pc' = [pc EXCEPT ![t] = "register"]
      /\ overlapped' = [overlapped EXCEPT ![Other(t)] = TRUE, ![t] = FALSE]
      /\ UNCHANGED <<dirs, stored, registry, known, default, bases, arg, after,
                     born, unrecorded, deleted, freed>>
  BY DEF Discover, database, files, histories
<1>2. overlapped' \in [Task -> BOOLEAN] /\ overlapped'[Other(t)]
  BY <1>1, OverlappedFacts DEF IInv
<1>3. /\ pc' \in [Task -> Step] /\ report' \in [Task -> SUBSET Name]
      /\ pc'[t] = "register" /\ pc'[Other(t)] = pc[Other(t)]
      /\ report'[t] = Live /\ report'[Other(t)] = report[Other(t)]
      /\ Live' = Live
  BY <1>1, OtherTask DEF IInv, TypeOK, Step, Live
<1>4. TypeOK'
  BY <1>1, <1>2, <1>3, CalmTypes DEF IInv, TypeOK
<1>5. ReportInv'
  BY <1>1, <1>2, <1>3, ReportStays DEF IInv
<1>6. CASE t = "view"
  <2>1. pc'["command"] = pc["command"]
    BY <1>3, <1>6, TaskNames
  <2>2. CommandInv'
    BY <2>1, <1>1, CommandStays DEF IInv
  <2> QED BY <1>1, <1>4, <1>5, <2>1, <2>2, CalmStep
<1>7. CASE t = "command"
  <2>1. CommandInv' /\ ~Recording' /\ ~Forgetting' /\ ~Recording
    BY <1>1, <1>3, <1>7 DEF IInv, CommandInv, Recording, Forgetting, ListingSteps
  <2> QED BY <1>1, <1>4, <1>5, <2>1, CalmStep
<1> QED BY <1>6, <1>7, TaskNames

(* Continue: the listing is over. *)
LEMMA ContinueKeeps ==
  ASSUME IInv, NEW t \in Task, Continue(t), pc[t] \in ListingSteps,
         known \subseteq known', known' \subseteq Name, default' \in known' \cup {None},
         UNCHANGED <<dirs, stored, registry, bases, born, unrecorded, deleted, freed>>
  PROVE  IInv'
<1>1. CASE after[t] = "idle"
  BY <1>1, EndCalm DEF Continue, Recording, ListingSteps
<1>2. CASE after[t] # "idle"
  <2>1. PICK step \in {"moveOut", "setDefault"} : step = after[t]
    BY <1>2 DEF IInv, TypeOK
  <2>2. Goto(t, step) /\ UNCHANGED <<arg, report, after>>
    BY <1>2, <2>1 DEF Continue
  <2>3. step \in Step
    BY DEF Step
  <2> QED BY <2>1, <2>2, <2>3, GotoCalm
<1> QED BY <1>1, <1>2

(* Register: every profile found has a row. *)
LEMMA RegisterKeeps ==
  ASSUME IInv, NEW t \in Task, Register(t)
  PROVE  IInv'
<1>1. /\ pc[t] = "register" /\ known' = known \cup report[t]
      /\ UNCHANGED <<dirs, stored, registry, default, bases, born, unrecorded, deleted, freed>>
  BY DEF Register, files, histories
<1>2. /\ known \subseteq known' /\ known' \subseteq Name /\ default' \in known' \cup {None}
      /\ report[t] \subseteq known'
  BY <1>1 DEF IInv, TypeOK
<1>3. CASE Continue(t)
  BY <1>1, <1>2, <1>3, ContinueKeeps DEF ListingSteps
<1>4. CASE Goto(t, "chooseDefault") /\ UNCHANGED <<arg, report, after>>
  <2>1. "chooseDefault" \in Step
    BY DEF Step
  <2> QED BY <1>1, <1>2, <1>4, <2>1, GotoCalm DEF ListingSteps
<1> QED BY <1>3, <1>4 DEF Register

(* ChooseDefault: the first profile found has a row. *)
LEMMA ChooseDefaultKeeps ==
  ASSUME IInv, NEW t \in Task, ChooseDefault(t)
  PROVE  IInv'
<1>1. /\ pc[t] = "chooseDefault" /\ default' \in report[t] /\ Continue(t)
      /\ UNCHANGED <<dirs, stored, registry, known, bases, born, unrecorded, deleted, freed>>
  BY DEF ChooseDefault, files, histories
<1>2. report[t] \subseteq known
  BY <1>1 DEF IInv, ReportInv
<1> QED BY <1>1, <1>2, ContinueKeeps DEF IInv, TypeOK, ListingSteps

(* SetDefault: only a name that has a row becomes the default. *)
LEMMA SetDefaultKeeps ==
  ASSUME IInv, NEW t \in Task, SetDefault(t)
  PROVE  IInv'
<1>1. /\ pc[t] = "setDefault"
      /\ UNCHANGED <<dirs, stored, registry, known, bases, born, unrecorded, deleted, freed>>
  BY DEF SetDefault, files, histories
<1>2. t = "command" => ~Recording
  BY <1>1 DEF Recording
<1>3. known \subseteq known' /\ known' \subseteq Name
  BY <1>1 DEF IInv, TypeOK
<1>4. CASE arg[t] \in known /\ default' = arg[t] /\ List(t, "idle") /\ UNCHANGED arg
  <2>1. default' \in known' \cup {None} /\ arg' \in [Task -> Name \cup DOMAIN stored \cup {None}]
    BY <1>1, <1>4 DEF IInv, TypeOK
  <2> QED BY <2>1, <1>1, <1>2, <1>3, <1>4, ListCalm
<1>5. CASE End(t) /\ UNCHANGED default
  BY <1>1, <1>2, <1>3, <1>5, EndCalm DEF IInv, TypeOK
<1> QED BY <1>4, <1>5 DEF SetDefault

(* ListingFails: the task ends. *)
LEMMA ListingFailsKeeps ==
  ASSUME IInv, NEW t \in Task, ListingFails(t)
  PROVE  IInv'
<1>1. /\ pc[t] \in {"discover", "register", "chooseDefault", "setDefault"} /\ End(t)
      /\ UNCHANGED <<dirs, stored, registry, known, default, bases,
                     born, unrecorded, deleted, freed>>
  BY DEF ListingFails, database, files, histories
<1> QED BY <1>1, EndCalm DEF Recording, IInv, TypeOK

(* A new task may work on a name, on an archive or on nothing. *)
LEMMA BeginFacts ==
  ASSUME TypeOK, NEW t \in Task, NEW x \in Name \cup DOMAIN stored \cup {None}, Begin(t, x)
  PROVE  /\ pc[t] = "idle"
         /\ arg' \in [Task -> Name \cup DOMAIN stored \cup {None}]
         /\ arg'[t] = x /\ arg'[Other(t)] = arg[Other(t)]
BY OtherTask DEF Begin, TypeOK

(* View, BeginSetDefault, BeginArchive: the profiles are listed first. *)
LEMMA BeginListKeeps ==
  ASSUME IInv, NEW t \in Task, NEW x \in Name \cup {None}, Begin(t, x),
         NEW step \in {"idle", "moveOut", "setDefault"}, List(t, step),
         step = "moveOut" => x \in Live,
         UNCHANGED <<database, files, histories>>
  PROVE  IInv'
<1>1. /\ pc[t] = "idle"
      /\ arg' \in [Task -> Name \cup DOMAIN stored \cup {None}]
      /\ arg'[t] = x /\ arg'[Other(t)] = arg[Other(t)]
  BY BeginFacts DEF IInv
<1>2. UNCHANGED <<dirs, stored, registry, known, default, bases, born, unrecorded, deleted, freed>>
  BY DEF database, files, histories
<1>3. known' \subseteq Name /\ default' \in known' \cup {None}
  BY <1>2 DEF IInv, TypeOK
<1> QED BY <1>1, <1>2, <1>3, ListCalm DEF Recording

(* EnsureProfile: the new directory has a row, or the command ends. *)
LEMMA EnsureProfileKeeps == ASSUME IInv, EnsureProfile PROVE IInv'
<1>1. /\ pc["command"] = "ensure" /\ "command" \in Task
      /\ UNCHANGED <<dirs, stored, registry, default, bases, born, unrecorded, deleted, freed>>
  BY TaskNames DEF EnsureProfile, files, histories
<1>2. arg["command"] \in Name
  BY <1>1 DEF IInv, CommandInv
<1>3. CASE known' = known \cup {arg["command"]} /\ List("command", "idle") /\ UNCHANGED arg
  <2>1. /\ known \subseteq known' /\ known' \subseteq Name /\ default' \in known' \cup {None}
        /\ arg' \in [Task -> Name \cup DOMAIN stored \cup {None}]
    BY <1>1, <1>2, <1>3 DEF IInv, TypeOK
  <2> QED BY <2>1, <1>1, <1>3, ListCalm DEF Recording
<1>4. CASE End("command") /\ UNCHANGED known
  BY <1>1, <1>4, EndCalm DEF Recording, IInv, TypeOK
<1> QED BY <1>3, <1>4 DEF EnsureProfile

-----------------------------------------------------------------------------
(***************************************************************************)
(* Steps that move directories or change rows                              *)
(***************************************************************************)

(* What the types say of profiles, directories and archives. *)
LEMMA PlaceFacts ==
  ASSUME TypeOK
  PROVE  /\ DOMAIN born = 1 .. Len(born) /\ Len(born) \in Nat
         /\ DOMAIN stored = 1 .. Len(stored) /\ Len(stored) \in Nat
         /\ \A i \in Profile : born[i] \in Name /\ i # None
         /\ \A n \in Name : dirs[n] # None => dirs[n] \in Profile
         /\ \A a \in DOMAIN stored : stored[a] # None => stored[a] \in Profile
<1>1. DOMAIN born = 1 .. Len(born) /\ Len(born) \in Nat /\ \A i \in DOMAIN born : born[i] \in Name
  BY DEF TypeOK
<1>2. PICK S : S = Profile \cup {None}
  OBVIOUS
<1>3. stored \in Seq(S)
  BY <1>2 DEF TypeOK
<1>4. DOMAIN stored = 1 .. Len(stored) /\ Len(stored) \in Nat
      /\ \A a \in DOMAIN stored : stored[a] \in S
  BY <1>3
<1>5. \A i \in Profile : i # None
  BY <1>1, ProfilesAssumption DEF Profile
<1> QED BY <1>1, <1>2, <1>4, <1>5 DEF TypeOK, Profile

(* Appending adds one element and moves none. *)
LEMMA AppendFacts ==
  ASSUME NEW S, NEW s \in Seq(S), NEW e \in S
  PROVE  /\ Append(s, e) \in Seq(S)
         /\ Len(Append(s, e)) = Len(s) + 1
         /\ DOMAIN Append(s, e) = 1 .. Len(s) + 1
         /\ DOMAIN s = 1 .. Len(s)
         /\ Len(s) \in Nat
         /\ \A i \in DOMAIN s : Append(s, e)[i] = s[i]
         /\ Append(s, e)[Len(s) + 1] = e
<1>1. Append(s, e) \in Seq(S)
  OBVIOUS
<1>2. Len(Append(s, e)) = Len(s) + 1 /\ DOMAIN s = 1 .. Len(s) /\ Len(s) \in Nat
  OBVIOUS
<1>3. DOMAIN Append(s, e) = 1 .. Len(s) + 1
  BY <1>1, <1>2
<1>4. \A i \in DOMAIN s : Append(s, e)[i] = s[i]
  BY <1>2
<1>5. Append(s, e)[Len(s) + 1] = e
  BY <1>2
<1> QED BY <1>1, <1>2, <1>3, <1>4, <1>5

(* The listing of the other task is overlapped by a step of the command. *)
LEMMA CommandReport ==
  ASSUME ReportInv, pc'["view"] = pc["view"], report'["view"] = report["view"],
         overlapped'["view"], known \subseteq known',
         pc'["command"] \notin {"register", "chooseDefault"}
  PROVE  ReportInv'
BY TaskNames, ReportStays

(* CreateProfile: a new profile in a directory that was free and not reserved. *)
LEMMA CreateProfileKeeps ==
  ASSUME IInv, NEW n \in Name, CreateProfile(n)
  PROVE  IInv'
<1>1. /\ pc["command"] = "idle" /\ "command" \in Task
      /\ n \notin Reserved /\ dirs[n] = None
      /\ born' = Append(born, n)
      /\ dirs' = [dirs EXCEPT ![n] = Len(born) + 1]
      /\ Begin("command", n) /\ Goto("command", "ensure")
      /\ UNCHANGED <<stored, registry, known, default, bases, report, after,
                     unrecorded, deleted, freed>>
  BY TaskNames DEF CreateProfile, Locked, Live, database
<1>2. PICK p : p = Len(born) + 1
  OBVIOUS
<1>3. /\ born' \in Seq(Name) /\ DOMAIN born' = 1 .. Len(born) + 1
      /\ DOMAIN born = 1 .. Len(born) /\ Len(born) \in Nat
      /\ \A i \in DOMAIN born : born'[i] = born[i]
      /\ born'[p] = n
  BY <1>1, <1>2, AppendFacts DEF IInv, TypeOK
<1>4. /\ p \in Profile' /\ p \notin Profile /\ Profile \subseteq Profile'
      /\ \A i \in Profile' : i = p \/ i \in Profile
      /\ p # None
  BY <1>2, <1>3, ProfilesAssumption DEF Profile
<1>5. /\ dirs'[n] = p
      /\ \A m \in Name \ {n} : dirs'[m] = dirs[m]
      /\ dirs' \in [Name -> Profile' \cup {None}]
  BY <1>1, <1>2, <1>4 DEF IInv, TypeOK
<1>6. /\ pc' \in [Task -> Step] /\ pc'["command"] = "ensure" /\ pc'["view"] = pc["view"]
      /\ overlapped' \in [Task -> BOOLEAN] /\ overlapped'["view"]
      /\ arg' \in [Task -> Name \cup DOMAIN stored \cup {None}] /\ arg'["command"] = n
  BY <1>1, GotoFacts, BeginFacts, TaskNames DEF IInv, Step
<1>7. TypeOK'
  <2>1. stored' \in Seq(Profile' \cup {None})
    <3>1. stored \in Seq(Profile \cup {None}) /\ Profile \cup {None} \subseteq Profile' \cup {None}
      BY <1>4 DEF IInv, TypeOK
    <3>2. PICK S, T : S = Profile \cup {None} /\ T = Profile' \cup {None}
      OBVIOUS
    <3>3. stored \in Seq(T)
      BY <3>1, <3>2
    <3> QED BY <3>2, <3>3, <1>1
  <2>2. bases' \in [Name -> Profile' \cup {None}]
    BY <1>1, <1>4 DEF IInv, TypeOK
  <2>3. /\ unrecorded' \subseteq Profile' /\ deleted' \subseteq Profile'
    BY <1>1, <1>4 DEF IInv, TypeOK
  <2> QED BY <2>1, <2>2, <2>3, <1>1, <1>3, <1>5, <1>6 DEF IInv, TypeOK
<1>8. /\ \A i \in Profile : born[i] \in Name /\ i # None
      /\ \A m \in Name : dirs[m] # None => dirs[m] \in Profile
      /\ \A a \in DOMAIN stored : stored[a] # None => stored[a] \in Profile
  BY PlaceFacts DEF IInv
<1>9. \A i \in Profile : born'[i] = born[i]
  BY <1>3 DEF Profile
<1>10. DirsInv'
  BY <1>3, <1>5, <1>8, <1>9 DEF IInv, DirsInv
<1>11. StoredInv'
  <2>1. ASSUME NEW a \in DOMAIN stored, stored[a] # None
        PROVE  /\ dirs'[born'[stored[a]]] # stored[a]
               /\ \A b \in DOMAIN stored : stored[b] = stored[a] => b = a
    <3>1. PICK i \in Profile : i = stored[a]
      BY <2>1, <1>8
    <3>2. dirs[born[i]] # i /\ \A b \in DOMAIN stored : stored[b] = i => b = a
      BY <2>1, <3>1 DEF IInv, StoredInv
    <3>3. born'[i] = born[i] /\ born[i] \in Name /\ i # p
      BY <1>4, <1>8, <1>9
    <3>4. dirs'[born[i]] # i
      BY <3>2, <3>3, <1>5
    <3> QED BY <3>1, <3>2, <3>3, <3>4
  <2> QED BY <2>1, <1>1 DEF StoredInv
<1>12. KeptInv'
  <2>1. ASSUME NEW i \in Profile \ deleted
        PROVE  dirs'[born'[i]] = i \/ \E a \in DOMAIN stored : stored[a] = i
    <3>1. CASE dirs[born[i]] = i
      <4>1. born'[i] = born[i] /\ born[i] \in Name /\ born[i] # n
        BY <3>1, <1>1, <1>8, <1>9
      <4> QED BY <3>1, <4>1, <1>5
    <3>2. CASE \E a \in DOMAIN stored : stored[a] = i
      BY <3>2
    <3> QED BY <3>1, <3>2 DEF IInv, KeptInv
  <2>2. dirs'[born'[p]] = p
    BY <1>3, <1>5
  <2> QED BY <2>1, <2>2, <1>1, <1>4 DEF KeptInv
<1>13. RowsInv'
  BY <1>1, <1>8, <1>9 DEF IInv, RowsInv
<1>14. RecordingInv' /\ ForgettingInv' /\ CommandInv'
  BY <1>6 DEF RecordingInv, Recording, ForgettingInv, CommandInv, ListingSteps
<1>15. ReportInv'
  BY <1>1, <1>6, CommandReport DEF IInv
<1>16. ArchivedIsRegistered'
  BY <1>1, <1>8, <1>9 DEF IInv, ArchivedIsRegistered
<1>17. ~Recording /\ ~Recording'
  BY <1>1, <1>6 DEF Recording
<1>18. ASSUME NEW m \in Name PROVE BaseInv(m)'
  <2>1. CASE m = n
    <3>1. \A row \in registry : row.name # n
      BY <1>1 DEF Reserved
    <3> QED BY <2>1, <3>1, <1>1, <1>17 DEF IInv, BaseInv
  <2>2. CASE m # n
    BY <2>2, <1>1, <1>5, <1>17 DEF IInv, BaseInv
  <2> QED BY <2>1, <2>2
<1> QED BY <1>7, <1>10, <1>11, <1>12, <1>13, <1>14, <1>15, <1>16, <1>18 DEF IInv

(* Sync: the base under the name of a directory becomes that of its profile. *)
LEMMA SyncKeeps ==
  ASSUME IInv, NEW n \in Name, Sync(n)
  PROVE  IInv'
<1>1. /\ dirs[n] # None
      /\ bases' = [bases EXCEPT ![n] = dirs[n]]
      /\ UNCHANGED <<dirs, stored, registry, known, default, pc, arg, report, after, overlapped,
                     born, unrecorded, deleted, freed>>
  BY DEF Sync, Live, files, tasks, histories
<1>2. TypeOK'
  BY <1>1 DEF IInv, TypeOK, Profile
<1>3. DirsInv' /\ StoredInv'
  BY <1>1 DEF IInv, DirsInv, StoredInv
<1>4. KeptInv' /\ RowsInv'
  BY <1>1 DEF IInv, KeptInv, RowsInv, Profile
<1>5. RecordingInv' /\ ForgettingInv' /\ CommandInv'
  BY <1>1 DEF IInv, RecordingInv, Recording, ForgettingInv, CommandInv, Live
<1>6. ReportInv' /\ ArchivedIsRegistered'
  BY <1>1 DEF IInv, ReportInv, ArchivedIsRegistered, Live
<1>7. ASSUME NEW m \in Name PROVE BaseInv(m)'
  <2>1. CASE m = n
    BY <2>1, <1>1 DEF IInv, TypeOK, BaseInv
  <2>2. CASE m # n
    <3>1. bases'[m] = bases[m]
      BY <2>2, <1>1 DEF IInv, TypeOK
    <3> QED BY <3>1, <1>1 DEF IInv, BaseInv, Recording
  <2> QED BY <2>1, <2>2
<1> QED BY <1>2, <1>3, <1>4, <1>5, <1>6, <1>7 DEF IInv

(* MoveOut: the directory becomes the newest archive, without a row yet. *)
LEMMA MoveOutKeeps == ASSUME IInv, MoveOut PROVE IInv'
<1>1. pc["command"] = "moveOut" /\ "command" \in Task
      /\ UNCHANGED <<registry, known, default, bases, born, unrecorded, deleted, freed>>
  BY TaskNames DEF MoveOut, database, histories
<1>2. CASE End("command") /\ UNCHANGED files
  BY <1>1, <1>2, EndCalm DEF Recording, IInv, TypeOK, files
<1>3. CASE /\ Len(stored) < MaxArchives
           /\ stored' = Append(stored, dirs[arg["command"]])
           /\ dirs' = [dirs EXCEPT ![arg["command"]] = None]
           /\ Goto("command", "record")
           /\ UNCHANGED <<arg, report, after>>
  <2>1. PICK x \in Name : x = arg["command"] /\ dirs[x] # None
    BY <1>1 DEF IInv, CommandInv, Live
  <2>2. PICK p \in Profile : p = dirs[x] /\ born[p] = x /\ p # None
    BY <2>1, PlaceFacts DEF IInv, DirsInv
  <2>3. PICK k : k = Len(stored) + 1
    OBVIOUS
  <2>4. PICK S : S = Profile \cup {None}
    OBVIOUS
  <2>5. stored \in Seq(S) /\ p \in S
    BY <2>4 DEF IInv, TypeOK
  <2>6. stored' = Append(stored, p)
    BY <1>3, <2>1, <2>2
  <2>7. /\ stored' \in Seq(S) /\ Len(stored') = k /\ DOMAIN stored' = 1 .. k
        /\ DOMAIN stored = 1 .. Len(stored) /\ Len(stored) \in Nat
        /\ \A a \in DOMAIN stored : stored'[a] = stored[a]
        /\ stored'[k] = p
    BY <2>3, <2>5, <2>6, AppendFacts
  <2>8. /\ k \in DOMAIN stored' /\ k \notin DOMAIN stored /\ DOMAIN stored \subseteq DOMAIN stored'
        /\ \A a \in DOMAIN stored' : a = k \/ a \in DOMAIN stored
        /\ k <= MaxArchives
    BY <1>3, <2>3, <2>7, ProfilesAssumption
  <2>9. /\ dirs'[x] = None
        /\ \A n \in Name \ {x} : dirs'[n] = dirs[n]
        /\ dirs' \in [Name -> Profile \cup {None}]
    BY <1>3, <2>1 DEF IInv, TypeOK
  <2>10. /\ pc' \in [Task -> Step] /\ pc'["command"] = "record" /\ pc'["view"] = pc["view"]
         /\ overlapped' \in [Task -> BOOLEAN] /\ overlapped'["view"]
    BY <1>1, <1>3, GotoFacts, TaskNames DEF IInv, Step
  <2>11. TypeOK'
    <3>1. arg' \in [Task -> Name \cup DOMAIN stored' \cup {None}]
      BY <1>3, <2>8 DEF IInv, TypeOK
    <3>2. stored' \in Seq(Profile' \cup {None})
      BY <1>1, <2>4, <2>7 DEF Profile
    <3> QED BY <1>1, <1>3, <2>9, <2>10, <3>1, <3>2 DEF IInv, TypeOK, Profile
  <2>12. \A a \in DOMAIN stored : stored[a] # None => stored[a] \in Profile /\ born[stored[a]] \in Name
    BY PlaceFacts DEF IInv
  <2>13. DirsInv'
    BY <1>1, <2>9 DEF IInv, DirsInv
  <2>14. StoredInv'
    <3>1. ASSUME NEW a \in DOMAIN stored', stored'[a] # None
          PROVE  dirs'[born[stored'[a]]] # stored'[a]
      <4>1. CASE a = k
        BY <4>1, <2>2, <2>7, <2>9
      <4>2. CASE a \in DOMAIN stored
        <5>1. stored'[a] = stored[a] /\ born[stored[a]] \in Name
              /\ dirs[born[stored[a]]] # stored[a]
          BY <3>1, <4>2, <2>7, <2>12 DEF IInv, StoredInv
        <5> QED BY <5>1, <3>1, <2>9
      <4> QED BY <4>1, <4>2, <2>8
    <3>2. \A b \in DOMAIN stored : stored[b] # p
      BY <2>2 DEF IInv, StoredInv
    <3>3. ASSUME NEW a \in DOMAIN stored', stored'[a] # None,
                 NEW b \in DOMAIN stored', stored'[b] = stored'[a]
          PROVE  b = a
      <4>1. CASE a \in DOMAIN stored /\ b \in DOMAIN stored
        BY <3>3, <4>1, <2>7 DEF IInv, StoredInv
      <4> QED BY <4>1, <3>2, <3>3, <2>7, <2>8
    <3> QED BY <3>1, <3>3, <1>1 DEF StoredInv
  <2>15. KeptInv'
    <3>1. ASSUME NEW i \in Profile \ deleted
          PROVE  dirs'[born[i]] = i \/ \E a \in DOMAIN stored' : stored'[a] = i
      <4>1. CASE i = p
        BY <4>1, <2>7, <2>8
      <4>2. CASE i # p /\ dirs[born[i]] = i
        <5>1. born[i] \in Name /\ born[i] # x
          BY <4>2, <2>2, PlaceFacts DEF IInv
        <5> QED BY <5>1, <4>2, <2>9
      <4>3. CASE \E a \in DOMAIN stored : stored[a] = i
        BY <4>3, <2>7, <2>8
      <4> QED BY <4>1, <4>2, <4>3 DEF IInv, KeptInv
    <3> QED BY <3>1, <1>1 DEF KeptInv, Profile
  <2>16. RowsInv'
    BY <1>1, <2>7, <2>8 DEF IInv, RowsInv
  <2>17. RecordingInv'
    BY <1>1, <1>3, <2>1, <2>2, <2>7, <2>8, <2>9 DEF IInv, RowsInv, RecordingInv
  <2>18. ForgettingInv' /\ CommandInv'
    BY <2>10 DEF ForgettingInv, CommandInv, ListingSteps
  <2>19. ReportInv'
    BY <1>1, <1>3, <2>10, CommandReport DEF IInv
  <2>20. ArchivedIsRegistered'
    <3>1. ASSUME NEW a \in DOMAIN stored', stored'[a] # None
          PROVE  \/ [archive |-> a, name |-> born[stored'[a]]] \in registry
                 \/ stored'[a] \in unrecorded
                 \/ a = Len(stored')
      <4>1. CASE a = k
        BY <4>1, <2>7
      <4>2. CASE a \in DOMAIN stored
        BY <3>1, <4>2, <1>1, <2>7 DEF IInv, ArchivedIsRegistered
      <4> QED BY <4>1, <4>2, <2>8
    <3> QED BY <3>1, <1>1, <2>10 DEF ArchivedIsRegistered
  <2>21. ~Recording /\ Recording' /\ arg' = arg
    BY <1>1, <1>3, <2>10 DEF Recording
  <2>22. ASSUME NEW n \in Name PROVE BaseInv(n)'
    <3>1. CASE n = x
      BY <3>1, <1>1, <2>1, <2>2, <2>7, <2>9, <2>21 DEF IInv, BaseInv
    <3>2. CASE n # x
      <4>1. dirs'[n] = dirs[n] /\ arg'["command"] # n
        BY <3>2, <2>1, <2>9, <2>21
      <4>2. \A row \in registry : stored'[row.archive] = stored[row.archive]
        BY <2>7 DEF IInv, RowsInv
      <4> QED BY <4>1, <4>2, <1>1, <2>21 DEF IInv, BaseInv
    <3> QED BY <3>1, <3>2
  <2> QED BY <2>11, <2>13, <2>14, <2>15, <2>16, <2>17, <2>18, <2>19, <2>20, <2>22 DEF IInv
<1> QED BY <1>1, <1>2, <1>3 DEF MoveOut

(* Record: the newest archive gets its row. *)
LEMMA RecordKeeps == ASSUME IInv, Record PROVE IInv'
<1>1. /\ pc["command"] = "record" /\ "command" \in Task
      /\ arg["command"] \notin Reserved
      /\ default' = IF default = arg["command"] THEN None ELSE default
      /\ List("command", "idle")
      /\ UNCHANGED <<dirs, stored, known, bases, arg, born, unrecorded, deleted, freed>>
  BY TaskNames DEF Record, files, histories
<1>2. PICK k \in DOMAIN stored, x \in Name :
        /\ k = Len(stored) /\ x = arg["command"] /\ dirs[x] = None
        /\ stored[k] # None /\ born[stored[k]] = x
        /\ \A row \in registry : row.archive # k
  BY <1>1 DEF IInv, RecordingInv, Recording
<1>3. PICK new : new = [archive |-> k, name |-> x]
  OBVIOUS
<1>4. registry' = registry \cup {new} /\ new.archive = k /\ new.name = x
  BY <1>2, <1>3 DEF Record, NewRow
<1>5. new \in Row
  <2>1. k \in 1 .. MaxArchives
    BY <1>2, PlaceFacts, ProfilesAssumption DEF IInv, RowsInv
  <2> QED BY <2>1, <1>3 DEF Row
<1>6. /\ pc' \in [Task -> Step] /\ pc'["command"] = "discover" /\ pc'["view"] = pc["view"]
      /\ overlapped' \in [Task -> BOOLEAN] /\ overlapped'["view"]
      /\ after' \in [Task -> {"idle", "moveOut", "setDefault"}] /\ after'["command"] = "idle"
      /\ report' \in [Task -> SUBSET Name] /\ report'["view"] = report["view"]
  BY <1>1, ListFacts, TaskNames DEF IInv
<1>7. TypeOK'
  BY <1>1, <1>4, <1>5, <1>6 DEF IInv, TypeOK, Profile
<1>8. DirsInv' /\ StoredInv' /\ KeptInv'
  <2>1. DirsInv' /\ StoredInv'
    BY <1>1 DEF IInv, DirsInv, StoredInv
  <2>2. KeptInv'
    BY <1>1 DEF IInv, KeptInv, Profile
  <2> QED BY <2>1, <2>2
<1>9. RowsInv'
  <2>1. \A row \in registry : row.archive # k /\ row.name # x
    BY <1>1, <1>2 DEF Reserved
  <2> QED BY <2>1, <1>1, <1>2, <1>4 DEF IInv, RowsInv
<1>10. Recording /\ ~Recording' /\ ~Forgetting'
  BY <1>1, <1>6 DEF Recording, Forgetting
<1>11. RecordingInv' /\ ForgettingInv' /\ CommandInv'
  BY <1>6, <1>10 DEF RecordingInv, ForgettingInv, CommandInv, Forgetting, ListingSteps
<1>12. ReportInv'
  BY <1>1, <1>6, CommandReport DEF IInv
<1>13. ArchivedIsRegistered'
  <2>1. [archive |-> k, name |-> born[stored[k]]] \in registry'
    BY <1>2, <1>3, <1>4
  <2> QED BY <2>1, <1>1, <1>2, <1>4 DEF IInv, ArchivedIsRegistered
<1>14. ASSUME NEW n \in Name PROVE BaseInv(n)'
  <2>1. CASE n = x
    BY <2>1, <1>1, <1>2, <1>4, <1>10 DEF IInv, BaseInv
  <2>2. CASE n # x
    BY <2>2, <1>1, <1>2, <1>4, <1>10 DEF IInv, BaseInv
  <2> QED BY <2>1, <2>2
<1> QED BY <1>7, <1>8, <1>9, <1>11, <1>12, <1>13, <1>14 DEF IInv

(* RecordFails: the directory is to go back. *)
LEMMA RecordFailsKeeps == ASSUME IInv, RecordFails PROVE IInv'
<1>1. /\ pc["command"] = "record" /\ "command" \in Task
      /\ Goto("command", "moveBack")
      /\ UNCHANGED <<dirs, stored, registry, known, default, bases, arg, report, after,
                     born, unrecorded, deleted, freed>>
  BY TaskNames DEF RecordFails, database, files, histories
<1>2. /\ pc' \in [Task -> Step] /\ pc'["command"] = "moveBack" /\ pc'["view"] = pc["view"]
      /\ overlapped' \in [Task -> BOOLEAN] /\ overlapped'["view"]
  BY <1>1, GotoFacts, TaskNames DEF IInv, Step
<1>3. TypeOK'
  BY <1>1, <1>2 DEF IInv, TypeOK, Profile
<1>4. DirsInv' /\ StoredInv'
  BY <1>1 DEF IInv, DirsInv, StoredInv
<1>5. KeptInv' /\ RowsInv'
  BY <1>1 DEF IInv, KeptInv, RowsInv, Profile
<1>6. Recording /\ Recording'
  BY <1>1, <1>2 DEF Recording
<1>7. RecordingInv' /\ ForgettingInv' /\ CommandInv'
  BY <1>1, <1>2, <1>6 DEF IInv, RecordingInv, ForgettingInv, CommandInv, ListingSteps
<1>8. ReportInv'
  BY <1>1, <1>2, CommandReport DEF IInv
<1>9. ArchivedIsRegistered'
  BY <1>1, <1>2 DEF IInv, ArchivedIsRegistered
<1>10. \A n \in Name : BaseInv(n)'
  BY <1>1, <1>6 DEF IInv, BaseInv
<1> QED BY <1>3, <1>4, <1>5, <1>7, <1>8, <1>9, <1>10 DEF IInv

(* An archiving that is cut off leaves its profile archived without a row. *)
LEMMA CutOff ==
  ASSUME IInv, Recording, TypeOK', ReportInv', pc'["command"] = "idle",
         unrecorded' = unrecorded \cup {stored[Len(stored)]},
         UNCHANGED <<dirs, stored, registry, bases, born, deleted, freed>>
  PROVE  IInv'
<1>1. DirsInv' /\ StoredInv'
  BY DEF IInv, DirsInv, StoredInv
<1>2. KeptInv' /\ RowsInv'
  BY DEF IInv, KeptInv, RowsInv, Profile
<1>3. ~Recording' /\ ~Forgetting'
  BY DEF Recording, Forgetting
<1>4. RecordingInv' /\ ForgettingInv' /\ CommandInv'
  BY <1>3 DEF RecordingInv, ForgettingInv, CommandInv, Forgetting, ListingSteps
<1>5. ArchivedIsRegistered'
  BY DEF IInv, ArchivedIsRegistered
<1>6. \A n \in Name : BaseInv(n)'
  BY <1>3 DEF IInv, BaseInv
<1> QED BY <1>1, <1>2, <1>4, <1>5, <1>6 DEF IInv

(* MoveBack: the directory is where it was, or is known to be cut off. *)
LEMMA MoveBackKeeps == ASSUME IInv, MoveBack PROVE IInv'
<1>1. /\ pc["command"] = "moveBack" /\ "command" \in Task /\ Recording
      /\ End("command")
      /\ UNCHANGED <<registry, known, default, bases, born, deleted, freed>>
  BY TaskNames DEF MoveBack, Recording, database
<1>2. /\ pc' \in [Task -> Step] /\ pc'["command"] = "idle" /\ pc'["view"] = pc["view"]
      /\ overlapped' \in [Task -> BOOLEAN] /\ overlapped'["view"]
      /\ arg' \in [Task -> Name \cup DOMAIN stored \cup {None}]
      /\ after' \in [Task -> {"idle", "moveOut", "setDefault"}]
      /\ report' \in [Task -> SUBSET Name] /\ report'["view"] = report["view"]
  BY <1>1, EndFacts, TaskNames DEF IInv
<1>3. ReportInv'
  BY <1>1, <1>2, CommandReport DEF IInv
<1>4. PICK k \in DOMAIN stored, x \in Name :
        /\ k = Len(stored) /\ x = arg["command"] /\ dirs[x] = None
        /\ stored[k] # None /\ born[stored[k]] = x
        /\ \A row \in registry : row.archive # k
  BY <1>1 DEF IInv, RecordingInv
<1>5. PICK p \in Profile : p = stored[k] /\ born[p] = x /\ p # None
  BY <1>4, PlaceFacts DEF IInv
<1>6. CASE unrecorded' = unrecorded \cup {stored[Len(stored)]} /\ UNCHANGED files
  <2>1. UNCHANGED <<dirs, stored>>
    BY <1>6 DEF files
  <2>2. TypeOK'
    BY <2>1, <1>1, <1>2, <1>4, <1>5, <1>6 DEF IInv, TypeOK, Profile
  <2> QED BY <2>1, <2>2, <1>1, <1>2, <1>3, <1>6, CutOff
<1>7. CASE /\ dirs' = [dirs EXCEPT ![arg["command"]] = stored[Len(stored)]]
           /\ stored' = [stored EXCEPT ![Len(stored)] = None]
           /\ UNCHANGED unrecorded
  <2>1. PICK S : S = Profile \cup {None}
    OBVIOUS
  <2>2. stored \in Seq(S) /\ None \in S
    BY <2>1 DEF IInv, TypeOK
  <2>3. stored' = [stored EXCEPT ![k] = None]
    BY <1>4, <1>7
  <2>4. /\ stored' \in Seq(S) /\ DOMAIN stored' = DOMAIN stored /\ Len(stored') = Len(stored)
        /\ stored'[k] = None
        /\ \A a \in DOMAIN stored \ {k} : stored'[a] = stored[a]
    BY <2>2, <2>3, <1>4
  <2>5. /\ dirs'[x] = p
        /\ \A n \in Name \ {x} : dirs'[n] = dirs[n]
        /\ dirs' \in [Name -> Profile \cup {None}]
    BY <1>4, <1>5, <1>7 DEF IInv, TypeOK
  <2>6. TypeOK'
    <3>1. stored' \in Seq(Profile' \cup {None})
      BY <1>1, <2>1, <2>4 DEF Profile
    <3> QED BY <3>1, <2>4, <2>5, <1>1, <1>2, <1>7 DEF IInv, TypeOK, Profile
  <2>7. \A a \in DOMAIN stored : stored[a] # None => born[stored[a]] \in Name
    BY PlaceFacts DEF IInv
  <2>8. DirsInv'
    BY <2>5, <1>1, <1>5 DEF IInv, DirsInv
  <2>9. StoredInv'
    <3>1. ASSUME NEW a \in DOMAIN stored, a # k, stored[a] # None
          PROVE  /\ dirs'[born[stored[a]]] # stored[a]
                 /\ \A b \in DOMAIN stored : stored[b] = stored[a] => b = a
      <4>1. dirs[born[stored[a]]] # stored[a] /\ stored[a] # p
        BY <3>1, <1>5 DEF IInv, StoredInv
      <4>2. \A b \in DOMAIN stored : stored[b] = stored[a] => b = a
        BY <3>1 DEF IInv, StoredInv
      <4> QED BY <4>1, <4>2, <3>1, <2>5, <2>7
    <3> QED BY <3>1, <2>4, <1>1 DEF StoredInv
  <2>10. KeptInv'
    <3>1. ASSUME NEW i \in Profile \ deleted
          PROVE  dirs'[born[i]] = i \/ \E a \in DOMAIN stored : stored'[a] = i
      <4>1. CASE i = p
        BY <4>1, <2>5, <1>5
      <4>2. CASE i # p /\ dirs[born[i]] = i
        <5>1. born[i] \in Name /\ born[i] # x
          BY <4>2, <1>4, PlaceFacts DEF IInv
        <5> QED BY <5>1, <4>2, <2>5
      <4>3. CASE i # p /\ \E a \in DOMAIN stored : stored[a] = i
        BY <4>3, <2>4, <1>5
      <4> QED BY <4>1, <4>2, <4>3 DEF IInv, KeptInv
    <3> QED BY <3>1, <2>4, <1>1 DEF KeptInv, Profile
  <2>11. \A row \in registry : stored'[row.archive] = stored[row.archive]
    BY <2>4, <1>4 DEF IInv, RowsInv
  <2>12. RowsInv'
    BY <2>4, <2>11, <1>1 DEF IInv, RowsInv
  <2>13. ~Recording' /\ ~Forgetting'
    BY <1>2 DEF Recording, Forgetting
  <2>14. RecordingInv' /\ ForgettingInv' /\ CommandInv'
    BY <1>2, <2>13 DEF RecordingInv, ForgettingInv, CommandInv, Forgetting, ListingSteps
  <2>15. ArchivedIsRegistered'
    BY <2>4, <1>1, <1>4, <1>7 DEF IInv, ArchivedIsRegistered
  <2>16. ASSUME NEW n \in Name PROVE BaseInv(n)'
    <3>1. CASE n = x
      BY <3>1, <2>5, <1>1, <1>4, <1>5, <1>7 DEF IInv, BaseInv
    <3>2. CASE n # x
      BY <3>2, <2>5, <2>11, <2>13, <1>1, <1>4, <1>7 DEF IInv, BaseInv
    <3> QED BY <3>1, <3>2
  <2> QED BY <2>6, <2>8, <2>9, <2>10, <2>12, <2>14, <2>15, <2>16, <1>3 DEF IInv
<1> QED BY <1>6, <1>7 DEF MoveBack

(* Crash: an archiving that was between its two steps is cut off. *)
LEMMA CrashKeeps == ASSUME IInv, Crash PROVE IInv'
<1>1. /\ pc' = [t \in Task |-> "idle"]
      /\ arg' = [t \in Task |-> None]
      /\ report' = [t \in Task |-> {}]
      /\ after' = [t \in Task |-> "idle"]
      /\ overlapped' = [t \in Task |-> FALSE]
      /\ unrecorded' = IF Recording THEN unrecorded \cup {stored[Len(stored)]} ELSE unrecorded
      /\ UNCHANGED <<dirs, stored, registry, known, default, bases, born, deleted, freed>>
  BY DEF Crash, Recording, database, files
<1>2. pc'["command"] = "idle" /\ \A t \in Task : pc'[t] = "idle"
  BY <1>1, TaskNames
<1>3. unrecorded' \subseteq Profile
  BY <1>1, PlaceFacts DEF IInv, TypeOK, RecordingInv
<1>4. TypeOK'
  <2>1. /\ pc' \in [Task -> Step] /\ overlapped' \in [Task -> BOOLEAN]
        /\ arg' \in [Task -> Name \cup DOMAIN stored \cup {None}]
        /\ after' \in [Task -> {"idle", "moveOut", "setDefault"}]
        /\ report' \in [Task -> SUBSET Name]
    BY <1>1 DEF Step
  <2> QED BY <2>1, <1>1, <1>3 DEF IInv, TypeOK, Profile
<1>5. ReportInv'
  BY <1>2 DEF ReportInv
<1>6. CASE Recording
  BY <1>1, <1>2, <1>4, <1>5, <1>6, CutOff
<1>7. CASE ~Recording
  <2>1. CommandInv' /\ ~Recording' /\ ~Forgetting'
    BY <1>2 DEF CommandInv, Recording, Forgetting, ListingSteps
  <2> QED BY <2>1, <1>1, <1>4, <1>5, <1>7, CalmStep
<1> QED BY <1>6, <1>7

(* A row is what its archive and name say. *)
LEMMA RowFacts ==
  ASSUME TypeOK, NEW row \in registry
  PROVE  row = [archive |-> row.archive, name |-> row.name] /\ row.name \in Name
BY DEF TypeOK, Row

(* The row of an archive is found by its archive. *)
LEMMA RowOfFacts ==
  ASSUME IInv, NEW row \in registry
  PROVE  RowOf(row.archive) = row
<1>1. \A other \in registry : other.archive = row.archive => other = row
  BY DEF IInv, RowsInv
<1> QED BY <1>1 DEF RowOf

(* MoveIn: the archive is in the directory of its profile, its row remains. *)
LEMMA MoveInKeeps ==
  ASSUME IInv, NEW row \in registry, MoveIn(row)
  PROVE  IInv'
<1>1. PICK a \in DOMAIN stored, n \in Name :
        /\ a = row.archive /\ n = row.name
        /\ stored[a] # None /\ dirs[n] = None /\ born[stored[a]] = n
  BY RowFacts DEF MoveIn, MayRestore, IInv, RowsInv
<1>2. PICK p \in Profile : p = stored[a] /\ born[p] = n /\ p # None
  BY <1>1, PlaceFacts DEF IInv
<1>3. /\ pc["command"] = "idle" /\ "command" \in Task
      /\ dirs' = [dirs EXCEPT ![n] = p]
      /\ stored' = [stored EXCEPT ![a] = None]
      /\ Begin("command", a) /\ Goto("command", "forgetRestored")
      /\ UNCHANGED <<registry, known, default, bases, report, after,
                     born, unrecorded, deleted, freed>>
  BY <1>1, <1>2, TaskNames DEF MoveIn, Locked, database, histories
<1>4. PICK S : S = Profile \cup {None}
  OBVIOUS
<1>5. stored \in Seq(S) /\ None \in S
  BY <1>4 DEF IInv, TypeOK
<1>6. /\ stored' \in Seq(S) /\ DOMAIN stored' = DOMAIN stored /\ Len(stored') = Len(stored)
      /\ stored'[a] = None
      /\ \A b \in DOMAIN stored \ {a} : stored'[b] = stored[b]
  BY <1>1, <1>3, <1>5
<1>7. /\ dirs'[n] = p
      /\ \A m \in Name \ {n} : dirs'[m] = dirs[m]
      /\ dirs' \in [Name -> Profile \cup {None}]
  BY <1>3 DEF IInv, TypeOK
<1>8. /\ pc' \in [Task -> Step] /\ pc'["command"] = "forgetRestored" /\ pc'["view"] = pc["view"]
      /\ overlapped' \in [Task -> BOOLEAN] /\ overlapped'["view"]
      /\ arg' \in [Task -> Name \cup DOMAIN stored \cup {None}] /\ arg'["command"] = a
  BY <1>3, GotoFacts, BeginFacts, TaskNames DEF IInv, Step
<1>9. TypeOK'
  <2>1. stored' \in Seq(Profile' \cup {None})
    BY <1>3, <1>4, <1>6 DEF Profile
  <2> QED BY <2>1, <1>3, <1>6, <1>7, <1>8 DEF IInv, TypeOK, Profile
<1>10. \A b \in DOMAIN stored : stored[b] # None => born[stored[b]] \in Name
  BY PlaceFacts DEF IInv
<1>11. DirsInv'
  BY <1>2, <1>3, <1>7 DEF IInv, DirsInv
<1>12. StoredInv'
  <2>1. ASSUME NEW b \in DOMAIN stored, b # a, stored[b] # None
        PROVE  /\ dirs'[born[stored[b]]] # stored[b]
               /\ \A c \in DOMAIN stored : stored[c] = stored[b] => c = b
    <3>1. dirs[born[stored[b]]] # stored[b] /\ stored[b] # p
      BY <2>1, <1>2 DEF IInv, StoredInv
    <3>2. \A c \in DOMAIN stored : stored[c] = stored[b] => c = b
      BY <2>1 DEF IInv, StoredInv
    <3> QED BY <3>1, <3>2, <2>1, <1>7, <1>10
  <2> QED BY <2>1, <1>3, <1>6 DEF StoredInv
<1>13. KeptInv'
  <2>1. ASSUME NEW i \in Profile \ deleted
        PROVE  dirs'[born[i]] = i \/ \E b \in DOMAIN stored : stored'[b] = i
    <3>1. CASE i = p
      BY <3>1, <1>2, <1>7
    <3>2. CASE i # p /\ dirs[born[i]] = i
      <4>1. born[i] \in Name /\ born[i] # n
        BY <3>2, <1>1, PlaceFacts DEF IInv
      <4> QED BY <4>1, <3>2, <1>7
    <3>3. CASE i # p /\ \E b \in DOMAIN stored : stored[b] = i
      BY <3>3, <1>2, <1>6
    <3> QED BY <3>1, <3>2, <3>3 DEF IInv, KeptInv
  <2> QED BY <2>1, <1>3, <1>6 DEF KeptInv, Profile
<1>14. RowsInv'
  BY <1>3, <1>6 DEF IInv, RowsInv
<1>15. ~Recording /\ ~Recording'
  BY <1>3, <1>8 DEF Recording
<1>16. RecordingInv' /\ CommandInv'
  BY <1>8, <1>15 DEF RecordingInv, CommandInv, ListingSteps
<1>17. ForgettingInv'
  BY <1>1, <1>2, <1>3, <1>6, <1>7, <1>8 DEF ForgettingInv
<1>18. ReportInv'
  BY <1>3, <1>8, CommandReport DEF IInv
<1>19. ArchivedIsRegistered'
  BY <1>3, <1>6 DEF IInv, ArchivedIsRegistered
<1>20. ASSUME NEW m \in Name PROVE BaseInv(m)'
  <2>1. CASE m = n
    <3>1. \A other \in registry : other.name = n => other.archive = a
      BY <1>1 DEF IInv, RowsInv
    <3> QED BY <2>1, <3>1, <1>1, <1>2, <1>3, <1>7, <1>15 DEF IInv, BaseInv
  <2>2. CASE m # n
    <3>1. \A other \in registry : other.name = m => stored'[other.archive] = stored[other.archive]
      BY <2>2, <1>1, <1>6 DEF IInv, RowsInv
    <3>2. dirs'[m] = dirs[m]
      BY <2>2, <1>7
    <3> QED BY <3>1, <3>2, <1>3, <1>15 DEF IInv, BaseInv
  <2> QED BY <2>1, <2>2
<1> QED BY <1>9, <1>11, <1>12, <1>13, <1>14, <1>16, <1>17, <1>18, <1>19, <1>20 DEF IInv

(* A row is forgotten whose archive is gone and whose name is in use again *)
(* or is said to be free.                                                  *)
LEMMA ForgetRow ==
  ASSUME IInv, pc["command"] \in {"forgetRestored", "forgetDeleted"},
         NEW row \in registry, stored[row.archive] = None,
         registry' = registry \ {row}, freed \subseteq freed', freed' \subseteq Name,
         row.name \in freed' \/ dirs[row.name] # None,
         List("command", "idle"),
         UNCHANGED <<dirs, stored, known, default, bases, arg, born, unrecorded, deleted>>
  PROVE  IInv'
<1>1. /\ pc' \in [Task -> Step] /\ pc'["command"] = "discover" /\ pc'["view"] = pc["view"]
      /\ overlapped' \in [Task -> BOOLEAN] /\ overlapped'["view"]
      /\ after' \in [Task -> {"idle", "moveOut", "setDefault"}] /\ after'["command"] = "idle"
      /\ report' \in [Task -> SUBSET Name] /\ report'["view"] = report["view"]
  BY ListFacts, TaskNames DEF IInv
<1>2. TypeOK'
  BY <1>1 DEF IInv, TypeOK, Profile
<1>3. DirsInv' /\ StoredInv'
  BY DEF IInv, DirsInv, StoredInv
<1>4. KeptInv' /\ RowsInv'
  BY DEF IInv, KeptInv, RowsInv, Profile
<1>5. ~Recording /\ ~Recording' /\ ~Forgetting'
  BY <1>1 DEF Recording, Forgetting
<1>6. RecordingInv' /\ ForgettingInv' /\ CommandInv'
  BY <1>1, <1>5 DEF RecordingInv, ForgettingInv, CommandInv, Forgetting, ListingSteps
<1>7. ReportInv'
  BY <1>1, CommandReport DEF IInv
<1>8. ArchivedIsRegistered'
  <2>1. ASSUME NEW a \in DOMAIN stored, stored[a] # None
        PROVE  [archive |-> a, name |-> born[stored[a]]] \in registry' \/ stored[a] \in unrecorded
    <3>1. [archive |-> a, name |-> born[stored[a]]] # row
      BY <2>1
    <3> QED BY <3>1, <2>1, <1>5 DEF IInv, ArchivedIsRegistered, Recording
  <2> QED BY <2>1 DEF ArchivedIsRegistered
<1>9. ASSUME NEW n \in Name PROVE BaseInv(n)'
  <2>1. CASE n = row.name
    BY <2>1, <1>5 DEF IInv, BaseInv
  <2>2. CASE n # row.name
    BY <2>2, <1>5 DEF IInv, BaseInv
  <2> QED BY <2>1, <2>2
<1> QED BY <1>2, <1>3, <1>4, <1>6, <1>7, <1>8, <1>9 DEF IInv

(* ForgetRestored: the row goes, or the directory goes back, or both remain. *)
LEMMA ForgetRestoredKeeps == ASSUME IInv, ForgetRestored PROVE IInv'
<1>1. /\ pc["command"] = "forgetRestored" /\ "command" \in Task
      /\ UNCHANGED <<known, default, bases, born, unrecorded, deleted, freed>>
  BY TaskNames DEF ForgetRestored, histories
<1>2. PICK row \in registry :
        row.archive = arg["command"] /\ stored[row.archive] = None /\ dirs[row.name] # None
  BY <1>1 DEF IInv, ForgettingInv
<1>3. RowOf(arg["command"]) = row
  BY <1>2, RowOfFacts
<1>4. CASE /\ registry' = registry \ {row} /\ List("command", "idle") /\ UNCHANGED <<arg, files>>
  BY <1>1, <1>2, <1>4, ForgetRow DEF IInv, TypeOK, files
<1>5. CASE End("command") /\ UNCHANGED <<registry, files>>
  BY <1>1, <1>5, EndCalm DEF Recording, IInv, TypeOK, files
<1>6. CASE /\ End("command")
           /\ dirs' = [dirs EXCEPT ![row.name] = None]
           /\ stored' = [stored EXCEPT ![row.archive] = dirs[row.name]]
           /\ UNCHANGED registry
  <2>1. PICK n \in Name, a \in DOMAIN stored :
          n = row.name /\ a = row.archive /\ stored[a] = None /\ dirs[n] # None
    BY <1>2, RowFacts DEF IInv, RowsInv
  <2>2. PICK p \in Profile : p = dirs[n] /\ born[p] = n /\ p # None
    BY <2>1, PlaceFacts DEF IInv, DirsInv
  <2>3. PICK S : S = Profile \cup {None}
    OBVIOUS
  <2>4. stored \in Seq(S) /\ p \in S
    BY <2>3 DEF IInv, TypeOK
  <2>5. stored' = [stored EXCEPT ![a] = p]
    BY <1>6, <2>1, <2>2
  <2>6. /\ stored' \in Seq(S) /\ DOMAIN stored' = DOMAIN stored /\ Len(stored') = Len(stored)
        /\ stored'[a] = p
        /\ \A b \in DOMAIN stored \ {a} : stored'[b] = stored[b]
    BY <2>1, <2>4, <2>5
  <2>7. /\ dirs'[n] = None
        /\ \A m \in Name \ {n} : dirs'[m] = dirs[m]
        /\ dirs' \in [Name -> Profile \cup {None}]
    BY <1>6, <2>1 DEF IInv, TypeOK
  <2>8. /\ pc' \in [Task -> Step] /\ pc'["command"] = "idle" /\ pc'["view"] = pc["view"]
        /\ overlapped' \in [Task -> BOOLEAN] /\ overlapped'["view"]
        /\ arg' \in [Task -> Name \cup DOMAIN stored \cup {None}]
        /\ after' \in [Task -> {"idle", "moveOut", "setDefault"}]
        /\ report' \in [Task -> SUBSET Name] /\ report'["view"] = report["view"]
    BY <1>1, <1>6, EndFacts, TaskNames DEF IInv
  <2>9. TypeOK'
    <3>1. stored' \in Seq(Profile' \cup {None})
      BY <1>1, <2>3, <2>6 DEF Profile
    <3> QED BY <3>1, <1>1, <1>6, <2>6, <2>7, <2>8 DEF IInv, TypeOK, Profile
  <2>10. DirsInv'
    BY <1>1, <2>7 DEF IInv, DirsInv
  <2>11. \A b \in DOMAIN stored : stored[b] # p
    BY <2>2 DEF IInv, StoredInv
  <2>12. StoredInv'
    <3>1. ASSUME NEW b \in DOMAIN stored, b # a, stored[b] # None
          PROVE  /\ dirs'[born[stored[b]]] # stored[b]
                 /\ \A c \in DOMAIN stored : stored[c] = stored[b] => c = b
      <4>1. dirs[born[stored[b]]] # stored[b] /\ born[stored[b]] \in Name
        BY <3>1, PlaceFacts DEF IInv, StoredInv
      <4>2. \A c \in DOMAIN stored : stored[c] = stored[b] => c = b
        BY <3>1 DEF IInv, StoredInv
      <4> QED BY <4>1, <4>2, <3>1, <2>7
    <3>2. dirs'[born[p]] # p
      BY <2>2, <2>7
    <3> QED BY <3>1, <3>2, <1>1, <2>2, <2>6, <2>11 DEF StoredInv
  <2>13. KeptInv'
    <3>1. ASSUME NEW i \in Profile \ deleted
          PROVE  dirs'[born[i]] = i \/ \E b \in DOMAIN stored : stored'[b] = i
      <4>1. CASE i = p
        BY <4>1, <2>6
      <4>2. CASE i # p /\ dirs[born[i]] = i
        <5>1. born[i] \in Name /\ born[i] # n
          BY <4>2, <2>2, PlaceFacts DEF IInv
        <5> QED BY <5>1, <4>2, <2>7
      <4>3. CASE \E b \in DOMAIN stored : stored[b] = i
        <5>1. i # None
          BY PlaceFacts DEF IInv
        <5> QED BY <5>1, <4>3, <2>1, <2>6
      <4> QED BY <4>1, <4>2, <4>3 DEF IInv, KeptInv
    <3> QED BY <3>1, <1>1, <2>6 DEF KeptInv, Profile
  <2>14. \A other \in registry :
           \/ other = row
           \/ other.name # n /\ stored'[other.archive] = stored[other.archive]
    BY <2>1, <2>6 DEF IInv, RowsInv
  <2>15. RowsInv'
    BY <1>1, <1>6, <2>1, <2>2, <2>6, <2>14 DEF IInv, RowsInv
  <2>16. ~Recording /\ ~Recording' /\ ~Forgetting'
    BY <1>1, <2>8 DEF Recording, Forgetting
  <2>17. RecordingInv' /\ ForgettingInv' /\ CommandInv'
    BY <2>8, <2>16 DEF RecordingInv, ForgettingInv, CommandInv, Forgetting, ListingSteps
  <2>18. ReportInv'
    BY <1>1, <2>8, CommandReport DEF IInv
  <2>19. ArchivedIsRegistered'
    <3>1. [archive |-> a, name |-> born[p]] \in registry
      BY <2>1, <2>2, RowFacts DEF IInv
    <3> QED BY <3>1, <1>1, <1>6, <2>6 DEF IInv, ArchivedIsRegistered
  <2>20. ASSUME NEW m \in Name PROVE BaseInv(m)'
    <3>1. CASE m = n
      <4>1. bases[n] = p => stored'[row.archive] = bases[n]
        BY <2>1, <2>6
      <4> QED BY <3>1, <4>1, <1>1, <1>6, <2>1, <2>2, <2>7, <2>16 DEF IInv, BaseInv
    <3>2. CASE m # n
      <4>1. dirs'[m] = dirs[m]
        BY <3>2, <2>7
      <4>2. \A other \in registry : other.name = m => stored'[other.archive] = stored[other.archive]
        BY <3>2, <2>1, <2>14
      <4> QED BY <4>1, <4>2, <1>1, <1>6, <2>16 DEF IInv, BaseInv
    <3> QED BY <3>1, <3>2
  <2> QED BY <2>9, <2>10, <2>12, <2>13, <2>15, <2>17, <2>18, <2>19, <2>20 DEF IInv
<1> QED BY <1>3, <1>4, <1>5, <1>6 DEF ForgetRestored

(* RemoveArchive: the archive is removed, in part if that fails, and its   *)
(* profile is deleted; the row remains.                                    *)
LEMMA RemoveArchiveKeeps ==
  ASSUME IInv, NEW row \in registry, RemoveArchive(row)
  PROVE  IInv'
<1>1. PICK a \in DOMAIN stored : a = row.archive
  BY DEF IInv, RowsInv
<1>2. /\ pc["command"] = "idle" /\ "command" \in Task
      /\ Begin("command", a)
      /\ UNCHANGED <<dirs, registry, known, default, bases, report, after,
                     born, unrecorded, freed>>
  BY <1>1, TaskNames DEF RemoveArchive, Locked, database
<1>3. PICK S : S = Profile \cup {None}
  OBVIOUS
<1>4. stored \in Seq(S) /\ None \in S
  BY <1>3 DEF IInv, TypeOK
<1>5. PICK step \in {"forgetDeleted", "fail"} :
        /\ Goto("command", step)
        /\ \/ stored' = stored /\ (step = "forgetDeleted" => stored[a] = None)
           \/ stored' = [stored EXCEPT ![a] = None] /\ stored[a] \in deleted'
  BY <1>1 DEF RemoveArchive
<1>6. /\ stored' \in Seq(S) /\ DOMAIN stored' = DOMAIN stored /\ Len(stored') = Len(stored)
      /\ \A b \in DOMAIN stored \ {a} : stored'[b] = stored[b]
      /\ stored'[a] = stored[a] \/ (stored'[a] = None /\ stored[a] \in deleted')
      /\ step = "forgetDeleted" => stored'[a] = None
  <2>1. CASE stored' = stored /\ (step = "forgetDeleted" => stored[a] = None)
    BY <2>1, <1>4
  <2>2. CASE stored' = [stored EXCEPT ![a] = None] /\ stored[a] \in deleted'
    BY <2>2, <1>1, <1>4
  <2> QED BY <2>1, <2>2, <1>5
<1>7. deleted \subseteq deleted' /\ deleted' \subseteq Profile
  <2>1. deleted' = deleted \/ (stored[a] # None /\ deleted' = deleted \cup {stored[a]})
    BY <1>1 DEF RemoveArchive
  <2> QED BY <2>1, <1>1, PlaceFacts DEF IInv, TypeOK
<1>8. /\ pc' \in [Task -> Step] /\ pc'["command"] = step /\ pc'["view"] = pc["view"]
      /\ overlapped' \in [Task -> BOOLEAN] /\ overlapped'["view"]
      /\ arg' \in [Task -> Name \cup DOMAIN stored \cup {None}] /\ arg'["command"] = a
  <2>1. step \in Step
    BY DEF Step
  <2> QED BY <2>1, <1>1, <1>2, <1>5, GotoFacts, BeginFacts, TaskNames DEF IInv
<1>9. TypeOK'
  <2>1. stored' \in Seq(Profile' \cup {None}) /\ Profile' = Profile
    BY <1>2, <1>3, <1>6 DEF Profile
  <2> QED BY <2>1, <1>2, <1>6, <1>7, <1>8 DEF IInv, TypeOK
<1>10. DirsInv' /\ StoredInv'
  <2>1. DirsInv'
    BY <1>2 DEF IInv, DirsInv
  <2>2. \A b \in DOMAIN stored : stored'[b] # None => stored'[b] = stored[b]
    BY <1>6
  <2>3. StoredInv'
    BY <2>2, <1>2, <1>6 DEF IInv, StoredInv
  <2> QED BY <2>1, <2>3
<1>11. KeptInv'
  <2>1. ASSUME NEW i \in Profile \ deleted'
        PROVE  dirs[born[i]] = i \/ \E b \in DOMAIN stored : stored'[b] = i
    <3>1. i # None /\ i \notin deleted
      BY <1>7, PlaceFacts DEF IInv
    <3>2. \A b \in DOMAIN stored : stored[b] = i => stored'[b] = i
      BY <2>1, <1>6
    <3> QED BY <3>1, <3>2 DEF IInv, KeptInv
  <2> QED BY <2>1, <1>2, <1>6 DEF KeptInv, Profile
<1>12. RowsInv'
  BY <1>2, <1>6 DEF IInv, RowsInv
<1>13. ~Recording /\ ~Recording'
  BY <1>2, <1>8 DEF Recording
<1>14. RecordingInv' /\ CommandInv'
  BY <1>8, <1>13 DEF RecordingInv, CommandInv, ListingSteps
<1>15. ForgettingInv'
  BY <1>1, <1>2, <1>6, <1>8 DEF ForgettingInv
<1>16. ReportInv'
  BY <1>2, <1>8, CommandReport DEF IInv
<1>17. ArchivedIsRegistered'
  <2>1. \A b \in DOMAIN stored : stored'[b] # None => stored'[b] = stored[b]
    BY <1>6
  <2> QED BY <2>1, <1>2, <1>6, <1>13 DEF IInv, ArchivedIsRegistered, Recording
<1>18. ASSUME NEW m \in Name PROVE BaseInv(m)'
  <2>1. \A other \in registry :
          stored[other.archive] \in {None, bases[m]} => stored'[other.archive] \in {None, bases[m]}
    BY <1>6 DEF IInv, RowsInv
  <2> QED BY <2>1, <1>2, <1>13 DEF IInv, BaseInv
<1> QED BY <1>9, <1>10, <1>11, <1>12, <1>14, <1>15, <1>16, <1>17, <1>18 DEF IInv

(* ForgetDeleted: the row of a removed archive goes, and its name is free. *)
LEMMA ForgetDeletedKeeps == ASSUME IInv, ForgetDeleted PROVE IInv'
<1>1. /\ pc["command"] = "forgetDeleted"
      /\ List("command", "idle")
      /\ UNCHANGED <<dirs, stored, known, default, bases, arg, born, unrecorded, deleted>>
  BY DEF ForgetDeleted, files
<1>2. PICK row \in registry : row.archive = arg["command"] /\ stored[row.archive] = None
  BY <1>1 DEF IInv, ForgettingInv
<1>3. RowOf(arg["command"]) = row
  BY <1>2, RowOfFacts
<1>4. registry' = registry \ {row} /\ freed' = freed \cup {row.name}
  BY <1>3 DEF ForgetDeleted
<1>5. freed \subseteq freed' /\ row.name \in freed' /\ freed' \subseteq Name
  BY <1>4, RowFacts DEF IInv, TypeOK
<1> QED BY <1>1, <1>2, <1>4, <1>5, ForgetRow

(* DeleteFails: the command ends, the row remains. *)
LEMMA DeleteFailsKeeps == ASSUME IInv, DeleteFails PROVE IInv'
<1>1. /\ pc["command"] \in {"fail", "forgetDeleted"} /\ End("command") /\ "command" \in Task
      /\ UNCHANGED <<dirs, stored, registry, known, default, bases,
                     born, unrecorded, deleted, freed>>
  BY TaskNames DEF DeleteFails, database, files, histories
<1> QED BY <1>1, EndCalm DEF Recording, IInv, TypeOK

-----------------------------------------------------------------------------
(***************************************************************************)
(* The invariant holds                                                     *)
(***************************************************************************)

(* One directory, nothing archived, nothing done yet. *)
LEMMA InitKeeps == Init => IInv
<1> SUFFICES ASSUME Init PROVE IInv
  OBVIOUS
<1>1. Default \in Name /\ 1 # None /\ "command" \in Task
  BY ProfilesAssumption, TaskNames DEF Default, Name
<1>2. PICK d : d = Default
  OBVIOUS
<1>3. born = <<d>> /\ d \in Name
  BY <1>1, <1>2 DEF Init
<1>4. born \in Seq(Name) /\ DOMAIN born = {1} /\ born[1] = Default
  BY <1>2, <1>3
<1>5. Profile = {1}
  BY <1>4 DEF Profile
<1>6. /\ dirs = [n \in Name |-> IF n = Default THEN 1 ELSE None]
      /\ dirs \in [Name -> {1, None}]
      /\ dirs[Default] = 1
      /\ \A n \in Name : dirs[n] # None => n = Default
  BY <1>1 DEF Init
<1>7. stored = << >> /\ DOMAIN stored = {} /\ stored \in Seq({1, None}) /\ Len(stored) = 0
  BY DEF Init
<1>8. TypeOK
  <2>1. /\ born \in Seq(Name) /\ dirs \in [Name -> Profile \cup {None}]
        /\ stored \in Seq(Profile \cup {None})
    <3>1. {1, None} = Profile \cup {None}
      BY <1>5
    <3> QED BY <3>1, <1>4, <1>6, <1>7
  <2>2. /\ bases \in [Name -> Profile \cup {None}]
        /\ registry \subseteq Row /\ known \subseteq Name /\ default \in known \cup {None}
        /\ unrecorded \subseteq Profile /\ deleted \subseteq Profile /\ freed \subseteq Name
    BY DEF Init
  <2>3. /\ pc \in [Task -> Step]
        /\ arg \in [Task -> Name \cup DOMAIN stored \cup {None}]
        /\ report \in [Task -> SUBSET Name]
        /\ after \in [Task -> {"idle", "moveOut", "setDefault"}]
        /\ overlapped \in [Task -> BOOLEAN]
    BY DEF Init, Step
  <2> QED BY <2>1, <2>2, <2>3 DEF TypeOK
<1>9. DirsInv /\ StoredInv /\ KeptInv /\ ArchivedIsRegistered
  <2>1. DirsInv
    BY <1>1, <1>4, <1>6 DEF DirsInv
  <2>2. StoredInv /\ ArchivedIsRegistered
    BY <1>7 DEF StoredInv, ArchivedIsRegistered
  <2>3. KeptInv
    BY <1>4, <1>5, <1>6 DEF KeptInv
  <2> QED BY <2>1, <2>2, <2>3
<1>10. RowsInv
  BY <1>7, ProfilesAssumption DEF Init, RowsInv
<1>11. \A t \in Task : pc[t] = "idle"
  BY DEF Init
<1>12. RecordingInv /\ ForgettingInv /\ CommandInv /\ ReportInv
  BY <1>1, <1>11 DEF RecordingInv, Recording, ForgettingInv, CommandInv, ReportInv, ListingSteps
<1>13. \A n \in Name : BaseInv(n)
  BY DEF Init, BaseInv
<1> QED BY <1>8, <1>9, <1>10, <1>12, <1>13 DEF IInv

(* Every step of the client keeps the invariant. *)
LEMMA NextKeeps == ASSUME IInv, Next PROVE IInv'
<1>1. ASSUME NEW t \in Task,
             Discover(t) \/ Register(t) \/ ChooseDefault(t) \/ SetDefault(t) \/ ListingFails(t)
      PROVE  IInv'
  BY <1>1, DiscoverKeeps, RegisterKeeps, ChooseDefaultKeeps, SetDefaultKeeps, ListingFailsKeeps
<1>2. CASE View
  BY <1>2, BeginListKeeps, TaskNames DEF View
<1>3. ASSUME NEW n \in Name,
             BeginSetDefault(n) \/ CreateProfile(n) \/ Sync(n) \/ BeginArchive(n)
      PROVE  IInv'
  <2>1. CASE BeginSetDefault(n)
    BY <2>1, BeginListKeeps, TaskNames DEF BeginSetDefault
  <2>2. CASE BeginArchive(n)
    BY <2>2, BeginListKeeps, TaskNames DEF BeginArchive
  <2> QED BY <1>3, <2>1, <2>2, CreateProfileKeeps, SyncKeeps
<1>4. ASSUME NEW row \in registry, MoveIn(row) \/ RemoveArchive(row)
      PROVE  IInv'
  BY <1>4, MoveInKeeps, RemoveArchiveKeeps
<1>5. CASE EnsureProfile \/ MoveOut \/ Record \/ RecordFails \/ MoveBack
  BY <1>5, EnsureProfileKeeps, MoveOutKeeps, RecordKeeps, RecordFailsKeeps, MoveBackKeeps
<1>6. CASE ForgetRestored \/ ForgetDeleted \/ DeleteFails \/ Crash
  BY <1>6, ForgetRestoredKeeps, ForgetDeletedKeeps, DeleteFailsKeeps, CrashKeeps
<1> QED BY <1>1, <1>2, <1>3, <1>4, <1>5, <1>6 DEF Next

(* Nothing changes in a step of something else. *)
LEMMA StutterKeeps == ASSUME IInv, UNCHANGED vars PROVE IInv'
<1>1. UNCHANGED <<dirs, stored, registry, known, default, bases, pc, arg, report, after,
                  overlapped, born, unrecorded, deleted, freed>>
  BY DEF vars
<1>2. TypeOK'
  BY <1>1 DEF IInv, TypeOK, Profile
<1>3. CommandInv' /\ ReportInv'
  BY <1>1 DEF IInv, CommandInv, ReportInv, Live
<1> QED BY <1>1, <1>2, <1>3, CalmStep

(* The invariant holds in every state the client can be in. *)
LEMMA InvariantHolds == Spec => []IInv
<1>1. IInv /\ [Next]_vars => IInv'
  BY NextKeeps, StutterKeeps
<1> QED BY <1>1, InitKeeps, PTL DEF Spec

-----------------------------------------------------------------------------
(***************************************************************************)
(* The theorems                                                            *)
(***************************************************************************)

(* Every variable of the client's profiles has its type in every state,    *)
(* whatever fails or crashes.                                              *)
THEOREM TypeCorrect == Spec => []TypeOK
<1>1. IInv => TypeOK
  BY DEF IInv
<1> QED BY <1>1, InvariantHolds, PTL

(* A profile that was not deleted is in exactly one place. *)
LEMMA OnePlace ==
  ASSUME IInv, NEW i \in Profile \ deleted
  PROVE  Cardinality(Places(i)) = 1 /\ \A n \in Name : dirs[n] = i => n = born[i]
<1>1. born[i] \in Name /\ i # None
  BY PlaceFacts DEF IInv
<1>2. \A n \in Name : dirs[n] = i => n = born[i]
  BY <1>1 DEF IInv, DirsInv
<1>3. \A a \in DOMAIN stored : stored[a] = i =>
        dirs[born[i]] # i /\ \A b \in DOMAIN stored : stored[b] = i => b = a
  BY <1>1 DEF IInv, StoredInv
<1>4. PICK n : n = born[i]
  OBVIOUS
<1>5. CASE dirs[n] = i
  <2>1. {m \in Name : dirs[m] = i} = {n}
    BY <1>1, <1>2, <1>4, <1>5
  <2>2. {b \in DOMAIN stored : stored[b] = i} = {}
    BY <1>3, <1>4, <1>5
  <2>3. Places(i) = {<<"dir", n>>}
    BY <2>1, <2>2 DEF Places
  <2> QED BY <2>3, <1>2, FS_Singleton
<1>6. CASE \E a \in DOMAIN stored : stored[a] = i
  <2>1. PICK a \in DOMAIN stored : stored[a] = i
    BY <1>6
  <2>2. {m \in Name : dirs[m] = i} = {}
    BY <1>2, <1>3, <2>1
  <2>3. {b \in DOMAIN stored : stored[b] = i} = {a}
    BY <1>3, <2>1
  <2>4. Places(i) = {<<"archive", a>>}
    BY <2>2, <2>3 DEF Places
  <2> QED BY <2>4, <1>2, FS_Singleton
<1> QED BY <1>4, <1>5, <1>6 DEF IInv, KeptInv

(* A profile the user has not deleted is in one place, its own directory or *)
(* one archive, whichever rename, statement or clean-up fails and wherever *)
(* the client stops.                                                       *)
THEOREM ProfilesAreKept == Spec => []EveryProfileIsKept
<1>1. IInv => EveryProfileIsKept
  BY OnePlace DEF EveryProfileIsKept
<1> QED BY <1>1, InvariantHolds, PTL

(* Every archive that holds a profile has its row, under the name it came  *)
(* from, unless archiving was cut off between the rename and the row.      *)
THEOREM ArchivesAreListed == Spec => []ArchivedIsRegistered
<1>1. IInv => ArchivedIsRegistered
  BY DEF IInv
<1> QED BY <1>1, InvariantHolds, PTL

(* The base a sync merges with under the name of a directory is that of the *)
(* profile in it, or the name was freed by a deletion or a cut off.        *)
THEOREM BasesAreTheirOwn == Spec => []BaseIsItsOwn
<1>1. IInv => BaseIsItsOwn
  BY DEF IInv, BaseInv, BaseIsItsOwn, Live
<1> QED BY <1>1, InvariantHolds, PTL

(* The listing that ends here, undisturbed, has found what is there. *)
LEMMA ListingRepairs ==
  ASSUME IInv, NEW t \in Task, Register(t) \/ ChooseDefault(t),
         pc'[t] # "chooseDefault", report[t] # {}, ~overlapped[t]
  PROVE  default' \in Live'
<1>1. report[t] = Live
  BY DEF Register, ChooseDefault, IInv, ReportInv
<1>2. Live' = Live
  BY DEF Register, ChooseDefault, files, Live
<1>3. CASE Register(t)
  <2>1. pc[t] = "register" /\ default' = default
    BY <1>3 DEF Register
  <2>2. CASE DefaultIsPresent(t)
    BY <2>1, <2>2, <1>1, <1>2 DEF DefaultIsPresent
  <2>3. CASE Goto(t, "chooseDefault")
    <3>1. pc'[t] = "chooseDefault"
      BY <2>3, GotoFacts DEF IInv, Step
    <3> QED BY <3>1
  <2> QED BY <1>3, <2>2, <2>3 DEF Register
<1>4. CASE ChooseDefault(t)
  BY <1>1, <1>2, <1>4 DEF ChooseDefault
<1> QED BY <1>3, <1>4

(* A listing of at least one profile that nothing overlapped ends with a   *)
(* default whose directory is there.                                       *)
THEOREM ListingsRepairDefault == Spec => ListingRepairsDefault
<1>1. IInv /\ [Next]_vars =>
        [\A t \in Task :
           /\ Register(t) \/ ChooseDefault(t)
           /\ pc'[t] # "chooseDefault"
           /\ report[t] # {}
           /\ ~overlapped[t]
           => default' \in Live']_vars
  BY ListingRepairs
<1> QED BY <1>1, InvariantHolds, PTL DEF Spec, ListingRepairsDefault
=============================================================================
