--------------------------- MODULE MergeBookmarks ---------------------------
(***************************************************************************)
(* merge_bookmarks of helium-sync-profile: the three-way merge of the      *)
(* bookmark trees of a profile (local) and of the server (remote) against  *)
(* the snapshot both last agreed on (base), and the edits two users make   *)
(* between two syncs, on which it is checked.                              *)
(*                                                                         *)
(* A node is a record [id, kind, name, url, children]; a URL has no        *)
(* children and a folder no url.  An Option<BookmarkNode> is a set of at   *)
(* most one node.  The dates of a node are merged like its name and are    *)
(* left out.  Roots are merged by their key as siblings are by their id; a *)
(* root's key and id name the same permanent folder, so a snapshot is a    *)
(* sequence of nodes.                                                      *)
(***************************************************************************)
EXTENDS Integers, FiniteSetsExt, SequencesExt

CONSTANTS
  Id,        \* the ids browsers give to nodes
  Name, Url, \* values of the two scalar fields
  NoUrl,     \* the url of a folder
  MaxDepth,  \* bound on the depth of the trees, a root alone is of depth 1
  Root,      \* the id of the permanent folder
  Seed,      \* the profile the edits start from
  NewValue,  \* kind, name and url of new nodes
  MaxEdits   \* edits of the two users together

Kind == {"folder", "url"}

\* What a browser says of a node, its place in the tree apart
Value == [kind : Kind, name : Name, url : Url \cup {NoUrl}]

\* The lists of children: each node in one place, the root in none
Placed(nodes, kids) ==
  /\ kids \in [nodes -> Seq(nodes \ {Root})]
  /\ \A f, g \in nodes : \A i \in DOMAIN kids[f], j \in DOMAIN kids[g] :
       kids[f][i] = kids[g][j] => f = g /\ i = j

(***************************************************************************)
(* A browser's bookmarks: node[id] is a node's kind, name and url,         *)
(* kids[id] the list of its children.  An id is unique in its profile.     *)
(***************************************************************************)
IsProfile(p) ==
  /\ p = [node |-> p.node, kids |-> p.kids]
  /\ DOMAIN p.node \subseteq Id
  /\ p.node \in [DOMAIN p.node -> Value]
  /\ Placed(DOMAIN p.node, p.kids)
  /\ Root \in DOMAIN p.node

ASSUME SeedAssumption == IsProfile(Seed)

ASSUME NewValueAssumption == NewValue \subseteq Value

\* No tree of a profile is deeper than it has nodes
ASSUME DepthAssumption == IsFiniteSet(Id) /\ MaxDepth \in Nat /\ Cardinality(Id) <= MaxDepth

VARIABLES
  base,      \* the snapshot of the last sync, none if that is not known
  profile,   \* the bookmarks as the browsers of the two sides hold them
  edits      \* the number of edits, for the bound

vars == <<base, profile, edits>>

Side == {"local", "remote"}

-----------------------------------------------------------------------------
(* The merge.                                                              *)

Scalars == {"name", "url"}

Option(S) == {o \in SUBSET S : \A x, y \in o : x = y}

The(option) == CHOOSE x \in option : TRUE

\* The nodes of one folder: their ids differ
Siblings(S) == {nodes \in Seq(S) : \A i, j \in DOMAIN nodes : nodes[i].id = nodes[j].id => i = j}

\* The trees of at most a depth
Node[d \in Nat] ==
  IF d = 0 THEN {} ELSE [id : Id, kind : Kind, name : Name, url : Url \cup {NoUrl},
                         children : Siblings(Node[d - 1])]

\* What base, local and remote hold in one place
Versions(d) == Option(Node[d]) \X Option(Node[d]) \X Option(Node[d])

IdsOf(nodes) == [i \in DOMAIN nodes |-> nodes[i].id]

\* node_map and get
Lookup(nodes, id) == {n \in ToSet(nodes) : n.id = id}

\* The ids of all siblings in the order they are read
SiblingIds(from, local, remote) == IdsOf(remote) \o IdsOf(local) \o IdsOf(from)

\* A plausible bug: the remote value is taken whoever made the edit
RemoteValue(from, local, remote) == remote

\* A plausible bug: two edits of one field fall back to the common value
CommonValue(from, local, remote) ==
  IF from = {} \/ from = {local} \/ local = remote THEN remote
  ELSE IF from = {remote} THEN local ELSE The(from)

\* `from' is the value in the base, in a set of at most one
MergeValue(from, local, remote) == IF from = {remote} THEN local ELSE remote

\* A plausible bug: without a common value there is nothing to conflict with
ConflictWithBaseOnly(from, local, remote) ==
  local # remote /\ from \notin {{}, {local}, {remote}}

ValueConflict(from, local, remote) == local # remote /\ from \notin {{local}, {remote}}

\* A plausible bug: a deletion wins over a change
DeletionWins(local, remote) == [node |-> {}, conflicts |-> 1]

\* A plausible bug: only the change of the remote side is kept
KeepRemoteChange(local, remote) == [node |-> remote, conflicts |-> 1]

\* One side deleted what the other changed: the changed node stays
KeepChanged(local, remote) == [node |-> local \cup remote, conflicts |-> 1]

\* The sum of a function's values: as many pairs <<x, n>> with n in 1..f[x]
Total(f) == Cardinality(UNION {{x} \X (1..f[x]) : x \in DOMAIN f})

\* The elements of a finite set of numbers in ascending order
Ascending(S) ==
  [k \in 1..Cardinality(S) |-> CHOOSE i \in S : Cardinality({j \in S : j <= i}) = k]

\* The ids of all siblings, once each, in the order they are first met; `merge'
\* is MergeOptional for the nodes under them
MergeChildren(merge, from, local, remote) ==
  LET ids    == SiblingIds(from, local, remote)
      merged == [id \in ToSet(ids) |->
                   merge[<<Lookup(from, id), Lookup(local, id), Lookup(remote, id)>>]]
      kept   == {i \in DOMAIN ids : /\ \A j \in 1..(i - 1) : ids[j] # ids[i]
                                    /\ merged[ids[i]].node # {}}
      order  == Ascending(kept)
  IN  [nodes     |-> [k \in DOMAIN order |-> The(merged[ids[order[k]]].node)],
       conflicts |-> Total([id \in ToSet(ids) |-> merged[id].conflicts])]

MergePresent(merge, from, local, remote) ==
  IF local.id # remote.id \/ local.kind # remote.kind
  THEN [node |-> {remote}, conflicts |-> 1]
  ELSE LET was(field) == {b[field] : b \in {n \in from : n.id = local.id
                                                         /\ n.kind = local.kind}}
           kids == MergeChildren(merge, IF was("children") = {} THEN <<>> ELSE The(was("children")),
                                 local.children, remote.children)
       IN  [node      |-> {[local EXCEPT !.name = MergeValue(was("name"), @, remote.name),
                                         !.url = MergeValue(was("url"), @, remote.url),
                                         !.children = kids.nodes]},
            conflicts |-> kids.conflicts
              + Cardinality({f \in Scalars : ValueConflict(was(f), local[f], remote[f])})]

MergeOptional(merge, from, local, remote) ==
  CASE local = remote \/ remote = from -> [node |-> local, conflicts |-> 0]
    [] local = from /\ local # remote  -> [node |-> remote, conflicts |-> 0]
    [] OTHER -> IF local # {} /\ remote # {}
                THEN MergePresent(merge, from, The(local), The(remote))
                ELSE KeepChanged(local, remote)

\* The recursion: trees of depth d with the merge of their children
MergeAt[d \in Nat] ==
  [v \in Versions(d) |->
     IF d = 0 THEN [node |-> {}, conflicts |-> 0]
     ELSE MergeOptional(MergeAt[d - 1], v[1], v[2], v[3])]

\* merge_bookmarks: without a base every node is new on both sides
Merge(from, local, remote) ==
  MergeChildren(MergeAt[MaxDepth], IF from = {} THEN <<>> ELSE The(from), local, remote)

-----------------------------------------------------------------------------
(* What read_bookmarks reads, and the edits of a user.                     *)

\* The tree under each node, cut off d levels below it
Trees(p) ==
  LET tree[d \in Nat] ==
        [id \in DOMAIN p.node |->
           [id |-> id, kind |-> p.node[id].kind, name |-> p.node[id].name,
            url |-> p.node[id].url,
            children |-> IF d = 0 THEN <<>>
                         ELSE [i \in DOMAIN p.kids[id] |-> tree[d - 1][p.kids[id][i]]]]]
  IN  tree

\* read_bookmarks
Snapshot(p) == <<Trees(p)[MaxDepth - 1][Root]>>

NewId == Id \ DOMAIN Seed.node

Folders(p) == {id \in DOMAIN p.node : p.node[id].kind = "folder"}

\* The nodes that are in every set with id and the children of its members
Subtree(p, id) ==
  {n \in DOMAIN p.node :
     \A S \in SUBSET DOMAIN p.node :
       id \in S /\ (\A f \in S : ToSet(p.kids[f]) \subseteq S) => n \in S}

Without(ids, id) ==
  IF Contains(ids, id) THEN RemoveAt(ids, CHOOSE i \in DOMAIN ids : ids[i] = id) ELSE ids

Detach(p, id) == [f \in DOMAIN p.kids |-> Without(p.kids[f], id)]

Edit(side, p) ==
  /\ edits < MaxEdits
  /\ edits' = edits + 1
  /\ profile' = [profile EXCEPT ![side] = p]
  /\ UNCHANGED base

AddNode(side) ==
  LET p == profile[side]
  IN  \E id \in NewId \ DOMAIN p.node, folder \in Folders(p), value \in NewValue :
        LET nodes == DOMAIN p.node \cup {id}
        IN  Edit(side, [node |-> [n \in nodes |-> IF n = id THEN value ELSE p.node[n]],
                        kids |-> [n \in nodes |-> CASE n = id     -> <<>>
                                                    [] n = folder -> Append(p.kids[n], id)
                                                    [] OTHER      -> p.kids[n]]])

DeleteNode(side) ==
  LET p == profile[side]
  IN  \E id \in DOMAIN p.node \ {Root} :
        LET left == DOMAIN p.node \ Subtree(p, id)
        IN  Edit(side, [node |-> [n \in left |-> p.node[n]],
                        kids |-> [n \in left |-> Detach(p, id)[n]]])

RenameNode(side) ==
  LET p == profile[side]
  IN  \E id \in DOMAIN p.node \ {Root}, name \in Name :
        /\ p.node[id].name # name
        /\ Edit(side, [p EXCEPT !.node[id].name = name])

ChangeUrl(side) ==
  LET p == profile[side]
  IN  \E id \in DOMAIN p.node \ Folders(p), url \in Url :
        /\ p.node[id].url # url
        /\ Edit(side, [p EXCEPT !.node[id].url = url])

\* To the end of another folder or of its own
MoveNode(side) ==
  LET p == profile[side]
  IN  \E id \in DOMAIN p.node \ {Root} :
      \E folder \in Folders(p) \ Subtree(p, id) :
        LET kids == [Detach(p, id) EXCEPT ![folder] = Append(@, id)]
        IN  kids # p.kids /\ Edit(side, [p EXCEPT !.kids = kids])

\* A profile is synced the first time, or after its base was lost, with none
Init ==
  /\ base \in {{}, {Snapshot(Seed)}}
  /\ profile = [side \in Side |-> Seed]
  /\ edits = 0

Next ==
  \E side \in Side :
    \/ AddNode(side)
    \/ DeleteNode(side)
    \/ RenameNode(side)
    \/ ChangeUrl(side)
    \/ MoveNode(side)

Spec == Init /\ [][Next]_vars

-----------------------------------------------------------------------------
(* What is said of a merge, path by path.  A path is the sequence of ids   *)
(* from the root to a node, a place a path and the node there.             *)

\* The places k levels down
Levels(nodes) ==
  LET level[k \in Nat] ==
        IF k = 0 THEN {<<<<>>, [children |-> nodes]>>}
        ELSE UNION {{<<Append(e[1], n.id), n>> : n \in ToSet(e[2].children)} : e \in level[k - 1]}
  IN  level

Places(nodes) == UNION {Levels(nodes)[k] : k \in 1..MaxDepth}

PathsOf(places) == {e[1] : e \in places}

\* The nodes at a path: at most one where siblings have different ids
At(places, path) == {e[2] : e \in {e \in places : e[1] = path}}

Field(places, path, f) == {n[f] : n \in At(places, path)}

Edited(from, side, path, f) == Field(side, path, f) \notin {{}, Field(from, path, f)}

Above(path) == {SubSeq(path, 1, n) : n \in 1..Len(path)}

\* The two browsers used one id in one folder for nodes of different kinds
KindClash(local, remote, path) ==
  \E p \in Above(path) : /\ At(local, p) # {} /\ At(remote, p) # {}
                         /\ Field(local, p, "kind") # Field(remote, p, "kind")

\* Where a side's tree ends on the way to a path
FirstMissing(side, path) ==
  CHOOSE p \in Above(path) \ PathsOf(side) :
    \A q \in Above(path) \ PathsOf(side) : Len(p) <= Len(q)

\* What `other' lacks on the way to a path was changed, or created, by `side'
Changed(from, side, other, path) ==
  LET p == FirstMissing(other, path) IN At(side, p) # At(from, p)

\* A node one side does not have is in the result iff the part of the tree
\* that side lacks was changed, or created, by the other
Survives(from, local, remote, path) ==
  \/ path \in PathsOf(local) \cap PathsOf(remote)
  \/ path \in PathsOf(local) \ PathsOf(remote) /\ Changed(from, local, remote, path)
  \/ path \in PathsOf(remote) \ PathsOf(local) /\ Changed(from, remote, local, path)

Local == Snapshot(profile["local"])
Remote == Snapshot(profile["remote"])
Base == IF base = {} THEN <<>> ELSE The(base)
Merged == Merge(base, Local, Remote)

-----------------------------------------------------------------------------
(* Properties.                                                             *)

\* merge_bookmarks keeps a field edited by one side, and of a field edited by
\* both the remote value: no edit is undone because of another one, wherever in
\* the tree the other side edited, deleted or moved (lib.rs:477-481).
EditsSurvive ==
  LET from == Places(Base)  local == Places(Local)  remote == Places(Remote)
      merged == Places(Merged.nodes)
  IN  \A path \in PathsOf(local) \cup PathsOf(remote), f \in Scalars :
        ~KindClash(local, remote, path) =>
          /\ Edited(from, remote, path, f) => Field(merged, path, f) = Field(remote, path, f)
          /\ Edited(from, local, path, f) /\ ~Edited(from, remote, path, f) =>
               Field(merged, path, f) = Field(local, path, f)

\* The places of the merged tree are those a path-by-path reference computes:
\* a deletion takes effect unless what it deleted was changed, additions and
\* changed subtrees stay, and nothing else appears (merge_optional_node).
SurvivorsAreExact ==
  LET from == Places(Base)  local == Places(Local)  remote == Places(Remote)
      merged == PathsOf(Places(Merged.nodes))
  IN  \A path \in PathsOf(local) \cup PathsOf(remote) \cup merged :
        ~KindClash(local, remote, path) =>
          (path \in merged <=> Survives(from, local, remote, path))

\* A sync that reports no conflict has lost no edit and undone no deletion of
\* either side (the count sync_profile_with_server shows to the user).
ConflictsAreCounted ==
  LET from == Places(Base)  local == Places(Local)  remote == Places(Remote)
      merged == Places(Merged.nodes)
  IN  Merged.conflicts = 0 =>
        /\ \A side \in {local, remote} : \A path \in PathsOf(side), f \in Scalars :
             Edited(from, side, path, f) => Field(merged, path, f) = Field(side, path, f)
        /\ PathsOf(from) \cap PathsOf(merged) \subseteq PathsOf(local) \cap PathsOf(remote)

\* A sync that ended after its upload and before it saved the base merges again
\* from the old base: what it uploaded is merged with the same local profile,
\* and nothing may change any more (main.rs:1240-1265).
ResumedMergeIsStable ==
  LET merged == Merged.nodes IN Merge(base, Local, merged).nodes = merged

\* Which device syncs first decides between two values of a field, and nothing
\* else: the same places survive and the same conflicts are counted.
SidesAreEqual ==
  LET there == Merged  back == Merge(base, Remote, Local)
      local == Places(Local)  remote == Places(Remote)
      ways == PathsOf(Places(there.nodes))  returns == PathsOf(Places(back.nodes))
  IN  /\ there.conflicts = back.conflicts
      /\ \A path \in ways \cup returns :
           ~KindClash(local, remote, path) => path \in ways \cap returns

\* README.md:7 "Independent bookmark additions, edits, and deletions are
\* reconciled": the name and url of a bookmark added to a synced profile are
\* in the merged one.
AdditionsSurvive ==
  LET urls(nodes) == {n \in {e[2] : e \in Places(nodes)} : n.kind = "url"}
      merged == urls(Merged.nodes)
  IN  base # {} =>
        \A n \in urls(Local) : n.id \in NewId => \E m \in merged : m.name = n.name /\ m.url = n.url
=============================================================================
