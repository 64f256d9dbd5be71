----------------------------- MODULE ChangeFeed -----------------------------
(***************************************************************************)
(* The change feed of the server, a page at a time, and what a client that *)
(* looks for an object collects from its pages: the changes handler of     *)
(* api.rs and the paging loop that discover_bookmarks and                  *)
(* discover_extension_bundle share.                                        *)
(*                                                                         *)
(* The feed is the sequence of the changed objects, the cursor of a change *)
(* its index.  A discovery keeps for each object the last change it saw.   *)
(***************************************************************************)
EXTENDS Naturals, Sequences

Smaller(m, n) == IF m <= n THEN m ELSE n

(* Wrong: LIMIT without the row that tells whether there are more. *)
PageWithoutExtraRow(feed, after, limit) ==
  [cursors |-> {i \in DOMAIN feed : after < i /\ i <= after + limit},
   next    |-> IF Len(feed) > after THEN Smaller(after + limit, Len(feed)) ELSE after,
   more    |-> Len(feed) > after + limit + 1]

(* The rows after a cursor, at most limit of them, and whether there are more. *)
Page(feed, after, limit) ==
  [cursors |-> {i \in DOMAIN feed : after < i /\ i <= after + limit},
   next    |-> IF Len(feed) > after THEN Smaller(after + limit, Len(feed)) ELSE after,
   more    |-> Len(feed) > after + limit]

(* The last of cursors at which object o changed. *)
LastChange(feed, cursors, o) ==
  CHOOSE i \in cursors : feed[i] = o /\ \A j \in cursors : feed[j] = o => j <= i

(* candidates with the changes of a page inserted, those of Wanted only. *)
Collect(candidates, feed, cursors, Wanted) ==
  LET changed == {feed[i] : i \in cursors} \cap Wanted
  IN  [o \in DOMAIN candidates \cup changed |->
         IF o \in changed THEN LastChange(feed, cursors, o) ELSE candidates[o]]

NoCandidates == [o \in {} |-> 0]

(* The candidate to be tried first: the one changed last. *)
IsNewest(candidates, o) ==
  /\ o \in DOMAIN candidates
  /\ \A p \in DOMAIN candidates : candidates[p] <= candidates[o]

Without(candidates, o) == [p \in DOMAIN candidates \ {o} |-> candidates[p]]
=============================================================================
