---------------------------- MODULE MCSyncServer ----------------------------
(***************************************************************************)
(* SyncServer on a small instance: the requests that meet, overtake and    *)
(* invalidate each other on two objects.                                   *)
(***************************************************************************)
EXTENDS SyncServer

CONSTANTS d1, d2, o1, o2, n1, n2, e1, e2

PutRequest(o, d, b, n, e) ==
  [kind |-> "put", object |-> o, namespace |-> n, device |-> d,
   base |-> b, envelope |-> e]

DeleteRequest(o, d, b) ==
  [kind |-> "delete", object |-> o, device |-> d, base |-> b]

(* Creations and updates that race for the same revisions, deletions,      *)
(* resurrections, batches that fail in the middle, batches that write one   *)
(* object twice, malformed operations, a change of namespace, two batches   *)
(* that conflict, and a device that is refused what another may write.      *)
MCRequest ==
  {<<PutRequest(o1, d1, b, n1, e1)>> : b \in {NoBase, 1, 2}}
  \cup {<<DeleteRequest(o1, d1, b)>> : b \in {1, 2}}
  \cup {<<PutRequest(o2, d1, NoBase, n1, e1), PutRequest(o1, d1, 1, n2, e2)>>,
        <<PutRequest(o1, d1, NoBase, n2, e2), DeleteRequest(o1, d1, 1)>>,
        <<PutRequest(o2, d1, NoBase, n1, e1), PutRequest(o2, d1, 1, n1, Malformed)>>}
  \cup {<<PutRequest(o1, d2, 1, n1, e2)>>,
        <<PutRequest(o2, d2, NoBase, n1, e1), PutRequest(o1, d2, 1, n1, e2)>>}
=============================================================================
