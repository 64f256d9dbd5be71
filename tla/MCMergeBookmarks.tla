-------------------------- MODULE MCMergeBookmarks --------------------------
(* MergeBookmarks from a profile with a folder, a bookmark in it and a      *)
(* bookmark beside it.                                                      *)
EXTENDS MergeBookmarks

Folder(name) == [kind |-> "folder", name |-> name, url |-> "none"]
Bookmark(name, url) == [kind |-> "url", name |-> name, url |-> url]

MCSeed ==
  [node |-> "bar" :> Folder("a") @@ "dir" :> Folder("a")
            @@ "u1" :> Bookmark("a", "x") @@ "u2" :> Bookmark("a", "x"),
   kids |-> "bar" :> <<"dir", "u2">> @@ "dir" :> <<"u1">> @@ "u1" :> <<>> @@ "u2" :> <<>>]

MCNewValue == {Folder("a"), Bookmark("b", "y")}
=============================================================================
