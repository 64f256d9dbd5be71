--------------------------- MODULE MCBookmarkSync ---------------------------
(* BookmarkSync with interchangeable devices and bookmarks. *)
EXTENDS BookmarkSync, TLC

Symmetry == Permutations(Device) \cup Permutations(Bookmark)
=============================================================================
