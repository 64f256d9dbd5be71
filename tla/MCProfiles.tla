----------------------------- MODULE MCProfiles -----------------------------
(* Profiles: "Default" and "Profile 1", which is created twice. *)
EXTENDS Profiles
=============================================================================
