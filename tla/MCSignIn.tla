------------------------------ MODULE MCSignIn ------------------------------
(* SignIn where the server already holds a copy of another profile. *)
EXTENDS SignIn, TLC

Symmetry == Permutations(Device) \cup Permutations(Endpoint)

MCPreloaded ==
  <<[kind |-> "ext", profile |-> "other", key |-> Shared, horizon |-> 0],
    [kind |-> "book", profile |-> "other", key |-> Shared, horizon |-> 0]>>
=============================================================================
