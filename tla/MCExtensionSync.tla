-------------------------- MODULE MCExtensionSync --------------------------
(* ExtensionSync with interchangeable devices and edited archives. *)
EXTENDS ExtensionSync, TLC

Symmetry == Permutations(Device) \cup Permutations(Archive \ {Blank})
=============================================================================
