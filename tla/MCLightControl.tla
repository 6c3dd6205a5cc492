--------------------------- MODULE MCLightControl ---------------------------
(* Instances of LightControl for TLC; the values are in the .cfg files. *)
EXTENDS LightControl, TLC

Symmetry == Permutations(Client)

=============================================================================
