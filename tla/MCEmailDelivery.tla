--------------------------- MODULE MCEmailDelivery ---------------------------
(* Small instances of EmailDelivery. *)
EXTENDS EmailDelivery, TLC

Symmetry == Permutations(Workers)
==============================================================================
