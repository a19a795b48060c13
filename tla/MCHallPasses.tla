------------------------------ MODULE MCHallPasses ------------------------------
(* A small instance of HallPasses with requests of every kind. *)
EXTENDS HallPasses

AllKinds == {"create", "limit", "redeem", "invalidate", "email"}
==============================================================================
