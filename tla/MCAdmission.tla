------------------------------ MODULE MCAdmission ------------------------------
(* Small instances of Admission: an older and a newer backup suffice to lose what is between. *)
EXTENDS Admission, TLC

Symmetry == Permutations(Attendees) \cup Permutations(Operations) \cup Permutations(Requests)
              \cup Permutations(Backups)
==============================================================================
