------------------------------ MODULE MCRsvp ------------------------------
(* Two households that answer for one place, and one household whose        *)
(* answers, grants and passes change under its open page.                   *)
EXTENDS Rsvp
TwoHouseholds == {"a", "b"}
ThreeGuests == {"a1", "a2", "b1"}
ThreeParties == [g \in ThreeGuests |-> IF g = "b1" THEN "b" ELSE "a"]
OneGuest == [g \in {"a1"} |-> "a"]
PlainReplies == [choice: {"attending", "declining"}, renames: {FALSE}]
RenamingReplies == {[choice |-> "attending", renames |-> FALSE], [choice |-> "declining", renames |-> TRUE]}
LastPlaceInit == /\ RsvpInit /\ event.capacity = 1 /\ event.approval = "automatic"
                 /\ page["d1"].home = "a" /\ page["d2"].home = "b"
LastPlaceSpec == LastPlaceInit /\ [][RsvpNext]_rsvpVars
===========================================================================
