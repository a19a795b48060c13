------------------------------ MODULE RsvpProofs ------------------------------
(***************************************************************************)
(* Places and passes of Rsvp, proved for every number of households, guests *)
(* and devices, every capacity and every bound: however submissions, staff, *)
(* the worker and the door interleave, confirmed_count counts the           *)
(* reservations and stays within the capacity, and a pass that opens the    *)
(* door belongs to an expected guest.                                       *)
(***************************************************************************)
EXTENDS Rsvp, FiniteSetTheorems, TLAPS

-----------------------------------------------------------------------------
(* The inductive invariant                                                    *)

\* What the places and the passes are made of; locks, keys and pages are left out, for
\* the decisions are taken from the rows under the event's lock alone.
RowsOK ==
  /\ event \in [capacity: Nat, approval: {"automatic", "manual"}, admission: Policies,
                count: Nat, phase: {"open", "closed", "archived"}, version: Nat]
  /\ guest \in [Guests -> [version: Nat, named: BOOLEAN, removed: BOOLEAN]]
  /\ rsvp \in [Guests -> [state: States, version: Nat]]
  /\ \A g \in Guests : rsvp[g].version = 0 => rsvp[g].state = "unanswered"
  /\ reserved \subseteq Guests
  /\ pass \in [Guests -> {"none", "active", "revoked", "used"}]

Inv == RowsOK /\ PlacesHold /\ ActivePassIsExpected

rowVars == <<event, guest, rsvp, reserved, pass>>

-----------------------------------------------------------------------------
(* Lemmas                                                                     *)

LEMMA ReservedFinite ==
  ASSUME reserved \subseteq Guests
  PROVE  IsFiniteSet(reserved) /\ Cardinality(reserved) \in Nat
  BY PartiesAssumption, FS_Subset, FS_CardinalityType

\* Taking a place and giving one back move the count by one.
LEMMA OnePlace ==
  ASSUME RowsOK, NEW g \in Guests
  PROVE  /\ Cardinality(reserved \cup {g}) =
              IF g \in reserved THEN Cardinality(reserved) ELSE Cardinality(reserved) + 1
         /\ Cardinality(reserved \ {g}) =
              IF g \in reserved THEN Cardinality(reserved) - 1 ELSE Cardinality(reserved)
         /\ Cardinality(reserved \cap {g}) = IF g \in reserved THEN 1 ELSE 0
         /\ Cardinality(reserved) \in Nat
<1>1. IsFiniteSet(reserved) /\ Cardinality(reserved) \in Nat
  BY ReservedFinite DEF RowsOK
<1>2. CASE g \in reserved
  <2>1. reserved \cap {g} = {g}
    BY <1>2
  <2>2. Cardinality({g}) = 1
    BY FS_Singleton
  <2>3. Cardinality(reserved \cup {g}) = Cardinality(reserved)
    BY <1>1, <1>2, FS_AddElement
  <2>4. Cardinality(reserved \ {g}) = Cardinality(reserved) - 1
    BY <1>1, <1>2, FS_RemoveElement
  <2> QED
    BY <1>1, <1>2, <2>1, <2>2, <2>3, <2>4
<1>3. CASE g \notin reserved
  <2>1. reserved \cap {g} = {}
    BY <1>3
  <2> QED
    BY <1>1, <1>3, <2>1, FS_AddElement, FS_RemoveElement, FS_EmptySet
<1> QED
  BY <1>2, <1>3

\* Giving some places back and handing out others: disjoint sets add up.
LEMMA SomePlaces ==
  ASSUME RowsOK, NEW given, given \subseteq reserved,
         NEW placed, placed \subseteq Guests, placed \cap reserved = {}
  PROVE  /\ Cardinality((reserved \ given) \cup placed)
              = Cardinality(reserved) - Cardinality(given) + Cardinality(placed)
         /\ Cardinality(given) \in Nat /\ Cardinality(placed) \in Nat
         /\ Cardinality(given) <= Cardinality(reserved)
<1>1. IsFiniteSet(reserved) /\ Cardinality(reserved) \in Nat
  BY ReservedFinite DEF RowsOK
<1>2. IsFiniteSet(given) /\ Cardinality(given) \in Nat /\ Cardinality(given) <= Cardinality(reserved)
  BY <1>1, FS_Subset, FS_CardinalityType
<1>3. IsFiniteSet(placed) /\ Cardinality(placed) \in Nat
  BY PartiesAssumption, FS_Subset, FS_CardinalityType
<1>4. /\ IsFiniteSet(reserved \ given)
      /\ Cardinality(reserved \ given) = Cardinality(reserved) - Cardinality(given)
  <2>1. reserved \cap given = given
    OBVIOUS
  <2> QED
    BY <1>1, <1>2, <2>1, FS_Difference
<1>5. Cardinality((reserved \ given) \cup placed)
        = Cardinality(reserved \ given) + Cardinality(placed) - Cardinality((reserved \ given) \cap placed)
  BY <1>3, <1>4, FS_Union
<1>6. Cardinality((reserved \ given) \cap placed) = 0
  <2>1. (reserved \ given) \cap placed = {}
    OBVIOUS
  <2> QED
    BY <2>1, FS_EmptySet
<1> QED
  BY <1>1, <1>2, <1>3, <1>4, <1>5, <1>6

-----------------------------------------------------------------------------
(* The steps                                                                  *)

LEMMA InitInv == RsvpInit => Inv
<1> SUFFICES ASSUME RsvpInit PROVE Inv
  OBVIOUS
<1>1. RowsOK
  BY BoundsAssumption DEF RsvpInit, RowsOK, States
<1>2. PlacesHold
  BY BoundsAssumption, FS_EmptySet DEF RsvpInit, PlacesHold
<1>3. ActivePassIsExpected
  BY DEF RsvpInit, ActivePassIsExpected
<1> QED
  BY <1>1, <1>2, <1>3 DEF Inv

LEMMA RowsKept == Inv /\ UNCHANGED rowVars => Inv'
  BY DEF Inv, RowsOK, PlacesHold, ActivePassIsExpected, Eligible, rowVars

\* A submission: the declined give their places back, some who attend get one.
LEMMA SavesInv ==
  ASSUME Inv, NEW d \in Devices, Saves(d)
  PROVE  Inv'
<1> DEFINE body == page[d].operation.body
           all  == DOMAIN body.answers
<1>1. /\ all \subseteq Guests
      /\ all = Attending(body) \cup Declining(body)
      /\ Attending(body) \cap Declining(body) = {}
  BY DEF Saves, Acceptable, Party, Attending, Declining
<1>2. PICK placed \in Placings(body) :
        /\ reserved' = (reserved \ Released(body)) \cup placed
        /\ event' = [event EXCEPT !.count = @ - Cardinality(Released(body)) + Cardinality(placed)]
        /\ rsvp' = [g \in Guests |-> IF g \in all
                      THEN [state |-> Answered(g, body, reserved'), version |-> rsvp[g].version + 1]
                      ELSE rsvp[g]]
  BY DEF Saves
<1>3. Released(body) = reserved \cap Declining(body)
  BY DEF Released
<1>4. placed \subseteq Attending(body) \ reserved
  BY <1>2 DEF Placings
<1>5. /\ Cardinality(reserved') = Cardinality(reserved) - Cardinality(Released(body)) + Cardinality(placed)
      /\ Cardinality(Released(body)) \in Nat /\ Cardinality(placed) \in Nat
      /\ Cardinality(Released(body)) <= Cardinality(reserved)
  BY <1>1, <1>2, <1>3, <1>4, SomePlaces DEF Inv
<1>6. event.count = Cardinality(reserved) /\ event.count <= event.capacity
  BY DEF Inv, PlacesHold
<1>7. /\ event.count \in Nat /\ event.capacity \in Nat
      /\ event \in [capacity: Nat, approval: {"automatic", "manual"}, admission: Policies,
                    count: Nat, phase: {"open", "closed", "archived"}, version: Nat]
  BY DEF Inv, RowsOK
<1>8. event.count - Cardinality(Released(body)) + Cardinality(placed) <= event.capacity
  <2> DEFINE asking == Attending(body) \ reserved
             places == event.capacity - (event.count - Cardinality(Released(body)))
  <2>1. CASE placed = {}
    BY <2>1, <1>5, <1>6, <1>7, FS_EmptySet
  <2>2. CASE placed # {}
    <3>1. Cardinality(placed) = IF Cardinality(asking) <= places THEN Cardinality(asking) ELSE places
      BY <2>2, <1>2 DEF Placings
    <3>2. Cardinality(placed) <= places
      BY <3>1, <1>5, <1>7
    <3> QED
      BY <3>2, <1>5, <1>7
  <2> QED
    BY <2>1, <2>2
<1>9. /\ event'.count = Cardinality(reserved') /\ event'.count <= event'.capacity
      /\ event' \in [capacity: Nat, approval: {"automatic", "manual"}, admission: Policies,
                     count: Nat, phase: {"open", "closed", "archived"}, version: Nat]
  BY <1>2, <1>5, <1>6, <1>7, <1>8
<1>10. reserved' = {g \in Guests : rsvp'[g].state = "confirmed"}
  <2> SUFFICES ASSUME NEW g \in Guests
               PROVE  g \in reserved' <=> rsvp'[g].state = "confirmed"
    BY ZenonT(60), <1>1, <1>2, <1>4 DEF Inv, RowsOK
  <2>1. CASE g \in Declining(body)
    BY <2>1, <1>1, <1>2, <1>3, <1>4 DEF Answered
  <2>2. CASE g \in Attending(body)
    BY <2>2, <1>1, <1>2 DEF Answered
  <2>3. CASE g \notin all
    BY <2>3, <1>1, <1>2, <1>3, <1>4 DEF Inv, PlacesHold
  <2> QED
    BY <2>1, <2>2, <2>3, <1>1
<1>11. guest' = [g \in Guests |-> IF g \in all /\ body.answers[g].renames
                    THEN Named(guest[g]) ELSE guest[g]]
  BY DEF Saves
<1>12. RowsOK'
  <2>1. /\ rsvp' \in [Guests -> [state: States, version: Nat]]
        /\ \A g \in Guests : rsvp'[g].version = 0 => rsvp'[g].state = "unanswered"
    BY <1>2 DEF Answered, States, Inv, RowsOK
  <2>2. reserved' \subseteq Guests
    BY <1>1, <1>2, <1>4 DEF Inv, RowsOK
  <2>3. pass' \in [Guests -> {"none", "active", "revoked", "used"}]
    BY DEF Saves, Revoked, Inv, RowsOK
  <2>4. guest' \in [Guests -> [version: Nat, named: BOOLEAN, removed: BOOLEAN]]
    <3>1. \A g \in Guests : /\ guest[g] \in [version: Nat, named: BOOLEAN, removed: BOOLEAN]
                            /\ Named(guest[g]) \in [version: Nat, named: BOOLEAN, removed: BOOLEAN]
      BY DEF Named, Inv, RowsOK
    <3> QED
      BY <3>1, <1>11
  <2> QED
    BY <2>1, <2>2, <2>3, <2>4, <1>9 DEF RowsOK
<1>13. ActivePassIsExpected'
  <2> SUFFICES ASSUME NEW g \in Guests, pass'[g] = "active"
               PROVE  Eligible(g)'
    BY DEF ActivePassIsExpected
  <2>1. g \notin Declining(body) /\ pass[g] = "active"
    BY DEF Saves, Revoked
  <2>2. g \in reserved /\ ~guest[g].removed
    BY <2>1 DEF Inv, ActivePassIsExpected, Eligible
  <2>3. g \in reserved'
    BY <2>1, <2>2, <1>2, <1>3
  <2>4. ~guest'[g].removed
    BY <2>2, <1>11 DEF Named, Inv, RowsOK
  <2> QED
    BY <2>3, <2>4, <1>10 DEF Eligible
<1>14. PlacesHold'
  BY <1>9, <1>10, ZenonT(30) DEF PlacesHold
<1> QED
  BY <1>12, <1>13, <1>14 DEF Inv
\* Guests are renamed or removed by staff.
LEMMA SaveInv ==
  ASSUME Inv, NEW g \in Guests, save(g)
  PROVE  Inv'
<1>1. guest' \in [Guests -> [version: Nat, named: BOOLEAN, removed: BOOLEAN]]
      /\ \A x \in Guests : guest'[x].removed = guest[x].removed
  BY DEF save, Named, Inv, RowsOK
<1> QED
  BY <1>1 DEF save, rows, Inv, RowsOK, PlacesHold, ActivePassIsExpected, Eligible

LEMMA RemoveInv ==
  ASSUME Inv, NEW g \in Guests, remove(g)
  PROVE  Inv'
<1>1. /\ Cardinality(reserved') = event.count - Cardinality(reserved \cap {g})
      /\ Cardinality(reserved \cap {g}) \in Nat
      /\ Cardinality(reserved') \in Nat /\ Cardinality(reserved') <= event.count
  <2>1. Cardinality(reserved) = event.count /\ reserved' = reserved \ {g}
    BY DEF Inv, PlacesHold, remove
  <2>2. RowsOK
    BY DEF Inv
  <2>3. Cardinality(reserved') = IF g \in reserved THEN event.count - 1 ELSE event.count
    BY <2>1, <2>2, OnePlace
  <2>4. Cardinality(reserved \cap {g}) = IF g \in reserved THEN 1 ELSE 0
    BY <2>2, OnePlace
  <2>5. event.count \in Nat
    BY <2>2 DEF RowsOK
  <2>6. Cardinality(reserved') \in Nat
    <3>1. IsFiniteSet(reserved)
      BY <2>2, ReservedFinite DEF RowsOK
    <3>2. IsFiniteSet(reserved \ {g})
      BY <3>1, FS_RemoveElement
    <3> QED
      BY <3>2, <2>1, FS_CardinalityType
  <2> QED
    BY <2>3, <2>4, <2>5, <2>6
<1>2. event' = [event EXCEPT !.count = @ - Cardinality(reserved \cap {g})]
  BY DEF remove
<1>3. /\ event' \in [capacity: Nat, approval: {"automatic", "manual"}, admission: Policies,
                     count: Nat, phase: {"open", "closed", "archived"}, version: Nat]
      /\ event'.count = Cardinality(reserved') /\ event'.count <= event'.capacity
  <2>1. /\ event \in [capacity: Nat, approval: {"automatic", "manual"}, admission: Policies,
                      count: Nat, phase: {"open", "closed", "archived"}, version: Nat]
        /\ event.count <= event.capacity
    BY DEF Inv, RowsOK, PlacesHold
  <2>2. event' = [event EXCEPT !.count = Cardinality(reserved')]
    BY <1>1, <1>2
  <2> QED
    BY <1>1, <2>1, <2>2
<1>4. /\ rsvp' \in [Guests -> [state: States, version: Nat]]
      /\ \A x \in Guests : rsvp'[x].version = 0 => rsvp'[x].state = "unanswered"
      /\ \A x \in Guests : rsvp'[x].state = "confirmed" <=> x # g /\ rsvp[x].state = "confirmed"
  <2>1. CASE rsvp[g].version = 0
    BY <2>1 DEF remove, Inv, RowsOK, States, PlacesHold
  <2>2. CASE rsvp[g].version # 0
    BY <2>2 DEF remove, Inv, RowsOK, States
  <2> QED
    BY <2>1, <2>2
<1>5. /\ guest' \in [Guests -> [version: Nat, named: BOOLEAN, removed: BOOLEAN]]
      /\ \A x \in Guests : x # g => guest'[x] = guest[x]
  BY DEF remove, Gone, Inv, RowsOK
<1>6. /\ pass' \in [Guests -> {"none", "active", "revoked", "used"}]
      /\ \A x \in Guests : pass'[x] = "active" => x # g /\ pass[x] = "active"
  BY DEF remove, Revoked, Inv, RowsOK
<1>7. reserved' = {x \in Guests : rsvp'[x].state = "confirmed"}
  BY <1>4 DEF remove, Inv, PlacesHold
<1>8. ActivePassIsExpected'
  BY <1>4, <1>5, <1>6, <1>7 DEF Inv, ActivePassIsExpected, Eligible
<1> QED
  BY <1>3, <1>4, <1>5, <1>6, <1>7, <1>8 DEF Inv, RowsOK, PlacesHold
\* A place given under the event's lock while one is free.
LEMMA PlaceTaken ==
  ASSUME Inv, NEW g \in Guests, g \notin reserved, ~Full,
         reserved' = reserved \cup {g},
         event' = [event EXCEPT !.count = @ + 1]
  PROVE  /\ event' \in [capacity: Nat, approval: {"automatic", "manual"}, admission: Policies,
                       count: Nat, phase: {"open", "closed", "archived"}, version: Nat]
         /\ event'.count = Cardinality(reserved') /\ event'.count <= event'.capacity
<1>1. Cardinality(reserved') = event.count + 1
  BY OnePlace DEF Inv, PlacesHold
<1>2. /\ event \in [capacity: Nat, approval: {"automatic", "manual"}, admission: Policies,
                    count: Nat, phase: {"open", "closed", "archived"}, version: Nat]
      /\ event.count < event.capacity
  BY DEF Inv, RowsOK, Full
<1> QED
  BY <1>1, <1>2

LEMMA ApproveInv ==
  ASSUME Inv, NEW g \in Guests, approve(g)
  PROVE  Inv'
<1>1. g \notin reserved
  BY DEF approve, Inv, PlacesHold
<1>2. /\ event' \in [capacity: Nat, approval: {"automatic", "manual"}, admission: Policies,
                     count: Nat, phase: {"open", "closed", "archived"}, version: Nat]
      /\ event'.count = Cardinality(reserved') /\ event'.count <= event'.capacity
  BY <1>1, PlaceTaken DEF approve
<1>3. /\ rsvp' \in [Guests -> [state: States, version: Nat]]
      /\ \A x \in Guests : rsvp'[x].version = 0 => rsvp'[x].state = "unanswered"
      /\ \A x \in Guests : rsvp'[x].state = "confirmed" <=> x = g \/ rsvp[x].state = "confirmed"
  BY DEF approve, Inv, RowsOK, States
<1>4. guest' = guest /\ pass' = pass /\ reserved' = reserved \cup {g}
  BY DEF approve
<1>5. reserved' = {x \in Guests : rsvp'[x].state = "confirmed"}
  BY <1>3, <1>4 DEF Inv, PlacesHold
<1>6. ActivePassIsExpected'
  BY <1>3, <1>4 DEF Inv, ActivePassIsExpected, Eligible
<1> QED
  BY <1>2, <1>3, <1>4, <1>5, <1>6 DEF Inv, RowsOK, PlacesHold

\* The answer of an admitted guest is corrected: a place is taken, given back or kept.
LEMMA CorrectionInv ==
  ASSUME Inv, NEW g \in Guests, NEW state \in {"confirmed", "declined"}, correction(g, state)
  PROVE  Inv'
<1> DEFINE delta == Cardinality(reserved') - Cardinality(reserved)
<1>1. /\ event \in [capacity: Nat, approval: {"automatic", "manual"}, admission: Policies,
                    count: Nat, phase: {"open", "closed", "archived"}, version: Nat]
      /\ event.count = Cardinality(reserved) /\ event.count <= event.capacity
  BY DEF Inv, RowsOK, PlacesHold
<1>2. Cardinality(reserved') \in Nat /\ Cardinality(reserved) \in Nat
  BY ReservedFinite, FS_AddElement, FS_RemoveElement, FS_CardinalityType DEF correction, Inv, RowsOK
<1>3. Cardinality(reserved') <= event.capacity
  <2>1. CASE state = "confirmed" /\ g \notin reserved
    <3>1. reserved' = reserved \cup {g} /\ event.count < event.capacity
      BY <2>1, <1>1 DEF correction, Full
    <3>2. Cardinality(reserved') = Cardinality(reserved) + 1
      BY <2>1, <3>1, OnePlace DEF Inv
    <3> QED
      BY <3>1, <3>2, <1>1
  <2>2. CASE state = "confirmed" /\ g \in reserved
    <3>1. reserved' = reserved
      BY <2>2 DEF correction
    <3> QED
      BY <3>1, <1>1
  <2>3. CASE state = "declined"
    <3>1. reserved' = reserved \ {g}
      BY <2>3 DEF correction
    <3>2. Cardinality(reserved') <= Cardinality(reserved)
      <4>1. Cardinality(reserved \ {g}) =
              IF g \in reserved THEN Cardinality(reserved) - 1 ELSE Cardinality(reserved)
        BY OnePlace DEF Inv
      <4> QED
        BY <4>1, <3>1, <1>2
    <3> QED
      BY <3>2, <1>1, <1>2
  <2> QED
    BY <2>1, <2>2, <2>3
<1>4. event' = [event EXCEPT !.count = event.count + Cardinality(reserved') - Cardinality(reserved)]
  BY DEF correction
<1>5. event' = [event EXCEPT !.count = Cardinality(reserved')]
  BY <1>1, <1>2, <1>4
<1>6. /\ event' \in [capacity: Nat, approval: {"automatic", "manual"}, admission: Policies,
                     count: Nat, phase: {"open", "closed", "archived"}, version: Nat]
      /\ event'.count = Cardinality(reserved') /\ event'.count <= event'.capacity
  BY <1>1, <1>2, <1>3, <1>5
<1>7. /\ rsvp' \in [Guests -> [state: States, version: Nat]]
      /\ \A x \in Guests : rsvp'[x].version = 0 => rsvp'[x].state = "unanswered"
      /\ \A x \in Guests : rsvp'[x].state = IF x = g THEN state ELSE rsvp[x].state
  BY DEF correction, Inv, RowsOK, States
<1>8. guest' = guest /\ pass' = pass /\ pass[g] = "used"
      /\ reserved' = IF state = "confirmed" THEN reserved \cup {g} ELSE reserved \ {g}
  BY DEF correction, Admitted
<1>9. reserved' = {x \in Guests : rsvp'[x].state = "confirmed"}
  BY <1>7, <1>8 DEF Inv, PlacesHold
<1>10. ActivePassIsExpected'
  BY <1>7, <1>8 DEF Inv, ActivePassIsExpected, Eligible
<1> QED
  BY <1>6, <1>7, <1>8, <1>9, <1>10 DEF Inv, RowsOK, PlacesHold

\* Settings never fall below the places given, and a closed event keeps its rows.
LEMMA SettingsInv ==
  ASSUME Inv, saveEvent \/ Closes
  PROVE  Inv'
<1>1. /\ event \in [capacity: Nat, approval: {"automatic", "manual"}, admission: Policies,
                    count: Nat, phase: {"open", "closed", "archived"}, version: Nat]
      /\ event.count = Cardinality(reserved) /\ event.count <= event.capacity
  <2>1. RowsOK /\ PlacesHold
    BY DEF Inv
  <2> QED
    BY <2>1, ZenonT(30) DEF RowsOK, PlacesHold
<1>2. rsvp' = rsvp /\ reserved' = reserved /\ guest' = guest
  BY DEF saveEvent, Closes, rows
<1>3. /\ event' \in [capacity: Nat, approval: {"automatic", "manual"}, admission: Policies,
                     count: Nat, phase: {"open", "closed", "archived"}, version: Nat]
      /\ event'.count = event.count /\ event.count <= event'.capacity
  <2>1. CASE Closes
    BY <2>1, <1>1 DEF Closes
  <2>2. CASE saveEvent
    <3>1. PICK capacity \in Capacities, admission \in Policies, approval \in {"automatic", "manual"} :
            /\ capacity >= event.count
            /\ event' = [event EXCEPT !.capacity = capacity, !.admission = admission,
                                      !.approval = approval, !.version = @ + 1]
      BY <2>2 DEF saveEvent
    <3>2. capacity \in Nat
      BY BoundsAssumption
    <3>3. event' = [capacity |-> capacity, approval |-> approval, admission |-> admission,
                    count |-> event.count, phase |-> event.phase, version |-> event.version + 1]
      BY <3>1, <1>1
    <3> QED
      BY <3>1, <3>2, <3>3, <1>1
  <2> QED
    BY <2>1, <2>2
<1>4. /\ pass' \in [Guests -> {"none", "active", "revoked", "used"}]
      /\ \A x \in Guests : pass'[x] = "active" => pass[x] = "active"
  <2>1. pass' \in {pass, Revoked(Guests)}
    BY DEF saveEvent, Closes, rows
  <2> QED
    BY <2>1 DEF Revoked, Inv, RowsOK
<1>5. ActivePassIsExpected'
  BY <1>2, <1>4 DEF Inv, ActivePassIsExpected, Eligible
<1> QED
  BY <1>1, <1>2, <1>3, <1>4, <1>5 DEF Inv, RowsOK, PlacesHold

\* A pass is made for an eligible guest only, by an owner or by a job; others end passes.
LEMMA PassInv ==
  ASSUME Inv,
         UNCHANGED <<event, guest, rsvp, reserved>>,
         pass' \in [Guests -> {"none", "active", "revoked", "used"}],
         \A x \in Guests : pass'[x] = "active" => pass[x] = "active" \/ Eligible(x)
  PROVE  Inv'
  BY DEF Inv, RowsOK, PlacesHold, ActivePassIsExpected, Eligible

LEMMA PassStepInv ==
  ASSUME Inv,
         \/ \E g \in Guests : OwnerHandlesPass(g) \/ redeem(g)
         \/ \E j \in jobs : process(j)
  PROVE  Inv'
<1>1. CASE \E g \in Guests : OwnerHandlesPass(g)
  <2>1. PICK g \in Guests : OwnerHandlesPass(g)
    BY <1>1
  <2> QED
    BY <2>1, PassInv DEF OwnerHandlesPass, Inv, RowsOK
<1>2. CASE \E g \in Guests : redeem(g)
  <2>1. PICK g \in Guests : redeem(g)
    BY <1>2
  <2> QED
    BY <2>1, PassInv DEF redeem, Inv, RowsOK
<1>3. CASE \E j \in jobs : process(j)
  <2>1. PICK j \in jobs : process(j)
    BY <1>3
  <2>2. /\ pass' \in {pass, [pass EXCEPT ![j.id.guest] = "active"]}
        /\ pass' # pass => Eligible(j.id.guest)
        /\ UNCHANGED <<event, guest, rsvp, reserved>>
    BY <2>1 DEF process
  <2>3. pass' \in [Guests -> {"none", "active", "revoked", "used"}]
    BY SMTT(30), <2>2 DEF Inv, RowsOK
  <2>4. \A x \in Guests : pass'[x] = "active" => pass[x] = "active" \/ Eligible(x)
    BY <2>2 DEF Inv, RowsOK
  <2> QED
    BY <2>2, <2>3, <2>4, PassInv
<1> QED
  BY <1>1, <1>2, <1>3

\* Everything else moves pages, locks, grants and keys.
LEMMA OtherStepInv ==
  ASSUME Inv,
         \/ \E d \in Devices : submit(d) \/ authenticate(d) \/ LockParty(d) \/ Repeats(d)
                                \/ Refuses(d) \/ Page(d) \/ DeadlockDetected(d)
         \/ \E h \in Households : Grants(h)
  PROVE  Inv'
<1>1. UNCHANGED rowVars
  BY ZenonT(60) DEF submit, authenticate, LockParty, Repeats, Refuses, Page, SavedArrives, RefusedArrives,
         AnswerIsLost, refresh, exchange, DeadlockDetected, Grants, BeginGrant, FinishGrant,
         revokeGrant, ServerRests, PageOnly, rows, rowVars
<1> QED
  BY <1>1, RowsKept

LEMMA NextInv == Inv /\ [RsvpNext]_rsvpVars => Inv'
<1> SUFFICES ASSUME Inv, [RsvpNext]_rsvpVars PROVE Inv'
  OBVIOUS
<1>1. CASE \E d \in Devices : Saves(d)
  BY <1>1, SavesInv
<1>2. CASE \/ \E d \in Devices : submit(d) \/ authenticate(d) \/ LockParty(d) \/ Repeats(d)
                                  \/ Refuses(d) \/ Page(d) \/ DeadlockDetected(d)
           \/ \E h \in Households : Grants(h)
  BY <1>2, OtherStepInv
<1>3. CASE \E g \in Guests : save(g) \/ remove(g) \/ approve(g)
                              \/ \E state \in {"confirmed", "declined"} : correction(g, state)
  BY <1>3, SaveInv, RemoveInv, ApproveInv, CorrectionInv
<1>4. CASE \/ \E g \in Guests : OwnerHandlesPass(g) \/ redeem(g)
           \/ \E j \in jobs : process(j)
  BY <1>4, PassStepInv
<1>5. CASE saveEvent \/ Closes
  BY <1>5, SettingsInv
<1>6. CASE UNCHANGED rsvpVars
  BY <1>6, RowsKept DEF rsvpVars, rows, rowVars
<1> QED
  BY <1>1, <1>2, <1>3, <1>4, <1>5, <1>6 DEF RsvpNext, Submits, Decides, Staff

-----------------------------------------------------------------------------
(* The theorems                                                               *)

\* However households, staff, the worker and the door interleave, the rows keep their
\* types and the two properties below hold in every state.
THEOREM RowsInvariance == RsvpSpec => []Inv
<1>1. RsvpInit => Inv
  BY InitInv
<1>2. Inv /\ [RsvpNext]_rsvpVars => Inv'
  BY NextInv
<1> QED
  BY <1>1, <1>2, PTL DEF RsvpSpec

\* PostgresGuests: confirmed_count is the number of reservations, never above the
\* capacity, and exactly the confirmed guests hold one.
THEOREM PlacesAreKept == RsvpSpec => []PlacesHold
<1>1. Inv => PlacesHold
  BY DEF Inv
<1> QED
  BY <1>1, RowsInvariance, PTL

\* A pass the door would admit belongs to a confirmed guest with a place.
THEOREM ActivePassesAreExpected == RsvpSpec => []ActivePassIsExpected
<1>1. Inv => ActivePassIsExpected
  BY DEF Inv
<1> QED
  BY <1>1, RowsInvariance, PTL

-----------------------------------------------------------------------------
(* Automatic passes.  A job is never lost to the dedupe key, for the version   *)
(* in the key of a new job is above every version used before.                 *)

JobIds == [by: {"answer", "policy"}, guest: Guests, version: Nat]
Jobs   == [id: JobIds, state: {"queued", "completed", "failed"}]

\* No job is newer than the row whose version its key names.
JobsOK ==
  /\ jobs \subseteq Jobs
  /\ \A j \in jobs : /\ j.id.by = "answer" => j.id.version <= rsvp[j.id.guest].version
                     /\ j.id.by = "policy" => j.id.version <= event.version

PassesInv == Inv /\ JobsOK /\ AutomaticPassComes

\* Versions only grow.
RowsGrow ==
  /\ \A g \in Guests : rsvp[g].version <= rsvp'[g].version
  /\ event.version <= event'.version

LEMMA VersionTypes ==
  ASSUME Inv
  PROVE  event.version \in Nat /\ \A g \in Guests : rsvp[g].version \in Nat
  BY DEF Inv, RowsOK

\* Keys that name a version not yet reached are new, and each gets a job that waits.
LEMMA Queued ==
  ASSUME Inv, Inv', JobsOK, RowsGrow, NEW wanted \in SUBSET JobIds, jobs' = Enqueued(wanted),
         \A k \in wanted : /\ k.by = "answer" => rsvp[k.guest].version < k.version
                                                 /\ k.version <= rsvp'[k.guest].version
                           /\ k.by = "policy" => event.version < k.version
                                                 /\ k.version <= event'.version
  PROVE  /\ JobsOK' /\ jobs \subseteq jobs'
         /\ \A k \in wanted : \E j \in jobs' : j.id = k /\ j.state = "queued"
<1>1. jobs \subseteq jobs'
  BY DEF Enqueued
<1>2. ASSUME NEW k \in wanted PROVE k \notin {j.id : j \in jobs}
  <2> SUFFICES ASSUME NEW j \in jobs, j.id = k PROVE FALSE
    OBVIOUS
  <2>1. /\ k.by \in {"answer", "policy"} /\ k.guest \in Guests /\ k.version \in Nat
    BY DEF JobIds
  <2> QED
    BY <2>1, VersionTypes DEF JobsOK
<1>3. ASSUME NEW k \in wanted PROVE \E j \in jobs' : j.id = k /\ j.state = "queued"
  <2>1. [id |-> k, state |-> "queued"] \in jobs'
    BY <1>2 DEF Enqueued
  <2> QED
    BY <2>1
<1>4. ASSUME NEW j \in jobs'
      PROVE  /\ j \in Jobs
             /\ j.id.by = "answer" => j.id.version <= rsvp'[j.id.guest].version
             /\ j.id.by = "policy" => j.id.version <= event'.version
  <2>1. CASE j \in jobs
    <3>1. j \in Jobs /\ j.id.guest \in Guests /\ j.id.version \in Nat
      BY <2>1 DEF JobsOK, Jobs, JobIds
    <3>2. /\ event.version \in Nat /\ event'.version \in Nat
          /\ rsvp[j.id.guest].version \in Nat /\ rsvp'[j.id.guest].version \in Nat
      BY <3>1 DEF Inv, RowsOK
    <3>3. /\ j.id.by = "answer" => j.id.version <= rsvp[j.id.guest].version
          /\ j.id.by = "policy" => j.id.version <= event.version
      BY <2>1 DEF JobsOK
    <3> QED
      BY <3>1, <3>2, <3>3 DEF RowsGrow
  <2>2. ASSUME NEW k \in wanted, j = [id |-> k, state |-> "queued"]
        PROVE  /\ j \in Jobs
               /\ j.id.by = "answer" => j.id.version <= rsvp'[j.id.guest].version
               /\ j.id.by = "policy" => j.id.version <= event'.version
    BY <2>2 DEF Jobs
  <2> QED
    BY <2>1, <2>2 DEF Enqueued
<1> QED
  BY <1>1, <1>3, <1>4 DEF JobsOK

LEMMA NoneWanted ==
  ASSUME Inv, Inv', JobsOK, RowsGrow, jobs' = jobs
  PROVE  JobsOK'
<1> SUFFICES ASSUME NEW j \in jobs
             PROVE  /\ j.id.by = "answer" => j.id.version <= rsvp'[j.id.guest].version
                    /\ j.id.by = "policy" => j.id.version <= event'.version
  BY DEF JobsOK
<1>1. j.id.guest \in Guests /\ j.id.version \in Nat
  BY DEF JobsOK, Jobs, JobIds
<1>2. /\ event.version \in Nat /\ event'.version \in Nat
      /\ rsvp[j.id.guest].version \in Nat /\ rsvp'[j.id.guest].version \in Nat
  BY <1>1 DEF Inv, RowsOK
<1> QED
  BY <1>1, <1>2 DEF JobsOK, RowsGrow

\* A step after which a guest waits for a pass who did not wait before must enqueue.
Waits(g) == event.admission = "automatic" /\ Eligible(g) /\ pass[g] = "none"

LEMMA StillComes ==
  ASSUME AutomaticPassComes, jobs \subseteq jobs',
         \A g \in Guests : Waits(g)' => \/ Waits(g)
                                        \/ \E j \in jobs' : j.id.guest = g /\ j.state = "queued"
  PROVE  AutomaticPassComes'
<1> SUFFICES ASSUME NEW g \in Guests, Waits(g)'
             PROVE  \E j \in jobs' : j.id.guest = g /\ j.state # "completed"
  BY DEF AutomaticPassComes, Waits
<1>1. CASE Waits(g)
  BY <1>1 DEF AutomaticPassComes, Waits
<1>2. CASE \E j \in jobs' : j.id.guest = g /\ j.state = "queued"
  BY <1>2
<1> QED
  BY <1>1, <1>2

\* Under the counting invariant a place is nothing but a confirmed answer.
LEMMA WaitsIs ==
  ASSUME Inv, NEW g \in Guests
  PROVE  Waits(g) <=> /\ event.admission = "automatic" /\ rsvp[g].state = "confirmed"
                      /\ ~guest[g].removed /\ pass[g] = "none"
  BY DEF Inv, PlacesHold, Waits, Eligible

LEMMA WaitsIsNext ==
  ASSUME Inv', NEW g \in Guests
  PROVE  Waits(g)' <=> /\ event'.admission = "automatic" /\ rsvp'[g].state = "confirmed"
                       /\ ~guest'[g].removed /\ pass'[g] = "none"
  BY DEF Inv, PlacesHold, Waits, Eligible

\* The steps that leave the job table alone let nobody wait anew.
LEMMA NobodyWaits ==
  ASSUME PassesInv, Inv', RowsGrow, jobs' = jobs, \A g \in Guests : Waits(g)' => Waits(g)
  PROVE  PassesInv'
<1>1. JobsOK'
  BY NoneWanted DEF PassesInv
<1>2. AutomaticPassComes'
  BY StillComes DEF PassesInv
<1> QED
  BY <1>1, <1>2 DEF PassesInv

LEMMA WantedComes ==
  ASSUME PassesInv, Inv', RowsGrow, NEW wanted \in SUBSET JobIds,
         jobs' = IF event.admission = "automatic" THEN Enqueued(wanted) ELSE jobs,
         event'.admission = event.admission,
         \A k \in wanted : /\ k.by = "answer" /\ rsvp[k.guest].version < k.version
                           /\ k.version <= rsvp'[k.guest].version,
         \A g \in Guests : Waits(g)' => Waits(g) \/ \E k \in wanted : k.guest = g
  PROVE  PassesInv'
<1>1. CASE event.admission = "automatic"
  <2>1. /\ JobsOK' /\ jobs \subseteq jobs'
        /\ \A k \in wanted : \E j \in jobs' : j.id = k /\ j.state = "queued"
    BY <1>1, Queued DEF PassesInv
  <2>2. \A g \in Guests : Waits(g)' => \/ Waits(g)
                                      \/ \E j \in jobs' : j.id.guest = g /\ j.state = "queued"
    BY <2>1
  <2> QED
    BY <2>1, <2>2, StillComes DEF PassesInv
<1>2. CASE event.admission # "automatic"
  <2>1. jobs' = jobs /\ \A g \in Guests : ~Waits(g)'
    BY <1>2, WaitsIsNext
  <2> QED
    BY <2>1, NobodyWaits
<1> QED
  BY <1>1, <1>2

LEMMA SameRows ==
  ASSUME Inv, event' = event, rsvp' = rsvp
  PROVE  RowsGrow
  BY VersionTypes DEF RowsGrow

\* Every guest a submission newly confirms gets a job of the version it writes.
LEMMA SavesPasses ==
  ASSUME PassesInv, Inv', NEW d \in Devices, Saves(d)
  PROVE  PassesInv'
<1> DEFINE body == page[d].operation.body
           all  == DOMAIN body.answers
<1>1. all \subseteq Guests /\ Attending(body) \subseteq all
  BY DEF Saves, Acceptable, Party, Attending
<1>2. PICK holds \in SUBSET (reserved \cup Attending(body)) :
        /\ event'.admission = event.admission /\ event'.version = event.version
        /\ rsvp' = [g \in Guests |-> IF g \in all
                      THEN [state |-> Answered(g, body, holds), version |-> rsvp[g].version + 1]
                      ELSE rsvp[g]]
        /\ jobs' = IF event.admission = "automatic"
                     THEN Enqueued({JobKey("answer", g, rsvp[g].version + 1) :
                                      g \in {x \in Attending(body) \cap holds : rsvp[x].state # "confirmed"}})
                     ELSE jobs
  <2>1. PICK placed \in Placings(body) :
          LET holds == (reserved \ Released(body)) \cup placed
              fresh == {g \in Attending(body) \cap holds : rsvp[g].state # "confirmed"}
          IN /\ event' = [event EXCEPT !.count = @ - Cardinality(Released(body)) + Cardinality(placed)]
             /\ rsvp' = [g \in Guests |-> IF g \in all
                           THEN [state |-> Answered(g, body, holds), version |-> rsvp[g].version + 1]
                           ELSE rsvp[g]]
             /\ jobs' = IF event.admission = "automatic"
                          THEN Enqueued({JobKey("answer", g, rsvp[g].version + 1) : g \in fresh})
                          ELSE jobs
    BY DEF Saves
  <2>2. placed \subseteq Attending(body)
    BY <2>1 DEF Placings
  <2>3. event'.admission = event.admission /\ event'.version = event.version
    BY <2>1 DEF PassesInv, Inv, RowsOK
  <2> QED
    BY <2>1, <2>2, <2>3
<1> DEFINE fresh  == {g \in Attending(body) \cap holds : rsvp[g].state # "confirmed"}
           wanted == {JobKey("answer", g, rsvp[g].version + 1) : g \in fresh}
<1>3. \A g \in Guests : rsvp[g].version \in Nat
  BY VersionTypes DEF PassesInv
<1>4. \A g \in Guests : rsvp'[g].version \in {rsvp[g].version, rsvp[g].version + 1}
  BY <1>2
<1>5. RowsGrow
  BY <1>2, <1>3, <1>4, VersionTypes DEF RowsGrow, PassesInv
<1>6. wanted \in SUBSET JobIds
  BY <1>1, <1>3 DEF JobKey, JobIds
<1>7. \A k \in wanted : /\ k.by = "answer" /\ rsvp[k.guest].version < k.version
                        /\ k.version <= rsvp'[k.guest].version
  <2> SUFFICES ASSUME NEW g \in fresh
               PROVE  LET k == JobKey("answer", g, rsvp[g].version + 1)
                      IN /\ k.by = "answer" /\ rsvp[k.guest].version < k.version
                         /\ k.version <= rsvp'[k.guest].version
    OBVIOUS
  <2>1. g \in all /\ g \in Guests /\ rsvp[g].version \in Nat
    BY <1>1, <1>3
  <2>2. rsvp'[g].version = rsvp[g].version + 1
    BY <1>2, <2>1
  <2> QED
    BY <2>1, <2>2 DEF JobKey
<1>8. ASSUME NEW g \in Guests, Waits(g)' PROVE Waits(g) \/ \E k \in wanted : k.guest = g
  <2>1. /\ event.admission = "automatic" /\ rsvp'[g].state = "confirmed"
        /\ ~guest'[g].removed /\ pass'[g] = "none"
    BY SMTT(30), <1>2, <1>8, WaitsIsNext
  <2>2. pass[g] = "none" /\ ~guest[g].removed
    BY <2>1 DEF Saves, Revoked, Named, PassesInv, Inv, RowsOK
  <2>3. CASE rsvp[g].state = "confirmed"
    BY <2>1, <2>2, <2>3, WaitsIs DEF PassesInv
  <2>4. CASE rsvp[g].state # "confirmed"
    <3>1. g \in all /\ Answered(g, body, holds) = "confirmed"
      BY <1>2, <2>1, <2>4
    <3>2. g \in Attending(body) \cap holds
      BY <1>1, <3>1 DEF Answered, Declining
    <3>3. JobKey("answer", g, rsvp[g].version + 1) \in wanted
      BY <2>4, <3>2
    <3> QED
      BY <3>3 DEF JobKey
  <2> QED
    BY <2>3, <2>4
<1> HIDE DEF fresh, wanted
<1>9. jobs' = IF event.admission = "automatic" THEN Enqueued(wanted) ELSE jobs
  BY <1>2 DEF wanted, fresh
<1> QED
  BY <1>2, <1>5, <1>6, <1>7, <1>8, <1>9, WantedComes

\* So does an approval.
LEMMA ApprovePasses ==
  ASSUME PassesInv, Inv', NEW g \in Guests, approve(g)
  PROVE  PassesInv'
<1> DEFINE k == JobKey("answer", g, rsvp[g].version + 1)
<1>1. /\ event'.admission = event.admission /\ event'.version = event.version
      /\ rsvp[g].version \in Nat /\ guest' = guest /\ pass' = pass
  BY DEF approve, PassesInv, Inv, RowsOK
<1>2. \A x \in Guests : x # g => rsvp'[x] = rsvp[x]
  BY DEF approve, PassesInv, Inv, RowsOK
<1>3. rsvp'[g].version = rsvp[g].version + 1
  BY DEF approve, PassesInv, Inv, RowsOK
<1>4. RowsGrow
  BY <1>1, <1>2, <1>3, VersionTypes DEF RowsGrow, PassesInv
<1>5. k \in JobIds /\ k.by = "answer" /\ k.guest = g /\ k.version = rsvp[g].version + 1
  BY <1>1 DEF JobKey, JobIds
<1>6. jobs' = IF event.admission = "automatic" THEN Enqueued({k}) ELSE jobs
  BY DEF approve
<1> HIDE DEF k
<1>7. \A x \in Guests : Waits(x)' => Waits(x) \/ x = g
  BY <1>1, <1>2, WaitsIs, WaitsIsNext DEF PassesInv
<1>8. rsvp[g].version < rsvp[g].version + 1
  BY <1>1
<1> QED
  BY <1>1, <1>3, <1>4, <1>5, <1>6, <1>7, <1>8, WantedComes

\* Switching to automatic passes gives a job to every guest who then waits.
LEMMA SettingsPasses ==
  ASSUME PassesInv, Inv', saveEvent
  PROVE  PassesInv'
<1>1. PICK capacity \in Capacities, admission \in Policies, approval \in {"automatic", "manual"} :
        /\ event' = [event EXCEPT !.capacity = capacity, !.admission = admission,
                                  !.approval = approval, !.version = @ + 1]
        /\ jobs' = IF admission = "automatic"
                     THEN Enqueued({JobKey("policy", g, event.version + 1) :
                                      g \in {x \in Guests : rsvp[x].state = "confirmed"
                                               /\ ~guest[x].removed /\ pass[x] = "none"}})
                     ELSE jobs
        /\ pass' = IF admission = "disabled" THEN Revoked(Guests) ELSE pass
  BY DEF saveEvent
<1> DEFINE waiting == {x \in Guests : rsvp[x].state = "confirmed" /\ ~guest[x].removed /\ pass[x] = "none"}
           wanted  == {JobKey("policy", g, event.version + 1) : g \in waiting}
<1>2. rsvp' = rsvp /\ guest' = guest
  BY DEF saveEvent
<1>3. event'.admission = admission /\ event'.version = event.version + 1 /\ event.version \in Nat
  BY <1>1 DEF PassesInv, Inv, RowsOK
<1>4. RowsGrow
  BY <1>2, <1>3, VersionTypes DEF RowsGrow, PassesInv
<1>5. CASE admission = "automatic"
  <2>1. wanted \in SUBSET JobIds
    BY <1>3 DEF JobKey, JobIds
  <2>2. \A k \in wanted : k.by = "policy" /\ k.version = event.version + 1
    BY DEF JobKey
  <2>3. \A k \in wanted : /\ k.by = "answer" => rsvp[k.guest].version < k.version
                                                /\ k.version <= rsvp'[k.guest].version
                          /\ k.by = "policy" => event.version < k.version
                                                /\ k.version <= event'.version
    BY <1>3, <2>2
  <2>4. \A g \in waiting : \E k \in wanted : k.guest = g
    <3> SUFFICES ASSUME NEW g \in waiting PROVE \E k \in wanted : k.guest = g
      OBVIOUS
    <3>1. JobKey("policy", g, event.version + 1) \in wanted
      OBVIOUS
    <3> QED
      BY <3>1 DEF JobKey
  <2>5. \A g \in Guests : Waits(g)' => g \in waiting
    <3> SUFFICES ASSUME NEW g \in Guests, Waits(g)' PROVE g \in waiting
      OBVIOUS
    <3>1. rsvp'[g].state = "confirmed" /\ ~guest'[g].removed /\ pass'[g] = "none"
      BY WaitsIsNext
    <3>2. pass[g] = "none"
      BY <1>1, <1>5, <3>1
    <3> QED
      BY <1>2, <3>1, <3>2
  <2>6. jobs' = Enqueued(wanted)
    BY <1>1, <1>5
  <2> HIDE DEF wanted, waiting
  <2>7. /\ JobsOK' /\ jobs \subseteq jobs'
        /\ \A k \in wanted : \E j \in jobs' : j.id = k /\ j.state = "queued"
    BY <1>4, <2>1, <2>3, <2>6, Queued DEF PassesInv
  <2>8. \A g \in Guests : Waits(g)' => \E j \in jobs' : j.id.guest = g /\ j.state = "queued"
    BY <2>4, <2>5, <2>7
  <2> QED
    BY <2>7, <2>8, StillComes DEF PassesInv
<1>6. CASE admission # "automatic"
  <2>1. jobs' = jobs /\ \A g \in Guests : ~Waits(g)'
    BY <1>1, <1>3, <1>6, WaitsIsNext
  <2> QED
    BY <1>4, <2>1, NobodyWaits
<1> QED
  BY <1>5, <1>6

\* A job ends without a pass only where no pass is due, or it fails in the operator's sight.
LEMMA ProcessPasses ==
  ASSUME PassesInv, Inv', NEW j \in jobs, process(j)
  PROVE  PassesInv'
<1> DEFINE g == j.id.guest
<1>1. UNCHANGED <<event, guest, rsvp, reserved>>
  BY DEF process
<1>2. j \in Jobs /\ g \in Guests /\ pass \in [Guests -> {"none", "active", "revoked", "used"}]
  BY DEF PassesInv, Inv, RowsOK, JobsOK, Jobs, JobIds
<1>3. PICK ended \in {"completed", "failed"} :
        /\ jobs' = (jobs \ {j}) \cup {[j EXCEPT !.state = ended]}
        /\ ended = "completed" => \/ event.admission # "automatic" \/ rsvp[g].state # "confirmed"
                                  \/ pass'[g] = "active"
        /\ pass' \in {pass, [pass EXCEPT ![g] = "active"]}
  BY <1>2 DEF process
<1> DEFINE new == [j EXCEPT !.state = ended]
<1>4. new \in Jobs /\ new.id = j.id /\ new.state = ended
  BY <1>2 DEF Jobs
<1>5. jobs' = (jobs \ {j}) \cup {new}
  BY <1>3
<1> HIDE DEF new
<1>6. JobsOK'
  BY <1>1, <1>4, <1>5 DEF PassesInv, JobsOK
<1>7. AutomaticPassComes'
  <2> SUFFICES ASSUME NEW x \in Guests, Waits(x)'
               PROVE  \E i \in jobs' : i.id.guest = x /\ i.state # "completed"
    BY DEF AutomaticPassComes, Waits
  <2>1. /\ event.admission = "automatic" /\ rsvp[x].state = "confirmed" /\ pass'[x] = "none"
        /\ ~guest[x].removed
    BY <1>1, WaitsIsNext
  <2>2. pass[x] = "none"
    BY <1>2, <1>3, <2>1
  <2>3. PICK i \in jobs : i.id.guest = x /\ i.state # "completed"
    BY <2>1, <2>2, WaitsIs DEF PassesInv, AutomaticPassComes, Waits
  <2>4. CASE i = j
    BY <1>3, <1>4, <1>5, <2>1, <2>3, <2>4
  <2>5. CASE i # j
    BY <1>5, <2>3, <2>5
  <2> QED
    BY <2>4, <2>5
<1> QED
  BY <1>6, <1>7 DEF PassesInv

\* Corrections, removals, names, other passes and the door make nobody wait.
LEMMA StaffPasses ==
  ASSUME PassesInv, Inv', NEW g \in Guests,
         \/ \E state \in {"confirmed", "declined"} : correction(g, state)
         \/ remove(g) \/ save(g) \/ OwnerHandlesPass(g) \/ redeem(g)
  PROVE  PassesInv'
<1>0. /\ event.version \in Nat /\ rsvp[g].version \in Nat /\ Inv
      /\ rsvp \in [Guests -> [state: States, version: Nat]]
      /\ pass \in [Guests -> {"none", "active", "revoked", "used"}]
      /\ guest \in [Guests -> [version: Nat, named: BOOLEAN, removed: BOOLEAN]]
      /\ event \in [capacity: Nat, approval: {"automatic", "manual"}, admission: Policies,
                    count: Nat, phase: {"open", "closed", "archived"}, version: Nat]
  BY DEF PassesInv, Inv, RowsOK
<1>1. ASSUME NEW state \in {"confirmed", "declined"}, correction(g, state)
      PROVE  PassesInv'
  <2>1. /\ jobs' = jobs /\ pass' = pass /\ guest' = guest /\ pass[g] = "used"
        /\ event'.admission = event.admission /\ event'.version = event.version
    BY <1>0, <1>1 DEF correction, Admitted
  <2>2. \A x \in Guests : /\ x # g => rsvp'[x] = rsvp[x]
                          /\ rsvp'[g].version = rsvp[g].version + 1
    BY <1>0, <1>1 DEF correction
  <2>3. RowsGrow
    BY <1>0, <2>1, <2>2, VersionTypes DEF RowsGrow
  <2>4. \A x \in Guests : Waits(x)' => Waits(x)
    BY <1>0, <2>1, <2>2, WaitsIs, WaitsIsNext
  <2> QED
    BY <2>1, <2>3, <2>4, NobodyWaits
<1>2. CASE remove(g)
  <2>1. /\ jobs' = jobs /\ event'.admission = event.admission /\ event'.version = event.version
        /\ \A x \in Guests : pass'[x] = "none" => pass[x] = "none"
    BY <1>0, <1>2 DEF remove, Revoked
  <2>2. guest'[g].removed
    BY <1>0, <1>2 DEF remove, Gone
  <2>3. \A x \in Guests : x # g => rsvp'[x] = rsvp[x] /\ guest'[x] = guest[x]
    BY <1>0, <1>2 DEF remove
  <2>4. rsvp'[g].version \in {rsvp[g].version, rsvp[g].version + 1}
    BY <1>0, <1>2 DEF remove
  <2>5. RowsGrow
    BY <1>0, <2>1, <2>3, <2>4, VersionTypes DEF RowsGrow
  <2>6. \A x \in Guests : Waits(x)' => Waits(x)
    BY <1>0, <2>1, <2>2, <2>3, WaitsIs, WaitsIsNext
  <2> QED
    BY <2>1, <2>5, <2>6, NobodyWaits
<1>3. CASE save(g)
  <2>1. jobs' = jobs /\ event' = event /\ rsvp' = rsvp /\ pass' = pass
        /\ \A x \in Guests : guest'[x].removed = guest[x].removed
    BY <1>0, <1>3 DEF save, rows, Named
  <2> QED
    BY <1>0, <2>1, SameRows, WaitsIs, WaitsIsNext, NobodyWaits
<1>4. CASE OwnerHandlesPass(g) \/ redeem(g)
  <2>1. /\ jobs' = jobs /\ event' = event /\ rsvp' = rsvp /\ guest' = guest
        /\ \A x \in Guests : pass'[x] = "none" => pass[x] = "none"
    BY <1>0, <1>4 DEF OwnerHandlesPass, redeem
  <2> QED
    BY <1>0, <2>1, SameRows, WaitsIs, WaitsIsNext, NobodyWaits
<1> QED
  BY <1>1, <1>2, <1>3, <1>4

LEMMA NextPasses ==
  ASSUME PassesInv, [RsvpNext]_rsvpVars
  PROVE  PassesInv'
<1>0. Inv /\ Inv'
  BY NextInv DEF PassesInv
<1>1. CASE \E d \in Devices : Saves(d)
  BY <1>0, <1>1, SavesPasses
<1>2. CASE \E g \in Guests : approve(g)
  BY <1>0, <1>2, ApprovePasses
<1>3. CASE saveEvent
  BY <1>0, <1>3, SettingsPasses
<1>4. CASE \E j \in jobs : process(j)
  BY <1>0, <1>4, ProcessPasses
<1>5. CASE \E g \in Guests : \/ \E state \in {"confirmed", "declined"} : correction(g, state)
                             \/ remove(g) \/ save(g) \/ OwnerHandlesPass(g) \/ redeem(g)
  BY <1>0, <1>5, StaffPasses
<1>6. CASE Closes
  <2>1. /\ rows' = rows /\ guest' = guest
        /\ event'.admission = event.admission /\ event'.version = event.version
    BY <1>0, <1>6 DEF Closes, Inv, RowsOK
  <2>2. RowsGrow
    BY <1>0, <2>1, VersionTypes DEF RowsGrow, rows
  <2> QED
    BY <1>0, <2>1, <2>2, WaitsIs, WaitsIsNext, NobodyWaits DEF rows
<1>7. CASE \/ \E d \in Devices : submit(d) \/ authenticate(d) \/ LockParty(d) \/ Repeats(d)
                                  \/ Refuses(d) \/ Page(d) \/ DeadlockDetected(d)
           \/ \E h \in Households : Grants(h)
           \/ UNCHANGED rsvpVars
  <2>1. UNCHANGED <<event, guest, rows>>
    BY <1>7, ZenonT(60)
       DEF submit, authenticate, LockParty, Repeats, Refuses, Page, SavedArrives, RefusedArrives,
           AnswerIsLost, refresh, exchange, DeadlockDetected, Grants, BeginGrant, FinishGrant,
           revokeGrant, ServerRests, PageOnly, rsvpVars, rows
  <2> QED
    BY <1>0, <2>1, SameRows, WaitsIs, WaitsIsNext, NobodyWaits DEF rows
<1> QED
  BY <1>1, <1>2, <1>3, <1>4, <1>5, <1>6, <1>7 DEF RsvpNext, Submits, Decides, Staff

\* PostgresPasses: a guest who is due an automatic pass always has a job that will issue
\* it, or one that failed; the dedupe key never swallows it.
THEOREM AutomaticPassesCome == RsvpSpec => []AutomaticPassComes
<1>1. RsvpInit => PassesInv
  <2> SUFFICES ASSUME RsvpInit PROVE PassesInv
    OBVIOUS
  <2>1. Inv
    BY InitInv
  <2>2. jobs = {} /\ \A g \in Guests : rsvp[g].state = "unanswered"
    BY DEF RsvpInit
  <2> QED
    BY <2>1, <2>2 DEF PassesInv, JobsOK, AutomaticPassComes, Eligible
<1>2. PassesInv /\ [RsvpNext]_rsvpVars => PassesInv'
  BY NextPasses
<1>3. PassesInv => AutomaticPassComes
  BY DEF PassesInv
<1> QED
  BY <1>1, <1>2, <1>3, PTL DEF RsvpSpec

-----------------------------------------------------------------------------
(* Submissions.  A committed submission raises the version of every answer it  *)
(* names, so that the same answers under the same key, sent again under         *)
(* another grant, are at versions that are past.                                *)

Versions   == [rsvp: Nat, guest: Nat]
Seens      == UNION {[S -> Versions] : S \in SUBSET Guests}
Bodies     == {b \in [seen: Seens, answers: UNION {[S -> Replies] : S \in SUBSET Guests}] :
                 DOMAIN b.answers = DOMAIN b.seen}
Operations == {NoOperation} \cup [key: Nat, body: Bodies]
Pages      == [home: Households, session: Nat, seen: Seens, operation: Operations,
               stage: Stages, told: Nat]

Used(d)     == page[d].operation # NoOperation
Spent(body) == \E g \in DOMAIN body.seen : body.seen[g].rsvp < rsvp[g].version

\* What a device keeps for a retry has a key of its own, and is past its versions once
\* it was committed.
PageOK(d) ==
  /\ page[d].told # 0 => page[d].told \in 1..drawn /\ commits[page[d].told] = 1
  /\ page[d].stage # "idle" => Used(d)
  /\ Used(d) => /\ page[d].operation.key \in 1..drawn
                /\ commits[page[d].operation.key] = 1 => Spent(page[d].operation.body)
                /\ page[d].stage = "saved" => commits[page[d].operation.key] = 1

KeysOK ==
  /\ drawn \in Nat /\ drawn <= MaxKeys
  /\ commits \in [1..MaxKeys -> {0, 1}]
  /\ \A k \in 1..MaxKeys : drawn < k => commits[k] = 0
  /\ \A s \in keys : s.key \in 1..drawn /\ commits[s.key] = 1

OwnKeys == \A d, e \in Devices :
             d # e /\ Used(d) /\ Used(e) => page[d].operation.key # page[e].operation.key

SubmissionInv ==
  /\ Inv /\ KeysOK /\ OwnKeys
  /\ page \in [Devices -> Pages] /\ grant \in [Households -> [id: Nat, live: BOOLEAN]]
  /\ \A d \in Devices : PageOK(d)

AnswersGrow == \A g \in Guests : rsvp[g].version <= rsvp'[g].version

LEMMA LoadedSeen == ASSUME Inv, NEW h \in Households PROVE Loaded(h) \in Seens
<1>1. Party(h) \in SUBSET Guests
  BY DEF Party
<1>2. Loaded(h) \in [Party(h) -> Versions]
  BY <1>1 DEF Loaded, Versions, Inv, RowsOK
<1> QED
  BY <1>1, <1>2 DEF Seens

LEMMA UsedIs ==
  ASSUME page \in [Devices -> Pages], NEW d \in Devices, Used(d)
  PROVE  /\ page[d].operation \in [key: Nat, body: Bodies]
         /\ page[d].operation.body.seen \in Seens
         /\ DOMAIN page[d].operation.body.answers = DOMAIN page[d].operation.body.seen
<1>1. page[d].operation \in [key: Nat, body: Bodies]
  BY DEF Pages, Operations, Used
<1>2. page[d].operation.body \in Bodies
  BY <1>1
<1> QED
  BY <1>1, <1>2 DEF Bodies

LEMMA SeenIs ==
  ASSUME NEW seen \in Seens
  PROVE  DOMAIN seen \subseteq Guests /\ \A g \in DOMAIN seen : seen[g].rsvp \in Nat
<1>1. PICK S \in SUBSET Guests : seen \in [S -> Versions]
  BY DEF Seens
<1> QED
  BY <1>1 DEF Versions

\* What is past stays past.
LEMMA SpentStays ==
  ASSUME Inv, Inv', AnswersGrow, NEW body, body.seen \in Seens, Spent(body)
  PROVE  \E g \in DOMAIN body.seen : body.seen[g].rsvp < rsvp'[g].version
<1>1. PICK g \in DOMAIN body.seen : body.seen[g].rsvp < rsvp[g].version
  BY DEF Spent
<1>2. g \in Guests /\ body.seen[g].rsvp \in Nat
  BY SeenIs
<1>3. rsvp[g].version \in Nat /\ rsvp'[g].version \in Nat
  BY <1>2 DEF Inv, RowsOK
<1>4. body.seen[g].rsvp < rsvp'[g].version
  BY <1>1, <1>2, <1>3 DEF AnswersGrow
<1> QED
  BY <1>4

\* A page that does not move stays in order whatever the others do.
LEMMA PageStays ==
  ASSUME SubmissionInv, Inv', AnswersGrow, NEW e \in Devices, page'[e] = page[e],
         drawn' \in Nat, drawn <= drawn',
         \A k \in 1..drawn : commits[k] = 1 => commits'[k] = 1,
         Used(e) /\ commits'[page[e].operation.key] = 1 => commits[page[e].operation.key] = 1
  PROVE  PageOK(e)'
<1>1. PageOK(e) /\ drawn \in Nat
  BY DEF SubmissionInv, KeysOK
<1>2. 1..drawn \subseteq 1..drawn'
  BY <1>1
<1>3. Used(e)' <=> Used(e)
  BY DEF Used
<1>4. page[e].told # 0 => page[e].told \in 1..drawn' /\ commits'[page[e].told] = 1
  BY <1>1, <1>2 DEF PageOK
<1>5. ASSUME Used(e), commits'[page[e].operation.key] = 1
      PROVE  \E g \in DOMAIN page[e].operation.body.seen :
               page[e].operation.body.seen[g].rsvp < rsvp'[g].version
  <2>1. page[e].operation.body.seen \in Seens /\ Spent(page[e].operation.body)
    BY <1>1, <1>5, UsedIs DEF PageOK, SubmissionInv
  <2> QED
    BY <2>1, SpentStays DEF SubmissionInv
<1> QED
  BY <1>1, <1>2, <1>3, <1>4, <1>5 DEF PageOK, Spent

LEMMA OnePage ==
  ASSUME SubmissionInv, Inv', NEW d \in Devices, NEW new \in Pages, page' = [page EXCEPT ![d] = new],
         rsvp' = rsvp, grant' = grant, keys' = keys, commits' = commits,
         drawn' \in Nat, drawn <= drawn', drawn' <= MaxKeys, PageOK(d)',
         new.operation # NoOperation => \/ Used(d) /\ new.operation.key = page[d].operation.key
                                        \/ drawn < new.operation.key
  PROVE  SubmissionInv'
<1>1. /\ page' \in [Devices -> Pages] /\ page'[d] = new
      /\ \A e \in Devices \ {d} : page'[e] = page[e]
  BY DEF SubmissionInv
<1>2. /\ AnswersGrow /\ drawn \in Nat /\ commits \in [1..MaxKeys -> {0, 1}] /\ MaxKeys \in Nat
      /\ Inv /\ \A e \in Devices : Used(e) => page[e].operation.key \in 1..drawn
  BY VersionTypes, BoundsAssumption DEF AnswersGrow, SubmissionInv, KeysOK, PageOK
<1>3. KeysOK'
  <2>1. \A k \in 1..MaxKeys : drawn' < k => commits'[k] = 0
    BY <1>2 DEF SubmissionInv, KeysOK
  <2>2. \A s \in keys' : s.key \in 1..drawn' /\ commits'[s.key] = 1
    BY <1>2 DEF SubmissionInv, KeysOK
  <2> QED
    BY <1>2, <2>1, <2>2 DEF KeysOK
<1>4. ASSUME NEW e \in Devices PROVE PageOK(e)'
  <2>1. CASE e = d
    BY <2>1
  <2>2. CASE e # d
    BY <1>1, <1>2, <2>2, PageStays
  <2> QED
    BY <2>1, <2>2
<1>5. OwnKeys'
  <2> SUFFICES ASSUME NEW e \in Devices, NEW f \in Devices, e # f, Used(e)', Used(f)'
               PROVE  page'[e].operation.key # page'[f].operation.key
    BY DEF OwnKeys
  <2>1. CASE e # d /\ f # d
    BY <1>1, <2>1 DEF Used, SubmissionInv, OwnKeys
  <2>2. ASSUME NEW x \in Devices, x # d, Used(x)', Used(d)'
        PROVE  page'[x].operation.key # page'[d].operation.key
    <3>1. Used(x) /\ page'[x] = page[x] /\ page[x].operation.key \in 1..drawn
      BY <1>1, <1>2, <2>2 DEF Used
    <3>2. new.operation # NoOperation /\ page'[d] = new
      BY <1>1, <2>2 DEF Used
    <3>3. CASE Used(d) /\ new.operation.key = page[d].operation.key
      BY <2>2, <3>1, <3>2, <3>3 DEF SubmissionInv, OwnKeys
    <3>4. CASE drawn < new.operation.key
      BY <1>2, <3>1, <3>2, <3>4
    <3> QED
      BY <3>2, <3>3, <3>4
  <2> QED
    BY <2>1, <2>2
<1> QED
  BY <1>1, <1>3, <1>4, <1>5 DEF SubmissionInv

\* A step of the server that only tells the page how far it is.
LEMMA StageMoves ==
  ASSUME SubmissionInv, Inv', NEW d \in Devices, NEW stage \in Stages, Step(d, stage), Used(d),
         stage = "saved" => commits[page[d].operation.key] = 1,
         UNCHANGED <<rsvp, grant, keys, commits, drawn>>
  PROVE  SubmissionInv'
<1> DEFINE new == [page[d] EXCEPT !.stage = stage]
<1>1. page \in [Devices -> Pages] /\ page[d] \in Pages /\ PageOK(d) /\ drawn \in Nat /\ drawn <= MaxKeys
  BY DEF SubmissionInv, KeysOK
<1>2. /\ new \in Pages /\ new.operation = page[d].operation /\ new.told = page[d].told
      /\ new.stage = stage
  BY <1>1 DEF Pages
<1>3. page' = [page EXCEPT ![d] = new]
  BY <1>1 DEF Step
<1> HIDE DEF new
<1>4. page'[d] = new
  BY <1>1, <1>3
<1>5. PageOK(d)'
  BY <1>1, <1>2, <1>4 DEF PageOK, Used, Spent
<1>6. /\ rsvp' = rsvp /\ grant' = grant /\ keys' = keys /\ commits' = commits
      /\ drawn' \in Nat /\ drawn <= drawn' /\ drawn' <= MaxKeys
  BY <1>1
<1> QED
  BY <1>2, <1>3, <1>5, <1>6, OnePage

\* The guests' page: new text draws a key nobody has; the same text keeps its key.
LEMMA submitOnce ==
  ASSUME SubmissionInv, Inv', NEW d \in Devices, submit(d)
  PROVE  SubmissionInv'
<1>1. /\ page \in [Devices -> Pages] /\ page[d] \in Pages /\ PageOK(d) /\ MaxKeys \in Nat
      /\ drawn \in Nat /\ drawn <= MaxKeys /\ \A k \in 1..MaxKeys : drawn < k => commits[k] = 0
  BY BoundsAssumption DEF SubmissionInv, KeysOK
<1>2. PICK answers \in [DOMAIN page[d].seen -> Replies] :
        LET body == [seen |-> page[d].seen, answers |-> answers]
            key  == KeyFor(d, body)
        IN /\ key <= MaxKeys
           /\ drawn' = IF key > drawn THEN key ELSE drawn
           /\ page' = [page EXCEPT ![d].operation = [key |-> key, body |-> body],
                                   ![d].stage = "sent", ![d].told = 0]
  BY DEF submit
<1> DEFINE body == [seen |-> page[d].seen, answers |-> answers]
           key  == KeyFor(d, body)
           new  == [page[d] EXCEPT !.operation = [key |-> key, body |-> body],
                                   !.stage = "sent", !.told = 0]
<1>3. body \in Bodies
  <2>1. page[d].seen \in Seens /\ DOMAIN page[d].seen \subseteq Guests
    BY <1>1, SeenIs DEF Pages
  <2>2. DOMAIN answers = DOMAIN page[d].seen
    OBVIOUS
  <2> QED
    BY <2>1, <2>2 DEF Bodies
<1>4. \/ Used(d) /\ page[d].operation.body = body /\ key = page[d].operation.key /\ key \in 1..drawn
      \/ key = drawn + 1
  BY <1>1 DEF KeyFor, Used, PageOK
<1>5. key \in Nat /\ 1 <= key /\ key <= drawn' /\ drawn' \in Nat /\ drawn <= drawn' /\ drawn' <= MaxKeys
  BY <1>1, <1>2, <1>4
<1>6. page' = [page EXCEPT ![d] = new]
  BY <1>1, <1>2
<1> HIDE DEF key, body
<1>7. /\ new \in Pages /\ new.operation = [key |-> key, body |-> body] /\ new.stage = "sent"
      /\ new.told = 0
  <2>1. [key |-> key, body |-> body] \in Operations
    BY <1>3, <1>5 DEF Operations
  <2>2. "sent" \in Stages
    BY DEF Stages
  <2> QED
    BY <1>1, <2>1, <2>2 DEF Pages
<1> HIDE DEF new
<1>8. page'[d] = new
  BY <1>1, <1>6
<1>9. commits[key] = 1 => Spent(body)
  <2>1. CASE key = drawn + 1
    BY <1>1, <1>2, <1>5, <2>1 DEF key, body
  <2>2. CASE Used(d) /\ page[d].operation.body = body /\ key = page[d].operation.key
    BY <1>1, <2>2 DEF PageOK
  <2> QED
    BY <1>4, <2>1, <2>2
<1>10. UNCHANGED <<rsvp, grant, keys, commits>>
  BY DEF submit, ServerRests, rows
<1>11. PageOK(d)'
  <2>1. new.operation.key \in 1..drawn'
    BY <1>5, <1>7
  <2>2. new.operation # NoOperation
    <3>1. new.operation.key # 0
      BY <1>5, <1>7
    <3>2. NoOperation.key = 0
      BY DEF NoOperation
    <3> QED
      BY <3>1, <3>2
  <2>3. commits'[key] = 1 => \E g \in DOMAIN body.seen : body.seen[g].rsvp < rsvp'[g].version
    BY <1>9, <1>10 DEF Spent
  <2>4. page'[d].operation.key = key /\ page'[d].operation.body = body
    BY <1>7, <1>8
  <2> QED
    BY <1>7, <1>8, <2>1, <2>2, <2>3, <2>4 DEF PageOK, Used, Spent
<1>12. \/ Used(d) /\ new.operation.key = page[d].operation.key
       \/ drawn < new.operation.key
  BY <1>1, <1>4, <1>7
<1> QED
  BY <1>5, <1>6, <1>7, <1>10, <1>11, <1>12, OnePage

\* The answer is shown only after the commit, and the key forgotten only after a refresh.
LEMMA SavedArrivesOnce ==
  ASSUME SubmissionInv, Inv', NEW d \in Devices, SavedArrives(d)
  PROVE  SubmissionInv'
<1>1. /\ page \in [Devices -> Pages] /\ page[d] \in Pages /\ PageOK(d) /\ Inv
      /\ drawn \in Nat /\ drawn <= MaxKeys /\ page[d].stage = "saved"
  BY DEF SubmissionInv, KeysOK, SavedArrives
<1>2. PICK refreshed \in BOOLEAN :
        page' = [page EXCEPT ![d].stage = "idle", ![d].told = page[d].operation.key,
                   ![d].seen = IF refreshed THEN Loaded(page[d].home) ELSE @,
                   ![d].operation = IF refreshed THEN NoOperation ELSE @]
  BY DEF SavedArrives
<1> DEFINE seen == IF refreshed THEN Loaded(page[d].home) ELSE page[d].seen
           operation == IF refreshed THEN NoOperation ELSE page[d].operation
           new == [page[d] EXCEPT !.stage = "idle", !.told = page[d].operation.key,
                                  !.seen = seen, !.operation = operation]
<1>3. /\ Used(d) /\ page[d].operation.key \in 1..drawn /\ commits[page[d].operation.key] = 1
      /\ Spent(page[d].operation.body)
  BY <1>1 DEF PageOK
<1>4. seen \in Seens /\ operation \in Operations /\ operation \in {NoOperation, page[d].operation}
  BY <1>1, LoadedSeen DEF Pages, Operations
<1>5. page' = [page EXCEPT ![d] = new]
  BY <1>1, <1>2
<1> HIDE DEF seen, operation
<1>6. /\ new \in Pages /\ new.stage = "idle" /\ new.told = page[d].operation.key
      /\ new.operation = operation
  <2>1. "idle" \in Stages /\ page[d].operation.key \in Nat
    BY <1>1, <1>3 DEF Stages
  <2>2. new \in Pages
    BY <1>1, <1>4, <2>1 DEF Pages
  <2> QED
    BY <1>1, <2>2 DEF Pages
<1> HIDE DEF new
<1>7. page'[d] = new
  BY <1>1, <1>5
<1>8. /\ rsvp' = rsvp /\ grant' = grant /\ keys' = keys /\ commits' = commits
      /\ drawn' \in Nat /\ drawn <= drawn' /\ drawn' <= MaxKeys /\ drawn' = drawn
  BY <1>1 DEF SavedArrives, PageOnly, ServerRests, rows
<1>9. PageOK(d)'
  BY <1>3, <1>4, <1>6, <1>7, <1>8 DEF PageOK, Used, Spent
<1>10. new.operation # NoOperation => Used(d) /\ new.operation.key = page[d].operation.key
  BY <1>3, <1>4, <1>6
<1> QED
  BY <1>5, <1>6, <1>8, <1>9, <1>10, OnePage

\* "Reload current answers" and the household's new link change only what the page shows.
LEMMA PageReloads ==
  ASSUME SubmissionInv, Inv', NEW d \in Devices, refresh(d) \/ exchange(d)
  PROVE  SubmissionInv'
<1>1. /\ page \in [Devices -> Pages] /\ page[d] \in Pages /\ PageOK(d) /\ Inv
      /\ drawn \in Nat /\ drawn <= MaxKeys
      /\ page[d].home \in Households /\ grant[page[d].home].id \in Nat
  BY DEF SubmissionInv, KeysOK, Pages
<1>2. PICK new \in Pages : /\ page' = [page EXCEPT ![d] = new]
                           /\ new.operation = page[d].operation /\ new.told = page[d].told
                           /\ new.stage = page[d].stage
  <2>1. CASE refresh(d)
    <3> DEFINE seen == Loaded(page[d].home)
               new == [page[d] EXCEPT !.seen = seen]
    <3>1. seen \in Seens
      BY <1>1, LoadedSeen
    <3>2. page' = [page EXCEPT ![d] = new]
      BY <1>1, <2>1 DEF refresh
    <3> HIDE DEF seen
    <3>3. new \in Pages /\ new.operation = page[d].operation /\ new.told = page[d].told
          /\ new.stage = page[d].stage
      BY <1>1, <3>1 DEF Pages
    <3> QED
      BY <3>2, <3>3
  <2>2. CASE exchange(d)
    <3> DEFINE new == [page[d] EXCEPT !.session = grant[page[d].home].id]
    <3>1. page' = [page EXCEPT ![d] = new]
      BY <1>1, <2>2 DEF exchange
    <3>2. new \in Pages /\ new.operation = page[d].operation /\ new.told = page[d].told
          /\ new.stage = page[d].stage
      BY <1>1 DEF Pages
    <3> QED
      BY <3>1, <3>2
  <2> QED
    BY <2>1, <2>2
<1>3. page'[d] = new
  BY <1>1, <1>2
<1>4. /\ rsvp' = rsvp /\ grant' = grant /\ keys' = keys /\ commits' = commits
      /\ drawn' \in Nat /\ drawn <= drawn' /\ drawn' <= MaxKeys /\ drawn' = drawn
  BY <1>1 DEF refresh, exchange, PageOnly, ServerRests, rows
<1>5. PageOK(d)'
  BY <1>1, <1>2, <1>3, <1>4 DEF PageOK, Used, Spent
<1>6. new.operation # NoOperation => Used(d) /\ new.operation.key = page[d].operation.key
  BY <1>2 DEF Used
<1> QED
  BY <1>2, <1>4, <1>5, <1>6, OnePage

\* The server between the arrival of a request and its decision, and the answers that are
\* lost or refused.
LEMMA StagesOnce ==
  ASSUME SubmissionInv, Inv', NEW d \in Devices,
         \/ authenticate(d) \/ LockParty(d) \/ Repeats(d) \/ Refuses(d)
         \/ RefusedArrives(d) \/ AnswerIsLost(d)
  PROVE  SubmissionInv'
<1>1. PICK stage \in Stages : Step(d, stage) /\ (stage = "saved" => Repeats(d) /\ Step(d, "saved"))
  <2>1. {"idle", "authenticated", "locked", "saved", "refused"} \subseteq Stages
    BY DEF Stages
  <2>2. CASE Repeats(d)
    BY <2>1, <2>2 DEF Repeats
  <2>3. CASE ~Repeats(d)
    <3>1. \E stage \in {"idle", "authenticated", "locked", "refused"} : Step(d, stage)
      BY <2>3 DEF authenticate, LockParty, Refuses, RefusedArrives, AnswerIsLost
    <3> QED
      BY <2>1, <3>1
  <2> QED
    BY <2>2, <2>3
<1>2. Used(d)
  BY DEF authenticate, LockParty, Repeats, Refuses, RefusedArrives, AnswerIsLost, SubmissionInv, PageOK
<1>3. UNCHANGED <<rsvp, grant, keys, commits, drawn>>
  BY DEF authenticate, LockParty, Repeats, Refuses, RefusedArrives, AnswerIsLost, PageOnly,
         ServerRests, rows
<1>4. Repeats(d) => commits[page[d].operation.key] = 1
  <2> SUFFICES ASSUME Repeats(d) PROVE commits[page[d].operation.key] = 1
    OBVIOUS
  <2>1. Stored(d)
    BY DEF Repeats
  <2>2. PICK s \in keys : Key(d) = [grant |-> s.grant, home |-> s.home, key |-> s.key]
    BY <2>1 DEF Stored
  <2>3. s.key = page[d].operation.key
    BY <2>2 DEF Key
  <2> QED
    BY <2>3 DEF SubmissionInv, KeysOK
<1> QED
  BY <1>1, <1>2, <1>3, <1>4, StageMoves

\* A commit finds answers at the current versions, so its key was not committed before;
\* afterwards those versions are past.
LEMMA SavesOnce ==
  ASSUME SubmissionInv, Inv', NEW d \in Devices, Saves(d)
  PROVE  SubmissionInv'
<1> DEFINE body == page[d].operation.body
           key  == page[d].operation.key
           new  == [page[d] EXCEPT !.stage = "saved"]
<1>1. /\ page \in [Devices -> Pages] /\ page[d] \in Pages /\ PageOK(d) /\ Inv
      /\ drawn \in Nat /\ drawn <= MaxKeys /\ commits \in [1..MaxKeys -> {0, 1}] /\ MaxKeys \in Nat
      /\ grant' = grant /\ drawn' = drawn
  BY BoundsAssumption DEF SubmissionInv, KeysOK, Saves
<1>2. Used(d) /\ key \in 1..drawn
  BY <1>1 DEF PageOK, Saves
<1>3. /\ body.seen \in Seens /\ DOMAIN body.answers = DOMAIN body.seen
      /\ DOMAIN body.seen \subseteq Guests /\ \A g \in DOMAIN body.seen : body.seen[g].rsvp \in Nat
  BY <1>1, <1>2, UsedIs, SeenIs
<1>4. \A g \in DOMAIN body.seen : body.seen[g].rsvp = rsvp[g].version
  <2>1. body.seen = [g \in DOMAIN body.seen |-> [rsvp |-> rsvp[g].version, guest |-> guest[g].version]]
    BY DEF Saves, Acceptable, CurrentVersions
  <2> SUFFICES ASSUME NEW g \in DOMAIN body.seen PROVE body.seen[g].rsvp = rsvp[g].version
    OBVIOUS
  <2>2. body.seen[g] = [rsvp |-> rsvp[g].version, guest |-> guest[g].version]
    BY <2>1
  <2> QED
    BY SMTT(30), <2>2
<1>5. commits[key] = 0
  <2>1. ~Spent(body)
    BY <1>1, <1>3, <1>4, VersionTypes DEF Spent
  <2>2. key \in 1..MaxKeys
    BY <1>1, <1>2
  <2> QED
    BY <1>1, <1>2, <2>1, <2>2 DEF PageOK
<1>6. /\ commits' = [commits EXCEPT ![key] = 1]
      /\ keys' = keys \cup {[grant |-> page[d].session, home |-> page[d].home, key |-> key, body |-> body]}
  <2>1. key \in 1..MaxKeys
    BY <1>1, <1>2
  <2>2. commits' = [commits EXCEPT ![key] = @ + 1]
    BY DEF Saves, Key
  <2>3. commits' = [commits EXCEPT ![key] = 1]
    BY <1>1, <1>5, <2>1, <2>2
  <2> QED
    BY <2>3 DEF Saves, Key
<1>7. rsvp' = [g \in Guests |-> IF g \in DOMAIN body.answers
                 THEN [state |-> Answered(g, body, reserved'), version |-> rsvp[g].version + 1]
                 ELSE rsvp[g]]
  BY DEF Saves
<1>8. AnswersGrow /\ \A g \in DOMAIN body.seen : rsvp[g].version < rsvp'[g].version
  BY <1>1, <1>3, <1>7, VersionTypes DEF AnswersGrow
<1>9. /\ page' = [page EXCEPT ![d] = new] /\ new \in Pages /\ new.stage = "saved"
      /\ new.operation = page[d].operation /\ new.told = page[d].told
  <2>1. "saved" \in Stages
    BY DEF Stages
  <2>2. new \in Pages
    BY <1>1, <2>1 DEF Pages
  <2>3. page' = [page EXCEPT ![d] = new]
    BY <1>1 DEF Saves, Step
  <2> QED
    BY <1>1, <2>2, <2>3 DEF Pages
<1> HIDE DEF new
<1>10. /\ page' \in [Devices -> Pages] /\ page'[d] = new
       /\ \A e \in Devices \ {d} : page'[e] = page[e]
  BY <1>1, <1>9
<1>11. /\ \A k \in 1..MaxKeys : commits'[k] = IF k = key THEN 1 ELSE commits[k]
       /\ commits' \in [1..MaxKeys -> {0, 1}]
  BY <1>1, <1>6
<1>12. KeysOK'
  <2>1. \A k \in 1..MaxKeys : drawn < k => commits'[k] = 0
    BY <1>1, <1>2, <1>11 DEF SubmissionInv, KeysOK
  <2>2. \A s \in keys' : s.key \in 1..drawn /\ commits'[s.key] = 1
    BY <1>1, <1>2, <1>6, <1>11 DEF SubmissionInv, KeysOK
  <2> QED
    BY <1>1, <1>11, <2>1, <2>2 DEF KeysOK
<1>13. ASSUME NEW e \in Devices PROVE PageOK(e)'
  <2>1. CASE e = d
    <3>1. \E g \in DOMAIN body.seen : body.seen[g].rsvp < rsvp'[g].version
      <4>1. DOMAIN body.seen # {}
        BY <1>3 DEF Saves, Acceptable
      <4> QED
        BY SMTT(30), <1>4, <1>8, <4>1
    <3>2. page'[d].told # 0 => page'[d].told \in 1..drawn /\ commits'[page'[d].told] = 1
      BY <1>1, <1>9, <1>10, <1>11 DEF PageOK
    <3>3. page'[d].operation = page[d].operation /\ commits'[key] = 1
      BY <1>1, <1>2, <1>9, <1>10, <1>11
    <3> QED
      BY <1>1, <1>2, <2>1, <3>1, <3>2, <3>3 DEF PageOK, Used, Spent
  <2>2. CASE e # d
    <3>1. \A k \in 1..drawn : commits[k] = 1 => commits'[k] = 1
      BY <1>1, <1>11
    <3>2. Used(e) => page[e].operation.key # key /\ page[e].operation.key \in 1..MaxKeys
      BY <1>1, <1>2, <2>2 DEF SubmissionInv, OwnKeys, PageOK
    <3>3. Used(e) /\ commits'[page[e].operation.key] = 1 => commits[page[e].operation.key] = 1
      BY <1>11, <3>2
    <3> QED
      BY <1>1, <1>8, <1>10, <2>2, <3>1, <3>3, PageStays
  <2> QED
    BY <2>1, <2>2
<1>14. OwnKeys'
  <2>1. \A e \in Devices : page'[e].operation = page[e].operation
    BY <1>9, <1>10
  <2> QED
    BY <2>1 DEF SubmissionInv, OwnKeys, Used
<1> QED
  BY <1>1, <1>10, <1>12, <1>13, <1>14 DEF SubmissionInv

\* Staff, the worker and the door never touch a page, a key or what was committed.
LEMMA OthersOnce ==
  ASSUME SubmissionInv, Inv', AnswersGrow, UNCHANGED <<keys, page, commits, drawn>>,
         grant' \in [Households -> [id: Nat, live: BOOLEAN]]
  PROVE  SubmissionInv'
<1>1. drawn \in Nat /\ drawn <= drawn'
  BY DEF SubmissionInv, KeysOK
<1>2. \A d \in Devices : PageOK(d)'
  BY <1>1, PageStays
<1>3. KeysOK' /\ OwnKeys'
  BY DEF SubmissionInv, KeysOK, OwnKeys, Used
<1> QED
  BY <1>2, <1>3 DEF SubmissionInv

LEMMA StaffOnce ==
  ASSUME SubmissionInv, Inv',
         \/ \E g \in Guests : Staff(g) \/ redeem(g)
         \/ \E j \in jobs : process(j)
         \/ \E h \in Households : Grants(h)
         \/ saveEvent \/ Closes
  PROVE  SubmissionInv'
<1>0. Inv /\ rsvp \in [Guests -> [state: States, version: Nat]]
  BY DEF SubmissionInv, Inv, RowsOK
<1>1. ASSUME NEW g \in Guests, NEW rows1, rsvp' = [rsvp EXCEPT ![g] = rows1],
             rows1.version \in {rsvp[g].version, rsvp[g].version + 1}
      PROVE  AnswersGrow
  BY <1>0, <1>1 DEF AnswersGrow
<1>2. ASSUME rsvp' = rsvp PROVE AnswersGrow
  BY <1>0, <1>2 DEF AnswersGrow
<1>3. CASE \E g \in Guests : remove(g) \/ approve(g) \/ \E state \in {"confirmed", "declined"} : correction(g, state)
  <2>1. PICK g \in Guests : remove(g) \/ approve(g) \/ \E state \in {"confirmed", "declined"} : correction(g, state)
    BY <1>3
  <2>2. AnswersGrow
    <3>1. CASE remove(g)
      <4> DEFINE row == IF rsvp[g].version = 0 THEN rsvp[g]
                          ELSE [state |-> "declined", version |-> rsvp[g].version + 1]
      <4>1. rsvp' = [rsvp EXCEPT ![g] = row]
        BY <3>1 DEF remove
      <4>2. row.version \in {rsvp[g].version, rsvp[g].version + 1}
        OBVIOUS
      <4> QED
        BY <1>1, <4>1, <4>2
    <3>2. ASSUME NEW state \in States, rsvp' = [rsvp EXCEPT ![g] = [state |-> state, version |-> @.version + 1]]
          PROVE  AnswersGrow
      BY <1>1, <3>2
    <3> QED
      BY <2>1, <3>1, <3>2 DEF approve, correction, States
  <2>3. UNCHANGED <<keys, page, commits, drawn, grant>>
    BY <2>1 DEF remove, approve, correction, Edit
  <2> QED
    BY <2>2, <2>3, OthersOnce DEF SubmissionInv
<1>4. CASE \/ \E g \in Guests : save(g) \/ OwnerHandlesPass(g) \/ redeem(g)
           \/ \E j \in jobs : process(j)
           \/ saveEvent \/ Closes
  <2>1. rsvp' = rsvp /\ UNCHANGED <<keys, page, commits, drawn, grant>>
    <3>1. ASSUME NEW g \in Guests, save(g) \/ OwnerHandlesPass(g)
          PROVE  rsvp' = rsvp /\ UNCHANGED <<keys, page, commits, drawn, grant>>
      BY <3>1 DEF save, OwnerHandlesPass, Edit, rows
    <3>2. ASSUME NEW g \in Guests, redeem(g)
          PROVE  rsvp' = rsvp /\ UNCHANGED <<keys, page, commits, drawn, grant>>
      BY SMTT(30), <3>2 DEF redeem
    <3>3. ASSUME NEW j \in jobs, process(j)
          PROVE  rsvp' = rsvp /\ UNCHANGED <<keys, page, commits, drawn, grant>>
      BY <3>3 DEF process
    <3>4. ASSUME saveEvent \/ Closes
          PROVE  rsvp' = rsvp /\ UNCHANGED <<keys, page, commits, drawn, grant>>
      BY <3>4 DEF saveEvent, Closes, Edit, rows
    <3> QED
      BY <1>4, <3>1, <3>2, <3>3, <3>4
  <2> QED
    BY <1>2, <2>1, OthersOnce DEF SubmissionInv
<1>5. CASE \E h \in Households : Grants(h)
  <2>1. PICK h \in Households : Grants(h)
    BY <1>5
  <2>2. rsvp' = rsvp /\ UNCHANGED <<keys, page, commits, drawn>>
    BY <2>1 DEF Grants, BeginGrant, FinishGrant, revokeGrant, Edit, rows
  <2>3. grant' \in [Households -> [id: Nat, live: BOOLEAN]]
    <3>1. grant \in [Households -> [id: Nat, live: BOOLEAN]]
      BY DEF SubmissionInv
    <3>2. CASE BeginGrant(h)
      BY <3>1, <3>2 DEF BeginGrant
    <3>3. CASE FinishGrant(h)
      <4>1. grant' = [grant EXCEPT ![h] = [id |-> grant[h].id + 1, live |-> TRUE]]
        BY <3>3 DEF FinishGrant
      <4> QED
        BY <3>1, <4>1
    <3>4. CASE revokeGrant(h)
      <4>1. grant' = [grant EXCEPT ![h] = [grant[h] EXCEPT !.live = FALSE]]
        BY <3>1, <3>4 DEF revokeGrant
      <4> QED
        BY <3>1, <4>1
    <3> QED
      BY <2>1, <3>2, <3>3, <3>4 DEF Grants
  <2> QED
    BY <1>2, <2>2, <2>3, OthersOnce
<1> QED
  BY <1>3, <1>4, <1>5 DEF Staff

LEMMA DeadlockOnce ==
  ASSUME SubmissionInv, Inv', NEW d \in Devices, DeadlockDetected(d)
  PROVE  SubmissionInv'
<1>1. Used(d) /\ "refused" \in Stages
  BY DEF DeadlockDetected, Deadlocked, SubmissionInv, PageOK, Stages
<1>2. UNCHANGED <<rsvp, grant, keys, commits, drawn>>
  BY DEF DeadlockDetected, rows
<1>3. CASE Step(d, "refused")
  BY <1>1, <1>2, <1>3, StageMoves
<1>4. CASE page' = page
  <2>1. AnswersGrow
    BY <1>2, VersionTypes DEF AnswersGrow, SubmissionInv
  <2> QED
    BY <1>2, <1>4, <2>1, OthersOnce DEF SubmissionInv
<1> QED
  BY <1>3, <1>4 DEF DeadlockDetected

LEMMA NextOnce ==
  ASSUME SubmissionInv, [RsvpNext]_rsvpVars
  PROVE  SubmissionInv'
<1>0. Inv'
  BY NextInv DEF SubmissionInv
<1>1. CASE \E d \in Devices : submit(d)
  BY <1>0, <1>1, submitOnce
<1>2. CASE \E d \in Devices : \/ authenticate(d) \/ LockParty(d) \/ Repeats(d) \/ Refuses(d)
                              \/ RefusedArrives(d) \/ AnswerIsLost(d)
  BY <1>0, <1>2, StagesOnce
<1>3. CASE \E d \in Devices : Saves(d)
  BY <1>0, <1>3, SavesOnce
<1>4. CASE \E d \in Devices : SavedArrives(d)
  BY <1>0, <1>4, SavedArrivesOnce
<1>5. CASE \E d \in Devices : refresh(d) \/ exchange(d)
  BY <1>0, <1>5, PageReloads
<1>6. CASE \E d \in Devices : DeadlockDetected(d)
  BY <1>0, <1>6, DeadlockOnce
<1>7. CASE \/ \E g \in Guests : Staff(g) \/ redeem(g)
           \/ \E j \in jobs : process(j)
           \/ \E h \in Households : Grants(h)
           \/ saveEvent \/ Closes
  BY <1>0, <1>7, StaffOnce
<1>8. CASE UNCHANGED rsvpVars
  <2>1. UNCHANGED <<rsvp, grant, keys, page, commits, drawn>>
    BY <1>8 DEF rsvpVars
  <2>2. AnswersGrow
    BY <2>1, VersionTypes DEF AnswersGrow, SubmissionInv
  <2> QED
    BY <1>0, <2>1, <2>2, OthersOnce DEF SubmissionInv
<1> QED
  BY <1>1, <1>2, <1>3, <1>4, <1>5, <1>6, <1>7, <1>8 DEF RsvpNext, Submits, Decides, Page

LEMMA InitOnce == RsvpInit => SubmissionInv
<1> SUFFICES ASSUME RsvpInit PROVE SubmissionInv
  OBVIOUS
<1>1. Inv
  BY InitInv
<1>2. PICK home \in [Devices -> Households] :
        page = [d \in Devices |-> [home |-> home[d], session |-> 1, seen |-> Loaded(home[d]),
                                   operation |-> NoOperation, stage |-> "idle", told |-> 0]]
  BY DEF RsvpInit
<1>3. \A d \in Devices : Loaded(home[d]) \in Seens
  BY <1>1, LoadedSeen
<1>4. "idle" \in Stages /\ NoOperation \in Operations
  BY DEF Stages, Operations
<1>5. page \in [Devices -> Pages]
  BY <1>2, <1>3, <1>4 DEF Pages
<1>6. \A d \in Devices : PageOK(d) /\ ~Used(d)
  BY <1>2 DEF PageOK, Used
<1>7. drawn = 0 /\ commits = [k \in 1..MaxKeys |-> 0] /\ keys = {} /\ MaxKeys \in Nat
      /\ grant \in [Households -> [id: Nat, live: BOOLEAN]]
  BY BoundsAssumption DEF RsvpInit
<1>8. KeysOK /\ OwnKeys
  BY <1>6, <1>7 DEF KeysOK, OwnKeys
<1> QED
  BY <1>1, <1>5, <1>6, <1>7, <1>8 DEF SubmissionInv

\* PostgresGuests.submit and GuestRsvp: whatever answers are lost, repeated or sent again
\* under a newer grant, the answers of one submission are committed at most once, and
\* "saved" is told only of a submission that was committed.
THEOREM SubmissionsSaveOnce == RsvpSpec => []SavedOnce
<1>1. SubmissionInv => SavedOnce
  BY DEF SubmissionInv, KeysOK, PageOK, SavedOnce
<1> QED
  BY <1>1, InitOnce, NextOnce, PTL DEF RsvpSpec

=============================================================================
