------------------------------- MODULE Rsvp -------------------------------
(***************************************************************************)
(* The answers of households for one event and the places they take:      *)
(* packages/persistence/src/guests.ts (submit, approve, save, remove,     *)
(* grants), the event's settings (index.ts, saveEvent), the pass-issue    *)
(* job and the pass rows of passes.ts, and the guests' page               *)
(* apps/web/app/w/[slug]/rsvp/rsvp.tsx.                                    *)
(*                                                                         *)
(* A submission is a PostgreSQL transaction of three steps, because its   *)
(* locks are taken in three places: the grant (FOR SHARE), the household   *)
(* (FOR UPDATE), then the event.  Everything it decides is read under the  *)
(* event's lock, so the last step decides, writes and commits at once.     *)
(* Creating a grant locks the household first and the old grant second.    *)
(*                                                                         *)
(* Abstracted: a name is only "changed or not" and "given or not"; the     *)
(* optional answers, the e-mails and the audit rows are left out; a pass   *)
(* has only its status, its credentials and versions are Admission's.      *)
(* Staff edits are made at the current version of the row: one made at an  *)
(* older version is refused and changes nothing.                           *)
(***************************************************************************)
EXTENDS Naturals, FiniteSets

CONSTANTS Households, Guests, PartyOf,   \* PartyOf: the household of each guest
          Devices,                       \* browsers with an open RSVP page
          Capacities,                    \* the capacities an owner may set
          Policies,                      \* the admission policies an owner may set
          Replies,                       \* the replies a guest may give
          MaxKeys,                       \* bounds the operation keys drawn
          MaxEdits                       \* bounds the edits of staff

ASSUME PartiesAssumption == /\ PartyOf \in [Guests -> Households]
                            /\ IsFiniteSet(Guests)
ASSUME BoundsAssumption == /\ Capacities \subseteq Nat
                           /\ MaxKeys \in Nat /\ MaxEdits \in Nat
ASSUME PoliciesAssumption == Policies \subseteq {"disabled", "manual", "automatic"}
ASSUME RepliesAssumption ==
  Replies \subseteq [choice: {"attending", "declining"}, renames: BOOLEAN]

VARIABLES
  event,    \* the std_events row: settings and confirmed_count
  guest,    \* std_attendees: version, whether named, whether removed
  rsvp,     \* std_rsvps: state and version (0: no row)
  reserved, \* std_reservations
  pass,     \* std_passes: the status of each guest's pass, or "none"
  jobs,     \* the pass-issue rows of std_jobs
  grant,    \* std_guest_grants: the newest grant of a household, and whether it is live
  keys,     \* std_operation_keys of RSVPs: who stored which answers under which key
  lock,     \* who holds the lock on a household's row
  page,     \* each device: cookie, page and the request it waits for
  owner,    \* the household for which a grant is being created, or "idle"
  commits,  \* history: how often the answers sent under each key were committed
  drawn,    \* keys drawn so far (bounded)
  edits     \* staff edits so far (bounded)

rsvpVars == <<event, guest, rsvp, reserved, pass, jobs, grant, keys, lock, page, owner, commits, drawn, edits>>
rows     == <<rsvp, reserved, pass, jobs>>

NoOne == "no one"
NoOperation == [key |-> 0]   \* no submission kept for a retry
States == {"unanswered", "pending", "confirmed", "declined", "waitlisted"}
Stages == {"idle", "sent", "authenticated", "locked", "saved", "refused"}

Party(h) == {g \in Guests : PartyOf[g] = h /\ ~guest[g].removed}

Named(row) == [version |-> row.version + 1, named |-> TRUE, removed |-> row.removed]
Gone(row)  == [version |-> row.version + 1, named |-> row.named, removed |-> TRUE]

\* The versions GuestRsvp sends back with the answers: those it last loaded.
Loaded(h) == [g \in Party(h) |-> [rsvp |-> rsvp[g].version, guest |-> guest[g].version]]

RsvpInit ==
  /\ \E c \in Capacities, a \in {"automatic", "manual"}, p \in Policies :
       event = [capacity |-> c, approval |-> a, admission |-> p, count |-> 0,
                phase |-> "open", version |-> 1]
  /\ guest = [g \in Guests |-> [version |-> 1, named |-> TRUE, removed |-> FALSE]]
  /\ rsvp = [g \in Guests |-> [state |-> "unanswered", version |-> 0]]
  /\ reserved = {} /\ pass = [g \in Guests |-> "none"] /\ jobs = {} /\ keys = {}
  /\ grant = [h \in Households |-> [id |-> 1, live |-> TRUE]]
  /\ lock = [h \in Households |-> NoOne]
  /\ \E home \in [Devices -> Households] :
       page = [d \in Devices |-> [home |-> home[d], session |-> 1, seen |-> Loaded(home[d]),
                                  operation |-> NoOperation, stage |-> "idle", told |-> 0]]
  /\ owner = "idle" /\ commits = [k \in 1..MaxKeys |-> 0] /\ drawn = 0 /\ edits = 0

(***************************************************************************)
(* The guests' page.                                                       *)
(***************************************************************************)
Step(d, stage) == page' = [page EXCEPT ![d].stage = stage]
ServerRests == UNCHANGED <<event, guest, rows, grant, keys, lock, owner, commits, edits>>

\* A submission of the very text sent last keeps its key; other text draws a new one.
KeyFor(d, body) ==
  IF page[d].operation # NoOperation /\ page[d].operation.body = body
    THEN page[d].operation.key ELSE drawn + 1

submit(d) ==
  /\ page[d].stage = "idle"
  /\ \E answers \in [DOMAIN page[d].seen -> Replies] :
       LET body == [seen |-> page[d].seen, answers |-> answers]
           key  == KeyFor(d, body)
       IN /\ key <= MaxKeys
          /\ drawn' = IF key > drawn THEN key ELSE drawn
          /\ page' = [page EXCEPT ![d].operation = [key |-> key, body |-> body],
                                  ![d].stage = "sent", ![d].told = 0]
  /\ ServerRests

PageOnly == ServerRests /\ UNCHANGED drawn

\* The answer arrives: the notice, then refresh, and only then the key is forgotten.
SavedArrives(d) ==
  /\ page[d].stage = "saved"
  /\ \E refreshed \in BOOLEAN :
       page' = [page EXCEPT ![d].stage = "idle", ![d].told = page[d].operation.key,
                  ![d].seen = IF refreshed THEN Loaded(page[d].home) ELSE @,
                  ![d].operation = IF refreshed THEN NoOperation ELSE @]
  /\ PageOnly

RefusedArrives(d) == page[d].stage = "refused" /\ Step(d, "idle") /\ PageOnly

\* The request or its answer is lost, or the server stops: nothing else is known.
AnswerIsLost(d) ==
  /\ page[d].stage \in {"sent", "saved"} /\ Step(d, "idle") /\ PageOnly

\* "Reload current answers".
refresh(d) ==
  /\ page[d].stage = "idle" /\ page[d].session = grant[page[d].home].id /\ grant[page[d].home].live
  /\ page[d].seen # Loaded(page[d].home)
  /\ page' = [page EXCEPT ![d].seen = Loaded(page[d].home)]
  /\ PageOnly

\* The household's new link is opened in another tab: the cookie changes, this page stays.
exchange(d) ==
  /\ grant[page[d].home].live /\ page[d].session # grant[page[d].home].id
  /\ page[d].stage = "idle"
  /\ page' = [page EXCEPT ![d].session = grant[page[d].home].id]
  /\ PageOnly

(***************************************************************************)
(* PostgresGuests.submit.                                                  *)
(***************************************************************************)
\* Mutant: the connection is released without a rollback or a commit.
StillLocked(d) == lock

Unlocked(d) == [h \in Households |-> IF lock[h] = d THEN NoOne ELSE lock[h]]

authenticate(d) ==
  LET h == page[d].home
      admitted == page[d].session = grant[h].id /\ grant[h].live /\ event.phase # "archived"
  IN /\ page[d].stage = "sent"
     /\ Step(d, IF admitted THEN "authenticated" ELSE "refused")
     /\ UNCHANGED <<event, guest, rows, grant, keys, lock, owner, commits, drawn, edits>>

LockParty(d) ==
  /\ page[d].stage = "authenticated" /\ lock[page[d].home] = NoOne
  /\ lock' = [lock EXCEPT ![page[d].home] = d]
  /\ Step(d, "locked")
  /\ UNCHANGED <<event, guest, rows, grant, keys, owner, commits, drawn, edits>>

Key(d) == [grant |-> page[d].session, home |-> page[d].home, key |-> page[d].operation.key]
Stored(d) == Key(d) \in {[grant |-> s.grant, home |-> s.home, key |-> s.key] : s \in keys}

\* A repeated key returns the stored result when the answers are the same.
Repeats(d) ==
  /\ page[d].stage = "locked" /\ Stored(d)
  /\ Step(d, IF \E s \in keys : s = [grant |-> Key(d).grant, home |-> Key(d).home,
                                     key |-> Key(d).key, body |-> page[d].operation.body]
               THEN "saved" ELSE "refused")
  /\ lock' = Unlocked(d)
  /\ UNCHANGED <<event, guest, rows, grant, keys, owner, commits, drawn, edits>>

Admitted(g) == pass[g] = "used"
Attending(body) == {g \in DOMAIN body.answers : body.answers[g].choice = "attending"}
Declining(body) == DOMAIN body.answers \ Attending(body)

\* Mutant: the versions of the answers are not compared.
AnyVersions(body) == DOMAIN body.seen \subseteq Guests

CurrentVersions(body) == body.seen = [g \in DOMAIN body.seen |->
                            [rsvp |-> rsvp[g].version, guest |-> guest[g].version]]

Acceptable(d, body) ==
  /\ event.phase = "open"
  /\ DOMAIN body.answers = Party(page[d].home) /\ DOMAIN body.answers # {}
  /\ CurrentVersions(body)
  /\ \A g \in DOMAIN body.answers : Admitted(g) => ~body.answers[g].renames /\ g \in Attending(body)
  /\ \A g \in Attending(body) : guest[g].named \/ body.answers[g].renames

Refuses(d) ==
  /\ page[d].stage = "locked" /\ ~Stored(d) /\ ~Acceptable(d, page[d].operation.body)
  /\ Step(d, "refused")
  /\ lock' = Unlocked(d)
  /\ UNCHANGED <<event, guest, rows, grant, keys, owner, commits, drawn, edits>>

\* Every decline is released before places are given, in the order of the form.
Released(body) == reserved \cap Declining(body)
Free(body) == event.count - Cardinality(Released(body)) < event.capacity

\* Which attending guests without a place get one: as many as fit.
Placings(body) ==
  LET asking == Attending(body) \ reserved
      places == event.capacity - (event.count - Cardinality(Released(body)))
      fit    == IF Cardinality(asking) <= places THEN Cardinality(asking) ELSE places
  IN IF event.approval = "manual" \/ ~Free(body) THEN {{}}
       ELSE {placed \in SUBSET asking : Cardinality(placed) = fit}

Answered(g, body, holds) ==
  IF g \in Declining(body) THEN "declined"
    ELSE IF g \in holds THEN "confirmed"
    ELSE IF event.approval = "manual" THEN "pending" ELSE "waitlisted"

\* Mutant: the dedupe key does not name the version of the answer.
VersionlessKey(by, g, version) == [by |-> by, guest |-> g, version |-> 0]
JobKey(by, g, version) == [by |-> by, guest |-> g, version |-> version]

\* insert into std_jobs ... on conflict (dedupe_key) do nothing
Enqueued(wanted) ==
  jobs \cup {[id |-> k, state |-> "queued"] : k \in wanted \ {j.id : j \in jobs}}

\* Mutant: the passes of guests who are no longer expected stay active.
NoneRevoked(gs) == pass
Revoked(gs) == [g \in Guests |-> IF g \in gs /\ pass[g] = "active" THEN "revoked" ELSE pass[g]]

Saves(d) ==
  LET body == page[d].operation.body
      all  == DOMAIN body.answers
  IN /\ page[d].stage = "locked" /\ ~Stored(d) /\ Acceptable(d, body)
     /\ \E placed \in Placings(body) :
          LET holds == (reserved \ Released(body)) \cup placed
              fresh == {g \in Attending(body) \cap holds : rsvp[g].state # "confirmed"}
          IN /\ reserved' = holds
             /\ event' = [event EXCEPT !.count = @ - Cardinality(Released(body)) + Cardinality(placed)]
             /\ rsvp' = [g \in Guests |-> IF g \in all
                           THEN [state |-> Answered(g, body, holds), version |-> rsvp[g].version + 1]
                           ELSE rsvp[g]]
             /\ jobs' = IF event.admission = "automatic"
                          THEN Enqueued({JobKey("answer", g, rsvp[g].version + 1) : g \in fresh})
                          ELSE jobs
     /\ pass' = Revoked(Declining(body))
     /\ guest' = [g \in Guests |-> IF g \in all /\ body.answers[g].renames
                                    THEN Named(guest[g]) ELSE guest[g]]
     /\ keys' = keys \cup {[grant |-> Key(d).grant, home |-> Key(d).home, key |-> Key(d).key, body |-> body]}
     /\ commits' = [commits EXCEPT ![Key(d).key] = @ + 1]
     /\ lock' = Unlocked(d)
     /\ Step(d, "saved")
     /\ UNCHANGED <<grant, owner, drawn, edits>>

(***************************************************************************)
(* Staff, the worker and the door.                                         *)
(***************************************************************************)
\* Submissions that hold the wedding's and their grant's row FOR SHARE.
Sharing == {d \in Devices : page[d].stage \in {"authenticated", "locked"}}

Edit == edits < MaxEdits /\ edits' = edits + 1 /\ UNCHANGED <<keys, page, commits, drawn>>

\* PostgresGuests.issueGrant locks the household, then waits for the old grant.
BeginGrant(h) ==
  /\ owner = "idle" /\ lock[h] = NoOne
  /\ owner' = h /\ lock' = [lock EXCEPT ![h] = "owner"]
  /\ Edit /\ UNCHANGED <<event, guest, rows, grant>>

SharesGrant(d, h) == page[d].home = h /\ grant[h].live /\ d \in Sharing

FinishGrant(h) ==
  /\ owner = h /\ ~\E d \in Devices : SharesGrant(d, h)
  /\ grant' = [grant EXCEPT ![h] = [id |-> @.id + 1, live |-> TRUE]]
  /\ owner' = "idle" /\ lock' = [lock EXCEPT ![h] = NoOne]
  /\ UNCHANGED <<event, guest, rows, keys, page, commits, drawn, edits>>

\* PostgreSQL ends a cycle of waits by aborting either transaction.
Deadlocked(d) == page[d].stage = "authenticated" /\ owner = page[d].home /\ SharesGrant(d, owner)

DeadlockDetected(d) ==
  /\ Deadlocked(d)
  /\ \/ Step(d, "refused") /\ UNCHANGED <<owner, lock>>
     \/ owner' = "idle" /\ lock' = [lock EXCEPT ![owner] = NoOne] /\ UNCHANGED page
  /\ UNCHANGED <<event, guest, rows, grant, keys, commits, drawn, edits>>

revokeGrant(h) ==
  /\ grant[h].live /\ ~\E d \in Devices : SharesGrant(d, h)
  /\ grant' = [grant EXCEPT ![h].live = FALSE]
  /\ Edit /\ UNCHANGED <<event, guest, rows, lock, owner>>

\* PostgresGuests.save of an existing guest: a name given by staff.
save(g) ==
  /\ ~guest[g].removed /\ ~Admitted(g) /\ lock[PartyOf[g]] = NoOne
  /\ guest' = [guest EXCEPT ![g] = Named(guest[g])]
  /\ Edit /\ UNCHANGED <<event, rows, grant, lock, owner>>

remove(g) ==
  /\ ~guest[g].removed /\ ~Admitted(g) /\ lock[PartyOf[g]] = NoOne
  /\ guest' = [guest EXCEPT ![g] = Gone(guest[g])]
  /\ reserved' = reserved \ {g}
  /\ event' = [event EXCEPT !.count = @ - Cardinality(reserved \cap {g})]
  /\ rsvp' = [rsvp EXCEPT ![g] = IF @.version = 0 THEN @
                                   ELSE [state |-> "declined", version |-> @.version + 1]]
  /\ pass' = Revoked({g})
  /\ Edit /\ UNCHANGED <<jobs, grant, lock, owner>>

\* Mutant: approval does not look at the capacity.
NeverFull == FALSE

Full == event.count >= event.capacity

approve(g) ==
  /\ rsvp[g].state \in {"pending", "waitlisted"} /\ ~Full
  /\ reserved' = reserved \cup {g}
  /\ event' = [event EXCEPT !.count = @ + 1]
  /\ rsvp' = [rsvp EXCEPT ![g] = [state |-> "confirmed", version |-> @.version + 1]]
  /\ jobs' = IF event.admission = "automatic"
               THEN Enqueued({JobKey("answer", g, rsvp[g].version + 1)}) ELSE jobs
  /\ Edit /\ UNCHANGED <<guest, pass, grant, lock, owner>>

\* PostgresPasses.correction: the answer of a guest who was admitted.
correction(g, state) ==
  /\ Admitted(g) /\ lock[PartyOf[g]] = NoOne
  /\ state = "confirmed" /\ g \notin reserved => ~Full
  /\ reserved' = IF state = "confirmed" THEN reserved \cup {g} ELSE reserved \ {g}
  /\ event' = [event EXCEPT !.count = @ + Cardinality(reserved') - Cardinality(reserved)]
  /\ rsvp' = [rsvp EXCEPT ![g] = [state |-> state, version |-> @.version + 1]]
  /\ Edit /\ UNCHANGED <<guest, pass, jobs, grant, lock, owner>>

\* PostgresStore.saveEvent locks the wedding's row, so no submission is in progress.
saveEvent ==
  /\ Sharing = {} /\ owner = "idle"
  /\ \E capacity \in Capacities, admission \in Policies, approval \in {"automatic", "manual"} :
       /\ capacity >= event.count
       /\ (\E g \in Guests : Admitted(g)) => admission = event.admission
       /\ event' = [event EXCEPT !.capacity = capacity, !.admission = admission,
                                 !.approval = approval, !.version = @ + 1]
       /\ event' # [event EXCEPT !.version = @ + 1]
       /\ jobs' = IF admission = "automatic"
                    THEN Enqueued({JobKey("policy", g, event.version + 1) :
                                     g \in {x \in Guests : rsvp[x].state = "confirmed"
                                              /\ ~guest[x].removed /\ pass[x] = "none"}})
                    ELSE jobs
       /\ pass' = IF admission = "disabled" THEN Revoked(Guests) ELSE pass
  /\ Edit /\ UNCHANGED <<guest, rsvp, reserved, grant, lock, owner>>

\* The response deadline passes; the couple archive the wedding.
Closes ==
  /\ \/ event.phase = "open" /\ event' = [event EXCEPT !.phase = "closed"]
     \/ event.phase # "archived" /\ Sharing = {} /\ owner = "idle"
        /\ event' = [event EXCEPT !.phase = "archived"]
  /\ Edit /\ UNCHANGED <<guest, rows, grant, lock, owner>>

\* What issueIn and reissue ask for: a confirmed guest who has a place.
Eligible(g) == rsvp[g].state = "confirmed" /\ g \in reserved /\ ~guest[g].removed

\* An owner revokes a pass, or issues one to a confirmed guest.
OwnerHandlesPass(g) ==
  /\ \/ pass[g] = "active" /\ pass' = [pass EXCEPT ![g] = "revoked"]
     \/ pass[g] \in {"none", "revoked"} /\ Eligible(g) /\ event.admission # "disabled"
        /\ pass' = [pass EXCEPT ![g] = "active"]
  /\ Edit /\ UNCHANGED <<event, guest, rsvp, reserved, jobs, grant, lock, owner>>

\* PostgresPasses.process of a pass-issue job: skipped, refused, or a pass.
process(j) ==
  /\ j \in jobs /\ j.state = "queued"
  /\ LET g      == j.id.guest
         skips  == event.admission # "automatic" \/ rsvp[g].state # "confirmed"
         issues == ~skips /\ Eligible(g) /\ pass[g] = "none"
         ended  == IF skips \/ issues \/ pass[g] = "active" THEN "completed" ELSE "failed"
     IN /\ pass' = IF issues THEN [pass EXCEPT ![g] = "active"] ELSE pass
        /\ jobs' = (jobs \ {j}) \cup {[j EXCEPT !.state = ended]}
  /\ UNCHANGED <<event, guest, rsvp, reserved, grant, keys, lock, page, owner, commits, drawn, edits>>

\* PostgresPasses.redeem (module Admission).
redeem(g) ==
  /\ pass[g] = "active" /\ rsvp[g].state = "confirmed" /\ ~guest[g].removed
  /\ pass' = [pass EXCEPT ![g] = "used"]
  /\ UNCHANGED <<event, guest, rsvp, reserved, jobs, grant, keys, lock, page, owner, commits, drawn, edits>>

(***************************************************************************)
Decides(d)  == Repeats(d) \/ Refuses(d) \/ Saves(d)
Submits(d)  == submit(d) \/ authenticate(d) \/ LockParty(d) \/ Decides(d)
Page(d)     == SavedArrives(d) \/ RefusedArrives(d) \/ AnswerIsLost(d) \/ refresh(d) \/ exchange(d)
Grants(h)   == BeginGrant(h) \/ FinishGrant(h) \/ revokeGrant(h)
Staff(g)    == save(g) \/ remove(g) \/ approve(g) \/ OwnerHandlesPass(g)
                 \/ \E state \in {"confirmed", "declined"} : correction(g, state)

RsvpNext ==
  \/ \E d \in Devices : Submits(d) \/ Page(d) \/ DeadlockDetected(d)
  \/ \E h \in Households : Grants(h)
  \/ \E g \in Guests : Staff(g) \/ redeem(g)
  \/ \E j \in jobs : process(j)
  \/ saveEvent \/ Closes

\* Row locks are granted in the order of the waits; a request is served and answered.
RsvpFairness ==
  /\ \A d \in Devices : /\ WF_rsvpVars(authenticate(d)) /\ SF_rsvpVars(LockParty(d))
                        /\ WF_rsvpVars(Decides(d)) /\ WF_rsvpVars(DeadlockDetected(d))
                        /\ WF_rsvpVars(SavedArrives(d) \/ RefusedArrives(d))
  /\ \A h \in Households : WF_rsvpVars(FinishGrant(h))

RsvpSpec     == RsvpInit /\ [][RsvpNext]_rsvpVars
FairRsvpSpec == RsvpSpec /\ RsvpFairness

(***************************************************************************)
(* Properties.                                                             *)
(***************************************************************************)
TypeOK ==
  /\ event \in [capacity: Nat, approval: {"automatic", "manual"}, admission: Policies,
                count: Nat, phase: {"open", "closed", "archived"}, version: Nat]
  /\ guest \in [Guests -> [version: Nat, named: BOOLEAN, removed: BOOLEAN]]
  /\ rsvp \in [Guests -> [state: States, version: Nat]]
  /\ reserved \subseteq Guests
  /\ pass \in [Guests -> {"none", "active", "revoked", "used"}]
  /\ \A j \in jobs : j.id.guest \in Guests /\ j.state \in {"queued", "completed", "failed"}
  /\ grant \in [Households -> [id: Nat, live: BOOLEAN]]
  /\ lock \in [Households -> Devices \cup {NoOne, "owner"}]
  /\ \A d \in Devices : page[d].stage \in Stages /\ page[d].home \in Households
  /\ owner \in Households \cup {"idle"}
  /\ commits \in [1..MaxKeys -> Nat] /\ drawn \in 0..MaxKeys /\ edits \in 0..MaxEdits

\* However submissions, approvals, removals, corrections and capacity changes
\* interleave, confirmed_count is the number of reservations, it never exceeds the
\* capacity, and exactly the confirmed guests hold a reservation.
PlacesHold ==
  /\ event.count = Cardinality(reserved) /\ event.count <= event.capacity
  /\ reserved = {g \in Guests : rsvp[g].state = "confirmed"}

\* A pass that would be admitted at the door belongs to a guest who is still expected:
\* declining, removal and a late pass-issue job leave no pass behind.
ActivePassIsExpected == \A g \in Guests : pass[g] = "active" => Eligible(g)

\* The answers of one submission are committed at most once, however often it is sent
\* again after a lost answer and under whichever grant; "Your responses are saved"
\* is shown only for a submission that was committed.
SavedOnce ==
  /\ \A k \in 1..MaxKeys : commits[k] <= 1
  /\ \A d \in Devices : page[d].told # 0 => commits[page[d].told] = 1

\* At an event with automatic passes a confirmed guest without a pass has a job that
\* will issue it, or failed where the operator sees it; re-answering, approval and a
\* change of policy never lose it to the job table's dedupe key.
AutomaticPassComes ==
  \A g \in Guests :
    (event.admission = "automatic" /\ Eligible(g) /\ pass[g] = "none")
      => \E j \in jobs : j.id.guest = g /\ j.state # "completed"

\* Every submission ends: no lock is left behind and a deadlock with the creation of a
\* grant ends one of the two.
SubmissionEnds == \A d \in Devices : page[d].stage # "idle" ~> page[d].stage = "idle"
===========================================================================
