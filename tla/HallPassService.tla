--------------------------- MODULE HallPassService ---------------------------
(***************************************************************************)
(* What the original hall-pass service promises to whoever calls it: every  *)
(* request that changes something takes effect at one moment.  HallPasses   *)
(* shows the statements, locks and failures behind these moments and        *)
(* implements this module; the pages of the couple's site are written       *)
(* against it.                                                              *)
(***************************************************************************)
EXTENDS Naturals, FiniteSets

CONSTANTS
  MaxPasses,   \* bound: passes ever issued
  MaxBatch,    \* bound: guest names in one request, 100 in the code
  MaxLimit     \* bound: ticket limits an administrator sets

VARIABLES
  pass,      \* hall_passes by ticket number
  limit,     \* ticket_settings.ticket_limit
  frozen,    \* legacy_write_fence.frozen
  mailed     \* passes the mail provider took on

serviceVars == <<pass, limit, frozen, mailed>>

Ids       == 1..MaxPasses
Unlimited == MaxLimit + 1        \* a null ticket_limit
Limits    == 0..Unlimited

Pass   == [issued: BOOLEAN, used: BOOLEAN, invalidated: BOOLEAN,
           email: {"not_sent", "sent", "failed"}]
NoPass == [issued |-> FALSE, used |-> FALSE, invalidated |-> FALSE, email |-> "not_sent"]

Issued  == {p \in Ids : pass[p].issued}
Counted == {p \in Issued : ~pass[p].invalidated}

ServiceInit ==
  /\ \E n \in 0..MaxPasses : pass = [p \in Ids |-> [NoPass EXCEPT !.issued = p <= n]]
  /\ limit \in Limits
  /\ frozen = FALSE
  /\ mailed = {}

\* A batch is issued as a whole and within the limit in force.
Issue(ids) ==
  /\ ~frozen
  /\ ids # {} /\ ids \cap Issued = {} /\ Cardinality(ids) <= MaxBatch
  /\ limit # Unlimited => Cardinality(Counted) + Cardinality(ids) <= limit
  /\ pass' = [p \in Ids |-> IF p \in ids THEN [NoPass EXCEPT !.issued = TRUE] ELSE pass[p]]
  /\ UNCHANGED <<limit, frozen, mailed>>

\* Mutant: a pass that was used is redeemed again.
RedeemableAgain(p) == pass[p].issued /\ ~pass[p].invalidated

Redeemable(p) == pass[p].issued /\ ~pass[p].used /\ ~pass[p].invalidated

RedeemPass(p) ==
  /\ ~frozen
  /\ Redeemable(p)
  /\ pass' = [pass EXCEPT ![p].used = TRUE]
  /\ UNCHANGED <<limit, frozen, mailed>>

InvalidatePasses(ids) ==
  /\ ~frozen
  /\ pass' = [p \in Ids |-> IF p \in ids /\ pass[p].issued
                            THEN [pass[p] EXCEPT !.invalidated = TRUE] ELSE pass[p]]
  /\ UNCHANGED <<limit, frozen, mailed>>

SetTicketLimit(n) ==
  /\ ~frozen
  /\ limit' = n
  /\ UNCHANGED <<pass, frozen, mailed>>

MailPasses(ids) ==
  /\ mailed' = mailed \cup ids
  /\ UNCHANGED <<pass, limit, frozen>>

\* Only what the provider took on is recorded as sent.
RecordEmail(ids, status) ==
  /\ ~frozen
  /\ status = "sent" => ids \subseteq mailed
  /\ pass' = [p \in Ids |-> IF p \in ids THEN [pass[p] EXCEPT !.email = status] ELSE pass[p]]
  /\ UNCHANGED <<limit, frozen, mailed>>

SwitchFence ==
  /\ frozen' = ~frozen
  /\ UNCHANGED <<pass, limit, mailed>>

ServiceNext ==
  \/ \E ids \in SUBSET Ids : Issue(ids) \/ InvalidatePasses(ids) \/ MailPasses(ids)
  \/ \E p \in Ids : RedeemPass(p)
  \/ \E n \in Limits : SetTicketLimit(n)
  \/ \E ids \in SUBSET Ids, status \in {"sent", "failed"} : RecordEmail(ids, status)
  \/ SwitchFence

ServiceSpec == ServiceInit /\ [][ServiceNext]_serviceVars
=============================================================================
