------------------------------- MODULE HallPasses -------------------------------
(***************************************************************************)
(* The original hall-pass system: passes issued in batches under a ticket   *)
(* limit, redeemed, invalidated and e-mailed by requests that run side by   *)
(* side, and the write fence that freezes its tables for the handover.      *)
(*                                                                          *)
(* A request is one HTTP request of a permitted role, or nothing yet.  It   *)
(* runs as a sequence of statements; one that is not in a transaction       *)
(* commits by itself.  One pass stands for one e-mail batch of ten.         *)
(***************************************************************************)
EXTENDS Naturals, FiniteSets

CONSTANTS
  Requests,    \* the HTTP requests there will be
  MaxPasses,   \* bound: passes ever issued
  MaxBatch,    \* bound: guest names in one request, 100 in the code
  MaxLimit,    \* bound: ticket limits an administrator sets
  Kinds        \* the kinds of requests that are made

ASSUME BoundsAssumption == {MaxPasses, MaxBatch, MaxLimit} \subseteq Nat

VARIABLES
  pass,      \* hall_passes by ticket number
  limit,     \* ticket_settings.ticket_limit
  frozen,    \* legacy_write_fence.frozen
  scans,     \* scan_attempts: the requests that logged their result
  request,   \* what each request is doing
  mailed     \* passes the mail provider took on

vars == <<pass, limit, frozen, scans, request, mailed>>

Ids       == 1..MaxPasses
Unlimited == MaxLimit + 1        \* a null ticket_limit
Limits    == 0..Unlimited

Pass    == [issued: BOOLEAN, used: BOOLEAN, invalidated: BOOLEAN,
            email: {"not_sent", "sent", "failed"}]
Request == [kind: Kinds \cup {"none"},
            phase: {"new", "checked", "locked", "counted", "inserted", "looking", "log",
                    "waiting", "sending", "recordSent", "recordFailed", "done"},
            ids: SUBSET Ids, size: 0..MaxBatch, limit: Limits,
            sent: SUBSET Ids, failed: SUBSET Ids,
            result: {"none", "valid", "used", "invalid", "refused", "error"}]

NoPass  == [issued |-> FALSE, used |-> FALSE, invalidated |-> FALSE, email |-> "not_sent"]
Fresh(kind, phase) == [kind |-> kind, phase |-> phase, ids |-> {}, size |-> 0, limit |-> 0,
                       sent |-> {}, failed |-> {}, result |-> "none"]
Started == Fresh("none", "new")

TypeOK ==
  /\ pass \in [Ids -> Pass]
  /\ limit \in Limits
  /\ frozen \in BOOLEAN
  /\ scans \subseteq Requests
  /\ request \in [Requests -> Request]
  /\ mailed \subseteq Ids

\* Passes issued and a limit set earlier.
Init ==
  /\ \E n \in 0..MaxPasses : pass = [p \in Ids |-> [NoPass EXCEPT !.issued = p <= n]]
  /\ limit \in Limits
  /\ frozen = FALSE
  /\ scans = {}
  /\ request = [r \in Requests |-> Started]
  /\ mailed = {}

Issued == {p \in Ids : pass[p].issued}
Counted == {p \in Issued : ~pass[p].invalidated}

In(r, kind, phase) == request[r].kind = kind /\ request[r].phase = phase

Goes(r, phase) == request' = [request EXCEPT ![r].phase = phase]

\* What a request was about is forgotten, except for a scan's answer.
Done(r, result) ==
  [kind |-> request[r].kind, phase |-> "done", size |-> 0, limit |-> 0, sent |-> {}, failed |-> {},
   ids |-> IF result = "valid" THEN request[r].ids ELSE {}, result |-> result]

Ends(r, result) == request' = [request EXCEPT ![r] = Done(r, result)]

-----------------------------------------------------------------------------
(* The write fence                                                            *)

\* Transactions that are open after their first write: they hold the fence's shared lock.
HoldsFence(r) == request[r].phase \in {"inserted", "looking", "waiting"}

\* Mutant: the trigger locks the fence row for update, one writer at a time.
EntersAlone(r) == \A s \in Requests \ {r} : ~HoldsFence(s)

\* enforce_legacy_write_fence: writers share the lock.
Enters(r) == TRUE

\* The trigger's exception ends the request; its transaction is rolled back.
Refused(r) == frozen /\ Ends(r, "error")

\* Mutant: the trigger only reads the fence, so that a freeze waits for nobody.
FreezesAtOnce == ~frozen

MayFreeze == ~frozen /\ \A r \in Requests : ~HoldsFence(r)

\* The custodian freezes the source, or gives it back before the handover.
Freeze ==
  /\ MayFreeze
  /\ frozen' = TRUE
  /\ UNCHANGED <<pass, limit, scans, request, mailed>>

Unfreeze ==
  /\ frozen
  /\ frozen' = FALSE
  /\ UNCHANGED <<pass, limit, scans, request, mailed>>

\* assertLegacyWritable at the start of every handler, before any of its statements.
Start(r, arguments) ==
  /\ request[r].phase = "new"
  /\ request' = [request EXCEPT ![r] =
                   IF frozen THEN [Fresh(arguments.kind, "done") EXCEPT !.result = "error"]
                   ELSE arguments]
  /\ UNCHANGED <<pass, limit, frozen, scans, mailed>>

\* The web process or its connection ends, or a statement fails: an open transaction is
\* rolled back, a committed one stays.  E-mail errors are caught, see EmailUpdateFails.
Fails(r) ==
  /\ request[r].phase \notin {"new", "done"}
  /\ Ends(r, "error")
  /\ UNCHANGED <<pass, limit, frozen, scans, mailed>>

-----------------------------------------------------------------------------
(* createHallPasses                                                           *)

HoldsSettings(r) == request[r].phase \in {"locked", "counted", "inserted"}

\* Mutant: ticket_settings is read without "for update".
SettingsRead == TRUE

SettingsFree == \A r \in Requests : ~HoldsSettings(r)

LockSettings(r) ==
  /\ In(r, "create", "checked")
  /\ SettingsFree
  /\ request' = [request EXCEPT ![r].phase = "locked", ![r].limit = limit]
  /\ UNCHANGED <<pass, limit, frozen, scans, mailed>>

CountIssued(r) ==
  /\ In(r, "create", "locked")
  /\ IF request[r].limit # Unlimited /\ Cardinality(Counted) + request[r].size > request[r].limit
     THEN Ends(r, "refused")
     ELSE request' = [request EXCEPT ![r].phase = "counted", ![r].limit = 0]
  /\ UNCHANGED <<pass, limit, frozen, scans, mailed>>

\* Ticket numbers come from a sequence: numbers of open transactions are taken.  Without a
\* free token the request fails.
Insert(r) ==
  LET taken == Issued \cup UNION {request[s].ids : s \in {s \in Requests : HoldsSettings(s)}}
      next  == {p \in Ids \ taken : Cardinality({q \in Ids \ taken : q < p}) < request[r].size}
  IN /\ In(r, "create", "counted")
     /\ Enters(r)
     /\ \/ Refused(r)
        \/ /\ ~frozen
           /\ Cardinality(next) = request[r].size
           /\ request' = [request EXCEPT ![r].phase = "inserted", ![r].ids = next,
                                            ![r].size = 0]
        \/ Cardinality(next) < request[r].size /\ Ends(r, "error")
     /\ UNCHANGED <<pass, limit, frozen, scans, mailed>>

\* The new passes become visible; then they are e-mailed if the request asks for it.
Commit(r) ==
  /\ In(r, "create", "inserted")
  /\ pass' = [p \in Ids |-> IF p \in request[r].ids THEN [NoPass EXCEPT !.issued = TRUE]
                            ELSE pass[p]]
  /\ Goes(r, "sending") \/ Ends(r, "none")
  /\ UNCHANGED <<limit, frozen, scans, mailed>>

-----------------------------------------------------------------------------
(* updateTicketLimit: the trigger comes before the settings row's lock        *)

EnterLimit(r) ==
  /\ In(r, "limit", "checked")
  /\ Enters(r)
  /\ Refused(r) \/ (~frozen /\ Goes(r, "waiting"))
  /\ UNCHANGED <<pass, limit, frozen, scans, mailed>>

SetLimit(r) ==
  /\ In(r, "limit", "waiting")
  /\ SettingsFree
  /\ limit' = request[r].limit
  /\ Ends(r, "none")
  /\ UNCHANGED <<pass, frozen, scans, mailed>>

-----------------------------------------------------------------------------
(* Redeeming and invalidating                                                 *)

\* Mutant: the update does not ask for an unused pass.
StillValid(p) == pass[p].issued /\ ~pass[p].invalidated

\* Mutant: the update does not ask for a pass that still counts.
StillUnused(p) == pass[p].issued /\ ~pass[p].used

Redeemable(p) == pass[p].issued /\ ~pass[p].used /\ ~pass[p].invalidated

\* redeem_hall_pass: the update, and in the same transaction a second look if it found none.
Redeem(r) ==
  /\ In(r, "redeem", "checked")
  /\ Enters(r)
  /\ \/ Refused(r) /\ pass' = pass
     \/ \E p \in request[r].ids :
          /\ ~frozen
          /\ Redeemable(p)
          /\ pass' = [pass EXCEPT ![p].used = TRUE]
          /\ request' = [request EXCEPT ![r].phase = "log", ![r].result = "valid"]
     \/ /\ ~frozen
        /\ \A p \in request[r].ids : ~Redeemable(p)
        /\ Goes(r, "looking")
        /\ pass' = pass
  /\ UNCHANGED <<limit, frozen, scans, mailed>>

LookAgain(r) ==
  /\ In(r, "redeem", "looking")
  /\ \E p \in request[r].ids :
       request' = [request EXCEPT ![r].phase = "log",
                     ![r].result = IF pass[p].used /\ ~pass[p].invalidated THEN "used"
                                   ELSE "invalid"]
  /\ UNCHANGED <<pass, limit, frozen, scans, mailed>>

\* logScanAttempt, a statement of its own.
LogScan(r) ==
  /\ In(r, "redeem", "log")
  /\ Enters(r)
  /\ \/ Refused(r) /\ scans' = scans
     \/ ~frozen /\ Ends(r, request[r].result) /\ scans' = scans \cup {r}
  /\ UNCHANGED <<pass, limit, frozen, mailed>>

\* invalidateHallPass and invalidateAllHallPasses.
Invalidate(r) ==
  /\ In(r, "invalidate", "checked")
  /\ Enters(r)
  /\ \/ Refused(r) /\ pass' = pass
     \/ /\ ~frozen
        /\ pass' = [p \in Ids |-> IF p \in request[r].ids /\ pass[p].issued
                                  THEN [pass[p] EXCEPT !.invalidated = TRUE] ELSE pass[p]]
        /\ Ends(r, "none")
  /\ UNCHANGED <<limit, frozen, scans, mailed>>

-----------------------------------------------------------------------------
(* sendPassPdfEmail, sendPassPdfEmailsBatched and updatePassEmailDelivery     *)

Unsent(r) == request[r].ids \ (request[r].sent \cup request[r].failed)

\* The passes are read or created before they are sent and not looked at again.
SendBatch(r, p) ==
  /\ request[r].phase = "sending"
  /\ p \in Unsent(r)
  /\ \/ /\ mailed' = mailed \cup {p}
        /\ request' = [request EXCEPT ![r].sent = @ \cup {p}]
     \/ /\ mailed' \in {mailed, mailed \cup {p}}
        /\ request' = [request EXCEPT ![r].failed = @ \cup {p}]
  /\ UNCHANGED <<pass, limit, frozen, scans>>

Delivered(r) == request[r].sent

WithEmail(ids, status) ==
  [p \in Ids |-> IF p \in ids THEN [pass[p] EXCEPT !.email = status] ELSE pass[p]]

\* An update of no passes is not made.
RecordSent(r) ==
  /\ request[r].phase = "sending"
  /\ Unsent(r) = {}
  /\ Enters(r)
  /\ \/ /\ Delivered(r) # {} /\ Refused(r) /\ pass' = pass
     \/ /\ Delivered(r) = {} \/ ~frozen
        /\ pass' = WithEmail(Delivered(r), "sent")
        /\ Goes(r, "recordFailed")
  /\ UNCHANGED <<limit, frozen, scans, mailed>>

\* passes/[id]/email: an error of the update that records the sending is caught like an
\* error of the sending.
EmailUpdateFails(r) ==
  /\ In(r, "email", "sending")
  /\ Unsent(r) = {} /\ request[r].sent # {}
  /\ request' = [request EXCEPT ![r].phase = "recordFailed", ![r].failed = request[r].sent]
  /\ UNCHANGED <<pass, limit, frozen, scans, mailed>>

RecordFailed(r) ==
  /\ request[r].phase = "recordFailed"
  /\ Enters(r)
  /\ \/ /\ request[r].failed # {} /\ Refused(r) /\ pass' = pass
     \/ /\ request[r].failed = {} \/ ~frozen
        /\ pass' = WithEmail(request[r].failed, "failed")
        /\ Ends(r, "none")
  /\ UNCHANGED <<limit, frozen, scans, mailed>>

-----------------------------------------------------------------------------
Checked(kind) == Fresh(kind, "checked")

\* The arguments a request may come with.
Arguments ==
  {[Checked("create") EXCEPT !.size = n] : n \in 1..MaxBatch}
    \cup {[Checked("limit") EXCEPT !.limit = n] : n \in Limits}
    \cup {[Checked(kind) EXCEPT !.ids = {p}] : kind \in {"redeem", "invalidate"}, p \in Issued}
    \cup {[Checked("invalidate") EXCEPT !.ids = Ids]}
    \cup {[Fresh("email", "sending") EXCEPT !.ids = {p}] : p \in Issued}

Step(r) ==
  \/ LockSettings(r) \/ CountIssued(r) \/ Insert(r) \/ Commit(r)
  \/ EnterLimit(r) \/ SetLimit(r)
  \/ Redeem(r) \/ LookAgain(r) \/ LogScan(r) \/ Invalidate(r)
  \/ \E p \in Ids : SendBatch(r, p)
  \/ RecordSent(r) \/ RecordFailed(r)

Next ==
  \/ \E r \in Requests, a \in Arguments : a.kind \in Kinds /\ Start(r, a)
  \/ \E r \in Requests : Step(r) \/ EmailUpdateFails(r) \/ Fails(r)
  \/ Freeze
  \/ Unfreeze

Spec == Init /\ [][Next]_vars

\* A request goes on by itself once it has started.
FairSpec == Spec /\ \A r \in Requests : WF_vars(Step(r))

-----------------------------------------------------------------------------
(* Properties                                                                 *)

Count(passes) == Cardinality({p \in Ids : passes[p].issued /\ ~passes[p].invalidated})

\* Whoever issues, invalidates or changes the limit at the same time: no batch brings the
\* passes that count above the limit in force when it commits.
LimitHolds ==
  [][Count(pass') > Count(pass) /\ limit # Unlimited => Count(pass') <= limit]_vars

\* Two scans of a pass, or a scan and a repeated request, never both answer 'valid'.
AdmittedOnce ==
  \A p \in Ids :
    Cardinality({r \in Requests : request[r].result = "valid" /\ p \in request[r].ids}) <= 1

\* A pass invalidated before it was used never becomes used.
InvalidatedStaysOut ==
  [][\A p \in Ids : pass[p].invalidated /\ ~pass[p].used => ~pass'[p].used]_vars

\* decisions-for-review.md:217: "A privileged freeze waits for in-flight writers, then
\* rejects later statements".  A snapshot read while the source stays frozen is final, also
\* for transactions that began before.
FrozenIsFinal == [][frozen /\ frozen' => UNCHANGED <<pass, limit, scans>>]_vars

\* The statements, locks and failures of the requests implement HallPassService: whatever
\* runs side by side, every change is one of its operations at one moment.
Service == INSTANCE HallPassService WITH
  pass <- pass, limit <- limit, frozen <- frozen, mailed <- mailed
ImplementsService == Service!ServiceSpec

\* A pass recorded as sent was taken on by the mail provider.
SentIsMailed == \A p \in Ids : pass[p].email = "sent" => p \in mailed

\* Requests that wait for the settings row, for the fence or for both never wait for each
\* other: every request that has started ends.
RequestsEnd == \A r \in Requests : request[r].phase # "new" ~> request[r].phase = "done"
=============================================================================
