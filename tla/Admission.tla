------------------------------- MODULE Admission -------------------------------
(***************************************************************************)
(* Event-day admission for one event of one wedding: entry passes, scans,   *)
(* the admission ledger that lives outside the database, the replay that    *)
(* every API and worker start runs, recovery holds, backups and restores.   *)
(*                                                                          *)
(* Everything under "database" is rolled back by a restore.  The ledger is  *)
(* independent storage and is not.  Serial numbers stand for the random     *)
(* values of the code: a pass lineage's id (randomUUID) and a credential    *)
(* (token and manual code) are both drawn from 1..MaxSerial, never twice.   *)
(***************************************************************************)
EXTENDS Naturals

CONSTANTS
  Attendees,    \* invited people who may hold a pass
  Operations,   \* scan operations: a staff member together with an operation key
  Requests,     \* redeem requests the API may be working on at a time
  Backups,      \* retained backups
  None,         \* no attendee, no operation
  MaxSerial,    \* bound: passes and credentials issued
  MaxVersion,   \* bound: pass version up to which ordinary edits are made
  MaxFaults     \* bound: crashes and failed calls

ASSUME NoneAssumption == None \notin Attendees \cup Operations
ASSUME BoundAssumption == {MaxSerial, MaxVersion, MaxFaults} \subseteq Nat

VARIABLES
  \* the database
  pass,         \* std_passes: attendee -> row (one per attendee and event)
  confirmed,    \* attendees whose RSVP is confirmed with a reservation
  admitted,     \* std_admissions: the pass ids admitted
  scans,        \* std_scan_operations: operation -> stored outcome
  hold,         \* std_admission_recovery_holds: pass id -> state
  gate,         \* the event: passes disabled, or its window is closed, open or ended
  \* independent storage
  ledger,       \* admission ledger: pass id -> record
  backup,       \* retained database snapshots
  \* processes
  svc,          \* the API process, or the restore that replaces its database
  requests,     \* redeem requests in flight
  todo,         \* ledger keys a starting process has listed and not yet read
  read,         \* the ledger record it has read and not yet applied
  \* history and bounds
  serial,       \* random values drawn so far
  lineage,      \* whose pass each value was drawn for as an id
  acks,         \* "Admitted" responses staff have seen
  disowned,     \* passes ruled out by an operator although a retained backup has them admitted
  faults        \* crashes and failed calls so far

database == <<pass, confirmed, admitted, scans, hold, gate>>
vars == <<database, ledger, backup, svc, requests, todo, read, serial, lineage, acks, disowned,
          faults>>

Serials  == 1..MaxSerial
Statuses == {"none", "active", "used", "revoked", "expired"}
Gates    == {"disabled", "closed", "open", "ended"}
Holds    == {"none", "uncertain", "lineage", "resolved"}

PassRow == [id: Nat, cred: Nat, status: Statuses, version: Nat]
Scan    == [cred: Nat, outcome: {"none", "admitted", "refused"},
            id: Nat, attendee: Attendees \cup {None}]
Record  == [state: {"none", "intent", "committed"}, version: Nat,
            attendee: Attendees \cup {None}, op: Operations \cup {None}]
Request == [phase: {"idle", "checked", "locked", "committed"},
            op: Operations \cup {None}, cred: Nat, id: Nat,
            attendee: Attendees \cup {None}, version: Nat]
Snapshot == [pass: [Attendees -> PassRow], confirmed: SUBSET Attendees,
             admitted: SUBSET Nat, scans: [Operations -> Scan],
             hold: [Serials -> Holds]]

NoPass   == [id |-> 0, cred |-> 0, status |-> "none", version |-> 0]
NoScan   == [cred |-> 0, outcome |-> "none", id |-> 0, attendee |-> None]
Refused  == [cred |-> 0, outcome |-> "refused", id |-> 0, attendee |-> None]
NoRecord == [state |-> "none", version |-> 0, attendee |-> None, op |-> None]
Idle     == [phase |-> "idle", op |-> None, cred |-> 0, id |-> 0,
             attendee |-> None, version |-> 0]
NoRead   == [id |-> 0, record |-> NoRecord]

TypeOK ==
  /\ pass \in [Attendees -> PassRow]
  /\ confirmed \subseteq Attendees
  /\ admitted \subseteq Nat
  /\ scans \in [Operations -> Scan]
  /\ hold \in [Serials -> Holds]
  /\ gate \in Gates
  /\ ledger \in [Serials -> Record]
  /\ backup \in [Backups -> Snapshot]
  /\ svc \in {"up", "down", "booting", "restoring"}
  /\ requests \in [Requests -> Request]
  /\ todo \subseteq Serials
  /\ read \in [id: Serials \cup {0}, record: Record]
  /\ serial \in 0..MaxSerial
  /\ lineage \in [Serials -> Attendees \cup {None}]
  /\ acks \subseteq [op: Operations \cup {None}, id: Nat, attendee: Attendees \cup {None}]
  /\ disowned \subseteq Serials
  /\ faults \in 0..MaxFaults

\* Mutant: a backup without the admission rows.
SnapshotWithoutAdmissions ==
  [pass |-> pass, confirmed |-> confirmed, admitted |-> {}, scans |-> scans, hold |-> hold]

CurrentSnapshot ==
  [pass |-> pass, confirmed |-> confirmed, admitted |-> admitted, scans |-> scans,
   hold |-> hold]

Init ==
  /\ pass = [a \in Attendees |-> NoPass]
  /\ confirmed = {}
  /\ admitted = {}
  /\ scans = [o \in Operations |-> NoScan]
  /\ hold = [i \in Serials |-> "none"]
  /\ gate = "closed"
  /\ ledger = [i \in Serials |-> NoRecord]
  /\ backup = [b \in Backups |-> CurrentSnapshot]
  /\ svc = "up"
  /\ requests = [r \in Requests |-> Idle]
  /\ todo = {}
  /\ read = NoRead
  /\ serial = 0
  /\ lineage = [i \in Serials |-> None]
  /\ acks = {}
  /\ disowned = {}
  /\ faults = 0

-----------------------------------------------------------------------------
(* Helpers *)

\* The event row is locked from a scan's decision until its transaction ends.
EventFree == \A r \in Requests : requests[r].phase # "locked"

\* A pass row is locked together with the event of the scan that holds it.
RowFree(i) == \A r \in Requests : requests[r].phase = "locked" => requests[r].id # i

HoldOpen == \E i \in Serials : hold[i] \in {"uncertain", "lineage"}

Fault == faults < MaxFaults /\ faults' = faults + 1

Bumped(row, status) ==
  [id |-> row.id, cred |-> row.cred, status |-> status, version |-> row.version + 1]

\* Every active pass takes the status, with a new version; the others stay.
AllActive(status) ==
  [a \in Attendees |-> IF pass[a].status = "active" THEN Bumped(pass[a], status) ELSE pass[a]]

CanBump == \A a \in Attendees : pass[a].status = "active" => pass[a].version < MaxVersion

Larger(m, n) == IF m < n THEN n ELSE m

\* Mutant: the record's own state becomes the pass's status.
ReplayedAsRecorded(row, usedVersion) == Bumped(row, "committed")

\* A committed record's replay: the restored row's version may lag behind the one used.
Replayed(row, usedVersion) ==
  [id |-> row.id, cred |-> row.cred, status |-> "used",
   version |-> Larger(row.version, usedVersion + 1)]

Checked(o, c) ==
  [phase |-> "checked", op |-> o, cred |-> c, id |-> 0, attendee |-> None, version |-> 0]

At(q, phase, i, a, v) ==
  [phase |-> phase, op |-> q.op, cred |-> q.cred, id |-> i, attendee |-> a, version |-> v]

OfRequest(q, state) ==
  [state |-> state, version |-> q.version, attendee |-> q.attendee, op |-> q.op]

-----------------------------------------------------------------------------
(* Guests and owners: each handler locks the event row and runs while the API *)
(* is up.                                                                     *)

Editing == svc = "up" /\ EventFree

OutsideDatabase == <<ledger, backup, disowned, svc, requests, todo, read, acks, faults>>

\* PostgresGuests.submit and approve, or a correction back to attending.
Confirm(a) ==
  /\ Editing
  /\ a \notin confirmed
  /\ confirmed' = confirmed \cup {a}
  /\ UNCHANGED <<pass, admitted, scans, hold, gate, serial, lineage, OutsideDatabase>>

\* PostgresGuests.submit: declining releases the place and revokes the pass; an
\* admitted attendee is refused (ALREADY_ADMITTED).
Decline(a) ==
  /\ Editing
  /\ a \in confirmed
  /\ pass[a].id \notin admitted
  /\ pass[a].status = "active" => pass[a].version < MaxVersion
  /\ confirmed' = confirmed \ {a}
  /\ pass' = IF pass[a].status = "active"
             THEN [pass EXCEPT ![a] = Bumped(@, "revoked")] ELSE pass
  /\ UNCHANGED <<admitted, scans, hold, gate, serial, lineage, OutsideDatabase>>

\* PostgresPasses.correction: an owner records that an admitted attendee declined.
\* The admission and the used pass stay.
CorrectToDeclined(a) ==
  /\ Editing
  /\ pass[a].id \in admitted
  /\ a \in confirmed
  /\ confirmed' = confirmed \ {a}
  /\ UNCHANGED <<pass, admitted, scans, hold, gate, serial, lineage, OutsideDatabase>>

\* PostgresGuests.refreshTickets: a renamed attendee's active pass takes a new
\* version and keeps its credential.
RefreshTickets(a) ==
  /\ Editing
  /\ pass[a].status = "active"
  /\ pass[a].version < MaxVersion
  /\ pass' = [pass EXCEPT ![a] = Bumped(@, "active")]
  /\ UNCHANGED <<confirmed, admitted, scans, hold, gate, serial, lineage, OutsideDatabase>>

\* PostgresStore.saveEvent: policy and window are locked by the first admission;
\* disabling passes revokes the active ones, and a change of title, venue, zone or
\* start gives those still active a new version.
SaveEvent(g, moved) ==
  /\ Editing
  /\ CanBump
  /\ admitted # {} => g = gate
  /\ gate' = g
  /\ pass' = IF g = "disabled" THEN AllActive("revoked")
             ELSE IF moved THEN AllActive("active") ELSE pass
  /\ UNCHANGED <<confirmed, admitted, scans, hold, serial, lineage, OutsideDatabase>>

Issuable(a) == gate # "disabled" /\ a \in confirmed /\ pass[a].status = "none"

\* PostgresPasses.issueIn, from the owner's request or an automatic pass-issue job.
Issue(a) ==
  /\ Editing
  /\ Issuable(a)
  /\ serial < MaxSerial
  /\ serial' = serial + 1
  /\ lineage' = [lineage EXCEPT ![serial + 1] = a]
  /\ pass' = [pass EXCEPT ![a] = [id |-> serial + 1, cred |-> serial + 1,
                                  status |-> "active", version |-> 1]]
  /\ UNCHANGED <<confirmed, admitted, scans, hold, gate, OutsideDatabase>>

\* PostgresPasses.revoke: does not read the ledger.
Revoke(a) ==
  /\ Editing
  /\ pass[a].status = "active"
  /\ pass[a].version < MaxVersion
  /\ pass' = [pass EXCEPT ![a] = Bumped(@, "revoked")]
  /\ UNCHANGED <<confirmed, admitted, scans, hold, gate, serial, lineage, OutsideDatabase>>

Reissued(row) == [Bumped(row, "active") EXCEPT !.cred = serial + 1]

\* PostgresPasses.reissue: refused while the ledger records anything of the pass.
Reissue(a) ==
  /\ Editing
  /\ pass[a].status \in {"active", "revoked", "expired"}
  /\ ledger[pass[a].id].state = "none"
  /\ pass[a].version < MaxVersion
  /\ gate # "disabled"
  /\ a \in confirmed
  /\ serial < MaxSerial
  /\ serial' = serial + 1
  /\ pass' = [pass EXCEPT ![a] = Reissued(@)]
  /\ UNCHANGED <<confirmed, admitted, scans, hold, gate, lineage, OutsideDatabase>>

\* Time passes: the window opens and ends.
Tick ==
  /\ \/ gate = "closed" /\ gate' = "open"
     \/ gate = "open" /\ gate' = "ended"
  /\ UNCHANGED <<pass, confirmed, admitted, scans, hold, serial, lineage, OutsideDatabase>>

\* PostgresPasses.sweep, in the worker's minute loop.
Sweep ==
  /\ svc # "restoring"
  /\ EventFree
  /\ gate = "ended"
  /\ \E a \in Attendees : pass[a].status = "active"
  /\ pass' = AllActive("expired")
  /\ UNCHANGED <<confirmed, admitted, scans, hold, gate, serial, lineage, OutsideDatabase>>

-----------------------------------------------------------------------------
(* PostgresPasses.redeem                                                      *)

Aside == <<confirmed, hold, gate, backup, disowned, svc, todo, read, serial, lineage>>

\* The hold check comes before the event lock.
BeginScan(r, o, c) ==
  /\ svc = "up"
  /\ requests[r].phase = "idle"
  /\ ~HoldOpen
  /\ requests' = [requests EXCEPT ![r] = Checked(o, c)]
  /\ UNCHANGED <<database, ledger, backup, disowned, svc, todo, read, serial, lineage, acks, faults>>

\* The request has the event lock and no outcome is stored for its operation.
Deciding(r) ==
  /\ requests[r].phase = "checked"
  /\ EventFree
  /\ scans[requests[r].op].outcome = "none"

Admissible(a, c) ==
  /\ pass[a].cred = c
  /\ pass[a].status = "active"
  /\ gate = "open"
  /\ a \in confirmed

\* An earlier intent may only be continued by the same operation on the same version.
Continues(q, a) ==
  LET previous == ledger[pass[a].id]
  IN \/ previous.state = "none"
     \/ /\ previous.state = "intent"
        /\ previous.op = q.op
        /\ previous.version = pass[a].version

Located(q, a) == At(q, "locked", pass[a].id, a, pass[a].version)

\* Any outcome but admitted is stored for the operation key.  Which credential it was for
\* only tells which refusal a repeat of the key gets.
RefuseScan(r) ==
  LET q == requests[r]
  IN /\ Deciding(r)
     /\ \A a \in Attendees : ~Admissible(a, q.cred)
     /\ scans' = [scans EXCEPT ![q.op] = Refused]
     /\ requests' = [requests EXCEPT ![r] = Idle]
     /\ UNCHANGED <<pass, admitted, ledger, acks, faults, Aside>>

\* 409 ADMISSION_RECOVERY_HOLD: the ledger knows another attempt.  Nothing is stored.
ScanConflicts(r) ==
  /\ Deciding(r)
  /\ \E a \in Attendees : Admissible(a, requests[r].cred) /\ ~Continues(requests[r], a)
  /\ requests' = [requests EXCEPT ![r] = Idle]
  /\ UNCHANGED <<database, ledger, backup, disowned, svc, todo, read, serial, lineage, acks, faults>>

\* The intent is written while the event and pass rows are locked.
WriteIntent(r) ==
  /\ Deciding(r)
  /\ \E a \in Attendees :
       LET q == Located(requests[r], a)
       IN /\ Admissible(a, q.cred)
          /\ Continues(q, a)
          /\ ledger' = [ledger EXCEPT ![q.id] = OfRequest(q, "intent")]
          /\ requests' = [requests EXCEPT ![r] = q]
  /\ UNCHANGED <<database, backup, disowned, svc, todo, read, serial, lineage, acks, faults>>

\* The write failed, with or without effect: 503 and the transaction rolls back.
IntentFails(r) ==
  /\ Deciding(r)
  /\ Fault
  /\ \E a \in Attendees :
       LET q == Located(requests[r], a)
       IN /\ Admissible(a, q.cred)
          /\ Continues(q, a)
          /\ ledger' \in {ledger, [ledger EXCEPT ![q.id] = OfRequest(q, "intent")]}
  /\ requests' = [requests EXCEPT ![r] = Idle]
  /\ UNCHANGED <<database, backup, disowned, svc, todo, read, serial, lineage, acks>>

\* The transaction: pass used, admission row and stored outcome together.
UsePass(q) ==
  /\ pass' = [pass EXCEPT ![q.attendee] = Bumped(@, "used")]
  /\ admitted' = admitted \cup {q.id}
  /\ scans' = [scans EXCEPT ![q.op] = [cred |-> q.cred, outcome |-> "admitted",
                                       id |-> q.id, attendee |-> q.attendee]]

CommitAdmission(r) ==
  /\ requests[r].phase = "locked"
  /\ UsePass(requests[r])
  /\ requests' = [requests EXCEPT ![r].phase = "committed"]
  /\ UNCHANGED <<ledger, acks, faults, Aside>>

\* The commit fails, or takes effect and its reply is lost.
CommitFails(r) ==
  /\ requests[r].phase = "locked"
  /\ Fault
  /\ UsePass(requests[r]) \/ UNCHANGED <<pass, admitted, scans>>
  /\ requests' = [requests EXCEPT ![r] = Idle]
  /\ UNCHANGED <<ledger, acks, Aside>>

\* The committed record is written after the transaction, outside every lock.
Acknowledge(r) ==
  LET q == requests[r]
  IN /\ q.phase = "committed"
     /\ ledger' = [ledger EXCEPT ![q.id] = OfRequest(q, "committed")]
     /\ acks' = acks \cup {[op |-> q.op, id |-> q.id, attendee |-> q.attendee]}
     /\ requests' = [requests EXCEPT ![r] = Idle]
     /\ UNCHANGED <<pass, admitted, scans, faults, Aside>>

\* 503: the acknowledgement is uncertain; the record may have been written.
AcknowledgeFails(r) ==
  LET q == requests[r]
  IN /\ q.phase = "committed"
     /\ Fault
     /\ ledger' \in {ledger, [ledger EXCEPT ![q.id] = OfRequest(q, "committed")]}
     /\ requests' = [requests EXCEPT ![r] = Idle]
     /\ UNCHANGED <<pass, admitted, scans, acks, Aside>>

\* Mutant: an admission not yet acknowledged is no answer.
AnswersAcknowledged(q) ==
  /\ scans[q.op].outcome = "admitted" /\ scans[q.op].cred = q.cred
  /\ ledger[scans[q.op].id].state = "committed"

\* The stored outcome answers a repeat of the same operation and credential; for another
\* credential the key is refused (IDEMPOTENCY_CONFLICT).
Answers(q) == scans[q.op].outcome = "admitted" /\ scans[q.op].cred = q.cred

\* Mutant: the stored outcome is returned as it is.
NeverRepairs(q) == FALSE

\* An admission whose record is still this operation's intent repairs the record first.
NeedsRepair(q) ==
  LET record == ledger[scans[q.op].id] IN record.state = "intent" /\ record.op = q.op

\* The operation key has a stored outcome.
RepeatScan(r) ==
  LET q == requests[r]
      stored == scans[q.op]
      record == ledger[stored.id]
  IN /\ q.phase = "checked"
     /\ EventFree
     /\ stored.outcome # "none"
     /\ \/ /\ ~Answers(q)
           /\ requests' = [requests EXCEPT ![r] = Idle]
           /\ acks' = acks
        \/ /\ Answers(q) /\ NeedsRepair(q)
           /\ requests' = [requests EXCEPT ![r] =
                             At(q, "committed", stored.id, record.attendee, record.version)]
           /\ acks' = acks
        \/ /\ Answers(q) /\ ~NeedsRepair(q)
           /\ requests' = [requests EXCEPT ![r] = Idle]
           /\ acks' = acks \cup {[op |-> q.op, id |-> stored.id, attendee |-> stored.attendee]}
     /\ UNCHANGED <<pass, admitted, scans, ledger, faults, Aside>>

\* The request is lost, or a database or ledger read fails, before anything is decided.
ScanFails(r) ==
  /\ requests[r].phase = "checked"
  /\ Fault
  /\ requests' = [requests EXCEPT ![r] = Idle]
  /\ UNCHANGED <<database, ledger, backup, disowned, svc, todo, read, serial, lineage, acks>>

-----------------------------------------------------------------------------
(* Crash, start-up replay (PostgresRecovery.admissionState) and recovery holds *)

\* The API process ends: its transactions roll back, its requests are gone.
Crash ==
  /\ svc = "up"
  /\ Fault
  /\ svc' = "down"
  /\ requests' = [r \in Requests |-> Idle]
  /\ todo' = {}
  /\ read' = NoRead
  /\ UNCHANGED <<database, ledger, backup, disowned, serial, lineage, acks>>

\* A process lists the ledger's keys: the API before it serves, a worker at any time.
ListRecords ==
  /\ todo' = {i \in Serials : ledger[i].state # "none"}
  /\ UNCHANGED <<database, ledger, backup, disowned, requests, read, serial, lineage, acks, faults>>

StartApi ==
  /\ svc = "down"
  /\ svc' = "booting"
  /\ ListRecords

StartWorker ==
  /\ svc = "up"
  /\ todo = {} /\ read = NoRead
  /\ svc' = svc
  /\ ListRecords

ReadRecord(i) ==
  /\ read = NoRead
  /\ i \in todo
  /\ ledger[i].state # "none"
  /\ read' = [id |-> i, record |-> ledger[i]]
  /\ todo' = todo \ {i}
  /\ UNCHANGED <<database, ledger, backup, disowned, svc, requests, serial, lineage, acks, faults>>

\* A read fails, or the record was discarded since it was listed: the process ends.
StopReplay ==
  /\ svc \in {"booting", "up"}
  /\ todo # {}
  /\ IF \E i \in todo : ledger[i].state = "none" THEN faults' = faults ELSE Fault
  /\ svc' = IF svc = "booting" THEN "down" ELSE svc
  /\ todo' = {}
  /\ read' = NoRead
  /\ UNCHANGED <<database, ledger, backup, disowned, requests, serial, lineage, acks>>

\* Mutant: a record without its pass is skipped.
PlaceNoHold(i, reason) == hold' = hold

\* on conflict (wedding_id, pass_id) do nothing
PlaceHold(i, reason) ==
  hold' = IF hold[i] = "none" THEN [hold EXCEPT ![i] = reason] ELSE hold

\* One record's transaction, against the pass row it locks.
ApplyRecord ==
  LET i == read.id
      a == read.record.attendee
  IN /\ i # 0
     /\ RowFree(i)
     /\ \/ /\ pass[a].id # i
           /\ PlaceHold(i, "lineage")
           /\ UNCHANGED <<pass, admitted>>
        \/ /\ pass[a].id = i
           /\ pass[a].status = "used"
           /\ UNCHANGED <<pass, admitted, hold>>
        \/ /\ pass[a].id = i
           /\ pass[a].status # "used"
           /\ read.record.state = "intent"
           /\ PlaceHold(i, "uncertain")
           /\ UNCHANGED <<pass, admitted>>
        \/ /\ pass[a].id = i
           /\ pass[a].status # "used"
           /\ read.record.state = "committed"
           /\ pass' = [pass EXCEPT ![a] = Replayed(@, read.record.version)]
           /\ admitted' = admitted \cup {i}
           /\ hold' = hold
     /\ read' = NoRead
     /\ UNCHANGED <<confirmed, scans, gate, ledger, backup, disowned, svc, requests, todo,
                    serial, lineage, acks, faults>>

\* Mutant: the API serves while it replays.
ServeEarly ==
  /\ svc = "booting"
  /\ svc' = "up"
  /\ UNCHANGED <<database, ledger, backup, disowned, requests, todo, read, serial, lineage, acks, faults>>

\* server.ts serves only once the replay is complete.
Serve ==
  /\ svc = "booting"
  /\ todo = {} /\ read = NoRead
  /\ svc' = "up"
  /\ UNCHANGED <<database, ledger, backup, disowned, requests, todo, read, serial, lineage, acks, faults>>

\* Mutant: neither the pass nor the ledger is looked at again.
ResolvableUnchecked(i) == Editing /\ hold[i] = "uncertain" /\ \A k \in acks : k.id # i

\* PostgresOperator.resolveAdmissionHold.  The operator has independently confirmed
\* that nobody was let in on this pass.
Resolvable(i) ==
  /\ Editing
  /\ hold[i] = "uncertain"
  /\ \E a \in Attendees : pass[a].id = i /\ pass[a].status # "used"
  /\ i \notin admitted
  /\ ledger[i].state # "committed"
  /\ \A k \in acks : k.id # i

\* The operator cannot see that a backup holds the admission he rules out.
Disowns(i) == disowned' = disowned \cup {j \in {i} : \E b \in Backups : j \in backup[b].admitted}

ResolveHold(i) ==
  /\ Resolvable(i)
  /\ Disowns(i)
  /\ ledger' = [ledger EXCEPT ![i] = NoRecord]
  /\ hold' = [hold EXCEPT ![i] = "resolved"]
  /\ UNCHANGED <<pass, confirmed, admitted, scans, gate, backup, svc, requests,
                 todo, read, serial, lineage, acks, faults>>

\* The intent is discarded and the transaction then fails.
ResolveFails(i) ==
  /\ Resolvable(i)
  /\ Fault
  /\ Disowns(i)
  /\ ledger' = [ledger EXCEPT ![i] = NoRecord]
  /\ UNCHANGED <<database, backup, svc, requests, todo, read, serial, lineage, acks>>

-----------------------------------------------------------------------------
(* Backups and restores                                                       *)

\* createBackup: one repeatable-read snapshot of the database, without the ledger.
TakeBackup(b) ==
  /\ svc \in {"up", "down"}
  /\ backup[b] # CurrentSnapshot
  /\ backup' = [backup EXCEPT ![b] = CurrentSnapshot]
  /\ UNCHANGED <<database, ledger, disowned, svc, requests, todo, read, serial, lineage, acks,
                 faults>>

\* restoreBackup into an empty database, with the old API and workers stopped.  The
\* restored event has any settings: later edits are undone and time went on.
Restore(b) ==
  /\ svc = "down"
  /\ svc' = "restoring"
  /\ pass' = backup[b].pass
  /\ confirmed' = backup[b].confirmed
  /\ admitted' = backup[b].admitted
  /\ scans' = backup[b].scans
  /\ hold' = backup[b].hold
  /\ gate' \in Gates
  /\ UNCHANGED <<ledger, backup, disowned, requests, todo, read, serial, lineage, acks, faults>>

\* Mutant: restored passes stay valid.
QuarantineNothing ==
  /\ svc = "restoring"
  /\ svc' = "down"
  /\ UNCHANGED <<database, ledger, backup, disowned, requests, todo, read, serial, lineage, acks, faults>>

\* quarantineRestoredAccess: no restored credential stays valid.
Quarantine ==
  /\ svc = "restoring"
  /\ svc' = "down"
  /\ pass' = AllActive("revoked")
  /\ UNCHANGED <<confirmed, admitted, scans, hold, gate, ledger, backup, disowned, requests,
                 todo, read, serial, lineage, acks, faults>>

-----------------------------------------------------------------------------
GuestStep ==
  \/ \E a \in Attendees : Confirm(a) \/ Decline(a) \/ CorrectToDeclined(a) \/ RefreshTickets(a)
  \/ \E a \in Attendees : Issue(a) \/ Revoke(a) \/ Reissue(a)
  \/ \E g \in Gates, moved \in BOOLEAN : SaveEvent(g, moved)
  \/ Tick \/ Sweep

ScanStep(r) ==
  \/ \E o \in Operations, c \in 1..serial : BeginScan(r, o, c)
  \/ RefuseScan(r) \/ ScanConflicts(r) \/ WriteIntent(r) \/ CommitAdmission(r)
  \/ Acknowledge(r) \/ RepeatScan(r)
  \/ IntentFails(r) \/ CommitFails(r) \/ AcknowledgeFails(r) \/ ScanFails(r)

RecoveryStep ==
  \/ Crash \/ StartApi \/ StartWorker \/ StopReplay \/ ApplyRecord \/ Serve \/ Quarantine
  \/ \E i \in Serials : ReadRecord(i) \/ ResolveHold(i) \/ ResolveFails(i)
  \/ \E b \in Backups : TakeBackup(b) \/ Restore(b)

Next == GuestStep \/ (\E r \in Requests : ScanStep(r)) \/ RecoveryStep

Spec == Init /\ [][Next]_vars

\* Staff "Retry same scan" until they are answered.
RetryScan(o) ==
  /\ scans[o].outcome = "admitted"
  /\ \E r \in Requests : BeginScan(r, o, scans[o].cred)

\* A request the API has taken runs to its end: Node resolves every awaited promise and
\* PostgreSQL grants row locks in turn.  A stopped API is restarted and replays; an
\* operator deals with an open hold.  Guests, edits and new scans owe nothing.
Fairness ==
  /\ \A o \in Operations : SF_vars(RetryScan(o))
  /\ \A r \in Requests :
       /\ SF_vars(RefuseScan(r) \/ ScanConflicts(r) \/ WriteIntent(r) \/ RepeatScan(r))
       /\ WF_vars(CommitAdmission(r))
       /\ WF_vars(Acknowledge(r))
  /\ WF_vars(StartApi)
  /\ WF_vars(\E i \in Serials : ReadRecord(i))
  /\ SF_vars(ApplyRecord)
  /\ WF_vars(Serve)
  /\ SF_vars(\E i \in Serials : ResolveHold(i))

FairSpec == Spec /\ Fairness

-----------------------------------------------------------------------------
(* Properties                                                                 *)

\* ADR 010: exactly one admission per pass.  However many staff scan, retry and crash, and
\* whichever backups are restored in whatever order, at most one operation is ever told
\* "Admitted" for an attendee, unless an operator has ruled the admission out while a
\* retained backup has it: that backup, once restored, tells of it again.
SingleAdmission ==
  \A j, k \in acks :
    j.attendee = k.attendee /\ {j.id, k.id} \cap disowned = {} => j.op = k.op /\ j.id = k.id

\* ADR 018 and decisions-for-review.md:102: an acknowledged admission is in the
\* independent ledger, as committed by the operation that was told so, whichever backups
\* are restored, with the same exception.
AckIsDurable ==
  \A k \in acks : k.id \notin disowned =>
    /\ ledger[k.id].state = "committed"
    /\ ledger[k.id].op = k.op
    /\ ledger[k.id].attendee = k.attendee

\* ADR 018:7, "Acknowledging admission requires an independently durable private journal":
\* without the exception.  A repeated key is answered from the database alone.
AckIsInJournal == \A k \in acks : ledger[k.id].state = "committed" /\ ledger[k.id].op = k.op

\* While the API serves, every acknowledged admission is a used pass with its admission
\* row, or scanning is held because a restore lost the pass row (MISSING_LINEAGE); with
\* the same exception.
AckIsUsed ==
  svc = "up" => \A k \in acks : k.id \notin disowned =>
    \/ /\ pass[k.attendee].id = k.id
       /\ pass[k.attendee].status = "used"
       /\ k.id \in admitted
    \/ hold[k.id] = "lineage"

\* A pass is used exactly when it has its admission row, at every moment another
\* transaction could look, replays and restores included.
UsedHasAdmission ==
  \A a \in Attendees : pass[a].status = "used" <=> pass[a].id \in admitted

\* A credential that has been replaced, revoked, expired or used never opens the door
\* again, whatever a restore brings back.
Live(c) == svc # "restoring" /\ \E a \in Attendees : pass[a].status = "active" /\ pass[a].cred = c
KeepsDead == \A c \in 1..serial : ~Live(c) => ~Live(c)'
DeadCredentialStaysDead == [][KeepsDead]_vars

\* An intent or committed record is never replaced by another operation's, and a
\* committed record is never taken back.
KeepsRecords ==
  \A i \in Serials :
    /\ ledger[i].state = "committed" => ledger'[i] = ledger[i]
    /\ ledger[i].state = "intent" => ledger'[i].state = "none" \/ ledger'[i].op = ledger[i].op
RecordIsKept == [][KeepsRecords]_vars

\* ADR 018: "a failure after commit returns uncertainty and the same operation key repairs
\* the acknowledgement".  An admission the database holds is eventually acknowledged to its
\* operation, unless a hold is open on a pass since used, which no operator can close.
HoldStuck == \E i \in Serials : hold[i] = "uncertain" /\ i \in admitted
AdmissionIsAnswered ==
  \A o \in Operations :
    scans[o].outcome = "admitted" ~> HoldStuck \/ \E k \in acks : k.op = o
=============================================================================
