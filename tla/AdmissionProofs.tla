---------------------------- MODULE AdmissionProofs ----------------------------
(***************************************************************************)
(* The safety properties of Admission, proved for every number of attendees, *)
(* operations, requests, passes, retained backups and failures.              *)
(***************************************************************************)
EXTENDS Admission, TLAPS

-----------------------------------------------------------------------------
(* The inductive invariant                                                    *)

\* What holds of the database's tables, now and in every retained snapshot alike.
PassesConsistent(p, adm) ==
  /\ \A a \in Attendees :
       /\ p[a].status = "none" <=> p[a].id = 0
       /\ p[a].id # 0 => p[a].id \in Serials /\ lineage[p[a].id] = a
       /\ p[a].status = "used" <=> p[a].id \in adm
  /\ \A i \in adm : i \in Serials /\ lineage[i] \in Attendees /\ p[lineage[i]].id = i

\* The ledger knows the admission too, unless an operator ruled it out.
ScansConsistent(p, sc) ==
  \A o \in Operations : sc[o].outcome = "admitted" =>
    /\ sc[o].attendee \in Attendees
    /\ sc[o].id \in Serials
    /\ p[sc[o].attendee].id = sc[o].id
    /\ p[sc[o].attendee].status = "used"
    /\ sc[o].id \notin disowned =>
         ledger[sc[o].id].state # "none" /\ ledger[sc[o].id].op = o

HoldsConsistent(p, h) ==
  \A i \in Serials : h[i] \in {"uncertain", "resolved"} =>
    lineage[i] \in Attendees /\ p[lineage[i]].id = i

DatabaseInv ==
  PassesConsistent(pass, admitted) /\ ScansConsistent(pass, scans) /\ HoldsConsistent(pass, hold)

\* Every backup holds a database that may come back.
BackupInv ==
  \A b \in Backups :
    /\ PassesConsistent(backup[b].pass, backup[b].admitted)
    /\ ScansConsistent(backup[b].pass, backup[b].scans)
    /\ HoldsConsistent(backup[b].pass, backup[b].hold)

LineageInv ==
  /\ \A i \in Serials : i > serial => lineage[i] = None
  /\ \A i \in Serials : ledger[i].state # "none" =>
       /\ lineage[i] \in Attendees
       /\ ledger[i].attendee = lineage[i]

\* A request past the hold check runs in a serving API that has lost no lineage; once
\* its intent is written the ledger and the pass stay as it left them.
RequestOK(r) ==
  /\ requests[r].phase # "idle" =>
       /\ svc = "up"
       /\ requests[r].op \in Operations
       /\ \A i \in Serials : hold[i] # "lineage"
  /\ requests[r].phase \in {"locked", "committed"} =>
       /\ requests[r].id \in Serials
       /\ requests[r].attendee \in Attendees
       /\ pass[requests[r].attendee].id = requests[r].id
       /\ ledger[requests[r].id].state # "none"
       /\ ledger[requests[r].id].op = requests[r].op
       /\ ledger[requests[r].id].version = requests[r].version
  /\ requests[r].phase = "locked" =>
       /\ pass[requests[r].attendee].status = "active"
       /\ ledger[requests[r].id].state = "intent"
       /\ \A s \in Requests : requests[s].phase = "locked" => s = r
  /\ requests[r].phase = "committed" => pass[requests[r].attendee].status = "used"

RequestInv == \A r \in Requests : RequestOK(r)

\* The database agrees with the ledger about a pass, or scanning is held for it.
Accounted(i) ==
  \/ hold[i] = "lineage"
  \/ /\ pass[lineage[i]].id = i
     /\ ledger[i].state = "committed" => pass[lineage[i]].status = "used"

\* The replay has dealt with every record it is done with, and a serving API with all.
ReplayInv ==
  /\ svc \in {"up", "booting"} =>
       \A i \in Serials : ledger[i].state # "none" =>
         Accounted(i) \/ (svc = "booting" /\ (i \in todo \/ i = read.id))
  /\ todo # {} => svc \in {"up", "booting"}
  /\ read.id # 0 =>
       /\ svc \in {"up", "booting"}
       /\ lineage[read.id] \in Attendees
       /\ read.record.attendee = lineage[read.id]
       /\ read.record.state # "none"
       /\ svc = "booting" => read.record = ledger[read.id]
       /\ svc = "up" => hold[read.id] = "lineage" \/ pass[read.record.attendee].id = read.id

AckInv == \A k \in acks : k.id \in Serials /\ k.attendee \in Attendees

Inv ==
  /\ TypeOK /\ DatabaseInv /\ BackupInv /\ LineageInv /\ RequestInv /\ ReplayInv
  /\ AckInv /\ AckIsDurable /\ SingleAdmission

-----------------------------------------------------------------------------
(* Types                                                                      *)

\* A pass row whose version goes up keeps its type (passes.ts, every
\* "version=version+1").
LEMMA BumpedType ==
  ASSUME NEW row \in PassRow, NEW status \in Statuses
  PROVE  /\ Bumped(row, status) \in PassRow
         /\ Bumped(row, status).id = row.id
         /\ Bumped(row, status).cred = row.cred
         /\ Bumped(row, status).status = status
BY DEF Bumped, PassRow

\* Revoking every active pass at once keeps the type of the passes (saveEvent).
LEMMA AllActiveType ==
  ASSUME pass \in [Attendees -> PassRow], NEW status \in Statuses
  PROVE  /\ AllActive(status) \in [Attendees -> PassRow]
         /\ \A a \in Attendees :
              /\ AllActive(status)[a].id = pass[a].id
              /\ AllActive(status)[a].cred = pass[a].cred
              /\ AllActive(status)[a].status =
                   (IF pass[a].status = "active" THEN status ELSE pass[a].status)
BY BumpedType DEF AllActive

\* A ledger record written for a request has the type of a record (redeem).
LEMMA RecordType ==
  ASSUME NEW q \in Request, NEW state \in {"none", "intent", "committed"}
  PROVE  /\ OfRequest(q, state) \in Record
         /\ OfRequest(q, state).state = state
         /\ OfRequest(q, state).op = q.op
         /\ OfRequest(q, state).attendee = q.attendee
         /\ OfRequest(q, state).version = q.version
BY DEF OfRequest, Request, Record

\* A request that has found its pass keeps the type of a request (redeem).
LEMMA LocatedType ==
  ASSUME pass \in [Attendees -> PassRow], NEW q \in Request, NEW a \in Attendees
  PROVE  /\ Located(q, a) \in Request
         /\ Located(q, a).phase = "locked"
         /\ Located(q, a).op = q.op
         /\ Located(q, a).cred = q.cred
         /\ Located(q, a).id = pass[a].id
         /\ Located(q, a).attendee = a
BY DEF Located, At, Request, PassRow

\* An empty system has the types.
LEMMA InitType == Init => TypeOK
BY BoundAssumption
DEF Init, TypeOK, CurrentSnapshot, Snapshot, NoPass, NoScan, NoRecord, Idle, NoRead, PassRow, Scan,
    Record, Request, Statuses, Gates, Holds, Serials

\* What guests and owners do keeps the types.
LEMMA GuestStepType == TypeOK /\ GuestStep => TypeOK'
<1> SUFFICES ASSUME TypeOK, GuestStep PROVE TypeOK'
  OBVIOUS
<1> USE DEF TypeOK, OutsideDatabase, Editing, Fault
<1>1. ASSUME NEW a \in Attendees, Confirm(a) PROVE TypeOK'
  BY <1>1 DEF Confirm
<1>2. ASSUME NEW a \in Attendees, Decline(a) PROVE TypeOK'
  BY <1>2, BumpedType DEF Decline, Statuses
<1>3. ASSUME NEW a \in Attendees, CorrectToDeclined(a) PROVE TypeOK'
  BY <1>3 DEF CorrectToDeclined
<1>4. ASSUME NEW a \in Attendees, RefreshTickets(a) PROVE TypeOK'
  BY <1>4, BumpedType DEF RefreshTickets, Statuses
<1>5. ASSUME NEW a \in Attendees, Issue(a) PROVE TypeOK'
  <2>1. serial + 1 \in Serials /\ serial + 1 \in 0..MaxSerial
    BY <1>5, BoundAssumption DEF Issue, Issuable, Serials
  <2>2. [id |-> serial + 1, cred |-> serial + 1, status |-> "active", version |-> 1] \in PassRow
    BY <2>1 DEF PassRow, Statuses
  <2> QED BY <1>5, <2>1, <2>2 DEF Issue, Issuable
<1>6. ASSUME NEW a \in Attendees, Revoke(a) PROVE TypeOK'
  BY <1>6, BumpedType DEF Revoke, Statuses
<1>7. ASSUME NEW a \in Attendees, Reissue(a) PROVE TypeOK'
  <2>1. serial + 1 \in 0..MaxSerial
    BY <1>7, BoundAssumption DEF Reissue, Reissued
  <2>2. [Bumped(pass[a], "active") EXCEPT !.cred = serial + 1] \in PassRow
    BY <2>1, BumpedType DEF PassRow, Statuses
  <2> QED BY <1>7, <2>1, <2>2 DEF Reissue, Reissued
<1>8. ASSUME NEW g \in Gates, NEW moved \in BOOLEAN, SaveEvent(g, moved) PROVE TypeOK'
  BY <1>8, AllActiveType DEF SaveEvent, Statuses
<1>9. ASSUME Tick PROVE TypeOK'
  BY <1>9 DEF Tick, Gates
<1>10. ASSUME Sweep PROVE TypeOK'
  BY <1>10, AllActiveType DEF Sweep, Statuses
<1> QED
  BY <1>1, <1>2, <1>3, <1>4, <1>5, <1>6, <1>7, <1>8, <1>9, <1>10 DEF GuestStep

\* A request that has ended has the type of a request.
LEMMA IdleType ==
  /\ Idle \in Request
  /\ NoScan \in Scan
  /\ NoRecord \in Record
  /\ NoRead \in [id: Serials \cup {0}, record: Record]
BY DEF Idle, Request, NoScan, Scan, NoRecord, Record, NoRead

\* Marking the pass used and inserting the admission keeps the types (redeem).
LEMMA UsePassType ==
  ASSUME TypeOK, NEW q \in Request, q.attendee \in Attendees, UsePass(q)
  PROVE  pass' \in [Attendees -> PassRow] /\ admitted' \subseteq Nat /\ scans' \in [Operations -> Scan]
<1>1. q.id \in Nat /\ q.cred \in Nat
  BY DEF Request
<1>2. [cred |-> q.cred, outcome |-> "admitted", id |-> q.id, attendee |-> q.attendee] \in Scan
  BY <1>1 DEF Scan
<1> QED BY <1>1, <1>2, BumpedType DEF UsePass, TypeOK, Statuses

\* A request that passed the hold check has the type of a request (redeem).
LEMMA CheckedType ==
  ASSUME TypeOK, NEW o \in Operations, NEW c \in 1..serial
  PROVE  Checked(o, c) \in Request
BY DEF Checked, Request, TypeOK

\* A request between two statements has the type of a request (redeem).
LEMMA AtType ==
  ASSUME NEW q \in Request, NEW phase \in {"locked", "committed"}, NEW i \in Nat,
         NEW a \in Attendees, NEW v \in Nat
  PROVE  /\ At(q, phase, i, a, v) \in Request
         /\ At(q, phase, i, a, v).phase = phase
         /\ At(q, phase, i, a, v).op = q.op
         /\ At(q, phase, i, a, v).id = i
         /\ At(q, phase, i, a, v).attendee = a
BY DEF At, Request

\* Counting a fault keeps the bound on faults.
LEMMA FaultType == TypeOK /\ Fault => faults' \in 0..MaxFaults
BY BoundAssumption DEF TypeOK, Fault

\* Every step of a scan, failures included, keeps the types.
LEMMA ScanStepType == ASSUME Inv, NEW r \in Requests, ScanStep(r) PROVE TypeOK'
<1> USE DEF TypeOK, Aside, database
<1>q. requests[r] \in Request /\ TypeOK
  BY DEF Inv
<1>i. requests[r].phase # "idle" => requests[r].op \in Operations
  BY DEF Inv, RequestInv, RequestOK
<1>l. requests[r].phase \in {"locked", "committed"} =>
        requests[r].attendee \in Attendees /\ requests[r].id \in Serials
  BY DEF Inv, RequestInv, RequestOK
<1>1. ASSUME NEW o \in Operations, NEW c \in 1..serial, BeginScan(r, o, c) PROVE TypeOK'
  BY <1>1, <1>q, CheckedType DEF BeginScan
<1>2. ASSUME RefuseScan(r) PROVE TypeOK'
  <2>1. Refused \in Scan
    BY DEF Refused, Scan
  <2> QED BY <1>2, <1>q, <2>1, IdleType DEF RefuseScan
<1>3. ASSUME ScanConflicts(r) PROVE TypeOK'
  BY <1>3, <1>q, IdleType DEF ScanConflicts
<1>4. ASSUME WriteIntent(r) PROVE TypeOK'
  <2>1. PICK a \in Attendees : /\ ledger' = [ledger EXCEPT ![Located(requests[r], a).id] =
                                              OfRequest(Located(requests[r], a), "intent")]
                               /\ requests' = [requests EXCEPT ![r] = Located(requests[r], a)]
    BY <1>4 DEF WriteIntent
  <2>2. Located(requests[r], a) \in Request
    BY <1>q, LocatedType
  <2> QED BY <1>4, <1>q, <2>1, <2>2, RecordType DEF WriteIntent
<1>5. ASSUME CommitAdmission(r) PROVE TypeOK'
  <2>1. [requests[r] EXCEPT !.phase = "committed"] \in Request
    BY <1>q DEF Request
  <2> QED BY <1>5, <1>q, <1>l, <2>1, UsePassType DEF CommitAdmission
<1>6. ASSUME Acknowledge(r) PROVE TypeOK'
  <2>1. [op |-> requests[r].op, id |-> requests[r].id, attendee |-> requests[r].attendee]
          \in [op: Operations \cup {None}, id: Nat, attendee: Attendees \cup {None}]
    BY <1>q DEF Request
  <2> QED BY <1>6, <1>q, <2>1, RecordType, IdleType DEF Acknowledge
<1>7. ASSUME RepeatScan(r) PROVE TypeOK'
  <2> DEFINE q == requests[r]
             stored == scans[q.op]
             record == ledger[stored.id]
  <2>1. q.op \in Operations /\ stored \in Scan
    BY <1>7, <1>q, <1>i DEF RepeatScan
  <2>2. CASE ~Answers(q)
    BY <1>7, <1>q, <2>2, IdleType DEF RepeatScan
  <2>3. CASE Answers(q)
    <3>1. stored.outcome = "admitted"
      BY <2>3 DEF Answers
    <3>2. stored.id \in Serials /\ stored.attendee \in Attendees /\ record \in Record
      BY <1>q, <2>1, <3>1 DEF Inv, DatabaseInv, ScansConsistent
    <3>3. /\ record.state = "intent" => record.attendee \in Attendees
          /\ record.version \in Nat /\ stored.id \in Nat
      BY <1>q, <3>2 DEF Inv, LineageInv, Record, Serials
    <3>4. CASE NeedsRepair(q)
      <4>1. At(q, "committed", stored.id, record.attendee, record.version) \in Request
        <5>1. q \in Request
          BY <1>q
        <5>2. \A x \in Request, i \in Nat, a \in Attendees, v \in Nat :
                At(x, "committed", i, a, v) \in Request
          BY AtType
        <5>3. record.state = "intent"
          BY <3>4 DEF NeedsRepair
        <5> HIDE DEF q, stored, record, TypeOK
        <5> QED BY <3>3, <5>1, <5>2, <5>3
      <4> QED BY <1>7, <1>q, <2>3, <3>4, <4>1 DEF RepeatScan
    <3>5. CASE ~NeedsRepair(q)
      <4>1. [op |-> q.op, id |-> stored.id, attendee |-> stored.attendee]
              \in [op: Operations \cup {None}, id: Nat, attendee: Attendees \cup {None}]
        BY <2>1, <3>2, <3>3
      <4> QED BY <1>7, <1>q, <2>3, <3>5, <4>1, IdleType DEF RepeatScan
    <3> QED BY <3>4, <3>5
  <2> QED BY <2>2, <2>3
<1>8. ASSUME IntentFails(r) PROVE TypeOK'
  <2>1. PICK a \in Attendees :
          ledger' \in {ledger, [ledger EXCEPT ![Located(requests[r], a).id] =
                                  OfRequest(Located(requests[r], a), "intent")]}
    BY <1>8 DEF IntentFails
  <2>2. Located(requests[r], a) \in Request
    BY <1>q, LocatedType
  <2>3. ledger' \in [Serials -> Record]
    BY <1>q, <2>1, <2>2, RecordType
  <2> QED BY <1>8, <1>q, <2>3, IdleType, FaultType DEF IntentFails
<1>9. ASSUME CommitFails(r) PROVE TypeOK'
  BY <1>9, <1>q, <1>l, UsePassType, IdleType, FaultType DEF CommitFails
<1>10. ASSUME AcknowledgeFails(r) PROVE TypeOK'
  <2>1. ledger' \in [Serials -> Record]
    BY <1>10, <1>q, RecordType DEF AcknowledgeFails
  <2> QED BY <1>10, <1>q, <2>1, IdleType, FaultType DEF AcknowledgeFails
<1>11. ASSUME ScanFails(r) PROVE TypeOK'
  BY <1>11, <1>q, IdleType, FaultType DEF ScanFails
<1> QED
  BY <1>1, <1>2, <1>3, <1>4, <1>5, <1>6, <1>7, <1>8, <1>9, <1>10, <1>11 DEF ScanStep

\* A pass row the replay repairs keeps its type (admissionState).
LEMMA ReplayedType ==
  ASSUME NEW row \in PassRow, NEW v \in Nat
  PROVE  /\ Replayed(row, v) \in PassRow
         /\ Replayed(row, v).id = row.id
         /\ Replayed(row, v).cred = row.cred
         /\ Replayed(row, v).status = "used"
BY DEF Replayed, Larger, PassRow, Statuses

\* Opening a hold keeps the type of the holds (admissionState).
LEMMA PlaceHoldType ==
  ASSUME TypeOK, NEW i \in Serials, NEW reason \in Holds, PlaceHold(i, reason)
  PROVE  hold' \in [Serials -> Holds]
BY DEF PlaceHold, TypeOK

\* Crash, start, replay, hold resolution, backup and restore keep the types.
LEMMA RecoveryStepType == ASSUME Inv, RecoveryStep PROVE TypeOK'
<1> USE DEF TypeOK, database
<1>t. TypeOK
  BY DEF Inv
<1>1. ASSUME Crash PROVE TypeOK'
  BY <1>1, <1>t, IdleType, FaultType DEF Crash
<1>2. ASSUME StartApi PROVE TypeOK'
  BY <1>2, <1>t DEF StartApi, ListRecords
<1>3. ASSUME StartWorker PROVE TypeOK'
  BY <1>3, <1>t DEF StartWorker, ListRecords
<1>4. ASSUME StopReplay PROVE TypeOK'
  BY <1>4, <1>t, IdleType, FaultType DEF StopReplay
<1>5. ASSUME ApplyRecord PROVE TypeOK'
  <2>1. read.id \in Serials /\ read.record.attendee \in Attendees /\ read.record \in Record
    BY <1>5, <1>t DEF ApplyRecord, Inv, ReplayInv
  <2>2. read.record.version \in Nat
    BY <2>1 DEF Record
  <2>3. hold' \in [Serials -> Holds]
    <3>1. hold' = hold \/ PlaceHold(read.id, "lineage") \/ PlaceHold(read.id, "uncertain")
      BY <1>5 DEF ApplyRecord
    <3> QED BY <1>t, <2>1, <3>1, PlaceHoldType DEF Holds
  <2>4. pass' \in [Attendees -> PassRow]
    <3> DEFINE a == read.record.attendee
    <3>1. pass' \in {pass, [pass EXCEPT ![a] = Replayed(pass[a], read.record.version)]}
      BY <1>5, <1>t, <2>1 DEF ApplyRecord
    <3>2. Replayed(pass[a], read.record.version) \in PassRow
      BY <1>t, <2>1, <2>2, ReplayedType
    <3> QED BY <1>t, <2>1, <3>1, <3>2
  <2>5. admitted' \subseteq Nat
    <3>1. read.id \in Nat
      BY <2>1 DEF Serials
    <3> QED BY <1>5, <1>t, <3>1 DEF ApplyRecord
  <2> QED BY <1>5, <1>t, <2>3, <2>4, <2>5, IdleType DEF ApplyRecord
<1>6. ASSUME Serve PROVE TypeOK'
  BY <1>6, <1>t DEF Serve
<1>7. ASSUME Quarantine PROVE TypeOK'
  BY <1>7, <1>t, AllActiveType DEF Quarantine, Statuses
<1>8. ASSUME NEW i \in Serials, ReadRecord(i) PROVE TypeOK'
  BY <1>8, <1>t DEF ReadRecord
<1>9. ASSUME NEW i \in Serials, ResolveHold(i) PROVE TypeOK'
  BY <1>9, <1>t, IdleType DEF ResolveHold, Disowns, Holds
<1>10. ASSUME NEW i \in Serials, ResolveFails(i) PROVE TypeOK'
  BY <1>10, <1>t, IdleType, FaultType DEF ResolveFails, Disowns
<1>11. ASSUME NEW b \in Backups, TakeBackup(b) PROVE TypeOK'
  <2>1. CurrentSnapshot \in Snapshot
    BY <1>t DEF CurrentSnapshot, Snapshot
  <2> QED BY <1>11, <1>t, <2>1 DEF TakeBackup
<1>12. ASSUME NEW b \in Backups, Restore(b) PROVE TypeOK'
  BY <1>12, <1>t DEF Restore, Snapshot
<1> QED
  BY <1>1, <1>2, <1>3, <1>4, <1>5, <1>6, <1>7, <1>8, <1>9, <1>10, <1>11, <1>12
  DEF RecoveryStep

-----------------------------------------------------------------------------
(* The inductive invariant is kept: guests and owners                         *)

\* All that the invariant can notice of an edit: passes keep their ids and stay used or
\* unused, and a new pass takes an id nobody had.
GuestEffect ==
  /\ UNCHANGED <<admitted, scans, hold, OutsideDatabase>>
  /\ EventFree \/ pass' = pass
  /\ \A i \in Serials : lineage[i] \in Attendees => lineage'[i] = lineage[i]
  /\ \A i \in Serials : i > serial' => lineage'[i] = None
  /\ \A a \in Attendees :
       /\ pass'[a].status = "used" <=> pass[a].status = "used"
       /\ pass'[a].status = "none" <=> pass'[a].id = 0
       /\ \/ pass'[a].id = pass[a].id
          \/ /\ pass[a].id = 0
             /\ pass'[a].id \in Serials
             /\ lineage[pass'[a].id] = None
             /\ lineage'[pass'[a].id] = a

\* All that guests and owners change, in one formula: passes that are not used,
\* reservations, and nothing of admissions, holds, ledger or backup.
LEMMA GuestStepEffect == ASSUME Inv, GuestStep PROVE GuestEffect
<1>t. TypeOK
  BY DEF Inv
<1>p. \A a \in Attendees :
        pass[a] \in PassRow /\ (pass[a].status = "none" <=> pass[a].id = 0)
  BY <1>t DEF TypeOK, Inv, DatabaseInv, PassesConsistent
<1>l. \A i \in Serials : i > serial => lineage[i] = None
  BY DEF Inv, LineageInv
<1> USE DEF GuestEffect, Editing
<1>1. ASSUME NEW a \in Attendees, Confirm(a) PROVE GuestEffect
  BY <1>1, <1>p, <1>l DEF Confirm
<1>2. ASSUME NEW a \in Attendees, Decline(a) PROVE GuestEffect
  BY <1>2, <1>t, <1>p, <1>l, BumpedType DEF Decline, Statuses, TypeOK
<1>3. ASSUME NEW a \in Attendees, CorrectToDeclined(a) PROVE GuestEffect
  BY <1>3, <1>p, <1>l DEF CorrectToDeclined
<1>4. ASSUME NEW a \in Attendees, RefreshTickets(a) PROVE GuestEffect
  BY <1>4, <1>t, <1>p, <1>l, BumpedType DEF RefreshTickets, Statuses, TypeOK
<1>5. ASSUME NEW a \in Attendees, Issue(a) PROVE GuestEffect
  <2>1. serial + 1 \in Serials /\ serial \in Nat
    BY <1>5, <1>t, BoundAssumption DEF Issue, Issuable, Serials, TypeOK
  <2>2. lineage[serial + 1] = None /\ pass[a].id = 0
    BY <1>5, <1>p, <1>l, <2>1 DEF Issue, Issuable
  <2>3. \A i \in Serials : i > serial + 1 => i > serial /\ i # serial + 1
    BY <2>1 DEF Serials
  <2>4. /\ lineage'[serial + 1] = a
        /\ \A i \in Serials : i # serial + 1 => lineage'[i] = lineage[i]
    BY <1>5, <1>t, <2>1 DEF Issue, Issuable, TypeOK
  <2>5. /\ pass'[a].id = serial + 1 /\ pass'[a].status = "active" /\ pass[a].status = "none"
        /\ serial + 1 # 0
        /\ \A b \in Attendees : b # a => pass'[b] = pass[b]
    BY <1>5, <1>t, <2>1 DEF Issue, Issuable, TypeOK
  <2>6. UNCHANGED <<admitted, scans, hold, OutsideDatabase>> /\ EventFree /\ serial' = serial + 1
    BY <1>5 DEF Issue, Issuable
  <2> QED BY <1>p, <1>l, <2>1, <2>2, <2>3, <2>4, <2>5, <2>6, NoneAssumption
<1>6. ASSUME NEW a \in Attendees, Revoke(a) PROVE GuestEffect
  BY <1>6, <1>t, <1>p, <1>l, BumpedType DEF Revoke, Statuses, TypeOK
<1>7. ASSUME NEW a \in Attendees, Reissue(a) PROVE GuestEffect
  <2>1. /\ pass'[a].id = pass[a].id /\ pass'[a].status = "active"
        /\ pass[a].status \notin {"none", "used"}
        /\ \A b \in Attendees : b # a => pass'[b] = pass[b]
    BY <1>7, <1>t, BumpedType DEF Reissue, Reissued, TypeOK, Bumped, Statuses
  <2>2. serial \in Nat /\ serial' = serial + 1
    BY <1>7, <1>t DEF Reissue, Reissued, TypeOK
  <2>3. \A i \in Serials : i > serial' => i > serial
    BY <2>2 DEF Serials
  <2> QED BY <1>7, <1>p, <1>l, <2>1, <2>3 DEF Reissue, Reissued
<1>8. ASSUME NEW g \in Gates, NEW moved \in BOOLEAN, SaveEvent(g, moved) PROVE GuestEffect
  BY <1>8, <1>t, <1>p, <1>l, AllActiveType DEF SaveEvent, Statuses, TypeOK
<1>9. ASSUME Tick PROVE GuestEffect
  BY <1>9, <1>p, <1>l DEF Tick
<1>10. ASSUME Sweep PROVE GuestEffect
  BY <1>10, <1>t, <1>p, <1>l, AllActiveType DEF Sweep, Statuses, TypeOK
<1> QED
  BY <1>1, <1>2, <1>3, <1>4, <1>5, <1>6, <1>7, <1>8, <1>9, <1>10 DEF GuestStep

\* What an id's lineage implies: two attendees never share a pass, and the holder of an
\* id in use is the attendee it was drawn for.
LEMMA Holder ==
  ASSUME Inv, NEW a \in Attendees, NEW i \in Serials, pass[a].id = i
  PROVE  /\ lineage[i] = a
         /\ pass[a].status # "none"
         /\ \A b \in Attendees : pass[b].id = i => b = a
BY DEF Inv, DatabaseInv, PassesConsistent, Serials

\* A step with that effect keeps the invariant.
LEMMA GuestEffectInv == ASSUME Inv, GuestEffect, TypeOK' PROVE Inv'
<1>0. 0 \notin Serials
  BY DEF Serials
<1>1. \A a \in Attendees : /\ pass[a].id # 0 => pass'[a].id = pass[a].id
                           /\ pass'[a].status = "used" <=> pass[a].status = "used"
  BY DEF GuestEffect
<1>2. \A i \in Serials : lineage[i] \in Attendees => lineage'[i] = lineage[i]
  BY DEF GuestEffect
<1>3. UNCHANGED <<admitted, scans, hold, ledger, backup, disowned, svc, requests, todo, read, acks>>
  BY DEF GuestEffect, OutsideDatabase
<1>4. PassesConsistent(pass, admitted)'
  <2>1. PassesConsistent(pass, admitted)
    BY DEF Inv, DatabaseInv
  <2>2. ASSUME NEW a \in Attendees, pass'[a].id # 0
        PROVE  pass'[a].id \in Serials /\ lineage'[pass'[a].id] = a
    BY <2>1, <2>2, <1>2 DEF GuestEffect, PassesConsistent
  <2>3. ASSUME NEW a \in Attendees PROVE pass'[a].status = "used" <=> pass'[a].id \in admitted
    BY <2>1, <1>0, <1>1, NoneAssumption DEF GuestEffect, PassesConsistent
  <2>4. ASSUME NEW i \in admitted
        PROVE  i \in Serials /\ lineage'[i] \in Attendees /\ pass'[lineage'[i]].id = i
    BY <2>1, <1>0, <1>1, <1>2 DEF PassesConsistent
  <2>5. \A a \in Attendees : pass'[a].status = "none" <=> pass'[a].id = 0
    BY DEF GuestEffect
  <2> QED BY <1>3, <2>2, <2>3, <2>4, <2>5 DEF PassesConsistent
<1>5. ScansConsistent(pass, scans)'
  BY <1>0, <1>1, <1>3 DEF Inv, DatabaseInv, ScansConsistent
<1>6. HoldsConsistent(pass, hold)'
  BY <1>0, <1>1, <1>2, <1>3 DEF Inv, DatabaseInv, HoldsConsistent
<1>7. DatabaseInv'
  BY <1>4, <1>5, <1>6 DEF DatabaseInv
<1>8. BackupInv'
  <2> SUFFICES ASSUME NEW b \in Backups
               PROVE  /\ PassesConsistent(backup[b].pass, backup[b].admitted)'
                      /\ ScansConsistent(backup[b].pass, backup[b].scans)'
                      /\ HoldsConsistent(backup[b].pass, backup[b].hold)'
    BY <1>3 DEF BackupInv
  <2>0. /\ PassesConsistent(backup[b].pass, backup[b].admitted)
        /\ ScansConsistent(backup[b].pass, backup[b].scans)
        /\ HoldsConsistent(backup[b].pass, backup[b].hold)
    BY DEF Inv, BackupInv
  <2>1. PassesConsistent(backup[b].pass, backup[b].admitted)'
    BY SMTT(30), <1>2, <1>3, <2>0 DEF PassesConsistent
  <2>2. ScansConsistent(backup[b].pass, backup[b].scans)'
    BY <1>3, <2>0 DEF ScansConsistent
  <2>3. HoldsConsistent(backup[b].pass, backup[b].hold)'
    BY <1>2, <1>3, <2>0 DEF HoldsConsistent
  <2> QED BY <2>1, <2>2, <2>3
<1>9. LineageInv'
  BY <1>2, <1>3 DEF Inv, LineageInv, GuestEffect
<1>10. RequestInv'
  <2>1. \A r \in Requests : requests[r].phase = "locked" => pass' = pass
    BY DEF GuestEffect, EventFree
  <2> QED BY <1>0, <1>1, <1>3, <2>1 DEF Inv, RequestInv, RequestOK
<1>11. ReplayInv'
  <2>1. \A i \in Serials : ledger[i].state # "none" => lineage[i] \in Attendees
    BY DEF Inv, LineageInv
  <2>2. \A i \in Serials : ledger[i].state # "none" /\ Accounted(i) => Accounted(i)'
    BY <1>0, <1>1, <1>2, <1>3, <2>1 DEF Accounted
  <2>3. read.id \in Serials \cup {0}
    BY DEF Inv, TypeOK
  <2> QED BY <1>0, <1>1, <1>2, <1>3, <2>2, <2>3 DEF Inv, ReplayInv
<1>12. AckInv' /\ AckIsDurable' /\ SingleAdmission'
  BY <1>3 DEF Inv, AckInv, AckIsDurable, SingleAdmission
<1> QED BY <1>7, <1>8, <1>9, <1>10, <1>11, <1>12 DEF Inv

-----------------------------------------------------------------------------
(* The inductive invariant is kept: scans                                     *)

\* The ledger keeps every record, with its operation.
RecordsStand ==
  \A i \in Serials : ledger[i].state # "none" =>
    ledger'[i].state # "none" /\ ledger'[i].op = ledger[i].op

\* A step that takes no backup and discards no record keeps the part of the invariant
\* about the backups.
LEMMA BackupFrame ==
  ASSUME Inv, UNCHANGED <<backup, disowned, lineage>>, RecordsStand
  PROVE  BackupInv'
<1> SUFFICES ASSUME NEW b \in Backups
             PROVE  /\ PassesConsistent(backup[b].pass, backup[b].admitted)'
                    /\ ScansConsistent(backup[b].pass, backup[b].scans)'
                    /\ HoldsConsistent(backup[b].pass, backup[b].hold)'
  BY DEF BackupInv
<1>0. /\ PassesConsistent(backup[b].pass, backup[b].admitted)
      /\ ScansConsistent(backup[b].pass, backup[b].scans)
      /\ HoldsConsistent(backup[b].pass, backup[b].hold)
  BY DEF Inv, BackupInv
<1>1. PassesConsistent(backup[b].pass, backup[b].admitted)'
  BY SMTT(30), <1>0 DEF PassesConsistent
<1>2. ScansConsistent(backup[b].pass, backup[b].scans)'
  BY SMTT(30), <1>0 DEF ScansConsistent, RecordsStand
<1>3. HoldsConsistent(backup[b].pass, backup[b].hold)'
  BY <1>0 DEF HoldsConsistent
<1> QED BY <1>1, <1>2, <1>3

\* A step that leaves the database alone keeps the part of the invariant about it.
LEMMA DatabaseFrame ==
  ASSUME Inv, UNCHANGED <<pass, admitted, lineage, hold, disowned>>, RecordsStand,
         \A o \in Operations : scans'[o] = scans[o] \/ scans'[o].outcome # "admitted"
  PROVE  DatabaseInv'
<1>1. PassesConsistent(pass, admitted)'
  BY DEF Inv, DatabaseInv, PassesConsistent
<1>2. ScansConsistent(pass, scans)'
  BY DEF Inv, DatabaseInv, ScansConsistent, RecordsStand
<1>3. HoldsConsistent(pass, hold)'
  BY DEF Inv, DatabaseInv, HoldsConsistent
<1> QED BY <1>1, <1>2, <1>3 DEF DatabaseInv

\* A request leaves, or a new one passes the hold check; nothing is decided but a refusal.
LEMMA QuietScanInv ==
  ASSUME Inv, TypeOK', NEW r \in Requests,
         \/ \E o \in Operations, c \in 1..serial : BeginScan(r, o, c)
         \/ RefuseScan(r) \/ ScanConflicts(r) \/ ScanFails(r)
  PROVE  Inv'
<1> USE DEF BeginScan, RefuseScan, ScanConflicts, ScanFails, Aside, database
<1>t. TypeOK
  BY DEF Inv
<1>1. UNCHANGED <<pass, admitted, hold, ledger, backup, svc, todo, read, serial, lineage, acks, disowned>>
  OBVIOUS
<1>2. \A o \in Operations : scans'[o] = scans[o] \/ scans'[o].outcome # "admitted"
  BY <1>t DEF TypeOK, Refused
<1>3. \A s \in Requests :
        \/ requests'[s] = requests[s] \/ requests'[s].phase = "idle"
        \/ /\ requests'[s].phase = "checked" /\ requests'[s].op \in Operations
           /\ svc = "up" /\ \A i \in Serials : hold[i] # "lineage"
  BY <1>t DEF TypeOK, Idle, Checked, HoldOpen
<1>4. RecordsStand
  BY <1>1 DEF RecordsStand
<1>5. DatabaseInv' /\ BackupInv'
  BY <1>1, <1>2, <1>4, DatabaseFrame, BackupFrame
<1>6. LineageInv'
  BY <1>1 DEF Inv, LineageInv
<1>7. RequestInv'
  BY <1>1, <1>3 DEF Inv, RequestInv, RequestOK
<1>8. ReplayInv'
  BY <1>1 DEF Inv, ReplayInv, Accounted
<1>9. AckInv' /\ AckIsDurable' /\ SingleAdmission'
  BY <1>1 DEF Inv, AckInv, AckIsDurable, SingleAdmission
<1> QED BY <1>5, <1>6, <1>7, <1>8, <1>9 DEF Inv

\* The decision of a scan, up to the write of its intent.
LEMMA DecisionInv ==
  ASSUME Inv, TypeOK', NEW r \in Requests, NEW a \in Attendees,
         UNCHANGED <<database, backup, svc, todo, read, serial, lineage, acks, disowned>>,
         requests[r].phase = "checked", EventFree, pass[a].status = "active",
         LET record == ledger[pass[a].id]
         IN  record.state = "none" \/ (record.state = "intent" /\ record.op = requests[r].op),
         LET q == Located(requests[r], a)
             written == [ledger EXCEPT ![q.id] = OfRequest(q, "intent")]
         IN  \/ ledger' = written /\ requests' = [requests EXCEPT ![r] = q]
             \/ ledger' \in {ledger, written} /\ requests' = [requests EXCEPT ![r] = Idle]
  PROVE  Inv'
<1> DEFINE i == pass[a].id
<1> USE DEF database
<1>t. TypeOK
  BY DEF Inv
<1>p. i \in Serials /\ lineage[i] = a /\ \A b \in Attendees : pass[b].id = i => b = a
  BY DEF Inv, DatabaseInv, PassesConsistent
<1>q. /\ requests[r].op \in Operations /\ svc = "up"
      /\ \A j \in Serials : hold[j] # "lineage"
  BY DEF Inv, RequestInv, RequestOK
<1>l. LET q == Located(requests[r], a)
      IN  /\ q.phase = "locked" /\ q.op = requests[r].op /\ q.id = i /\ q.attendee = a
          /\ OfRequest(q, "intent").state = "intent" /\ OfRequest(q, "intent").op = q.op
          /\ OfRequest(q, "intent").attendee = a /\ OfRequest(q, "intent").version = q.version
  BY <1>t, LocatedType, RecordType DEF TypeOK
<1>1. \/ ledger' = ledger
      \/ /\ ledger'[i].state = "intent" /\ ledger'[i].op = requests[r].op
         /\ ledger'[i].attendee = a
         /\ \A j \in Serials : j # i => ledger'[j] = ledger[j]
  BY <1>t, <1>p, <1>l DEF TypeOK
<1>2. \A s \in Requests :
        \/ requests'[s] = requests[s] /\ requests[s].phase # "locked"
        \/ requests'[s].phase = "idle"
        \/ /\ s = r /\ requests'[r].phase = "locked"
           /\ requests'[r].op = requests[r].op /\ requests'[r].id = i /\ requests'[r].attendee = a
           /\ ledger'[i].state = "intent" /\ ledger'[i].op = requests[r].op
           /\ ledger'[i].version = requests'[r].version
  BY <1>t, <1>p, <1>l DEF TypeOK, Idle, EventFree
<1>3. RecordsStand
  BY <1>p, <1>1 DEF RecordsStand, Inv, DatabaseInv, PassesConsistent
<1>4. DatabaseInv' /\ BackupInv'
  BY <1>3, DatabaseFrame, BackupFrame
<1>5. LineageInv'
  BY SMTT(30), <1>p, <1>1 DEF Inv, LineageInv
<1>6. RequestInv'
  <2>1. \A s \in Requests : requests[s].phase = "committed" => requests[s].id # i
    BY <1>p DEF Inv, RequestInv, RequestOK
  <2> QED BY <1>p, <1>q, <1>1, <1>2, <2>1 DEF Inv, RequestInv, RequestOK
<1>7. ReplayInv'
  BY <1>p, <1>q, <1>1 DEF Inv, ReplayInv, Accounted
<1>8. AckIsDurable'
  BY <1>1, <1>p DEF Inv, AckInv, AckIsDurable
<1>9. AckInv' /\ SingleAdmission'
  BY DEF Inv, AckInv, SingleAdmission
<1> QED BY <1>4, <1>5, <1>6, <1>7, <1>8, <1>9 DEF Inv

\* Writing the intent to the ledger keeps the invariant, whether the write is reported
\* or not.
LEMMA IntentInv ==
  ASSUME Inv, TypeOK', NEW r \in Requests, WriteIntent(r) \/ IntentFails(r)
  PROVE  Inv'
<1>t. TypeOK
  BY DEF Inv
<1>1. CASE WriteIntent(r)
  <2>1. PICK a \in Attendees :
          LET q == Located(requests[r], a)
          IN /\ Admissible(a, q.cred) /\ Continues(q, a)
             /\ ledger' = [ledger EXCEPT ![q.id] = OfRequest(q, "intent")]
             /\ requests' = [requests EXCEPT ![r] = q]
    BY <1>1 DEF WriteIntent
  <2>2. Located(requests[r], a).op = requests[r].op
    BY <1>t, LocatedType DEF TypeOK
  <2>3. /\ requests[r].phase = "checked" /\ EventFree /\ pass[a].status = "active"
        /\ UNCHANGED <<database, backup, svc, todo, read, serial, lineage, acks, disowned>>
    BY <1>1, <2>1 DEF WriteIntent, Deciding, Admissible
  <2>4. LET record == ledger[pass[a].id]
        IN  record.state = "none" \/ (record.state = "intent" /\ record.op = requests[r].op)
    BY <2>1, <2>2 DEF Continues
  <2> QED BY <2>1, <2>3, <2>4, DecisionInv
<1>2. CASE IntentFails(r)
  <2>1. PICK a \in Attendees :
          LET q == Located(requests[r], a)
          IN /\ Admissible(a, q.cred) /\ Continues(q, a)
             /\ ledger' \in {ledger, [ledger EXCEPT ![q.id] = OfRequest(q, "intent")]}
    BY <1>2 DEF IntentFails
  <2>2. Located(requests[r], a).op = requests[r].op
    BY <1>t, LocatedType DEF TypeOK
  <2>3. /\ requests[r].phase = "checked" /\ EventFree /\ pass[a].status = "active"
        /\ UNCHANGED <<database, backup, svc, todo, read, serial, lineage, acks, disowned>>
    BY <1>2, <2>1 DEF IntentFails, Deciding, Admissible
  <2>4. LET record == ledger[pass[a].id]
        IN  record.state = "none" \/ (record.state = "intent" /\ record.op = requests[r].op)
    BY <2>1, <2>2 DEF Continues
  <2>5. requests' = [requests EXCEPT ![r] = Idle]
    BY <1>2 DEF IntentFails
  <2> QED BY <2>1, <2>3, <2>4, <2>5, DecisionInv
<1> QED BY <1>1, <1>2

\* A pass becomes used together with its admission row, by a scan or by the replay.
LEMMA UsedNow ==
  ASSUME Inv, NEW a \in Attendees, pass[a].id \in Serials, UNCHANGED lineage,
         NEW row, pass' = [pass EXCEPT ![a] = row], row.id = pass[a].id, row.status = "used",
         admitted' = admitted \cup {pass[a].id}
  PROVE  /\ PassesConsistent(pass, admitted)'
         /\ \A b \in Attendees : /\ pass'[b].id = pass[b].id
                                 /\ pass[b].status = "used" => pass'[b].status = "used"
                                 /\ b # a => pass'[b] = pass[b]
         /\ pass'[a].status = "used"
<1>p. /\ lineage[pass[a].id] = a
      /\ \A b \in Attendees : pass[b].id = pass[a].id => b = a
      /\ pass[a].id # 0
  BY DEF Inv, DatabaseInv, PassesConsistent, Serials
<1>1. /\ pass'[a] = row
      /\ \A b \in Attendees : b # a => pass'[b] = pass[b]
  BY DEF Inv, TypeOK
<1>2. ASSUME NEW b \in Attendees
      PROVE  /\ pass'[b].status = "none" <=> pass'[b].id = 0
             /\ pass'[b].id # 0 => pass'[b].id \in Serials /\ lineage'[pass'[b].id] = b
             /\ pass'[b].status = "used" <=> pass'[b].id \in admitted'
  BY <1>p, <1>1 DEF Inv, DatabaseInv, PassesConsistent
<1>3. ASSUME NEW i \in admitted'
      PROVE  i \in Serials /\ lineage'[i] \in Attendees /\ pass'[lineage'[i]].id = i
  BY <1>p, <1>1 DEF Inv, DatabaseInv, PassesConsistent
<1>4. PassesConsistent(pass, admitted)'
  BY <1>2, <1>3 DEF PassesConsistent
<1> QED BY <1>1, <1>4

\* Committing the admission keeps the invariant, also when the commit is reported as
\* failed.
LEMMA CommitInv ==
  ASSUME Inv, TypeOK', NEW r \in Requests, CommitAdmission(r) \/ CommitFails(r),
         UsePass(requests[r])
  PROVE  Inv'
<1> DEFINE q == requests[r]
<1> USE DEF CommitAdmission, CommitFails, Aside
<1>t. TypeOK
  BY DEF Inv
<1>q. /\ q.phase = "locked" /\ q \in Request /\ svc = "up" /\ q.op \in Operations
      /\ q.attendee \in Attendees /\ q.id \in Serials /\ pass[q.attendee].id = q.id
      /\ ledger[q.id].state = "intent" /\ ledger[q.id].op = q.op
      /\ ledger[q.id].version = q.version
      /\ \A i \in Serials : hold[i] # "lineage"
  BY <1>t DEF Inv, RequestInv, RequestOK, TypeOK
<1>0. UNCHANGED <<hold, ledger, backup, svc, todo, read, serial, lineage, acks, disowned>>
  OBVIOUS
<1>1. \A s \in Requests : \/ requests'[s] = requests[s] /\ s # r
                          \/ requests'[s].phase = "idle"
                          \/ requests'[s] = [q EXCEPT !.phase = "committed"] /\ s = r
  BY <1>t DEF TypeOK, Idle
<1>2. /\ PassesConsistent(pass, admitted)'
      /\ \A b \in Attendees : /\ pass'[b].id = pass[b].id
                              /\ pass[b].status = "used" => pass'[b].status = "used"
                              /\ b # q.attendee => pass'[b] = pass[b]
      /\ pass'[q.attendee].status = "used"
  <2>1. pass[q.attendee] \in PassRow
    BY <1>t, <1>q DEF TypeOK
  <2>2. /\ Bumped(pass[q.attendee], "used").id = pass[q.attendee].id
        /\ Bumped(pass[q.attendee], "used").status = "used"
    BY <1>q, <2>1, BumpedType DEF Statuses
  <2>3. /\ pass' = [pass EXCEPT ![q.attendee] = Bumped(pass[q.attendee], "used")]
        /\ admitted' = admitted \cup {pass[q.attendee].id}
        /\ pass[q.attendee].id \in Serials
    BY <1>q DEF UsePass
  <2> HIDE DEF q
  <2> QED BY <1>q, <1>0, <2>2, <2>3, UsedNow
<1>3. DatabaseInv'
  <2>1. \A o \in Operations :
          IF o = q.op THEN scans'[o].id = q.id /\ scans'[o].attendee = q.attendee
                      ELSE scans'[o] = scans[o]
    BY <1>t, <1>q DEF UsePass, TypeOK
  <2>2. ScansConsistent(pass, scans)'
    BY <1>q, <1>0, <1>2, <2>1 DEF Inv, DatabaseInv, ScansConsistent
  <2>3. HoldsConsistent(pass, hold)'
    BY <1>0, <1>2 DEF Inv, DatabaseInv, HoldsConsistent
  <2> QED BY <1>2, <2>2, <2>3 DEF DatabaseInv
<1>4. RecordsStand
  BY <1>0 DEF RecordsStand
<1>5. BackupInv'
  BY <1>0, <1>2, <1>4, BackupFrame
<1>6. LineageInv'
  BY <1>0 DEF Inv, LineageInv
<1>7. RequestInv'
  <2>1. \A s \in Requests : requests[s].phase = "locked" => s = r
    BY <1>q DEF Inv, RequestInv, RequestOK
  <2>2. LET c == [q EXCEPT !.phase = "committed"]
        IN c.phase = "committed" /\ c.op = q.op /\ c.id = q.id /\ c.attendee = q.attendee
          /\ c.version = q.version
    BY <1>q DEF Request
  <2>3. ASSUME NEW s \in Requests, requests[s].phase = "committed"
        PROVE  pass[requests[s].attendee].status = "used" /\ requests[s].attendee \in Attendees
    BY <2>3 DEF Inv, RequestInv, RequestOK
  <2>4. ASSUME NEW s \in Requests, s # r, requests'[s].phase # "idle"
        PROVE  requests'[s] = requests[s] /\ requests[s].phase \in {"checked", "committed"}
    BY <1>t, <1>1, <2>1, <2>4 DEF TypeOK, Request
  <2> SUFFICES ASSUME NEW s \in Requests
               PROVE  RequestOK(s)'
    BY DEF RequestInv
  <2> HIDE DEF q
  <2>5. CASE s # r
    BY <1>0, <1>2, <2>3, <2>4, <2>5 DEF Inv, RequestInv, RequestOK
  <2>6. CASE s = r
    <3>1. \/ requests'[r].phase = "idle"
          \/ /\ requests'[r].phase = "committed" /\ requests'[r].op = q.op
             /\ requests'[r].id = q.id /\ requests'[r].attendee = q.attendee
             /\ requests'[r].version = q.version
      BY <1>1, <2>2
    <3> QED BY <1>q, <1>0, <1>2, <2>6, <3>1 DEF RequestOK
  <2> QED BY <2>5, <2>6
<1>8. ReplayInv'
  BY <1>q, <1>0, <1>2 DEF Inv, ReplayInv, Accounted, LineageInv
<1>9. AckInv' /\ AckIsDurable' /\ SingleAdmission'
  BY <1>0 DEF Inv, AckInv, AckIsDurable, SingleAdmission
<1> QED BY <1>3, <1>5, <1>6, <1>7, <1>8, <1>9 DEF Inv

\* A commit that has no effect only ends its request.
LEMMA CommitRollsBack ==
  ASSUME Inv, TypeOK', NEW r \in Requests, CommitFails(r), UNCHANGED <<pass, admitted, scans>>
  PROVE  Inv'
<1> USE DEF CommitFails, Aside
<1>t. TypeOK
  BY DEF Inv
<1>0. UNCHANGED <<pass, admitted, scans, hold, ledger, backup, svc, todo, read, serial, lineage, acks, disowned>>
  OBVIOUS
<1>1. \A s \in Requests : requests'[s] = requests[s] \/ requests'[s].phase = "idle"
  BY <1>t DEF TypeOK, Idle
<1>2. RecordsStand
  BY <1>0 DEF RecordsStand
<1>3. DatabaseInv' /\ BackupInv'
  BY <1>0, <1>2, DatabaseFrame, BackupFrame
<1>4. RequestInv'
  BY <1>0, <1>1 DEF Inv, RequestInv, RequestOK
<1>5. LineageInv' /\ ReplayInv' /\ AckInv' /\ AckIsDurable' /\ SingleAdmission'
  BY <1>0 DEF Inv, LineageInv, ReplayInv, Accounted, AckInv, AckIsDurable, SingleAdmission
<1> QED BY <1>3, <1>4, <1>5 DEF Inv

\* Once one admission is acknowledged for an attendee, no request can be about another.
LEMMA OneAdmission ==
  ASSUME Inv, NEW r \in Requests, requests[r].phase # "idle", NEW i \in Serials,
         NEW a \in Attendees, pass[a].id = i, ledger[i].op = requests[r].op,
         NEW k \in acks, k.attendee = a, k.id \notin disowned
  PROVE  k.id = i /\ k.op = requests[r].op
<1>1. k.id \in Serials /\ k.attendee \in Attendees
  BY DEF Inv, AckInv
<1>2. ledger[k.id].state = "committed" /\ ledger[k.id].op = k.op /\ lineage[k.id] = a
  BY <1>1 DEF Inv, AckIsDurable, LineageInv
<1>3. svc = "up" /\ hold[k.id] # "lineage"
  BY <1>1 DEF Inv, RequestInv, RequestOK
<1>4. pass[a].id = k.id
  BY <1>1, <1>2, <1>3 DEF Inv, ReplayInv, Accounted
<1> QED BY <1>2, <1>4

\* What a committed request's record may change of the ledger: nothing but its state.
LEMMA AcknowledgeInv ==
  ASSUME Inv, TypeOK', NEW r \in Requests, Acknowledge(r) \/ AcknowledgeFails(r)
  PROVE  Inv'
<1> DEFINE q == requests[r]
<1> USE DEF Acknowledge, AcknowledgeFails, Aside
<1>t. TypeOK
  BY DEF Inv
<1>q. /\ q.phase = "committed" /\ q \in Request /\ svc = "up"
      /\ q.attendee \in Attendees /\ q.id \in Serials /\ pass[q.attendee].id = q.id
      /\ ledger[q.id].state # "none" /\ ledger[q.id].op = q.op
      /\ ledger[q.id].version = q.version /\ pass[q.attendee].status = "used"
  BY <1>t DEF Inv, RequestInv, RequestOK, TypeOK
<1>h. \A b \in Attendees : pass[b].id = q.id => b = q.attendee
  BY <1>q, Holder
<1>p. lineage[q.id] = q.attendee
  BY <1>q, Holder
<1>0. UNCHANGED <<pass, admitted, scans, hold, backup, svc, todo, read, serial, lineage, disowned>>
  OBVIOUS
<1>1. \A s \in Requests : requests'[s] = requests[s] \/ requests'[s].phase = "idle"
  BY <1>t DEF TypeOK, Idle
<1>w. /\ OfRequest(q, "committed").state = "committed" /\ OfRequest(q, "committed").op = q.op
      /\ OfRequest(q, "committed").attendee = q.attendee
      /\ OfRequest(q, "committed").version = q.version
  BY <1>q, RecordType
<1>2. \/ ledger' = ledger
      \/ /\ ledger'[q.id].state = "committed" /\ ledger'[q.id].op = q.op
         /\ ledger'[q.id].attendee = q.attendee /\ ledger'[q.id].version = q.version
         /\ \A i \in Serials : i # q.id => ledger'[i] = ledger[i]
  BY <1>t, <1>q, <1>w DEF TypeOK
<1>3. RecordsStand
  BY <1>q, <1>2 DEF RecordsStand, Inv, DatabaseInv, PassesConsistent
<1>4. DatabaseInv' /\ BackupInv'
  BY <1>0, <1>3, DatabaseFrame, BackupFrame
<1>5. LineageInv'
  BY <1>q, <1>p, <1>0, <1>2 DEF Inv, LineageInv
<1>6. RequestInv'
  <2>1. \A s \in Requests : requests[s].phase = "locked" => requests[s].id # q.id
    BY <1>q, <1>h DEF Inv, RequestInv, RequestOK
  <2> HIDE DEF q
  <2> QED BY <1>q, <1>0, <1>1, <1>2, <2>1 DEF Inv, RequestInv, RequestOK
<1>7. ReplayInv'
  BY <1>q, <1>p, <1>0, <1>2 DEF Inv, ReplayInv, Accounted
<1>8. \A k \in acks' : \/ k \in acks
                       \/ /\ k.op = q.op /\ k.id = q.id /\ k.attendee = q.attendee
                          /\ ledger'[q.id].state = "committed" /\ ledger'[q.id].op = q.op
                          /\ ledger'[q.id].attendee = q.attendee
  BY <1>t, <1>q, <1>w DEF TypeOK
<1>9. AckInv'
  BY <1>q, <1>8 DEF Inv, AckInv
<1>10. AckIsDurable'
  <2>1. \A k \in acks : /\ k.id = q.id /\ k.id \notin disowned =>
                             k.op = q.op /\ k.attendee = q.attendee
                        /\ k.id \in Serials
    BY <1>q, <1>p DEF Inv, AckInv, AckIsDurable, LineageInv
  <2> HIDE DEF q
  <2> QED BY <1>0, <1>2, <1>8, <2>1 DEF Inv, AckIsDurable
<1>11. SingleAdmission'
  <2>1. \A k \in acks : k.attendee = q.attendee /\ k.id \notin disowned =>
                          k.id = q.id /\ k.op = q.op
    BY <1>q, OneAdmission
  <2> HIDE DEF q
  <2> QED BY <1>0, <1>8, <2>1 DEF Inv, SingleAdmission
<1> QED BY <1>4, <1>5, <1>6, <1>7, <1>9, <1>10, <1>11 DEF Inv

\* Answering a repeated scan, with or without repairing the ledger, keeps the invariant.
LEMMA RepeatScanInv ==
  ASSUME Inv, TypeOK', NEW r \in Requests, RepeatScan(r)
  PROVE  Inv'
<1> DEFINE q == requests[r]
           stored == scans[q.op]
           record == ledger[stored.id]
           repaired == At(q, "committed", stored.id, record.attendee, record.version)
           answer == [op |-> q.op, id |-> stored.id, attendee |-> stored.attendee]
<1>t. TypeOK
  BY DEF Inv
<1>0. UNCHANGED <<pass, admitted, scans, hold, ledger, backup, svc, todo, read, serial, lineage, disowned>>
  BY DEF RepeatScan, Aside
<1>q. /\ q.phase = "checked" /\ q \in Request /\ svc = "up" /\ q.op \in Operations
      /\ \A i \in Serials : hold[i] # "lineage"
  BY <1>t DEF RepeatScan, Inv, RequestInv, RequestOK, TypeOK
<1>s. stored.outcome = "admitted" =>
        /\ stored.attendee \in Attendees /\ stored.id \in Serials
        /\ pass[stored.attendee].id = stored.id /\ pass[stored.attendee].status = "used"
        /\ stored.id \notin disowned => record.state # "none" /\ record.op = q.op
        /\ record.state # "none" => record.attendee = stored.attendee
  <2>1. stored.outcome = "admitted" =>
          /\ stored.attendee \in Attendees /\ stored.id \in Serials
          /\ pass[stored.attendee].id = stored.id /\ pass[stored.attendee].status = "used"
          /\ stored.id \notin disowned => record.state # "none" /\ record.op = q.op
    BY <1>q DEF Inv, DatabaseInv, ScansConsistent
  <2>2. stored.outcome = "admitted" => lineage[stored.id] = stored.attendee
    BY SMTT(30), <2>1, Holder
  <2> QED BY <2>1, <2>2 DEF Inv, LineageInv
<1>1. \/ requests' = [requests EXCEPT ![r] = Idle] /\ acks' = acks
      \/ /\ stored.outcome = "admitted" /\ record.state = "intent" /\ record.op = q.op
         /\ requests' = [requests EXCEPT ![r] = repaired] /\ acks' = acks
      \/ /\ stored.outcome = "admitted" /\ (record.state # "intent" \/ record.op # q.op)
         /\ requests' = [requests EXCEPT ![r] = Idle] /\ acks' = acks \cup {answer}
  BY <1>s DEF RepeatScan, Answers, NeedsRepair
<1>2. stored.outcome = "admitted" /\ record.state = "intent" =>
        /\ repaired.phase = "committed" /\ repaired.op = q.op /\ repaired.id = stored.id
        /\ repaired.attendee = stored.attendee /\ repaired.version = record.version
  BY <1>s DEF At
<1>3. \A s \in Requests :
        \/ requests'[s] = requests[s] \/ requests'[s].phase = "idle"
        \/ /\ s = r /\ stored.outcome = "admitted"
           /\ record.state = "intent" /\ record.op = q.op
           /\ requests'[r].phase = "committed" /\ requests'[r].op = q.op
           /\ requests'[r].id = stored.id /\ requests'[r].attendee = stored.attendee
           /\ requests'[r].version = record.version
  <2> HIDE DEF repaired, stored, q
  <2> QED BY SMTT(30), <1>t, <1>1, <1>2 DEF TypeOK, Idle
<1>4. \A k \in acks' : \/ k \in acks
                       \/ /\ stored.outcome = "admitted"
                          /\ stored.id \notin disowned => record.state = "committed"
                          /\ k.op = q.op /\ k.id = stored.id /\ k.attendee = stored.attendee
  <2>1. stored.outcome = "admitted" => record.state \in {"none", "intent", "committed"}
    BY <1>t, <1>s DEF TypeOK, Record
  <2> QED BY <1>1, <1>s, <2>1
<1>5. RecordsStand
  BY <1>0 DEF RecordsStand
<1>6. DatabaseInv' /\ BackupInv'
  BY <1>0, <1>5, DatabaseFrame, BackupFrame
<1>7. LineageInv'
  BY <1>0 DEF Inv, LineageInv
<1>8. RequestInv'
  <2> HIDE DEF stored, record
  <2> SUFFICES ASSUME NEW s \in Requests PROVE RequestOK(s)'
    BY DEF RequestInv
  <2>1. \A z \in Requests : requests'[z].phase = "locked" => requests[z].phase = "locked"
    BY <1>3
  <2>2. CASE requests'[s] = requests[s]
    BY <1>0, <2>1, <2>2 DEF Inv, RequestInv, RequestOK
  <2>3. CASE requests'[s] # requests[s]
    BY <1>0, <1>q, <1>s, <1>3, <2>3 DEF RequestOK, record
  <2> QED BY <2>2, <2>3
<1>9. ReplayInv'
  BY <1>0 DEF Inv, ReplayInv, Accounted
<1>10. AckInv' /\ AckIsDurable'
  BY <1>0, <1>s, <1>4 DEF Inv, AckInv, AckIsDurable
<1>11. SingleAdmission'
  <2>1. \A k \in acks :
          /\ stored.outcome = "admitted" /\ k.attendee = stored.attendee
          /\ {k.id, stored.id} \cap disowned = {}
          => k.id = stored.id /\ k.op = q.op
    BY <1>q, <1>s, OneAdmission
  <2> HIDE DEF stored, record, q
  <2> QED BY <1>0, <1>4, <2>1 DEF Inv, SingleAdmission
<1> QED BY <1>6, <1>7, <1>8, <1>9, <1>10, <1>11 DEF Inv

-----------------------------------------------------------------------------
(* The inductive invariant is kept: crashes, replay, holds, backups           *)

\* A step that changes neither database, ledger, backup nor acknowledgements keeps the
\* parts of the invariant about them.
LEMMA SameData ==
  ASSUME Inv, UNCHANGED <<database, ledger, backup, lineage, serial, acks, disowned>>
  PROVE  DatabaseInv' /\ BackupInv' /\ LineageInv' /\ AckInv' /\ AckIsDurable' /\ SingleAdmission'
<1> USE DEF database
<1>1. RecordsStand
  BY DEF RecordsStand
<1>2. DatabaseInv' /\ BackupInv'
  BY <1>1, DatabaseFrame, BackupFrame
<1>3. LineageInv'
  BY DEF Inv, LineageInv
<1>4. AckInv' /\ AckIsDurable' /\ SingleAdmission'
  BY DEF Inv, AckInv, AckIsDurable, SingleAdmission
<1> QED BY <1>2, <1>3, <1>4

\* Outside a serving API no request is in flight, and outside a replay nothing is read.
LEMMA Quiescent ==
  ASSUME Inv
  PROVE  /\ svc # "up" => \A r \in Requests : requests[r].phase = "idle"
         /\ svc \notin {"up", "booting"} => read.id = 0 /\ todo = {}
BY DEF Inv, RequestInv, RequestOK, ReplayInv

\* Listing, reading and stopping a replay keep the invariant.
LEMMA ReplayControlInv ==
  ASSUME Inv, TypeOK',
         \/ Crash \/ StartApi \/ StartWorker \/ StopReplay \/ Serve
         \/ \E i \in Serials : ReadRecord(i)
  PROVE  Inv'
<1> USE DEF database
<1>t. TypeOK
  BY DEF Inv
<1>0. UNCHANGED <<database, ledger, backup, lineage, serial, acks, disowned>>
  BY DEF Crash, StartApi, StartWorker, StopReplay, Serve, ReadRecord, ListRecords
<1>1. RequestInv' /\ ReplayInv'
  <2>z. NoRead.id = 0 /\ 0 \notin Serials
    BY DEF NoRead, Serials
  <2>1. CASE Crash
    BY <1>0, <2>1, <2>z DEF Crash, Idle, RequestInv, RequestOK, ReplayInv
  <2>2. CASE StartApi
    BY <1>0, <2>2, Quiescent DEF StartApi, ListRecords, RequestInv, RequestOK, ReplayInv
  <2>3. CASE StartWorker
    BY <1>0, <2>3, <2>z DEF StartWorker, ListRecords, Inv, RequestInv, RequestOK, ReplayInv, Accounted
  <2>4. CASE StopReplay
    <3>1. RequestInv'
      BY <1>0, <2>4, Quiescent DEF StopReplay, Inv, RequestInv, RequestOK
    <3>2. ReplayInv'
      BY <1>0, <2>4, <2>z DEF StopReplay, Inv, ReplayInv, Accounted
    <3> QED BY <3>1, <3>2
  <2>5. CASE Serve
    <3>1. RequestInv'
      BY <1>0, <2>5, Quiescent DEF Serve, RequestInv, RequestOK
    <3>2. ReplayInv'
      BY <1>0, <2>5, <2>z DEF Serve, Inv, ReplayInv, Accounted
    <3> QED BY <3>1, <3>2
  <2>6. ASSUME NEW i \in Serials, ReadRecord(i) PROVE RequestInv' /\ ReplayInv'
    <3>1. RequestInv'
      BY <1>0, <2>6 DEF ReadRecord, Inv, RequestInv, RequestOK
    <3>2. /\ svc \in {"up", "booting"} /\ ledger[i].state # "none"
          /\ lineage[i] \in Attendees /\ ledger[i].attendee = lineage[i]
      BY <2>6 DEF ReadRecord, Inv, ReplayInv, LineageInv
    <3>3. svc = "up" => Accounted(i)
      BY <3>2 DEF Inv, ReplayInv
    <3>4. ReplayInv'
      BY <1>0, <2>6, <2>z, <3>2, <3>3 DEF ReadRecord, Inv, ReplayInv, Accounted
    <3> QED BY <3>1, <3>4
  <2> QED BY <2>1, <2>2, <2>3, <2>4, <2>5, <2>6
<1> QED BY <1>0, <1>1, SameData DEF Inv

\* Applying a record of the ledger to the database keeps the invariant, whatever
\* happened since it was read.
LEMMA ApplyRecordInv == ASSUME Inv, TypeOK', ApplyRecord PROVE Inv'
<1> DEFINE i == read.id
           a == read.record.attendee
<1>t. TypeOK
  BY DEF Inv
<1>r. /\ i \in Serials /\ i # 0 /\ a \in Attendees /\ lineage[i] = a
      /\ svc \in {"up", "booting"} /\ read.record.state # "none"
      /\ svc = "booting" => read.record = ledger[i]
      /\ svc = "up" => hold[i] = "lineage" \/ pass[a].id = i
  BY <1>t DEF ApplyRecord, Inv, ReplayInv, TypeOK
<1>0. UNCHANGED <<scans, ledger, backup, svc, requests, todo, lineage, serial, acks, disowned>> /\ read'.id = 0
  BY DEF ApplyRecord, NoRead
<1>f. \A r \in Requests : requests[r].phase = "locked" => requests[r].attendee # a
  BY <1>r DEF ApplyRecord, RowFree, Inv, RequestInv, RequestOK
<1>1. \/ UNCHANGED <<pass, admitted>>
      \/ /\ pass[a].id = i /\ admitted' = admitted \cup {i}
         /\ pass' = [pass EXCEPT ![a] = Replayed(pass[a], read.record.version)]
  BY <1>r DEF ApplyRecord
<1>2. /\ PassesConsistent(pass, admitted)'
      /\ \A b \in Attendees : /\ pass'[b].id = pass[b].id
                              /\ pass[b].status = "used" => pass'[b].status = "used"
                              /\ b # a => pass'[b] = pass[b]
  <2>1. CASE UNCHANGED <<pass, admitted>>
    BY <1>0, <2>1 DEF Inv, DatabaseInv, PassesConsistent
  <2>2. CASE /\ pass[a].id = i /\ admitted' = admitted \cup {i}
             /\ pass' = [pass EXCEPT ![a] = Replayed(pass[a], read.record.version)]
    <3>1. pass[a] \in PassRow /\ read.record.version \in Nat
      BY <1>t, <1>r DEF TypeOK, Record
    <3>2. /\ Replayed(pass[a], read.record.version).id = pass[a].id
          /\ Replayed(pass[a], read.record.version).status = "used"
      BY <3>1, ReplayedType
    <3>3. admitted' = admitted \cup {pass[a].id} /\ pass[a].id \in Serials
      BY <1>r, <2>2
    <3> HIDE DEF a, i
    <3> QED BY <1>0, <1>r, <2>2, <3>2, <3>3, UsedNow
  <2> QED BY <1>1, <2>1, <2>2
<1>3. /\ \A j \in Serials : j # i => hold'[j] = hold[j]
      /\ hold[i] = "lineage" => hold'[i] = "lineage"
      /\ hold'[i] = hold[i] \/ hold'[i] = "lineage" \/ (hold'[i] = "uncertain" /\ pass[a].id = i)
      /\ pass[a].id # i /\ hold[i] = "none" => hold'[i] = "lineage"
      /\ pass[a].id = i => hold'[i] = hold[i] \/ hold'[i] = "uncertain"
  BY <1>t, <1>r DEF ApplyRecord, PlaceHold, TypeOK, Holds
<1>4. DatabaseInv'
  <2>1. ScansConsistent(pass, scans)'
    BY <1>0, <1>2 DEF Inv, DatabaseInv, ScansConsistent
  <2>2. HoldsConsistent(pass, hold)'
    BY <1>0, <1>r, <1>2, <1>3 DEF Inv, DatabaseInv, HoldsConsistent
  <2> QED BY <1>2, <2>1, <2>2 DEF DatabaseInv
<1>5. BackupInv'
  BY <1>0, BackupFrame DEF RecordsStand
<1>6. RequestInv'
  <2>1. svc = "up" => \A j \in Serials : hold[j] # "lineage" => hold'[j] # "lineage"
    BY <1>r, <1>3
  <2> SUFFICES ASSUME NEW r \in Requests PROVE RequestOK(r)'
    BY DEF RequestInv
  <2>2. RequestOK(r)
    BY DEF Inv, RequestInv
  <2> QED BY <1>0, <1>2, <1>f, <2>1, <2>2 DEF RequestOK
<1>7. ReplayInv'
  <2>1. \A j \in Serials : j # i /\ lineage[j] \in Attendees /\ Accounted(j) => Accounted(j)'
    BY <1>0, <1>2, <1>3 DEF Accounted
  <2>2. \A j \in Serials : ledger[j].state # "none" => lineage[j] \in Attendees
    BY DEF Inv, LineageInv
  <2>3. ASSUME NEW j \in Serials, j = i, Accounted(j) PROVE Accounted(j)'
    <3>1. CASE hold[j] = "lineage"
      BY <1>3, <2>3, <3>1 DEF Accounted
    <3>2. CASE hold[j] # "lineage"
      BY <1>0, <1>r, <1>2, <2>3, <3>2 DEF Accounted
    <3> QED BY <3>1, <3>2
  <2>4. ASSUME NEW j \in Serials, j = i, svc = "booting", ledger[j].state # "none"
        PROVE  Accounted(j)'
    <3>1. CASE pass[a].id # i
      <4>1. hold[i] \notin {"uncertain", "resolved"}
        BY <1>r, <3>1 DEF Inv, DatabaseInv, HoldsConsistent
      <4>2. hold[i] \in {"none", "lineage"}
        BY <1>t, <1>r, <4>1 DEF TypeOK, Holds
      <4>3. hold'[j] = "lineage"
        BY <1>3, <2>4, <3>1, <4>2
      <4> QED BY <4>3 DEF Accounted
    <3>2. CASE pass[a].id = i
      <4>1. ledger[i].state = "committed" => pass'[a].status = "used"
        <5>1. pass[a] \in PassRow /\ read.record.version \in Nat
          BY <1>t, <1>r DEF TypeOK, Record
        <5>2. Replayed(pass[a], read.record.version).status = "used"
          BY <5>1, ReplayedType
        <5>3. pass \in [Attendees -> PassRow]
          BY <1>t DEF TypeOK
        <5> QED BY <1>r, <2>4, <3>2, <5>2, <5>3 DEF ApplyRecord
      <4>2. ledger' = ledger /\ lineage' = lineage /\ pass'[a].id = i
        BY <1>0, <1>r, <1>2, <3>2
      <4> QED BY <1>r, <2>4, <4>1, <4>2 DEF Accounted
    <3> QED BY <3>1, <3>2
  <2>5. ASSUME NEW j \in Serials, ledger[j].state # "none"
        PROVE  Accounted(j)' \/ (svc = "booting" /\ j \in todo)
    <3>1. CASE j = i
      BY <1>r, <2>3, <2>4, <2>5, <3>1 DEF Inv, ReplayInv
    <3>2. CASE j # i
      BY <1>r, <2>1, <2>2, <2>5, <3>2 DEF Inv, ReplayInv
    <3> QED BY <3>1, <3>2
  <2> QED BY <1>0, <1>r, <2>5 DEF ReplayInv
<1>8. LineageInv' /\ AckInv' /\ AckIsDurable' /\ SingleAdmission'
  BY <1>0 DEF Inv, LineageInv, AckInv, AckIsDurable, SingleAdmission
<1> QED BY <1>4, <1>5, <1>6, <1>7, <1>8 DEF Inv

\* An operator discards an intent only of a pass that is not used in the database; a backup
\* in which it is used makes the pass disowned.
LEMMA ResolveInv ==
  ASSUME Inv, TypeOK', NEW i \in Serials, ResolveHold(i) \/ ResolveFails(i)
  PROVE  Inv'
<1> USE DEF database
<1>t. TypeOK
  BY DEF Inv
<1>g. Resolvable(i)
  BY DEF ResolveHold, ResolveFails
<1>0. UNCHANGED <<pass, admitted, scans, backup, svc, requests, todo, read, serial, lineage, acks>>
  BY DEF ResolveHold, ResolveFails
<1>d. /\ disowned \subseteq disowned'
      /\ \A b \in Backups : i \in backup[b].admitted => i \in disowned'
  BY DEF ResolveHold, ResolveFails, Disowns
<1>1. /\ svc = "up" /\ hold[i] = "uncertain"
      /\ \A r \in Requests : requests[r].phase # "locked"
      /\ \A k \in acks : k.id # i
  BY <1>g DEF Resolvable, Editing, EventFree
<1>2. \A a \in Attendees : pass[a].status = "used" => pass[a].id # i
  <2>1. PICK a \in Attendees : pass[a].id = i /\ pass[a].status # "used"
    BY <1>g DEF Resolvable
  <2>2. \A b \in Attendees : pass[b].id = i => b = a
    BY <2>1, Holder
  <2> QED BY <2>1, <2>2
<1>3. /\ ledger'[i].state = "none"
      /\ \A j \in Serials : j # i => ledger'[j] = ledger[j]
  BY <1>t DEF ResolveHold, ResolveFails, NoRecord, TypeOK
<1>4. /\ hold'[i] \in {"uncertain", "resolved"}
      /\ \A j \in Serials : j # i => hold'[j] = hold[j]
  BY <1>t, <1>1 DEF ResolveHold, ResolveFails, TypeOK
<1>6. DatabaseInv'
  <2>1. PassesConsistent(pass, admitted)'
    BY <1>0 DEF Inv, DatabaseInv, PassesConsistent
  <2>2. ScansConsistent(pass, scans)'
    BY <1>0, <1>d, <1>2, <1>3 DEF Inv, DatabaseInv, ScansConsistent
  <2>3. HoldsConsistent(pass, hold)'
    BY <1>0, <1>1, <1>4 DEF Inv, DatabaseInv, HoldsConsistent
  <2> QED BY <2>1, <2>2, <2>3 DEF DatabaseInv
<1>7. BackupInv'
  <2> SUFFICES ASSUME NEW b \in Backups
               PROVE  /\ PassesConsistent(backup[b].pass, backup[b].admitted)'
                      /\ ScansConsistent(backup[b].pass, backup[b].scans)'
                      /\ HoldsConsistent(backup[b].pass, backup[b].hold)'
    BY DEF BackupInv
  <2>0. /\ PassesConsistent(backup[b].pass, backup[b].admitted)
        /\ ScansConsistent(backup[b].pass, backup[b].scans)
        /\ HoldsConsistent(backup[b].pass, backup[b].hold)
    BY DEF Inv, BackupInv
  <2>1. PassesConsistent(backup[b].pass, backup[b].admitted)'
    BY SMTT(30), <1>0, <2>0 DEF PassesConsistent
  <2>2. ScansConsistent(backup[b].pass, backup[b].scans)'
    <3>1. \A o \in Operations :
            backup[b].scans[o].outcome = "admitted" /\ backup[b].scans[o].id = i => i \in disowned'
      BY SMTT(30), <1>d, <2>0 DEF PassesConsistent, ScansConsistent
    <3> QED BY SMTT(30), <1>0, <1>d, <1>3, <2>0, <3>1 DEF ScansConsistent
  <2>3. HoldsConsistent(backup[b].pass, backup[b].hold)'
    BY <1>0, <2>0 DEF HoldsConsistent
  <2> QED BY <2>1, <2>2, <2>3
<1>8. LineageInv'
  BY <1>0, <1>3 DEF Inv, LineageInv
<1>9. RequestInv'
  <2>1. \A r \in Requests : requests[r].phase = "committed" => requests[r].id # i
    BY <1>2 DEF Inv, RequestInv, RequestOK
  <2> QED BY <1>0, <1>1, <1>3, <1>4, <2>1 DEF Inv, RequestInv, RequestOK
<1>10. ReplayInv'
  <2>1. \A j \in Serials : ledger'[j].state # "none" => j # i /\ ledger'[j] = ledger[j]
    BY <1>3
  <2>2. \A j \in Serials : j # i /\ Accounted(j) => Accounted(j)'
    BY <1>0, <1>3, <1>4 DEF Accounted
  <2>3. hold[read.id] = "lineage" => read.id # i
    BY <1>1
  <2>4. read.id \in Serials \cup {0}
    BY <1>t DEF TypeOK
  <2> QED BY <1>0, <1>1, <1>4, <2>1, <2>2, <2>3, <2>4 DEF Inv, ReplayInv
<1>11. AckInv' /\ AckIsDurable' /\ SingleAdmission'
  BY <1>0, <1>d, <1>1, <1>3 DEF Inv, AckInv, AckIsDurable, SingleAdmission
<1> QED BY <1>6, <1>7, <1>8, <1>9, <1>10, <1>11 DEF Inv

\* Taking a backup keeps the invariant: the snapshot is consistent by itself.
LEMMA TakeBackupInv == ASSUME Inv, TypeOK', NEW b \in Backups, TakeBackup(b) PROVE Inv'
<1> USE DEF database
<1>t. TypeOK
  BY DEF Inv
<1>0. UNCHANGED <<database, ledger, svc, requests, todo, read, serial, lineage, acks, disowned>>
  BY DEF TakeBackup
<1>1. DatabaseInv' /\ LineageInv' /\ RequestInv' /\ ReplayInv'
  <2>1. DatabaseInv'
    BY <1>0 DEF Inv, DatabaseInv, PassesConsistent, ScansConsistent, HoldsConsistent
  <2>2. LineageInv'
    BY <1>0 DEF Inv, LineageInv
  <2>3. RequestInv'
    BY <1>0 DEF Inv, RequestInv, RequestOK
  <2>4. ReplayInv'
    BY <1>0 DEF Inv, ReplayInv, Accounted
  <2> QED BY <2>1, <2>2, <2>3, <2>4
<1>2. \A c \in Backups : backup'[c] = (IF c = b THEN CurrentSnapshot ELSE backup[c])
  BY <1>t DEF TakeBackup, TypeOK
<1>3. BackupInv'
  <2>1. /\ CurrentSnapshot.pass = pass /\ CurrentSnapshot.admitted = admitted
        /\ CurrentSnapshot.scans = scans /\ CurrentSnapshot.hold = hold
    BY DEF CurrentSnapshot
  <2> SUFFICES ASSUME NEW c \in Backups
               PROVE  /\ PassesConsistent(backup[c].pass, backup[c].admitted)'
                      /\ ScansConsistent(backup[c].pass, backup[c].scans)'
                      /\ HoldsConsistent(backup[c].pass, backup[c].hold)'
    BY DEF BackupInv, PassesConsistent, ScansConsistent, HoldsConsistent
  <2>2. CASE c = b
    BY SMTT(30), <1>0, <1>1, <1>2, <2>1, <2>2
    DEF DatabaseInv, PassesConsistent, ScansConsistent, HoldsConsistent
  <2>3. CASE c # b
    BY SMTT(30), <1>0, <1>2, <2>3
    DEF Inv, BackupInv, PassesConsistent, ScansConsistent, HoldsConsistent
  <2> QED BY <2>2, <2>3
<1>4. AckInv' /\ AckIsDurable' /\ SingleAdmission'
  BY <1>0 DEF Inv, AckInv, AckIsDurable, SingleAdmission
<1> QED BY <1>1, <1>3, <1>4 DEF Inv

\* A restore keeps the invariant, whichever backup comes back: what a backup holds and the
\* ledger has lost is disowned.
LEMMA RestoreInv == ASSUME Inv, TypeOK', NEW b \in Backups, Restore(b) PROVE Inv'
<1>0. UNCHANGED <<ledger, backup, requests, todo, read, serial, lineage, acks, disowned>>
  BY DEF Restore
<1>1. DatabaseInv'
  BY <1>0 DEF Restore, Inv, BackupInv, DatabaseInv, PassesConsistent, ScansConsistent, HoldsConsistent
<1>2. BackupInv'
  BY <1>0, BackupFrame DEF RecordsStand
<1>3. RequestInv' /\ ReplayInv'
  BY <1>0, Quiescent DEF Restore, RequestInv, RequestOK, ReplayInv
<1>4. LineageInv' /\ AckInv' /\ AckIsDurable' /\ SingleAdmission'
  BY <1>0 DEF Inv, LineageInv, AckInv, AckIsDurable, SingleAdmission
<1> QED BY <1>1, <1>2, <1>3, <1>4 DEF Inv

\* Putting restored credentials out of use keeps the invariant.
LEMMA QuarantineInv == ASSUME Inv, TypeOK', Quarantine PROVE Inv'
<1>0. UNCHANGED <<admitted, scans, hold, ledger, backup, requests, todo, read, serial, lineage, acks, disowned>>
  BY DEF Quarantine
<1>1. \A a \in Attendees : /\ pass'[a].id = pass[a].id
                           /\ pass'[a].status = "used" <=> pass[a].status = "used"
                           /\ pass'[a].status = "none" <=> pass[a].status = "none"
  BY AllActiveType DEF Quarantine, Inv, TypeOK, Statuses
<1>2. DatabaseInv'
  BY <1>0, <1>1 DEF Inv, DatabaseInv, PassesConsistent, ScansConsistent, HoldsConsistent
<1>3. BackupInv'
  BY <1>0, BackupFrame DEF RecordsStand
<1>4. RequestInv' /\ ReplayInv'
  BY <1>0, Quiescent DEF Quarantine, RequestInv, RequestOK, ReplayInv
<1>5. LineageInv' /\ AckInv' /\ AckIsDurable' /\ SingleAdmission'
  BY <1>0 DEF Inv, LineageInv, AckInv, AckIsDurable, SingleAdmission
<1> QED BY <1>2, <1>3, <1>4, <1>5 DEF Inv

-----------------------------------------------------------------------------
(* Theorems                                                                   *)

\* The invariant holds of an empty system.
LEMMA InitInv == Init => Inv
<1> SUFFICES ASSUME Init PROVE Inv
  OBVIOUS
<1>1. TypeOK
  BY InitType
<1>2. /\ \A a \in Attendees : pass[a].status = "none" /\ pass[a].id = 0
      /\ \A o \in Operations : scans[o].outcome = "none"
      /\ \A i \in Serials : ledger[i].state = "none" /\ hold[i] = "none" /\ lineage[i] = None
      /\ \A r \in Requests : requests[r].phase = "idle"
      /\ admitted = {} /\ acks = {} /\ todo = {} /\ read.id = 0
      /\ backup = [b \in Backups |-> CurrentSnapshot]
  BY DEF Init, NoPass, NoScan, NoRecord, Idle, NoRead
<1>3. 0 \notin Serials
  BY DEF Serials
<1>4. DatabaseInv
  BY <1>2 DEF DatabaseInv, PassesConsistent, ScansConsistent, HoldsConsistent
<1>5. BackupInv
  BY <1>2, <1>4 DEF BackupInv, DatabaseInv, CurrentSnapshot
<1>6. LineageInv /\ RequestInv /\ AckInv /\ AckIsDurable /\ SingleAdmission
  BY <1>2 DEF LineageInv, RequestInv, RequestOK, AckInv, AckIsDurable, SingleAdmission
<1>7. ReplayInv
  BY <1>2 DEF ReplayInv
<1> QED BY <1>1, <1>4, <1>5, <1>6, <1>7 DEF Inv

\* Every step keeps the invariant: the inductive argument.
LEMMA NextInv == Inv /\ [Next]_vars => Inv'
<1> SUFFICES ASSUME Inv, [Next]_vars PROVE Inv'
  OBVIOUS
<1>1. CASE GuestStep
  <2>1. TypeOK'
    BY <1>1, GuestStepType DEF Inv
  <2>2. GuestEffect
    BY <1>1, GuestStepEffect
  <2> QED BY <2>1, <2>2, GuestEffectInv
<1>2. ASSUME NEW r \in Requests, ScanStep(r) PROVE Inv'
  <2>1. TypeOK'
    BY <1>2, ScanStepType
  <2>2. CASE CommitAdmission(r) \/ CommitFails(r)
    <3>1. UsePass(requests[r]) \/ (CommitFails(r) /\ UNCHANGED <<pass, admitted, scans>>)
      BY <2>2 DEF CommitAdmission, CommitFails
    <3> QED BY <2>1, <2>2, <3>1, CommitInv, CommitRollsBack
  <2>3. CASE WriteIntent(r) \/ IntentFails(r)
    BY <2>1, <2>3, IntentInv
  <2>4. CASE Acknowledge(r) \/ AcknowledgeFails(r)
    BY <2>1, <2>4, AcknowledgeInv
  <2>5. CASE RepeatScan(r)
    BY <2>1, <2>5, RepeatScanInv
  <2>6. CASE \/ \E o \in Operations, c \in 1..serial : BeginScan(r, o, c)
             \/ RefuseScan(r) \/ ScanConflicts(r) \/ ScanFails(r)
    BY <2>1, <2>6, QuietScanInv
  <2> QED BY <1>2, <2>2, <2>3, <2>4, <2>5, <2>6 DEF ScanStep
<1>3. CASE RecoveryStep
  <2>1. TypeOK'
    BY <1>3, RecoveryStepType
  <2> QED
    BY <1>3, <2>1, ReplayControlInv, ApplyRecordInv, ResolveInv, TakeBackupInv, RestoreInv,
       QuarantineInv DEF RecoveryStep
<1>4. CASE UNCHANGED vars
  <2>1. UNCHANGED <<database, ledger, backup, lineage, serial, acks, disowned>>
    BY <1>4 DEF vars
  <2>2. TypeOK'
    BY <1>4 DEF vars, database, Inv, TypeOK
  <2>3. RequestInv'
    BY <1>4 DEF vars, database, Inv, RequestInv, RequestOK
  <2>4. ReplayInv'
    BY <1>4 DEF vars, database, Inv, ReplayInv, Accounted
  <2> QED BY <2>1, <2>2, <2>3, <2>4, SameData DEF Inv
<1> QED BY <1>1, <1>2, <1>3, <1>4 DEF Next

\* The strengthened invariant holds in every state of every run.
THEOREM Invariance == Spec => []Inv
BY InitInv, NextInv, PTL DEF Spec

\* Every variable has its type in every state, whatever is restored or replayed.
THEOREM TypeCorrect == Spec => []TypeOK
<1>1. Inv => TypeOK
  BY DEF Inv
<1> QED BY <1>1, Invariance, PTL

\* ADR 010: at most one operation is ever told "Admitted" for an attendee, and for one pass.
THEOREM AdmittedOnce == Spec => []SingleAdmission
<1>1. Inv => SingleAdmission
  BY DEF Inv
<1> QED BY <1>1, Invariance, PTL

\* ADR 018: what was acknowledged stays committed in the independent ledger.
THEOREM AcknowledgedIsCommitted == Spec => []AckIsDurable
<1>1. Inv => AckIsDurable
  BY DEF Inv
<1> QED BY <1>1, Invariance, PTL

\* A serving API's database agrees with every acknowledged admission, or scanning is held.
THEOREM ServedAgrees == Spec => []AckIsUsed
<1>1. Inv => AckIsUsed
  <2> SUFFICES ASSUME Inv, svc = "up", NEW k \in acks, k.id \notin disowned, hold[k.id] # "lineage"
               PROVE  /\ pass[k.attendee].id = k.id /\ pass[k.attendee].status = "used"
                      /\ k.id \in admitted
    BY DEF AckIsUsed
  <2>1. k.id \in Serials /\ k.attendee \in Attendees
    BY DEF Inv, AckInv
  <2>2. ledger[k.id].state = "committed" /\ lineage[k.id] = k.attendee
    BY <2>1 DEF Inv, AckIsDurable, LineageInv
  <2>3. pass[k.attendee].id = k.id /\ pass[k.attendee].status = "used"
    BY <2>1, <2>2 DEF Inv, ReplayInv, Accounted
  <2> QED BY <2>1, <2>3 DEF Inv, DatabaseInv, PassesConsistent
<1> QED BY <1>1, Invariance, PTL

\* A pass is used exactly when its admission row is there.
THEOREM UsedIsAdmitted == Spec => []UsedHasAdmission
<1>1. Inv => UsedHasAdmission
  BY DEF Inv, DatabaseInv, PassesConsistent, UsedHasAdmission
<1> QED BY <1>1, Invariance, PTL

\* While no older backup can be restored between, what a backup has as used is used.
NothingLost ==
  /\ disowned = {}
  /\ \A b \in Backups : \A a \in Attendees : backup[b].pass[a].status = "used" =>
       pass[a].status = "used" /\ pass[a].id = backup[b].pass[a].id

\* No step but a restore takes back a used pass, or gives it another id.
LEMMA UsedKept ==
  ASSUME Inv, Next, \A b \in Backups : ~Restore(b), NEW a \in Attendees, pass[a].status = "used"
  PROVE  pass'[a].status = "used" /\ pass'[a].id = pass[a].id
<1>t. TypeOK
  BY DEF Inv
<1>i. pass[a].id # 0
  BY DEF Inv, DatabaseInv, PassesConsistent
<1>1. CASE GuestStep
  BY <1>1, <1>i, GuestStepEffect DEF GuestEffect
<1>2. ASSUME NEW r \in Requests, ScanStep(r)
      PROVE  pass'[a].status = "used" /\ pass'[a].id = pass[a].id
  <2>1. ASSUME UsePass(requests[r]) PROVE pass'[a].status = "used" /\ pass'[a].id = pass[a].id
    BY <1>t, <2>1, BumpedType DEF UsePass, Statuses, TypeOK
  <2>2. pass' = pass \/ UsePass(requests[r])
    BY <1>2 DEF ScanStep, BeginScan, RefuseScan, ScanConflicts, WriteIntent, CommitAdmission,
       Acknowledge, RepeatScan, IntentFails, CommitFails, AcknowledgeFails, ScanFails, Aside, database
  <2> QED BY <2>1, <2>2
<1>3. CASE RecoveryStep
  <2>1. CASE Quarantine
    BY <1>t, <2>1, AllActiveType DEF Quarantine, Statuses, TypeOK
  <2>2. CASE ApplyRecord
    <3>1. pass' = pass \/ (pass[read.record.attendee].status # "used" /\
            pass' = [pass EXCEPT ![read.record.attendee] =
                       Replayed(pass[read.record.attendee], read.record.version)])
      BY <2>2 DEF ApplyRecord
    <3> QED BY <1>t, <3>1 DEF TypeOK
  <2> QED BY <1>3, <2>1, <2>2 DEF RecoveryStep, Crash, StartApi, StartWorker, ListRecords,
          StopReplay, Serve, ReadRecord, ResolveHold, ResolveFails, TakeBackup, database
<1> QED BY <1>1, <1>2, <1>3 DEF Next

\* With one backup retained, nothing it has can be ruled out.
LEMMA NothingLostKept ==
  ASSUME \A b, c \in Backups : b = c
  PROVE  Inv /\ NothingLost /\ [Next]_vars => NothingLost'
<1> SUFFICES ASSUME Inv, NothingLost, [Next]_vars PROVE NothingLost'
  OBVIOUS
<1>t. TypeOK
  BY DEF Inv
<1>1. ASSUME NEW b \in Backups, Restore(b) PROVE NothingLost'
  BY <1>1 DEF Restore, NothingLost
<1>2. ASSUME NEW b \in Backups, TakeBackup(b) PROVE NothingLost'
  <2>1. backup'[b].pass = pass /\ pass' = pass /\ disowned' = disowned
    BY <1>2, <1>t DEF TakeBackup, CurrentSnapshot, database, TypeOK
  <2> QED BY <2>1 DEF NothingLost
<1>3. ASSUME NEW i \in Serials, ResolveHold(i) \/ ResolveFails(i) PROVE NothingLost'
  <2>1. /\ Resolvable(i) /\ Disowns(i) /\ pass' = pass /\ backup' = backup
    BY <1>3 DEF ResolveHold, ResolveFails, database
  <2>2. PICK a \in Attendees : pass[a].id = i /\ pass[a].status # "used"
    BY <2>1 DEF Resolvable
  <2>3. ASSUME NEW b \in Backups, i \in backup[b].admitted PROVE FALSE
    <3>1. lineage[i] \in Attendees /\ backup[b].pass[lineage[i]].id = i
      BY <2>3 DEF Inv, BackupInv, PassesConsistent
    <3>2. backup[b].pass[lineage[i]].status = "used"
      BY <2>3, <3>1 DEF Inv, BackupInv, PassesConsistent
    <3>3. lineage[i] = a
      BY <2>2, Holder
    <3> QED BY <2>2, <3>2, <3>3 DEF NothingLost
  <2>4. disowned' = {}
    BY <2>1, <2>3 DEF Disowns, NothingLost
  <2> QED BY <2>1, <2>4 DEF NothingLost
<1>4. CASE /\ Next /\ \A b \in Backups : ~Restore(b) /\ ~TakeBackup(b)
           /\ \A i \in Serials : ~ResolveHold(i) /\ ~ResolveFails(i)
  <2>1. backup' = backup /\ disowned' = disowned
    <3>1. CASE GuestStep
      BY <3>1, GuestStepEffect DEF GuestEffect, OutsideDatabase
    <3>2. ASSUME NEW r \in Requests, ScanStep(r) PROVE backup' = backup /\ disowned' = disowned
      BY <3>2 DEF ScanStep, BeginScan, RefuseScan, ScanConflicts, WriteIntent, CommitAdmission,
         Acknowledge, RepeatScan, IntentFails, CommitFails, AcknowledgeFails, ScanFails, Aside
    <3>3. CASE RecoveryStep
      BY <1>4, <3>3 DEF RecoveryStep, Crash, StartApi, StartWorker, ListRecords, StopReplay,
         ApplyRecord, Serve, Quarantine, ReadRecord
    <3> QED BY <1>4, <3>1, <3>2, <3>3 DEF Next
  <2>2. \A a \in Attendees : pass[a].status = "used" =>
          pass'[a].status = "used" /\ pass'[a].id = pass[a].id
    BY <1>4, UsedKept
  <2> QED BY <2>1, <2>2 DEF NothingLost
<1>5. CASE UNCHANGED vars
  BY <1>5 DEF vars, database, NothingLost
<1> QED BY <1>1, <1>2, <1>3, <1>4, <1>5

\* The exception of the three properties above never arises while one backup is retained
\* at a time: an operator can then only rule out what the backup does not have either.
THEOREM OneBackupDisownsNothing ==
  ASSUME \A b, c \in Backups : b = c
  PROVE  Spec => [](disowned = {})
<1>1. Init => NothingLost
  BY DEF Init, NothingLost, CurrentSnapshot, NoPass
<1>2. Inv /\ NothingLost /\ [Next]_vars => NothingLost'
  BY NothingLostKept
<1>3. NothingLost => disowned = {}
  BY DEF NothingLost
<1> QED BY <1>1, <1>2, <1>3, Invariance, PTL DEF Spec

-----------------------------------------------------------------------------
(* Action properties                                                          *)

\* No step replaces another operation's record or takes back a committed one.
LEMMA RecordsKept == Inv /\ [Next]_vars => KeepsRecords
<1> SUFFICES ASSUME Inv, [Next]_vars PROVE KeepsRecords
  OBVIOUS
<1>t. TypeOK
  BY DEF Inv
<1>u. ledger' = ledger => KeepsRecords
  BY DEF KeepsRecords
<1>1. ASSUME NEW r \in Requests, WriteIntent(r) \/ IntentFails(r) PROVE KeepsRecords
  <2>1. PICK a \in Attendees :
          LET q == Located(requests[r], a)
          IN /\ Admissible(a, q.cred) /\ Continues(q, a)
             /\ ledger' \in {ledger, [ledger EXCEPT ![q.id] = OfRequest(q, "intent")]}
    BY <1>1 DEF WriteIntent, IntentFails
  <2>2. LET q == Located(requests[r], a)
        IN  q.id = pass[a].id /\ OfRequest(q, "intent").op = q.op
    BY <1>t, LocatedType, RecordType DEF TypeOK
  <2> QED BY <1>t, <2>1, <2>2 DEF KeepsRecords, Continues, TypeOK
<1>2. ASSUME NEW r \in Requests, Acknowledge(r) \/ AcknowledgeFails(r) PROVE KeepsRecords
  <2> DEFINE q == requests[r]
  <2>1. /\ q \in Request /\ q.id \in Serials /\ q.attendee \in Attendees
        /\ pass[q.attendee].id = q.id
        /\ ledger[q.id].op = q.op /\ ledger[q.id].version = q.version
        /\ ledger[q.id].state # "none"
    BY <1>2, <1>t DEF Acknowledge, AcknowledgeFails, Inv, RequestInv, RequestOK, TypeOK
  <2>2. ledger[q.id].attendee = q.attendee /\ ledger[q.id] \in Record
    BY <1>t, <2>1, Holder DEF Inv, LineageInv, TypeOK
  <2>3. ledger[q.id].state = "committed" => OfRequest(q, "committed") = ledger[q.id]
    BY <2>1, <2>2 DEF OfRequest, Record
  <2>4. OfRequest(q, "committed").op = ledger[q.id].op
    BY <2>1 DEF OfRequest
  <2>5. ledger' \in {ledger, [ledger EXCEPT ![q.id] = OfRequest(q, "committed")]}
    BY <1>2 DEF Acknowledge, AcknowledgeFails
  <2> HIDE DEF q
  <2> QED BY <1>t, <2>3, <2>4, <2>5 DEF KeepsRecords, TypeOK
<1>3. ASSUME NEW i \in Serials, ResolveHold(i) \/ ResolveFails(i) PROVE KeepsRecords
  BY <1>3, <1>t DEF ResolveHold, ResolveFails, Resolvable, KeepsRecords, NoRecord, TypeOK
<1>4. CASE GuestStep
  BY <1>4, <1>u, GuestStepEffect DEF GuestEffect, OutsideDatabase
<1>5. ASSUME NEW r \in Requests, ScanStep(r) PROVE KeepsRecords
  BY <1>5, <1>u, <1>1, <1>2 DEF ScanStep, BeginScan, RefuseScan, ScanConflicts, CommitAdmission,
     RepeatScan, CommitFails, ScanFails
<1>6. CASE RecoveryStep
  BY <1>6, <1>u, <1>3 DEF RecoveryStep, Crash, StartApi, StartWorker, ListRecords, StopReplay,
     ApplyRecord, Serve, Quarantine, ReadRecord, TakeBackup, Restore
<1> QED BY <1>u, <1>4, <1>5, <1>6 DEF Next, vars

\* No operation's record replaces another's, and a committed record is never taken back.
THEOREM RecordsAreKept == Spec => RecordIsKept
BY Invariance, RecordsKept, PTL DEF Spec, RecordIsKept

\* Only issuing and reissuing make a pass active, and they draw a new credential.
LEMMA ActiveStep ==
  ASSUME Inv, Next, svc # "restoring", svc' # "restoring", NEW a \in Attendees,
         pass'[a].status = "active", pass'[a].cred # serial + 1
  PROVE  pass[a].status = "active" /\ pass'[a].cred = pass[a].cred
<1>t. pass \in [Attendees -> PassRow]
  BY DEF Inv, TypeOK
<1>u. pass' = pass => pass[a].status = "active" /\ pass'[a].cred = pass[a].cred
  OBVIOUS
<1>1. CASE GuestStep
  <2>1. ASSUME NEW b \in Attendees, Decline(b) \/ RefreshTickets(b) \/ Revoke(b)
        PROVE  pass[a].status = "active" /\ pass'[a].cred = pass[a].cred
    BY <1>t, <2>1, BumpedType DEF Decline, RefreshTickets, Revoke, Statuses
  <2>2. ASSUME NEW b \in Attendees, Issue(b)
        PROVE  pass[a].status = "active" /\ pass'[a].cred = pass[a].cred
    BY <1>t, <2>2 DEF Issue, Issuable
  <2>3. ASSUME NEW b \in Attendees, Reissue(b)
        PROVE  pass[a].status = "active" /\ pass'[a].cred = pass[a].cred
    <3>1. Bumped(pass[b], "active") \in PassRow
      BY <1>t, BumpedType DEF Statuses
    <3>2. [Bumped(pass[b], "active") EXCEPT !.cred = serial + 1].cred = serial + 1
      BY <3>1 DEF PassRow
    <3> QED BY <1>t, <2>3, <3>2 DEF Reissue, Reissued
  <2>4. ASSUME NEW g \in Gates, NEW moved \in BOOLEAN, SaveEvent(g, moved)
        PROVE  pass[a].status = "active" /\ pass'[a].cred = pass[a].cred
    BY <1>t, <2>4, AllActiveType DEF SaveEvent, Statuses
  <2>5. CASE Sweep
    BY SMTT(30), <1>t, <2>5, AllActiveType DEF Sweep, Statuses
  <2> QED BY <1>1, <1>u, <2>1, <2>2, <2>3, <2>4, <2>5
          DEF GuestStep, Confirm, CorrectToDeclined, Tick
<1>2. ASSUME NEW r \in Requests, ScanStep(r)
      PROVE  pass[a].status = "active" /\ pass'[a].cred = pass[a].cred
  <2>1. ASSUME UsePass(requests[r])
        PROVE  pass[a].status = "active" /\ pass'[a].cred = pass[a].cred
    BY <1>t, <2>1, BumpedType DEF UsePass, Statuses
  <2> QED BY <1>2, <1>u, <2>1 DEF ScanStep, BeginScan, RefuseScan, ScanConflicts, WriteIntent,
          CommitAdmission, Acknowledge, RepeatScan, IntentFails, CommitFails, AcknowledgeFails,
          ScanFails, Aside, database
<1>3. CASE RecoveryStep
  <2>1. ASSUME ApplyRecord
        PROVE  pass[a].status = "active" /\ pass'[a].cred = pass[a].cred
    BY <1>t, <2>1 DEF ApplyRecord, Replayed
  <2>2. ~Quarantine /\ \A b \in Backups : ~Restore(b)
    BY DEF Quarantine, Restore
  <2> QED BY <1>3, <1>u, <2>1, <2>2 DEF RecoveryStep, Crash, StartApi, StartWorker, ListRecords,
          StopReplay, Serve, ReadRecord, ResolveHold, ResolveFails, TakeBackup, database
<1> QED BY <1>1, <1>2, <1>3 DEF Next

\* No step makes a dead credential valid again.
LEMMA DeadKept == Inv /\ [Next]_vars => KeepsDead
<1> SUFFICES ASSUME Inv, [Next]_vars, NEW c \in 1..serial, Live(c)' PROVE Live(c)
  BY DEF KeepsDead
<1>t. TypeOK
  BY DEF Inv
<1>c. c # serial + 1
  BY <1>t DEF TypeOK
<1>1. PICK a \in Attendees : pass'[a].status = "active" /\ pass'[a].cred = c
  BY DEF Live
<1>2. svc' # "restoring"
  BY DEF Live
<1>3. CASE Next /\ svc # "restoring"
  BY <1>c, <1>1, <1>2, <1>3, ActiveStep DEF Live
<1>4. CASE Next /\ svc = "restoring"
  <2>1. Quarantine
    BY ZenonT(60), <1>2, <1>4, Quiescent
    DEF Next, GuestStep, Confirm, Decline, CorrectToDeclined, RefreshTickets, Issue, Revoke,
        Reissue, SaveEvent, Tick, Sweep, Editing, OutsideDatabase, ScanStep, BeginScan, RefuseScan,
        ScanConflicts, WriteIntent, CommitAdmission, Acknowledge, RepeatScan, IntentFails,
        CommitFails, AcknowledgeFails, ScanFails, Deciding, RecoveryStep, Crash, StartApi,
        StartWorker, StopReplay, ApplyRecord, Serve, ReadRecord, ResolveHold, ResolveFails,
        Resolvable, TakeBackup, Restore
  <2>2. pass'[a].status # "active"
    BY ZenonT(60), <1>t, <2>1, AllActiveType DEF Quarantine, TypeOK, Statuses
  <2> QED BY SMTT(30), <1>1, <2>2
<1>5. CASE UNCHANGED vars
  BY <1>1, <1>2, <1>5 DEF vars, database, Live
<1> QED BY <1>3, <1>4, <1>5

\* A credential once replaced, revoked, expired, used or restored never opens the door again.
THEOREM DeadStaysDead == Spec => DeadCredentialStaysDead
BY Invariance, DeadKept, PTL DEF Spec, DeadCredentialStaysDead
==============================================================================
