-------------------------- MODULE WeddingDeletion --------------------------
(***************************************************************************)
(* A wedding from its owner's deletion, or the end of its service, to its  *)
(* recovery or its erasure: deleteWedding and recoverWedding (index.ts),   *)
(* sweep, reapplyLedger, erase and the archive job (retention.ts), the     *)
(* deletion ledger outside every backup, the start of API and worker, and  *)
(* the restore of a backup with its quarantine.                            *)
(*                                                                         *)
(* A transaction is one step unless it writes the ledger in the middle;    *)
(* such a transaction keeps the wedding's row locked between its steps.    *)
(* Each call to the private storage is a step of its own.                  *)
(*                                                                         *)
(* Abstracted: everything kept about a wedding is one piece of data and    *)
(* one stored file, its scoped credentials (grants, invitations, passes)   *)
(* are numbered in the order of their creation, and an archive is one      *)
(* object per job that writes it.  Deletion and grace period last Window   *)
(* days of the model, which stand for the code's thirty.                   *)
(***************************************************************************)
EXTENDS Naturals, FiniteSets

CONSTANTS Workers, Api, Nobody,
          Sweepers,    \* bound: the workers that sweep; the code's do all
          Exporters,   \* bound: the workers that take archive jobs; the code's do all
          Window,      \* the thirty days, in days of the model
          LastDay,     \* bound: the days that pass
          MaxCreated,  \* bound: credentials and archives made
          MaxBackups,  \* bound: backups retained at a time
          MaxRequests, \* bound: deletions the owner asks for
          MaxFaults    \* bound: crashes, failed calls and restores

ASSUME ProcessAssumption == Api \notin Workers /\ Nobody \notin Workers /\ Sweepers \cup Exporters = Workers
ASSUME DayAssumption == {Window, LastDay, MaxCreated, MaxBackups, MaxRequests, MaxFaults} \subseteq Nat

Procs == Workers \cup {Api}
Never == LastDay + Window + 1
Media == "media"
Smaller(a, b) == IF a < b THEN a ELSE b

\* An archive is written under a key of its worker's own.
ASSUME KeyAssumption == Media \notin Workers

VARIABLES
  today,    \* the clock
  db,       \* the wedding's rows: std_weddings, tombstone, credentials, archive export
  ledger,   \* the wedding's record in the deletion ledger
  entries,  \* its records in the admission and resource-erasure ledgers are still there
  objects,  \* private storage: its media file and what each worker wrote
  backups,  \* the retained backups of database and storage
  owner,    \* the owner's request between its ledger write and its commit
  proc,     \* API and workers: how far start, sweep or job has come
  created,  \* how many credentials and archives were ever made
  counts,   \* requests and faults so far
  barred,   \* history: credentials up to this one were revoked for good
  stale,    \* history: a replay has applied a record that was no longer in the ledger
  antedated \* history: a replay has kept a tombstone due before the deletion on record

deletionVars == <<today, db, ledger, entries, objects, backups, owner, proc, created, counts, barred, stale, antedated>>

NoTomb == [state |-> "none", due |-> 0]
NoExport == [state |-> "none", by |-> Nobody, made |-> 0]
NoRecord == [state |-> "none", due |-> 0, made |-> 0]
NoRequest == [at |-> "idle", due |-> 0]
Off == [at |-> "off", now |-> 0, boot |-> TRUE, record |-> NoRecord, keys |-> {}]

DeletionInit ==
  /\ today = 0
  /\ \E expires \in {1, Never} :
       db = [deleted |-> FALSE, until |-> 0, data |-> "kept", expires |-> expires,
             tomb |-> NoTomb, open |-> {}, export |-> NoExport]
  /\ ledger = NoRecord /\ entries = TRUE /\ objects = {Media} /\ backups = {}
  /\ owner = NoRequest
  /\ proc = [p \in Procs |-> [Off EXCEPT !.at = "idle"]]
  /\ created = 0 /\ counts = [requests |-> 0, faults |-> 0] /\ barred = 0
  /\ stale = FALSE /\ antedated = FALSE

Fault == counts.faults < MaxFaults /\ counts' = [counts EXCEPT !.faults = @ + 1]
Serving == proc[Api].at = "idle"
\* Nobody holds the row of the wedding in an open transaction.
RowFree == owner.at = "idle" /\ \A w \in Workers : proc[w].at # "expiring"
\* What a process remembers ends with the sweep, start or job it belongs to.
Goes(p, at) ==
  proc' = [proc EXCEPT ![p] = IF at \in {"off", "idle"} THEN [Off EXCEPT !.at = at]
                              ELSE [proc[p] EXCEPT !.at = at,
                                      !.record = IF at = "replayed" THEN NoRecord ELSE @]]

(***************************************************************************)
(* Credentials and archives.  quarantineWedding revokes and cancels what   *)
(* was made up to the cutoff.                                              *)
(***************************************************************************)
Cancelled(export, cutoff) ==
  IF export.state \in {"queued", "leased"} /\ export.made <= cutoff
    THEN [export EXCEPT !.state = "cancelled"] ELSE export

\* Mutant: jobs are cancelled, credentials stay.
QuarantinedJobs(d, cutoff) == [d EXCEPT !.export = Cancelled(@, cutoff)]

Quarantined(d, cutoff) ==
  [d EXCEPT !.open = @ \ 1..cutoff, !.export = Cancelled(@, cutoff)]

Makes == Serving /\ RowFree /\ ~db.deleted /\ created < MaxCreated /\ created' = created + 1

IssueAccess ==
  /\ Makes
  /\ db' = [db EXCEPT !.open = @ \cup {created + 1}]
  /\ UNCHANGED <<today, ledger, entries, objects, backups, owner, proc, counts, barred, stale, antedated>>

RequestArchive ==
  /\ Makes /\ db.export.state \in {"none", "cancelled"}
  /\ db' = [db EXCEPT !.export = [state |-> "queued", by |-> Nobody, made |-> created + 1]]
  /\ UNCHANGED <<today, ledger, entries, objects, backups, owner, proc, counts, barred, stale, antedated>>

(***************************************************************************)
(* The owner.  Both requests lock the wedding's row, write the ledger and  *)
(* then commit; the commit, or its answer, may fail.                       *)
(***************************************************************************)
AskDeletion ==
  /\ Serving /\ RowFree /\ ~db.deleted
  /\ counts.requests < MaxRequests /\ today + Window <= LastDay
  /\ counts' = [counts EXCEPT !.requests = @ + 1]
  /\ ledger' = [state |-> "requested", due |-> today + Window, made |-> created]
  /\ owner' = [at |-> "deleting", due |-> today + Window]
  /\ UNCHANGED <<today, db, entries, objects, backups, proc, created, barred, stale, antedated>>

deleteWedding ==
  /\ owner.at = "deleting"
  /\ db' = Quarantined([db EXCEPT !.deleted = TRUE, !.until = owner.due,
                          !.tomb = [state |-> "waiting", due |-> owner.due]], created)
  /\ owner' = NoRequest
  /\ \/ barred' = created /\ UNCHANGED counts
     \/ Fault /\ UNCHANGED barred
  /\ UNCHANGED <<today, ledger, entries, objects, backups, proc, created, stale, antedated>>

AskRecovery ==
  /\ Serving /\ RowFree /\ db.deleted /\ db.until > today
  /\ ledger' = [state |-> "recovered", due |-> today, made |-> created]
  /\ owner' = [at |-> "recovering", due |-> 0]
  /\ UNCHANGED <<today, db, entries, objects, backups, proc, created, counts, barred, stale, antedated>>

WithoutTomb(d) == [d EXCEPT !.deleted = FALSE, !.until = 0,
                            !.tomb = IF @.state = "waiting" THEN NoTomb ELSE @]

recoverWedding ==
  /\ owner.at = "recovering"
  /\ db' = WithoutTomb(db)
  /\ owner' = NoRequest
  /\ UNCHANGED <<today, ledger, entries, objects, backups, proc, created, counts, barred, stale, antedated>>

\* The commit fails: the row is as before, the ledger is not.
RequestFails ==
  /\ owner.at # "idle" /\ Fault
  /\ owner' = NoRequest
  /\ UNCHANGED <<today, db, ledger, entries, objects, backups, proc, created, barred, stale, antedated>>

(***************************************************************************)
(* reapplyLedger, at every start and in every sweep.                       *)
(***************************************************************************)
\* Mutant: a process starts without looking at the ledger.
BootUnread(p) ==
  /\ proc[p].at = "off"
  /\ Goes(p, "idle")
  /\ UNCHANGED <<today, db, ledger, entries, objects, backups, owner, created, counts, barred, stale, antedated>>

Boot(p) ==
  /\ proc[p].at = "off"
  /\ proc' = [proc EXCEPT ![p] = IF ledger.state = "none" THEN [Off EXCEPT !.at = "idle"]
                                ELSE [Off EXCEPT !.at = "read", !.now = today, !.record = ledger]]
  /\ UNCHANGED <<today, db, ledger, entries, objects, backups, owner, created, counts, barred, stale, antedated>>

Replayed(p) == IF proc[p].boot THEN "idle" ELSE "replayed"

ReadRecord(p) ==
  /\ proc[p].at = "listing"
  /\ IF ledger.state = "none" THEN Goes(p, Replayed(p))
     ELSE proc' = [proc EXCEPT ![p].at = "read", ![p].record = ledger]
  /\ UNCHANGED <<today, db, ledger, entries, objects, backups, owner, created, counts, barred, stale, antedated>>

Erased == db.tomb.state = "erased" /\ db.deleted /\ db.data = "erased"

\* Mutant: credentials made since the recovery are revoked by every replay.
ReadmittedBare(d, r) ==
  IF d.data = "erased" THEN [d EXCEPT !.open = {}] ELSE WithoutTomb(Quarantined(d, created))

\* The record says recovered: what was erased stays hidden.
Readmitted(d, r) ==
  LET kept == Quarantined(d, r.made)
  IN IF d.data = "erased" THEN [kept EXCEPT !.tomb = WithoutTomb(d).tomb] ELSE WithoutTomb(kept)

\* Mutant: a wedding hidden by the replay gets no tombstone.
HiddenOnly(d, r) ==
  [Quarantined(d, created) EXCEPT !.deleted = TRUE, !.until = IF r.due > today THEN r.due ELSE 0]

\* The record says requested, or erased while the database does not.
Hidden(d, r) ==
  [Quarantined(d, created) EXCEPT
     !.deleted = TRUE, !.until = IF r.due > today THEN r.due ELSE 0,
     !.tomb = [state |-> "waiting",
               due |-> IF d.tomb.state = "none" THEN r.due ELSE Smaller(d.tomb.due, r.due)]]

\* A tombstone from a backup may belong to an earlier deletion, and least(...) keeps its date.
Antedates(tomb, r) ==
  r.state # "recovered" /\ tomb.state # "none" /\ tomb.due < r.due /\ today < r.due

ApplyRecord(p) ==
  /\ proc[p].at = "read" /\ RowFree
  /\ ~(proc[p].record.state = "erased" /\ Erased)
  /\ db' = IF proc[p].record.state = "recovered" THEN Readmitted(db, proc[p].record)
           ELSE Hidden(db, proc[p].record)
  /\ Goes(p, Replayed(p))
  /\ stale' = (stale \/ proc[p].record # ledger)
  /\ antedated' = (antedated \/ Antedates(db.tomb, proc[p].record))
  /\ UNCHANGED <<today, ledger, entries, objects, backups, owner, created, counts, barred>>

\* Mutant: nothing is looked for once the rows are erased.
FindsNothing(p) ==
  /\ proc[p].at = "read" /\ proc[p].record.state = "erased" /\ Erased
  /\ Goes(p, "purging")
  /\ UNCHANGED <<today, db, ledger, entries, objects, backups, owner, created, counts, barred, stale, antedated>>

\* What late writers left behind goes whenever the record is replayed.
FindLeftovers(p) ==
  /\ proc[p].at = "read" /\ proc[p].record.state = "erased" /\ Erased
  /\ proc' = [proc EXCEPT ![p].at = "purging", ![p].keys = objects]
  /\ UNCHANGED <<today, db, ledger, entries, objects, backups, owner, created, counts, barred, stale, antedated>>

DeleteObject(p) ==
  /\ proc[p].at \in {"purging", "deleting"}
  /\ \E k \in proc[p].keys :
       /\ objects' = objects \ {k}
       /\ proc' = [proc EXCEPT ![p].keys = @ \ {k}]
  /\ UNCHANGED <<today, db, ledger, entries, backups, owner, created, counts, barred, stale, antedated>>

\* eraseWedding of the other two ledgers ends the replay, or the erasure.
EraseEntries(p) ==
  /\ \/ proc[p].at = "purging" /\ proc[p].keys = {} /\ Goes(p, Replayed(p))
     \/ proc[p].at = "marked" /\ Goes(p, "idle")
  /\ entries' = FALSE
  /\ UNCHANGED <<today, db, ledger, objects, backups, owner, created, counts, barred, stale, antedated>>

(***************************************************************************)
(* sweep and erase.                                                        *)
(***************************************************************************)
Overdue == ~db.deleted /\ db.expires + Window <= today

StartSweep(w) ==
  /\ proc[w].at = "idle" /\ RowFree
  /\ proc' = [proc EXCEPT ![w] = [Off EXCEPT !.at = IF Overdue THEN "expiring" ELSE "listing",
                                             !.now = today, !.boot = FALSE]]
  /\ IF Overdue THEN ledger' = [state |-> "requested", due |-> db.expires + Window, made |-> created]
                        ELSE UNCHANGED ledger
  /\ UNCHANGED <<today, db, entries, objects, backups, owner, created, counts, barred, stale, antedated>>

Expire(w) ==
  /\ proc[w].at = "expiring"
  /\ db' = [db EXCEPT !.deleted = TRUE, !.until = 0,
                      !.tomb = IF @ = NoTomb THEN [state |-> "waiting", due |-> db.expires + Window] ELSE @]
  /\ Goes(w, "listing")
  /\ UNCHANGED <<today, ledger, entries, objects, backups, owner, created, counts, barred, stale, antedated>>

\* Mutant: every deletion is due at once.
DueAtOnce(w) == db.tomb.state = "waiting"

Due(w) == db.tomb.state = "waiting" /\ db.tomb.due <= proc[w].now

BeginErasure(w) ==
  /\ proc[w].at = "replayed" /\ RowFree
  /\ IF Due(w) THEN /\ db' = [db EXCEPT !.export = Cancelled(@, created)]
                    /\ Goes(w, "erasing")
     ELSE Goes(w, "idle") /\ UNCHANGED db
  /\ UNCHANGED <<today, ledger, entries, objects, backups, owner, created, counts, barred, stale, antedated>>

ListObjects(w) ==
  /\ proc[w].at = "erasing"
  /\ proc' = [proc EXCEPT ![w].at = "deleting", ![w].keys = objects]
  /\ UNCHANGED <<today, db, ledger, entries, objects, backups, owner, created, counts, barred, stale, antedated>>

EraseRows(w) ==
  /\ proc[w].at = "deleting" /\ proc[w].keys = {} /\ RowFree
  /\ db' = [db EXCEPT !.deleted = TRUE, !.until = 0, !.data = "erased", !.open = {},
                      !.export = NoExport, !.tomb.state = "erased"]
  /\ Goes(w, "erased")
  /\ UNCHANGED <<today, ledger, entries, objects, backups, owner, created, counts, barred, stale, antedated>>

Mark(w) ==
  /\ proc[w].at = "erased"
  /\ ledger' = [state |-> "erased", due |-> proc[w].now, made |-> created]
  /\ Goes(w, "marked")
  /\ UNCHANGED <<today, db, entries, objects, backups, owner, created, counts, barred, stale, antedated>>

(***************************************************************************)
(* The archive job.  Its lease is renewed while its worker runs.           *)
(***************************************************************************)
LeaseArchive(w) ==
  /\ proc[w].at = "idle" /\ db.export.state = "queued" /\ ~db.deleted
  /\ db' = [db EXCEPT !.export.state = "leased", !.export.by = w]
  /\ Goes(w, "exporting")
  /\ UNCHANGED <<today, ledger, entries, objects, backups, owner, created, counts, barred, stale, antedated>>

WriteArchive(w) ==
  /\ proc[w].at = "exporting"
  /\ objects' = objects \cup {w}
  /\ Goes(w, "written")
  /\ UNCHANGED <<today, db, ledger, entries, backups, owner, created, counts, barred, stale, antedated>>

FinishArchive(w) ==
  /\ proc[w].at = "written" /\ RowFree
  /\ IF ~db.deleted /\ db.export.state = "leased" /\ db.export.by = w
       THEN db' = [db EXCEPT !.export.state = "completed"] /\ UNCHANGED objects
       ELSE objects' = objects \ {w} /\ UNCHANGED db
  /\ Goes(w, "idle")
  /\ UNCHANGED <<today, ledger, entries, backups, owner, created, counts, barred, stale, antedated>>

LeaseEnds ==
  /\ db.export.state = "leased" /\ proc[db.export.by].at \notin {"exporting", "written"}
  /\ db' = [db EXCEPT !.export.state = "queued", !.export.by = Nobody]
  /\ UNCHANGED <<today, ledger, entries, objects, backups, owner, proc, created, counts, barred, stale, antedated>>

(***************************************************************************)
(* Crashes, failed calls, time, backups.                                   *)
(***************************************************************************)
Stop(p) ==
  /\ proc[p].at # "off" /\ Fault
  /\ Goes(p, "off")
  /\ owner' = IF p = Api THEN NoRequest ELSE owner
  /\ UNCHANGED <<today, db, ledger, entries, objects, backups, created, barred, stale, antedated>>

\* A sweep that fails is begun again after a minute.
StepFails(w) ==
  /\ proc[w].at \notin {"off", "idle"} /\ Fault
  /\ Goes(w, IF proc[w].at \in {"exporting", "written"} \/ ~proc[w].boot THEN "idle" ELSE "off")
  /\ UNCHANGED <<today, db, ledger, entries, objects, backups, owner, created, barred, stale, antedated>>

\* No start, sweep or job's transaction lasts longer than one such day.
Tick ==
  /\ today < LastDay
  /\ \A p \in Procs : proc[p].at \in {"off", "idle"} \/ proc[p].now = today
  /\ today' = today + 1
  /\ UNCHANGED <<db, ledger, entries, objects, backups, owner, proc, created, counts, barred, stale, antedated>>

TakeBackup ==
  /\ Cardinality(backups) < MaxBackups /\ counts.faults < MaxFaults
  /\ backups' = backups \cup {[db |-> db, objects |-> objects]}
  /\ UNCHANGED <<today, db, ledger, entries, objects, owner, proc, created, counts, barred, stale, antedated>>

\* restoreBackup of any retained backup into an empty database and an empty storage, with
\* every process stopped, then quarantineRestoredAccess.
Restores(b) ==
  /\ Fault
  /\ db' = [b.db EXCEPT !.open = {},
              !.export = IF @.state = "leased" THEN [@ EXCEPT !.state = "queued", !.by = Nobody] ELSE @]
  /\ objects' = b.objects
  /\ owner' = NoRequest
  /\ proc' = [p \in Procs |-> Off]
  /\ barred' = created
  /\ UNCHANGED <<today, ledger, entries, backups, created, stale, antedated>>

Restore == \E b \in backups : Restores(b)

Sweeps(w) ==
  \/ StartSweep(w) \/ Expire(w) \/ BeginErasure(w) \/ ListObjects(w) \/ EraseRows(w) \/ Mark(w)
Replays(p) == Boot(p) \/ ReadRecord(p) \/ ApplyRecord(p) \/ FindLeftovers(p) \/ DeleteObject(p) \/ EraseEntries(p)
Archives(w) == LeaseArchive(w) \/ WriteArchive(w) \/ FinishArchive(w)
Commits == deleteWedding \/ recoverWedding

DeletionNext ==
  \/ IssueAccess \/ RequestArchive \/ AskDeletion \/ AskRecovery \/ Commits \/ RequestFails
  \/ \E p \in Procs : Replays(p) \/ Stop(p)
  \/ \E w \in Sweepers : Sweeps(w)
  \/ \E w \in Exporters : Archives(w)
  \/ \E w \in Workers : StepFails(w)
  \/ LeaseEnds \/ Tick \/ TakeBackup \/ Restore

DeletionFairness ==
  /\ WF_deletionVars(Commits) /\ WF_deletionVars(Tick)
  /\ \A p \in Procs : WF_deletionVars(Replays(p))
  /\ \A w \in Sweepers : WF_deletionVars(Sweeps(w))
  /\ \A w \in Exporters : WF_deletionVars(WriteArchive(w) \/ FinishArchive(w))

DeletionSpec == DeletionInit /\ [][DeletionNext]_deletionVars
FairDeletionSpec == DeletionSpec /\ DeletionFairness

(***************************************************************************)
(* Properties.  A replay reads a record and applies it in a transaction of *)
(* its own; the owner or the end of the service may come in between, and   *)
(* what was overtaken is applied until the next sweep (stale).             *)
(***************************************************************************)

\* What the owner sees, or may still bring back, has its data, its media and its finished
\* archive, however far an erasure, a restore or another process has come.
KeptWhole == ~stale /\ ~antedated /\ Serving /\ (~db.deleted \/ db.until > today) =>
  /\ db.data = "kept" /\ Media \in objects
  /\ db.export.state = "completed" => db.export.by \in objects

\* Credentials from before a confirmed deletion or a restore never open anything again,
\* recovered or not.
OldAccessIsDead == Serving => db.open \cap 1..barred = {}

\* What the ledger calls erased is not shown, whatever backup the database comes from.
ErasedStaysHidden == ~stale /\ ~antedated /\ Serving /\ ledger.state = "erased" => db.deleted

\* The record of a recovery is replayed for ever; credentials made since then survive it.
NewAccessIsKept ==
  [][~db.deleted /\ ~db'.deleted /\ Serving' => db.open \ 1..ledger.made \subseteq db'.open]_deletionVars

Agrees ==
  CASE ledger.state = "requested" -> db.deleted
    [] ledger.state = "recovered" -> ~db.deleted /\ db.tomb.state = "none"
    [] ledger.state = "erased" -> Erased /\ objects = {} /\ ~entries
    [] OTHER -> TRUE

\* Failed commits, stale replays, late archive writers and restores are all made good: the
\* database and the storage come to agree with the ledger and stay so.
LedgerPrevails == <>[]Agrees

\* A deletion ends: the wedding is recovered, or erased and marked so.
DeletionEnds == ledger.state = "requested" ~> ledger.state # "requested"
=============================================================================
