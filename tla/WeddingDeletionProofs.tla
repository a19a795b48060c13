----------------------- MODULE WeddingDeletionProofs -----------------------
(***************************************************************************)
(* A wedding through its deletion, its recovery, its erasure and the       *)
(* restore of backups, for every number of workers, sweepers, requests,    *)
(* faults and days: what a deletion or a restore revoked stays revoked,    *)
(* what was made since the last entry of the ledger stays in force, what   *)
(* can still be seen or brought back is whole, what was erased is hidden.  *)
(***************************************************************************)
EXTENDS WeddingDeletion, TLAPS

Stored == SUBSET (Workers \cup {Media})

Tombs == [state: {"none", "waiting", "erased"}, due: Nat]

Exports == [state: {"none", "queued", "leased", "completed", "cancelled"},
            by: Workers \cup {Nobody}, made: Nat]

Rows == [deleted: BOOLEAN, until: Nat, data: {"kept", "erased"}, expires: Nat,
         tomb: Tombs, open: SUBSET Nat, export: Exports]

Records == [state: {"none", "requested", "recovered", "erased"}, due: Nat, made: Nat]

Places == {"off", "idle", "listing", "read", "purging", "replayed", "expiring", "erasing",
           "deleting", "erased", "marked", "exporting", "written"}

Memories == [at: Places, now: Nat, boot: BOOLEAN, record: Records, keys: Stored]

Owners == [at: {"idle", "deleting", "recovering"}, due: Nat]
Tallies == [requests: Nat, faults: Nat]

TypeOK ==
  /\ today \in Nat /\ created \in Nat /\ barred \in Nat
  /\ counts \in Tallies
  /\ db \in Rows /\ ledger \in Records
  /\ entries \in BOOLEAN /\ stale \in BOOLEAN /\ antedated \in BOOLEAN
  /\ objects \in Stored
  /\ backups \subseteq [db: Rows, objects: Stored]
  /\ owner \in Owners
  /\ proc \in [Procs -> Memories]

\* Nothing that is in force was barred, and nothing barred is still to be made.
BarredIsShut == barred <= created /\ db.open \cap 1..barred = {} /\ db.open \subseteq 1..created

\* What a replay has read is no newer than the ledger, and the ledger no newer than the
\* credentials that exist.
RecordsAreOld ==
  /\ ledger.made <= created
  /\ \A p \in Procs : proc[p].record.made <= ledger.made

Inv == TypeOK /\ BarredIsShut /\ RecordsAreOld

-----------------------------------------------------------------------------
(* Lemmas about the operators                                                *)

LEMMA Numbers == Window \in Nat /\ LastDay \in Nat /\ Never \in Nat
  BY DayAssumption DEF Never

LEMMA Members == Api \in Procs /\ Workers \subseteq Procs /\ Sweepers \subseteq Workers /\ Exporters \subseteq Workers
  BY ProcessAssumption DEF Procs

LEMMA Starts ==
  /\ Off \in Memories /\ NoRecord \in Records
  /\ \A at \in Places : [Off EXCEPT !.at = at] \in Memories /\ [Off EXCEPT !.at = at].at = at
                        /\ [Off EXCEPT !.at = at].record.made = 0
<1>1. NoRecord \in Records
  BY DEF NoRecord, Records
<1>2. Off \in Memories
  BY <1>1 DEF Off, Memories, Places, Stored
<1>3. ASSUME NEW at \in Places
      PROVE  /\ [Off EXCEPT !.at = at] \in Memories /\ [Off EXCEPT !.at = at].at = at
             /\ [Off EXCEPT !.at = at].record.made = 0
  <2>1. Off.record.made = 0
    BY DEF Off, NoRecord
  <2>2. [Off EXCEPT !.at = at] \in Memories
    BY <1>2 DEF Memories
  <2>3. [Off EXCEPT !.at = at].at = at /\ [Off EXCEPT !.at = at].record = Off.record
    BY <1>2 DEF Memories
  <2> QED
    BY <2>1, <2>2, <2>3
<1> QED
  BY <1>1, <1>2, <1>3

\* A process that goes on keeps its record or drops it; the others are as before.
LEMMA GoesRow ==
  ASSUME proc \in [Procs -> Memories], NEW p \in Procs, NEW at \in Places, Goes(p, at)
  PROVE  /\ proc' \in [Procs -> Memories]
         /\ \A q \in Procs \ {p} : proc'[q] = proc[q]
         /\ proc'[p].at = at /\ proc'[p].record.made \in {0, proc[p].record.made}
<1> DEFINE new == IF at \in {"off", "idle"} THEN [Off EXCEPT !.at = at]
                  ELSE [proc[p] EXCEPT !.at = at,
                          !.record = IF at = "replayed" THEN NoRecord ELSE @]
<1>1. proc' = [proc EXCEPT ![p] = new]
  BY DEF Goes
<1>2. new \in Memories /\ new.at = at /\ new.record.made \in {0, proc[p].record.made}
  <2>1. CASE at \in {"off", "idle"}
    BY <2>1, Starts
  <2>2. CASE at \notin {"off", "idle"}
    <3>1. proc[p] \in Memories
      OBVIOUS
    <3>2. new = [proc[p] EXCEPT !.at = at, !.record = IF at = "replayed" THEN NoRecord ELSE @]
      BY <2>2
    <3> HIDE DEF new
    <3>3. CASE at = "replayed"
      BY <3>1, <3>2, <3>3, Starts DEF Memories, NoRecord
    <3>4. CASE at # "replayed"
      BY <3>1, <3>2, <3>4 DEF Memories
    <3> QED
      BY <3>3, <3>4
  <2> QED
    BY <2>1, <2>2
<1> HIDE DEF new
<1> QED
  BY <1>1, <1>2

LEMMA Cancelling ==
  ASSUME NEW d \in Rows, NEW cutoff \in Nat
  PROVE  Cancelled(d.export, cutoff) \in Exports
<1>1. d.export \in Exports
  BY DEF Rows
<1> QED
  BY <1>1 DEF Cancelled, Exports

LEMMA Quarantining ==
  ASSUME NEW d \in Rows, NEW cutoff \in Nat
  PROVE  /\ Quarantined(d, cutoff) \in Rows
         /\ Quarantined(d, cutoff).open = d.open \ 1..cutoff
         /\ Quarantined(d, cutoff).deleted = d.deleted
         /\ Quarantined(d, cutoff).tomb = d.tomb
<1> DEFINE e == Cancelled(d.export, cutoff)
<1>1. e \in Exports
  BY Cancelling
<1>2. Quarantined(d, cutoff) = [d EXCEPT !.open = @ \ 1..cutoff, !.export = e]
  BY DEF Quarantined, Rows
<1> HIDE DEF e
<1> QED
  BY ZenonT(60), <1>1, <1>2 DEF Rows

LEMMA Untombed ==
  ASSUME NEW d \in Rows
  PROVE  WithoutTomb(d) \in Rows /\ WithoutTomb(d).open = d.open /\ ~WithoutTomb(d).deleted
<1>1. NoTomb \in Tombs
  BY DEF NoTomb, Tombs
<1> QED
  BY <1>1 DEF WithoutTomb, Rows

\* What a replay does to the rows: it revokes what was made up to the record, or hides.
LEMMA Replaying ==
  ASSUME NEW d \in Rows, NEW r \in Records, today \in Nat, created \in Nat
  PROVE  /\ Readmitted(d, r) \in Rows /\ Readmitted(d, r).open = d.open \ 1..r.made
         /\ Hidden(d, r) \in Rows /\ Hidden(d, r).open = d.open \ 1..created /\ Hidden(d, r).deleted
<1>1. r.made \in Nat /\ r.due \in Nat
  BY DEF Records
<1>2. Readmitted(d, r) \in Rows /\ Readmitted(d, r).open = d.open \ 1..r.made
  <2> DEFINE kept == Quarantined(d, r.made)
             tomb == WithoutTomb(d).tomb
  <2>1. kept \in Rows /\ kept.open = d.open \ 1..r.made
    BY <1>1, Quarantining
  <2>2. tomb \in Tombs
    BY Untombed DEF Rows
  <2>3. Readmitted(d, r) = IF d.data = "erased" THEN [kept EXCEPT !.tomb = tomb] ELSE WithoutTomb(kept)
    BY DEF Readmitted
  <2> HIDE DEF kept, tomb
  <2>4. [kept EXCEPT !.tomb = tomb] \in Rows /\ [kept EXCEPT !.tomb = tomb].open = kept.open
    BY <2>1, <2>2 DEF Rows
  <2> QED
    BY <2>1, <2>3, <2>4, Untombed
<1>3. Hidden(d, r) \in Rows /\ Hidden(d, r).open = d.open \ 1..created /\ Hidden(d, r).deleted
  <2> DEFINE kept == Quarantined(d, created)
             until == IF r.due > today THEN r.due ELSE 0
             tomb == [state |-> "waiting",
                      due |-> IF d.tomb.state = "none" THEN r.due ELSE Smaller(d.tomb.due, r.due)]
  <2>1. kept \in Rows /\ kept.open = d.open \ 1..created /\ kept.tomb = d.tomb
    BY Quarantining
  <2>2. until \in Nat
    BY <1>1
  <2>3. tomb \in Tombs
    BY <1>1 DEF Rows, Tombs, Smaller
  <2>4. Hidden(d, r) = [kept EXCEPT !.deleted = TRUE, !.until = until, !.tomb = tomb]
    BY <2>1 DEF Hidden
  <2> HIDE DEF kept, until, tomb
  <2> QED
    BY <2>1, <2>2, <2>3, <2>4 DEF Rows
<1> QED
  BY <1>2, <1>3

-----------------------------------------------------------------------------
(* The inductive invariant, one action at a time                             *)

LEMMA InitInv == DeletionInit => Inv
<1> SUFFICES ASSUME DeletionInit PROVE Inv
  OBVIOUS
<1>1. db \in Rows /\ db.open = {}
  <2>1. PICK expires \in {1, Never} :
          db = [deleted |-> FALSE, until |-> 0, data |-> "kept", expires |-> expires,
                tomb |-> NoTomb, open |-> {}, export |-> NoExport]
    BY DEF DeletionInit
  <2>2. expires \in Nat /\ NoTomb \in Tombs /\ NoExport \in Exports
    BY Numbers DEF NoTomb, Tombs, NoExport, Exports
  <2> QED
    BY <2>1, <2>2 DEF Rows
<1>2. NoRequest \in Owners /\ [requests |-> 0, faults |-> 0] \in Tallies /\ {Media} \in Stored
  BY DEF NoRequest, Owners, Tallies, Stored
<1>3. proc \in [Procs -> Memories] /\ \A p \in Procs : proc[p].record.made = 0
  BY Starts DEF DeletionInit, Places
<1>4. ledger \in Records /\ ledger.made = 0
  BY Starts DEF DeletionInit, NoRecord
<1>5. TypeOK
  BY <1>1, <1>2, <1>3, <1>4 DEF DeletionInit, TypeOK
<1>6. created = 0 /\ barred = 0
  BY DEF DeletionInit
<1>7. BarredIsShut /\ RecordsAreOld
  BY <1>1, <1>3, <1>4, <1>6 DEF BarredIsShut, RecordsAreOld
<1> QED
  BY <1>5, <1>7 DEF Inv

\* A step that makes and bars nothing keeps the invariant if it opens nothing.
LEMMA Keeps ==
  ASSUME Inv, UNCHANGED <<created, barred>>, today' \in Nat, counts' \in Tallies,
         entries' \in BOOLEAN, stale' \in BOOLEAN, antedated' \in BOOLEAN, objects' \in Stored, owner' \in Owners,
         backups' \subseteq [db: Rows, objects: Stored],
         db' \in Rows, db'.open \subseteq db.open,
         ledger' \in Records, ledger'.made <= created, proc' \in [Procs -> Memories],
         \A p \in Procs : proc'[p].record.made <= ledger'.made
  PROVE  Inv'
<1>1. TypeOK'
  <2>1. created' \in Nat /\ barred' \in Nat
    BY DEF Inv, TypeOK
  <2> QED
    BY <2>1 DEF TypeOK
<1>2. BarredIsShut'
  <2>1. barred <= created /\ db.open \cap 1..barred = {} /\ db.open \subseteq 1..created
    BY DEF Inv, BarredIsShut
  <2>2. barred' = barred /\ created' = created
    OBVIOUS
  <2> QED
    BY <2>1, <2>2 DEF BarredIsShut
<1>3. RecordsAreOld'
  BY DEF Inv, RecordsAreOld
<1> QED
  BY <1>1, <1>2, <1>3 DEF Inv

LEMMA Types ==
  ASSUME Inv
  PROVE  /\ today \in Nat /\ created \in Nat /\ counts \in Tallies /\ entries \in BOOLEAN
         /\ stale \in BOOLEAN /\ antedated \in BOOLEAN /\ objects \in Stored /\ owner \in Owners
         /\ backups \subseteq [db: Rows, objects: Stored]
         /\ db \in Rows /\ ledger \in Records /\ proc \in [Procs -> Memories]
         /\ ledger.made \in Nat /\ ledger.made <= created
         /\ \A p \in Procs : proc[p].record \in Records /\ proc[p].record.made <= ledger.made
  BY DEF Inv, TypeOK, RecordsAreOld, Records, Memories

LEMMA GoesKeeps ==
  ASSUME Inv, NEW p \in Procs, NEW at \in Places, Goes(p, at)
  PROVE  proc' \in [Procs -> Memories] /\ \A q \in Procs : proc'[q].record.made <= ledger.made
<1>1. /\ proc' \in [Procs -> Memories]
      /\ \A q \in Procs \ {p} : proc'[q] = proc[q]
      /\ proc'[p].record.made \in {0, proc[p].record.made}
  BY Types, GoesRow
<1>2. 0 <= ledger.made
  BY Types
<1> QED
  BY <1>1, <1>2, Types

LEMMA RowKeeps ==
  ASSUME Inv, NEW p \in Procs, NEW new \in Memories, new.record.made <= ledger.made,
         proc' = [proc EXCEPT ![p] = new]
  PROVE  proc' \in [Procs -> Memories] /\ \A q \in Procs : proc'[q].record.made <= ledger.made
  BY Types

LEMMA Faults == ASSUME Inv, Fault PROVE counts' \in Tallies
  BY Types DEF Fault, Tallies

LEMMA Idle == NoRequest \in Owners
  BY DEF NoRequest, Owners

\* Only a process moves.
LEMMA ProcessOnly ==
  ASSUME Inv, NEW p \in Procs, NEW at \in Places, Goes(p, at), objects' \in Stored,
         entries' \in BOOLEAN, stale' \in BOOLEAN, antedated' \in BOOLEAN, owner' \in Owners, counts' \in Tallies,
         UNCHANGED <<today, db, ledger, backups, created, barred>>
  PROVE  Inv'
  BY Types, GoesKeeps, Keeps

\* A process moves and the rows change, but nothing is opened.
LEMMA RowsOnly ==
  ASSUME Inv, NEW p \in Procs, NEW at \in Places, Goes(p, at), objects' \in Stored,
         db' \in Rows, db'.open \subseteq db.open, stale' \in BOOLEAN, antedated' \in BOOLEAN,
         UNCHANGED <<today, ledger, entries, backups, owner, created, counts, barred>>
  PROVE  Inv'
  BY Types, GoesKeeps, Keeps

LEMMA MakesInv ==
  ASSUME Inv, IssueAccess \/ RequestArchive
  PROVE  Inv'
<1>1. created' = created + 1
  BY DEF IssueAccess, RequestArchive, Makes
<1>2. db' \in Rows /\ db'.open \subseteq db.open \cup {created + 1}
  <2>1. CASE IssueAccess
    BY <2>1, Types DEF IssueAccess, Rows
  <2>2. CASE RequestArchive
    <3>1. [state |-> "queued", by |-> Nobody, made |-> created + 1] \in Exports
      BY Types DEF Exports
    <3> QED
      BY <2>2, <3>1, Types DEF RequestArchive, Rows
  <2> QED
    BY <2>1, <2>2
<1>3. UNCHANGED <<today, ledger, entries, objects, backups, owner, proc, counts, barred, stale, antedated>>
  BY DEF IssueAccess, RequestArchive
<1>4. TypeOK'
  BY <1>1, <1>2, <1>3, Types DEF Inv, TypeOK
<1>5. BarredIsShut'
  <2>1. /\ barred <= created /\ db.open \cap 1..barred = {} /\ db.open \subseteq 1..created
        /\ created \in Nat /\ barred \in Nat
    BY DEF Inv, BarredIsShut, TypeOK
  <2> QED
    BY <1>1, <1>2, <1>3, <2>1 DEF BarredIsShut
<1>6. RecordsAreOld'
  BY <1>1, <1>3, Types DEF RecordsAreOld
<1> QED
  BY <1>4, <1>5, <1>6 DEF Inv

\* The commit of a deletion revokes all there is; its answer may be lost, and then only
\* the owner does not know.
LEMMA deleteWeddingInv ==
  ASSUME Inv, deleteWedding
  PROVE  Inv'
<1> DEFINE d == [db EXCEPT !.deleted = TRUE, !.until = owner.due,
                   !.tomb = [state |-> "waiting", due |-> owner.due]]
<1>1. d \in Rows /\ d.open = db.open
  <2>1. owner.due \in Nat /\ [state |-> "waiting", due |-> owner.due] \in Tombs
    BY Types DEF Owners, Tombs
  <2> QED
    BY <2>1, Types DEF Rows
<1>2. db' = Quarantined(d, created)
  BY DEF deleteWedding
<1> HIDE DEF d
<1>3. db' \in Rows /\ db'.open = db.open \ 1..created
  BY ZenonT(60), <1>1, <1>2, Types, Quarantining
<1>4. UNCHANGED <<today, ledger, entries, objects, backups, proc, created, stale, antedated>> /\ owner' = NoRequest
  BY DEF deleteWedding
<1>5. counts' \in Tallies /\ barred' \in {barred, created}
  BY Types, Faults DEF deleteWedding
<1>6. TypeOK'
  BY <1>3, <1>4, <1>5, Idle, Types DEF Inv, TypeOK
<1>7. BarredIsShut'
  <2>1. /\ barred <= created /\ db.open \subseteq 1..created /\ created \in Nat /\ barred \in Nat
    BY DEF Inv, BarredIsShut, TypeOK
  <2>2. db'.open = {}
    BY <1>3, <2>1
  <2> QED
    BY <1>4, <1>5, <2>1, <2>2 DEF BarredIsShut
<1>8. RecordsAreOld'
  BY <1>4 DEF Inv, RecordsAreOld
<1> QED
  BY <1>6, <1>7, <1>8 DEF Inv

LEMMA OwnerInv ==
  ASSUME Inv, AskDeletion \/ AskRecovery \/ recoverWedding \/ RequestFails
  PROVE  Inv'
<1>0. created <= created /\ \A p \in Procs : proc[p].record.made <= created
  <2>1. \A p \in Procs : proc[p].record.made \in Nat
    BY Types DEF Records
  <2> QED
    BY <2>1, Types
<1>1. CASE AskDeletion
  <2>1. today + Window \in Nat
    BY Types, Numbers
  <2>2. /\ ledger' \in Records /\ ledger'.made = created /\ owner' \in Owners
        /\ counts' \in Tallies
    BY <1>1, <2>1, Types DEF AskDeletion, Records, Owners, Tallies
  <2>3. UNCHANGED <<today, db, entries, objects, backups, proc, created, barred, stale, antedated>>
    BY <1>1 DEF AskDeletion
  <2> QED
    BY <1>0, <2>2, <2>3, Types, Keeps
<1>2. CASE AskRecovery
  <2>1. ledger' \in Records /\ ledger'.made = created /\ owner' \in Owners
    BY <1>2, Types DEF AskRecovery, Records, Owners
  <2>2. UNCHANGED <<today, db, entries, objects, backups, proc, created, counts, barred, stale, antedated>>
    BY <1>2 DEF AskRecovery
  <2> QED
    BY <1>0, <2>1, <2>2, Types, Keeps
<1>3. CASE recoverWedding
  <2>1. db' \in Rows /\ db'.open = db.open /\ owner' \in Owners
    BY <1>3, Types, Untombed, Idle DEF recoverWedding
  <2>2. UNCHANGED <<today, ledger, entries, objects, backups, proc, created, counts, barred, stale, antedated>>
    BY <1>3 DEF recoverWedding
  <2> QED
    BY <2>1, <2>2, Types, Keeps
<1>4. CASE RequestFails
  <2>1. owner' \in Owners /\ counts' \in Tallies
    BY <1>4, Faults, Idle DEF RequestFails
  <2>2. UNCHANGED <<today, db, ledger, entries, objects, backups, proc, created, barred, stale, antedated>>
    BY <1>4 DEF RequestFails
  <2> QED
    BY <2>1, <2>2, Types, Keeps
<1> QED
  BY <1>1, <1>2, <1>3, <1>4

\* A replay reads the ledger as it is and revokes only what the record it read covers.
LEMMA ReplaysInv ==
  ASSUME Inv, NEW p \in Procs, Replays(p)
  PROVE  Inv'
<1>0. 0 <= ledger.made /\ proc[p] \in Memories /\ proc[p].record \in Records
      /\ proc[p].record.made <= ledger.made /\ Replayed(p) \in Places
  BY Types DEF Replayed, Places
<1>1. CASE Boot(p)
  <2> DEFINE fresh == [Off EXCEPT !.at = "idle"]
             read  == [Off EXCEPT !.at = "read", !.now = today, !.record = ledger]
  <2>1. fresh \in Memories /\ fresh.record.made <= ledger.made
    BY <1>0, Starts DEF Places
  <2>2. read \in Memories /\ read.record = ledger
    BY Starts, Types DEF Memories, Places
  <2>3. /\ proc' = [proc EXCEPT ![p] = IF ledger.state = "none" THEN fresh ELSE read]
        /\ UNCHANGED <<today, db, ledger, entries, objects, backups, owner, created, counts, barred, stale, antedated>>
    BY <1>1 DEF Boot
  <2> HIDE DEF fresh, read
  <2>4. proc' \in [Procs -> Memories] /\ \A q \in Procs : proc'[q].record.made <= ledger.made
    BY <2>1, <2>2, <2>3, Types, RowKeeps
  <2> QED
    BY <2>3, <2>4, Types, Keeps
<1>2. CASE ReadRecord(p)
  <2>1. UNCHANGED <<today, db, ledger, entries, objects, backups, owner, created, counts, barred, stale, antedated>>
    BY <1>2 DEF ReadRecord
  <2>2. CASE Goes(p, Replayed(p))
    BY <1>0, <2>1, <2>2, Types, ProcessOnly
  <2>3. CASE proc' = [proc EXCEPT ![p].at = "read", ![p].record = ledger]
    <3> DEFINE new == [proc[p] EXCEPT !.at = "read", !.record = ledger]
    <3>1. new \in Memories /\ new.record = ledger
      BY <1>0, Types DEF Memories, Places
    <3>2. proc' = [proc EXCEPT ![p] = new]
      BY <2>3, Types
    <3> HIDE DEF new
    <3> QED
      BY <2>1, <3>1, <3>2, Types, RowKeeps, Keeps
  <2> QED
    BY <1>2, <2>2, <2>3 DEF ReadRecord
<1>3. CASE ApplyRecord(p)
  <2>1. db' \in Rows /\ db'.open \subseteq db.open
    <3> DEFINE r == proc[p].record
    <3>1. /\ Readmitted(db, r) \in Rows /\ Readmitted(db, r).open = db.open \ 1..r.made
          /\ Hidden(db, r) \in Rows /\ Hidden(db, r).open = db.open \ 1..created
      BY <1>0, Types, Replaying
    <3>2. db' \in {Readmitted(db, r), Hidden(db, r)}
      BY <1>3 DEF ApplyRecord
    <3> QED
      BY <3>1, <3>2
  <2>2. /\ UNCHANGED <<today, ledger, entries, objects, backups, owner, created, counts, barred>>
        /\ stale' \in BOOLEAN /\ antedated' \in BOOLEAN /\ Goes(p, Replayed(p))
    BY <1>3, Types DEF ApplyRecord
  <2> QED
    BY <1>0, <2>1, <2>2, Types, RowsOnly
<1>4. CASE FindLeftovers(p)
  <2> DEFINE new == [proc[p] EXCEPT !.at = "purging", !.keys = objects]
  <2>1. new \in Memories /\ new.record = proc[p].record
    BY <1>0, Types DEF Memories, Places
  <2>2. /\ proc' = [proc EXCEPT ![p] = new]
        /\ UNCHANGED <<today, db, ledger, entries, objects, backups, owner, created, counts, barred, stale, antedated>>
    BY <1>4, Types DEF FindLeftovers
  <2> HIDE DEF new
  <2> QED
    BY <1>0, <2>1, <2>2, Types, RowKeeps, Keeps
<1>5. CASE DeleteObject(p)
  <2>1. PICK k \in proc[p].keys : /\ objects' = objects \ {k}
                                  /\ proc' = [proc EXCEPT ![p].keys = @ \ {k}]
    BY <1>5 DEF DeleteObject
  <2> DEFINE new == [proc[p] EXCEPT !.keys = @ \ {k}]
  <2>2. new \in Memories /\ new.record = proc[p].record
    BY <1>0 DEF Memories, Stored
  <2>3. /\ proc' = [proc EXCEPT ![p] = new] /\ objects' \in Stored
        /\ UNCHANGED <<today, db, ledger, entries, backups, owner, created, counts, barred, stale, antedated>>
    BY <1>5, <2>1, Types DEF DeleteObject, Stored
  <2> HIDE DEF new
  <2> QED
    BY <1>0, <2>2, <2>3, Types, RowKeeps, Keeps
<1>6. CASE EraseEntries(p)
  <2>1. PICK at \in Places : Goes(p, at)
    BY <1>0, <1>6 DEF EraseEntries, Places
  <2>2. /\ UNCHANGED <<today, db, ledger, objects, backups, owner, created, counts, barred, stale, antedated>>
        /\ entries' \in BOOLEAN
    BY <1>6 DEF EraseEntries
  <2> QED
    BY <2>1, <2>2, Types, ProcessOnly
<1> QED
  BY <1>1, <1>2, <1>3, <1>4, <1>5, <1>6 DEF Replays

LEMMA SweepsInv ==
  ASSUME Inv, NEW w \in Workers, Sweeps(w)
  PROVE  Inv'
<1>0. /\ w \in Procs /\ proc[w] \in Memories /\ proc[w].record.made <= ledger.made
      /\ 0 <= ledger.made /\ 0 <= created /\ created <= created
  BY Types, Members
<1>1. CASE StartSweep(w)
  <2> DEFINE new == [Off EXCEPT !.at = IF Overdue THEN "expiring" ELSE "listing",
                                !.now = today, !.boot = FALSE]
  <2>1. new \in Memories /\ new.record.made = 0
    <3>1. Off.record.made = 0
      BY DEF Off, NoRecord
    <3>2. new.record = Off.record
      BY Starts DEF Memories
    <3>3. (IF Overdue THEN "expiring" ELSE "listing") \in Places
      BY DEF Places
    <3>4. new \in Memories
      BY <3>3, Starts, Types DEF Memories
    <3> QED
      BY <3>1, <3>2, <3>4
  <2>2. /\ proc' = [proc EXCEPT ![w] = new]
        /\ UNCHANGED <<today, db, entries, objects, backups, owner, created, counts, barred, stale, antedated>>
    BY <1>1 DEF StartSweep
  <2> HIDE DEF new
  <2>3. proc' \in [Procs -> Memories] /\ \A q \in Procs : proc'[q].record.made <= ledger.made
    BY <1>0, <2>1, <2>2, RowKeeps
  <2>4. ledger' \in Records /\ ledger.made <= ledger'.made /\ ledger'.made <= created
    <3>1. db.expires + Window \in Nat
      BY Types, Numbers DEF Rows
    <3> QED
      BY <1>0, <1>1, <3>1, Types DEF StartSweep, Records
  <2>5. \A q \in Procs : proc'[q].record.made <= ledger'.made
    <3>1. \A q \in Procs : proc'[q].record.made \in Nat
      BY <2>3 DEF Memories, Records
    <3>2. ledger.made \in Nat /\ ledger'.made \in Nat
      BY <2>4, Types DEF Records
    <3> QED
      BY <2>3, <2>4, <3>1, <3>2
  <2> QED
    BY <2>2, <2>3, <2>4, <2>5, Types, Keeps
<1>2. CASE Expire(w)
  <2>1. db' \in Rows /\ db'.open = db.open
    <3>1. db.expires + Window \in Nat
      BY Types, Numbers DEF Rows
    <3>2. [state |-> "waiting", due |-> db.expires + Window] \in Tombs /\ db.tomb \in Tombs
      BY <3>1, Types DEF Tombs, Rows
    <3> QED
      BY <1>2, <3>2, Types DEF Expire, Rows
  <2>2. /\ Goes(w, "listing")
        /\ UNCHANGED <<today, ledger, entries, objects, backups, owner, created, counts, barred, stale, antedated>>
    BY <1>2 DEF Expire
  <2> QED
    BY <1>0, <2>1, <2>2, Types, RowsOnly DEF Places
<1>3. CASE BeginErasure(w)
  <2>1. db' \in Rows /\ db'.open = db.open
    <3>1. Cancelled(db.export, created) \in Exports
      BY Types, Cancelling
    <3> QED
      BY <1>3, <3>1, Types DEF BeginErasure, Rows
  <2>2. PICK at \in Places : Goes(w, at)
    BY <1>3 DEF BeginErasure, Places
  <2>3. UNCHANGED <<today, ledger, entries, objects, backups, owner, created, counts, barred, stale, antedated>>
    BY <1>3 DEF BeginErasure
  <2> QED
    BY <1>0, <2>1, <2>2, <2>3, Types, RowsOnly
<1>4. CASE ListObjects(w)
  <2> DEFINE new == [proc[w] EXCEPT !.at = "deleting", !.keys = objects]
  <2>1. new \in Memories /\ new.record = proc[w].record
    BY <1>0, Types DEF Memories, Places
  <2>2. /\ proc' = [proc EXCEPT ![w] = new]
        /\ UNCHANGED <<today, db, ledger, entries, objects, backups, owner, created, counts, barred, stale, antedated>>
    BY <1>0, <1>4, Types DEF ListObjects
  <2> HIDE DEF new
  <2> QED
    BY <1>0, <2>1, <2>2, Types, RowKeeps, Keeps
<1>5. CASE EraseRows(w)
  <2>1. db' \in Rows /\ db'.open = {}
    <3>1. NoExport \in Exports
      BY DEF NoExport, Exports
    <3>2. [db.tomb EXCEPT !.state = "erased"] \in Tombs
      BY Types DEF Rows, Tombs
    <3>3. db' = [db EXCEPT !.deleted = TRUE, !.until = 0, !.data = "erased", !.open = {},
                           !.export = NoExport, !.tomb = [db.tomb EXCEPT !.state = "erased"]]
      BY <1>5, Types DEF EraseRows, Rows
    <3> QED
      BY <3>1, <3>2, <3>3, Types DEF Rows
  <2>2. /\ Goes(w, "erased")
        /\ UNCHANGED <<today, ledger, entries, objects, backups, owner, created, counts, barred, stale, antedated>>
    BY <1>5 DEF EraseRows
  <2> QED
    BY <1>0, <2>1, <2>2, Types, RowsOnly DEF Places
<1>6. CASE Mark(w)
  <2>1. /\ ledger' = [state |-> "erased", due |-> proc[w].now, made |-> created]
        /\ Goes(w, "marked")
        /\ UNCHANGED <<today, db, entries, objects, backups, owner, created, counts, barred, stale, antedated>>
    BY <1>6 DEF Mark
  <2>2. ledger' \in Records /\ ledger'.made = created
    BY <1>0, <2>1, Types DEF Records, Memories
  <2>3. proc' \in [Procs -> Memories] /\ \A q \in Procs : proc'[q].record.made <= ledger.made
    BY <1>0, <2>1, GoesKeeps DEF Places
  <2>4. \A q \in Procs : proc'[q].record.made <= ledger'.made
    <3>1. \A q \in Procs : proc'[q].record.made \in Nat
      BY <2>3 DEF Memories, Records
    <3> QED
      BY <2>2, <2>3, <3>1, Types
  <2> QED
    BY <1>0, <2>1, <2>2, <2>3, <2>4, Types, Keeps
<1> QED
  BY <1>1, <1>2, <1>3, <1>4, <1>5, <1>6 DEF Sweeps

LEMMA ArchivesInv ==
  ASSUME Inv, NEW w \in Workers, Archives(w)
  PROVE  Inv'
<1>0. w \in Procs
  BY Members
<1>1. db.export \in Exports
  BY Types DEF Rows
<1>2. CASE LeaseArchive(w)
  <2>1. [db.export EXCEPT !.state = "leased", !.by = w] \in Exports
    BY <1>1 DEF Exports
  <2>2. db' = [db EXCEPT !.export = [db.export EXCEPT !.state = "leased", !.by = w]]
    BY <1>2, Types DEF LeaseArchive, Rows
  <2>3. db' \in Rows /\ db'.open = db.open
    BY <2>1, <2>2, Types DEF Rows
  <2>4. /\ Goes(w, "exporting")
        /\ UNCHANGED <<today, ledger, entries, objects, backups, owner, created, counts, barred, stale, antedated>>
    BY <1>2 DEF LeaseArchive
  <2> QED
    BY <1>0, <2>3, <2>4, Types, RowsOnly DEF Places
<1>3. CASE WriteArchive(w)
  <2>1. /\ objects' = objects \cup {w} /\ Goes(w, "written")
        /\ UNCHANGED <<today, db, ledger, entries, backups, owner, created, counts, barred, stale, antedated>>
    BY <1>3 DEF WriteArchive
  <2>2. objects' \in Stored
    BY <2>1, Types DEF Stored
  <2> QED
    BY <1>0, <2>1, <2>2, Types, ProcessOnly DEF Places
<1>4. CASE FinishArchive(w)
  <2>1. [db.export EXCEPT !.state = "completed"] \in Exports
    BY <1>1 DEF Exports
  <2>2. db' \in {db, [db EXCEPT !.export = [db.export EXCEPT !.state = "completed"]]}
    BY <1>4, Types DEF FinishArchive, Rows
  <2>3. db' \in Rows /\ db'.open = db.open
    BY <2>1, <2>2, Types DEF Rows
  <2>4. /\ Goes(w, "idle") /\ objects' \in Stored
        /\ UNCHANGED <<today, ledger, entries, backups, owner, created, counts, barred, stale, antedated>>
    BY <1>4, Types DEF FinishArchive, Stored
  <2> QED
    BY <1>0, <2>3, <2>4, Types, RowsOnly DEF Places
<1> QED
  BY <1>2, <1>3, <1>4 DEF Archives

LEMMA FaultsInv ==
  ASSUME Inv, \/ \E p \in Procs : Stop(p)
              \/ \E w \in Workers : StepFails(w)
              \/ LeaseEnds \/ Tick \/ TakeBackup
  PROVE  Inv'
<1>1. ASSUME NEW p \in Procs, Stop(p) PROVE Inv'
  <2>1. /\ Goes(p, "off") /\ counts' \in Tallies /\ owner' \in Owners
        /\ UNCHANGED <<today, db, ledger, entries, objects, backups, created, barred, stale, antedated>>
    BY <1>1, Types, Faults, Idle DEF Stop
  <2> QED
    BY <2>1, Types, ProcessOnly DEF Places
<1>2. ASSUME NEW w \in Workers, StepFails(w) PROVE Inv'
  <2>1. PICK at \in Places : Goes(w, at)
    BY <1>2 DEF StepFails, Places
  <2>2. /\ counts' \in Tallies
        /\ UNCHANGED <<today, db, ledger, entries, objects, backups, owner, created, barred, stale, antedated>>
    BY <1>2, Faults DEF StepFails
  <2> QED
    BY <2>1, <2>2, Types, Members, ProcessOnly
<1>3. CASE LeaseEnds
  <2>1. [db.export EXCEPT !.state = "queued", !.by = Nobody] \in Exports
    BY Types DEF Rows, Exports
  <2>2. db' = [db EXCEPT !.export = [db.export EXCEPT !.state = "queued", !.by = Nobody]]
    BY <1>3, Types DEF LeaseEnds, Rows
  <2>3. db' \in Rows /\ db'.open = db.open
    BY <2>1, <2>2, Types DEF Rows
  <2>4. UNCHANGED <<today, ledger, entries, objects, backups, owner, proc, created, counts, barred, stale, antedated>>
    BY <1>3 DEF LeaseEnds
  <2> QED
    BY <2>3, <2>4, Types, Keeps
<1>4. CASE Tick
  <2>1. /\ today' \in Nat
        /\ UNCHANGED <<db, ledger, entries, objects, backups, owner, proc, created, counts, barred, stale, antedated>>
    BY <1>4, Types DEF Tick
  <2> QED
    BY <2>1, Types, Keeps
<1>5. CASE TakeBackup
  <2>1. /\ backups' \subseteq [db: Rows, objects: Stored]
        /\ UNCHANGED <<today, db, ledger, entries, objects, owner, proc, created, counts, barred, stale, antedated>>
    BY <1>5, Types DEF TakeBackup
  <2> QED
    BY <2>1, Types, Keeps
<1> QED
  BY <1>1, <1>2, <1>3, <1>4, <1>5

\* A restore bars everything ever made: the rows it brings back open nothing.
LEMMA RestoreInv ==
  ASSUME Inv, Restore
  PROVE  Inv'
<1>0. PICK backup \in backups : Restores(backup)
  BY DEF Restore
<1>1. backup \in [db: Rows, objects: Stored]
  BY Types
<1>2. db' \in Rows /\ db'.open = {}
  <2> DEFINE e == backup.db.export
             f == IF e.state = "leased" THEN [e EXCEPT !.state = "queued", !.by = Nobody] ELSE e
  <2>1. backup.db \in Rows
    BY <1>1
  <2>2. f \in Exports
    BY <2>1 DEF Rows, Exports
  <2>3. db' = [backup.db EXCEPT !.open = {}, !.export = f]
    BY <1>0, <2>1 DEF Restores, Rows
  <2> HIDE DEF e, f
  <2> QED
    BY <2>1, <2>2, <2>3 DEF Rows
<1>3. /\ UNCHANGED <<today, ledger, entries, backups, created, stale, antedated>> /\ owner' = NoRequest
      /\ barred' = created /\ proc' = [p \in Procs |-> Off]
  BY <1>0 DEF Restores
<1>4. counts' \in Tallies /\ objects' \in Stored
  BY <1>0, <1>1, Faults DEF Restores
<1>5. Off.record.made = 0
  BY DEF Off, NoRecord
<1>6. TypeOK'
  BY <1>2, <1>3, <1>4, Idle, Starts, Types DEF TypeOK
<1>7. BarredIsShut'
  <2>1. created \in Nat
    BY Types
  <2> QED
    BY <1>2, <1>3, <2>1 DEF BarredIsShut
<1>8. RecordsAreOld'
  BY <1>3, <1>5, Types DEF RecordsAreOld
<1> QED
  BY <1>6, <1>7, <1>8 DEF Inv

LEMMA NextInv == Inv /\ [DeletionNext]_deletionVars => Inv'
<1> SUFFICES ASSUME Inv, [DeletionNext]_deletionVars PROVE Inv'
  OBVIOUS
<1>1. CASE UNCHANGED deletionVars
  BY <1>1 DEF deletionVars, Inv, TypeOK, BarredIsShut, RecordsAreOld
<1>2. CASE IssueAccess \/ RequestArchive
  BY <1>2, MakesInv
<1>3. CASE AskDeletion \/ AskRecovery \/ RequestFails
  BY <1>3, OwnerInv
<1>4. CASE Commits
  BY <1>4, OwnerInv, deleteWeddingInv DEF Commits
<1>5. ASSUME NEW p \in Procs, Replays(p) PROVE Inv'
  BY <1>5, ReplaysInv
<1>6. ASSUME NEW p \in Procs, Stop(p) PROVE Inv'
  BY <1>6, FaultsInv
<1>7. ASSUME NEW w \in Sweepers, Sweeps(w) PROVE Inv'
  BY <1>7, Members, SweepsInv
<1>8. ASSUME NEW w \in Exporters, Archives(w) PROVE Inv'
  BY <1>8, Members, ArchivesInv
<1>9. ASSUME NEW w \in Workers, StepFails(w) PROVE Inv'
  BY <1>9, FaultsInv
<1>10. CASE LeaseEnds \/ Tick \/ TakeBackup
  BY <1>10, FaultsInv
<1>11. CASE Restore
  BY <1>11, RestoreInv
<1> QED
  BY <1>1, <1>2, <1>3, <1>4, <1>5, <1>6, <1>7, <1>8, <1>9, <1>10, <1>11 DEF DeletionNext

-----------------------------------------------------------------------------
(* What is kept                                                              *)

\* What a process has read was there, and who completed an archive works on no other.
Settled ==
  /\ \A p \in Procs : proc[p].now <= today /\ (proc[p].at = "read" => proc[p].record.state # "none")
  /\ \A w \in Workers : db.export.state = "completed" /\ db.export.by = w =>
                          proc[w].at \notin {"exporting", "written"}

\* Everything that is kept about the wedding is there.
Complete(d, stored) ==
  /\ d.data = "kept" /\ Media \in stored
  /\ d.export.state = "completed" => d.export.by \in stored

\* Past its date a wedding is lost: nobody can recover it and every replay hides it.
Lost ==
  /\ db.deleted /\ db.until <= today /\ owner.at = "idle"
  /\ ledger.state \in {"requested", "erased"} /\ ledger.due <= today

\* Past the date on record it will be lost again, whatever backup was restored: nobody
\* serves before the replay.
Doomed ==
  /\ owner.at = "idle" /\ ledger.state \in {"requested", "erased"} /\ ledger.due <= today
  /\ Lost \/ ~Serving

\* A wedding is deleted exactly when it has a tombstone, an erased one when its rows are gone.
TombOK(d) ==
  /\ ~d.deleted => d.tomb = NoTomb
  /\ d.deleted => d.tomb.state # "none" /\ ledger.state # "none"
  /\ d.tomb.state = "erased" => d.data = "erased"

\* An erasure is on record with a date that has passed.
DatesOK == ledger.state = "erased" => ledger.due <= today

\* Between its write to the ledger and its commit a request has the row for itself.
OwnerOK ==
  /\ owner.at = "deleting" =>
       /\ ledger.state = "requested" /\ ledger.due = owner.due /\ ~db.deleted
       /\ \A w \in Workers : proc[w].at # "expiring"
  /\ owner.at = "recovering" => ledger.state = "recovered"

\* So has a worker that hides the wedding at the end of its service.
ExpiryOK(w) ==
  proc[w].at = "expiring" =>
    /\ ledger.state = "requested" /\ ledger.due = db.expires + Window /\ ledger.due <= today
    /\ ~db.deleted /\ owner.at = "idle"
    /\ \A v \in Workers \ {w} : proc[v].at # "expiring"

ErasingPlaces == {"erasing", "deleting", "erased", "marked", "purging"}

\* Who deletes, or is about to, deletes what is lost.
ErasureOK(p) ==
  /\ proc[p].at \in ErasingPlaces => Lost
  /\ proc[p].at = "replayed" /\ db.tomb.state = "waiting" /\ db.tomb.due <= proc[p].now => Lost

BackupOK ==
  \A b \in backups :
    /\ TombOK(b.db)
    /\ \/ Complete(b.db, b.objects)
       \/ Doomed /\ b.db.deleted /\ b.db.until <= today

ServedOK == Serving /\ ledger.state = "erased" => Lost

Kept ==
  /\ Lost \/ Complete(db, objects)
  /\ TombOK(db) /\ DatesOK /\ OwnerOK /\ ServedOK /\ BackupOK
  /\ \A p \in Procs : ErasureOK(p)
  /\ \A w \in Workers : ExpiryOK(w) /\ (proc[w].at = "written" => Lost \/ w \in objects)

\* With a replay that was overtaken, or kept too early a date, all this may be lost.
Misapplied == stale \/ antedated
KeptInv == Inv /\ Settled /\ (~Misapplied => Kept)

LEMMA Counting ==
  ASSUME Inv
  PROVE  /\ today \in Nat /\ created \in Nat /\ ledger.due \in Nat /\ owner.due \in Nat
         /\ db.until \in Nat /\ db.expires \in Nat /\ db.tomb.due \in Nat /\ db.tomb \in Tombs
         /\ \A p \in Procs : proc[p].now \in Nat /\ proc[p].at \in Places
         /\ \A b \in backups : b.db \in Rows /\ b.db.until \in Nat /\ b.db.tomb.due \in Nat
  BY Types DEF Records, Owners, Rows, Tombs, Memories

-----------------------------------------------------------------------------
(* What the actions do to rows and processes                                 *)

SameRow(d, e) ==
  /\ e.deleted = d.deleted /\ e.until = d.until /\ e.data = d.data
  /\ e.tomb = d.tomb /\ e.expires = d.expires

Only(p) == \A q \in Procs \ {p} : proc'[q] = proc[q]

LEMMA GoesTo ==
  ASSUME Inv, NEW p \in Procs, NEW at \in Places, Goes(p, at)
  PROVE  /\ Only(p) /\ proc'[p].at = at /\ proc'[p].now \in {0, proc[p].now}
         /\ at \notin {"off", "idle"} => proc'[p].now = proc[p].now
<1> DEFINE new == IF at \in {"off", "idle"} THEN [Off EXCEPT !.at = at]
                  ELSE [proc[p] EXCEPT !.at = at,
                          !.record = IF at = "replayed" THEN NoRecord ELSE @]
<1>1. proc' = [proc EXCEPT ![p] = new]
  BY DEF Goes
<1>2. proc[p] \in Memories /\ Off \in Memories /\ Off.now = 0
  BY Types, Starts DEF Off
<1>3. new.at = at /\ new.now \in {0, proc[p].now} /\ (at \notin {"off", "idle"} => new.now = proc[p].now)
  BY <1>2 DEF Memories
<1> HIDE DEF new
<1> QED
  BY <1>1, <1>3, Types DEF Only

LEMMA CancelledIs ==
  ASSUME NEW e \in Exports, NEW cutoff \in Nat
  PROVE  Cancelled(e, cutoff).state = "completed" => Cancelled(e, cutoff) = e
  BY DEF Cancelled, Exports

LEMMA QuarantinedIs ==
  ASSUME NEW d \in Rows, NEW cutoff \in Nat
  PROVE  /\ SameRow(d, Quarantined(d, cutoff)) /\ Quarantined(d, cutoff) \in Rows
         /\ Quarantined(d, cutoff).export.state = "completed" => Quarantined(d, cutoff).export = d.export
<1> DEFINE e == Cancelled(d.export, cutoff)
<1>1. e.state = "completed" => e = d.export
  BY CancelledIs DEF Rows
<1>2. Quarantined(d, cutoff) = [d EXCEPT !.open = @ \ 1..cutoff, !.export = e]
  BY DEF Quarantined, Rows
<1> HIDE DEF e
<1> QED
  BY <1>1, <1>2, Quarantining DEF Rows, SameRow

LEMMA WithoutTombIs ==
  ASSUME NEW d \in Rows
  PROVE  LET e == WithoutTomb(d)
         IN /\ ~e.deleted /\ e.until = 0 /\ e.data = d.data /\ e.export = d.export
            /\ e.tomb = IF d.tomb.state = "waiting" THEN NoTomb ELSE d.tomb
  BY DEF WithoutTomb, Rows

\* A recovery found in the ledger completes no archive either, whatever was erased.
LEMMA ReadmittedExport ==
  ASSUME NEW d \in Rows, NEW r \in Records
  PROVE  Readmitted(d, r).export.state = "completed" => Readmitted(d, r).export = d.export
<1> DEFINE kept == Quarantined(d, r.made)
           tomb == WithoutTomb(d).tomb
<1>1. kept \in Rows /\ (kept.export.state = "completed" => kept.export = d.export)
  BY QuarantinedIs DEF Records
<1>2. Readmitted(d, r) = IF d.data = "erased" THEN [kept EXCEPT !.tomb = tomb] ELSE WithoutTomb(kept)
  BY DEF Readmitted
<1> HIDE DEF kept, tomb
<1>3. [kept EXCEPT !.tomb = tomb].export = kept.export /\ WithoutTomb(kept).export = kept.export
  BY <1>1, WithoutTombIs DEF Rows
<1> QED
  BY <1>1, <1>2, <1>3

LEMMA HiddenIs ==
  ASSUME NEW d \in Rows, NEW r \in Records, today \in Nat, created \in Nat
  PROVE  LET e == Hidden(d, r)
         IN /\ e.deleted /\ e.data = d.data /\ e.tomb.state = "waiting"
            /\ e.until = IF r.due > today THEN r.due ELSE 0
            /\ e.tomb.due = IF d.tomb.state = "none" THEN r.due ELSE Smaller(d.tomb.due, r.due)
            /\ e.export.state = "completed" => e.export = d.export
<1> DEFINE kept == Quarantined(d, created)
           until == IF r.due > today THEN r.due ELSE 0
           tomb == [state |-> "waiting",
                    due |-> IF d.tomb.state = "none" THEN r.due ELSE Smaller(d.tomb.due, r.due)]
<1>1. kept \in Rows /\ SameRow(d, kept) /\ (kept.export.state = "completed" => kept.export = d.export)
  BY QuarantinedIs
<1>2. Hidden(d, r) = [kept EXCEPT !.deleted = TRUE, !.until = until, !.tomb = tomb]
  BY <1>1 DEF Hidden, SameRow
<1>3. tomb.state = "waiting" /\ tomb.due = IF d.tomb.state = "none" THEN r.due ELSE Smaller(d.tomb.due, r.due)
  OBVIOUS
<1> HIDE DEF kept, tomb
<1> QED
  BY <1>1, <1>2, <1>3 DEF Rows, SameRow

LEMMA ReadmittedIs ==
  ASSUME NEW d \in Rows, NEW r \in Records, d.data = "kept"
  PROVE  LET e == Readmitted(d, r)
         IN /\ ~e.deleted /\ e.until = 0 /\ e.data = "kept"
            /\ e.tomb = IF d.tomb.state = "waiting" THEN NoTomb ELSE d.tomb
            /\ e.export.state = "completed" => e.export = d.export
<1> DEFINE kept == Quarantined(d, r.made)
<1>1. kept \in Rows /\ SameRow(d, kept) /\ (kept.export.state = "completed" => kept.export = d.export)
  BY QuarantinedIs DEF Records
<1>2. Readmitted(d, r) = WithoutTomb(kept)
  BY DEF Readmitted
<1> HIDE DEF kept
<1> QED
  BY <1>1, <1>2, WithoutTombIs DEF SameRow

\* One process moves on, and what it reads was there.
Moved(p) ==
  /\ \A q \in Procs \ {p} : proc'[q] = proc[q]
  /\ proc'[p].now <= today /\ (proc'[p].at = "read" => proc'[p].record.state # "none")

LEMMA GoesMoves ==
  ASSUME Inv, Settled, NEW p \in Procs, NEW at \in Places, Goes(p, at), at # "read"
  PROVE  Moved(p) /\ proc'[p].at = at /\ (at \notin {"off", "idle"} => proc'[p].now = proc[p].now)
  BY GoesTo, Counting DEF Settled, Moved, Only

LEMMA BootMoves ==
  ASSUME Inv, Settled, NEW p \in Procs, Boot(p)
  PROVE  Moved(p) /\ proc'[p].at \in {"idle", "read"} /\ (proc'[p].at = "idle" => ledger.state = "none")
<1> DEFINE fresh == [Off EXCEPT !.at = "idle"]
           read  == [Off EXCEPT !.at = "read", !.now = today, !.record = ledger]
<1>1. fresh.at = "idle" /\ fresh.now = 0
  BY DEF Off
<1>2. read.at = "read" /\ read.now = today /\ read.record = ledger
  BY DEF Off
<1>3. proc' = [proc EXCEPT ![p] = IF ledger.state = "none" THEN fresh ELSE read]
  BY DEF Boot
<1> HIDE DEF fresh, read
<1> QED
  BY <1>1, <1>2, <1>3, Types DEF Moved

LEMMA ReadMoves ==
  ASSUME Inv, Settled, NEW p \in Procs, ReadRecord(p)
  PROVE  /\ Moved(p) /\ proc'[p].at \in {"idle", "replayed", "read"}
         /\ proc'[p].at # "read" => ledger.state = "none"
<1>1. CASE ledger.state = "none"
  <2>1. Goes(p, Replayed(p)) /\ Replayed(p) \in {"idle", "replayed"}
    BY <1>1 DEF ReadRecord, Replayed
  <2> QED
    BY <1>1, <2>1, GoesMoves DEF Places
<1>2. CASE ledger.state # "none"
  <2>1. proc' = [proc EXCEPT ![p] = [proc[p] EXCEPT !.at = "read", !.record = ledger]]
    BY <1>2, Types DEF ReadRecord
  <2>2. LET new == [proc[p] EXCEPT !.at = "read", !.record = ledger]
        IN new.at = "read" /\ new.now = proc[p].now /\ new.record = ledger
    BY Types DEF Memories
  <2> QED
    BY <1>2, <2>1, <2>2, Types DEF Moved, Settled
<1> QED
  BY <1>1, <1>2

LEMMA ApplyMoves ==
  ASSUME Inv, Settled, NEW p \in Procs, ApplyRecord(p)
  PROVE  Moved(p) /\ proc'[p].at \in {"idle", "replayed"}
<1>1. Goes(p, Replayed(p)) /\ Replayed(p) \in {"idle", "replayed"}
  BY DEF ApplyRecord, Replayed
<1> QED
  BY <1>1, GoesMoves DEF Places

LEMMA ErasureMoves ==
  ASSUME Inv, Settled, NEW p \in Procs
  PROVE  /\ FindLeftovers(p) => Moved(p) /\ proc'[p].at = "purging"
         /\ DeleteObject(p) => Moved(p) /\ proc[p].at \in {"purging", "deleting"} /\ proc'[p].at = proc[p].at
         /\ EraseEntries(p) => /\ Moved(p) /\ proc[p].at \in {"purging", "marked"}
                               /\ proc'[p].at \in {"idle", "replayed"}
         /\ ListObjects(p) => Moved(p) /\ proc[p].at = "erasing" /\ proc'[p].at = "deleting"
<1>0. proc[p] \in Memories
  BY Types
<1>1. ASSUME FindLeftovers(p) PROVE Moved(p) /\ proc'[p].at = "purging"
  <2>1. proc' = [proc EXCEPT ![p] = [proc[p] EXCEPT !.at = "purging", !.keys = objects]]
    BY <1>1, Types DEF FindLeftovers
  <2>2. LET new == [proc[p] EXCEPT !.at = "purging", !.keys = objects]
        IN new.at = "purging" /\ new.now = proc[p].now
    BY <1>0 DEF Memories
  <2> QED
    BY <2>1, <2>2, Types DEF Moved, Settled
<1>2. ASSUME DeleteObject(p)
      PROVE  Moved(p) /\ proc[p].at \in {"purging", "deleting"} /\ proc'[p].at = proc[p].at
  <2>1. PICK k \in proc[p].keys : proc' = [proc EXCEPT ![p].keys = @ \ {k}]
    BY <1>2 DEF DeleteObject
  <2>2. proc' = [proc EXCEPT ![p] = [proc[p] EXCEPT !.keys = @ \ {k}]] /\ proc[p].at \in {"purging", "deleting"}
    BY <1>2, <2>1, Types DEF DeleteObject
  <2>3. LET new == [proc[p] EXCEPT !.keys = @ \ {k}] IN new.at = proc[p].at /\ new.now = proc[p].now
    BY <1>0 DEF Memories
  <2> QED
    BY <2>2, <2>3, Types DEF Moved, Settled
<1>3. ASSUME EraseEntries(p)
      PROVE  Moved(p) /\ proc[p].at \in {"purging", "marked"} /\ proc'[p].at \in {"idle", "replayed"}
  <2>1. PICK at \in {"idle", "replayed"} : Goes(p, at)
    BY <1>3 DEF EraseEntries, Replayed
  <2>2. Moved(p) /\ proc'[p].at = at
    BY <2>1, GoesMoves DEF Places
  <2> QED
    BY <1>3, <2>1, <2>2 DEF EraseEntries
<1>4. ASSUME ListObjects(p) PROVE Moved(p) /\ proc[p].at = "erasing" /\ proc'[p].at = "deleting"
  <2>1. proc' = [proc EXCEPT ![p] = [proc[p] EXCEPT !.at = "deleting", !.keys = objects]] /\ proc[p].at = "erasing"
    BY <1>4, Types DEF ListObjects
  <2>2. LET new == [proc[p] EXCEPT !.at = "deleting", !.keys = objects]
        IN new.at = "deleting" /\ new.now = proc[p].now
    BY <1>0 DEF Memories
  <2> QED
    BY <2>1, <2>2, Types DEF Moved, Settled
<1> QED
  BY <1>1, <1>2, <1>3, <1>4

LEMMA StartMoves ==
  ASSUME Inv, Settled, NEW w \in Workers, StartSweep(w)
  PROVE  Moved(w) /\ proc'[w].at = IF Overdue THEN "expiring" ELSE "listing"
<1> DEFINE new == [Off EXCEPT !.at = IF Overdue THEN "expiring" ELSE "listing",
                              !.now = today, !.boot = FALSE]
<1>1. new.now = today /\ new.at = IF Overdue THEN "expiring" ELSE "listing"
  BY DEF Off
<1>2. proc' = [proc EXCEPT ![w] = new]
  BY DEF StartSweep
<1> HIDE DEF new
<1> QED
  BY <1>1, <1>2, Types, Members, Counting DEF Moved

LEMMA WorkerMoves ==
  ASSUME Inv, Settled, NEW w \in Workers
  PROVE  /\ Expire(w) => Moved(w) /\ proc'[w].at = "listing"
         /\ BeginErasure(w) => Moved(w) /\ proc'[w].at = IF Due(w) THEN "erasing" ELSE "idle"
         /\ EraseRows(w) => Moved(w) /\ proc'[w].at = "erased"
         /\ Mark(w) => Moved(w) /\ proc'[w].at = "marked"
         /\ LeaseArchive(w) => Moved(w) /\ proc'[w].at = "exporting"
         /\ WriteArchive(w) => Moved(w) /\ proc'[w].at = "written"
         /\ FinishArchive(w) => Moved(w) /\ proc'[w].at = "idle"
         /\ StepFails(w) => Moved(w) /\ proc'[w].at \in {"off", "idle"}
<1>0. w \in Procs
  BY Members
<1>1. ASSUME BeginErasure(w) PROVE Moved(w) /\ proc'[w].at = IF Due(w) THEN "erasing" ELSE "idle"
  <2>1. Goes(w, IF Due(w) THEN "erasing" ELSE "idle")
    BY <1>1 DEF BeginErasure
  <2> QED
    BY <1>0, <2>1, GoesMoves DEF Places
<1>2. ASSUME StepFails(w) PROVE Moved(w) /\ proc'[w].at \in {"off", "idle"}
  <2>1. PICK at \in {"off", "idle"} : Goes(w, at)
    BY <1>2 DEF StepFails
  <2> QED
    BY <1>0, <2>1, GoesMoves DEF Places
<1>3. \A at \in {"listing", "erased", "marked", "exporting", "written", "idle"} :
        Goes(w, at) => Moved(w) /\ proc'[w].at = at
  BY <1>0, GoesMoves DEF Places
<1> QED
  BY <1>1, <1>2, <1>3 DEF Expire, EraseRows, Mark, LeaseArchive, WriteArchive, FinishArchive

LEMMA StopMoves ==
  ASSUME Inv, Settled, NEW p \in Procs, Stop(p)
  PROVE  Moved(p) /\ proc'[p].at = "off"
  BY GoesMoves DEF Stop, Places

-----------------------------------------------------------------------------
(* Settled is inductive                                                      *)

\* No step completes an archive but FinishArchive, and these leave the rest of the row alone.
LEMMA ExportRows ==
  ASSUME Inv
  PROVE  /\ IssueAccess => SameRow(db, db') /\ db'.export = db.export
         /\ RequestArchive \/ LeaseEnds => SameRow(db, db') /\ db'.export.state = "queued"
         /\ \A w \in Workers :
              /\ BeginErasure(w) =>
                   SameRow(db, db') /\ (db'.export.state = "completed" => db'.export = db.export)
              /\ LeaseArchive(w) => /\ SameRow(db, db') /\ ~db.deleted
                                    /\ db.export.state = "queued" /\ db'.export.state = "leased"
              /\ FinishArchive(w) =>
                   /\ SameRow(db, db') /\ proc[w].at = "written"
                   /\ \/ /\ ~db.deleted /\ db'.export.state = "completed" /\ db'.export.by = w
                         /\ objects' = objects
                      \/ db' = db /\ objects' = objects \ {w}
<1>0. db \in Rows /\ db.export \in Exports
  BY Types DEF Rows
<1>1. ASSUME IssueAccess PROVE SameRow(db, db') /\ db'.export = db.export
  BY <1>0, <1>1 DEF IssueAccess, Rows, SameRow
<1>2. ASSUME RequestArchive PROVE SameRow(db, db') /\ db'.export.state = "queued"
  BY <1>0, <1>2 DEF RequestArchive, Rows, SameRow
<1>3. ASSUME LeaseEnds PROVE SameRow(db, db') /\ db'.export.state = "queued"
  <2>1. db' = [db EXCEPT !.export = [db.export EXCEPT !.state = "queued", !.by = Nobody]]
    BY <1>0, <1>3 DEF LeaseEnds, Rows
  <2> QED
    BY <1>0, <2>1 DEF Rows, Exports, SameRow
<1>4. ASSUME NEW w \in Workers, BeginErasure(w)
      PROVE  SameRow(db, db') /\ (db'.export.state = "completed" => db'.export = db.export)
  <2> DEFINE e == Cancelled(db.export, created)
  <2>1. e.state = "completed" => e = db.export
    BY <1>0, CancelledIs, Types
  <2>2. db' = db \/ db' = [db EXCEPT !.export = e]
    BY <1>0, <1>4 DEF BeginErasure, Rows
  <2> HIDE DEF e
  <2> QED
    BY ZenonT(60), <1>0, <2>1, <2>2 DEF Rows, SameRow
<1>5. ASSUME NEW w \in Workers, LeaseArchive(w)
      PROVE  /\ SameRow(db, db') /\ ~db.deleted
             /\ db.export.state = "queued" /\ db'.export.state = "leased"
  <2>1. db' = [db EXCEPT !.export = [db.export EXCEPT !.state = "leased", !.by = w]]
    BY <1>0, <1>5 DEF LeaseArchive, Rows
  <2> QED
    BY ZenonT(60), <1>0, <1>5, <2>1 DEF LeaseArchive, Rows, Exports, SameRow
<1>6. ASSUME NEW w \in Workers, FinishArchive(w)
      PROVE  /\ SameRow(db, db') /\ proc[w].at = "written"
             /\ \/ /\ ~db.deleted /\ db'.export.state = "completed" /\ db'.export.by = w
                   /\ objects' = objects
                \/ db' = db /\ objects' = objects \ {w}
  <2>1. CASE ~db.deleted /\ db.export.state = "leased" /\ db.export.by = w
    <3>1. db' = [db EXCEPT !.export = [db.export EXCEPT !.state = "completed"]] /\ objects' = objects
      BY <1>0, <1>6, <2>1 DEF FinishArchive, Rows
    <3> QED
      BY <1>0, <1>6, <2>1, <3>1 DEF FinishArchive, Rows, Exports, SameRow
  <2>2. CASE ~(~db.deleted /\ db.export.state = "leased" /\ db.export.by = w)
    BY <1>6, <2>2 DEF FinishArchive, SameRow
  <2> QED
    BY <2>1, <2>2
<1> QED
  BY <1>1, <1>2, <1>3, <1>4, <1>5, <1>6

\* What the owner, a replay, the end of the service and an erasure do to the row.
LEMMA DeletedRow ==
  ASSUME Inv, deleteWedding
  PROVE  /\ db'.deleted /\ db'.until = owner.due /\ db'.data = db.data /\ db'.expires = db.expires
         /\ db'.tomb.state = "waiting" /\ db'.tomb.due = owner.due
         /\ db'.export.state = "completed" => db'.export = db.export
<1> DEFINE d == [db EXCEPT !.deleted = TRUE, !.until = owner.due,
                   !.tomb = [state |-> "waiting", due |-> owner.due]]
<1>1. [state |-> "waiting", due |-> owner.due] \in Tombs
  BY Counting DEF Tombs
<1>2. /\ d \in Rows /\ d.deleted /\ d.until = owner.due /\ d.data = db.data /\ d.expires = db.expires
      /\ d.tomb.state = "waiting" /\ d.tomb.due = owner.due /\ d.export = db.export
  BY <1>1, Types, Counting DEF Rows
<1>3. db' = Quarantined(d, created) /\ created \in Nat
  BY Types DEF deleteWedding
<1> HIDE DEF d
<1>4. SameRow(d, db') /\ (db'.export.state = "completed" => db'.export = d.export)
  BY <1>2, <1>3, QuarantinedIs
<1> QED
  BY <1>2, <1>4 DEF SameRow

LEMMA AppliedRow ==
  ASSUME Inv, NEW p \in Procs, ApplyRecord(p)
  PROVE  LET r == proc[p].record
         IN /\ r \in Records /\ stale' = (stale \/ r # ledger)
            /\ antedated' = (antedated \/ Antedates(db.tomb, r))
            /\ db' = IF r.state = "recovered" THEN Readmitted(db, r) ELSE Hidden(db, r)
            /\ UNCHANGED <<today, ledger, backups, owner, objects>> /\ RowFree
  BY Types DEF ApplyRecord

LEMMA ExpiredRow ==
  ASSUME Inv, NEW w \in Workers, Expire(w), db.tomb = NoTomb
  PROVE  /\ db'.deleted /\ db'.until = 0 /\ db'.data = db.data /\ db'.export = db.export
         /\ db'.tomb.state = "waiting" /\ db'.tomb.due = db.expires + Window
  BY Types DEF Expire, Rows

LEMMA ErasedRow ==
  ASSUME Inv, NEW w \in Workers, EraseRows(w)
  PROVE  /\ db'.deleted /\ db'.until = 0 /\ db'.data = "erased" /\ db'.export.state = "none"
         /\ db'.tomb.state = "erased" /\ db'.tomb.due = db.tomb.due
<1>1. db' = [db EXCEPT !.deleted = TRUE, !.until = 0, !.data = "erased", !.open = {},
                       !.export = NoExport, !.tomb = [db.tomb EXCEPT !.state = "erased"]]
  BY Types DEF EraseRows, Rows
<1>2. db.tomb \in Tombs /\ NoExport.state = "none"
  BY Counting DEF NoExport
<1> QED
  BY <1>1, <1>2, Types DEF Rows, Tombs

LEMMA RestoredRow ==
  ASSUME Inv, NEW backup \in backups, Restores(backup)
  PROVE  /\ SameRow(backup.db, db') /\ objects' = backup.objects
         /\ db'.export.state = "completed" => db'.export = backup.db.export
         /\ owner' = NoRequest /\ proc' = [p \in Procs |-> Off] /\ Off.at = "off" /\ Off.now = 0
         /\ UNCHANGED <<today, ledger, backups, stale, antedated>>
<1> DEFINE e == backup.db.export
           f == IF e.state = "leased" THEN [e EXCEPT !.state = "queued", !.by = Nobody] ELSE e
<1>1. backup.db \in Rows
  BY Types
<1>2. f.state = "completed" => f = e
  BY <1>1 DEF Rows, Exports
<1>3. db' = [backup.db EXCEPT !.open = {}, !.export = f]
  BY <1>1 DEF Restores, Rows
<1>4. objects' = backup.objects /\ owner' = NoRequest /\ proc' = [p \in Procs |-> Off]
      /\ UNCHANGED <<today, ledger, backups, stale, antedated>>
  BY DEF Restores
<1>5. Off.at = "off" /\ Off.now = 0
  BY DEF Off
<1> HIDE DEF f
<1> QED
  BY <1>1, <1>2, <1>3, <1>4, <1>5 DEF Rows, SameRow

LEMMA SettledKeeps ==
  ASSUME Inv, Settled, NEW p \in Procs, Moved(p), today' = today,
         db'.export.state = "completed" => db'.export = db.export,
         proc'[p].at \in {"exporting", "written"} =>
           proc[p].at \in {"exporting", "written"} \/ db.export.state # "completed"
  PROVE  Settled'
  BY Members DEF Settled, Moved

LEMMA RowSettled ==
  ASSUME Inv, Settled, UNCHANGED <<today, proc>>,
         db'.export.state = "completed" => db'.export = db.export
  PROVE  Settled'
  BY DEF Settled

LEMMA SettledStep == Inv /\ Settled /\ [DeletionNext]_deletionVars => Settled'
<1> SUFFICES ASSUME Inv, Settled, [DeletionNext]_deletionVars PROVE Settled'
  OBVIOUS
<1>1. CASE UNCHANGED deletionVars
  BY <1>1 DEF deletionVars, Settled
<1>2. CASE IssueAccess \/ RequestArchive \/ LeaseEnds
  <2>1. UNCHANGED <<today, proc>>
    BY <1>2 DEF IssueAccess, RequestArchive, LeaseEnds
  <2>2. db'.export.state = "completed" => db'.export = db.export
    BY <1>2, ExportRows
  <2> QED
    BY <2>1, <2>2, RowSettled
<1>3. CASE AskDeletion \/ AskRecovery \/ RequestFails \/ TakeBackup
  BY <1>3, RowSettled DEF AskDeletion, AskRecovery, RequestFails, TakeBackup
<1>4. CASE deleteWedding \/ recoverWedding
  <2>1. UNCHANGED <<today, proc>>
    BY <1>4 DEF deleteWedding, recoverWedding
  <2>2. db'.export.state = "completed" => db'.export = db.export
    BY <1>4, DeletedRow, WithoutTombIs, Types DEF recoverWedding
  <2> QED
    BY <2>1, <2>2, RowSettled
<1>5. ASSUME NEW p \in Procs, Boot(p) \/ ReadRecord(p) \/ FindLeftovers(p) \/ DeleteObject(p) \/ EraseEntries(p)
      PROVE  Settled'
  <2>1. UNCHANGED <<today, db>>
    BY <1>5 DEF Boot, ReadRecord, FindLeftovers, DeleteObject, EraseEntries
  <2>2. Moved(p) /\ proc'[p].at \notin {"exporting", "written"}
    BY <1>5, BootMoves, ReadMoves, ErasureMoves
  <2> QED
    BY <2>1, <2>2, SettledKeeps
<1>6. ASSUME NEW p \in Procs, ApplyRecord(p) PROVE Settled'
  <2> DEFINE r == proc[p].record
  <2>1. r \in Records /\ db' \in {Readmitted(db, r), Hidden(db, r)} /\ today' = today
    BY <1>6, AppliedRow
  <2>2. Moved(p) /\ proc'[p].at \notin {"exporting", "written"}
    BY <1>6, ApplyMoves
  <2>3. db'.export.state = "completed" => db'.export = db.export
    <3> HIDE DEF r
    <3>1. Hidden(db, r).export.state = "completed" => Hidden(db, r).export = db.export
      BY <2>1, HiddenIs, Types
    <3>2. Readmitted(db, r).export.state = "completed" => Readmitted(db, r).export = db.export
      BY <2>1, ReadmittedExport, Types
    <3> QED
      BY <2>1, <3>1, <3>2
  <2> QED
    BY <2>1, <2>2, <2>3, SettledKeeps
<1>7. ASSUME NEW w \in Workers, StartSweep(w) \/ ListObjects(w) \/ Mark(w) \/ StepFails(w) PROVE Settled'
  <2>1. UNCHANGED <<today, db>>
    BY <1>7 DEF StartSweep, ListObjects, Mark, StepFails
  <2>2. Moved(w) /\ proc'[w].at \notin {"exporting", "written"}
    BY <1>7, StartMoves, WorkerMoves, ErasureMoves, Members
  <2> QED
    BY <2>1, <2>2, SettledKeeps, Members
<1>8. ASSUME NEW w \in Workers, Expire(w) \/ EraseRows(w) \/ BeginErasure(w) PROVE Settled'
  <2>1. today' = today
    BY <1>8 DEF Expire, EraseRows, BeginErasure
  <2>2. Moved(w) /\ proc'[w].at \notin {"exporting", "written"}
    BY <1>8, WorkerMoves
  <2>3. db'.export.state = "completed" => db'.export = db.export
    <3>1. CASE Expire(w)
      BY <3>1, Types DEF Expire, Rows
    <3>2. CASE EraseRows(w) \/ BeginErasure(w)
      BY <3>2, ErasedRow, ExportRows
    <3> QED
      BY <1>8, <3>1, <3>2
  <2> QED
    BY <2>1, <2>2, <2>3, SettledKeeps, Members
<1>9. ASSUME NEW w \in Workers, LeaseArchive(w) \/ WriteArchive(w) PROVE Settled'
  <2>1. today' = today
    BY <1>9 DEF LeaseArchive, WriteArchive
  <2>2. Moved(w) /\ (WriteArchive(w) => db' = db /\ proc[w].at = "exporting")
    BY <1>9, WorkerMoves DEF WriteArchive
  <2>3. LeaseArchive(w) => db.export.state = "queued" /\ db'.export.state = "leased"
    BY ExportRows
  <2> QED
    BY <1>9, <2>1, <2>2, <2>3, SettledKeeps, Members
<1>10. ASSUME NEW w \in Workers, FinishArchive(w) PROVE Settled'
  <2>1. today' = today /\ Moved(w) /\ proc'[w].at = "idle"
    BY <1>10, WorkerMoves DEF FinishArchive
  <2>2. db'.export.state = "completed" => db'.export = db.export \/ db'.export.by = w
    BY <1>10, ExportRows
  <2> QED
    BY <2>1, <2>2, Members DEF Settled, Moved
<1>11. ASSUME NEW p \in Procs, Stop(p) PROVE Settled'
  <2>1. UNCHANGED <<today, db>>
    BY <1>11 DEF Stop
  <2> QED
    BY <1>11, <2>1, StopMoves, SettledKeeps
<1>12. CASE Tick
  BY <1>12, Counting DEF Tick, Settled
<1>13. CASE Restore
  <2>1. PICK backup \in backups : Restores(backup)
    BY <1>13 DEF Restore
  <2> QED
    BY <2>1, RestoredRow, Counting, Members DEF Settled
<1> QED
  BY <1>1, <1>2, <1>3, <1>4, <1>5, <1>6, <1>7, <1>8, <1>9, <1>10, <1>11, <1>12, <1>13, Members
     DEF DeletionNext, Commits, Sweeps, Replays, Archives

-----------------------------------------------------------------------------
(* Kept is inductive                                                         *)

\* A step that leaves clock, ledger, backup and the dates of the row alone, as seen from what
\* is kept: who may begin to delete, and what may be taken from the storage.
QuietMove(p) ==
  \/ proc'[p].at = proc[p].at /\ proc'[p].now = proc[p].now
  \/ proc'[p].at \in {"off", "read", "listing", "exporting"}
  \/ proc'[p].at = "idle" /\ (p # Api \/ ledger.state = "none" \/ proc[p].at \in ErasingPlaces)
  \/ proc'[p].at = "replayed" /\ (ledger.state = "none" \/ proc[p].at \in ErasingPlaces)
  \/ proc'[p].at = "purging" /\ db.data = "erased"
  \/ /\ proc'[p].at = "erasing" /\ proc[p].at = "replayed"
     /\ db.tomb.state = "waiting" /\ db.tomb.due <= proc[p].now
  \/ proc'[p].at = "deleting" /\ proc[p].at = "erasing"
  \/ proc'[p].at = "written" /\ p \in objects'

QuietStorage ==
  \/ objects \subseteq objects'
  \/ \E p \in Procs : proc[p].at \in {"purging", "deleting"}
  \/ \E w \in Workers : /\ objects' = objects \ {w} /\ db' = db
                        /\ proc[w].at = "written" /\ proc'[w].at = "idle"

QuietExport ==
  db'.export.state = "completed" =>
    \/ db'.export = db.export
    \/ ~db.deleted /\ objects' = objects /\ \E w \in Workers : db'.export.by = w /\ proc[w].at = "written"

Quiet ==
  /\ UNCHANGED <<today, ledger, backups, stale, antedated>> /\ SameRow(db, db')
  /\ owner' = owner \/ owner' = NoRequest
  /\ \E p \in Procs : QuietMove(p) /\ \A q \in Procs \ {p} : proc'[q] = proc[q]
  /\ QuietStorage /\ QuietExport

LEMMA QuietKeeps ==
  ASSUME Inv, Settled, Kept, Quiet
  PROVE  Kept'
<1>0. PICK p \in Procs : QuietMove(p) /\ \A q \in Procs \ {p} : proc'[q] = proc[q]
  BY DEF Quiet
<1>1. /\ UNCHANGED <<today, ledger, backups, stale, antedated>> /\ SameRow(db, db')
      /\ owner' = owner \/ owner' = NoRequest
  BY DEF Quiet
<1>2. Lost => Lost'
  BY <1>1 DEF Lost, SameRow, NoRequest
<1>3. ~Lost => Complete(db, objects) /\ \A q \in Procs : proc[q].at \notin ErasingPlaces
  BY DEF Kept, ErasureOK
<1>4. Lost' \/ Complete(db', objects')
  <2> SUFFICES ASSUME ~Lost PROVE Complete(db', objects')
    BY <1>2
  <2>1. db'.data = "kept" /\ Media \in objects
    BY <1>1, <1>3 DEF Complete, SameRow
  <2>2. \A w \in Workers : proc[w].at = "written" => w \in objects
    BY DEF Kept
  <2>3. CASE objects \subseteq objects'
    <3>1. db.export.state = "completed" => db.export.by \in objects
      BY <1>3 DEF Complete
    <3>2. db'.export.state = "completed" => db'.export.by \in objects'
      BY <2>2, <2>3, <3>1 DEF Quiet, QuietExport
    <3> QED
      BY <2>1, <2>3, <3>2 DEF Complete
  <2>4. ASSUME NEW w \in Workers, objects' = objects \ {w}, db' = db, proc[w].at = "written"
        PROVE  Complete(db', objects')
    <3>1. db.export.state = "completed" => db.export.by # w
      BY <2>4 DEF Settled
    <3>2. Media # w
      BY <2>4, KeyAssumption
    <3> QED
      BY <1>3, <2>4, <3>1, <3>2 DEF Complete
  <2> QED
    BY <1>3, <2>3, <2>4 DEF Quiet, QuietStorage, ErasingPlaces
<1>5. TombOK(db') /\ TombOK(db)'
  BY <1>1 DEF Kept, TombOK, SameRow
<1>6. DatesOK'
  BY <1>1 DEF Kept, DatesOK, SameRow
<1>7. \A w \in Workers : proc'[w].at = "expiring" => proc[w].at = "expiring"
  BY <1>0, Members DEF QuietMove
<1>8. OwnerOK'
  BY <1>1, <1>7 DEF Kept, OwnerOK, SameRow, NoRequest
<1>9. ASSUME NEW w \in Workers PROVE ExpiryOK(w)'
  BY <1>1, <1>7 DEF Kept, ExpiryOK, SameRow, NoRequest
<1>10. ASSUME NEW q \in Procs PROVE ErasureOK(q)'
  <2>1. ErasureOK(q) /\ TombOK(db)
    BY DEF Kept
  <2>2. CASE q # p
    BY <1>0, <1>1, <1>2, <2>1, <2>2 DEF ErasureOK, SameRow
  <2>3. CASE q = p
    <3>1. proc'[q].at \in ErasingPlaces => Lost
      BY <1>0, <1>3, <2>1, <2>3 DEF QuietMove, ErasureOK, ErasingPlaces, Complete
    <3>2. proc'[q].at = "replayed" /\ db.tomb.state = "waiting" /\ db.tomb.due <= proc'[q].now => Lost
      <4>1. ledger.state = "none" => db.tomb.state # "waiting"
        BY <2>1 DEF TombOK, NoTomb
      <4> QED
        BY <1>0, <2>1, <2>3, <4>1 DEF QuietMove, ErasureOK
    <3> QED
      BY <1>1, <1>2, <3>1, <3>2 DEF ErasureOK, SameRow
  <2> QED
    BY <2>2, <2>3
<1>11. ServedOK'
  <2>1. Serving' /\ ledger.state = "erased" => Lost
    BY <1>0, <1>3, Members DEF QuietMove, Kept, ServedOK, Serving
  <2> QED
    BY <1>1, <1>2, <2>1 DEF ServedOK
<1>12. BackupOK'
  <2>1. Serving' => Serving \/ Lost \/ ledger.state = "none"
    BY <1>0, <1>3, Members DEF QuietMove, Serving
  <2>2. Doomed => Doomed'
    BY <1>1, <1>2, <2>1 DEF Doomed, NoRequest
  <2> QED
    BY <1>1, <2>2 DEF Kept, BackupOK, TombOK
<1>13. ASSUME NEW w \in Workers, proc'[w].at = "written" PROVE Lost' \/ w \in objects'
  <2> SUFFICES ASSUME ~Lost PROVE w \in objects'
    BY <1>2
  <2>1. proc[w].at = "written" \/ w \in objects'
    BY <1>0, <1>13, Members DEF QuietMove
  <2>2. proc[w].at = "written" => w \in objects
    BY DEF Kept
  <2>3. CASE \E v \in Workers : objects' = objects \ {v} /\ proc'[v].at = "idle"
    BY <1>13, <2>1, <2>2, <2>3
  <2> QED
    BY <1>3, <2>1, <2>2, <2>3 DEF Quiet, QuietStorage, ErasingPlaces
<1> QED
  BY <1>4, <1>5, <1>6, <1>8, <1>9, <1>10, <1>11, <1>12, <1>13 DEF Kept

LEMMA RowStays == db' = db => SameRow(db, db') /\ QuietExport
  BY DEF SameRow, QuietExport

LEMMA NobodyMoves == UNCHANGED proc => \E p \in Procs : QuietMove(p) /\ \A q \in Procs \ {p} : proc'[q] = proc[q]
  BY Members DEF QuietMove

LEMMA RequestsAreQuiet ==
  ASSUME Inv, IssueAccess \/ RequestArchive \/ RequestFails \/ LeaseEnds
  PROVE  Quiet
<1>1. UNCHANGED <<today, ledger, backups, stale, antedated, proc, objects>> /\ (owner' = owner \/ owner' = NoRequest)
  BY DEF IssueAccess, RequestArchive, RequestFails, LeaseEnds
<1>2. SameRow(db, db') /\ QuietExport
  <2>1. CASE RequestFails
    BY <2>1, RowStays DEF RequestFails
  <2>2. CASE IssueAccess \/ RequestArchive \/ LeaseEnds
    BY <2>2, ExportRows DEF QuietExport
  <2> QED
    BY <2>1, <2>2
<1> QED
  BY <1>1, <1>2, NobodyMoves DEF Quiet, QuietStorage

LEMMA ReplaysAreQuiet ==
  ASSUME Inv, Settled, NEW p \in Procs,
         Boot(p) \/ ReadRecord(p) \/ FindLeftovers(p) \/ DeleteObject(p) \/ EraseEntries(p) \/ ListObjects(p)
  PROVE  Quiet
<1>1. UNCHANGED <<today, ledger, backups, stale, antedated, db, owner>>
  BY DEF Boot, ReadRecord, FindLeftovers, DeleteObject, EraseEntries, ListObjects
<1>2. QuietStorage
  <2>1. CASE DeleteObject(p)
    BY <2>1 DEF DeleteObject, QuietStorage
  <2>2. CASE ~DeleteObject(p)
    BY <2>2 DEF Boot, ReadRecord, FindLeftovers, EraseEntries, ListObjects, QuietStorage
  <2> QED
    BY <2>1, <2>2
<1>3. Moved(p) /\ QuietMove(p)
  <2>1. CASE Boot(p)
    BY <2>1, BootMoves DEF QuietMove
  <2>2. CASE ReadRecord(p)
    BY <2>2, ReadMoves DEF QuietMove
  <2>3. CASE FindLeftovers(p)
    BY <2>3, ErasureMoves DEF QuietMove, FindLeftovers, Erased
  <2>4. CASE DeleteObject(p)
    <3>1. PICK k \in proc[p].keys : proc' = [proc EXCEPT ![p].keys = @ \ {k}]
      BY <2>4 DEF DeleteObject
    <3>2. proc'[p].now = proc[p].now
      BY <3>1, Types DEF Memories
    <3> QED
      BY <2>4, <3>2, ErasureMoves DEF QuietMove
  <2>5. CASE EraseEntries(p)
    BY <2>5, ErasureMoves DEF QuietMove, ErasingPlaces
  <2>6. CASE ListObjects(p)
    BY <2>6, ErasureMoves DEF QuietMove
  <2> QED
    BY <2>1, <2>2, <2>3, <2>4, <2>5, <2>6
<1> QED
  BY <1>1, <1>2, <1>3, RowStays DEF Quiet, Moved

LEMMA StopIsQuiet ==
  ASSUME Inv, Settled, NEW p \in Procs, Stop(p)
  PROVE  Quiet
<1>1. /\ UNCHANGED <<today, ledger, backups, stale, antedated, db, objects>>
      /\ owner' = owner \/ owner' = NoRequest
  BY DEF Stop
<1>2. Moved(p) /\ QuietMove(p)
  BY StopMoves DEF QuietMove
<1> QED
  BY <1>1, <1>2, RowStays DEF Quiet, QuietStorage, Moved

LEMMA WorkersAreQuiet ==
  ASSUME Inv, Settled, NEW w \in Workers,
         BeginErasure(w) \/ LeaseArchive(w) \/ WriteArchive(w) \/ FinishArchive(w) \/ StepFails(w)
  PROVE  Quiet
<1>0. w \in Procs /\ w # Api
  BY Members, ProcessAssumption
<1>1. UNCHANGED <<today, ledger, backups, stale, antedated, owner>>
  BY DEF BeginErasure, LeaseArchive, WriteArchive, FinishArchive, StepFails
<1>2. Moved(w) /\ QuietMove(w)
  <2>1. CASE BeginErasure(w)
    BY <1>0, <2>1, WorkerMoves DEF QuietMove, BeginErasure, Due
  <2>2. CASE LeaseArchive(w) \/ FinishArchive(w) \/ StepFails(w)
    BY <1>0, <2>2, WorkerMoves DEF QuietMove
  <2>3. CASE WriteArchive(w)
    BY <2>3, WorkerMoves DEF QuietMove, WriteArchive
  <2> QED
    BY <2>1, <2>2, <2>3
<1>3. SameRow(db, db') /\ QuietExport /\ QuietStorage
  <2>1. CASE BeginErasure(w) \/ LeaseArchive(w)
    <3>1. objects' = objects
      BY <2>1 DEF BeginErasure, LeaseArchive
    <3> QED
      BY <2>1, <3>1, ExportRows DEF QuietExport, QuietStorage
  <2>2. CASE WriteArchive(w) \/ StepFails(w)
    BY <2>2, RowStays DEF WriteArchive, StepFails, QuietStorage
  <2>3. CASE FinishArchive(w)
    <3>1. proc'[w].at = "idle"
      BY <2>3, WorkerMoves
    <3> QED
      BY <2>3, <3>1, ExportRows DEF QuietExport, QuietStorage
  <2> QED
    BY <2>1, <2>2, <2>3
<1> QED
  BY <1>0, <1>1, <1>2, <1>3 DEF Quiet, Moved

\* The owner's requests, between which nobody else has the row.
LEMMA OwnerKeeps ==
  ASSUME Inv, Settled, Kept, AskDeletion \/ AskRecovery \/ deleteWedding \/ recoverWedding
  PROVE  Kept'
<1>0. /\ ~Lost /\ ~Doomed /\ Complete(db, objects) /\ db.tomb.state # "erased"
      /\ \A p \in Procs : proc[p].at \notin ErasingPlaces
      /\ \A p \in Procs : proc[p].at = "replayed" /\ db.tomb.state = "waiting" => db.tomb.due > proc[p].now
  <2>1. ~Lost
    BY Counting DEF AskDeletion, AskRecovery, deleteWedding, recoverWedding, Lost
  <2>2. ~Doomed
    BY <2>1 DEF AskDeletion, AskRecovery, deleteWedding, recoverWedding, Doomed
  <2> QED
    BY <2>1, <2>2, Counting DEF Kept, ErasureOK, TombOK, Complete
<1>1. UNCHANGED <<today, objects, backups, proc, stale, antedated>>
  BY DEF AskDeletion, AskRecovery, deleteWedding, recoverWedding
<1>2. BackupOK'
  <2>1. \A b \in backups : TombOK(b.db) /\ Complete(b.db, b.objects)
    BY <1>0 DEF Kept, BackupOK
  <2>2. ledger' = ledger \/ ledger'.state # "none"
    BY DEF AskDeletion, AskRecovery, deleteWedding, recoverWedding
  <2> QED
    BY <1>1, <2>1, <2>2 DEF BackupOK, TombOK
<1>3. \A w \in Workers : proc[w].at = "written" => w \in objects
  BY <1>0 DEF Kept
<1>4. CASE AskDeletion
  <2>1. /\ ~db.deleted /\ db' = db /\ owner' = [at |-> "deleting", due |-> today + Window]
        /\ ledger'.state = "requested" /\ ledger'.due = today + Window
        /\ \A w \in Workers : proc[w].at # "expiring"
    BY <1>4 DEF AskDeletion, RowFree
  <2>2. TombOK(db') /\ DatesOK'
    BY <2>1 DEF Kept, TombOK, DatesOK, NoTomb
  <2> QED
    BY <1>0, <1>1, <1>2, <1>3, <2>1, <2>2 DEF Kept, OwnerOK, ServedOK, ErasureOK, ExpiryOK, TombOK
<1>5. CASE AskRecovery
  <2>1. /\ db.deleted /\ db' = db /\ owner'.at = "recovering" /\ ledger'.state = "recovered"
        /\ \A w \in Workers : proc[w].at # "expiring"
    BY <1>5 DEF AskRecovery, RowFree
  <2>2. TombOK(db') /\ DatesOK'
    BY <2>1 DEF Kept, TombOK, DatesOK
  <2> QED
    BY <1>0, <1>1, <1>2, <1>3, <2>1, <2>2 DEF Kept, OwnerOK, ServedOK, ErasureOK, ExpiryOK, TombOK
<1>6. CASE deleteWedding
  <2>1. /\ ledger' = ledger /\ ledger.state = "requested" /\ ledger.due = owner.due /\ owner' = NoRequest
        /\ \A w \in Workers : proc[w].at # "expiring"
    BY <1>6 DEF deleteWedding, Kept, OwnerOK
  <2>2. /\ db'.deleted /\ db'.until = owner.due /\ db'.data = db.data
        /\ db'.tomb.state = "waiting" /\ db'.tomb.due = owner.due
        /\ db'.export.state = "completed" => db'.export = db.export
    BY <1>6, DeletedRow
  <2>3. TombOK(db') /\ DatesOK' /\ OwnerOK'
    BY <1>1, <2>1, <2>2, Counting DEF TombOK, DatesOK, OwnerOK, NoRequest
  <2>4. Complete(db', objects')
    BY <1>0, <1>1, <2>2 DEF Complete
  <2>5. \A p \in Procs : ErasureOK(p)'
    <3> SUFFICES ASSUME NEW p \in Procs, proc[p].at = "replayed", owner.due <= proc[p].now
                 PROVE  Lost'
      BY <1>0, <1>1, <2>2 DEF ErasureOK
    <3>1. proc[p].now <= today /\ owner.due <= today
      BY Counting DEF Settled
    <3> QED
      BY <1>1, <2>1, <2>2, <3>1 DEF Lost, NoRequest
  <2> QED
    BY <1>0, <1>1, <1>2, <1>3, <2>1, <2>3, <2>4, <2>5 DEF Kept, ServedOK, ExpiryOK, TombOK
<1>7. CASE recoverWedding
  <2>1. ledger' = ledger /\ ledger.state = "recovered" /\ owner' = NoRequest
    BY <1>7 DEF recoverWedding, Kept, OwnerOK
  <2>2. ~db'.deleted /\ db'.data = db.data /\ db'.export = db.export
    BY <1>7, WithoutTombIs, Types DEF recoverWedding
  <2>3. db'.tomb = NoTomb
    <3>1. db.deleted => db.tomb.state = "waiting"
      BY <1>0, Counting DEF Kept, TombOK, Tombs
    <3> QED
      BY <1>7, <3>1, WithoutTombIs, Types DEF recoverWedding, Kept, TombOK, NoTomb
  <2>4. TombOK(db') /\ DatesOK' /\ OwnerOK' /\ Complete(db', objects')
    BY <1>0, <1>1, <2>1, <2>2, <2>3 DEF TombOK, DatesOK, OwnerOK, NoRequest, NoTomb, Complete
  <2>5. \A w \in Workers : proc[w].at # "expiring"
    BY <2>1 DEF Kept, ExpiryOK
  <2>6. \A p \in Procs : ErasureOK(p)'
    BY <1>0, <1>1, <2>3 DEF ErasureOK, NoTomb
  <2> QED
    BY <1>1, <1>2, <1>3, <2>1, <2>4, <2>5, <2>6 DEF Kept, ServedOK, ExpiryOK, TombOK
<1> QED
  BY <1>4, <1>5, <1>6, <1>7

\* A replay that applies the record as it is in the ledger, and keeps no date before its own.
LEMMA ApplyKeeps ==
  ASSUME Inv, Settled, Kept, NEW p \in Procs, ApplyRecord(p), ~Misapplied'
  PROVE  Kept'
<1> DEFINE r == proc[p].record
<1>1. /\ r = ledger /\ ledger \in Records /\ proc[p].at = "read" /\ RowFree
      /\ db' = IF ledger.state = "recovered" THEN Readmitted(db, ledger) ELSE Hidden(db, ledger)
      /\ UNCHANGED <<today, ledger, backups, owner, objects>> /\ ~Antedates(db.tomb, ledger)
  BY AppliedRow DEF ApplyRecord, Misapplied
<1>2. ledger.state \in {"requested", "recovered", "erased"}
  BY <1>1 DEF Settled, Records
<1>3. /\ Moved(p) /\ proc'[p].at \in {"idle", "replayed"}
      /\ \A q \in Procs : proc'[q].at = "replayed" => proc'[q].now <= today
      /\ \A q \in Procs : proc'[q].at \in ErasingPlaces \cup {"written", "expiring"} => proc'[q].at = proc[q].at
  BY ApplyMoves DEF Settled, Moved, ErasingPlaces
<1>4. owner.at = "idle" /\ \A w \in Workers : proc'[w].at # "expiring"
  BY <1>1, <1>3, Members DEF RowFree
<1>5. OwnerOK' /\ \A w \in Workers : ExpiryOK(w)'
  BY <1>1, <1>4 DEF OwnerOK, ExpiryOK
<1>8. Inv'
  BY ReplaysInv DEF Replays
<1>6. CASE ledger.state = "recovered"
  <2>1. ~Lost /\ Complete(db, objects) /\ db.tomb.state # "erased"
    BY <1>6 DEF Kept, Lost, TombOK, Complete
  <2>2. /\ ~db'.deleted /\ db'.data = "kept" /\ db'.tomb = NoTomb
        /\ db'.export.state = "completed" => db'.export = db.export
    <3>1. db.tomb.state # "waiting" => db.tomb = NoTomb
      BY <2>1, Counting DEF Kept, TombOK, Tombs
    <3> QED
      BY <1>1, <1>6, <2>1, <3>1, ReadmittedIs, Types DEF Complete
  <2>3. TombOK(db') /\ DatesOK' /\ ServedOK' /\ Complete(db', objects')
    BY <1>1, <1>6, <2>1, <2>2 DEF TombOK, DatesOK, ServedOK, NoTomb, Complete
  <2>4. \A q \in Procs : ErasureOK(q)'
    BY <1>3, <2>1, <2>2 DEF Kept, ErasureOK, NoTomb
  <2>5. BackupOK'
    BY <1>1, <1>6, <2>1 DEF Kept, BackupOK, TombOK, Doomed
  <2>6. \A w \in Workers : proc'[w].at = "written" => w \in objects'
    BY <1>1, <1>3, <2>1, Members DEF Kept
  <2> QED
    BY <1>1, <1>5, <2>3, <2>4, <2>5, <2>6 DEF Kept, TombOK
<1>7. CASE ledger.state # "recovered"
  <2>1. /\ db'.deleted /\ db'.data = db.data /\ db'.tomb.state = "waiting"
        /\ db'.until = IF ledger.due > today THEN ledger.due ELSE 0
        /\ db'.tomb.due = IF db.tomb.state = "none" THEN ledger.due ELSE Smaller(db.tomb.due, ledger.due)
        /\ db'.export.state = "completed" => db'.export = db.export
    BY <1>1, <1>7, HiddenIs, Types
  <2>2. ledger.due <= today => Lost'
    BY <1>1, <1>2, <1>4, <1>7, <2>1, Counting DEF Lost
  <2>3. Lost => Lost'
    BY <2>2 DEF Lost
  <2>4. ledger.due <= db'.tomb.due \/ ledger.due <= today
    BY <1>1, <1>2, <1>7, <2>1, Counting DEF Antedates, Smaller
  <2>5. TombOK(db') /\ DatesOK' /\ ServedOK'
    BY <1>1, <1>2, <2>1, <2>2, <2>4 DEF Kept, TombOK, DatesOK, ServedOK
  <2>6. Lost' \/ Complete(db', objects')
    BY <1>1, <2>1, <2>3 DEF Kept, Complete
  <2>7. \A q \in Procs : ErasureOK(q)'
    <3>1. ASSUME NEW q \in Procs, proc'[q].at = "replayed", db'.tomb.due <= proc'[q].now PROVE Lost'
      <4>1. proc'[q].now <= today /\ proc'[q].now \in Nat
        BY <1>3, <1>8, <3>1 DEF Inv, TypeOK, Memories
      <4>2. db'.tomb.due \in Nat
        BY <2>1, Counting DEF Smaller
      <4> QED
        BY <2>2, <2>4, <3>1, <4>1, <4>2, Counting
    <3> QED
      BY <1>3, <2>3, <3>1 DEF Kept, ErasureOK
  <2>8. BackupOK'
    <3>1. Doomed => Doomed'
      BY <2>2 DEF Doomed, Lost
    <3> QED
      BY <1>1, <3>1 DEF Kept, BackupOK, TombOK
  <2>9. \A w \in Workers : proc'[w].at = "written" => Lost' \/ w \in objects'
    BY <1>1, <1>3, <2>3, Members DEF Kept
  <2> QED
    BY <1>1, <1>5, <2>5, <2>6, <2>7, <2>8, <2>9 DEF Kept, TombOK
<1> QED
  BY <1>6, <1>7

\* What is lost stays lost: nothing else is asked of a state that begins so and ends so.
LEMMA LostKeeps ==
  ASSUME Inv, Settled, Kept, Lost', UNCHANGED <<today, backups>>, TombOK(db)',
         \A w \in Workers : proc'[w].at # "expiring"
  PROVE  Kept'
<1>1. DatesOK' /\ OwnerOK' /\ ServedOK'
  BY DEF Lost, DatesOK, OwnerOK, ServedOK
<1>2. BackupOK'
  BY DEF Kept, BackupOK, TombOK, Doomed, Lost
<1>3. (\A p \in Procs : ErasureOK(p)') /\ \A w \in Workers : ExpiryOK(w)'
  BY DEF ErasureOK, ExpiryOK
<1> QED
  BY <1>1, <1>2, <1>3 DEF Kept

LEMMA StartKeeps ==
  ASSUME Inv, Settled, Kept, NEW w \in Workers, StartSweep(w)
  PROVE  Kept'
<1>1. /\ UNCHANGED <<today, db, objects, backups, owner>> /\ owner.at = "idle"
      /\ \A v \in Workers : proc[v].at # "expiring"
  BY DEF StartSweep, RowFree
<1>2. Moved(w) /\ proc'[w].at = IF Overdue THEN "expiring" ELSE "listing"
  BY StartMoves
<1>3. /\ \A q \in Procs : proc'[q].at \in ErasingPlaces \cup {"replayed", "written", "idle"} => q # w
      /\ \A q \in Procs \ {w} : proc'[q] = proc[q]
  BY <1>2 DEF Moved, ErasingPlaces
<1>4. Lost => Lost' /\ ~Overdue
  BY <1>1 DEF StartSweep, Lost, Overdue
<1>5. /\ ~Overdue => ledger' = ledger
      /\ Overdue => /\ ~db.deleted /\ ledger'.state = "requested"
                    /\ ledger'.due = db.expires + Window /\ ledger'.due <= today
  BY DEF StartSweep, Overdue
<1>6. TombOK(db)' /\ DatesOK' /\ OwnerOK'
  BY <1>1, <1>5 DEF Kept, TombOK, DatesOK, OwnerOK, NoTomb
<1>7. ServedOK'
  <2>1. Serving' => Serving
    BY <1>3, Members, ProcessAssumption DEF Serving
  <2> QED
    BY <1>4, <1>5, <2>1 DEF Kept, ServedOK
<1>8. BackupOK'
  <2>1. Serving' => Serving
    BY <1>3, Members, ProcessAssumption DEF Serving
  <2>2. Doomed => Doomed'
    BY <1>1, <1>4, <1>5, <2>1 DEF Doomed
  <2> QED
    BY <1>1, <1>5, <2>2 DEF Kept, BackupOK, TombOK
<1>9. \A q \in Procs : ErasureOK(q)'
  BY <1>1, <1>3, <1>4 DEF Kept, ErasureOK
<1>10. \A v \in Workers : ExpiryOK(v)'
  <2>1. \A v \in Workers : proc'[v].at = "expiring" => v = w /\ Overdue
    BY <1>1, <1>2, <1>3, Members
  <2> QED
    BY <1>1, <1>5, <2>1 DEF ExpiryOK
<1>11. \A v \in Workers : proc'[v].at = "written" => Lost' \/ v \in objects'
  BY <1>1, <1>3, <1>4, Members DEF Kept
<1> QED
  BY <1>1, <1>4, <1>6, <1>7, <1>8, <1>9, <1>10, <1>11 DEF Kept

LEMMA SweepKeeps ==
  ASSUME Inv, Settled, Kept, NEW w \in Workers, Expire(w) \/ EraseRows(w) \/ Mark(w)
  PROVE  Kept'
<1>1. UNCHANGED <<today, backups, owner>>
  BY DEF Expire, EraseRows, Mark
<1>2. Moved(w) /\ proc'[w].at \in {"listing", "erased", "marked"}
  BY WorkerMoves
<1>3. CASE Expire(w)
  <2>1. /\ ledger.state = "requested" /\ ledger.due = db.expires + Window /\ ledger.due <= today
        /\ ~db.deleted /\ owner.at = "idle" /\ ledger' = ledger /\ db.tomb = NoTomb /\ ~Lost
        /\ \A v \in Workers \ {w} : proc[v].at # "expiring"
    BY <1>3 DEF Expire, Kept, ExpiryOK, TombOK, Lost
  <2>2. db'.deleted /\ db'.until = 0 /\ db'.tomb.state = "waiting"
    BY <1>3, <2>1, ExpiredRow
  <2>3. Lost' /\ TombOK(db)'
    BY <1>1, <2>1, <2>2, Counting DEF Lost, TombOK
  <2>4. \A v \in Workers : proc'[v].at # "expiring"
    BY <1>2, <2>1, Members DEF Moved
  <2> QED
    BY <1>1, <2>3, <2>4, LostKeeps
<1>4. CASE EraseRows(w) \/ Mark(w)
  <2>1. Lost
    <3>1. proc[w].at \in ErasingPlaces
      BY <1>4 DEF EraseRows, Mark, ErasingPlaces
    <3> QED
      BY <3>1, Members DEF Kept, ErasureOK
  <2>2. ASSUME EraseRows(w) PROVE Lost' /\ TombOK(db)'
    <3>1. ledger' = ledger
      BY <2>2 DEF EraseRows
    <3>2. db'.deleted /\ db'.until = 0 /\ db'.data = "erased" /\ db'.tomb.state = "erased"
      BY <2>2, ErasedRow
    <3> QED
      BY <1>1, <2>1, <3>1, <3>2, Counting DEF Lost, TombOK
  <2>3. ASSUME Mark(w) PROVE Lost' /\ TombOK(db)'
    <3>1. ledger'.state = "erased" /\ ledger'.due = proc[w].now /\ db' = db
      BY <2>3 DEF Mark
    <3>2. proc[w].now <= today
      BY Members DEF Settled
    <3> QED
      BY <1>1, <2>1, <3>1, <3>2 DEF Lost, TombOK, Kept
  <2>4. \A v \in Workers : proc[v].at # "expiring"
    BY <2>1 DEF Kept, ExpiryOK, Lost
  <2>5. \A v \in Workers : proc'[v].at # "expiring"
    BY <1>2, <2>4, Members DEF Moved
  <2>6. Lost' /\ TombOK(db)'
    BY <1>4, <2>2, <2>3
  <2> QED
    BY <1>1, <2>5, <2>6, LostKeeps
<1> QED
  BY <1>3, <1>4

LEMMA TickKeeps ==
  ASSUME Inv, Settled, Kept, Tick
  PROVE  Kept'
<1>1. /\ today' = today + 1 /\ today \in Nat
      /\ UNCHANGED <<db, ledger, objects, backups, owner, proc>>
  BY Counting DEF Tick
<1>2. Lost => Lost'
  BY <1>1, Counting DEF Lost
<1>3. TombOK(db)' /\ DatesOK' /\ OwnerOK' /\ ServedOK'
  BY <1>1, <1>2, Counting DEF Kept, TombOK, DatesOK, OwnerOK, ServedOK, Serving
<1>4. BackupOK'
  <2>1. Doomed => Doomed'
    BY <1>1, <1>2, Counting DEF Doomed, Serving
  <2> QED
    BY <1>1, <2>1, Counting DEF Kept, BackupOK, TombOK
<1>5. (\A p \in Procs : ErasureOK(p)') /\ \A w \in Workers : ExpiryOK(w)'
  BY <1>1, <1>2, Counting DEF Kept, ErasureOK, ExpiryOK
<1> QED
  BY <1>1, <1>2, <1>3, <1>4, <1>5 DEF Kept

LEMMA BackupKeeps ==
  ASSUME Inv, Settled, Kept, TakeBackup
  PROVE  Kept'
<1>1. /\ UNCHANGED <<today, db, ledger, objects, owner, proc>>
      /\ backups' = backups \cup {[db |-> db, objects |-> objects]}
  BY DEF TakeBackup
<1>2. Lost' = Lost
  BY <1>1 DEF Lost
<1>3. BackupOK'
  <2>1. Doomed' = Doomed /\ (Lost => Doomed)
    BY <1>1, <1>2 DEF Doomed, Lost, Serving
  <2> QED
    BY <1>1, <2>1 DEF Kept, BackupOK, TombOK, Lost
<1>4. TombOK(db)' /\ DatesOK' /\ OwnerOK' /\ ServedOK'
  BY <1>1, <1>2 DEF Kept, TombOK, DatesOK, OwnerOK, ServedOK, Serving
<1>5. (\A p \in Procs : ErasureOK(p)') /\ \A w \in Workers : ExpiryOK(w)'
  BY <1>1, <1>2 DEF Kept, ErasureOK, ExpiryOK
<1> QED
  BY <1>1, <1>2, <1>3, <1>4, <1>5 DEF Kept

\* A restore brings back what was complete, or what is lost already.
LEMMA RestoreKeeps ==
  ASSUME Inv, Settled, Kept, Restore
  PROVE  Kept'
<1>0. PICK backup \in backups : Restores(backup)
  BY DEF Restore
<1>1. /\ SameRow(backup.db, db') /\ objects' = backup.objects
      /\ db'.export.state = "completed" => db'.export = backup.db.export
      /\ UNCHANGED <<today, ledger, backups>> /\ owner'.at = "idle"
      /\ \A p \in Procs : proc'[p].at = "off"
  BY <1>0, RestoredRow DEF NoRequest
<1>2. /\ TombOK(backup.db)
      /\ \/ Complete(backup.db, backup.objects)
         \/ Doomed /\ backup.db.deleted /\ backup.db.until <= today
  BY <1>1 DEF Kept, BackupOK
<1>3. TombOK(db)'
  BY <1>1, <1>2 DEF TombOK, SameRow
<1>4. Doomed /\ backup.db.deleted /\ backup.db.until <= today => Lost'
  BY <1>1 DEF Doomed, Lost, SameRow
<1>5. Lost' \/ Complete(db', objects')
  BY <1>1, <1>2, <1>4 DEF Complete, SameRow
<1>6. DatesOK' /\ OwnerOK' /\ ServedOK'
  BY <1>1, Members DEF Kept, DatesOK, OwnerOK, ServedOK, Serving, SameRow
<1>7. BackupOK'
  <2>1. Doomed => Doomed'
    BY <1>1, Members DEF Doomed, Serving
  <2> QED
    BY <1>1, <2>1 DEF Kept, BackupOK, TombOK
<1>8. (\A p \in Procs : ErasureOK(p)') /\ \A w \in Workers : ExpiryOK(w)' /\ proc'[w].at # "written"
  BY <1>1, Members DEF ErasureOK, ExpiryOK, ErasingPlaces
<1> QED
  BY <1>3, <1>5, <1>6, <1>7, <1>8 DEF Kept

LEMMA KeptInit == DeletionInit => KeptInv
<1> SUFFICES ASSUME DeletionInit PROVE KeptInv
  OBVIOUS
<1>1. PICK expires \in {1, Never} :
        db = [deleted |-> FALSE, until |-> 0, data |-> "kept", expires |-> expires,
              tomb |-> NoTomb, open |-> {}, export |-> NoExport]
  BY DEF DeletionInit
<1>2. ~db.deleted /\ db.data = "kept" /\ db.tomb = NoTomb /\ db.export.state = "none"
  BY <1>1 DEF NoExport
<1>3. \A p \in Procs : proc[p].at = "idle" /\ proc[p].now = 0
  BY DEF DeletionInit, Off
<1>4. ledger.state = "none" /\ owner.at = "idle" /\ objects = {Media} /\ backups = {} /\ today = 0
  BY DEF DeletionInit, NoRecord, NoRequest
<1>5. Settled
  BY <1>2, <1>3, <1>4 DEF Settled
<1>6. TombOK(db) /\ DatesOK /\ OwnerOK /\ ServedOK /\ BackupOK /\ Complete(db, objects)
  BY <1>2, <1>4 DEF TombOK, DatesOK, OwnerOK, ServedOK, BackupOK, Complete, NoTomb
<1>7. /\ \A p \in Procs : ErasureOK(p)
      /\ \A w \in Workers : ExpiryOK(w) /\ proc[w].at # "written"
  BY <1>3, Members DEF ErasureOK, ExpiryOK, ErasingPlaces
<1> QED
  BY <1>5, <1>6, <1>7, InitInv DEF KeptInv, Kept

LEMMA StaysMisapplied ==
  ASSUME Inv, Misapplied, [DeletionNext]_deletionVars
  PROVE  Misapplied'
<1>1. ASSUME NEW p \in Procs, Replays(p) \/ Stop(p) PROVE Misapplied'
  BY <1>1 DEF Misapplied, Replays, Boot, ReadRecord, ApplyRecord, FindLeftovers, DeleteObject, EraseEntries, Stop
<1>2. ASSUME NEW w \in Workers, Sweeps(w) \/ Archives(w) \/ StepFails(w) PROVE Misapplied'
  BY <1>2 DEF Misapplied, Sweeps, StartSweep, Expire, BeginErasure, ListObjects, EraseRows, Mark,
              Archives, LeaseArchive, WriteArchive, FinishArchive, StepFails
<1>3. ASSUME IssueAccess \/ RequestArchive \/ AskDeletion \/ AskRecovery \/ Commits \/ RequestFails
      PROVE  Misapplied'
  BY <1>3 DEF Misapplied, IssueAccess, RequestArchive, AskDeletion, AskRecovery, Commits, deleteWedding,
              recoverWedding, RequestFails
<1>4. ASSUME LeaseEnds \/ Tick \/ TakeBackup \/ Restore \/ UNCHANGED deletionVars PROVE Misapplied'
  BY <1>4 DEF Misapplied, LeaseEnds, Tick, TakeBackup, Restore, Restores, deletionVars
<1> QED
  BY <1>1, <1>2, <1>3, <1>4, Members DEF DeletionNext

LEMMA KeptStep == KeptInv /\ [DeletionNext]_deletionVars => KeptInv'
<1> SUFFICES ASSUME KeptInv, [DeletionNext]_deletionVars, ~Misapplied'
             PROVE  Kept'
  BY NextInv, SettledStep DEF KeptInv
<1>1. Inv /\ Settled
  BY DEF KeptInv
<1>2. CASE Misapplied
  <2>1. Misapplied'
    BY <1>1, <1>2, StaysMisapplied
  <2> QED
    BY <2>1
<1>3. CASE ~Misapplied
  <2>0. Kept
    BY <1>3 DEF KeptInv
  <2>1. CASE UNCHANGED deletionVars
    BY <2>0, <2>1 DEF deletionVars, Kept, Lost, TombOK, DatesOK, OwnerOK, ServedOK, Serving, BackupOK, Doomed, ErasureOK,
                      ExpiryOK
  <2>2. CASE IssueAccess \/ RequestArchive \/ RequestFails \/ LeaseEnds
    BY <1>1, <2>0, <2>2, RequestsAreQuiet, QuietKeeps
  <2>3. CASE AskDeletion \/ AskRecovery \/ Commits
    BY <1>1, <2>0, <2>3, OwnerKeeps DEF Commits
  <2>4. ASSUME NEW p \in Procs, Replays(p) PROVE Kept'
    BY <1>1, <2>0, <2>4, ReplaysAreQuiet, QuietKeeps, ApplyKeeps DEF Replays
  <2>5. ASSUME NEW p \in Procs, Stop(p) PROVE Kept'
    BY <1>1, <2>0, <2>5, StopIsQuiet, QuietKeeps
  <2>6. ASSUME NEW w \in Sweepers, Sweeps(w) PROVE Kept'
    <3>1. w \in Workers /\ w \in Procs
      BY Members
    <3> QED
      BY <1>1, <2>0, <2>6, <3>1, ReplaysAreQuiet, WorkersAreQuiet, QuietKeeps, StartKeeps, SweepKeeps DEF Sweeps
  <2>7. ASSUME NEW w \in Exporters, Archives(w) PROVE Kept'
    BY <1>1, <2>0, <2>7, Members, WorkersAreQuiet, QuietKeeps DEF Archives
  <2>8. ASSUME NEW w \in Workers, StepFails(w) PROVE Kept'
    BY <1>1, <2>0, <2>8, WorkersAreQuiet, QuietKeeps
  <2>9. CASE Tick \/ TakeBackup
    BY <1>1, <2>0, <2>9, TickKeeps, BackupKeeps
  <2>10. CASE Restore
    BY <1>1, <2>0, <2>10, RestoreKeeps
  <2> QED
    BY <2>1, <2>2, <2>3, <2>4, <2>5, <2>6, <2>7, <2>8, <2>9, <2>10 DEF DeletionNext
<1> QED
  BY <1>2, <1>3

-----------------------------------------------------------------------------
(* Theorems                                                                  *)

\* Every variable keeps its type, whatever the number of workers, requests and days.
THEOREM TypeCorrect == DeletionSpec => []TypeOK
<1>1. Inv => TypeOK
  BY DEF Inv
<1> QED
  BY <1>1, InitInv, NextInv, PTL DEF DeletionSpec

\* What a confirmed deletion or a restore revoked opens nothing again, however the owner,
\* any number of sweeps and replays, crashes and restores of retained backups interleave.
THEOREM RevokedForGood == DeletionSpec => []OldAccessIsDead
<1>1. Inv => OldAccessIsDead
  BY DEF Inv, BarredIsShut, OldAccessIsDead
<1> QED
  BY <1>1, InitInv, NextInv, PTL DEF DeletionSpec

\* No replay of a recovery, however old the record it read, takes away a credential made
\* since the ledger was last written.
THEOREM RecoveryKeepsNewAccess == DeletionSpec => NewAccessIsKept
<1> DEFINE A == ~db.deleted /\ ~db'.deleted /\ Serving' => db.open \ 1..ledger.made \subseteq db'.open
<1>1. ASSUME Inv, [DeletionNext]_deletionVars PROVE A
  <2> SUFFICES ASSUME Inv, DeletionNext, db'.open # db.open, ~db'.deleted, Serving'
               PROVE  db.open \ 1..ledger.made \subseteq db'.open
    BY <1>1 DEF deletionVars
  <2>1. CASE IssueAccess
    BY <2>1, Types DEF IssueAccess, Rows
  <2>2. ASSUME deleteWedding PROVE FALSE
    <3>1. owner.due \in Nat /\ [state |-> "waiting", due |-> owner.due] \in Tombs
      BY Types DEF Owners, Tombs
    <3> DEFINE d == [db EXCEPT !.deleted = TRUE, !.until = owner.due,
                       !.tomb = [state |-> "waiting", due |-> owner.due]]
    <3>2. d \in Rows /\ d.deleted
      BY <3>1, Types DEF Rows
    <3>3. db' = Quarantined(d, created)
      BY <2>2 DEF deleteWedding
    <3> HIDE DEF d
    <3> QED
      BY <3>2, <3>3, Types, Quarantining
  <2>3. ASSUME NEW p \in Procs, ApplyRecord(p) PROVE db.open \ 1..ledger.made \subseteq db'.open
    <3> DEFINE r == proc[p].record
    <3>1. r \in Records /\ r.made \in Nat /\ r.made <= ledger.made /\ ledger.made \in Nat
      BY Types DEF Records
    <3>2. Readmitted(db, r).open = db.open \ 1..r.made /\ Hidden(db, r).deleted
      BY <3>1, Types, Replaying
    <3>3. db' \in {Readmitted(db, r), Hidden(db, r)}
      BY <2>3 DEF ApplyRecord
    <3>4. 1..r.made \subseteq 1..ledger.made
      BY <3>1
    <3> QED
      BY <3>2, <3>3, <3>4
  <2>4. ASSUME NEW w \in Workers, Expire(w) \/ EraseRows(w) PROVE FALSE
    BY <2>4, Types DEF Expire, EraseRows, Rows
  <2>5. ASSUME Restore PROVE FALSE
    BY <2>5, Members DEF Restore, Restores, Serving, Off
  <2>6. ASSUME NEW w \in Workers, \/ BeginErasure(w) \/ LeaseArchive(w) \/ FinishArchive(w)
        PROVE FALSE
    BY <2>6, Types DEF BeginErasure, LeaseArchive, FinishArchive, Rows
  <2>7. ASSUME RequestArchive \/ recoverWedding \/ LeaseEnds PROVE FALSE
    BY <2>7, Types, Untombed DEF RequestArchive, recoverWedding, LeaseEnds, Rows
  <2> QED
    BY <2>1, <2>2, <2>3, <2>4, <2>5, <2>6, <2>7, Members
       DEF DeletionNext, Commits, Sweeps, Replays, Archives, AskDeletion, AskRecovery, RequestFails,
           Boot, ReadRecord, FindLeftovers, DeleteObject, EraseEntries, StartSweep, ListObjects,
           Mark, WriteArchive, Stop, StepFails, Tick, TakeBackup
<1>2. DeletionSpec => [][A]_deletionVars
  BY <1>1, InitInv, NextInv, PTL DEF DeletionSpec
<1> QED
  BY <1>2 DEF NewAccessIsKept

\* What the owner sees, or may still bring back, has its data, its media and its finished
\* archive, for any number of deletions, recoveries, sweeps, crashes and restores, until a
\* replay is overtaken or keeps a restored tombstone that is due before the deletion on record.
THEOREM RecoverableIsWhole == DeletionSpec => []KeptWhole
<1>1. ASSUME KeptInv PROVE KeptWhole
  <2>1. today \in Nat /\ db.until \in Nat
    BY <1>1, Counting DEF KeptInv
  <2>2. Misapplied \/ Lost \/ Complete(db, objects)
    BY <1>1 DEF KeptInv, Kept
  <2>3. CASE Lost
    <3>1. db.deleted /\ ~(db.until > today)
      BY <2>1, <2>3 DEF Lost
    <3> QED
      BY <3>1 DEF KeptWhole
  <2> QED
    BY <2>2, <2>3 DEF Misapplied, Complete, KeptWhole
<1> QED
  BY <1>1, KeptInit, KeptStep, PTL DEF DeletionSpec

\* What the ledger calls erased is shown by no process that serves, whatever backup, or part
\* of an erasure, the database comes from, until one of the same two things happens.
THEOREM ErasedIsHidden == DeletionSpec => []ErasedStaysHidden
<1>1. KeptInv => ErasedStaysHidden
  BY DEF KeptInv, Misapplied, Kept, ServedOK, Lost, ErasedStaysHidden
<1> QED
  BY <1>1, KeptInit, KeptStep, PTL DEF DeletionSpec
=============================================================================
