--------------------------- MODULE MediaPipeline ---------------------------
(***************************************************************************)
(* An uploaded photograph or video from its intent to its removal:         *)
(* packages/persistence/src/media.ts (intent, receive, process, release,   *)
(* sweep, remove), the part of removeMember in index.ts that ends          *)
(* unfinished uploads, the leases of jobs.ts under which the worker runs   *)
(* the media and media-delete jobs, and the part of reapplyResources in    *)
(* recovery.ts that every start of the API or a worker runs.               *)
(*                                                                         *)
(* A database transaction is one step, and so is a call to the private     *)
(* storage; everything between two of them is a place where another        *)
(* request, another worker, a crash or an error can come in between.       *)
(*                                                                         *)
(* Abstracted: sizes are a few units; the poster of a video is written and *)
(* deleted with the display file; uploads are those of members; captions,  *)
(* albums, moderation and the copies in exports are other components.      *)
(***************************************************************************)
EXTENDS Naturals, FiniteSets, FiniteSetsExt

CONSTANTS Assets, Workers,
          Nobody,      \* the owner of a job nobody leases, of a display that was never made
          Limit,       \* limit_bytes of the wedding, in units
          Sizes,       \* what the wedding's other media may hold of it
          MaxFaults    \* bounds the crashes, errors and lost leases

ASSUME AssetsAssumption == IsFiniteSet(Assets)
ASSUME NobodyAssumption == Nobody \notin Workers
ASSUME MediaNumbersAssumption == {Limit, MaxFaults} \subseteq Nat /\ Sizes \subseteq 0..Limit

VARIABLES
  asset,    \* std_media_assets, whether expires_at has passed, and the maker's permission
  usage,    \* std_media_usage
  others,   \* what the wedding's other media hold of it
  objects,  \* private storage: originals and each worker's display files
  job,      \* the media and media-delete rows of std_jobs
  receiver, \* the API request that receives the bytes of an asset
  worker,   \* each worker process: its job and how far it is
  records,  \* the assets with a record of kind "media" in resourceErasureLedger
  replay,   \* how far a starting process is with the record of an asset
  faults,   \* crashes, errors and lost leases so far (bounded)
  mishaps   \* history: what went wrong, and with which asset

mediaVars == <<asset, usage, others, objects, job, receiver, worker, records, replay, faults, mishaps>>

Kinds == {"media", "media-delete"}
Original(a) == [asset |-> a, by |-> Nobody]
Display(a, w) == [asset |-> a, by |-> w]
Reservation == 2   \* input.bytes + max(input.bytes, 2 MiB)
Totals == {1, 3}   \* original, display and poster may stay below or exceed the reservation
Idle == [stage |-> "idle"]
NoReplay == [stage |-> "none"]
NoRow == [processing |-> "none", overdue |-> FALSE, deleted |-> FALSE, allowed |-> TRUE, account |-> TRUE,
          reserved |-> 0, actual |-> 0, derivative |-> Nobody]

MediaInit ==
  /\ asset = [a \in Assets |-> NoRow]
  /\ usage = [stored |-> 0, reserved |-> 0] /\ others = 0
  /\ objects = {} /\ job = [k \in Kinds \X Assets |-> [state |-> "none", owner |-> Nobody, makers |-> FALSE]]
  /\ receiver = [a \in Assets |-> "none"]
  /\ worker = [w \in Workers |-> Idle]
  /\ records = {} /\ replay = [a \in Assets |-> NoReplay]
  /\ faults = 0 /\ mishaps = {}

\* "reply": a commit took effect and its caller saw an error; "lease": a lease ran out
\* under a worker that goes on; "record": a deletion was recorded and rolled back;
\* "undone": a job ended at an error, and nothing repeats its step.
Fault == faults < MaxFaults /\ faults' = faults + 1
Mishap(kind, a) == Fault /\ mishaps' = mishaps \cup {<<kind, a>>}
NoFault == UNCHANGED <<faults, mishaps>>

Moves(a, processing) == asset' = [asset EXCEPT ![a].processing = processing]
\* A job belongs to the member who made the upload or to somebody else (requested_by).
Queued(j, k, a, makers) ==   \* on conflict (dedupe_key) do nothing
  IF j[<<k, a>>].state = "none" THEN [j EXCEPT ![<<k, a>>] = [@ EXCEPT !.state = "pending", !.makers = makers]]
    ELSE j

(***************************************************************************)
(* The API: intent, receive, remove.                                       *)
(***************************************************************************)
HasRoom == usage.stored + usage.reserved + Reservation <= Limit

intent(a) ==
  /\ asset[a].processing = "none" /\ HasRoom
  /\ asset' = [asset EXCEPT ![a].processing = "awaiting_upload", ![a].reserved = Reservation]
  /\ usage' = [usage EXCEPT !.reserved = @ + Reservation]
  /\ UNCHANGED <<others, objects, job, receiver, worker, records, replay, faults, mishaps>>

\* Mutant: bytes that already arrived may be sent once more.
AwaitsBytesOrHasThem(a) == asset[a].processing \in {"awaiting_upload", "uploaded"}

AwaitsBytes(a) == asset[a].processing = "awaiting_upload"

Claims(a) ==
  /\ receiver[a] = "none" /\ AwaitsBytes(a)
  /\ ~asset[a].overdue /\ ~asset[a].deleted /\ asset[a].allowed
  /\ Moves(a, "receiving")
  /\ receiver' = [receiver EXCEPT ![a] = "claimed"]
  /\ UNCHANGED <<others, usage, objects, job, worker, records, replay, faults, mishaps>>

\* StoragePort.write stores the original, or fails.
WritesOriginal(a) ==
  /\ receiver[a] = "claimed"
  /\ \/ objects' = objects \cup {Original(a)} /\ receiver' = [receiver EXCEPT ![a] = "written"]
     \/ UNCHANGED objects /\ receiver' = [receiver EXCEPT ![a] = "failing"]
  /\ UNCHANGED <<others, asset, usage, job, worker, records, replay, faults, mishaps>>

StillReceiving(a) ==
  asset[a].processing = "receiving" /\ ~asset[a].overdue /\ ~asset[a].deleted /\ asset[a].allowed

Arrives(a) == StillReceiving(a) /\ Moves(a, "uploaded") /\ job' = Queued(job, "media", a, TRUE)

\* The transaction may also be refused or fail, or its COMMIT may take effect
\* while the API sees an error: receive's catch cannot tell these apart.
Received(a) ==
  /\ receiver[a] = "written"
  /\ \/ Arrives(a) /\ receiver' = [receiver EXCEPT ![a] = "none"] /\ NoFault
     \/ receiver' = [receiver EXCEPT ![a] = "failing"] /\ NoFault /\ UNCHANGED <<asset, job>>
     \/ Arrives(a) /\ receiver' = [receiver EXCEPT ![a] = "failing"] /\ Mishap("reply", a)
  /\ UNCHANGED <<others, usage, objects, worker, records, replay>>

\* Mutant: the bytes of a failed transfer stay where they are.
KeepsOriginal(a) ==
  receiver[a] = "failing" /\ receiver' = [receiver EXCEPT ![a] = "undoing"]
    /\ UNCHANGED <<others, asset, usage, objects, job, worker, records, replay, faults, mishaps>>

\* The catch of receive: first the object, then the row.
DeletesOriginal(a) ==
  /\ receiver[a] = "failing"
  /\ objects' = objects \ {Original(a)} /\ receiver' = [receiver EXCEPT ![a] = "undoing"]
  /\ UNCHANGED <<others, asset, usage, job, worker, records, replay, faults, mishaps>>

AwaitsAgain(a) ==
  /\ receiver[a] = "undoing"
  /\ IF asset[a].processing = "receiving" THEN Moves(a, "awaiting_upload") ELSE UNCHANGED asset
  /\ receiver' = [receiver EXCEPT ![a] = "none"]
  /\ UNCHANGED <<others, usage, objects, job, worker, records, replay, faults, mishaps>>

\* Thirty minutes pass.
Overdue(a) ==
  /\ asset[a].processing \in {"awaiting_upload", "receiving"} /\ ~asset[a].overdue
  /\ asset' = [asset EXCEPT ![a].overdue = TRUE]
  /\ UNCHANGED <<others, usage, objects, job, receiver, worker, records, replay, faults, mishaps>>

\* The owner deletes the media: hidden at once, its files are the job's. The erasure
\* record is written inside the transaction, and stays when that is rolled back.
remove(a) ==
  /\ asset[a].processing # "none" /\ ~asset[a].deleted
  /\ records' = records \cup {a}
  /\ \/ /\ asset' = [asset EXCEPT ![a].deleted = TRUE]
        /\ \E makers \in {FALSE, asset[a].allowed} : job' = Queued(job, "media-delete", a, makers)
        /\ NoFault
     \/ Mishap("record", a) /\ UNCHANGED <<asset, job>>
  /\ UNCHANGED <<others, usage, objects, receiver, worker, replay>>

\* The reservation of an upload that ended unfinished.
WithoutReservation(a) == [usage EXCEPT !.reserved = @ - asset[a].reserved]

\* The wedding's other uploads and deletions move the same counters under the same limit.
OthersUse ==
  /\ others' \in Sizes
  /\ usage' = [usage EXCEPT !.stored = @ - others + others']
  /\ others' > others => usage.stored - others + others' + usage.reserved <= Limit
  /\ UNCHANGED <<asset, objects, job, receiver, worker, records, replay, faults, mishaps>>

\* Mutant: the sweep looks for uploads that never began only.
NeverBegun(a) == asset[a].processing = "awaiting_upload"

\* PostgresMedia.sweep.
Unfinished(a) == asset[a].processing \in {"awaiting_upload", "receiving"}
sweep(a) ==
  /\ Unfinished(a) /\ asset[a].overdue
  /\ usage' = WithoutReservation(a) /\ job' = Queued(job, "media-delete", a, TRUE)
  /\ asset' = [asset EXCEPT ![a].processing = "expired", ![a].reserved = 0]
  /\ UNCHANGED <<others, objects, receiver, worker, records, replay, faults, mishaps>>

\* PostgresStore.removeMember, of the member who made the upload: the jobs that
\* member asked for are cancelled, those of its running worker too.
Cancelled(j, a) ==
  [k \in DOMAIN j |-> IF k[2] = a /\ j[k].makers /\ j[k].state \in {"pending", "leased", "expired"}
                         THEN [j[k] EXCEPT !.state = "cancelled"] ELSE j[k]]

removeMember(a) ==
  /\ asset[a].processing # "none" /\ asset[a].allowed
  /\ IF asset[a].processing \in {"awaiting_upload", "receiving", "uploaded", "processing"} /\ ~asset[a].deleted
       THEN /\ usage' = WithoutReservation(a)
            /\ job' = Queued(Cancelled(job, a), "media-delete", a, FALSE)
            /\ asset' = [asset EXCEPT ![a].processing = "expired", ![a].reserved = 0, ![a].allowed = FALSE]
       ELSE /\ asset' = [asset EXCEPT ![a].allowed = FALSE] /\ job' = Cancelled(job, a)
            /\ UNCHANGED usage
  /\ UNCHANGED <<others, objects, receiver, worker, records, replay, faults, mishaps>>

\* PostgresRetention.requestAccountDeletion, of the member who made the upload: the
\* memberships go, the jobs stay.
requestAccountDeletion(a) ==
  /\ asset[a].processing # "none" /\ asset[a].account
  /\ asset' = [asset EXCEPT ![a].account = FALSE, ![a].allowed = FALSE]
  /\ UNCHANGED <<others, usage, objects, job, receiver, worker, records, replay, faults, mishaps>>

(***************************************************************************)
(* The worker: PostgresMedia.process under a lease of PostgresJobs.        *)
(***************************************************************************)
Asset(w)  == worker[w].job[2]
Holds(w)  == LET j == job[worker[w].job] IN j.state = "leased" /\ j.owner = w
Goes(w, stage) == worker' = [worker EXCEPT ![w].stage = stage]
AtStage(w, stage) == worker[w].stage = stage

lease(w) ==
  /\ AtStage(w, "idle")
  /\ \E k \in Kinds \X Assets :
       /\ job[k].state \in {"pending", "expired"}
       /\ job' = [job EXCEPT ![k] = [@ EXCEPT !.state = "leased", !.owner = w]]
       /\ worker' = [worker EXCEPT ![w] = [stage |-> "leased", job |-> k, named |-> Nobody]]
  /\ UNCHANGED <<others, asset, usage, objects, receiver, records, replay, faults, mishaps>>

\* process reads the row once and goes by what it read. An upload whose maker deleted
\* their account is rejected without asking for the lease.
ReadsAsset(w) ==
  LET a == Asset(w)
      stage == CASE worker[w].job[1] = "media-delete" -> "deleting"
                 [] worker[w].job[1] = "media" /\ asset[a].processing = "ready" -> "done"
                 [] worker[w].job[1] = "media" /\ asset[a].processing # "ready" /\ asset[a].deleted -> "failed"
                 [] worker[w].job[1] = "media" /\ asset[a].processing # "ready" /\ ~asset[a].deleted
                      /\ ~asset[a].account -> "rejecting"
                 [] OTHER -> "starting"
  IN /\ AtStage(w, "leased")
     /\ worker' = [worker EXCEPT ![w].stage = stage,
                                 ![w].named = IF stage = "deleting" THEN asset[a].derivative ELSE Nobody]
     /\ UNCHANGED <<others, asset, usage, objects, job, receiver, records, replay, faults, mishaps>>

\* The requester's permission is checked first, or the check fails; then the row is
\* marked without asking whether the lease is still held or what the row says by now.
ChecksScope(w) ==
  /\ AtStage(w, "starting")
  /\ \/ asset[Asset(w)].allowed /\ Goes(w, "marking")
     \/ Goes(w, "clearing")
  /\ UNCHANGED <<others, asset, usage, objects, job, receiver, records, replay, faults, mishaps>>

Marks(w) ==
  /\ AtStage(w, "marking")
  /\ Moves(Asset(w), "processing") /\ Goes(w, "reading")
  /\ UNCHANGED <<others, usage, objects, job, receiver, records, replay, faults, mishaps>>

\* The original is read and checked, scanned and converted, or this fails.
Converts(w) ==
  /\ AtStage(w, "reading")
  /\ \/ Original(Asset(w)) \in objects /\ Goes(w, "writing")
     \/ Goes(w, "clearing")
  /\ UNCHANGED <<others, asset, usage, objects, job, receiver, records, replay, faults, mishaps>>

WritesDisplay(w) ==
  /\ AtStage(w, "writing")
  /\ objects' = objects \cup {Display(Asset(w), w)}
  /\ Goes(w, "committing")
  /\ UNCHANGED <<others, asset, usage, job, receiver, records, replay, faults, mishaps>>

MayCommit(w) ==
  LET a == Asset(w) IN asset[a].allowed /\ ~asset[a].deleted /\ asset[a].processing = "processing"

Finishes(w, total) ==
  LET a == Asset(w) IN
  /\ Holds(w) /\ MayCommit(w) /\ usage.stored + usage.reserved - asset[a].reserved + total <= Limit
  /\ usage' = [stored |-> usage.stored + total, reserved |-> usage.reserved - asset[a].reserved]
  /\ asset' = [asset EXCEPT ![a] = [@ EXCEPT !.processing = "ready", !.reserved = 0,
                                             !.actual = total, !.derivative = w]]

\* As in Received, a commit that took effect may look like one that failed.
Commits(w) ==
  /\ AtStage(w, "committing")
  /\ \/ \E total \in Totals : Finishes(w, total) /\ Goes(w, "done") /\ NoFault
     \/ Goes(w, IF Holds(w) THEN "clearing" ELSE "lost") /\ NoFault /\ UNCHANGED <<usage, asset>>
     \/ \E total \in Totals : Finishes(w, total) /\ Goes(w, "clearing") /\ Mishap("reply", Asset(w))
  /\ UNCHANGED <<others, objects, job, receiver, records, replay>>

\* The catch of process: its own display file goes first.
ClearsDisplay(w) ==
  /\ worker[w].stage \in {"clearing", "lost"}
  /\ objects' = objects \ {Display(Asset(w), w)}
  /\ Goes(w, IF AtStage(w, "clearing") THEN "judging" ELSE "failed")
  /\ UNCHANGED <<others, asset, usage, job, receiver, records, replay, faults, mishaps>>

\* Only under the lease, and only for an asset that is not ready, the rest goes too.
Judges(w) ==
  /\ AtStage(w, "judging")
  /\ Goes(w, IF Holds(w) /\ asset[Asset(w)].processing # "ready" THEN "rejecting" ELSE "failed")
  /\ UNCHANGED <<others, asset, usage, objects, job, receiver, records, replay, faults, mishaps>>

\* A rejected upload loses its original, a deleted one the display its row named too.
DeletesFiles(w) ==
  LET a == Asset(w) IN
  /\ \/ AtStage(w, "rejecting") /\ objects' = objects \ {Original(a)} /\ Goes(w, "rejected")
     \/ AtStage(w, "deleting") /\ objects' = objects \ {Original(a), Display(a, worker[w].named)}
        /\ Goes(w, "expired")
  /\ UNCHANGED <<others, asset, usage, job, receiver, records, replay, faults, mishaps>>

\* Mutant: only the reservation is given back.
ReservationBack(a) == [usage EXCEPT !.reserved = @ - asset[a].reserved]

\* What the row has in the books is given back.
GivenBack(a) == [stored |-> usage.stored - asset[a].actual, reserved |-> usage.reserved - asset[a].reserved]

release(w) ==
  LET a == Asset(w) IN
  /\ worker[w].stage \in {"rejected", "expired"}
  /\ usage' = GivenBack(a)
  /\ asset' = [asset EXCEPT ![a] = [@ EXCEPT !.processing = worker[w].stage, !.reserved = 0, !.actual = 0]]
  /\ Goes(w, IF AtStage(w, "expired") THEN "done" ELSE "failed")
  /\ UNCHANGED <<others, objects, job, receiver, records, replay, faults, mishaps>>

\* An error in any of these steps ends the job, the storage's and the database's alike.
GivesUp(w) ==
  /\ worker[w].stage \in {"leased", "deleting", "expired", "clearing", "lost", "judging", "rejecting", "rejected"}
  /\ Goes(w, "failed") /\ Mishap("undone", Asset(w))
  /\ UNCHANGED <<others, asset, usage, objects, job, receiver, records, replay>>

\* ack and fail. No error of these jobs is retried: "failed" is for good. Neither
\* asks whether the lease ran out, only whether somebody else has it.
Owns(w) == LET j == job[worker[w].job] IN j.state \in {"leased", "expired"} /\ j.owner = w
Settles(w) ==
  /\ worker[w].stage \in {"done", "failed"}
  /\ job' = IF Owns(w)
              THEN [job EXCEPT ![worker[w].job] =
                      [@ EXCEPT !.state = IF AtStage(w, "done") THEN "succeeded" ELSE "failed", !.owner = Nobody]]
              ELSE job
  /\ worker' = [worker EXCEPT ![w] = Idle]
  /\ UNCHANGED <<others, asset, usage, objects, receiver, records, replay, faults, mishaps>>

(***************************************************************************)
(* Crashes, and leases that run out.  A heartbeat renews a lease every     *)
(* twenty seconds and it is good for sixty; a heartbeat that fails is      *)
(* ignored, and the worker goes on.                                        *)
(***************************************************************************)
LeaseRunsOut(w) == job' = IF Holds(w) THEN [job EXCEPT ![worker[w].job] = [@ EXCEPT !.state = "expired"]]
                            ELSE job

Stalls(w) ==
  /\ worker[w].stage \notin {"idle", "gone"} /\ Holds(w)
  /\ LeaseRunsOut(w) /\ Mishap("lease", Asset(w))
  /\ UNCHANGED <<others, asset, usage, objects, receiver, worker, records, replay>>

Renews(w) ==
  /\ worker[w].stage \notin {"idle", "gone"} /\ Owns(w) /\ ~Holds(w)
  /\ job' = [job EXCEPT ![worker[w].job] = [@ EXCEPT !.state = "leased"]]
  /\ UNCHANGED <<others, asset, usage, objects, receiver, worker, records, replay, faults, mishaps>>

\* The API crashes, or its request ends at an error in the catch of receive.
ApiCrash(a) ==
  /\ receiver[a] # "none" /\ receiver' = [receiver EXCEPT ![a] = "none"]
  /\ Fault
  /\ UNCHANGED <<others, asset, usage, objects, job, worker, records, replay, mishaps>>

\* A restarted worker has a new name: the crashed one does not come back, and
\* the bound is that one of Workers is left.
WorkerCrash(w) ==
  /\ worker[w].stage \notin {"idle", "gone"} /\ Fault
  /\ \E v \in Workers \ {w} : worker[v].stage # "gone"
  /\ LeaseRunsOut(w)
  /\ worker' = [worker EXCEPT ![w] = [stage |-> "gone"]]
  /\ UNCHANGED <<others, asset, usage, objects, receiver, records, replay, mishaps>>

(***************************************************************************)
(* Starts.  PostgresRecovery.reapplyResources goes through the records     *)
(* before the API serves or the worker leases; other processes run on.     *)
(***************************************************************************)
Replaying(a, stage) == replay[a].stage = stage
ReadsRow(a, stage) ==
  /\ Replaying(a, stage)
  /\ replay' = [replay EXCEPT ![a] = [stage |-> "deleting", derivative |-> asset[a].derivative]]
  /\ UNCHANGED <<others, asset, usage, objects, job, receiver, worker, records, faults, mishaps>>

Starts(a)      == a \in records /\ ReadsRow(a, "none")
StartsAgain(a) == ReadsRow(a, "due")

DeletesRecorded(a) ==
  /\ Replaying(a, "deleting")
  /\ objects' = objects \ {Original(a), Display(a, replay[a].derivative)}
  /\ replay' = [replay EXCEPT ![a] = [stage |-> "expiring"]]
  /\ UNCHANGED <<others, asset, usage, job, receiver, worker, records, faults, mishaps>>

Less(n, m) == IF n > m THEN n - m ELSE 0   \* greatest(0, n - m)

\* What the record gives back.
Restored(a) == [stored |-> Less(usage.stored, asset[a].actual), reserved |-> Less(usage.reserved, asset[a].reserved)]

Expires(a) ==
  /\ Replaying(a, "expiring")
  /\ usage' = Restored(a)
  /\ asset' = [asset EXCEPT ![a] = [@ EXCEPT !.deleted = TRUE, !.processing = "expired",
                                             !.actual = 0, !.reserved = 0]]
  /\ replay' = [replay EXCEPT ![a] = NoReplay]
  /\ UNCHANGED <<others, objects, job, receiver, worker, records, faults, mishaps>>

\* A start that fails is started again.
StartFails(a) ==
  /\ replay[a].stage \in {"deleting", "expiring"} /\ Fault
  /\ replay' = [replay EXCEPT ![a] = [stage |-> "due"]]
  /\ UNCHANGED <<others, asset, usage, objects, job, receiver, worker, records, mishaps>>

(***************************************************************************)
(* The specifications.                                                     *)
(***************************************************************************)
Receives(a) == WritesOriginal(a) \/ Received(a) \/ DeletesOriginal(a) \/ AwaitsAgain(a)
Asks(a) == intent(a) \/ Claims(a) \/ remove(a) \/ removeMember(a) \/ requestAccountDeletion(a)
Replays(a) == StartsAgain(a) \/ DeletesRecorded(a) \/ Expires(a)
Runs(w) == \/ ReadsAsset(w) \/ ChecksScope(w) \/ Marks(w) \/ Converts(w) \/ WritesDisplay(w) \/ Commits(w)
           \/ ClearsDisplay(w) \/ Judges(w) \/ DeletesFiles(w) \/ release(w) \/ Settles(w)
Works(w) == lease(w) \/ Runs(w)

MediaNext == \/ \E a \in Assets : \/ Asks(a) \/ Receives(a) \/ Overdue(a) \/ sweep(a) \/ ApiCrash(a)
                                 \/ Starts(a) \/ Replays(a) \/ StartFails(a)
             \/ \E w \in Workers : Works(w) \/ GivesUp(w) \/ Stalls(w) \/ Renews(w) \/ WorkerCrash(w)
             \/ OthersUse

\* The request, the worker and a start go on, workers poll for jobs, the worker sweeps.
MediaFairness == /\ \A a \in Assets : /\ WF_mediaVars(Receives(a)) /\ WF_mediaVars(Overdue(a))
                                      /\ WF_mediaVars(sweep(a)) /\ WF_mediaVars(Replays(a))
                 /\ \A w \in Workers : WF_mediaVars(Works(w))

FairMediaSpec == MediaInit /\ [][MediaNext]_mediaVars /\ MediaFairness

(***************************************************************************)
(* Properties.                                                             *)
(***************************************************************************)
\* What is reserved is what the rows of unfinished uploads add up to; what is counted as
\* stored is never less than what the rows hold, and no more unless a lease ran out under
\* a worker that went on; and together they never exceed the limit: through every upload,
\* conversion, refusal, expiry, deletion and replay, whatever crashes.
QuotaAddsUp ==
  LET held == others + MapThenSumSet(LAMBDA a : asset[a].actual, Assets) IN
  /\ usage.reserved = MapThenSumSet(LAMBDA a : asset[a].reserved, Assets)
  /\ held <= usage.stored
  /\ held # usage.stored => \E a \in Assets : <<"lease", a>> \in mishaps
  /\ usage.stored + usage.reserved <= Limit

\* A ready asset that nobody deleted has the original and the display its row
\* names: no late request, refused conversion, second job, crash or replay took them
\* away. Three things can, each of them outside what the code can see: a COMMIT that
\* took effect and looked failed (the catch then deletes what the row names), a lease
\* that ran out under a worker that goes on, and the erasure record of a deletion that
\* was rolled back.
Misled(a) == \E kind \in {"reply", "lease", "record"} : <<kind, a>> \in mishaps
ReadyHasFiles ==
  \A a \in Assets : asset[a].processing = "ready" /\ ~asset[a].deleted /\ ~Misled(a) =>
    {Original(a), Display(a, asset[a].derivative)} \subseteq objects

\* Private storage keeps no file that nothing refers to: when no request, worker
\* or job is left for an asset that is not ready, its files are gone (unless a
\* crash, an error or a lost lease came on the way).
AtRest(a) == /\ receiver[a] = "none" /\ asset[a].processing \in {"awaiting_upload", "rejected", "expired"}
             /\ \A w \in Workers : worker[w].stage \notin {"idle", "gone"} => Asset(w) # a
             /\ job[<<"media", a>>].state \in {"none", "succeeded", "failed", "cancelled"}
             /\ job[<<"media-delete", a>>].state \in {"none", "succeeded", "failed"}
NoStrayFiles ==
  faults = 0 => \A a \in Assets : AtRest(a) => \A o \in objects : o.asset # a

\* An upload that was begun becomes ready, rejected or expired, or is open again,
\* whatever crashes, or (its maker was removed) holds no space, unless its job ended at
\* an error or its lease ran out under its worker. A deleted one gives its space back
\* unless its job was cancelled or ended at an error; and then the next start of a
\* process that comes to its erasure record does.
UploadsSettle ==
  \A a \in Assets :
    /\ asset[a].processing \in {"receiving", "uploaded", "processing"}
         ~> \/ asset[a].deleted \/ asset[a].processing \in {"awaiting_upload", "ready", "rejected", "expired"}
            \/ ~asset[a].allowed /\ asset[a].reserved + asset[a].actual = 0
            \/ <<"undone", a>> \in mishaps \/ <<"lease", a>> \in mishaps
    /\ asset[a].deleted ~> \/ asset[a].reserved + asset[a].actual = 0
                           \/ job[<<"media-delete", a>>].state \in {"cancelled", "failed"}
    /\ ~Replaying(a, "none") ~> asset[a].deleted /\ asset[a].reserved + asset[a].actual = 0

=============================================================================
