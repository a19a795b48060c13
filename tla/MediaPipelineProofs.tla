------------------------ MODULE MediaPipelineProofs ------------------------
(***************************************************************************)
(* Uploads from their intent to their removal: what a ready asset has in   *)
(* the private storage stays there, and what nothing refers to is gone,    *)
(* for every number of assets, workers and faults and every limit.         *)
(***************************************************************************)
EXTENDS MediaPipeline, Integers, TLAPS

Files == [asset: Assets, by: Workers \cup {Nobody}]

Rows == [processing: {"none", "awaiting_upload", "receiving", "uploaded", "processing", "ready",
                      "rejected", "expired"},
         overdue: BOOLEAN, deleted: BOOLEAN, allowed: BOOLEAN, account: BOOLEAN,
         reserved: Nat, actual: Nat, derivative: Workers \cup {Nobody}]

Leases == [state: {"none", "pending", "leased", "expired", "succeeded", "failed", "cancelled"},
           owner: Workers \cup {Nobody}, makers: BOOLEAN]

Recoveries == [stage: {"none", "due", "expiring"}]
              \cup [stage: {"deleting"}, derivative: Workers \cup {Nobody}]

MishapKinds == {"reply", "lease", "record", "undone"}

\* A media job holds the original from its lease to the end of a rejection.
Early == {"leased", "starting", "marking", "reading", "writing", "committing", "clearing",
          "judging", "rejecting"}
MediaStages  == Early \cup {"lost", "rejected", "done", "failed"}
DeleteStages == {"leased", "deleting", "expired", "done", "failed"}
Stages == MediaStages \cup DeleteStages

Tasks  == [stage: Stages, job: Kinds \X Assets, named: Workers \cup {Nobody}]
Gone   == [stage |-> "gone"]
Places == {Idle, Gone} \cup Tasks

Usages == [stored: Int, reserved: Int]

Receivers == {"none", "claimed", "written", "failing", "undoing"}

TypeOK ==
  /\ asset \in [Assets -> Rows]
  /\ usage \in Usages /\ others \in Nat
  /\ objects \subseteq Files
  /\ job \in [Kinds \X Assets -> Leases]
  /\ receiver \in [Assets -> Receivers]
  /\ worker \in [Workers -> Places]
  /\ records \subseteq Assets /\ replay \in [Assets -> Recoveries]
  /\ faults \in Nat /\ mishaps \subseteq MishapKinds \X Assets

Running(w)   == worker[w].stage \notin {"idle", "gone"}
On(w, k, a)  == Running(w) /\ worker[w].job = <<k, a>>
MediaJob(a)  == job[<<"media", a>>].state
DeleteJob(a) == job[<<"media-delete", a>>].state

\* A worker does what its kind of job has it do.
StageFits(w) ==
  Running(w) => IF worker[w].job[1] = "media" THEN worker[w].stage \in MediaStages
                ELSE worker[w].stage \in DeleteStages

\* A worker that runs holds its lease unless the job was cancelled, and runs it alone, as
\* long as no lease ran out under a worker with this asset.
Unstalled(a) == <<"lease", a>> \notin mishaps
LeaseHeld(w) ==
  Running(w) /\ Unstalled(Asset(w)) => job[worker[w].job].state = "cancelled" \/ Holds(w)
RunsAlone(v, w) ==
  v # w /\ Running(v) /\ Running(w) /\ Unstalled(Asset(w)) => worker[v].job # worker[w].job

\* The bytes are there when there is a job for them.
Unended(a) == MediaJob(a) \in {"pending", "leased", "expired"}
UploadOK(a) ==
  /\ MediaJob(a) # "none" =>
       /\ receiver[a] = "none" /\ job[<<"media", a>>].makers
       /\ asset[a].processing \in {"uploaded", "processing", "ready", "rejected", "expired"}
  /\ receiver[a] # "none" => asset[a].processing \in {"receiving", "expired"}

\* What has a deletion job will not become ready: it is deleted, or its maker was removed
\* before it was ready, or its bytes never came. What has an erasure record is deleted.
RemovalOK(a) ==
  /\ a \in records => asset[a].deleted
  /\ asset[a].deleted => DeleteJob(a) # "none"
  /\ DeleteJob(a) # "none" => \/ asset[a].deleted
                              \/ ~asset[a].allowed /\ asset[a].processing # "ready" /\ ~Unended(a)
                              \/ MediaJob(a) = "none" /\ asset[a].processing = "expired"

\* A worker that may still commit has the files it commits to.
WorkOK(w, a) ==
  On(w, "media", a) =>
    /\ asset[a].processing = "ready" => worker[w].stage \in {"leased", "done", "failed"}
    /\ asset[a].allowed /\ ~asset[a].deleted =>
         /\ worker[w].stage \in {"writing", "committing"} => Original(a) \in objects
         /\ worker[w].stage = "committing" => Display(a, w) \in objects

ReadyOK(a) ==
  asset[a].processing = "ready" /\ ~asset[a].deleted =>
    {Original(a), Display(a, asset[a].derivative)} \subseteq objects

WorkersOK == /\ \A w \in Workers : StageFits(w) /\ LeaseHeld(w)
             /\ \A v, w \in Workers : RunsAlone(v, w)

-----------------------------------------------------------------------------
(* Lemmas about the operators                                                *)

LEMMA Numbers == Limit \in Nat /\ MaxFaults \in Nat
  BY MediaNumbersAssumption

LEMMA Pairs ==
  /\ \A k \in Kinds \X Assets : k[1] \in Kinds /\ k[2] \in Assets /\ k = <<k[1], k[2]>>
  /\ "media" \in Kinds /\ "media-delete" \in Kinds
  /\ \A a \in Assets : <<"media", a>> \in Kinds \X Assets /\ <<"media-delete", a>> \in Kinds \X Assets
  BY DEF Kinds

LEMMA TheKinds == "media" \in Kinds /\ "media-delete" \in Kinds /\ TRUE \in BOOLEAN /\ FALSE \in BOOLEAN
  BY DEF Kinds

LEMMA NoRowIsRow == NoRow \in Rows
  BY DEF NoRow, Rows

LEMMA PlacesDiffer ==
  /\ Idle.stage = "idle" /\ Gone.stage = "gone" /\ Idle \in Places /\ Gone \in Places
  /\ \A p \in Places : p.stage \notin {"idle", "gone"} => p \in Tasks
  /\ \A p \in Tasks : p \in Places /\ p.stage \in Stages /\ p.job \in Kinds \X Assets /\ p.named \in Workers \cup {Nobody}
                      /\ p.stage \notin {"idle", "gone"}
<1>1. Idle.stage = "idle" /\ Gone.stage = "gone"
  BY DEF Idle, Gone
<1>2. \A p \in Tasks : /\ p.stage \in Stages /\ p.job \in Kinds \X Assets /\ p.named \in Workers \cup {Nobody}
                       /\ p.stage \notin {"idle", "gone"}
  BY DEF Tasks, Stages, MediaStages, Early, DeleteStages
<1> QED
  BY <1>1, <1>2 DEF Places

\* The row of one asset changes, and what it becomes.
RowBecomes(a, processing, deleted, allowed, derivative) ==
  /\ asset' \in [Assets -> Rows]
  /\ \A b \in Assets \ {a} : asset'[b] = asset[b]
  /\ asset'[a].processing = processing /\ asset'[a].deleted = deleted
  /\ asset'[a].allowed = allowed /\ asset'[a].derivative = derivative

LEMMA RowMoves ==
  ASSUME asset \in [Assets -> Rows], NEW a \in Assets,
         NEW new \in Rows, asset' = [asset EXCEPT ![a] = new]
  PROVE  RowBecomes(a, new.processing, new.deleted, new.allowed, new.derivative)
  BY DEF RowBecomes

\* One worker goes on to another stage of its job.
WorkerBecomes(w, stage) ==
  /\ worker' \in [Workers -> Places]
  /\ \A v \in Workers \ {w} : worker'[v] = worker[v]
  /\ worker'[w] \in Tasks /\ worker'[w].stage = stage
  /\ worker'[w].job = worker[w].job

LEMMA WorkerGoes ==
  ASSUME worker \in [Workers -> Places], NEW w \in Workers, Running(w),
         NEW stage \in Stages, Goes(w, stage)
  PROVE  WorkerBecomes(w, stage) /\ worker'[w].named = worker[w].named
<1>1. worker[w] \in Tasks
  BY PlacesDiffer DEF Running
<1> DEFINE new == [worker[w] EXCEPT !.stage = stage]
<1>2. new \in Tasks /\ new.stage = stage /\ new.job = worker[w].job /\ new.named = worker[w].named
  BY <1>1 DEF Tasks
<1>3. worker' = [worker EXCEPT ![w] = new]
  BY DEF Goes
<1> HIDE DEF new
<1> QED
  BY <1>2, <1>3, PlacesDiffer DEF WorkerBecomes

\* One job changes, and what it becomes.
JobBecomes(k, state, owner, makers) ==
  /\ job' \in [Kinds \X Assets -> Leases]
  /\ \A l \in (Kinds \X Assets) \ {k} : job'[l] = job[l]
  /\ job'[k].state = state /\ job'[k].owner = owner /\ job'[k].makers = makers

LEMMA JobMoves ==
  ASSUME job \in [Kinds \X Assets -> Leases], NEW k \in Kinds \X Assets,
         NEW new \in Leases, job' = [job EXCEPT ![k] = new]
  PROVE  JobBecomes(k, new.state, new.owner, new.makers)
  BY DEF JobBecomes

\* What is queued is new, or was there already.
LEMMA Queueing ==
  ASSUME NEW j \in [Kinds \X Assets -> Leases], NEW kind \in Kinds, NEW a \in Assets,
         NEW makers \in BOOLEAN
  PROVE  /\ Queued(j, kind, a, makers) \in [Kinds \X Assets -> Leases]
         /\ \A l \in Kinds \X Assets : l # <<kind, a>> => Queued(j, kind, a, makers)[l] = j[l]
         /\ IF j[<<kind, a>>].state = "none"
              THEN /\ Queued(j, kind, a, makers)[<<kind, a>>].state = "pending"
                   /\ Queued(j, kind, a, makers)[<<kind, a>>].makers = makers
              ELSE Queued(j, kind, a, makers)[<<kind, a>>] = j[<<kind, a>>]
<1>1. <<kind, a>> \in Kinds \X Assets
  OBVIOUS
<1> DEFINE k == <<kind, a>>
           new == [j[k] EXCEPT !.state = "pending", !.makers = makers]
<1>2. new \in Leases /\ new.state = "pending" /\ new.makers = makers
  BY <1>1 DEF Leases
<1>3. Queued(j, kind, a, makers) = IF j[k].state = "none" THEN [j EXCEPT ![k] = new] ELSE j
  BY DEF Queued
<1> HIDE DEF new, k
<1>4. k \in Kinds \X Assets
  BY <1>1 DEF k
<1> QED
  BY <1>2, <1>3, <1>4 DEF k

\* Cancelling ends the jobs of the member who made an upload, and only those.
LEMMA Cancelling ==
  ASSUME job \in [Kinds \X Assets -> Leases], NEW a \in Assets
  PROVE  /\ Cancelled(job, a) \in [Kinds \X Assets -> Leases]
         /\ \A k \in Kinds \X Assets :
              /\ Cancelled(job, a)[k].makers = job[k].makers
              /\ Cancelled(job, a)[k].owner = job[k].owner
              /\ \/ Cancelled(job, a)[k] = job[k]
                 \/ /\ k[2] = a /\ job[k].makers /\ Cancelled(job, a)[k].state = "cancelled"
                    /\ job[k].state \in {"pending", "leased", "expired"}
              /\ k[2] = a /\ job[k].makers => Cancelled(job, a)[k].state \notin {"pending", "leased", "expired"}
<1>1. DOMAIN job = Kinds \X Assets
  OBVIOUS
<1> DEFINE new(k) == [job[k] EXCEPT !.state = "cancelled"]
<1>2. ASSUME NEW k \in Kinds \X Assets
      PROVE  new(k) \in Leases /\ new(k).state = "cancelled"
             /\ new(k).makers = job[k].makers /\ new(k).owner = job[k].owner
  BY DEF Leases
<1>3. Cancelled(job, a) =
        [k \in Kinds \X Assets |->
           IF k[2] = a /\ job[k].makers /\ job[k].state \in {"pending", "leased", "expired"}
             THEN new(k) ELSE job[k]]
  BY <1>1 DEF Cancelled
<1> HIDE DEF new
<1>4. Cancelled(job, a) \in [Kinds \X Assets -> Leases]
  BY <1>2, <1>3
<1>5. ASSUME NEW k \in Kinds \X Assets
      PROVE  Cancelled(job, a)[k] =
               IF k[2] = a /\ job[k].makers /\ job[k].state \in {"pending", "leased", "expired"}
                 THEN new(k) ELSE job[k]
  BY <1>3
<1>6. ASSUME NEW k \in Kinds \X Assets
      PROVE  /\ Cancelled(job, a)[k].makers = job[k].makers
             /\ Cancelled(job, a)[k].owner = job[k].owner
             /\ \/ Cancelled(job, a)[k] = job[k]
                \/ /\ k[2] = a /\ job[k].makers /\ Cancelled(job, a)[k].state = "cancelled"
                   /\ job[k].state \in {"pending", "leased", "expired"}
             /\ k[2] = a /\ job[k].makers => Cancelled(job, a)[k].state \notin {"pending", "leased", "expired"}
  <2> DEFINE ends == k[2] = a /\ job[k].makers /\ job[k].state \in {"pending", "leased", "expired"}
  <2>1. CASE ends
    BY ZenonT(60), <1>6, <2>1, <1>2, <1>5
  <2>2. CASE ~ends
    <3> DEFINE row == Cancelled(job, a)[k]
    <3>1. row = job[k]
      BY <1>6, <2>2, <1>5
    <3> HIDE DEF row
    <3>2. /\ row.makers = job[k].makers /\ row.owner = job[k].owner
          /\ k[2] = a /\ job[k].makers => row.state \notin {"pending", "leased", "expired"}
      BY <2>2, <3>1
    <3> QED
      BY <3>1, <3>2 DEF row
  <2> QED
    BY <2>1, <2>2
<1> QED
  BY <1>4, <1>6

LEMMA ProcessingMoves ==
  ASSUME asset \in [Assets -> Rows], NEW a \in Assets,
         NEW p \in {"awaiting_upload", "receiving", "uploaded", "processing"}, Moves(a, p)
  PROVE  RowBecomes(a, p, asset[a].deleted, asset[a].allowed, asset[a].derivative)
<1> DEFINE new == [asset[a] EXCEPT !.processing = p]
<1>1. new \in Rows /\ new.processing = p /\ new.deleted = asset[a].deleted
      /\ new.allowed = asset[a].allowed /\ new.derivative = asset[a].derivative
  BY DEF Rows
<1>2. asset' = [asset EXCEPT ![a] = new]
  BY DEF Moves
<1> HIDE DEF new
<1> QED
  BY <1>1, <1>2, RowMoves

-----------------------------------------------------------------------------
(* What each action does, one asset, job and worker at a time                 *)

LEMMA IntentEffect ==
  ASSUME TypeOK, NEW a \in Assets, intent(a)
  PROVE  /\ TypeOK'
         /\ RowBecomes(a, "awaiting_upload", asset[a].deleted, asset[a].allowed, asset[a].derivative)
<1> DEFINE new == [asset[a] EXCEPT !.processing = "awaiting_upload", !.reserved = Reservation]
<1>1. new \in Rows /\ new.processing = "awaiting_upload" /\ new.deleted = asset[a].deleted
      /\ new.allowed = asset[a].allowed /\ new.derivative = asset[a].derivative
  BY ZenonT(60) DEF TypeOK, Rows, Reservation
<1>2. asset' = [asset EXCEPT ![a] = new]
  BY DEF intent
<1> HIDE DEF new
<1>3. RowBecomes(a, "awaiting_upload", asset[a].deleted, asset[a].allowed, asset[a].derivative)
  BY <1>1, <1>2, RowMoves DEF TypeOK
<1>4. usage' \in Usages
  BY DEF intent, TypeOK, Reservation, Usages
<1> QED
  BY <1>3, <1>4 DEF intent, TypeOK, RowBecomes

\* The request of one asset goes on.
ReceiverBecomes(a, stage) ==
  /\ receiver' \in [Assets -> Receivers]
  /\ \A b \in Assets \ {a} : receiver'[b] = receiver[b]
  /\ receiver'[a] = stage

LEMMA ClaimsEffect ==
  ASSUME TypeOK, NEW a \in Assets, Claims(a)
  PROVE  /\ TypeOK' /\ ReceiverBecomes(a, "claimed")
         /\ RowBecomes(a, "receiving", asset[a].deleted, asset[a].allowed, asset[a].derivative)
<1>1. RowBecomes(a, "receiving", asset[a].deleted, asset[a].allowed, asset[a].derivative)
  BY ProcessingMoves DEF Claims, TypeOK
<1>2. ReceiverBecomes(a, "claimed")
  BY DEF Claims, TypeOK, ReceiverBecomes, Receivers
<1> QED
  BY <1>1, <1>2 DEF Claims, TypeOK, RowBecomes, ReceiverBecomes

LEMMA FileKinds ==
  \A a \in Assets : Original(a) \in Files /\ \A w \in Workers : Display(a, w) \in Files
BY DEF Original, Display, Files

LEMMA WritesOriginalEffect ==
  ASSUME TypeOK, NEW a \in Assets, WritesOriginal(a)
  PROVE  /\ TypeOK' /\ receiver[a] = "claimed"
         /\ \/ ReceiverBecomes(a, "written") /\ objects' = objects \cup {Original(a)}
            \/ ReceiverBecomes(a, "failing") /\ objects' = objects
  BY FileKinds DEF WritesOriginal, TypeOK, ReceiverBecomes, Receivers

LEMMA Faulted == TypeOK /\ Fault => faults' \in Nat /\ faults' > 0
  BY Numbers DEF Fault, TypeOK

LEMMA Mishandled ==
  ASSUME TypeOK, NEW a \in Assets, NEW kind \in MishapKinds, Mishap(kind, a)
  PROVE  /\ faults' \in Nat /\ faults' > 0 /\ mishaps' \subseteq MishapKinds \X Assets
         /\ mishaps' = mishaps \cup {<<kind, a>>}
<1>1. faults' \in Nat /\ faults' > 0
  BY Faulted DEF Mishap
<1> QED
  BY <1>1 DEF Mishap, TypeOK

\* The transaction takes effect, or it does not; if it does, its reply may be lost.
LEMMA ReceivedEffect ==
  ASSUME TypeOK, NEW a \in Assets, Received(a)
  PROVE  /\ TypeOK' /\ receiver[a] = "written"
         /\ \/ /\ StillReceiving(a)
               /\ RowBecomes(a, "uploaded", asset[a].deleted, asset[a].allowed, asset[a].derivative)
               /\ job' = Queued(job, "media", a, TRUE)
               /\ \/ ReceiverBecomes(a, "none") /\ NoFault
                  \/ ReceiverBecomes(a, "failing") /\ Mishap("reply", a) /\ faults' > 0
            \/ ReceiverBecomes(a, "failing") /\ NoFault /\ UNCHANGED <<asset, job>>
<1>1. \A stage \in {"none", "failing"} : receiver' = [receiver EXCEPT ![a] = stage] => ReceiverBecomes(a, stage)
  BY DEF TypeOK, ReceiverBecomes, Receivers
<1>2. /\ NoFault => faults' \in Nat /\ mishaps' \subseteq MishapKinds \X Assets
      /\ Mishap("reply", a) => faults' \in Nat /\ faults' > 0 /\ mishaps' \subseteq MishapKinds \X Assets
  BY Mishandled DEF NoFault, TypeOK, MishapKinds
<1>3. receiver[a] = "written" /\ UNCHANGED <<others, usage, objects, worker, records, replay>>
  BY DEF Received
<1>4. CASE Arrives(a)
  <2>1. StillReceiving(a) /\ job' = Queued(job, "media", a, TRUE)
    BY <1>4 DEF Arrives
  <2>2. RowBecomes(a, "uploaded", asset[a].deleted, asset[a].allowed, asset[a].derivative)
    BY <1>4, ProcessingMoves DEF Arrives, TypeOK
  <2>3. job' \in [Kinds \X Assets -> Leases]
    BY <2>1, Pairs, Queueing DEF TypeOK
  <2>4. CASE receiver' = [receiver EXCEPT ![a] = "none"] /\ NoFault
    <3>1. TypeOK'
      BY <1>1, <1>2, <1>3, <2>2, <2>3, <2>4 DEF TypeOK, RowBecomes, ReceiverBecomes
    <3> QED
      BY <1>1, <1>3, <2>1, <2>2, <2>4, <3>1
  <2>5. CASE receiver' = [receiver EXCEPT ![a] = "failing"] /\ Mishap("reply", a)
    <3>1. TypeOK'
      BY <1>1, <1>2, <1>3, <2>2, <2>3, <2>5 DEF TypeOK, RowBecomes, ReceiverBecomes
    <3> QED
      BY <1>1, <1>2, <1>3, <2>1, <2>2, <2>5, <3>1
  <2>6. CASE receiver' = [receiver EXCEPT ![a] = "failing"] /\ NoFault /\ UNCHANGED <<asset, job>>
    <3>1. TypeOK'
      BY <1>1, <1>2, <1>3, <2>6 DEF TypeOK, ReceiverBecomes
    <3> QED
      BY <1>1, <1>3, <2>6, <3>1
  <2> QED
    BY <2>4, <2>5, <2>6 DEF Received
<1>5. CASE ~Arrives(a)
  <2>1. receiver' = [receiver EXCEPT ![a] = "failing"] /\ NoFault /\ UNCHANGED <<asset, job>>
    BY <1>5 DEF Received
  <2>2. TypeOK'
    BY <1>1, <1>2, <1>3, <2>1 DEF TypeOK, ReceiverBecomes
  <2> QED
    BY <1>1, <1>3, <2>1, <2>2
<1> QED
  BY <1>4, <1>5

LEMMA DeletesOriginalEffect ==
  ASSUME TypeOK, NEW a \in Assets, DeletesOriginal(a)
  PROVE  /\ TypeOK' /\ receiver[a] = "failing" /\ ReceiverBecomes(a, "undoing")
         /\ objects' = objects \ {Original(a)}
  BY DEF DeletesOriginal, TypeOK, ReceiverBecomes, Receivers

LEMMA AwaitsAgainEffect ==
  ASSUME TypeOK, NEW a \in Assets, AwaitsAgain(a)
  PROVE  /\ TypeOK' /\ receiver[a] = "undoing" /\ ReceiverBecomes(a, "none")
         /\ \/ /\ asset[a].processing = "receiving"
               /\ RowBecomes(a, "awaiting_upload", asset[a].deleted, asset[a].allowed, asset[a].derivative)
            \/ asset[a].processing # "receiving" /\ UNCHANGED asset
<1>1. ReceiverBecomes(a, "none")
  BY DEF AwaitsAgain, TypeOK, ReceiverBecomes, Receivers
<1>2. CASE asset[a].processing = "receiving"
  <2>1. RowBecomes(a, "awaiting_upload", asset[a].deleted, asset[a].allowed, asset[a].derivative)
    BY <1>2, ProcessingMoves DEF AwaitsAgain, TypeOK
  <2> QED
    BY <1>1, <1>2, <2>1 DEF AwaitsAgain, TypeOK, RowBecomes, ReceiverBecomes
<1>3. CASE asset[a].processing # "receiving"
  BY <1>1, <1>3 DEF AwaitsAgain, TypeOK, ReceiverBecomes
<1> QED
  BY <1>2, <1>3

LEMMA OverdueEffect ==
  ASSUME TypeOK, NEW a \in Assets, Overdue(a)
  PROVE  /\ TypeOK'
         /\ RowBecomes(a, asset[a].processing, asset[a].deleted, asset[a].allowed, asset[a].derivative)
<1> DEFINE new == [asset[a] EXCEPT !.overdue = TRUE]
<1>1. new \in Rows /\ new.processing = asset[a].processing /\ new.deleted = asset[a].deleted
      /\ new.allowed = asset[a].allowed /\ new.derivative = asset[a].derivative
  BY ZenonT(60) DEF TypeOK, Rows
<1>2. asset' = [asset EXCEPT ![a] = new]
  BY DEF Overdue
<1> HIDE DEF new
<1>3. RowBecomes(a, asset[a].processing, asset[a].deleted, asset[a].allowed, asset[a].derivative)
  BY <1>1, <1>2, RowMoves DEF TypeOK
<1> QED
  BY <1>3 DEF Overdue, TypeOK, RowBecomes

LEMMA RemoveEffect ==
  ASSUME TypeOK, NEW a \in Assets, remove(a)
  PROVE  /\ TypeOK' /\ ~asset[a].deleted /\ records' = records \cup {a}
         /\ UNCHANGED <<others, usage, objects, receiver, worker, replay>>
         /\ \/ /\ RowBecomes(a, asset[a].processing, TRUE, asset[a].allowed, asset[a].derivative)
               /\ \E makers \in BOOLEAN : job' = Queued(job, "media-delete", a, makers)
               /\ NoFault
            \/ Mishap("record", a) /\ faults' > 0 /\ UNCHANGED <<asset, job>>
<1>1. /\ ~asset[a].deleted /\ records' = records \cup {a} /\ records' \subseteq Assets
      /\ UNCHANGED <<others, usage, objects, receiver, worker, replay>>
  BY DEF remove, TypeOK
<1>2. CASE Mishap("record", a) /\ UNCHANGED <<asset, job>>
  <2>1. faults' \in Nat /\ faults' > 0 /\ mishaps' \subseteq MishapKinds \X Assets
    BY <1>2, Mishandled DEF MishapKinds
  <2>2. TypeOK'
    BY <1>1, <1>2, <2>1 DEF TypeOK
  <2> QED
    BY <1>1, <1>2, <2>1, <2>2
<1>3. CASE /\ asset' = [asset EXCEPT ![a].deleted = TRUE] /\ NoFault
           /\ \E makers \in {FALSE, asset[a].allowed} : job' = Queued(job, "media-delete", a, makers)
  <2> DEFINE new == [asset[a] EXCEPT !.deleted = TRUE]
  <2>1. new \in Rows /\ new.processing = asset[a].processing /\ new.deleted = TRUE
        /\ new.allowed = asset[a].allowed /\ new.derivative = asset[a].derivative
    BY ZenonT(60) DEF TypeOK, Rows
  <2>2. asset' = [asset EXCEPT ![a] = new]
    BY <1>3
  <2> HIDE DEF new
  <2>3. RowBecomes(a, asset[a].processing, TRUE, asset[a].allowed, asset[a].derivative)
    BY <2>1, <2>2, RowMoves DEF TypeOK
  <2>4. asset[a].allowed \in BOOLEAN
    BY DEF TypeOK, Rows
  <2>5. PICK makers \in BOOLEAN : job' = Queued(job, "media-delete", a, makers)
    BY <1>3, <2>4
  <2>6. job' \in [Kinds \X Assets -> Leases]
    BY <2>5, Pairs, Queueing DEF TypeOK
  <2>7. TypeOK'
    BY <1>1, <1>3, <2>3, <2>6 DEF TypeOK, RowBecomes, NoFault
  <2> QED
    BY <1>1, <1>3, <2>3, <2>5, <2>7
<1> QED
  BY <1>2, <1>3 DEF remove

\* A member's account goes: its row may no longer be uploaded to.
LEMMA AccountEffect ==
  ASSUME TypeOK, NEW a \in Assets, requestAccountDeletion(a)
  PROVE  /\ TypeOK'
         /\ RowBecomes(a, asset[a].processing, asset[a].deleted, FALSE, asset[a].derivative)
         /\ UNCHANGED <<others, usage, objects, job, receiver, worker, records, replay, faults, mishaps>>
<1> DEFINE new == [asset[a] EXCEPT !.account = FALSE, !.allowed = FALSE]
<1>1. new \in Rows /\ new.processing = asset[a].processing /\ new.deleted = asset[a].deleted
      /\ new.allowed = FALSE /\ new.derivative = asset[a].derivative
  BY ZenonT(60) DEF TypeOK, Rows
<1>2. asset' = [asset EXCEPT ![a] = new]
  BY DEF requestAccountDeletion
<1> HIDE DEF new
<1>3. RowBecomes(a, asset[a].processing, asset[a].deleted, FALSE, asset[a].derivative)
  BY <1>1, <1>2, RowMoves DEF TypeOK
<1> QED
  BY <1>3 DEF requestAccountDeletion, TypeOK, RowBecomes

LEMMA SweepEffect ==
  ASSUME TypeOK, NEW a \in Assets, sweep(a)
  PROVE  /\ TypeOK' /\ asset[a].processing \in {"awaiting_upload", "receiving"}
         /\ RowBecomes(a, "expired", asset[a].deleted, asset[a].allowed, asset[a].derivative)
         /\ job' = Queued(job, "media-delete", a, TRUE)
<1> DEFINE new == [asset[a] EXCEPT !.processing = "expired", !.reserved = 0]
<1>1. new \in Rows /\ new.processing = "expired" /\ new.deleted = asset[a].deleted
      /\ new.allowed = asset[a].allowed /\ new.derivative = asset[a].derivative
  BY ZenonT(60) DEF TypeOK, Rows
<1>2. asset' = [asset EXCEPT ![a] = new]
  BY DEF sweep
<1> HIDE DEF new
<1>3. RowBecomes(a, "expired", asset[a].deleted, asset[a].allowed, asset[a].derivative)
  BY <1>1, <1>2, RowMoves DEF TypeOK
<1>4. usage' \in Usages
  <2>1. asset[a].reserved \in Nat
    BY DEF TypeOK, Rows
  <2> QED
    BY <2>1 DEF sweep, WithoutReservation, TypeOK, Usages
<1>5. job' \in [Kinds \X Assets -> Leases]
  BY Pairs, Queueing DEF TypeOK, sweep
<1> QED
  BY <1>3, <1>4, <1>5 DEF sweep, Unfinished, TypeOK, RowBecomes

LEMMA RemoveMemberEffect ==
  ASSUME TypeOK, NEW a \in Assets, removeMember(a)
  PROVE  /\ TypeOK' /\ asset[a].allowed
         /\ \/ /\ ~asset[a].deleted
               /\ asset[a].processing \in {"awaiting_upload", "receiving", "uploaded", "processing"}
               /\ RowBecomes(a, "expired", asset[a].deleted, FALSE, asset[a].derivative)
               /\ job' = Queued(Cancelled(job, a), "media-delete", a, FALSE)
            \/ /\ \/ asset[a].deleted
                  \/ asset[a].processing \notin {"awaiting_upload", "receiving", "uploaded", "processing"}
               /\ RowBecomes(a, asset[a].processing, asset[a].deleted, FALSE, asset[a].derivative)
               /\ job' = Cancelled(job, a)
<1> DEFINE early == asset[a].processing \in {"awaiting_upload", "receiving", "uploaded", "processing"}
                    /\ ~asset[a].deleted
           ended == [asset[a] EXCEPT !.processing = "expired", !.reserved = 0, !.allowed = FALSE]
           other == [asset[a] EXCEPT !.allowed = FALSE]
<1>1. /\ ended \in Rows /\ ended.processing = "expired" /\ ended.deleted = asset[a].deleted
      /\ ended.allowed = FALSE /\ ended.derivative = asset[a].derivative
  BY ZenonT(60) DEF TypeOK, Rows
<1>2. /\ other \in Rows /\ other.processing = asset[a].processing /\ other.deleted = asset[a].deleted
      /\ other.allowed = FALSE /\ other.derivative = asset[a].derivative
  BY ZenonT(60) DEF TypeOK, Rows
<1>3. early => asset' = [asset EXCEPT ![a] = ended]
  BY DEF removeMember
<1>4. ~early => asset' = [asset EXCEPT ![a] = other]
  BY DEF removeMember
<1> HIDE DEF ended, other
<1>5. CASE early
  <2>1. RowBecomes(a, "expired", asset[a].deleted, FALSE, asset[a].derivative)
    BY <1>5, <1>1, <1>3, RowMoves DEF TypeOK
  <2>2. job' = Queued(Cancelled(job, a), "media-delete", a, FALSE)
    BY <1>5 DEF removeMember
  <2>3. job' \in [Kinds \X Assets -> Leases]
    BY <2>2, Pairs, Queueing, Cancelling DEF TypeOK
  <2>4. usage' \in Usages
    <3>1. asset[a].reserved \in Nat
      BY DEF TypeOK, Rows
    <3> QED
      BY <1>5, <3>1 DEF removeMember, WithoutReservation, TypeOK, Usages
  <2>5. UNCHANGED <<others, objects, receiver, worker, records, replay, faults, mishaps>> /\ asset[a].allowed
    BY DEF removeMember
  <2>6. TypeOK'
    BY <2>1, <2>3, <2>4, <2>5 DEF TypeOK, RowBecomes
  <2> QED
    BY <1>5, <2>1, <2>2, <2>5, <2>6
<1>6. CASE ~early
  <2>1. RowBecomes(a, asset[a].processing, asset[a].deleted, FALSE, asset[a].derivative)
    BY ZenonT(60), <1>6, <1>2, <1>4, RowMoves DEF TypeOK
  <2>2. job' = Cancelled(job, a)
    BY <1>6 DEF removeMember
  <2>3. job' \in [Kinds \X Assets -> Leases]
    BY <2>2, Cancelling DEF TypeOK
  <2> QED
    BY <1>6, <2>1, <2>2, <2>3 DEF removeMember, TypeOK, RowBecomes
<1> QED
  BY <1>5, <1>6

LEMMA TaskOf ==
  ASSUME TypeOK, NEW w \in Workers, Running(w)
  PROVE  /\ worker[w] \in Tasks /\ worker[w].job \in Kinds \X Assets
         /\ Asset(w) \in Assets /\ worker[w].job[1] \in Kinds
         /\ worker[w].job = <<worker[w].job[1], Asset(w)>>
         /\ On(w, worker[w].job[1], Asset(w))
<1>1. worker[w] \in Tasks
  BY PlacesDiffer DEF Running, TypeOK
<1>2. worker[w].job \in Kinds \X Assets
  BY <1>1, PlacesDiffer
<1> QED
  BY <1>1, <1>2, Pairs DEF Asset, On

\* A stage tells the kind of job, unless it belongs to both.
LEMMA KindOf ==
  ASSUME TypeOK, NEW w \in Workers, Running(w), StageFits(w)
  PROVE  /\ worker[w].stage \notin DeleteStages => worker[w].job[1] = "media" /\ On(w, "media", Asset(w))
         /\ worker[w].stage \notin MediaStages =>
              worker[w].job[1] = "media-delete" /\ On(w, "media-delete", Asset(w))
  BY TaskOf DEF StageFits, Kinds

LEMMA LeaseEffect ==
  ASSUME TypeOK, NEW w \in Workers, lease(w)
  PROVE  /\ TypeOK' /\ worker[w].stage = "idle"
         /\ \E k \in Kinds \X Assets :
              /\ job[k].state \in {"pending", "expired"}
              /\ JobBecomes(k, "leased", w, job[k].makers)
              /\ worker' \in [Workers -> Places]
              /\ \A v \in Workers \ {w} : worker'[v] = worker[v]
              /\ worker'[w] \in Tasks /\ worker'[w].stage = "leased" /\ worker'[w].job = k
<1>1. PICK k \in Kinds \X Assets :
        /\ job[k].state \in {"pending", "expired"}
        /\ job' = [job EXCEPT ![k] = [job[k] EXCEPT !.state = "leased", !.owner = w]]
        /\ worker' = [worker EXCEPT ![w] = [stage |-> "leased", job |-> k, named |-> Nobody]]
  BY ZenonT(60) DEF lease
<1> DEFINE new == [job[k] EXCEPT !.state = "leased", !.owner = w]
           task == [stage |-> "leased", job |-> k, named |-> Nobody]
<1>2. new \in Leases /\ new.state = "leased" /\ new.owner = w /\ new.makers = job[k].makers
  BY DEF TypeOK, Leases
<1>3. task \in Tasks /\ task.stage = "leased" /\ task.job = k
  BY DEF Tasks, Stages, DeleteStages
<1>4. job' = [job EXCEPT ![k] = new] /\ worker' = [worker EXCEPT ![w] = task]
  BY <1>1
<1> HIDE DEF new, task
<1>5. JobBecomes(k, "leased", w, job[k].makers)
  BY <1>2, <1>4, JobMoves DEF TypeOK
<1>6. /\ worker' \in [Workers -> Places]
      /\ \A v \in Workers \ {w} : worker'[v] = worker[v]
      /\ worker'[w] \in Tasks /\ worker'[w].stage = "leased" /\ worker'[w].job = k
  BY <1>3, <1>4, PlacesDiffer DEF TypeOK
<1>7. worker[w].stage = "idle" /\ UNCHANGED <<others, asset, usage, objects, receiver, records, replay, faults, mishaps>>
  BY DEF lease, AtStage
<1>8. TypeOK'
  BY <1>5, <1>6, <1>7 DEF TypeOK, JobBecomes
<1> QED
  BY <1>1, <1>5, <1>6, <1>7, <1>8

LEMMA ReadsAssetEffect ==
  ASSUME TypeOK, NEW w \in Workers, ReadsAsset(w)
  PROVE  /\ TypeOK' /\ worker[w].stage = "leased" /\ Running(w)
         /\ \E stage \in {"deleting", "done", "failed", "rejecting", "starting"} :
              /\ WorkerBecomes(w, stage)
              /\ stage = "deleting" => worker'[w].named = asset[Asset(w)].derivative
              /\ worker[w].job[1] = "media-delete" <=> stage = "deleting"
              /\ stage = "done" => asset[Asset(w)].processing = "ready"
              /\ stage = "failed" => asset[Asset(w)].deleted
              /\ stage \in {"failed", "rejecting", "starting"} => asset[Asset(w)].processing # "ready"
         /\ UNCHANGED <<others, asset, usage, objects, job, receiver, records, replay, faults, mishaps>>
<1> DEFINE a == Asset(w)
           stage == CASE worker[w].job[1] = "media-delete" -> "deleting"
                      [] worker[w].job[1] = "media" /\ asset[a].processing = "ready" -> "done"
                      [] worker[w].job[1] = "media" /\ asset[a].processing # "ready" /\ asset[a].deleted -> "failed"
                      [] worker[w].job[1] = "media" /\ asset[a].processing # "ready" /\ ~asset[a].deleted
                           /\ ~asset[a].account -> "rejecting"
                      [] OTHER -> "starting"
           named == IF stage = "deleting" THEN asset[a].derivative ELSE Nobody
           new == [worker[w] EXCEPT !.stage = stage, !.named = named]
<1>1. worker[w].stage = "leased" /\ Running(w)
  BY DEF ReadsAsset, AtStage, Running
<1>2. worker[w] \in Tasks /\ a \in Assets /\ worker[w].job[1] \in Kinds
  BY <1>1, TaskOf
<1>3. /\ stage \in {"deleting", "done", "failed", "rejecting", "starting"}
      /\ worker[w].job[1] = "media-delete" <=> stage = "deleting"
      /\ stage = "done" => asset[a].processing = "ready"
      /\ stage = "failed" => asset[a].deleted
      /\ stage \in {"failed", "rejecting", "starting"} => asset[a].processing # "ready"
  BY <1>2 DEF Kinds
<1>4. worker' = [worker EXCEPT ![w] = new]
  BY DEF ReadsAsset
<1> HIDE DEF stage
<1>5. stage \in Stages /\ named \in Workers \cup {Nobody} /\ (stage = "deleting" => named = asset[a].derivative)
  BY <1>2, <1>3 DEF TypeOK, Rows, Stages, MediaStages, DeleteStages, Early
<1> HIDE DEF named
<1>6. new \in Tasks /\ new.stage = stage /\ new.job = worker[w].job /\ new.named = named
  BY <1>2, <1>5 DEF Tasks
<1> HIDE DEF new
<1>7. WorkerBecomes(w, stage) /\ worker'[w].named = named
  BY <1>4, <1>6, PlacesDiffer DEF WorkerBecomes, TypeOK
<1>8. UNCHANGED <<others, asset, usage, objects, job, receiver, records, replay, faults, mishaps>>
  BY DEF ReadsAsset
<1>9. TypeOK'
  BY <1>7, <1>8 DEF TypeOK, WorkerBecomes
<1> QED
  BY <1>1, <1>3, <1>5, <1>7, <1>8, <1>9

LEMMA Staging == /\ Early \subseteq Stages /\ MediaStages \subseteq Stages /\ DeleteStages \subseteq Stages
  BY DEF Stages, MediaStages

LEMMA ChecksScopeEffect ==
  ASSUME TypeOK, NEW w \in Workers, ChecksScope(w)
  PROVE  /\ TypeOK' /\ worker[w].stage = "starting" /\ Running(w)
         /\ \E stage \in {"marking", "clearing"} : WorkerBecomes(w, stage)
         /\ worker'[w].named = worker[w].named
         /\ UNCHANGED <<others, asset, usage, objects, job, receiver, records, replay, faults, mishaps>>
<1>1. worker[w].stage = "starting" /\ Running(w)
  BY DEF ChecksScope, AtStage, Running
<1>2. UNCHANGED <<others, asset, usage, objects, job, receiver, records, replay, faults, mishaps>>
  BY DEF ChecksScope
<1>3. PICK stage \in {"marking", "clearing"} : Goes(w, stage)
  BY DEF ChecksScope
<1>4. WorkerBecomes(w, stage) /\ worker'[w].named = worker[w].named
  BY <1>1, <1>3, Staging, WorkerGoes DEF TypeOK, Early
<1>5. TypeOK'
  BY <1>2, <1>4 DEF TypeOK, WorkerBecomes
<1> QED
  BY <1>1, <1>2, <1>4, <1>5

LEMMA MarksEffect ==
  ASSUME TypeOK, NEW w \in Workers, Marks(w)
  PROVE  /\ TypeOK' /\ worker[w].stage = "marking" /\ Running(w) /\ WorkerBecomes(w, "reading")
         /\ RowBecomes(Asset(w), "processing", asset[Asset(w)].deleted, asset[Asset(w)].allowed,
                       asset[Asset(w)].derivative)
         /\ UNCHANGED <<others, usage, objects, job, receiver, records, replay, faults, mishaps>>
<1>1. worker[w].stage = "marking" /\ Running(w)
  BY DEF Marks, AtStage, Running
<1>2. WorkerBecomes(w, "reading")
  BY <1>1, Staging, WorkerGoes DEF Marks, TypeOK, Early
<1>3. RowBecomes(Asset(w), "processing", asset[Asset(w)].deleted, asset[Asset(w)].allowed,
                 asset[Asset(w)].derivative)
  <2>1. Asset(w) \in Assets
    BY <1>1, TaskOf
  <2> QED
    BY <2>1, ProcessingMoves DEF Marks, TypeOK
<1>4. UNCHANGED <<others, usage, objects, job, receiver, records, replay, faults, mishaps>>
  BY DEF Marks
<1>5. TypeOK'
  BY <1>2, <1>3, <1>4 DEF TypeOK, WorkerBecomes, RowBecomes
<1> QED
  BY <1>1, <1>2, <1>3, <1>4, <1>5

LEMMA ConvertsEffect ==
  ASSUME TypeOK, NEW w \in Workers, Converts(w)
  PROVE  /\ TypeOK' /\ worker[w].stage = "reading" /\ Running(w)
         /\ \/ WorkerBecomes(w, "writing") /\ Original(Asset(w)) \in objects
            \/ WorkerBecomes(w, "clearing")
         /\ UNCHANGED <<others, asset, usage, objects, job, receiver, records, replay, faults, mishaps>>
<1>1. worker[w].stage = "reading" /\ Running(w)
  BY DEF Converts, AtStage, Running
<1>2. UNCHANGED <<others, asset, usage, objects, job, receiver, records, replay, faults, mishaps>>
  BY DEF Converts
<1>3. \/ WorkerBecomes(w, "writing") /\ Original(Asset(w)) \in objects
      \/ WorkerBecomes(w, "clearing")
  BY <1>1, Staging, WorkerGoes DEF Converts, TypeOK, Early
<1>4. TypeOK'
  BY <1>2, <1>3 DEF TypeOK, WorkerBecomes
<1> QED
  BY <1>1, <1>2, <1>3, <1>4

LEMMA WritesDisplayEffect ==
  ASSUME TypeOK, NEW w \in Workers, WritesDisplay(w)
  PROVE  /\ TypeOK' /\ worker[w].stage = "writing" /\ Running(w) /\ WorkerBecomes(w, "committing")
         /\ objects' = objects \cup {Display(Asset(w), w)}
         /\ UNCHANGED <<others, asset, usage, job, receiver, records, replay, faults, mishaps>>
<1>1. worker[w].stage = "writing" /\ Running(w)
  BY DEF WritesDisplay, AtStage, Running
<1>2. WorkerBecomes(w, "committing")
  BY <1>1, Staging, WorkerGoes DEF WritesDisplay, TypeOK, Early
<1>3. /\ objects' = objects \cup {Display(Asset(w), w)}
      /\ UNCHANGED <<others, asset, usage, job, receiver, records, replay, faults, mishaps>>
  BY DEF WritesDisplay
<1>4. Display(Asset(w), w) \in Files
  BY <1>1, TaskOf, FileKinds
<1>5. TypeOK'
  BY <1>2, <1>3, <1>4 DEF TypeOK, WorkerBecomes
<1> QED
  BY <1>1, <1>2, <1>3, <1>5

LEMMA FinishesEffect ==
  ASSUME TypeOK, NEW w \in Workers, Asset(w) \in Assets, NEW total \in Totals, Finishes(w, total)
  PROVE  /\ Holds(w) /\ MayCommit(w) /\ usage' \in Usages
         /\ RowBecomes(Asset(w), "ready", asset[Asset(w)].deleted, asset[Asset(w)].allowed, w)
<1> DEFINE a == Asset(w)
           new == [asset[a] EXCEPT !.processing = "ready", !.reserved = 0, !.actual = total, !.derivative = w]
<1>1. /\ Holds(w) /\ MayCommit(w) /\ asset' = [asset EXCEPT ![a] = new]
      /\ usage' = [stored |-> usage.stored + total, reserved |-> usage.reserved - asset[a].reserved]
  BY DEF Finishes
<1>2. total \in Nat
  BY DEF Totals
<1>3. /\ new \in Rows /\ new.processing = "ready" /\ new.deleted = asset[a].deleted
      /\ new.allowed = asset[a].allowed /\ new.derivative = w
  BY ZenonT(60), <1>2 DEF TypeOK, Rows
<1> HIDE DEF new
<1>4. RowBecomes(a, "ready", asset[a].deleted, asset[a].allowed, w)
  BY <1>1, <1>3, RowMoves DEF TypeOK
<1>5. usage' \in Usages
  <2>1. asset[a].reserved \in Nat
    BY DEF TypeOK, Rows
  <2> QED
    BY <1>1, <1>2, <2>1 DEF TypeOK, Usages
<1> QED
  BY <1>1, <1>4, <1>5

LEMMA CommitsEffect ==
  ASSUME TypeOK, NEW w \in Workers, Commits(w)
  PROVE  /\ TypeOK' /\ worker[w].stage = "committing" /\ Running(w)
         /\ \/ /\ Holds(w) /\ MayCommit(w)
               /\ RowBecomes(Asset(w), "ready", asset[Asset(w)].deleted, asset[Asset(w)].allowed, w)
               /\ \/ WorkerBecomes(w, "done") /\ NoFault
                  \/ WorkerBecomes(w, "clearing") /\ Mishap("reply", Asset(w)) /\ faults' > 0
            \/ /\ UNCHANGED asset /\ NoFault
               /\ \/ Holds(w) /\ WorkerBecomes(w, "clearing")
                  \/ ~Holds(w) /\ WorkerBecomes(w, "lost")
         /\ UNCHANGED <<others, objects, job, receiver, records, replay>>
<1>1. worker[w].stage = "committing" /\ Running(w)
  BY DEF Commits, AtStage, Running
<1>2. Asset(w) \in Assets
  BY <1>1, TaskOf
<1>3. UNCHANGED <<others, objects, job, receiver, records, replay>>
  BY DEF Commits
<1>4. \A stage \in {"done", "clearing", "lost"} : Goes(w, stage) => WorkerBecomes(w, stage)
  BY <1>1, Staging, WorkerGoes DEF TypeOK, DeleteStages, Early, MediaStages
<1>5. ASSUME NEW total \in Totals, Finishes(w, total), Goes(w, "done"), NoFault
      PROVE  TypeOK'
  BY <1>2, <1>3, <1>4, <1>5, FinishesEffect DEF TypeOK, RowBecomes, WorkerBecomes, NoFault
<1>6. ASSUME NEW total \in Totals, Finishes(w, total), Goes(w, "clearing"), Mishap("reply", Asset(w))
      PROVE  TypeOK' /\ faults' > 0
  <2>1. faults' \in Nat /\ faults' > 0 /\ mishaps' \subseteq MishapKinds \X Assets
    BY <1>2, <1>6, Mishandled DEF MishapKinds
  <2> QED
    BY <1>2, <1>3, <1>4, <1>6, <2>1, FinishesEffect DEF TypeOK, RowBecomes, WorkerBecomes
<1>7. CASE Goes(w, IF Holds(w) THEN "clearing" ELSE "lost") /\ NoFault /\ UNCHANGED <<usage, asset>>
  <2>1. \/ Holds(w) /\ WorkerBecomes(w, "clearing")
        \/ ~Holds(w) /\ WorkerBecomes(w, "lost")
    BY <1>4, <1>7
  <2>2. TypeOK'
    BY <1>3, <1>7, <2>1 DEF TypeOK, WorkerBecomes, NoFault
  <2> QED
    BY <1>1, <1>3, <1>7, <2>1, <2>2
<1> QED
  BY <1>1, <1>2, <1>3, <1>4, <1>5, <1>6, <1>7, FinishesEffect DEF Commits

LEMMA ClearsDisplayEffect ==
  ASSUME TypeOK, NEW w \in Workers, ClearsDisplay(w)
  PROVE  /\ TypeOK' /\ Running(w) /\ objects' = objects \ {Display(Asset(w), w)}
         /\ \/ worker[w].stage = "clearing" /\ WorkerBecomes(w, "judging")
            \/ worker[w].stage = "lost" /\ WorkerBecomes(w, "failed")
         /\ UNCHANGED <<others, asset, usage, job, receiver, records, replay, faults, mishaps>>
<1>1. worker[w].stage \in {"clearing", "lost"} /\ Running(w)
  BY DEF ClearsDisplay, Running
<1>2. \/ worker[w].stage = "clearing" /\ WorkerBecomes(w, "judging")
      \/ worker[w].stage = "lost" /\ WorkerBecomes(w, "failed")
  BY <1>1, Staging, WorkerGoes DEF ClearsDisplay, AtStage, TypeOK, Early, MediaStages
<1>3. /\ objects' = objects \ {Display(Asset(w), w)}
      /\ UNCHANGED <<others, asset, usage, job, receiver, records, replay, faults, mishaps>>
  BY DEF ClearsDisplay
<1>4. TypeOK'
  BY <1>2, <1>3 DEF TypeOK, WorkerBecomes
<1> QED
  BY <1>1, <1>2, <1>3, <1>4

LEMMA JudgesEffect ==
  ASSUME TypeOK, NEW w \in Workers, Judges(w)
  PROVE  /\ TypeOK' /\ Running(w) /\ worker[w].stage = "judging"
         /\ \/ /\ Holds(w) /\ asset[Asset(w)].processing # "ready"
               /\ WorkerBecomes(w, "rejecting")
            \/ /\ ~(Holds(w) /\ asset[Asset(w)].processing # "ready")
               /\ WorkerBecomes(w, "failed")
         /\ UNCHANGED <<others, asset, usage, objects, job, receiver, records, replay, faults, mishaps>>
<1>1. worker[w].stage = "judging" /\ Running(w)
  BY DEF Judges, AtStage, Running
<1>2. \/ /\ Holds(w) /\ asset[Asset(w)].processing # "ready" /\ WorkerBecomes(w, "rejecting")
      \/ /\ ~(Holds(w) /\ asset[Asset(w)].processing # "ready") /\ WorkerBecomes(w, "failed")
  BY <1>1, Staging, WorkerGoes DEF Judges, TypeOK, Early, MediaStages
<1>3. UNCHANGED <<others, asset, usage, objects, job, receiver, records, replay, faults, mishaps>>
  BY DEF Judges
<1>4. TypeOK'
  BY <1>2, <1>3 DEF TypeOK, WorkerBecomes
<1> QED
  BY <1>1, <1>2, <1>3, <1>4

LEMMA DeletesFilesEffect ==
  ASSUME TypeOK, NEW w \in Workers, DeletesFiles(w)
  PROVE  /\ TypeOK' /\ Running(w)
         /\ \/ /\ worker[w].stage = "rejecting" /\ WorkerBecomes(w, "rejected")
               /\ objects' = objects \ {Original(Asset(w))}
            \/ /\ worker[w].stage = "deleting" /\ WorkerBecomes(w, "expired")
               /\ objects' = objects \ {Original(Asset(w)), Display(Asset(w), worker[w].named)}
         /\ UNCHANGED <<others, asset, usage, job, receiver, records, replay, faults, mishaps>>
<1>1. worker[w].stage \in {"rejecting", "deleting"} /\ Running(w)
  BY DEF DeletesFiles, AtStage, Running
<1>2. \/ /\ worker[w].stage = "rejecting" /\ WorkerBecomes(w, "rejected")
         /\ objects' = objects \ {Original(Asset(w))}
      \/ /\ worker[w].stage = "deleting" /\ WorkerBecomes(w, "expired")
         /\ objects' = objects \ {Original(Asset(w)), Display(Asset(w), worker[w].named)}
  BY <1>1, Staging, WorkerGoes DEF DeletesFiles, AtStage, TypeOK, DeleteStages, MediaStages
<1>3. UNCHANGED <<others, asset, usage, job, receiver, records, replay, faults, mishaps>>
  BY DEF DeletesFiles
<1>4. TypeOK'
  BY <1>2, <1>3 DEF TypeOK, WorkerBecomes
<1> QED
  BY <1>1, <1>2, <1>3, <1>4

LEMMA ReleaseEffect ==
  ASSUME TypeOK, NEW w \in Workers, release(w)
  PROVE  /\ TypeOK' /\ Running(w)
         /\ RowBecomes(Asset(w), worker[w].stage, asset[Asset(w)].deleted, asset[Asset(w)].allowed,
                       asset[Asset(w)].derivative)
         /\ \/ worker[w].stage = "rejected" /\ WorkerBecomes(w, "failed")
            \/ worker[w].stage = "expired" /\ WorkerBecomes(w, "done")
         /\ UNCHANGED <<others, objects, job, receiver, records, replay, faults, mishaps>>
<1> DEFINE a == Asset(w)
<1>1. worker[w].stage \in {"rejected", "expired"} /\ Running(w)
  BY DEF release, Running
<1>2. a \in Assets
  BY <1>1, TaskOf
<1>3. UNCHANGED <<others, objects, job, receiver, records, replay, faults, mishaps>>
  BY DEF release
<1> DEFINE new == [asset[a] EXCEPT !.processing = worker[w].stage, !.reserved = 0, !.actual = 0]
<1>4. /\ new \in Rows /\ new.processing = worker[w].stage /\ new.deleted = asset[a].deleted
      /\ new.allowed = asset[a].allowed /\ new.derivative = asset[a].derivative
  BY ZenonT(60), <1>1, <1>2 DEF TypeOK, Rows
<1>5. asset' = [asset EXCEPT ![a] = new]
  BY DEF release
<1> HIDE DEF new
<1>6. RowBecomes(a, worker[w].stage, asset[a].deleted, asset[a].allowed, asset[a].derivative)
  BY <1>2, <1>4, <1>5, RowMoves DEF TypeOK
<1>7. \/ worker[w].stage = "rejected" /\ WorkerBecomes(w, "failed")
      \/ worker[w].stage = "expired" /\ WorkerBecomes(w, "done")
  BY <1>1, Staging, WorkerGoes DEF release, AtStage, TypeOK, DeleteStages, MediaStages
<1>8. usage' \in Usages
  <2>1. asset[a].reserved \in Nat /\ asset[a].actual \in Nat
    BY <1>2 DEF TypeOK, Rows
  <2> QED
    BY <2>1 DEF release, GivenBack, TypeOK, Usages
<1>9. TypeOK'
  BY <1>3, <1>6, <1>7, <1>8 DEF TypeOK, RowBecomes, WorkerBecomes
<1> QED
  BY <1>1, <1>3, <1>6, <1>7, <1>9

Ended(j, state) == [j EXCEPT !.state = state, !.owner = Nobody]

\* A job that ends is nobody's; one whose lease runs out or is renewed keeps its owner.
LEMMA JobEnds ==
  ASSUME TypeOK, NEW w \in Workers, Running(w), NEW state \in {"succeeded", "failed"},
         job' = [job EXCEPT ![worker[w].job] = Ended(job[worker[w].job], state)]
  PROVE  JobBecomes(worker[w].job, state, Nobody, job[worker[w].job].makers)
<1> DEFINE k == worker[w].job
           new == Ended(job[k], state)
<1>1. k \in Kinds \X Assets
  BY TaskOf
<1>2. new \in Leases /\ new.state = state /\ new.owner = Nobody /\ new.makers = job[k].makers
  BY ZenonT(60), <1>1 DEF TypeOK, Leases, Ended
<1>3. job' = [job EXCEPT ![k] = new]
  OBVIOUS
<1> HIDE DEF new
<1> QED
  BY <1>1, <1>2, <1>3, JobMoves DEF TypeOK

LEMMA LeaseMoves ==
  ASSUME TypeOK, NEW w \in Workers, Running(w), NEW state \in {"leased", "expired"},
         job' = [job EXCEPT ![worker[w].job] = [job[worker[w].job] EXCEPT !.state = state]]
  PROVE  JobBecomes(worker[w].job, state, job[worker[w].job].owner, job[worker[w].job].makers)
<1> DEFINE k == worker[w].job
           new == [job[k] EXCEPT !.state = state]
<1>1. k \in Kinds \X Assets
  BY TaskOf
<1>2. new \in Leases /\ new.state = state /\ new.owner = job[k].owner /\ new.makers = job[k].makers
  BY <1>1 DEF TypeOK, Leases
<1>3. job' = [job EXCEPT ![k] = new]
  OBVIOUS
<1> HIDE DEF new
<1> QED
  BY <1>1, <1>2, <1>3, JobMoves DEF TypeOK

\* A worker that is done has no job any more.
WorkerStops(w, place) ==
  /\ worker' \in [Workers -> Places]
  /\ \A v \in Workers \ {w} : worker'[v] = worker[v]
  /\ worker'[w] = place /\ ~Running(w)'

LEMMA SettlesEffect ==
  ASSUME TypeOK, NEW w \in Workers, Settles(w)
  PROVE  /\ TypeOK' /\ Running(w) /\ worker[w].stage \in {"done", "failed"}
         /\ WorkerStops(w, Idle)
         /\ \/ /\ Owns(w)
               /\ \E state \in {"succeeded", "failed"} :
                    /\ state = "succeeded" <=> worker[w].stage = "done"
                    /\ JobBecomes(worker[w].job, state, Nobody, job[worker[w].job].makers)
            \/ ~Owns(w) /\ job' = job
         /\ UNCHANGED <<others, asset, usage, objects, receiver, records, replay, faults, mishaps>>
<1>1. worker[w].stage \in {"done", "failed"} /\ Running(w)
  BY DEF Settles, Running
<1>2. WorkerStops(w, Idle)
  BY PlacesDiffer DEF Settles, TypeOK, WorkerStops, Running
<1>3. UNCHANGED <<others, asset, usage, objects, receiver, records, replay, faults, mishaps>>
  BY DEF Settles
<1>4. PICK state \in {"succeeded", "failed"} :
        /\ state = "succeeded" <=> worker[w].stage = "done"
        /\ job' = IF Owns(w) THEN [job EXCEPT ![worker[w].job] = Ended(job[worker[w].job], state)]
                   ELSE job
  BY <1>1 DEF Settles, AtStage, Ended
<1>5. \/ Owns(w) /\ JobBecomes(worker[w].job, state, Nobody, job[worker[w].job].makers)
      \/ ~Owns(w) /\ job' = job
  <2>1. CASE Owns(w)
    BY <1>1, <1>4, <2>1, JobEnds
  <2>2. CASE ~Owns(w)
    BY <1>4, <2>2
  <2> QED
    BY <2>1, <2>2
<1>6. TypeOK'
  BY <1>2, <1>3, <1>5 DEF TypeOK, WorkerStops, JobBecomes
<1> QED
  BY <1>1, <1>2, <1>3, <1>4, <1>5, <1>6

LEMMA OthersUseEffect ==
  ASSUME TypeOK, OthersUse
  PROVE  TypeOK' /\ UNCHANGED <<asset, objects, job, receiver, worker, records, replay, faults, mishaps>>
<1>1. others' \in Nat
  BY MediaNumbersAssumption DEF OthersUse
<1>2. usage' \in Usages
  BY <1>1 DEF OthersUse, TypeOK, Usages
<1> QED
  BY <1>1, <1>2 DEF OthersUse, TypeOK

LEMMA GivesUpEffect ==
  ASSUME TypeOK, NEW w \in Workers, GivesUp(w)
  PROVE  /\ TypeOK' /\ Running(w) /\ WorkerBecomes(w, "failed")
         /\ Mishap("undone", Asset(w)) /\ faults' > 0
         /\ UNCHANGED <<others, asset, usage, objects, job, receiver, records, replay>>
<1>1. Running(w)
  BY DEF GivesUp, Running
<1>2. WorkerBecomes(w, "failed")
  BY <1>1, Staging, WorkerGoes DEF GivesUp, TypeOK, MediaStages
<1>3. Mishap("undone", Asset(w)) /\ UNCHANGED <<others, asset, usage, objects, job, receiver, records, replay>>
  BY DEF GivesUp
<1>4. faults' \in Nat /\ faults' > 0 /\ mishaps' \subseteq MishapKinds \X Assets
  BY <1>1, <1>3, TaskOf, Mishandled DEF MishapKinds
<1>5. TypeOK'
  BY <1>2, <1>3, <1>4 DEF TypeOK, WorkerBecomes
<1> QED
  BY <1>1, <1>2, <1>3, <1>4, <1>5

LEMMA StallsEffect ==
  ASSUME TypeOK, NEW w \in Workers, Stalls(w)
  PROVE  /\ TypeOK' /\ Running(w) /\ Mishap("lease", Asset(w)) /\ faults' > 0
         /\ job[worker[w].job].state = "leased"
         /\ JobBecomes(worker[w].job, "expired", job[worker[w].job].owner, job[worker[w].job].makers)
         /\ UNCHANGED <<others, asset, usage, objects, receiver, worker, records, replay>>
<1>1. Running(w) /\ Holds(w)
  BY DEF Stalls, Running
<1>2. JobBecomes(worker[w].job, "expired", job[worker[w].job].owner, job[worker[w].job].makers)
  BY <1>1, LeaseMoves DEF Stalls, LeaseRunsOut
<1>3. /\ Mishap("lease", Asset(w)) /\ job[worker[w].job].state = "leased"
      /\ UNCHANGED <<others, asset, usage, objects, receiver, worker, records, replay>>
  BY <1>1 DEF Stalls, Holds
<1>4. faults' \in Nat /\ faults' > 0 /\ mishaps' \subseteq MishapKinds \X Assets
  BY <1>1, <1>3, TaskOf, Mishandled DEF MishapKinds
<1>5. TypeOK'
  BY <1>2, <1>3, <1>4 DEF TypeOK, JobBecomes
<1> QED
  BY <1>1, <1>2, <1>3, <1>4, <1>5

LEMMA RenewsEffect ==
  ASSUME TypeOK, NEW w \in Workers, Renews(w)
  PROVE  /\ TypeOK' /\ Running(w) /\ ~Holds(w) /\ job[worker[w].job].state = "expired"
         /\ JobBecomes(worker[w].job, "leased", job[worker[w].job].owner, job[worker[w].job].makers)
         /\ UNCHANGED <<others, asset, usage, objects, receiver, worker, records, replay, faults, mishaps>>
<1>1. Running(w) /\ ~Holds(w) /\ job[worker[w].job].state = "expired"
  BY DEF Renews, Running, Owns, Holds
<1>2. JobBecomes(worker[w].job, "leased", job[worker[w].job].owner, job[worker[w].job].makers)
  BY <1>1, LeaseMoves DEF Renews
<1>3. UNCHANGED <<others, asset, usage, objects, receiver, worker, records, replay, faults, mishaps>>
  BY DEF Renews
<1>4. TypeOK'
  BY <1>2, <1>3 DEF TypeOK, JobBecomes
<1> QED
  BY <1>1, <1>2, <1>3, <1>4

LEMMA ApiCrashEffect ==
  ASSUME TypeOK, NEW a \in Assets, ApiCrash(a)
  PROVE  /\ TypeOK' /\ ReceiverBecomes(a, "none") /\ faults' > 0
         /\ UNCHANGED <<others, asset, usage, objects, job, worker, records, replay, mishaps>>
<1>1. ReceiverBecomes(a, "none")
  BY DEF ApiCrash, TypeOK, ReceiverBecomes, Receivers
<1>2. faults' \in Nat /\ faults' > 0
  BY Faulted DEF ApiCrash
<1> QED
  BY <1>1, <1>2 DEF ApiCrash, TypeOK, ReceiverBecomes

LEMMA WorkerCrashEffect ==
  ASSUME TypeOK, NEW w \in Workers, WorkerCrash(w)
  PROVE  /\ TypeOK' /\ Running(w) /\ WorkerStops(w, Gone) /\ faults' > 0
         /\ \/ /\ Holds(w)
               /\ JobBecomes(worker[w].job, "expired", job[worker[w].job].owner, job[worker[w].job].makers)
            \/ ~Holds(w) /\ job' = job
         /\ UNCHANGED <<others, asset, usage, objects, receiver, records, replay, mishaps>>
<1>1. Running(w)
  BY DEF WorkerCrash, Running
<1>2. WorkerStops(w, Gone)
  BY PlacesDiffer DEF WorkerCrash, TypeOK, WorkerStops, Running, Gone
<1>3. faults' \in Nat /\ faults' > 0
  BY Faulted DEF WorkerCrash
<1>4. \/ /\ Holds(w)
         /\ JobBecomes(worker[w].job, "expired", job[worker[w].job].owner, job[worker[w].job].makers)
      \/ ~Holds(w) /\ job' = job
  BY <1>1, LeaseMoves DEF WorkerCrash, LeaseRunsOut
<1>5. UNCHANGED <<others, asset, usage, objects, receiver, records, replay, mishaps>>
  BY DEF WorkerCrash
<1>6. TypeOK'
  BY <1>2, <1>3, <1>4, <1>5 DEF TypeOK, WorkerStops, JobBecomes
<1> QED
  BY <1>1, <1>2, <1>3, <1>4, <1>5, <1>6

\* A start goes through the record of one asset.
ReplayBecomes(a, stage) ==
  /\ replay' \in [Assets -> Recoveries]
  /\ \A b \in Assets \ {a} : replay'[b] = replay[b]
  /\ replay'[a].stage = stage

LEMMA ReplayMoves ==
  ASSUME TypeOK, NEW a \in Assets, NEW new \in Recoveries, replay' = [replay EXCEPT ![a] = new]
  PROVE  ReplayBecomes(a, new.stage)
  BY DEF TypeOK, ReplayBecomes

LEMMA RecoveryStages ==
  /\ NoReplay \in Recoveries /\ NoReplay.stage = "none"
  /\ [stage |-> "due"] \in Recoveries /\ [stage |-> "expiring"] \in Recoveries
  /\ \A d \in Workers \cup {Nobody} : [stage |-> "deleting", derivative |-> d] \in Recoveries
  BY DEF NoReplay, Recoveries

LEMMA ReadsRowEffect ==
  ASSUME TypeOK, NEW a \in Assets, NEW stage, ReadsRow(a, stage)
  PROVE  /\ TypeOK' /\ replay[a].stage = stage /\ ReplayBecomes(a, "deleting")
         /\ UNCHANGED <<others, asset, usage, objects, job, receiver, worker, records, faults, mishaps>>
<1>1. asset[a].derivative \in Workers \cup {Nobody}
  BY DEF TypeOK, Rows
<1>2. ReplayBecomes(a, "deleting")
  BY <1>1, RecoveryStages, ReplayMoves DEF ReadsRow
<1>3. /\ UNCHANGED <<others, asset, usage, objects, job, receiver, worker, records, faults, mishaps>>
      /\ replay[a].stage = stage
  BY DEF ReadsRow, Replaying
<1> QED
  BY <1>2, <1>3 DEF TypeOK, ReplayBecomes

LEMMA DeletesRecordedEffect ==
  ASSUME TypeOK, NEW a \in Assets, DeletesRecorded(a)
  PROVE  /\ TypeOK' /\ replay[a].stage = "deleting" /\ ReplayBecomes(a, "expiring")
         /\ objects' = objects \ {Original(a), Display(a, replay[a].derivative)}
         /\ UNCHANGED <<others, asset, usage, job, receiver, worker, records, faults, mishaps>>
<1>1. ReplayBecomes(a, "expiring")
  BY RecoveryStages, ReplayMoves DEF DeletesRecorded
<1>2. /\ UNCHANGED <<others, asset, usage, job, receiver, worker, records, faults, mishaps>>
      /\ objects' = objects \ {Original(a), Display(a, replay[a].derivative)} /\ replay[a].stage = "deleting"
  BY DEF DeletesRecorded, Replaying
<1> QED
  BY <1>1, <1>2 DEF TypeOK, ReplayBecomes

LEMMA LessIsInt == \A n, m \in Int : Less(n, m) \in Int
  BY DEF Less

LEMMA ExpiresEffect ==
  ASSUME TypeOK, NEW a \in Assets, Expires(a)
  PROVE  /\ TypeOK' /\ replay[a].stage = "expiring" /\ ReplayBecomes(a, "none")
         /\ RowBecomes(a, "expired", TRUE, asset[a].allowed, asset[a].derivative)
         /\ UNCHANGED <<others, objects, job, receiver, worker, records, faults, mishaps>>
<1>1. ReplayBecomes(a, "none")
  BY RecoveryStages, ReplayMoves DEF Expires
<1>2. /\ UNCHANGED <<others, objects, job, receiver, worker, records, faults, mishaps>>
      /\ replay[a].stage = "expiring"
  BY DEF Expires, Replaying
<1> DEFINE new == [asset[a] EXCEPT !.deleted = TRUE, !.processing = "expired", !.actual = 0, !.reserved = 0]
<1>3. /\ new \in Rows /\ new.processing = "expired" /\ new.deleted = TRUE
      /\ new.allowed = asset[a].allowed /\ new.derivative = asset[a].derivative
  BY ZenonT(60) DEF TypeOK, Rows
<1>4. asset' = [asset EXCEPT ![a] = new]
  BY DEF Expires
<1> HIDE DEF new
<1>5. RowBecomes(a, "expired", TRUE, asset[a].allowed, asset[a].derivative)
  BY <1>3, <1>4, RowMoves DEF TypeOK
<1>6. usage' \in Usages
  <2>1. asset[a].reserved \in Int /\ asset[a].actual \in Int /\ usage.stored \in Int /\ usage.reserved \in Int
    BY DEF TypeOK, Rows, Usages
  <2> QED
    BY <2>1, LessIsInt DEF Expires, Restored, Usages
<1> QED
  BY <1>1, <1>2, <1>5, <1>6 DEF TypeOK, ReplayBecomes, RowBecomes

LEMMA StartFailsEffect ==
  ASSUME TypeOK, NEW a \in Assets, StartFails(a)
  PROVE  /\ TypeOK' /\ replay[a].stage # "none" /\ ReplayBecomes(a, "due") /\ faults' > 0
         /\ UNCHANGED <<others, asset, usage, objects, job, receiver, worker, records, mishaps>>
<1>1. ReplayBecomes(a, "due")
  BY RecoveryStages, ReplayMoves DEF StartFails
<1>2. faults' \in Nat /\ faults' > 0
  BY Faulted DEF StartFails
<1>3. /\ UNCHANGED <<others, asset, usage, objects, job, receiver, worker, records, mishaps>>
      /\ replay[a].stage # "none"
  BY DEF StartFails
<1> QED
  BY <1>1, <1>2, <1>3 DEF TypeOK, ReplayBecomes

-----------------------------------------------------------------------------
(* Types                                                                      *)

LEMMA TypeInit == MediaInit => TypeOK
<1> SUFFICES ASSUME MediaInit PROVE TypeOK
  OBVIOUS
<1>1. asset \in [Assets -> Rows]
  BY NoRowIsRow DEF MediaInit
<1>2. usage \in Usages /\ others \in Nat /\ objects \subseteq Files
  BY DEF MediaInit, Usages
<1>3. [state |-> "none", owner |-> Nobody, makers |-> FALSE] \in Leases
  BY DEF Leases
<1>4. job \in [Kinds \X Assets -> Leases]
  BY <1>3 DEF MediaInit
<1>5. receiver \in [Assets -> Receivers] /\ worker \in [Workers -> Places]
  BY PlacesDiffer DEF MediaInit, Receivers
<1>6. /\ records \subseteq Assets /\ replay \in [Assets -> Recoveries]
      /\ faults \in Nat /\ mishaps \subseteq MishapKinds \X Assets
  BY RecoveryStages DEF MediaInit
<1> QED
  BY <1>1, <1>2, <1>4, <1>5, <1>6 DEF TypeOK

LEMMA TypeStep == TypeOK /\ [MediaNext]_mediaVars => TypeOK'
<1> SUFFICES ASSUME TypeOK, [MediaNext]_mediaVars PROVE TypeOK'
  OBVIOUS
<1>1. ASSUME NEW a \in Assets, Asks(a) \/ Receives(a) \/ Overdue(a) \/ sweep(a) \/ ApiCrash(a)
                               \/ Starts(a) \/ Replays(a) \/ StartFails(a)
      PROVE  TypeOK'
  BY <1>1, IntentEffect, ClaimsEffect, WritesOriginalEffect, ReceivedEffect, DeletesOriginalEffect,
     AwaitsAgainEffect, OverdueEffect, RemoveEffect, SweepEffect, RemoveMemberEffect, ApiCrashEffect,
     AccountEffect, ReadsRowEffect, DeletesRecordedEffect, ExpiresEffect, StartFailsEffect
     DEF Asks, Receives, Starts, Replays, StartsAgain
<1>2. ASSUME NEW w \in Workers, Works(w) \/ GivesUp(w) \/ Stalls(w) \/ Renews(w) \/ WorkerCrash(w)
      PROVE  TypeOK'
  BY <1>2, LeaseEffect, ReadsAssetEffect, ChecksScopeEffect, MarksEffect, ConvertsEffect,
     WritesDisplayEffect, CommitsEffect, ClearsDisplayEffect, JudgesEffect, DeletesFilesEffect,
     ReleaseEffect, SettlesEffect, WorkerCrashEffect, GivesUpEffect, StallsEffect, RenewsEffect
     DEF Works, Runs
<1>3. CASE OthersUse
  BY <1>3, OthersUseEffect
<1>4. CASE UNCHANGED mediaVars
  BY <1>4 DEF mediaVars, TypeOK
<1> QED
  BY <1>1, <1>2, <1>3, <1>4 DEF MediaNext

\* Every variable of the upload pipeline has its type, for every number of assets,
\* workers and faults and every limit.
THEOREM TypeCorrect == FairMediaSpec => []TypeOK
<1>1. MediaInit => TypeOK
  BY TypeInit
<1>2. TypeOK /\ [MediaNext]_mediaVars => TypeOK'
  BY TypeStep
<1> QED
  BY <1>1, <1>2, PTL DEF FairMediaSpec

-----------------------------------------------------------------------------
(* Workers and their leases                                                   *)

\* What went wrong stays on record, and nothing does without being counted.
LEMMA HistoryGrows ==
  ASSUME TypeOK, [MediaNext]_mediaVars
  PROVE  /\ mishaps \subseteq mishaps'
         /\ faults' = 0 => faults = 0 /\ mishaps' = mishaps
<1> DEFINE Kept == UNCHANGED <<faults, mishaps>>
           Wrong == Fault /\ mishaps \subseteq mishaps'
<1>1. ASSUME NEW a \in Assets, Asks(a) \/ Receives(a) \/ Overdue(a) \/ sweep(a) PROVE Kept \/ Wrong
  <2>1. NoFault => Kept
    BY DEF NoFault
  <2>2. \A kind : Mishap(kind, a) => Wrong
    BY DEF Mishap
  <2>3. Received(a) \/ remove(a) => Kept \/ Wrong
    BY <2>1, <2>2 DEF Received, remove
  <2> QED
    BY <1>1, <2>3 DEF Asks, Receives, intent, Claims, removeMember, requestAccountDeletion, WritesOriginal,
                      DeletesOriginal, AwaitsAgain, Overdue, sweep
<1>2. ASSUME NEW a \in Assets, ApiCrash(a) \/ Starts(a) \/ Replays(a) \/ StartFails(a) PROVE Kept \/ Wrong
  BY <1>2 DEF ApiCrash, Starts, Replays, StartsAgain, ReadsRow, DeletesRecorded, Expires, StartFails
<1>3. ASSUME NEW w \in Workers, Works(w) PROVE Kept \/ Wrong
  BY <1>3 DEF Works, lease, Runs, ReadsAsset, ChecksScope, Marks, Converts, WritesDisplay, Commits, ClearsDisplay,
              Judges, DeletesFiles, release, Settles, NoFault, Mishap
<1>4. ASSUME NEW w \in Workers, GivesUp(w) \/ Stalls(w) \/ Renews(w) \/ WorkerCrash(w) PROVE Kept \/ Wrong
  BY <1>4 DEF GivesUp, Stalls, Renews, WorkerCrash, Mishap
<1>5. OthersUse \/ UNCHANGED mediaVars => Kept
  BY DEF OthersUse, mediaVars
<1>6. Wrong => faults' > 0
  BY Faulted
<1>7. Kept \/ Wrong
  BY <1>1, <1>2, <1>3, <1>4, <1>5 DEF MediaNext
<1> QED
  BY <1>6, <1>7

\* A job that runs stays with its worker, or is cancelled, or its lease runs out.
LeasesStay ==
  \A k \in Kinds \X Assets :
    job[k].state \in {"leased", "cancelled"} /\ Unstalled(k[2])' =>
      \/ job'[k].state = "cancelled"
      \/ job'[k].state = job[k].state /\ job'[k].owner = job[k].owner

LEMMA JobsGoOn ==
  ASSUME TypeOK, WorkersOK, UNCHANGED worker, LeasesStay, mishaps \subseteq mishaps'
  PROVE  WorkersOK'
<1>0. \A w \in Workers : (Running(w)' <=> Running(w)) /\ (Unstalled(Asset(w))' => Unstalled(Asset(w)))
                          /\ Asset(w)' = Asset(w)
  BY DEF Running, Unstalled, Asset
<1>1. \A w \in Workers : StageFits(w)'
  BY <1>0 DEF WorkersOK, StageFits
<1>2. \A v, w \in Workers : RunsAlone(v, w)'
  BY <1>0 DEF WorkersOK, RunsAlone
<1>3. ASSUME NEW w \in Workers PROVE LeaseHeld(w)'
  <2> SUFFICES ASSUME Running(w), Unstalled(Asset(w)), Unstalled(Asset(w))'
               PROVE  (job[worker[w].job].state = "cancelled" \/ Holds(w))'
    BY <1>0 DEF LeaseHeld
  <2>1. worker[w].job \in Kinds \X Assets /\ Asset(w) = worker[w].job[2]
    BY TaskOf DEF Asset
  <2>2. job[worker[w].job].state = "cancelled" \/ Holds(w)
    BY DEF WorkersOK, LeaseHeld
  <2>3. Unstalled(worker[w].job[2])'
    BY <1>0, <2>1 DEF Unstalled
  <2> QED
    BY <2>1, <2>2, <2>3 DEF Holds, LeasesStay
<1> QED
  BY <1>1, <1>2, <1>3 DEF WorkersOK

\* A worker that goes on with its job keeps it.
LEMMA WorkerGoesOn ==
  ASSUME TypeOK, WorkersOK, UNCHANGED job, NEW w \in Workers, Running(w), mishaps \subseteq mishaps',
         NEW stage, WorkerBecomes(w, stage),
         IF worker[w].job[1] = "media" THEN stage \in MediaStages ELSE stage \in DeleteStages
  PROVE  WorkersOK'
<1>1. \A v \in Workers : /\ Running(v)' => Running(v) /\ worker'[v].job = worker[v].job
                         /\ Running(v)' /\ Unstalled(Asset(v))' => Unstalled(Asset(v))
  BY DEF WorkerBecomes, Running, Unstalled, Asset
<1>2. ASSUME NEW v \in Workers PROVE StageFits(v)'
  BY DEF WorkersOK, StageFits, Running, WorkerBecomes
<1>3. ASSUME NEW u \in Workers, NEW v \in Workers PROVE RunsAlone(u, v)'
  BY <1>1 DEF WorkersOK, RunsAlone
<1>4. ASSUME NEW v \in Workers PROVE LeaseHeld(v)'
  BY <1>1 DEF WorkersOK, LeaseHeld, Holds
<1> QED
  BY <1>2, <1>3, <1>4 DEF WorkersOK

\* A worker that stops leaves the jobs of the others to them.
LEMMA WorkerStopsOK ==
  ASSUME TypeOK, WorkersOK, NEW w \in Workers, Running(w), NEW place, WorkerStops(w, place),
         mishaps \subseteq mishaps', NEW state, NEW owner, NEW makers,
         JobBecomes(worker[w].job, state, owner, makers) \/ job' = job
  PROVE  WorkersOK'
<1>1. \A v \in Workers : Running(v)' => /\ v # w /\ Running(v) /\ worker'[v] = worker[v]
                                        /\ (Unstalled(Asset(v))' => Unstalled(Asset(v)))
  BY DEF WorkerStops, Running, Unstalled, Asset
<1>2. ASSUME NEW v \in Workers PROVE StageFits(v)'
  BY <1>1 DEF WorkersOK, StageFits
<1>3. ASSUME NEW u \in Workers, NEW v \in Workers PROVE RunsAlone(u, v)'
  BY <1>1 DEF WorkersOK, RunsAlone
<1>4. ASSUME NEW v \in Workers PROVE LeaseHeld(v)'
  <2> SUFFICES ASSUME Running(v)', Unstalled(Asset(v))'
               PROVE  (job[worker[v].job].state = "cancelled" \/ Holds(v))'
    BY DEF LeaseHeld
  <2>1. worker[v].job \in Kinds \X Assets /\ worker[v].job # worker[w].job
    BY <1>1, TaskOf DEF WorkersOK, RunsAlone
  <2>2. job'[worker[v].job] = job[worker[v].job]
    BY <2>1 DEF JobBecomes
  <2>3. job[worker[v].job].state = "cancelled" \/ Holds(v)
    BY <1>1 DEF WorkersOK, LeaseHeld
  <2> QED
    BY <1>1, <2>2, <2>3 DEF Holds
<1> QED
  BY <1>2, <1>3, <1>4 DEF WorkersOK

\* A worker that takes up a job is alone with it.
LEMMA LeaseOK ==
  ASSUME TypeOK, WorkersOK, NEW w \in Workers, lease(w)
  PROVE  WorkersOK'
<1>1. PICK k \in Kinds \X Assets :
        /\ job[k].state \in {"pending", "expired"}
        /\ JobBecomes(k, "leased", w, job[k].makers)
        /\ \A v \in Workers \ {w} : worker'[v] = worker[v]
        /\ worker'[w] \in Tasks /\ worker'[w].stage = "leased" /\ worker'[w].job = k
  BY LeaseEffect
<1>0. UNCHANGED mishaps
  BY DEF lease
<1>2. \A v \in Workers \ {w} : /\ Running(v)' => Running(v) /\ worker'[v] = worker[v]
                               /\ Unstalled(Asset(v))' => Unstalled(Asset(v))
  BY <1>0, <1>1 DEF Running, Unstalled, Asset
<1>3. ASSUME NEW v \in Workers \ {w}, Running(v), Unstalled(Asset(v))
      PROVE  /\ worker[v].job # k /\ job'[worker[v].job] = job[worker[v].job]
             /\ job[worker[v].job].state = "cancelled" \/ Holds(v)
  <2>1. worker[v].job \in Kinds \X Assets
    BY <1>3, TaskOf
  <2>2. job[worker[v].job].state = "cancelled" \/ Holds(v)
    BY <1>3 DEF WorkersOK, LeaseHeld
  <2>3. worker[v].job # k
    BY <1>1, <2>2 DEF Holds
  <2> QED
    BY <1>1, <2>1, <2>2, <2>3 DEF JobBecomes
<1>4. ASSUME NEW v \in Workers PROVE StageFits(v)'
  <2>1. CASE v = w
    BY <1>1, <2>1 DEF StageFits, MediaStages, DeleteStages, Early
  <2>2. CASE v # w
    BY <1>2, <2>2 DEF WorkersOK, StageFits
  <2> QED
    BY <2>1, <2>2
<1>5. ASSUME NEW u \in Workers, NEW v \in Workers PROVE RunsAlone(u, v)'
  <2> SUFFICES ASSUME u # v, Running(u)', Running(v)', Unstalled(Asset(v))', worker'[u].job = worker'[v].job
               PROVE  FALSE
    BY DEF RunsAlone
  <2>1. CASE v = w
    <3>1. Running(u) /\ worker'[u] = worker[u] /\ worker[u].job = k
      BY <1>1, <1>2, <2>1
    <3>2. Unstalled(Asset(u))
      BY <1>0, <1>1, <2>1, <3>1 DEF Unstalled, Asset
    <3> QED
      BY <1>3, <2>1, <3>1, <3>2
  <2>2. CASE u = w
    BY <1>1, <1>2, <1>3, <2>2
  <2>3. CASE u # w /\ v # w
    BY <1>2, <2>3 DEF WorkersOK, RunsAlone
  <2> QED
    BY <2>1, <2>2, <2>3
<1>6. ASSUME NEW v \in Workers PROVE LeaseHeld(v)'
  <2>1. CASE v = w
    BY <1>1, <2>1 DEF LeaseHeld, Holds, JobBecomes
  <2>2. CASE v # w
    BY <1>2, <1>3, <2>2 DEF LeaseHeld, Holds
  <2> QED
    BY <2>1, <2>2
<1> QED
  BY <1>4, <1>5, <1>6 DEF WorkersOK

\* What happens to the jobs of the assets when one is queued, cancelled, or both.
LEMMA Keys ==
  \A a, b \in Assets : /\ <<"media", a>> # <<"media-delete", b>>
                       /\ a # b => <<"media", a>> # <<"media", b>> /\ <<"media-delete", a>> # <<"media-delete", b>>
  OBVIOUS

JobsOfOthersStay(a) ==
  \A b \in Assets \ {a} : /\ job'[<<"media", b>>] = job[<<"media", b>>]
                          /\ job'[<<"media-delete", b>>] = job[<<"media-delete", b>>]

LEMMA QueuesMedia ==
  ASSUME TypeOK, NEW a \in Assets, job' = Queued(job, "media", a, TRUE)
  PROVE  /\ LeasesStay /\ JobsOfOthersStay(a)
         /\ job'[<<"media-delete", a>>] = job[<<"media-delete", a>>]
         /\ IF MediaJob(a) = "none" THEN MediaJob(a)' = "pending" /\ job'[<<"media", a>>].makers
            ELSE job'[<<"media", a>>] = job[<<"media", a>>]
<1> DEFINE k == <<"media", a>>
           new == [job[k] EXCEPT !.state = "pending", !.makers = TRUE]
<1>0. k \in Kinds \X Assets
  BY Pairs
<1>1. job' = IF job[k].state = "none" THEN [job EXCEPT ![k] = new] ELSE job
  BY DEF Queued
<1>2. new \in Leases /\ new.state = "pending" /\ new.makers
  BY ZenonT(60), <1>0 DEF TypeOK, Leases
<1> HIDE DEF new, k
<1>3. \A l \in Kinds \X Assets : l # k => job'[l] = job[l]
  BY <1>1 DEF TypeOK
<1>4. IF job[k].state = "none" THEN job'[k] = new ELSE job'[k] = job[k]
  BY <1>0, <1>1 DEF TypeOK
<1>5. LeasesStay
  BY <1>3, <1>4 DEF LeasesStay
<1>6. JobsOfOthersStay(a) /\ job'[<<"media-delete", a>>] = job[<<"media-delete", a>>]
  BY <1>3, Pairs, Keys DEF JobsOfOthersStay, k
<1>7. IF MediaJob(a) = "none" THEN MediaJob(a)' = "pending" /\ job'[<<"media", a>>].makers
      ELSE job'[<<"media", a>>] = job[<<"media", a>>]
  BY <1>2, <1>4 DEF MediaJob, k
<1> QED
  BY <1>5, <1>6, <1>7

LEMMA QueuesDelete ==
  ASSUME TypeOK, NEW a \in Assets, NEW makers \in BOOLEAN, job' = Queued(job, "media-delete", a, makers)
  PROVE  /\ LeasesStay /\ JobsOfOthersStay(a)
         /\ job'[<<"media", a>>] = job[<<"media", a>>]
         /\ IF DeleteJob(a) = "none" THEN DeleteJob(a)' = "pending"
            ELSE job'[<<"media-delete", a>>] = job[<<"media-delete", a>>]
<1>1. /\ \A l \in Kinds \X Assets : l # <<"media-delete", a>> => job'[l] = job[l]
      /\ IF job[<<"media-delete", a>>].state = "none" THEN job'[<<"media-delete", a>>].state = "pending"
         ELSE job'[<<"media-delete", a>>] = job[<<"media-delete", a>>]
  <2> DEFINE q == Queued(job, "media-delete", a, makers)
  <2>1. /\ \A l \in Kinds \X Assets : l # <<"media-delete", a>> => q[l] = job[l]
        /\ IF job[<<"media-delete", a>>].state = "none" THEN q[<<"media-delete", a>>].state = "pending"
           ELSE q[<<"media-delete", a>>] = job[<<"media-delete", a>>]
    BY ONLY Queueing, TheKinds, TypeOK, a \in Assets, makers \in BOOLEAN DEF TypeOK
  <2>2. job' = q
    OBVIOUS
  <2> HIDE DEF q
  <2> QED
    BY <2>1, <2>2
<1>2. LeasesStay
  BY <1>1 DEF LeasesStay
<1>3. JobsOfOthersStay(a) /\ job'[<<"media", a>>] = job[<<"media", a>>]
  BY <1>1, Pairs, Keys DEF JobsOfOthersStay
<1> QED
  BY <1>1, <1>2, <1>3 DEF DeleteJob

\* The jobs of one asset after those of its maker are cancelled.
MakersJobsEnd(a) ==
  /\ job'[<<"media", a>>].makers = job[<<"media", a>>].makers
  /\ job[<<"media", a>>].makers => ~Unended(a)'
  /\ \/ MediaJob(a)' = MediaJob(a)
     \/ MediaJob(a)' = "cancelled" /\ Unended(a)

LEMMA CancelsJobs ==
  ASSUME TypeOK, NEW a \in Assets, job' = Cancelled(job, a)
  PROVE  /\ LeasesStay /\ JobsOfOthersStay(a) /\ MakersJobsEnd(a)
         /\ \/ job'[<<"media-delete", a>>] = job[<<"media-delete", a>>]
            \/ DeleteJob(a) # "none" /\ DeleteJob(a)' = "cancelled"
<1>1. \A k \in Kinds \X Assets :
        /\ job'[k].makers = job[k].makers
        /\ job'[k].owner = job[k].owner
        /\ \/ job'[k] = job[k]
           \/ /\ k[2] = a /\ job[k].makers /\ job'[k].state = "cancelled"
              /\ job[k].state \in {"pending", "leased", "expired"}
        /\ k[2] = a /\ job[k].makers => job'[k].state \notin {"pending", "leased", "expired"}
  BY Cancelling DEF TypeOK
<1>2. LeasesStay
  BY <1>1 DEF LeasesStay
<1>3. JobsOfOthersStay(a)
  <2> SUFFICES ASSUME NEW b \in Assets \ {a}
               PROVE  /\ job'[<<"media", b>>] = job[<<"media", b>>]
                      /\ job'[<<"media-delete", b>>] = job[<<"media-delete", b>>]
    BY DEF JobsOfOthersStay
  <2>1. <<"media", b>>[2] # a /\ <<"media-delete", b>>[2] # a
    OBVIOUS
  <2> QED
    BY <1>1, <2>1, Pairs
<1>4. MakersJobsEnd(a)
  <2>1. <<"media", a>>[2] = a
    OBVIOUS
  <2> QED
    BY <1>1, <2>1, Pairs DEF MakersJobsEnd, MediaJob, Unended
<1>5. \/ job'[<<"media-delete", a>>] = job[<<"media-delete", a>>]
      \/ DeleteJob(a) # "none" /\ DeleteJob(a)' = "cancelled"
  BY <1>1, Pairs DEF DeleteJob
<1> QED
  BY <1>2, <1>3, <1>4, <1>5

LEMMA CancelsAndQueues ==
  ASSUME TypeOK, NEW a \in Assets, job' = Queued(Cancelled(job, a), "media-delete", a, FALSE)
  PROVE  /\ LeasesStay /\ JobsOfOthersStay(a) /\ MakersJobsEnd(a)
         /\ \/ job'[<<"media-delete", a>>] = job[<<"media-delete", a>>] /\ DeleteJob(a) # "none"
            \/ DeleteJob(a) # "none" /\ DeleteJob(a)' = "cancelled"
            \/ DeleteJob(a) = "none" /\ DeleteJob(a)' = "pending"
<1> DEFINE j == Cancelled(job, a)
           d == <<"media-delete", a>>
<1>1. /\ j \in [Kinds \X Assets -> Leases]
      /\ \A k \in Kinds \X Assets :
           /\ j[k].makers = job[k].makers
           /\ j[k].owner = job[k].owner
           /\ \/ j[k] = job[k]
              \/ /\ k[2] = a /\ job[k].makers /\ j[k].state = "cancelled"
                 /\ job[k].state \in {"pending", "leased", "expired"}
           /\ k[2] = a /\ job[k].makers => j[k].state \notin {"pending", "leased", "expired"}
  BY Cancelling DEF TypeOK
<1>0. job' = Queued(j, "media-delete", a, FALSE)
  OBVIOUS
<1> HIDE DEF j
<1>2. /\ \A l \in Kinds \X Assets : l # d => job'[l] = j[l]
      /\ IF j[d].state = "none" THEN job'[d].state = "pending" ELSE job'[d] = j[d]
  <2> DEFINE new == [j[d] EXCEPT !.state = "pending", !.makers = FALSE]
  <2>1. job' = IF j[d].state = "none" THEN [j EXCEPT ![d] = new] ELSE j
    BY <1>0 DEF Queued
  <2>2. d \in Kinds \X Assets
    BY Pairs
  <2> HIDE DEF d
  <2>3. j[d].state = "none" => new \in Leases /\ new.state = "pending"
    BY ZenonT(60), <1>1, <2>2 DEF Leases
  <2> HIDE DEF new
  <2> QED
    BY <1>1, <2>1, <2>2, <2>3
<1>3. LeasesStay
  <2>1. ASSUME NEW k \in Kinds \X Assets, job[k].state \in {"leased", "cancelled"}
        PROVE  j[k].state = "cancelled" \/ (j[k].state = job[k].state /\ j[k].owner = job[k].owner)
    BY <1>1, <2>1
  <2>2. ASSUME NEW k \in Kinds \X Assets, j[k].state # "none"
        PROVE  job'[k] = j[k]
    BY <1>2, <2>2
  <2> QED
    BY ZenonT(60), <2>1, <2>2 DEF LeasesStay
<1>4. JobsOfOthersStay(a)
  <2> SUFFICES ASSUME NEW b \in Assets \ {a}
               PROVE  /\ job'[<<"media", b>>] = job[<<"media", b>>]
                      /\ job'[<<"media-delete", b>>] = job[<<"media-delete", b>>]
    BY DEF JobsOfOthersStay
  <2>1. <<"media", b>>[2] # a /\ <<"media-delete", b>>[2] # a
    OBVIOUS
  <2>2. j[<<"media", b>>] = job[<<"media", b>>] /\ j[<<"media-delete", b>>] = job[<<"media-delete", b>>]
    BY <1>1, <2>1, Pairs
  <2>3. b \in Assets /\ b # a
    OBVIOUS
  <2>4. <<"media", b>> # d /\ <<"media-delete", b>> # d
    BY <2>3
  <2> QED
    BY <1>2, <2>2, <2>3, <2>4, Pairs
<1>5. MakersJobsEnd(a)
  <2>1. <<"media", a>>[2] = a
    OBVIOUS
  <2>2. job'[<<"media", a>>] = j[<<"media", a>>]
    <3>1. <<"media", a>> # d /\ <<"media", a>> \in Kinds \X Assets
      BY Pairs
    <3> HIDE DEF d
    <3> QED
      BY <1>2, <3>1
  <2> DEFINE m == <<"media", a>>
  <2>3. m \in Kinds \X Assets /\ m[2] = a /\ job'[m] = j[m]
    BY <2>1, <2>2, Pairs
  <2>4. MediaJob(a) = job[m].state /\ MediaJob(a)' = job'[m].state /\ MakersJobsEnd(a) =
          /\ job'[m].makers = job[m].makers
          /\ job[m].makers => job'[m].state \notin {"pending", "leased", "expired"}
          /\ \/ job'[m].state = job[m].state
             \/ job'[m].state = "cancelled" /\ job[m].state \in {"pending", "leased", "expired"}
    BY DEF MediaJob, MakersJobsEnd, Unended
  <2> HIDE DEF m
  <2> QED
    BY <1>1, <2>3, <2>4
<1>6. \/ j[d] = job[d]
      \/ job[d].state # "none" /\ j[d].state = "cancelled"
  BY <1>1, Pairs
<1> QED
  BY <1>2, <1>3, <1>4, <1>5, <1>6 DEF DeleteJob

\* No step lets a worker keep a job it lost or two workers have the same.
LEMMA WorkersStep == TypeOK /\ WorkersOK /\ [MediaNext]_mediaVars => WorkersOK'
<1> SUFFICES ASSUME TypeOK, WorkersOK, [MediaNext]_mediaVars PROVE WorkersOK'
  OBVIOUS
<1>0. mishaps \subseteq mishaps'
  BY HistoryGrows
<1>1. ASSUME UNCHANGED <<worker, job>> PROVE WorkersOK'
  <2>1. LeasesStay
    BY <1>1 DEF LeasesStay
  <2> QED
    BY <1>0, <1>1, <2>1, JobsGoOn
<1>2. ASSUME NEW a \in Assets,
             \/ intent(a) \/ Claims(a) \/ WritesOriginal(a) \/ DeletesOriginal(a) \/ AwaitsAgain(a) \/ Overdue(a)
             \/ ApiCrash(a) \/ requestAccountDeletion(a) \/ Starts(a) \/ Replays(a) \/ StartFails(a)
      PROVE  UNCHANGED <<worker, job>>
  BY <1>2 DEF intent, Claims, WritesOriginal, DeletesOriginal, AwaitsAgain, Overdue, ApiCrash, requestAccountDeletion,
              Starts, Replays, StartsAgain, ReadsRow, DeletesRecorded, Expires, StartFails
<1>3. ASSUME NEW a \in Assets, Received(a) \/ remove(a) PROVE WorkersOK'
  <2>1. LeasesStay
    <3>1. job' = job => LeasesStay
      BY DEF LeasesStay
    <3> QED
      BY <1>3, <3>1, ReceivedEffect, RemoveEffect, QueuesMedia, QueuesDelete
  <2>2. UNCHANGED worker
    BY <1>3 DEF Received, remove
  <2> QED
    BY <1>0, <2>1, <2>2, JobsGoOn
<1>5. ASSUME NEW a \in Assets, sweep(a) PROVE WorkersOK'
  <2>1. LeasesStay
    BY <1>5, SweepEffect, QueuesDelete
  <2>2. UNCHANGED worker
    BY <1>5 DEF sweep
  <2> QED
    BY <1>0, <2>1, <2>2, JobsGoOn
<1>6. ASSUME NEW a \in Assets, removeMember(a) PROVE WorkersOK'
  <2>1. LeasesStay
    BY <1>6, RemoveMemberEffect, CancelsJobs, CancelsAndQueues
  <2>2. UNCHANGED worker
    BY <1>6 DEF removeMember
  <2> QED
    BY <1>0, <2>1, <2>2, JobsGoOn
<1>7. ASSUME NEW w \in Workers, lease(w) PROVE WorkersOK'
  BY <1>7, LeaseOK
<1>8. ASSUME NEW w \in Workers, Settles(w) PROVE WorkersOK'
  BY <1>0, <1>8, SettlesEffect, WorkerStopsOK
<1>9. ASSUME NEW w \in Workers, WorkerCrash(w) PROVE WorkersOK'
  BY <1>0, <1>9, WorkerCrashEffect, WorkerStopsOK
<1>24. ASSUME NEW w \in Workers, Stalls(w) PROVE WorkersOK'
  <2>1. LeasesStay
    <3>1. /\ Mishap("lease", Asset(w)) /\ UNCHANGED worker /\ Running(w)
          /\ \A k \in (Kinds \X Assets) \ {worker[w].job} : job'[k] = job[k]
      BY <1>24, StallsEffect DEF JobBecomes
    <3>2. \A k \in Kinds \X Assets : Unstalled(k[2])' => k # worker[w].job
      BY <3>1 DEF Mishap, Unstalled, Asset
    <3> QED
      BY <3>1, <3>2 DEF LeasesStay
  <2>2. UNCHANGED worker
    BY <1>24 DEF Stalls
  <2> QED
    BY <1>0, <2>1, <2>2, JobsGoOn
<1>25. ASSUME NEW w \in Workers, Renews(w) PROVE WorkersOK'
  <2>1. LeasesStay
    BY <1>25, RenewsEffect DEF JobBecomes, LeasesStay
  <2>2. UNCHANGED worker
    BY <1>25 DEF Renews
  <2> QED
    BY <1>0, <2>1, <2>2, JobsGoOn
<1>10. ASSUME NEW w \in Workers, Running(w), NEW stage, WorkerBecomes(w, stage), UNCHANGED job,
              IF worker[w].job[1] = "media" THEN stage \in MediaStages ELSE stage \in DeleteStages
       PROVE  WorkersOK'
  BY <1>0, <1>10, WorkerGoesOn
<1>11. \A w \in Workers : Running(w) =>
         /\ worker[w].stage \notin DeleteStages => worker[w].job[1] = "media"
         /\ worker[w].stage \notin MediaStages => worker[w].job[1] = "media-delete"
         /\ worker[w].job[1] \in Kinds
  BY KindOf, TaskOf DEF WorkersOK
<1>12. ASSUME NEW w \in Workers, ReadsAsset(w) PROVE WorkersOK'
  BY <1>10, <1>11, <1>12, ReadsAssetEffect DEF MediaStages, DeleteStages, Early, Kinds
<1>13. ASSUME NEW w \in Workers, ChecksScope(w) PROVE WorkersOK'
  BY <1>10, <1>11, <1>13, ChecksScopeEffect DEF MediaStages, DeleteStages, Early
<1>14. ASSUME NEW w \in Workers, Marks(w) PROVE WorkersOK'
  BY <1>10, <1>11, <1>14, MarksEffect DEF MediaStages, DeleteStages, Early
<1>15. ASSUME NEW w \in Workers, Converts(w) PROVE WorkersOK'
  BY <1>10, <1>11, <1>15, ConvertsEffect DEF MediaStages, DeleteStages, Early
<1>16. ASSUME NEW w \in Workers, WritesDisplay(w) PROVE WorkersOK'
  BY <1>10, <1>11, <1>16, WritesDisplayEffect DEF MediaStages, DeleteStages, Early
<1>17. ASSUME NEW w \in Workers, Commits(w) PROVE WorkersOK'
  BY <1>10, <1>11, <1>17, CommitsEffect DEF MediaStages, DeleteStages, Early
<1>18. ASSUME NEW w \in Workers, ClearsDisplay(w) PROVE WorkersOK'
  BY <1>10, <1>11, <1>18, ClearsDisplayEffect DEF MediaStages, DeleteStages, Early
<1>19. ASSUME NEW w \in Workers, Judges(w) PROVE WorkersOK'
  BY <1>10, <1>11, <1>19, JudgesEffect DEF MediaStages, DeleteStages, Early
<1>20. ASSUME NEW w \in Workers, DeletesFiles(w) PROVE WorkersOK'
  BY <1>10, <1>11, <1>20, DeletesFilesEffect DEF MediaStages, DeleteStages, Early
<1>21. ASSUME NEW w \in Workers, release(w) PROVE WorkersOK'
  BY <1>10, <1>11, <1>21, ReleaseEffect DEF MediaStages, DeleteStages, Early
<1>26. ASSUME NEW w \in Workers, GivesUp(w) PROVE WorkersOK'
  BY <1>10, <1>26, GivesUpEffect DEF MediaStages, DeleteStages
<1>22. CASE OthersUse
  BY <1>1, <1>22, OthersUseEffect
<1>23. CASE UNCHANGED mediaVars
  BY <1>1, <1>23 DEF mediaVars
<1> QED
  BY <1>1, <1>2, <1>3, <1>5, <1>6, <1>7, <1>8, <1>9, <1>12, <1>13, <1>14, <1>15, <1>16, <1>17,
     <1>18, <1>19, <1>20, <1>21, <1>22, <1>23, <1>24, <1>25, <1>26
     DEF MediaNext, Asks, Receives, Works, Runs

-----------------------------------------------------------------------------
(* Uploads, removals and their jobs                                           *)

\* Nothing happened to the asset that the code cannot see.
Sound(a) == ~Misled(a)

LEMMA SoundBefore ==
  ASSUME mishaps \subseteq mishaps', NEW a, Sound(a)'
  PROVE  Sound(a) /\ Unstalled(a)
  BY DEF Sound, Misled, Unstalled

LEMMA MisledThen ==
  ASSUME NEW a, NEW kind \in {"reply", "lease", "record"}, Mishap(kind, a)
  PROVE  ~Sound(a)'
  BY DEF Mishap, Sound, Misled

\* A start only ever goes through records.
ReplayOK(a) == replay[a].stage # "none" => a \in records

LEMMA ReplaysStep ==
  TypeOK /\ (\A a \in Assets : ReplayOK(a)) /\ [MediaNext]_mediaVars => \A a \in Assets : ReplayOK(a)'
<1> SUFFICES ASSUME TypeOK, \A a \in Assets : ReplayOK(a), [MediaNext]_mediaVars, NEW b \in Assets
             PROVE  ReplayOK(b)'
  OBVIOUS
<1>1. ASSUME NEW a \in Assets, Asks(a) \/ Receives(a) \/ Overdue(a) \/ sweep(a) \/ ApiCrash(a)
      PROVE  UNCHANGED replay /\ records \subseteq records'
  BY <1>1 DEF Asks, Receives, intent, Claims, remove, removeMember, requestAccountDeletion, WritesOriginal, Received,
              DeletesOriginal, AwaitsAgain, Overdue, sweep, ApiCrash
<1>2. ASSUME NEW w \in Workers, Works(w) \/ GivesUp(w) \/ Stalls(w) \/ Renews(w) \/ WorkerCrash(w)
      PROVE  UNCHANGED <<replay, records>>
  BY <1>2 DEF Works, lease, Runs, ReadsAsset, ChecksScope, Marks, Converts, WritesDisplay, Commits, ClearsDisplay,
              Judges, DeletesFiles, release, Settles, GivesUp, Stalls, Renews, WorkerCrash
<1>3. ASSUME NEW a \in Assets, Starts(a) \/ Replays(a) \/ StartFails(a)
      PROVE  ReplayOK(b)'
  <2>1. PICK stage : ReplayBecomes(a, stage)
    BY <1>3, ReadsRowEffect, DeletesRecordedEffect, ExpiresEffect, StartFailsEffect DEF Starts, Replays, StartsAgain
  <2>2. UNCHANGED records /\ (stage # "none" => a \in records)
    <3>1. UNCHANGED records
      BY <1>3 DEF Starts, Replays, StartsAgain, ReadsRow, DeletesRecorded, Expires, StartFails
    <3>2. Starts(a) => a \in records
      BY DEF Starts
    <3>3. Replays(a) \/ StartFails(a) => replay[a].stage # "none"
      BY StartFailsEffect DEF Replays, StartsAgain, ReadsRow, DeletesRecorded, Expires, Replaying
    <3> QED
      BY <1>3, <3>1, <3>2, <3>3 DEF ReplayOK
  <2> QED
    BY <2>1, <2>2 DEF ReplayBecomes, ReplayOK
<1>4. CASE OthersUse
  BY <1>4, OthersUseEffect DEF ReplayOK
<1>5. CASE UNCHANGED mediaVars
  BY <1>5 DEF mediaVars, ReplayOK
<1> QED
  BY <1>1, <1>2, <1>3, <1>4, <1>5 DEF MediaNext, ReplayOK

AssetOK(a) == UploadOK(a) /\ RemovalOK(a)

\* What an asset's upload and removal are judged by is as before.
LEMMA AssetSame ==
  ASSUME NEW b \in Assets, AssetOK(b), receiver'[b] = receiver[b],
         job'[<<"media", b>>] = job[<<"media", b>>],
         job'[<<"media-delete", b>>] = job[<<"media-delete", b>>],
         asset'[b].processing = asset[b].processing, asset'[b].deleted = asset[b].deleted,
         asset'[b].allowed = asset[b].allowed, b \in records' => b \in records
  PROVE  AssetOK(b)'
  BY DEF AssetOK, UploadOK, RemovalOK, MediaJob, DeleteJob, Unended

\* A job that moves on: it was there before, and none that ended starts again.
LEMMA JobMovesOn ==
  ASSUME TypeOK, NEW b \in Assets, AssetOK(b), UNCHANGED <<asset, receiver, records>>,
         NEW k \in Kinds \X Assets, NEW state \in {"leased", "succeeded", "failed", "expired"}, NEW owner,
         job[k].state \in {"pending", "leased", "expired"},
         JobBecomes(k, state, owner, job[k].makers)
  PROVE  AssetOK(b)'
<1>1. ASSUME NEW l \in Kinds \X Assets
      PROVE  /\ job'[l].makers = job[l].makers
             /\ job'[l].state = "none" <=> job[l].state = "none"
             /\ job'[l].state \in {"pending", "leased", "expired"} =>
                  job[l].state \in {"pending", "leased", "expired"}
  <2>1. CASE l = k
    BY <2>1 DEF JobBecomes
  <2>2. CASE l # k
    BY <1>1, <2>2 DEF JobBecomes
  <2> QED
    BY <2>1, <2>2
<1> DEFINE m == <<"media", b>>
           d == <<"media-delete", b>>
<1>2. m \in Kinds \X Assets /\ d \in Kinds \X Assets
  BY Pairs
<1> HIDE DEF m, d
<1>3. /\ job'[m].makers = job[m].makers
      /\ job'[m].state = "none" <=> job[m].state = "none"
      /\ job'[d].state = "none" <=> job[d].state = "none"
      /\ job'[m].state \in {"pending", "leased", "expired"} => job[m].state \in {"pending", "leased", "expired"}
  BY <1>1, <1>2
<1> QED
  BY <1>3 DEF m, d, AssetOK, UploadOK, RemovalOK, MediaJob, DeleteJob, Unended

\* The worker of a media job works on an upload whose bytes are there.
LEMMA MediaWorker ==
  ASSUME TypeOK, WorkersOK, NEW w \in Workers, NEW a \in Assets, On(w, "media", a), Unstalled(a), AssetOK(a)
  PROVE  /\ MediaJob(a) # "none" /\ receiver[a] = "none"
         /\ asset[a].processing \in {"uploaded", "processing", "ready", "rejected", "expired"}
<1>1. MediaJob(a) # "none"
  BY DEF WorkersOK, LeaseHeld, On, Holds, MediaJob, Asset
<1> QED
  BY <1>1 DEF AssetOK, UploadOK

LEMMA DeleteWorker ==
  ASSUME TypeOK, WorkersOK, NEW w \in Workers, NEW a \in Assets, On(w, "media-delete", a), Unstalled(a)
  PROVE  DeleteJob(a) # "none"
  BY DEF WorkersOK, LeaseHeld, On, Holds, DeleteJob, Asset

LEMMA AssetsStep ==
  ASSUME TypeOK, WorkersOK, NEW b \in Assets, Sound(b) => AssetOK(b), ReplayOK(b), [MediaNext]_mediaVars, Sound(b)'
  PROVE  AssetOK(b)'
<1>0. AssetOK(b) /\ Unstalled(b)
  BY HistoryGrows, SoundBefore
<1>1. ASSUME UNCHANGED <<asset, receiver, job, records>> PROVE AssetOK(b)'
  BY <1>0, <1>1, AssetSame
<1>2. ASSUME NEW a \in Assets, intent(a) PROVE AssetOK(b)'
  <2>1. UNCHANGED <<receiver, job, records>> /\ asset[a].processing = "none"
    BY <1>2 DEF intent
  <2>2. RowBecomes(a, "awaiting_upload", asset[a].deleted, asset[a].allowed, asset[a].derivative)
    BY <1>2, IntentEffect
  <2>3. CASE b = a
    BY <2>1, <2>2, <2>3, <1>0 DEF RowBecomes, AssetOK, UploadOK, RemovalOK, MediaJob, DeleteJob, Unended
  <2>4. CASE b # a
    BY <1>0, <2>1, <2>2, <2>4, AssetSame DEF RowBecomes
  <2> QED
    BY <2>3, <2>4
<1>3. ASSUME NEW a \in Assets, Claims(a) PROVE AssetOK(b)'
  <2>1. UNCHANGED <<job, records>> /\ asset[a].processing = "awaiting_upload" /\ ~asset[a].deleted /\ asset[a].allowed
    BY <1>3 DEF Claims, AwaitsBytes
  <2>2. /\ RowBecomes(a, "receiving", asset[a].deleted, asset[a].allowed, asset[a].derivative)
        /\ ReceiverBecomes(a, "claimed")
    BY <1>3, ClaimsEffect
  <2>3. CASE b = a
    BY <2>1, <2>2, <2>3, <1>0 DEF RowBecomes, ReceiverBecomes, AssetOK, UploadOK, RemovalOK, MediaJob, DeleteJob, Unended
  <2>4. CASE b # a
    BY <1>0, <2>1, <2>2, <2>4, AssetSame DEF RowBecomes, ReceiverBecomes
  <2> QED
    BY <2>3, <2>4
<1>4. ASSUME NEW a \in Assets, WritesOriginal(a) \/ DeletesOriginal(a) PROVE AssetOK(b)'
  <2>1. UNCHANGED <<asset, job, records>>
    BY <1>4 DEF WritesOriginal, DeletesOriginal
  <2>2. receiver[a] # "none" /\ \E stage \in {"written", "failing", "undoing"} : ReceiverBecomes(a, stage)
    BY <1>4, WritesOriginalEffect, DeletesOriginalEffect
  <2>3. CASE b = a
    BY <2>1, <2>2, <2>3, <1>0 DEF ReceiverBecomes, AssetOK, UploadOK, RemovalOK, MediaJob, DeleteJob, Unended
  <2>4. CASE b # a
    BY <1>0, <2>1, <2>2, <2>4, AssetSame DEF ReceiverBecomes
  <2> QED
    BY <2>3, <2>4
<1>5. ASSUME NEW a \in Assets, Received(a) PROVE AssetOK(b)'
  <2>0. UNCHANGED records /\ receiver[a] = "written"
    BY <1>5 DEF Received
  <2>1. ASSUME Arrives(a), a = b, ReceiverBecomes(a, "none"),
               RowBecomes(a, "uploaded", asset[a].deleted, asset[a].allowed, asset[a].derivative)
        PROVE  AssetOK(b)'
    <3>1. job' = Queued(job, "media", a, TRUE) /\ StillReceiving(a)
      BY <2>1 DEF Arrives
    <3>2. MediaJob(a) = "none"
      BY <1>0, <2>0, <2>1 DEF AssetOK, UploadOK
    <3>3. /\ job'[<<"media-delete", a>>] = job[<<"media-delete", a>>]
          /\ MediaJob(a)' = "pending" /\ job'[<<"media", a>>].makers
      BY <3>1, <3>2, QueuesMedia
    <3> QED
      BY <1>0, <2>0, <2>1, <3>1, <3>2, <3>3
         DEF StillReceiving, RowBecomes, ReceiverBecomes, AssetOK, UploadOK, RemovalOK, MediaJob, DeleteJob, Unended
  <2>2. ASSUME a = b, ReceiverBecomes(a, "failing"), UNCHANGED <<asset, job>> PROVE AssetOK(b)'
    BY <1>0, <2>0, <2>2 DEF ReceiverBecomes, AssetOK, UploadOK, RemovalOK, MediaJob, DeleteJob, Unended
  <2>3. Mishap("reply", a) => a # b
    BY MisledThen
  <2>4. ASSUME a # b PROVE AssetOK(b)'
    <3>1. /\ receiver'[b] = receiver[b] /\ asset'[b] = asset[b]
          /\ job' = job \/ job' = Queued(job, "media", a, TRUE)
      BY ZenonT(60), <1>5, <2>4, ReceivedEffect DEF ReceiverBecomes, RowBecomes
    <3>2. job'[<<"media", b>>] = job[<<"media", b>>] /\ job'[<<"media-delete", b>>] = job[<<"media-delete", b>>]
      BY <2>4, <3>1, QueuesMedia DEF JobsOfOthersStay
    <3> QED
      BY <1>0, <2>0, <3>1, <3>2, AssetSame
  <2>5. /\ Arrives(a) => RowBecomes(a, "uploaded", asset[a].deleted, asset[a].allowed, asset[a].derivative)
        /\ \/ Arrives(a) /\ ReceiverBecomes(a, "none")
           \/ ReceiverBecomes(a, "failing") /\ UNCHANGED <<asset, job>>
           \/ Mishap("reply", a)
    <3>1. Arrives(a) => RowBecomes(a, "uploaded", asset[a].deleted, asset[a].allowed, asset[a].derivative)
      BY ProcessingMoves DEF Arrives, TypeOK
    <3>2. \A stage \in Receivers : receiver' = [receiver EXCEPT ![a] = stage] => ReceiverBecomes(a, stage)
      BY DEF TypeOK, ReceiverBecomes
    <3> QED
      BY <1>5, <3>1, <3>2 DEF Received, Receivers
  <2> QED
    BY <2>1, <2>2, <2>3, <2>4, <2>5
<1>6. ASSUME NEW a \in Assets, AwaitsAgain(a) PROVE AssetOK(b)'
  <2>1. /\ receiver[a] = "undoing" /\ ReceiverBecomes(a, "none")
        /\ \/ /\ asset[a].processing = "receiving"
              /\ RowBecomes(a, "awaiting_upload", asset[a].deleted, asset[a].allowed, asset[a].derivative)
           \/ asset[a].processing # "receiving" /\ UNCHANGED asset
    BY <1>6, AwaitsAgainEffect
  <2>2. UNCHANGED <<job, records>>
    BY <1>6 DEF AwaitsAgain
  <2>3. CASE b = a
    BY <2>1, <2>2, <2>3, <1>0 DEF RowBecomes, ReceiverBecomes, AssetOK, UploadOK, RemovalOK, MediaJob, DeleteJob, Unended
  <2>4. CASE b # a
    BY <1>0, <2>1, <2>2, <2>4, AssetSame DEF RowBecomes, ReceiverBecomes
  <2> QED
    BY <2>3, <2>4
<1>7. ASSUME NEW a \in Assets, Overdue(a) PROVE AssetOK(b)'
  <2>1. RowBecomes(a, asset[a].processing, asset[a].deleted, asset[a].allowed, asset[a].derivative)
    BY <1>7, OverdueEffect
  <2>2. UNCHANGED <<receiver, job, records>>
    BY <1>7 DEF Overdue
  <2> QED
    BY <1>0, <2>1, <2>2, AssetSame DEF RowBecomes
<1>8. ASSUME NEW a \in Assets, remove(a) PROVE AssetOK(b)'
  <2>0. UNCHANGED receiver /\ records' = records \cup {a}
    BY <1>8 DEF remove
  <2>1. ASSUME NEW makers \in BOOLEAN, job' = Queued(job, "media-delete", a, makers),
               RowBecomes(a, asset[a].processing, TRUE, asset[a].allowed, asset[a].derivative)
        PROVE  AssetOK(b)'
    <3>1. /\ JobsOfOthersStay(a) /\ job'[<<"media", a>>] = job[<<"media", a>>]
          /\ DeleteJob(a)' # "none"
      BY <2>1, QueuesDelete DEF DeleteJob
    <3>2. CASE b = a
      BY <1>0, <2>0, <2>1, <3>1, <3>2 DEF RowBecomes, AssetOK, UploadOK, RemovalOK, MediaJob, DeleteJob, Unended
    <3>3. CASE b # a
      BY <1>0, <2>0, <2>1, <3>1, <3>3, AssetSame DEF RowBecomes, JobsOfOthersStay
    <3> QED
      BY <3>2, <3>3
  <2>2. ASSUME Mishap("record", a), UNCHANGED <<asset, job>> PROVE AssetOK(b)'
    BY <1>0, <2>0, <2>2, MisledThen, AssetSame
  <2> QED
    BY <1>8, <2>1, <2>2, RemoveEffect
<1>9. ASSUME NEW a \in Assets, sweep(a) PROVE AssetOK(b)'
  <2>1. /\ asset[a].processing \in {"awaiting_upload", "receiving"}
        /\ RowBecomes(a, "expired", asset[a].deleted, asset[a].allowed, asset[a].derivative)
        /\ job' = Queued(job, "media-delete", a, TRUE)
    BY <1>9, SweepEffect
  <2>2. /\ JobsOfOthersStay(a) /\ job'[<<"media", a>>] = job[<<"media", a>>]
        /\ DeleteJob(a)' # "none"
    BY <2>1, QueuesDelete DEF DeleteJob
  <2>3. UNCHANGED <<receiver, records>>
    BY <1>9 DEF sweep
  <2>4. CASE b = a
    BY <2>1, <2>2, <2>3, <2>4, <1>0 DEF RowBecomes, AssetOK, UploadOK, RemovalOK, MediaJob, DeleteJob, Unended
  <2>5. CASE b # a
    BY <1>0, <2>1, <2>2, <2>3, <2>5, AssetSame DEF RowBecomes, JobsOfOthersStay
  <2> QED
    BY <2>4, <2>5
<1>10. ASSUME NEW a \in Assets, removeMember(a) PROVE AssetOK(b)'
  <2>1. UNCHANGED <<receiver, records>>
    BY <1>10 DEF removeMember
  <2>2. /\ asset[a].allowed
        /\ \/ /\ ~asset[a].deleted
              /\ asset[a].processing \in {"awaiting_upload", "receiving", "uploaded", "processing"}
              /\ RowBecomes(a, "expired", asset[a].deleted, FALSE, asset[a].derivative)
              /\ job' = Queued(Cancelled(job, a), "media-delete", a, FALSE)
           \/ /\ RowBecomes(a, asset[a].processing, asset[a].deleted, FALSE, asset[a].derivative)
              /\ job' = Cancelled(job, a)
    BY <1>10, RemoveMemberEffect
  <2>3. CASE job' = Queued(Cancelled(job, a), "media-delete", a, FALSE) /\ ~asset[a].deleted
             /\ asset[a].processing \in {"awaiting_upload", "receiving", "uploaded", "processing"}
             /\ RowBecomes(a, "expired", asset[a].deleted, FALSE, asset[a].derivative)
    <3>1. JobsOfOthersStay(a) /\ MakersJobsEnd(a) /\ DeleteJob(a)' # "none"
      BY <2>3, CancelsAndQueues DEF DeleteJob
    <3>2. CASE b = a
      BY <2>1, <2>3, <3>1, <3>2, <1>0
         DEF MakersJobsEnd, RowBecomes, AssetOK, UploadOK, RemovalOK, MediaJob, DeleteJob, Unended
    <3>3. CASE b # a
      BY <1>0, <2>1, <2>3, <3>1, <3>3, AssetSame DEF RowBecomes, JobsOfOthersStay
    <3> QED
      BY <3>2, <3>3
  <2>4. CASE job' = Cancelled(job, a)
             /\ RowBecomes(a, asset[a].processing, asset[a].deleted, FALSE, asset[a].derivative)
    <3>1. /\ JobsOfOthersStay(a) /\ MakersJobsEnd(a)
          /\ DeleteJob(a)' = "none" <=> DeleteJob(a) = "none"
      BY <2>4, CancelsJobs DEF DeleteJob
    <3>2. CASE b = a
      BY <2>1, <2>2, <2>4, <3>1, <3>2, <1>0
         DEF MakersJobsEnd, RowBecomes, AssetOK, UploadOK, RemovalOK, MediaJob, DeleteJob, Unended
    <3>3. CASE b # a
      BY <1>0, <2>1, <2>4, <3>1, <3>3, AssetSame DEF RowBecomes, JobsOfOthersStay
    <3> QED
      BY <3>2, <3>3
  <2> QED
    BY <2>2, <2>3, <2>4
<1>11. ASSUME NEW a \in Assets, ApiCrash(a) PROVE AssetOK(b)'
  <2>1. ReceiverBecomes(a, "none") /\ UNCHANGED <<asset, job, records>>
    BY <1>11, ApiCrashEffect
  <2>2. CASE b = a
    BY <2>1, <2>2, <1>0 DEF ReceiverBecomes, AssetOK, UploadOK, RemovalOK, MediaJob, DeleteJob, Unended
  <2>3. CASE b # a
    BY <1>0, <2>1, <2>3, AssetSame DEF ReceiverBecomes
  <2> QED
    BY <2>2, <2>3
<1>12. ASSUME NEW w \in Workers, lease(w) PROVE AssetOK(b)'
  <2>1. UNCHANGED <<asset, receiver, records>>
    BY <1>12 DEF lease
  <2>2. PICK k \in Kinds \X Assets :
          job[k].state \in {"pending", "expired"} /\ JobBecomes(k, "leased", w, job[k].makers)
    BY <1>12, LeaseEffect
  <2> QED
    BY <1>0, <2>1, <2>2, JobMovesOn
<1>13. ASSUME NEW w \in Workers, Settles(w) \/ WorkerCrash(w) \/ Stalls(w) \/ Renews(w) PROVE AssetOK(b)'
  <2>1. UNCHANGED <<asset, receiver, records>> /\ Running(w)
    BY <1>13, SettlesEffect, WorkerCrashEffect, StallsEffect, RenewsEffect
  <2> DEFINE Moved ==
               /\ job[worker[w].job].state \in {"leased", "expired"}
               /\ \E state \in {"leased", "succeeded", "failed", "expired"} : \E owner :
                    JobBecomes(worker[w].job, state, owner, job[worker[w].job].makers)
  <2>2. Moved \/ job' = job
    <3>1. Settles(w) => Moved \/ job' = job
      BY SettlesEffect DEF Owns
    <3>2. WorkerCrash(w) => Moved \/ job' = job
      BY WorkerCrashEffect DEF Holds
    <3>3. Stalls(w) \/ Renews(w) => Moved
      BY StallsEffect, RenewsEffect
    <3> QED
      BY <1>13, <3>1, <3>2, <3>3
  <2>3. worker[w].job \in Kinds \X Assets
    BY <2>1, TaskOf
  <2> QED
    BY <1>0, <1>1, <2>1, <2>2, <2>3, JobMovesOn
<1>14. ASSUME NEW w \in Workers, ReadsAsset(w) \/ ChecksScope(w) \/ Converts(w) \/ WritesDisplay(w)
                                \/ ClearsDisplay(w) \/ Judges(w) \/ DeletesFiles(w) \/ GivesUp(w)
       PROVE  UNCHANGED <<asset, receiver, job, records>>
  BY <1>14, ReadsAssetEffect, ChecksScopeEffect, ConvertsEffect, WritesDisplayEffect, ClearsDisplayEffect,
     JudgesEffect, DeletesFilesEffect, GivesUpEffect
<1>15. \A w \in Workers : Running(w) =>
         /\ Asset(w) \in Assets
         /\ worker[w].stage \notin DeleteStages => On(w, "media", Asset(w))
         /\ worker[w].stage \notin MediaStages => On(w, "media-delete", Asset(w))
  BY KindOf, TaskOf DEF WorkersOK
<1>16. ASSUME NEW w \in Workers, Marks(w) PROVE AssetOK(b)'
  <2> DEFINE a == Asset(w)
  <2>1. /\ worker[w].stage = "marking" /\ Running(w) /\ UNCHANGED <<receiver, job, records>>
        /\ RowBecomes(a, "processing", asset[a].deleted, asset[a].allowed, asset[a].derivative)
    BY <1>16, MarksEffect
  <2>2. a \in Assets /\ On(w, "media", a)
    BY <1>15, <2>1 DEF DeleteStages
  <2> HIDE DEF a
  <2>3. a = b => MediaJob(a) # "none" /\ receiver[a] = "none"
    BY <1>0, <2>2, MediaWorker
  <2>4. CASE b = a
    BY <2>1, <2>3, <2>4, <1>0 DEF RowBecomes, AssetOK, UploadOK, RemovalOK, MediaJob, DeleteJob, Unended
  <2>5. CASE b # a
    BY <1>0, <2>1, <2>5, AssetSame DEF RowBecomes
  <2> QED
    BY <2>4, <2>5
<1>17. ASSUME NEW w \in Workers, Commits(w) PROVE AssetOK(b)'
  <2> DEFINE a == Asset(w)
  <2>1. /\ worker[w].stage = "committing" /\ Running(w) /\ UNCHANGED <<receiver, job, records>>
        /\ \/ /\ asset[a].allowed /\ ~asset[a].deleted
              /\ RowBecomes(a, "ready", asset[a].deleted, asset[a].allowed, w)
           \/ UNCHANGED asset
    BY <1>17, CommitsEffect DEF MayCommit
  <2>2. a \in Assets /\ On(w, "media", a)
    BY <1>15, <2>1 DEF DeleteStages
  <2> HIDE DEF a
  <2>3. a = b => MediaJob(a) # "none" /\ receiver[a] = "none"
    BY <1>0, <2>2, MediaWorker
  <2>4. CASE UNCHANGED asset
    BY <1>1, <2>1, <2>4
  <2>5. CASE b = a /\ asset' # asset
    BY <2>1, <2>3, <2>5, <1>0 DEF RowBecomes, AssetOK, UploadOK, RemovalOK, MediaJob, DeleteJob, Unended
  <2>6. CASE b # a /\ asset' # asset
    BY <1>0, <2>1, <2>6, AssetSame DEF RowBecomes
  <2> QED
    BY <2>4, <2>5, <2>6
<1>18. ASSUME NEW w \in Workers, release(w) PROVE AssetOK(b)'
  <2> DEFINE a == Asset(w)
  <2>1. /\ worker[w].stage \in {"rejected", "expired"} /\ Running(w) /\ UNCHANGED <<receiver, job, records>>
        /\ RowBecomes(a, worker[w].stage, asset[a].deleted, asset[a].allowed, asset[a].derivative)
    BY <1>18, ReleaseEffect
  <2>2. a \in Assets /\ (worker[w].stage = "rejected" => On(w, "media", a))
    BY <1>15, <2>1 DEF DeleteStages
  <2> HIDE DEF a
  <2>3. a = b /\ worker[w].stage = "rejected" => MediaJob(a) # "none" /\ receiver[a] = "none"
    BY <1>0, <2>2, MediaWorker
  <2>4. CASE b = a
    BY <2>1, <2>3, <2>4, <1>0 DEF RowBecomes, AssetOK, UploadOK, RemovalOK, MediaJob, DeleteJob, Unended
  <2>5. CASE b # a
    BY <1>0, <2>1, <2>5, AssetSame DEF RowBecomes
  <2> QED
    BY <2>4, <2>5
<1>21. ASSUME NEW a \in Assets, requestAccountDeletion(a) PROVE AssetOK(b)'
  <2>1. /\ RowBecomes(a, asset[a].processing, asset[a].deleted, FALSE, asset[a].derivative)
        /\ UNCHANGED <<job, receiver, records>>
    BY <1>21, AccountEffect
  <2>2. CASE b = a
    BY <1>0, <2>1, <2>2 DEF RowBecomes, AssetOK, UploadOK, RemovalOK, MediaJob, DeleteJob, Unended
  <2>3. CASE b # a
    BY <1>0, <2>1, <2>3, AssetSame DEF RowBecomes
  <2> QED
    BY <2>2, <2>3
<1>22. ASSUME NEW a \in Assets, Starts(a) \/ StartsAgain(a) \/ DeletesRecorded(a) \/ StartFails(a)
       PROVE  UNCHANGED <<asset, receiver, job, records>>
  BY <1>22 DEF Starts, StartsAgain, ReadsRow, DeletesRecorded, StartFails
<1>23. ASSUME NEW a \in Assets, Expires(a) PROVE AssetOK(b)'
  <2>1. /\ replay[a].stage = "expiring" /\ UNCHANGED <<job, receiver, records>>
        /\ RowBecomes(a, "expired", TRUE, asset[a].allowed, asset[a].derivative)
    BY <1>23, ExpiresEffect
  <2>2. CASE b = a
    <3>1. asset[a].deleted
      BY <1>0, <2>1, <2>2 DEF ReplayOK, AssetOK, RemovalOK
    <3> QED
      BY <1>0, <2>1, <2>2, <3>1 DEF RowBecomes, AssetOK, UploadOK, RemovalOK, MediaJob, DeleteJob, Unended
  <2>3. CASE b # a
    BY <1>0, <2>1, <2>3, AssetSame DEF RowBecomes
  <2> QED
    BY <2>2, <2>3
<1>19. CASE OthersUse
  BY <1>1, <1>19, OthersUseEffect
<1>20. CASE UNCHANGED mediaVars
  BY <1>1, <1>20 DEF mediaVars
<1> QED
  BY <1>1, <1>2, <1>3, <1>4, <1>5, <1>6, <1>7, <1>8, <1>9, <1>10, <1>11, <1>12, <1>13, <1>14, <1>16,
     <1>17, <1>18, <1>19, <1>20, <1>21, <1>22, <1>23
     DEF MediaNext, Asks, Receives, Replays, Works, Runs

-----------------------------------------------------------------------------
(* The files of ready assets                                                  *)

FilesOK(a) == ReadyOK(a) /\ \A w \in Workers : WorkOK(w, a)

FilesStay(a) == \A by \in Workers \cup {Nobody} : Display(a, by) \in objects => Display(a, by) \in objects'

LEMMA FileNames ==
  \A a, b \in Assets : \A v, w \in Workers \cup {Nobody} :
    /\ Original(a) = Display(a, Nobody)
    /\ Display(a, v) = Display(b, w) => a = b /\ v = w
  BY DEF Original, Display

\* A worker of the asset's media job is as it was, or at a stage that needs no files.
AtEase(v, b) ==
  On(v, "media", b)' =>
    \/ On(v, "media", b) /\ worker'[v].stage = worker[v].stage
    \/ /\ worker'[v].stage \notin {"writing", "committing"}
       /\ asset'[b].processing = "ready" => worker'[v].stage \in {"leased", "done", "failed"}

LEMMA FilesKept ==
  ASSUME NEW b \in Assets, TypeOK, FilesOK(b), FilesStay(b),
         asset'[b].processing = asset[b].processing \/ asset'[b].processing # "ready",
         asset'[b].allowed => asset[b].allowed, asset[b].deleted => asset'[b].deleted,
         asset'[b].derivative = asset[b].derivative,
         \A v \in Workers : AtEase(v, b)
  PROVE  FilesOK(b)'
<1>1. asset[b].derivative \in Workers \cup {Nobody}
  BY DEF TypeOK, Rows
<1>2. /\ Original(b) \in objects => Original(b) \in objects'
      /\ Display(b, asset[b].derivative) \in objects => Display(b, asset[b].derivative) \in objects'
      /\ \A v \in Workers : Display(b, v) \in objects => Display(b, v) \in objects'
  BY <1>1, FileNames DEF FilesStay
<1>3. ReadyOK(b)'
  BY <1>2 DEF FilesOK, ReadyOK
<1>4. ASSUME NEW v \in Workers PROVE WorkOK(v, b)'
  BY <1>2 DEF FilesOK, WorkOK, AtEase
<1> QED
  BY <1>3, <1>4 DEF FilesOK

\* The row changes; no worker and no file does.
RowEases(a) ==
  /\ \A b \in Assets \ {a} : asset'[b] = asset[b]
  /\ asset'[a].processing = asset[a].processing \/ asset'[a].processing # "ready"
  /\ asset'[a].allowed => asset[a].allowed
  /\ asset[a].deleted => asset'[a].deleted
  /\ asset'[a].derivative = asset[a].derivative

LEMMA RowChangeOK ==
  ASSUME TypeOK, NEW a \in Assets, NEW b \in Assets, FilesOK(b), UNCHANGED <<worker, objects>>, RowEases(a)
  PROVE  FilesOK(b)'
<1>1. FilesStay(b) /\ \A v \in Workers : AtEase(v, b)
  BY DEF FilesStay, AtEase, On, Running
<1>2. CASE b = a
  BY <1>1, <1>2, FilesKept DEF RowEases
<1>3. CASE b # a
  BY <1>1, <1>3, FilesKept DEF RowEases
<1> QED
  BY <1>2, <1>3

\* A worker goes on to a stage that needs no files; the row and the files stay.
LEMMA StageChangeOK ==
  ASSUME TypeOK, NEW w \in Workers, NEW b \in Assets, FilesOK(b), UNCHANGED <<asset, objects>>,
         NEW stage, WorkerBecomes(w, stage), stage \notin {"writing", "committing"},
         On(w, "media", b) /\ asset[b].processing = "ready" => stage \in {"leased", "done", "failed"}, Running(w)
  PROVE  FilesOK(b)'
<1>1. FilesStay(b)
  BY DEF FilesStay
<1>2. ASSUME NEW v \in Workers PROVE AtEase(v, b)
  <2>1. CASE v = w
    BY <2>1 DEF AtEase, On, WorkerBecomes, Running
  <2>2. CASE v # w
    BY <2>2 DEF AtEase, On, WorkerBecomes, Running
  <2> QED
    BY <2>1, <2>2
<1> QED
  BY <1>1, <1>2, FilesKept

\* Workers other than w are as they were.
LEMMA OthersAtEase ==
  ASSUME NEW w \in Workers, NEW b \in Assets, \A v \in Workers \ {w} : worker'[v] = worker[v]
  PROVE  \A v \in Workers \ {w} : AtEase(v, b)
  BY DEF AtEase, On, Running

LEMMA FilesStep ==
  ASSUME TypeOK, WorkersOK, NEW b \in Assets, Sound(b) => AssetOK(b) /\ FilesOK(b), ReplayOK(b),
         [MediaNext]_mediaVars, Sound(b)'
  PROVE  FilesOK(b)'
<1>0. AssetOK(b) /\ FilesOK(b) /\ Unstalled(b)
  BY HistoryGrows, SoundBefore
<1>1. ASSUME UNCHANGED <<asset, worker, objects>> PROVE FilesOK(b)'
  <2>1. FilesStay(b) /\ \A v \in Workers : AtEase(v, b)
    BY <1>1 DEF FilesStay, AtEase, On, Running
  <2> QED
    BY <1>1, <2>1, <1>0, FilesKept
<1>2. ASSUME NEW a \in Assets, intent(a) \/ Claims(a) \/ Received(a) \/ AwaitsAgain(a) \/ Overdue(a)
                               \/ remove(a) \/ sweep(a) \/ removeMember(a) \/ requestAccountDeletion(a)
                               \/ Expires(a)
      PROVE  FilesOK(b)'
  <2>1. UNCHANGED <<worker, objects>>
    BY <1>2 DEF intent, Claims, Received, AwaitsAgain, Overdue, remove, sweep, removeMember, requestAccountDeletion, Expires
  <2>2. RowEases(a)
    <3>1. CASE intent(a)
      BY <3>1, IntentEffect DEF RowEases, RowBecomes
    <3>2. CASE Claims(a)
      BY <3>2, ClaimsEffect DEF RowEases, RowBecomes
    <3>3. CASE Received(a)
      BY <3>3, ReceivedEffect DEF RowEases, RowBecomes
    <3>4. CASE AwaitsAgain(a)
      BY <3>4, AwaitsAgainEffect DEF RowEases, RowBecomes
    <3>5. CASE Overdue(a)
      BY <3>5, OverdueEffect DEF RowEases, RowBecomes
    <3>6. CASE remove(a)
      BY <3>6, RemoveEffect DEF RowEases, RowBecomes
    <3>7. CASE sweep(a)
      BY <3>7, SweepEffect DEF RowEases, RowBecomes
    <3>8. CASE removeMember(a)
      BY <3>8, RemoveMemberEffect DEF RowEases, RowBecomes
    <3>9. CASE requestAccountDeletion(a)
      BY <3>9, AccountEffect DEF RowEases, RowBecomes
    <3>10. CASE Expires(a)
      BY <3>10, ExpiresEffect DEF RowEases, RowBecomes
    <3> QED
      BY <1>2, <3>1, <3>2, <3>3, <3>4, <3>5, <3>6, <3>7, <3>8, <3>9, <3>10
  <2> QED
    BY <2>1, <2>2, <1>0, RowChangeOK
<1>3. ASSUME NEW a \in Assets, WritesOriginal(a) PROVE FilesOK(b)'
  <2>1. UNCHANGED <<asset, worker>> /\ objects \subseteq objects'
    BY <1>3, WritesOriginalEffect DEF WritesOriginal
  <2>2. FilesStay(b) /\ \A v \in Workers : AtEase(v, b)
    BY <2>1 DEF FilesStay, AtEase, On, Running
  <2> QED
    BY <2>1, <2>2, <1>0, FilesKept
<1>4. ASSUME NEW a \in Assets, DeletesOriginal(a) PROVE FilesOK(b)'
  <2>1. UNCHANGED <<asset, worker>> /\ objects' = objects \ {Original(a)} /\ receiver[a] = "failing"
    BY <1>4, DeletesOriginalEffect DEF DeletesOriginal
  <2>2. CASE b = a
    <3>1. asset[b].processing # "ready"
      BY <1>0, <2>1, <2>2 DEF AssetOK, UploadOK
    <3>2. \A v \in Workers : ~On(v, "media", b)
      BY <1>0, <2>1, <2>2, MediaWorker DEF AssetOK, UploadOK
    <3> QED
      BY <1>0, <2>1, <2>2, <3>1, <3>2 DEF FilesOK, ReadyOK, WorkOK, On, Running
  <2>3. CASE b # a
    <3>1. FilesStay(b) /\ \A v \in Workers : AtEase(v, b)
      BY <2>1, <2>3, FileNames DEF FilesStay, AtEase, On, Running
    <3> QED
      BY <2>1, <3>1, <1>0, FilesKept
  <2> QED
    BY <2>2, <2>3
<1>5. CASE OthersUse
  BY <1>1, <1>5, OthersUseEffect
<1>6. ASSUME NEW a \in Assets, ApiCrash(a) PROVE FilesOK(b)'
  BY <1>1, <1>6, ApiCrashEffect
<1>7. CASE UNCHANGED mediaVars
  BY <1>1, <1>7 DEF mediaVars
\* The steps of workers.
<1>8. ASSUME NEW w \in Workers, lease(w) PROVE FilesOK(b)'
  <2>1. UNCHANGED <<asset, objects>>
    BY <1>8 DEF lease
  <2>2. \A v \in Workers \ {w} : worker'[v] = worker[v]
    BY <1>8, LeaseEffect
  <2>3. worker'[w].stage = "leased"
    BY <1>8, LeaseEffect
  <2>4. FilesStay(b) /\ \A v \in Workers : AtEase(v, b)
    BY <2>1, <2>2, <2>3, OthersAtEase DEF FilesStay, AtEase
  <2> QED
    BY <2>1, <2>4, <1>0, FilesKept
<1>9. ASSUME NEW w \in Workers, Settles(w) \/ WorkerCrash(w) PROVE FilesOK(b)'
  <2>1. UNCHANGED <<asset, objects>> /\ \E place : WorkerStops(w, place)
    BY <1>9, SettlesEffect, WorkerCrashEffect
  <2>2. FilesStay(b) /\ \A v \in Workers : AtEase(v, b)
    BY <2>1, OthersAtEase DEF FilesStay, AtEase, WorkerStops, On
  <2> QED
    BY <2>1, <2>2, <1>0, FilesKept
<1>10. \A w \in Workers : Running(w) =>
         /\ Asset(w) \in Assets
         /\ worker[w].stage \notin DeleteStages => On(w, "media", Asset(w))
         /\ worker[w].stage \notin MediaStages => On(w, "media-delete", Asset(w))
  BY KindOf, TaskOf DEF WorkersOK
\* A media worker at any stage but its first and last works on an asset that is not ready, alone.
<1>11. ASSUME NEW w \in Workers, Running(w), worker[w].stage \notin DeleteStages
       PROVE  /\ Asset(w) \in Assets /\ On(w, "media", Asset(w))
              /\ Asset(w) = b => /\ asset[b].processing # "ready" /\ WorkOK(w, b)
                                 /\ \A v \in Workers \ {w} : ~On(v, "media", b)
  <2>1. Asset(w) \in Assets /\ On(w, "media", Asset(w)) /\ WorkOK(w, b)
    BY <1>0, <1>10, <1>11 DEF FilesOK
  <2>2. Asset(w) = b => \A v \in Workers \ {w} : ~On(v, "media", b)
    BY <1>0, <2>1 DEF WorkersOK, RunsAlone, On
  <2>3. Asset(w) = b => asset[b].processing # "ready"
    BY <1>11, <2>1 DEF WorkOK, DeleteStages
  <2> QED
    BY <2>1, <2>2, <2>3
<1>12. ASSUME NEW w \in Workers, ReadsAsset(w) PROVE FilesOK(b)'
  <2>1. Running(w) /\ UNCHANGED <<asset, objects>>
    BY <1>12, ReadsAssetEffect
  <2>2. PICK stage \in {"deleting", "done", "failed", "rejecting", "starting"} :
          /\ WorkerBecomes(w, stage)
          /\ worker[w].job[1] = "media-delete" <=> stage = "deleting"
          /\ stage \in {"failed", "rejecting", "starting"} => asset[Asset(w)].processing # "ready"
    BY <1>12, ReadsAssetEffect
  <2>3. On(w, "media", b) => worker[w].job[1] = "media" /\ Asset(w) = b
    BY DEF On, Asset
  <2> QED
    BY <2>1, <2>2, <2>3, <1>0, StageChangeOK
<1>13. ASSUME NEW w \in Workers, ChecksScope(w) \/ Judges(w) PROVE FilesOK(b)'
  <2>1. /\ Running(w) /\ UNCHANGED <<asset, objects>> /\ worker[w].stage \notin DeleteStages
        /\ \E stage \in {"marking", "clearing", "rejecting", "failed"} : WorkerBecomes(w, stage)
    BY <1>13, ChecksScopeEffect, JudgesEffect DEF DeleteStages
  <2>2. On(w, "media", b) => Asset(w) = b
    BY DEF On, Asset
  <2>3. On(w, "media", b) => asset[b].processing # "ready"
    BY <1>11, <2>1, <2>2
  <2> QED
    BY <2>1, <2>3, <1>0, StageChangeOK
<1>14. ASSUME NEW w \in Workers, Marks(w) PROVE FilesOK(b)'
  <2> DEFINE a == Asset(w)
  <2>1. /\ Running(w) /\ worker[w].stage = "marking" /\ WorkerBecomes(w, "reading") /\ UNCHANGED objects
        /\ RowBecomes(a, "processing", asset[a].deleted, asset[a].allowed, asset[a].derivative)
    BY <1>14, MarksEffect
  <2>2. a \in Assets /\ (On(w, "media", b) => a = b)
    BY <1>10, <2>1 DEF On, Asset
  <2> HIDE DEF a
  <2>3. \A v \in Workers : AtEase(v, b)
    <3>1. \A v \in Workers \ {w} : AtEase(v, b)
      BY <2>1, OthersAtEase DEF WorkerBecomes
    <3>2. AtEase(w, b)
      BY <2>1, <2>2 DEF AtEase, On, WorkerBecomes, RowBecomes, Running
    <3> QED
      BY <3>1, <3>2
  <2>4. FilesStay(b)
    BY <2>1 DEF FilesStay
  <2>5. CASE b = a
    BY <2>1, <2>3, <2>4, <2>5, <1>0, FilesKept DEF RowBecomes
  <2>6. CASE b # a
    BY <2>1, <2>3, <2>4, <2>6, <1>0, FilesKept DEF RowBecomes
  <2> QED
    BY <2>5, <2>6
<1>15. ASSUME NEW w \in Workers, Converts(w) PROVE FilesOK(b)'
  <2>1. /\ Running(w) /\ worker[w].stage = "reading" /\ UNCHANGED <<asset, objects>>
        /\ \/ WorkerBecomes(w, "writing") /\ Original(Asset(w)) \in objects
           \/ WorkerBecomes(w, "clearing")
    BY <1>15, ConvertsEffect
  <2>3. On(w, "media", b) => Asset(w) = b
    BY DEF On, Asset
  <2>2. On(w, "media", b) => asset[b].processing # "ready"
    BY <1>11, <2>1, <2>3 DEF DeleteStages
  <2>4. CASE WorkerBecomes(w, "clearing")
    BY <2>1, <2>2, <2>3, <2>4, <1>0, StageChangeOK
  <2>5. CASE WorkerBecomes(w, "writing") /\ Original(Asset(w)) \in objects
    <3>1. ReadyOK(b)'
      BY <1>0, <2>1 DEF FilesOK, ReadyOK
    <3>2. WorkOK(w, b)'
      BY <2>1, <2>2, <2>3, <2>5 DEF WorkOK, On, WorkerBecomes, Running
    <3>3. ASSUME NEW v \in Workers \ {w} PROVE WorkOK(v, b)'
      BY <1>0, <2>1, <2>5 DEF FilesOK, WorkOK, On, WorkerBecomes, Running
    <3> QED
      BY <3>1, <3>2, <3>3 DEF FilesOK
  <2> QED
    BY <2>1, <2>4, <2>5
<1>16. ASSUME NEW w \in Workers, WritesDisplay(w) PROVE FilesOK(b)'
  <2>1. /\ Running(w) /\ worker[w].stage = "writing" /\ UNCHANGED asset
        /\ WorkerBecomes(w, "committing") /\ objects' = objects \cup {Display(Asset(w), w)}
    BY <1>16, WritesDisplayEffect
  <2>3. On(w, "media", b) => Asset(w) = b
    BY DEF On, Asset
  <2>2. On(w, "media", b) => asset[b].processing # "ready"
    BY <1>11, <2>1, <2>3 DEF DeleteStages
  <2>4. ReadyOK(b)'
    BY <1>0, <2>1 DEF FilesOK, ReadyOK
  <2>5. WorkOK(w, b)'
    <3>1. WorkOK(w, b)
      BY <1>0 DEF FilesOK
    <3> QED
      BY <2>1, <2>2, <2>3, <3>1 DEF WorkOK, On, WorkerBecomes, Running
  <2>6. ASSUME NEW v \in Workers \ {w} PROVE WorkOK(v, b)'
    BY <1>0, <2>1 DEF FilesOK, WorkOK, On, WorkerBecomes, Running
  <2> QED
    BY <2>4, <2>5, <2>6 DEF FilesOK
<1>17. ASSUME NEW w \in Workers, Commits(w) PROVE FilesOK(b)'
  <2> DEFINE a == Asset(w)
  <2>1. /\ Running(w) /\ worker[w].stage = "committing" /\ UNCHANGED objects
        /\ \/ /\ asset[a].allowed /\ ~asset[a].deleted
              /\ RowBecomes(a, "ready", asset[a].deleted, asset[a].allowed, w)
              /\ WorkerBecomes(w, "done") \/ (WorkerBecomes(w, "clearing") /\ Mishap("reply", a))
           \/ UNCHANGED asset /\ \E stage \in {"clearing", "lost"} : WorkerBecomes(w, stage)
    BY <1>17, CommitsEffect DEF MayCommit
  <2>2. /\ a \in Assets /\ On(w, "media", a)
        /\ a = b => /\ asset[b].processing # "ready" /\ WorkOK(w, b)
                    /\ \A v \in Workers \ {w} : ~On(v, "media", b)
    BY <1>11, <2>1 DEF DeleteStages
  <2>3. On(w, "media", b) => a = b
    BY DEF On, Asset
  <2> HIDE DEF a
  <2>6. a = b => ~Mishap("reply", a)
    BY MisledThen
  <2>4. CASE UNCHANGED asset /\ \E stage \in {"clearing", "lost"} : WorkerBecomes(w, stage)
    BY <2>1, <2>2, <2>3, <2>4, <1>0, StageChangeOK
  <2>5. CASE /\ asset[a].allowed /\ ~asset[a].deleted
             /\ RowBecomes(a, "ready", asset[a].deleted, asset[a].allowed, w)
             /\ WorkerBecomes(w, "done") \/ (WorkerBecomes(w, "clearing") /\ Mishap("reply", a))
    <3>1. CASE b = a
      <4>0. WorkerBecomes(w, "done")
        BY <2>5, <2>6, <3>1
      <4>1. Original(a) \in objects /\ Display(a, w) \in objects
        BY <2>1, <2>2, <2>5, <3>1 DEF WorkOK
      <4>2. ReadyOK(b)'
        BY <2>1, <2>5, <3>1, <4>1 DEF ReadyOK, RowBecomes
      <4>3. \A v \in Workers : On(v, "media", b)' => v = w
        BY <2>2, <3>1, <4>0 DEF On, WorkerBecomes, Running
      <4>4. \A v \in Workers : WorkOK(v, b)'
        BY <4>0, <4>3 DEF WorkOK, WorkerBecomes
      <4> QED
        BY <4>2, <4>4 DEF FilesOK
    <3>2. CASE b # a
      <4>1. \A v \in Workers : AtEase(v, b)
        <5>1. \A v \in Workers \ {w} : AtEase(v, b)
          BY <2>5, OthersAtEase DEF WorkerBecomes
        <5>2. AtEase(w, b)
          BY <2>1, <2>3, <2>5, <3>2 DEF AtEase, On, WorkerBecomes, Running
        <5> QED
          BY <5>1, <5>2
      <4>2. FilesStay(b)
        BY <2>1 DEF FilesStay
      <4> QED
        BY <1>0, <2>5, <3>2, <4>1, <4>2, FilesKept DEF RowBecomes
    <3> QED
      BY <3>1, <3>2
  <2> QED
    BY <2>1, <2>4, <2>5
\* A media worker that takes files away does so from an asset that is not ready.
<1>18. ASSUME NEW w \in Workers, Running(w), worker[w].stage \notin DeleteStages, UNCHANGED asset,
              NEW stage \in {"judging", "failed", "rejected"}, WorkerBecomes(w, stage),
              NEW by \in Workers \cup {Nobody}, objects' = objects \ {Display(Asset(w), by)}
       PROVE  FilesOK(b)'
  <2> DEFINE a == Asset(w)
  <2>1. /\ a \in Assets /\ On(w, "media", a)
        /\ a = b => /\ asset[b].processing # "ready"
                    /\ \A v \in Workers \ {w} : ~On(v, "media", b)
    BY <1>11, <1>18
  <2>2. On(w, "media", b) => a = b
    BY DEF On, Asset
  <2>3. objects' = objects \ {Display(a, by)}
    BY <1>18
  <2> HIDE DEF a
  <2>4. CASE b = a
    <3>1. \A v \in Workers : On(v, "media", b)' => v = w
      BY <1>18, <2>1, <2>4 DEF On, WorkerBecomes, Running
    <3>2. \A v \in Workers : WorkOK(v, b)'
      BY <1>18, <2>1, <2>4, <3>1 DEF WorkOK, WorkerBecomes
    <3>3. ReadyOK(b)'
      BY <1>18, <2>1, <2>4 DEF ReadyOK
    <3> QED
      BY <3>2, <3>3 DEF FilesOK
  <2>5. CASE b # a
    <3>1. FilesStay(b)
      BY <2>1, <2>3, <2>5, FileNames DEF FilesStay
    <3>2. \A v \in Workers \ {w} : AtEase(v, b)
      BY <1>18, OthersAtEase DEF WorkerBecomes
    <3>3. AtEase(w, b)
      BY <1>18, <2>2, <2>5 DEF AtEase, On, WorkerBecomes, Running
    <3> QED
      BY <1>18, <3>1, <3>2, <3>3, <1>0, FilesKept
  <2> QED
    BY <2>4, <2>5
<1>19. ASSUME NEW w \in Workers, ClearsDisplay(w) PROVE FilesOK(b)'
  BY <1>18, <1>19, ClearsDisplayEffect DEF DeleteStages
<1>20. ASSUME NEW w \in Workers, DeletesFiles(w) PROVE FilesOK(b)'
  <2> DEFINE a == Asset(w)
  <2>1. /\ Running(w) /\ UNCHANGED <<asset, job>>
        /\ \/ /\ worker[w].stage = "rejecting" /\ WorkerBecomes(w, "rejected")
              /\ objects' = objects \ {Original(a)}
           \/ /\ worker[w].stage = "deleting" /\ WorkerBecomes(w, "expired")
              /\ objects' = objects \ {Original(a), Display(a, worker[w].named)}
    BY <1>20, DeletesFilesEffect
  <2>2. CASE worker[w].stage = "rejecting"
    <3>1. Original(a) = Display(a, Nobody)
      BY DEF Original, Display
    <3> QED
      BY <1>18, <2>1, <2>2, <3>1 DEF DeleteStages
  <2>3. CASE worker[w].stage = "deleting"
    <3>1. a \in Assets /\ On(w, "media-delete", a)
      BY <1>10, <2>1, <2>3 DEF MediaStages, Early
    <3>3. a = b => \/ asset[a].deleted
                   \/ ~asset[a].allowed /\ asset[a].processing # "ready"
                   \/ asset[a].processing # "ready" /\ \A v \in Workers : ~On(v, "media", a)
      <4>1. a = b => DeleteJob(a) # "none"
        BY <1>0, <3>1, DeleteWorker
      <4>2. a = b => \A v \in Workers : On(v, "media", a) => MediaJob(a) # "none"
        BY <1>0, MediaWorker
      <4> QED
        BY <1>0, <4>1, <4>2 DEF AssetOK, RemovalOK
    <3>4. ~On(w, "media", b)
      BY <3>1 DEF On
    <3>5. /\ WorkerBecomes(w, "expired") /\ UNCHANGED asset
          /\ objects' = objects \ {Original(a), Display(a, worker[w].named)}
      BY <2>1, <2>3
    <3>6. worker[w].named \in Workers \cup {Nobody}
      BY <2>1, TaskOf, PlacesDiffer
    <3> HIDE DEF a
    <3>7. ASSUME NEW v \in Workers, On(v, "media", b)'
          PROVE  On(v, "media", b) /\ worker'[v].stage = worker[v].stage
      <4>1. Running(w) /\ worker'[w].job = worker[w].job /\ \A u \in Workers \ {w} : worker'[u] = worker[u]
        BY <2>1, <3>5 DEF WorkerBecomes
      <4>2. CASE v = w
        BY <3>4, <3>7, <4>1, <4>2 DEF On
      <4>3. CASE v # w
        BY <3>7, <4>1, <4>3 DEF On, Running
      <4> QED
        BY <4>2, <4>3
    <3>8. CASE b = a
      <4>1. ReadyOK(b)'
        BY <3>3, <3>5, <3>8 DEF ReadyOK
      <4>2. \A v \in Workers : WorkOK(v, b)'
        BY <1>0, <3>3, <3>5, <3>7, <3>8 DEF FilesOK, WorkOK
      <4> QED
        BY <4>1, <4>2 DEF FilesOK
    <3>9. CASE b # a
      <4>1. FilesStay(b)
        BY <3>1, <3>5, <3>6, <3>9, FileNames DEF FilesStay
      <4>2. \A v \in Workers : AtEase(v, b)
        BY <3>7 DEF AtEase
      <4> QED
        BY <3>5, <4>1, <4>2, <1>0, FilesKept
    <3> QED
      BY <3>8, <3>9
  <2> QED
    BY <2>1, <2>2, <2>3
<1>21. ASSUME NEW w \in Workers, release(w) PROVE FilesOK(b)'
  <2> DEFINE a == Asset(w)
  <2>1. /\ Running(w) /\ UNCHANGED objects /\ worker[w].stage \in {"rejected", "expired"}
        /\ RowBecomes(a, worker[w].stage, asset[a].deleted, asset[a].allowed, asset[a].derivative)
        /\ \E stage \in {"failed", "done"} : WorkerBecomes(w, stage)
    BY <1>21, ReleaseEffect
  <2>2. a \in Assets /\ (On(w, "media", b) => a = b)
    BY <1>10, <2>1 DEF On, Asset
  <2> HIDE DEF a
  <2>3. FilesStay(b)
    BY <2>1 DEF FilesStay
  <2>4. \A v \in Workers \ {w} : AtEase(v, b)
    BY <2>1, OthersAtEase DEF WorkerBecomes
  <2>5. CASE b = a
    <3>1. asset'[b].processing # "ready"
      BY <2>1, <2>5 DEF RowBecomes
    <3>2. AtEase(w, b)
      BY <2>1, <3>1 DEF AtEase, WorkerBecomes
    <3> QED
      BY <2>1, <2>3, <2>4, <2>5, <3>1, <3>2, <1>0, FilesKept DEF RowBecomes
  <2>6. CASE b # a
    <3>1. AtEase(w, b)
      BY <2>1, <2>2, <2>6 DEF AtEase, On, WorkerBecomes, Running
    <3> QED
      BY <2>1, <2>3, <2>4, <2>6, <3>1, <1>0, FilesKept DEF RowBecomes
  <2> QED
    BY <2>5, <2>6
<1>22. ASSUME NEW w \in Workers, GivesUp(w) PROVE FilesOK(b)'
  <2>1. Running(w) /\ WorkerBecomes(w, "failed") /\ UNCHANGED <<asset, objects>>
    BY <1>22, GivesUpEffect
  <2> QED
    BY <1>0, <2>1, StageChangeOK
<1>23. ASSUME NEW w \in Workers, Stalls(w) \/ Renews(w) PROVE FilesOK(b)'
  BY <1>1, <1>23, StallsEffect, RenewsEffect
<1>24. ASSUME NEW a \in Assets, Starts(a) \/ StartsAgain(a) \/ StartFails(a) PROVE FilesOK(b)'
  BY <1>1, <1>24 DEF Starts, StartsAgain, ReadsRow, StartFails
\* A start takes the files of recorded assets, and those are deleted.
<1>25. ASSUME NEW a \in Assets, DeletesRecorded(a) PROVE FilesOK(b)'
  <2>1. /\ replay[a].stage = "deleting" /\ UNCHANGED <<asset, worker>>
        /\ objects' = objects \ {Original(a), Display(a, replay[a].derivative)}
    BY <1>25, DeletesRecordedEffect
  <2>2. CASE b = a
    <3>1. asset[b].deleted
      BY <1>0, <2>1, <2>2 DEF ReplayOK, AssetOK, RemovalOK
    <3> QED
      BY <1>0, <2>1, <3>1 DEF FilesOK, ReadyOK, WorkOK, On, Running
  <2>3. CASE b # a
    <3>1. replay[a].derivative \in Workers \cup {Nobody}
      BY <2>1 DEF TypeOK, Recoveries
    <3>2. FilesStay(b)
      BY <2>1, <2>3, <3>1, FileNames DEF FilesStay
    <3>3. \A v \in Workers : AtEase(v, b)
      BY <2>1 DEF AtEase, On, Running
    <3> QED
      BY <1>0, <2>1, <3>2, <3>3, FilesKept
  <2> QED
    BY <2>2, <2>3
<1> QED
  BY <1>1, <1>2, <1>3, <1>4, <1>5, <1>6, <1>7, <1>8, <1>9, <1>12, <1>13, <1>14, <1>15, <1>16, <1>17,
     <1>19, <1>20, <1>21, <1>22, <1>23, <1>24, <1>25
     DEF MediaNext, Asks, Receives, Replays, Works, Runs

Usable == /\ TypeOK /\ WorkersOK
          /\ \A a \in Assets : ReplayOK(a) /\ (Sound(a) => AssetOK(a) /\ FilesOK(a))

LEMMA UsableInit == MediaInit => Usable
<1> SUFFICES ASSUME MediaInit PROVE Usable
  OBVIOUS
<1>1. \A w \in Workers : ~Running(w)
  BY PlacesDiffer DEF MediaInit, Running
<1>2. WorkersOK
  BY <1>1 DEF WorkersOK, StageFits, LeaseHeld, RunsAlone
<1>3. \A a \in Assets : /\ MediaJob(a) = "none" /\ DeleteJob(a) = "none" /\ receiver[a] = "none"
                        /\ asset[a] = NoRow /\ a \notin records /\ replay[a].stage = "none"
  BY Pairs, RecoveryStages DEF MediaInit, MediaJob, DeleteJob
<1>4. \A a \in Assets : ReplayOK(a) /\ AssetOK(a)
  BY <1>3 DEF ReplayOK, AssetOK, UploadOK, RemovalOK, Unended, NoRow
<1>5. \A a \in Assets : FilesOK(a)
  BY <1>1, <1>3 DEF FilesOK, ReadyOK, WorkOK, On, NoRow
<1> QED
  BY <1>2, <1>4, <1>5, TypeInit DEF Usable

LEMMA UsableStep == Usable /\ [MediaNext]_mediaVars => Usable'
<1> SUFFICES ASSUME Usable, [MediaNext]_mediaVars PROVE Usable'
  OBVIOUS
<1>1. /\ TypeOK /\ WorkersOK /\ \A a \in Assets : ReplayOK(a)
      /\ \A a \in Assets : Sound(a) => AssetOK(a) /\ FilesOK(a)
  BY DEF Usable
<1>2. TypeOK'
  BY <1>1, TypeStep
<1>3. WorkersOK'
  BY <1>1, WorkersStep
<1>4. \A a \in Assets : ReplayOK(a)'
  BY <1>1, ReplaysStep
<1>5. ASSUME NEW a \in Assets, Sound(a)' PROVE AssetOK(a)' /\ FilesOK(a)'
  BY <1>1, <1>5, AssetsStep, FilesStep
<1> QED
  BY <1>2, <1>3, <1>4, <1>5 DEF Usable

\* A ready asset that nobody deleted has the original and the display its row names, for
\* every number of assets, workers and faults and every limit, as long as no commit of
\* its own looked failed, no lease ran out under a worker that goes on with it, and no
\* deletion of it was rolled back: no late request, crash, error, refused conversion,
\* second job or start takes them away.
THEOREM ReadyAssetsHaveFiles == FairMediaSpec => []ReadyHasFiles
<1>1. MediaInit => Usable
  BY UsableInit
<1>2. Usable /\ [MediaNext]_mediaVars => Usable'
  BY UsableStep
<1>3. Usable => ReadyHasFiles
  BY DEF Usable, Sound, FilesOK, ReadyOK, ReadyHasFiles
<1> QED
  BY <1>1, <1>2, <1>3, PTL DEF FairMediaSpec

-----------------------------------------------------------------------------
(* What is in storage is needed, or somebody is about to remove it            *)

\* The request that has stored or has to take back the original.
InTransit(a) == receiver[a] \in {"written", "failing"}

\* The conversion is still to come or under way.
AtWork(a) ==
  \/ MediaJob(a) \in {"pending", "expired"}
  \/ MediaJob(a) = "leased" /\ \E w \in Workers : On(w, "media", a) /\ worker[w].stage \in Early

\* The deletion is still to come, under way or, cancelled, never to come.
ToDelete(a) ==
  \/ DeleteJob(a) \in {"pending", "expired", "cancelled"}
  \/ \E w \in Workers : On(w, "media-delete", a) /\ worker[w].stage \in {"leased", "deleting"}

ToDeleteDisplay(a) ==
  \/ DeleteJob(a) \in {"pending", "expired", "cancelled"}
  \/ \E w \in Workers :
       /\ On(w, "media-delete", a)
       /\ \/ worker[w].stage = "leased"
          \/ worker[w].stage = "deleting" /\ worker[w].named = asset[a].derivative

\* The worker that wrote a display file and has neither committed nor cleared it.
Holding(w, a) == On(w, "media", a) /\ worker[w].stage \in {"committing", "clearing", "lost"}

FreshOK(a) == AtWork(a) /\ ~asset[a].deleted => asset[a].processing \in {"uploaded", "processing", "ready"}

OriginalOK(a) ==
  Original(a) \in objects =>
    \/ InTransit(a) \/ ToDelete(a)
    \/ ~asset[a].deleted /\ (AtWork(a) \/ asset[a].processing = "ready")

DisplayOK(w, a) ==
  Display(a, w) \in objects =>
    \/ Holding(w, a)
    \/ /\ asset[a].derivative = w
       /\ IF asset[a].deleted THEN ToDeleteDisplay(a) ELSE asset[a].processing = "ready"

TidyOK(a) == FreshOK(a) /\ OriginalOK(a) /\ \A w \in Workers : DisplayOK(w, a)

\* Nothing went wrong so far.
Clean == Usable /\ mishaps = {}

LEMMA CleanOK ==
  ASSUME Clean
  PROVE  /\ TypeOK /\ WorkersOK
         /\ \A a \in Assets : ReplayOK(a) /\ AssetOK(a) /\ FilesOK(a) /\ Unstalled(a)
  BY DEF Clean, Usable, Sound, Misled, Unstalled

\* No file is added, and everything that keeps one or is to remove it stays.
LEMMA TidyKept ==
  ASSUME NEW b \in Assets, TidyOK(b), FreshOK(b)',
         asset'[b].deleted = asset[b].deleted, asset'[b].derivative = asset[b].derivative,
         ~asset[b].deleted /\ asset[b].processing = "ready" => asset'[b].processing = "ready",
         Original(b) \in objects' =>
           /\ Original(b) \in objects \/ InTransit(b)'
           /\ InTransit(b) => InTransit(b)'
           /\ ToDelete(b) => ToDelete(b)'
           /\ AtWork(b) /\ ~asset[b].deleted => AtWork(b)' \/ asset'[b].processing = "ready",
         \A w \in Workers : Display(b, w) \in objects' =>
           /\ Display(b, w) \in objects \/ Holding(w, b)'
           /\ Holding(w, b) => Holding(w, b)'
           /\ asset[b].derivative = w /\ ToDeleteDisplay(b) => ToDeleteDisplay(b)'
  PROVE  TidyOK(b)'
<1>1. OriginalOK(b)'
  BY DEF TidyOK, OriginalOK
<1>2. ASSUME NEW w \in Workers PROVE DisplayOK(w, b)'
  <2> SUFFICES ASSUME Display(b, w) \in objects'
               PROVE  \/ Holding(w, b)'
                      \/ /\ asset'[b].derivative = w
                         /\ IF asset'[b].deleted THEN ToDeleteDisplay(b)' ELSE asset'[b].processing = "ready"
    BY DEF DisplayOK, Display
  <2>1. CASE Holding(w, b)'
    BY <2>1
  <2>2. CASE ~Holding(w, b)'
    <3>1. Display(b, w) \in objects /\ ~Holding(w, b)
      BY <2>2
    <3>2. /\ asset[b].derivative = w
          /\ IF asset[b].deleted THEN ToDeleteDisplay(b) ELSE asset[b].processing = "ready"
      BY <3>1 DEF TidyOK, DisplayOK
    <3> QED
      BY <3>2
  <2> QED
    BY <2>1, <2>2
<1> QED
  BY <1>1, <1>2 DEF TidyOK

\* What concerns one asset is as before.
Untouched(b) ==
  /\ asset'[b].processing = asset[b].processing /\ asset'[b].deleted = asset[b].deleted
  /\ asset'[b].derivative = asset[b].derivative
  /\ receiver'[b] = receiver[b]
  /\ job'[<<"media", b>>] = job[<<"media", b>>] /\ job'[<<"media-delete", b>>] = job[<<"media-delete", b>>]
  /\ \A by \in Workers \cup {Nobody} : Display(b, by) \in objects' => Display(b, by) \in objects
  /\ \A v \in Workers : worker'[v] = worker[v]
                       \/ \A k \in Kinds : ~On(v, k, b) /\ ~On(v, k, b)'

LEMMA UntouchedTidy ==
  ASSUME NEW b \in Assets, TidyOK(b), Untouched(b)
  PROVE  TidyOK(b)'
<1>1. \A v \in Workers : \A k \in Kinds : (On(v, k, b)' <=> On(v, k, b)) /\ (On(v, k, b) => worker'[v] = worker[v])
  BY DEF Untouched, On, Running
<1>2. MediaJob(b)' = MediaJob(b) /\ DeleteJob(b)' = DeleteJob(b)
  BY DEF Untouched, MediaJob, DeleteJob
<1>3. AtWork(b)' <=> AtWork(b)
  BY <1>1, <1>2, TheKinds DEF AtWork
<1>4. ToDelete(b)' <=> ToDelete(b)
  BY <1>1, <1>2, TheKinds DEF ToDelete
<1>5. ToDeleteDisplay(b)' <=> ToDeleteDisplay(b)
  BY <1>1, <1>2, TheKinds DEF ToDeleteDisplay, Untouched
<1>6. \A w \in Workers : Holding(w, b)' <=> Holding(w, b)
  BY <1>1, TheKinds DEF Holding
<1>7. FreshOK(b)'
  BY <1>3 DEF FreshOK, TidyOK, Untouched
<1>8. Original(b) \in objects' => Original(b) \in objects
  BY FileNames DEF Untouched
<1>9. InTransit(b)' <=> InTransit(b)
  BY DEF InTransit, Untouched
<1> QED
  BY <1>3, <1>4, <1>5, <1>6, <1>7, <1>8, <1>9, TidyKept DEF Untouched

\* A worker that goes on stays with the asset of its job.
LEMMA OnStays ==
  ASSUME NEW w \in Workers, Running(w), NEW stage, WorkerBecomes(w, stage)
  PROVE  \A v \in Workers : \A k \in Kinds : \A b \in Assets : On(v, k, b)' <=> On(v, k, b)
<1>1. Running(w)'
  BY PlacesDiffer DEF Running, WorkerBecomes
<1> QED
  BY <1>1 DEF On, Running, WorkerBecomes

\* How far a media worker is decides whether the conversion is under way.
LEMMA MediaWorkerMoves ==
  ASSUME Clean, NEW w \in Workers, NEW b \in Assets, On(w, "media", b), UNCHANGED job,
         NEW stage, WorkerBecomes(w, stage), asset'[b].derivative = asset[b].derivative
  PROVE  /\ AtWork(b) <=> MediaJob(b) = "leased" /\ worker[w].stage \in Early
         /\ AtWork(b)' <=> MediaJob(b) = "leased" /\ stage \in Early
         /\ (ToDelete(b)' <=> ToDelete(b)) /\ (ToDeleteDisplay(b)' <=> ToDeleteDisplay(b))
         /\ \A v \in Workers \ {w} : ~Holding(v, b) /\ ~Holding(v, b)'
         /\ Holding(w, b)' <=> stage \in {"committing", "clearing", "lost"}
<1>1. /\ MediaJob(b) \in {"leased", "cancelled"} /\ Running(w) /\ worker[w].job = <<"media", b>>
      /\ MediaJob(b)' = MediaJob(b) /\ DeleteJob(b)' = DeleteJob(b)
  BY CleanOK DEF WorkersOK, LeaseHeld, On, Holds, MediaJob, DeleteJob, Asset
<1>2. \A v \in Workers : \A k \in Kinds : On(v, k, b)' <=> On(v, k, b)
  BY <1>1, OnStays, PlacesDiffer
<1>3. \A v \in Workers \ {w} : ~On(v, "media", b)
  BY CleanOK DEF WorkersOK, RunsAlone, On, Asset
<1>4. /\ worker'[w].stage = stage /\ ~On(w, "media-delete", b)
      /\ \A v \in Workers \ {w} : worker'[v] = worker[v]
  BY <1>1 DEF WorkerBecomes, On
<1>5. AtWork(b) <=> MediaJob(b) = "leased" /\ worker[w].stage \in Early
  BY <1>1, <1>3 DEF AtWork
<1>6. AtWork(b)' <=> MediaJob(b) = "leased" /\ stage \in Early
  BY <1>1, <1>2, <1>3, <1>4, TheKinds DEF AtWork
<1>7. ToDelete(b)' <=> ToDelete(b)
  BY <1>1, <1>2, <1>4, TheKinds DEF ToDelete
<1>8. ToDeleteDisplay(b)' <=> ToDeleteDisplay(b)
  BY <1>1, <1>2, <1>4, TheKinds DEF ToDeleteDisplay
<1>9. /\ \A v \in Workers \ {w} : ~Holding(v, b) /\ ~Holding(v, b)'
      /\ Holding(w, b)' <=> stage \in {"committing", "clearing", "lost"}
  BY <1>2, <1>3, <1>4, TheKinds DEF Holding
<1> QED
  BY <1>5, <1>6, <1>7, <1>8, <1>9

LEMMA DeleteWorkerMoves ==
  ASSUME Clean, NEW w \in Workers, NEW b \in Assets, On(w, "media-delete", b), UNCHANGED job,
         NEW stage, WorkerBecomes(w, stage)
  PROVE  /\ AtWork(b)' <=> AtWork(b)
         /\ \A v \in Workers : Holding(v, b)' <=> Holding(v, b)
         /\ ToDelete(b) <=> DeleteJob(b) = "cancelled" \/ worker[w].stage \in {"leased", "deleting"}
         /\ ToDelete(b)' <=> DeleteJob(b) = "cancelled" \/ stage \in {"leased", "deleting"}
         /\ ToDeleteDisplay(b) <=>
              \/ DeleteJob(b) = "cancelled" \/ worker[w].stage = "leased"
              \/ worker[w].stage = "deleting" /\ worker[w].named = asset[b].derivative
         /\ ToDeleteDisplay(b)' <=>
              \/ DeleteJob(b) = "cancelled" \/ stage = "leased"
              \/ stage = "deleting" /\ worker'[w].named = asset'[b].derivative
<1>1. /\ DeleteJob(b) \in {"leased", "cancelled"} /\ Running(w) /\ worker[w].job = <<"media-delete", b>>
      /\ MediaJob(b)' = MediaJob(b) /\ DeleteJob(b)' = DeleteJob(b)
  BY CleanOK DEF WorkersOK, LeaseHeld, On, Holds, MediaJob, DeleteJob, Asset
<1>2. \A v \in Workers : \A k \in Kinds : On(v, k, b)' <=> On(v, k, b)
  BY <1>1, OnStays, PlacesDiffer
<1>3. \A v \in Workers \ {w} : ~On(v, "media-delete", b)
  BY CleanOK DEF WorkersOK, RunsAlone, On, Asset
<1>4. /\ worker'[w].stage = stage /\ ~On(w, "media", b)
      /\ \A v \in Workers \ {w} : worker'[v] = worker[v]
  BY <1>1 DEF WorkerBecomes, On
<1>5. AtWork(b)' <=> AtWork(b)
  BY <1>1, <1>2, <1>4, TheKinds DEF AtWork
<1>6. \A v \in Workers : Holding(v, b)' <=> Holding(v, b)
  BY <1>2, <1>4, TheKinds DEF Holding
<1>7. /\ ToDelete(b) <=> DeleteJob(b) = "cancelled" \/ worker[w].stage \in {"leased", "deleting"}
      /\ ToDeleteDisplay(b) <=>
              \/ DeleteJob(b) = "cancelled" \/ worker[w].stage = "leased"
              \/ worker[w].stage = "deleting" /\ worker[w].named = asset[b].derivative
  BY <1>1, <1>3 DEF ToDelete, ToDeleteDisplay
<1>8. /\ ToDelete(b)' <=> DeleteJob(b) = "cancelled" \/ stage \in {"leased", "deleting"}
      /\ ToDeleteDisplay(b)' <=>
              \/ DeleteJob(b) = "cancelled" \/ stage = "leased"
              \/ stage = "deleting" /\ worker'[w].named = asset'[b].derivative
  BY <1>1, <1>2, <1>3, <1>4, TheKinds DEF ToDelete, ToDeleteDisplay
<1> QED
  BY <1>5, <1>6, <1>7, <1>8

\* No worker and no job moves; the row, the request or the files of one asset do.
LEMMA RowTidy ==
  ASSUME NEW a \in Assets, TidyOK(a), FreshOK(a)', UNCHANGED <<worker, job>>,
         asset'[a].deleted = asset[a].deleted, asset'[a].derivative = asset[a].derivative,
         ~asset[a].deleted /\ asset[a].processing = "ready" => asset'[a].processing = "ready",
         Original(a) \in objects' =>
           /\ Original(a) \in objects \/ InTransit(a)'
           /\ InTransit(a) => InTransit(a)',
         \A w \in Workers : Display(a, w) \in objects' => Display(a, w) \in objects
  PROVE  TidyOK(a)'
<1>1. \A v \in Workers : \A k \in Kinds : On(v, k, a)' <=> On(v, k, a)
  BY DEF On, Running
<1>2. MediaJob(a)' = MediaJob(a) /\ DeleteJob(a)' = DeleteJob(a)
  BY DEF MediaJob, DeleteJob
<1>3. AtWork(a)' <=> AtWork(a)
  BY <1>1, <1>2, TheKinds DEF AtWork
<1>4. ToDelete(a)' <=> ToDelete(a)
  BY <1>1, <1>2, TheKinds DEF ToDelete
<1>5. ToDeleteDisplay(a)' <=> ToDeleteDisplay(a)
  BY <1>1, <1>2, TheKinds DEF ToDeleteDisplay
<1>6. \A w \in Workers : Holding(w, a)' <=> Holding(w, a)
  BY <1>1, TheKinds DEF Holding
<1> QED
  BY <1>3, <1>4, <1>5, <1>6, TidyKept

\* What is at work has its bytes.
LEMMA WorkHasBytes ==
  ASSUME NEW a \in Assets, AssetOK(a), AtWork(a)
  PROVE  /\ Unended(a) /\ MediaJob(a) # "none" /\ receiver[a] = "none"
         /\ asset[a].processing \in {"uploaded", "processing", "ready", "rejected", "expired"}
  BY DEF AtWork, Unended, AssetOK, UploadOK

\* The steps of the requests of one asset that leave its jobs alone.
LEMMA RequestsTidy ==
  ASSUME Clean, NEW a \in Assets, TidyOK(a), job' = job,
         intent(a) \/ Claims(a) \/ WritesOriginal(a) \/ Received(a) \/ DeletesOriginal(a)
           \/ AwaitsAgain(a) \/ Overdue(a) \/ requestAccountDeletion(a)
  PROVE  TidyOK(a)'
<1>0. TypeOK /\ AssetOK(a)
  BY CleanOK
<1>1. UNCHANGED <<worker, job>>
  BY DEF intent, Claims, WritesOriginal, Received, DeletesOriginal, AwaitsAgain, Overdue, requestAccountDeletion
<1>2. AtWork(a)' <=> AtWork(a)
  BY <1>1, TheKinds DEF AtWork, MediaJob, On, Running
<1>3. \A w \in Workers : Display(a, w) # Original(a)
  BY FileNames, NobodyAssumption
<1>4. CASE intent(a)
  <2>1. /\ asset[a].processing = "none" /\ UNCHANGED <<receiver, objects>>
        /\ RowBecomes(a, "awaiting_upload", asset[a].deleted, asset[a].allowed, asset[a].derivative)
    BY <1>0, <1>4, IntentEffect DEF intent
  <2>2. FreshOK(a)'
    BY <1>0, <1>2, <2>1, WorkHasBytes DEF FreshOK
  <2> QED
    BY <1>1, <2>1, <2>2, RowTidy DEF RowBecomes, InTransit
<1>5. CASE Claims(a)
  <2>1. /\ asset[a].processing = "awaiting_upload" /\ receiver[a] = "none" /\ UNCHANGED objects
        /\ RowBecomes(a, "receiving", asset[a].deleted, asset[a].allowed, asset[a].derivative)
    BY <1>0, <1>5, ClaimsEffect DEF Claims, AwaitsBytes
  <2>2. FreshOK(a)'
    BY <1>0, <1>2, <2>1, WorkHasBytes DEF FreshOK
  <2> QED
    BY <1>1, <2>1, <2>2, RowTidy DEF RowBecomes, InTransit
<1>6. CASE WritesOriginal(a)
  <2>1. /\ receiver[a] = "claimed" /\ UNCHANGED asset
        /\ \/ ReceiverBecomes(a, "written") /\ objects' = objects \cup {Original(a)}
           \/ ReceiverBecomes(a, "failing") /\ objects' = objects
    BY <1>0, <1>6, WritesOriginalEffect DEF WritesOriginal
  <2>2. FreshOK(a)'
    BY <1>2, <2>1 DEF FreshOK, TidyOK
  <2>3. InTransit(a)' /\ \A w \in Workers : Display(a, w) \in objects' => Display(a, w) \in objects
    BY <1>3, <2>1 DEF InTransit, ReceiverBecomes
  <2> QED
    BY <1>1, <2>1, <2>2, <2>3, RowTidy
<1>7. CASE Received(a)
  <2>1. receiver[a] = "written" /\ UNCHANGED objects
    BY <1>0, <1>7, ReceivedEffect DEF Received
  <2>2. MediaJob(a) = "none"
    BY <1>0, <2>1 DEF AssetOK, UploadOK
  <2>3. ReceiverBecomes(a, "failing") /\ UNCHANGED asset
    <3>1. job' # Queued(job, "media", a, TRUE)
      <4>1. job' = Queued(job, "media", a, TRUE) => MediaJob(a)' = "pending"
        BY <1>0, <2>2, QueuesMedia
      <4> QED
        BY <2>2, <4>1 DEF MediaJob
    <3> QED
      BY <1>0, <1>7, <3>1, ReceivedEffect
  <2>4. FreshOK(a)'
    BY <1>2, <2>3 DEF FreshOK, TidyOK
  <2>5. InTransit(a)'
    BY <2>3 DEF InTransit, ReceiverBecomes
  <2> QED
    BY <1>1, <2>1, <2>3, <2>4, <2>5, RowTidy
<1>8. CASE DeletesOriginal(a)
  <2>1. objects' = objects \ {Original(a)} /\ UNCHANGED asset
    BY <1>8 DEF DeletesOriginal
  <2>2. FreshOK(a)'
    BY <1>2, <2>1 DEF FreshOK, TidyOK
  <2>3. Original(a) \notin objects' /\ \A w \in Workers : Display(a, w) \in objects' => Display(a, w) \in objects
    BY <2>1
  <2> QED
    BY <1>1, <2>1, <2>2, <2>3, RowTidy
<1>9. CASE AwaitsAgain(a)
  <2>1. /\ receiver[a] = "undoing" /\ UNCHANGED objects
        /\ \/ /\ asset[a].processing = "receiving"
              /\ RowBecomes(a, "awaiting_upload", asset[a].deleted, asset[a].allowed, asset[a].derivative)
           \/ UNCHANGED asset
    BY <1>0, <1>9, AwaitsAgainEffect DEF AwaitsAgain
  <2>2. ~AtWork(a)
    BY <1>0, <2>1, WorkHasBytes
  <2>3. FreshOK(a)' /\ ~InTransit(a)
    BY <1>2, <2>1, <2>2 DEF FreshOK, InTransit
  <2> QED
    BY <1>1, <2>1, <2>3, RowTidy DEF RowBecomes
<1>10. CASE Overdue(a)
  <2>1. /\ UNCHANGED <<receiver, objects>>
        /\ RowBecomes(a, asset[a].processing, asset[a].deleted, asset[a].allowed, asset[a].derivative)
    BY <1>0, <1>10, OverdueEffect DEF Overdue
  <2>2. FreshOK(a)'
    BY <1>2, <2>1 DEF FreshOK, TidyOK, RowBecomes
  <2> QED
    BY <1>1, <2>1, <2>2, RowTidy DEF RowBecomes, InTransit
<1>11. CASE requestAccountDeletion(a)
  <2>1. /\ UNCHANGED <<receiver, objects>>
        /\ RowBecomes(a, asset[a].processing, asset[a].deleted, FALSE, asset[a].derivative)
    BY <1>0, <1>11, AccountEffect
  <2>2. FreshOK(a)'
    BY <1>2, <2>1 DEF FreshOK, TidyOK, RowBecomes
  <2> QED
    BY <1>1, <2>1, <2>2, RowTidy DEF RowBecomes, InTransit
<1> QED
  BY <1>4, <1>5, <1>6, <1>7, <1>8, <1>9, <1>10, <1>11

\* A start takes the files of what is deleted.
LEMMA ReplayTidy ==
  ASSUME Clean, NEW a \in Assets, TidyOK(a), DeletesRecorded(a) \/ Expires(a)
  PROVE  TidyOK(a)'
<1>0. TypeOK /\ AssetOK(a) /\ ReplayOK(a)
  BY CleanOK
<1>1. UNCHANGED <<worker, job, receiver>> /\ objects' \subseteq objects /\ replay[a].stage # "none"
  BY <1>0, DeletesRecordedEffect, ExpiresEffect
<1>2. asset[a].deleted
  BY <1>0, <1>1 DEF ReplayOK, AssetOK, RemovalOK
<1>3. asset'[a].deleted = asset[a].deleted /\ asset'[a].derivative = asset[a].derivative
  BY <1>0, <1>2, DeletesRecordedEffect, ExpiresEffect DEF RowBecomes
<1>4. FreshOK(a)' /\ (InTransit(a)' <=> InTransit(a))
  BY <1>1, <1>2, <1>3 DEF FreshOK, InTransit
<1> QED
  BY <1>1, <1>2, <1>3, <1>4, RowTidy

\* The bytes arrived: the original has a job.
LEMMA ArrivalTidy ==
  ASSUME Clean, NEW a \in Assets, TidyOK(a), Received(a), job' # job
  PROVE  TidyOK(a)'
<1>0. TypeOK /\ AssetOK(a) /\ WorkersOK /\ Unstalled(a)
  BY CleanOK
<1>1. /\ receiver[a] = "written" /\ UNCHANGED <<objects, worker>>
      /\ StillReceiving(a) /\ job' = Queued(job, "media", a, TRUE)
      /\ RowBecomes(a, "uploaded", asset[a].deleted, asset[a].allowed, asset[a].derivative)
  BY <1>0, ReceivedEffect DEF Received
<1>2. asset[a].processing = "receiving" /\ ~asset[a].deleted /\ MediaJob(a) = "none"
  BY <1>0, <1>1 DEF StillReceiving, AssetOK, UploadOK
<1>3. AtWork(a)'
  BY <1>0, <1>1, <1>2, QueuesMedia DEF AtWork
<1>4. asset'[a].processing = "uploaded" /\ ~asset'[a].deleted
  BY <1>1, <1>2 DEF RowBecomes
<1>5. FreshOK(a)' /\ OriginalOK(a)'
  BY <1>3, <1>4 DEF FreshOK, OriginalOK
<1>6. ASSUME NEW w \in Workers PROVE DisplayOK(w, a)'
  <2>1. ~Holding(w, a)
    BY <1>0, <1>2, MediaWorker DEF Holding
  <2>2. Display(a, w) \notin objects
    BY <1>2, <2>1 DEF TidyOK, DisplayOK
  <2> QED
    BY <1>1, <2>2 DEF DisplayOK
<1> QED
  BY <1>5, <1>6 DEF TidyOK

\* With no worker moving, the deletion stays to come when its job is there or comes.
LEMMA RemovalGrows ==
  ASSUME NEW a \in Assets, UNCHANGED worker, asset'[a].derivative = asset[a].derivative,
         \/ DeleteJob(a)' = DeleteJob(a)
         \/ DeleteJob(a)' \in {"pending", "cancelled"}
  PROVE  /\ ToDelete(a) => ToDelete(a)'
         /\ ToDeleteDisplay(a) => ToDeleteDisplay(a)'
         /\ \A v \in Workers : Holding(v, a)' <=> Holding(v, a)
<1>1. \A v \in Workers : \A k \in Kinds : On(v, k, a)' <=> On(v, k, a)
  BY DEF On, Running
<1>2. ToDelete(a) => ToDelete(a)'
  BY <1>1, TheKinds DEF ToDelete
<1>3. ToDeleteDisplay(a) => ToDeleteDisplay(a)'
  BY <1>1, TheKinds DEF ToDeleteDisplay
<1> QED
  BY <1>1, <1>2, <1>3, TheKinds DEF Holding

LEMMA RemoveTidy ==
  ASSUME Clean, NEW a \in Assets, TidyOK(a), remove(a), faults' = 0
  PROVE  TidyOK(a)'
<1>0. TypeOK /\ AssetOK(a)
  BY CleanOK
<1>1. /\ ~asset[a].deleted /\ UNCHANGED <<objects, worker, receiver>>
      /\ RowBecomes(a, asset[a].processing, TRUE, asset[a].allowed, asset[a].derivative)
      /\ \E makers \in BOOLEAN : job' = Queued(job, "media-delete", a, makers)
  <2>1. ~(faults' > 0)
    OBVIOUS
  <2> QED
    BY ONLY <1>0, <2>1, remove(a), a \in Assets, RemoveEffect
<1>2. PICK makers \in BOOLEAN : job' = Queued(job, "media-delete", a, makers)
  BY <1>1
<1>3. /\ asset'[a].deleted /\ asset'[a].derivative = asset[a].derivative
      /\ InTransit(a)' <=> InTransit(a)
  BY <1>1 DEF RowBecomes, InTransit
<1>4. FreshOK(a)'
  BY <1>3 DEF FreshOK
<1>5. CASE DeleteJob(a) = "none"
  <2>1. DeleteJob(a)' = "pending"
    BY <1>0, <1>2, <1>5, QueuesDelete
  <2>2. ToDelete(a)' /\ ToDeleteDisplay(a)'
    BY <2>1 DEF ToDelete, ToDeleteDisplay
  <2>3. \A v \in Workers : Holding(v, a)' <=> Holding(v, a)
    BY <1>1, <1>3, <2>1, RemovalGrows
  <2>4. \A v \in Workers : DisplayOK(v, a)'
    BY <1>1, <1>3, <2>2, <2>3 DEF TidyOK, DisplayOK
  <2> QED
    BY <1>4, <2>2, <2>4 DEF TidyOK, OriginalOK
<1>6. CASE DeleteJob(a) # "none"
  <2>1. DeleteJob(a)' = DeleteJob(a)
    BY <1>0, <1>2, <1>6, QueuesDelete DEF DeleteJob
  <2>2. ~AtWork(a) /\ asset[a].processing # "ready"
    BY <1>0, <1>1, <1>6, WorkHasBytes DEF AssetOK, RemovalOK, Unended
  <2>3. /\ ToDelete(a) => ToDelete(a)'
        /\ \A v \in Workers : Holding(v, a)' <=> Holding(v, a)
    BY <1>1, <1>3, <2>1, RemovalGrows
  <2>4. OriginalOK(a)'
    BY <1>1, <1>3, <2>2, <2>3 DEF TidyOK, OriginalOK
  <2>5. \A v \in Workers : DisplayOK(v, a)'
    BY <1>1, <2>2, <2>3 DEF TidyOK, DisplayOK
  <2> QED
    BY <1>4, <2>4, <2>5 DEF TidyOK
<1> QED
  BY <1>5, <1>6

LEMMA SweepTidy ==
  ASSUME Clean, NEW a \in Assets, TidyOK(a), sweep(a)
  PROVE  TidyOK(a)'
<1>0. TypeOK /\ AssetOK(a)
  BY CleanOK
<1>1. /\ asset[a].processing \in {"awaiting_upload", "receiving"} /\ UNCHANGED <<objects, worker, receiver>>
      /\ RowBecomes(a, "expired", asset[a].deleted, asset[a].allowed, asset[a].derivative)
      /\ job' = Queued(job, "media-delete", a, TRUE)
  BY <1>0, SweepEffect DEF sweep
<1>2. MediaJob(a) = "none" /\ MediaJob(a)' = "none"
  BY <1>0, <1>1, QueuesDelete DEF AssetOK, UploadOK, MediaJob
<1>3. ~AtWork(a) /\ ~AtWork(a)'
  BY <1>2 DEF AtWork
<1>4. DeleteJob(a)' = DeleteJob(a) \/ DeleteJob(a)' = "pending"
  BY <1>0, <1>1, QueuesDelete DEF DeleteJob
<1>5. /\ ToDelete(a) => ToDelete(a)'
      /\ ToDeleteDisplay(a) => ToDeleteDisplay(a)'
      /\ \A v \in Workers : Holding(v, a)' <=> Holding(v, a)
  BY <1>1, <1>4, RemovalGrows DEF RowBecomes
<1>6. FreshOK(a)' /\ (InTransit(a)' <=> InTransit(a))
  BY <1>1, <1>3 DEF FreshOK, InTransit
<1> QED
  BY <1>1, <1>3, <1>5, <1>6, TidyKept DEF RowBecomes

LEMMA MemberTidy ==
  ASSUME Clean, NEW a \in Assets, TidyOK(a), removeMember(a)
  PROVE  TidyOK(a)'
<1>0. TypeOK /\ AssetOK(a)
  BY CleanOK
<1>1. asset[a].allowed /\ UNCHANGED <<objects, worker, receiver>>
  BY <1>0, RemoveMemberEffect DEF removeMember
<1>2. ASSUME MakersJobsEnd(a) PROVE ~AtWork(a)'
  <2>1. MediaJob(a) # "none" => job[<<"media", a>>].makers
    BY <1>0 DEF AssetOK, UploadOK
  <2>2. ~Unended(a)'
    BY <1>2, <2>1 DEF MakersJobsEnd, Unended
  <2> QED
    BY <2>2 DEF AtWork, Unended
<1>3. CASE /\ ~asset[a].deleted
           /\ asset[a].processing \in {"awaiting_upload", "receiving", "uploaded", "processing"}
           /\ RowBecomes(a, "expired", asset[a].deleted, FALSE, asset[a].derivative)
           /\ job' = Queued(Cancelled(job, a), "media-delete", a, FALSE)
  <2>1. DeleteJob(a) = "none"
    BY <1>0, <1>1, <1>3 DEF AssetOK, RemovalOK
  <2>2. DeleteJob(a)' = "pending" /\ ~AtWork(a)'
    BY <1>0, <1>2, <1>3, <2>1, CancelsAndQueues
  <2>3. ToDelete(a)'
    BY <2>2 DEF ToDelete
  <2>4. /\ asset'[a].derivative = asset[a].derivative
        /\ \A v \in Workers : Holding(v, a)' <=> Holding(v, a)
    BY <1>1, <1>3, <2>2, RemovalGrows DEF RowBecomes
  <2>5. \A v \in Workers : DisplayOK(v, a)'
    BY <1>1, <1>3, <2>4 DEF TidyOK, DisplayOK
  <2> QED
    BY <2>2, <2>3, <2>5 DEF TidyOK, FreshOK, OriginalOK
<1>4. CASE /\ \/ asset[a].deleted
              \/ asset[a].processing \notin {"awaiting_upload", "receiving", "uploaded", "processing"}
           /\ RowBecomes(a, asset[a].processing, asset[a].deleted, FALSE, asset[a].derivative)
           /\ job' = Cancelled(job, a)
  <2>1. ~AtWork(a)' /\ (DeleteJob(a)' = DeleteJob(a) \/ DeleteJob(a)' = "cancelled")
    BY <1>0, <1>2, <1>4, CancelsJobs DEF DeleteJob
  <2>2. /\ ToDelete(a) => ToDelete(a)'
        /\ ToDeleteDisplay(a) => ToDeleteDisplay(a)'
        /\ \A v \in Workers : Holding(v, a)' <=> Holding(v, a)
    BY <1>1, <1>4, <2>1, RemovalGrows DEF RowBecomes
  <2>3. AtWork(a) /\ ~asset[a].deleted => asset'[a].processing = "ready"
    BY <1>4 DEF TidyOK, FreshOK, RowBecomes
  <2>4. FreshOK(a)' /\ (InTransit(a)' <=> InTransit(a))
    BY <1>1, <2>1 DEF FreshOK, InTransit
  <2> QED
    BY <1>1, <1>4, <2>2, <2>3, <2>4, TidyKept DEF RowBecomes
<1> QED
  BY <1>0, <1>3, <1>4, RemoveMemberEffect

\* A worker takes a job: what was to come is under way.
LEMMA LeaseTidy ==
  ASSUME Clean, NEW w \in Workers, NEW b \in Assets, TidyOK(b), lease(w)
  PROVE  TidyOK(b)'
<1>0. TypeOK /\ UNCHANGED <<asset, objects, receiver>>
  BY CleanOK DEF lease
<1>1. PICK k \in Kinds \X Assets :
        /\ job[k].state \in {"pending", "expired"}
        /\ JobBecomes(k, "leased", w, job[k].makers)
        /\ worker' \in [Workers -> Places]
        /\ \A v \in Workers \ {w} : worker'[v] = worker[v]
        /\ worker'[w] \in Tasks /\ worker'[w].stage = "leased" /\ worker'[w].job = k
  BY <1>0, LeaseEffect
<1>2. worker[w].stage = "idle" /\ ~Running(w) /\ Running(w)'
  BY <1>1 DEF lease, AtStage, Running
<1>3. \A l \in Kinds \X Assets : l # k => job'[l] = job[l]
  BY <1>1 DEF JobBecomes
<1>4. \A v \in Workers \ {w} : \A l \in Kinds : On(v, l, b)' <=> On(v, l, b)
  BY <1>1 DEF On, Running
<1>5. \A l \in Kinds : ~On(w, l, b)
  BY <1>2 DEF On
<1>6. CASE k[2] # b
  <2>1. <<"media", b>> # k /\ <<"media-delete", b>> # k
    BY <1>6
  <2>2. \A l \in Kinds : ~On(w, l, b)'
    BY <1>1, <1>6 DEF On
  <2>3. Untouched(b)
    BY <1>0, <1>1, <1>3, <1>5, <2>1, <2>2, Pairs DEF Untouched
  <2> QED
    BY <2>3, UntouchedTidy
<1>7. CASE k = <<"media", b>>
  <2>1. /\ MediaJob(b) \in {"pending", "expired"} /\ MediaJob(b)' = "leased" /\ DeleteJob(b)' = DeleteJob(b)
        /\ On(w, "media", b)' /\ ~On(w, "media-delete", b)'
    BY <1>1, <1>2, <1>3, <1>7, Pairs, Keys DEF JobBecomes, MediaJob, DeleteJob, On
  <2>2. AtWork(b) /\ AtWork(b)'
    BY <1>1, <2>1 DEF AtWork, Early
  <2>3. (ToDelete(b)' <=> ToDelete(b)) /\ (ToDeleteDisplay(b)' <=> ToDeleteDisplay(b))
    BY <1>0, <1>1, <1>4, <1>5, <2>1, TheKinds DEF ToDelete, ToDeleteDisplay
  <2>4. \A v \in Workers : Holding(v, b) => Holding(v, b)'
    BY <1>1, <1>4, <1>5, TheKinds DEF Holding
  <2>5. FreshOK(b)' /\ (InTransit(b)' <=> InTransit(b))
    BY <1>0, <2>2 DEF FreshOK, TidyOK, InTransit
  <2> QED
    BY <1>0, <2>2, <2>3, <2>4, <2>5, TidyKept
<1>8. CASE k = <<"media-delete", b>>
  <2>1. MediaJob(b)' = MediaJob(b) /\ On(w, "media-delete", b)' /\ ~On(w, "media", b)'
    BY <1>1, <1>2, <1>3, <1>8, Pairs, Keys DEF MediaJob, On
  <2>2. AtWork(b)' <=> AtWork(b)
    BY <1>1, <1>4, <1>5, <2>1, TheKinds DEF AtWork
  <2>3. ToDelete(b)' /\ ToDeleteDisplay(b)'
    BY <1>1, <2>1 DEF ToDelete, ToDeleteDisplay
  <2>4. \A v \in Workers : Holding(v, b) => Holding(v, b)'
    BY <1>1, <1>4, <1>5, TheKinds DEF Holding
  <2>5. FreshOK(b)' /\ (InTransit(b)' <=> InTransit(b))
    BY <1>0, <2>2 DEF FreshOK, TidyOK, InTransit
  <2> QED
    BY <1>0, <2>2, <2>3, <2>4, <2>5, TidyKept
<1> QED
  BY <1>6, <1>7, <1>8, Pairs DEF Kinds

\* What a worker does for one asset concerns no other.
LEMMA ElsewhereTidy ==
  ASSUME Clean, NEW w \in Workers, Running(w), NEW b \in Assets, b # Asset(w), TidyOK(b),
         Running(w)' => worker'[w].job = worker[w].job,
         \A v \in Workers \ {w} : worker'[v] = worker[v],
         \A a \in Assets \ {Asset(w)} : asset'[a] = asset[a],
         \A k \in (Kinds \X Assets) \ {worker[w].job} : job'[k] = job[k],
         UNCHANGED receiver,
         \A by \in Workers \cup {Nobody} : Display(b, by) \in objects' => Display(b, by) \in objects
  PROVE  TidyOK(b)'
<1>1. worker[w].job[2] # b
  BY DEF Asset
<1>2. <<"media", b>> # worker[w].job /\ <<"media-delete", b>> # worker[w].job
  BY <1>1
<1>3. \A k \in Kinds : ~On(w, k, b) /\ ~On(w, k, b)'
  BY <1>1 DEF On
<1>4. Untouched(b)
  BY <1>2, <1>3, Pairs DEF Untouched
<1> QED
  BY <1>4, UntouchedTidy

\* A worker's step that concerns no job and no file of another asset.
LEMMA WorkerElsewhere ==
  ASSUME Clean, NEW w \in Workers, NEW b \in Assets, b # Asset(w), TidyOK(b), Runs(w)
  PROVE  TidyOK(b)'
<1>0. TypeOK
  BY CleanOK
<1>1. ASSUME Running(w), NEW stage, WorkerBecomes(w, stage)
      PROVE  /\ Running(w)' => worker'[w].job = worker[w].job
             /\ \A v \in Workers \ {w} : worker'[v] = worker[v]
  BY <1>1 DEF WorkerBecomes
<1>2. ASSUME NEW processing, NEW deleted, NEW allowed, NEW derivative,
             RowBecomes(Asset(w), processing, deleted, allowed, derivative)
      PROVE  \A a \in Assets \ {Asset(w)} : asset'[a] = asset[a]
  BY <1>2 DEF RowBecomes
<1>3. ASSUME Running(w)
      PROVE  \A by \in Workers \cup {Nobody} : Display(Asset(w), w) # Display(b, by)
                /\ Original(Asset(w)) # Display(b, by)
  BY <1>0, <1>3, TaskOf, FileNames
<1>4. CASE ReadsAsset(w)
  BY <1>0, <1>1, <1>4, ReadsAssetEffect, ElsewhereTidy
<1>5. CASE ChecksScope(w)
  BY <1>0, <1>1, <1>5, ChecksScopeEffect, ElsewhereTidy
<1>6. CASE Marks(w)
  <2>1. /\ Running(w) /\ WorkerBecomes(w, "reading") /\ UNCHANGED <<objects, job, receiver>>
        /\ \A a \in Assets \ {Asset(w)} : asset'[a] = asset[a]
    BY <1>0, <1>2, <1>6, MarksEffect
  <2> QED
    BY <1>1, <2>1, ElsewhereTidy
<1>7. CASE Converts(w)
  BY <1>0, <1>1, <1>7, ConvertsEffect, ElsewhereTidy
<1>8. CASE WritesDisplay(w)
  <2>1. /\ Running(w) /\ WorkerBecomes(w, "committing") /\ UNCHANGED <<asset, job, receiver>>
        /\ objects' = objects \cup {Display(Asset(w), w)}
    BY <1>0, <1>8, WritesDisplayEffect
  <2>2. \A by \in Workers \cup {Nobody} : Display(b, by) \in objects' => Display(b, by) \in objects
    BY <1>3, <2>1
  <2> QED
    BY <1>1, <2>1, <2>2, ElsewhereTidy
<1>9. CASE Commits(w)
  <2>1. /\ Running(w) /\ \E stage \in {"done", "clearing", "lost"} : WorkerBecomes(w, stage)
        /\ UNCHANGED <<objects, job, receiver>>
    BY <1>0, <1>9, CommitsEffect
  <2>2. \A a \in Assets \ {Asset(w)} : asset'[a] = asset[a]
    BY <1>0, <1>2, <1>9, CommitsEffect
  <2> QED
    BY <1>1, <2>1, <2>2, ElsewhereTidy
<1>10. CASE ClearsDisplay(w)
  <2>1. /\ Running(w) /\ \E stage \in {"judging", "failed"} : WorkerBecomes(w, stage)
        /\ UNCHANGED <<asset, job, receiver>> /\ objects' \subseteq objects
    BY <1>0, <1>10, ClearsDisplayEffect
  <2> QED
    BY <1>1, <2>1, ElsewhereTidy
<1>11. CASE Judges(w)
  <2>1. /\ Running(w) /\ \E stage \in {"rejecting", "failed"} : WorkerBecomes(w, stage)
        /\ UNCHANGED <<asset, objects, job, receiver>>
    BY <1>0, <1>11, JudgesEffect
  <2> QED
    BY <1>1, <2>1, ElsewhereTidy
<1>12. CASE DeletesFiles(w)
  <2>1. /\ Running(w) /\ \E stage \in {"rejected", "expired"} : WorkerBecomes(w, stage)
        /\ UNCHANGED <<asset, job, receiver>> /\ objects' \subseteq objects
    BY <1>0, <1>12, DeletesFilesEffect
  <2> QED
    BY <1>1, <2>1, ElsewhereTidy
<1>13. CASE release(w)
  <2>1. /\ Running(w) /\ \E stage \in {"failed", "done"} : WorkerBecomes(w, stage)
        /\ UNCHANGED <<objects, job, receiver>>
        /\ \A a \in Assets \ {Asset(w)} : asset'[a] = asset[a]
    BY <1>0, <1>2, <1>13, ReleaseEffect
  <2> QED
    BY <1>1, <2>1, ElsewhereTidy
<1>14. CASE Settles(w)
  <2>1. /\ Running(w) /\ WorkerStops(w, Idle) /\ UNCHANGED <<asset, objects, receiver>>
        /\ \A k \in (Kinds \X Assets) \ {worker[w].job} : job'[k] = job[k]
    BY <1>0, <1>14, SettlesEffect DEF JobBecomes
  <2> QED
    BY <2>1, ElsewhereTidy DEF WorkerStops
<1> QED
  BY <1>4, <1>5, <1>6, <1>7, <1>8, <1>9, <1>10, <1>11, <1>12, <1>13, <1>14 DEF Runs

\* A media worker goes on within its job: it still has the original, or that is no longer
\* needed; its display is kept while it holds it.
Converting(w, a, stage) ==
  /\ WorkerBecomes(w, stage) /\ UNCHANGED <<job, receiver>>
  /\ asset'[a].deleted = asset[a].deleted /\ asset'[a].derivative = asset[a].derivative
  /\ \/ asset'[a].processing = asset[a].processing
     \/ asset'[a].processing = "processing" /\ asset[a].processing # "ready"
  /\ stage \in Early => worker[w].stage \in Early
  /\ Original(a) \in objects' =>
       /\ Original(a) \in objects
       /\ \/ stage \in Early \/ worker[w].stage \notin Early
          \/ MediaJob(a) = "cancelled" \/ asset[a].deleted \/ asset[a].processing = "ready"
  /\ \A v \in Workers : Display(a, v) \in objects' =>
       \/ v = w /\ stage \in {"committing", "clearing", "lost"}
       \/ /\ Display(a, v) \in objects
          /\ v = w => worker[w].stage \notin {"committing", "clearing", "lost"}

LEMMA ConversionTidy ==
  ASSUME Clean, NEW w \in Workers, NEW a \in Assets, On(w, "media", a), TidyOK(a),
         NEW stage, Converting(w, a, stage)
  PROVE  TidyOK(a)'
<1>1. /\ AtWork(a) <=> MediaJob(a) = "leased" /\ worker[w].stage \in Early
      /\ AtWork(a)' <=> MediaJob(a) = "leased" /\ stage \in Early
      /\ (ToDelete(a)' <=> ToDelete(a)) /\ (ToDeleteDisplay(a)' <=> ToDeleteDisplay(a))
      /\ \A v \in Workers \ {w} : ~Holding(v, a) /\ ~Holding(v, a)'
      /\ Holding(w, a)' <=> stage \in {"committing", "clearing", "lost"}
  BY MediaWorkerMoves DEF Converting
<1>2. FreshOK(a)'
  BY <1>1 DEF TidyOK, FreshOK, Converting
<1>3. InTransit(a)' <=> InTransit(a)
  BY DEF InTransit, Converting
<1>4. Holding(w, a) => worker[w].stage \in {"committing", "clearing", "lost"}
  BY DEF Holding
<1>5. ~asset[a].deleted /\ asset[a].processing = "ready" => asset'[a].processing = "ready"
  BY DEF Converting
<1>6. Original(a) \in objects' => (AtWork(a) /\ ~asset[a].deleted => AtWork(a)' \/ asset'[a].processing = "ready")
  BY <1>1, <1>5 DEF Converting
<1>7. \A v \in Workers : Display(a, v) \in objects' =>
         /\ Display(a, v) \in objects \/ Holding(v, a)'
         /\ Holding(v, a) => Holding(v, a)'
  BY <1>1, <1>4 DEF Converting
<1> QED
  BY <1>1, <1>2, <1>3, <1>5, <1>6, <1>7, TidyKept DEF Converting

\* The worker that has lost its lease has a cancelled job.
LEMMA LostIsCancelled ==
  ASSUME Clean, NEW w \in Workers, NEW a \in Assets, On(w, "media", a), ~Holds(w)
  PROVE  MediaJob(a) = "cancelled"
  BY CleanOK DEF WorkersOK, LeaseHeld, On, MediaJob, Asset

\* The steps of a conversion.
LEMMA MediaTidy ==
  ASSUME Clean, NEW w \in Workers, NEW a \in Assets, On(w, "media", a), a = Asset(w), TidyOK(a),
         \/ ReadsAsset(w) \/ ChecksScope(w) \/ Marks(w) \/ Converts(w) \/ WritesDisplay(w)
         \/ ClearsDisplay(w) \/ Judges(w) \/ DeletesFiles(w) \/ release(w)
         \/ Commits(w) /\ UNCHANGED asset
  PROVE  TidyOK(a)'
<1>0. TypeOK /\ Running(w) /\ worker[w].job[1] = "media" /\ WorkOK(w, a)
  BY CleanOK DEF On, FilesOK
<1>1. worker[w].stage \in MediaStages
  BY <1>0, CleanOK DEF WorkersOK, StageFits
<1>2. Original(a) # Display(a, w) /\ \A v \in Workers \ {w} : Display(a, v) # Display(a, w)
  BY NobodyAssumption, FileNames
<1>3. CASE ReadsAsset(w)
  <2>1. /\ worker[w].stage = "leased" /\ UNCHANGED <<asset, objects, job, receiver>>
        /\ \E stage \in {"deleting", "done", "failed", "rejecting", "starting"} :
             /\ WorkerBecomes(w, stage) /\ stage # "deleting"
             /\ stage = "done" => asset[a].processing = "ready"
             /\ stage = "failed" => asset[a].deleted
    BY <1>0, <1>3, ReadsAssetEffect
  <2>2. PICK stage \in {"done", "failed", "rejecting", "starting"} :
          /\ WorkerBecomes(w, stage)
          /\ stage = "done" => asset[a].processing = "ready"
          /\ stage = "failed" => asset[a].deleted
    BY <2>1
  <2>3. Converting(w, a, stage)
    BY <2>1, <2>2 DEF Converting, Early
  <2> QED
    BY <2>3, ConversionTidy
<1>4. CASE ChecksScope(w)
  <2>1. /\ worker[w].stage = "starting" /\ UNCHANGED <<asset, objects, job, receiver>>
        /\ \E stage \in {"marking", "clearing"} : WorkerBecomes(w, stage)
    BY <1>0, <1>4, ChecksScopeEffect
  <2>2. \E stage \in {"marking", "clearing"} : Converting(w, a, stage)
    BY <2>1 DEF Converting, Early
  <2> QED
    BY <2>2, ConversionTidy
<1>5. CASE Marks(w)
  <2>1. /\ worker[w].stage = "marking" /\ WorkerBecomes(w, "reading") /\ UNCHANGED <<objects, job, receiver>>
        /\ RowBecomes(a, "processing", asset[a].deleted, asset[a].allowed, asset[a].derivative)
    BY <1>0, <1>5, MarksEffect
  <2>2. asset[a].processing # "ready"
    BY <1>0, <2>1 DEF WorkOK
  <2>3. Converting(w, a, "reading")
    BY <2>1, <2>2 DEF Converting, Early, RowBecomes
  <2> QED
    BY <2>3, ConversionTidy
<1>6. CASE Converts(w)
  <2>1. /\ worker[w].stage = "reading" /\ UNCHANGED <<asset, objects, job, receiver>>
        /\ \E stage \in {"writing", "clearing"} : WorkerBecomes(w, stage)
    BY <1>0, <1>6, ConvertsEffect
  <2>2. \E stage \in {"writing", "clearing"} : Converting(w, a, stage)
    BY <2>1 DEF Converting, Early
  <2> QED
    BY <2>2, ConversionTidy
<1>7. CASE WritesDisplay(w)
  <2>1. /\ worker[w].stage = "writing" /\ WorkerBecomes(w, "committing") /\ UNCHANGED <<asset, job, receiver>>
        /\ objects' = objects \cup {Display(a, w)}
    BY <1>0, <1>7, WritesDisplayEffect
  <2>2. Converting(w, a, "committing")
    BY <1>2, <2>1 DEF Converting, Early
  <2> QED
    BY <2>2, ConversionTidy
<1>8. CASE Commits(w) /\ UNCHANGED asset
  <2>1. /\ worker[w].stage = "committing" /\ UNCHANGED <<asset, objects, job, receiver>>
    BY <1>0, <1>8, CommitsEffect
  <2>2. \/ WorkerBecomes(w, "clearing")
        \/ ~Holds(w) /\ WorkerBecomes(w, "lost")
    <3>1. ~(MayCommit(w) /\ asset'[a].processing = "ready")
      BY <1>8 DEF MayCommit
    <3> QED
      BY <1>0, <1>8, <3>1, CommitsEffect DEF RowBecomes
  <2>3. CASE WorkerBecomes(w, "clearing")
    <3>1. Converting(w, a, "clearing")
      BY <2>1, <2>3 DEF Converting, Early
    <3> QED
      BY <3>1, ConversionTidy
  <2>4. CASE ~Holds(w) /\ WorkerBecomes(w, "lost")
    <3>1. MediaJob(a) = "cancelled"
      BY <2>4, LostIsCancelled
    <3>2. Converting(w, a, "lost")
      BY <2>1, <2>4, <3>1 DEF Converting, Early
    <3> QED
      BY <3>2, ConversionTidy
  <2> QED
    BY <2>2, <2>3, <2>4
<1>9. CASE ClearsDisplay(w)
  <2>1. /\ UNCHANGED <<asset, job, receiver>> /\ objects' = objects \ {Display(a, w)}
        /\ \/ worker[w].stage = "clearing" /\ WorkerBecomes(w, "judging")
           \/ worker[w].stage = "lost" /\ WorkerBecomes(w, "failed")
    BY <1>0, <1>9, ClearsDisplayEffect
  <2>2. \E stage \in {"judging", "failed"} : Converting(w, a, stage)
    BY <1>2, <2>1 DEF Converting, Early
  <2> QED
    BY <2>2, ConversionTidy
<1>10. CASE Judges(w)
  <2>1. /\ worker[w].stage = "judging" /\ UNCHANGED <<asset, objects, job, receiver>>
        /\ \/ WorkerBecomes(w, "rejecting")
           \/ ~(Holds(w) /\ asset[a].processing # "ready") /\ WorkerBecomes(w, "failed")
    BY <1>0, <1>10, JudgesEffect
  <2>2. asset[a].processing # "ready"
    BY <1>0, <2>1 DEF WorkOK
  <2>3. ~Holds(w) => MediaJob(a) = "cancelled"
    BY LostIsCancelled
  <2>4. \E stage \in {"rejecting", "failed"} : Converting(w, a, stage)
    BY <2>1, <2>2, <2>3 DEF Converting, Early
  <2> QED
    BY <2>4, ConversionTidy
<1>11. CASE DeletesFiles(w)
  <2>1. /\ worker[w].stage = "rejecting" /\ WorkerBecomes(w, "rejected")
        /\ UNCHANGED <<asset, job, receiver>> /\ objects' = objects \ {Original(a)}
    BY <1>0, <1>1, <1>11, DeletesFilesEffect DEF MediaStages, Early
  <2>2. Converting(w, a, "rejected")
    BY <2>1 DEF Converting, Early
  <2> QED
    BY <2>2, ConversionTidy
<1>12. CASE release(w)
  <2>1. /\ worker[w].stage = "rejected" /\ WorkerBecomes(w, "failed") /\ UNCHANGED <<objects, job, receiver>>
        /\ RowBecomes(a, "rejected", asset[a].deleted, asset[a].allowed, asset[a].derivative)
    BY <1>0, <1>1, <1>12, ReleaseEffect DEF MediaStages, Early
  <2>2. /\ asset[a].processing # "ready" /\ asset'[a].processing = "rejected"
        /\ asset'[a].deleted = asset[a].deleted /\ asset'[a].derivative = asset[a].derivative
    BY <1>0, <2>1 DEF WorkOK, RowBecomes
  <2>3. /\ AtWork(a) <=> MediaJob(a) = "leased" /\ worker[w].stage \in Early
        /\ AtWork(a)' <=> MediaJob(a) = "leased" /\ "failed" \in Early
        /\ (ToDelete(a)' <=> ToDelete(a)) /\ (ToDeleteDisplay(a)' <=> ToDeleteDisplay(a))
        /\ \A v \in Workers \ {w} : ~Holding(v, a) /\ ~Holding(v, a)'
    BY <2>1, <2>2, MediaWorkerMoves
  <2>4. ~AtWork(a) /\ ~AtWork(a)' /\ ~Holding(w, a)
    BY <2>1, <2>3 DEF Early, Holding
  <2>5. FreshOK(a)' /\ (InTransit(a)' <=> InTransit(a))
    BY <2>1, <2>4 DEF FreshOK, InTransit
  <2> QED
    BY <2>1, <2>2, <2>3, <2>4, <2>5, TidyKept
<1> QED
  BY <1>3, <1>4, <1>5, <1>6, <1>7, <1>8, <1>9, <1>10, <1>11, <1>12

\* The conversion is committed: the row names the display of the worker that wrote it.
LEMMA CommitTidy ==
  ASSUME Clean, NEW w \in Workers, NEW a \in Assets, a = Asset(w), TidyOK(a), Commits(w), ~UNCHANGED asset
  PROVE  TidyOK(a)'
<1>0. TypeOK
  BY CleanOK
<1>1. /\ MayCommit(w) /\ Running(w) /\ worker[w].stage = "committing" /\ UNCHANGED objects
      /\ RowBecomes(a, "ready", asset[a].deleted, asset[a].allowed, w)
  BY <1>0, CommitsEffect
<1>2. /\ ~asset[a].deleted /\ asset[a].processing = "processing"
      /\ asset'[a].processing = "ready" /\ ~asset'[a].deleted /\ asset'[a].derivative = w
  BY <1>1 DEF MayCommit, RowBecomes
<1>3. On(w, "media", a)
  BY <1>0, <1>1, KindOf, CleanOK DEF WorkersOK, DeleteStages
<1>4. FreshOK(a)' /\ OriginalOK(a)'
  BY <1>2 DEF FreshOK, OriginalOK
<1>5. ASSUME NEW v \in Workers PROVE DisplayOK(v, a)'
  <2>1. CASE v = w
    BY <1>2, <2>1 DEF DisplayOK
  <2>2. CASE v # w
    <3>1. ~On(v, "media", a)
      BY <1>3, <2>2, CleanOK DEF WorkersOK, RunsAlone, On, Asset
    <3>2. Display(a, v) \notin objects
      BY <1>2, <3>1 DEF TidyOK, DisplayOK, Holding
    <3> QED
      BY <1>1, <3>2 DEF DisplayOK
  <2> QED
    BY <2>1, <2>2
<1> QED
  BY <1>4, <1>5 DEF TidyOK

\* The steps of a removal job: the files go, then the row is expired.
LEMMA RemovalTidy ==
  ASSUME Clean, NEW w \in Workers, NEW a \in Assets, On(w, "media-delete", a), a = Asset(w), TidyOK(a),
         ReadsAsset(w) \/ DeletesFiles(w) \/ release(w)
  PROVE  TidyOK(a)'
<1>0. TypeOK /\ WorkersOK /\ Running(w) /\ worker[w].job[1] = "media-delete" /\ AssetOK(a) /\ Unstalled(a)
  BY CleanOK DEF On
<1>1. worker[w].stage \in DeleteStages
  BY <1>0 DEF WorkersOK, StageFits
<1>2. CASE ReadsAsset(w)
  <2>1. /\ worker[w].stage = "leased" /\ UNCHANGED <<asset, objects, job, receiver>>
        /\ WorkerBecomes(w, "deleting") /\ worker'[w].named = asset[a].derivative
    BY <1>0, <1>2, ReadsAssetEffect
  <2>2. /\ AtWork(a)' <=> AtWork(a)
        /\ \A v \in Workers : Holding(v, a)' <=> Holding(v, a)
        /\ ToDelete(a)' /\ ToDeleteDisplay(a)'
    BY <2>1, DeleteWorkerMoves
  <2>3. FreshOK(a)' /\ (InTransit(a)' <=> InTransit(a))
    BY <2>1, <2>2 DEF FreshOK, TidyOK, InTransit
  <2> QED
    BY <2>1, <2>2, <2>3, TidyKept
<1>3. CASE DeletesFiles(w)
  <2>1. /\ worker[w].stage = "deleting" /\ UNCHANGED <<asset, job, receiver>>
        /\ WorkerBecomes(w, "expired")
        /\ objects' = objects \ {Original(a), Display(a, worker[w].named)}
    BY <1>0, <1>1, <1>3, DeletesFilesEffect DEF DeleteStages
  <2>2. /\ AtWork(a)' <=> AtWork(a)
        /\ \A v \in Workers : Holding(v, a)' <=> Holding(v, a)
        /\ ToDeleteDisplay(a) => ToDeleteDisplay(a)' \/ worker[w].named = asset[a].derivative
    BY <2>1, DeleteWorkerMoves
  <2>3. /\ Original(a) \notin objects'
        /\ \A v \in Workers : Display(a, v) \in objects' =>
             Display(a, v) \in objects /\ v # worker[w].named
    BY <2>1
  <2>4. FreshOK(a)' /\ (InTransit(a)' <=> InTransit(a))
    BY <2>1, <2>2 DEF FreshOK, TidyOK, InTransit
  <2> QED
    BY <2>1, <2>2, <2>3, <2>4, TidyKept
<1>4. CASE release(w)
  <2>1. /\ worker[w].stage = "expired" /\ UNCHANGED <<objects, job, receiver>> /\ WorkerBecomes(w, "done")
        /\ RowBecomes(a, "expired", asset[a].deleted, asset[a].allowed, asset[a].derivative)
    BY <1>0, <1>1, <1>4, ReleaseEffect DEF DeleteStages
  <2>2. /\ AtWork(a)' <=> AtWork(a)
        /\ \A v \in Workers : Holding(v, a)' <=> Holding(v, a)
        /\ ToDelete(a) => ToDelete(a)'
        /\ ToDeleteDisplay(a) => ToDeleteDisplay(a)'
    BY <2>1, DeleteWorkerMoves
  <2>3. ~asset[a].deleted => ~AtWork(a) /\ asset[a].processing # "ready"
    <3>1. DeleteJob(a) # "none"
      BY <1>0, DeleteWorker
    <3> QED
      BY <1>0, <3>1, WorkHasBytes DEF AssetOK, RemovalOK, Unended
  <2>4. /\ asset'[a].deleted = asset[a].deleted /\ asset'[a].derivative = asset[a].derivative
        /\ FreshOK(a)' /\ (InTransit(a)' <=> InTransit(a))
    BY <2>1, <2>2, <2>3 DEF FreshOK, InTransit, RowBecomes
  <2> QED
    BY <2>1, <2>2, <2>3, <2>4, TidyKept
<1> QED
  BY <1>2, <1>3, <1>4

\* The job is over: a conversion that ended is no longer at work, a removal that
\* succeeded has removed.
LEMMA SettlesTidy ==
  ASSUME Clean, NEW w \in Workers, NEW a \in Assets, a = Asset(w), TidyOK(a), Settles(w)
  PROVE  TidyOK(a)'
<1>0. TypeOK /\ WorkersOK /\ (a \in Assets => Unstalled(a))
  BY CleanOK
<1>1. /\ Running(w) /\ worker[w].stage \in {"done", "failed"} /\ WorkerStops(w, Idle)
      /\ UNCHANGED <<asset, objects, receiver>>
      /\ \/ Owns(w) /\ \E state \in {"succeeded", "failed"} :
                          JobBecomes(worker[w].job, state, Nobody, job[worker[w].job].makers)
         \/ ~Owns(w) /\ job' = job
  BY <1>0, SettlesEffect
<1>2. PICK k \in Kinds : On(w, k, a)
  BY <1>0, <1>1, TaskOf
<1>3. /\ job[<<k, a>>].state \in {"leased", "cancelled"}
      /\ job'[<<k, a>>].state = job[<<k, a>>].state \/ job'[<<k, a>>].state \in {"succeeded", "failed"}
      /\ job[<<k, a>>].state = "cancelled" => job' = job
      /\ \A l \in (Kinds \X Assets) \ {<<k, a>>} : job'[l] = job[l]
  BY <1>0, <1>1, <1>2 DEF On, Holds, Owns, WorkersOK, LeaseHeld, JobBecomes
<1>4. /\ \A v \in Workers \ {w} : \A l \in Kinds : /\ On(v, l, a)' <=> On(v, l, a)
                                                  /\ worker'[v] = worker[v]
      /\ \A l \in Kinds : ~On(w, l, a)'
      /\ \A l \in Kinds : l # k => ~On(w, l, a)
      /\ \A v \in Workers \ {w} : ~On(v, k, a)
  <2>1. \A v \in Workers \ {w} : worker'[v] = worker[v]
    BY <1>1 DEF WorkerStops
  <2>2. \A v \in Workers \ {w} : \A l \in Kinds : On(v, l, a)' <=> On(v, l, a)
    BY <2>1 DEF On, Running
  <2>3. \A l \in Kinds : ~On(w, l, a)'
    BY <1>1 DEF WorkerStops, On
  <2>4. \A l \in Kinds : l # k => ~On(w, l, a)
    BY <1>2 DEF On
  <2>5. \A v \in Workers \ {w} : ~On(v, k, a)
    <3>1. \A v \in Workers \ {w} : RunsAlone(v, w)
      BY <1>0 DEF WorkersOK
    <3>2. Unstalled(Asset(w)) /\ Running(w) /\ worker[w].job = <<k, a>>
      BY <1>0, <1>2 DEF On
    <3> QED
      BY <3>1, <3>2 DEF RunsAlone, On
  <2> QED
    BY <2>1, <2>2, <2>3, <2>4, <2>5
<1>5. \A v \in Workers : Holding(v, a)' <=> Holding(v, a)
  BY <1>1, <1>4, TheKinds DEF Holding
<1>6. CASE k = "media"
  <2>1. DeleteJob(a)' = DeleteJob(a) /\ MediaJob(a) \in {"leased", "cancelled"}
        /\ MediaJob(a)' \in {"leased", "cancelled", "succeeded", "failed"}
    BY <1>3, <1>6, Pairs, Keys DEF DeleteJob, MediaJob
  <2>2. ~AtWork(a) /\ ~AtWork(a)'
    BY <1>1, <1>4, <1>6, <2>1, TheKinds DEF AtWork, Early
  <2>3. /\ ToDelete(a)' <=> ToDelete(a)
        /\ ToDeleteDisplay(a)' <=> ToDeleteDisplay(a)
    BY <1>1, <1>4, <1>6, <2>1, TheKinds DEF ToDelete, ToDeleteDisplay
  <2>4. FreshOK(a)' /\ (InTransit(a)' <=> InTransit(a))
    BY <1>1, <2>2 DEF FreshOK, InTransit
  <2> QED
    BY <1>1, <1>5, <2>2, <2>3, <2>4, TidyKept
<1>7. CASE k = "media-delete"
  <2>1. /\ MediaJob(a)' = MediaJob(a) /\ DeleteJob(a) \in {"leased", "cancelled"}
        /\ DeleteJob(a) = "cancelled" => DeleteJob(a)' = "cancelled"
    BY <1>3, <1>7, Pairs, Keys DEF DeleteJob, MediaJob
  <2>2. AtWork(a)' <=> AtWork(a)
    BY <1>1, <1>4, <1>7, <2>1, TheKinds DEF AtWork, Early
  <2>3. /\ ToDelete(a) => ToDelete(a)'
        /\ ToDeleteDisplay(a) => ToDeleteDisplay(a)'
    BY <1>1, <1>4, <1>7, <2>1, TheKinds DEF ToDelete, ToDeleteDisplay
  <2>4. FreshOK(a)' /\ (InTransit(a)' <=> InTransit(a))
    BY <1>1, <2>2 DEF FreshOK, TidyOK, InTransit
  <2> QED
    BY <1>1, <1>5, <2>2, <2>3, <2>4, TidyKept
<1> QED
  BY <1>6, <1>7 DEF Kinds

Tidy == Usable /\ (faults = 0 => mishaps = {} /\ \A a \in Assets : TidyOK(a))

LEMMA TidyInit == MediaInit => Tidy
<1> SUFFICES ASSUME MediaInit PROVE Tidy
  OBVIOUS
<1>1. objects = {} /\ \A a \in Assets : MediaJob(a) = "none"
  BY Pairs DEF MediaInit, MediaJob
<1>2. \A a \in Assets : TidyOK(a)
  BY <1>1 DEF TidyOK, FreshOK, OriginalOK, DisplayOK, AtWork
<1> QED
  BY <1>2, UsableInit DEF MediaInit, Tidy

LEMMA TidyStep ==
  Clean /\ (\A a \in Assets : TidyOK(a)) /\ [MediaNext]_mediaVars /\ faults' = 0 => \A a \in Assets : TidyOK(a)'
<1> SUFFICES ASSUME Clean, \A a \in Assets : TidyOK(a), [MediaNext]_mediaVars, faults' = 0, NEW b \in Assets
             PROVE  TidyOK(b)'
  OBVIOUS
<1>0. TypeOK
  BY CleanOK
<1>1. ~(faults' > 0)
  OBVIOUS
<1>2. ASSUME UNCHANGED <<asset, objects, job, receiver, worker>> PROVE TidyOK(b)'
  <2>1. Untouched(b)
    BY <1>2 DEF Untouched
  <2> QED
    BY <2>1, UntouchedTidy
<1>3. CASE UNCHANGED mediaVars
  BY <1>2, <1>3 DEF mediaVars
<1>4. CASE OthersUse
  BY <1>0, <1>2, <1>4, OthersUseEffect
<1>5. ASSUME NEW a \in Assets, b # a, UNCHANGED worker, asset'[b] = asset[b], receiver'[b] = receiver[b],
             JobsOfOthersStay(a),
             \A by \in Workers \cup {Nobody} : Display(b, by) \in objects' => Display(b, by) \in objects
      PROVE  TidyOK(b)'
  <2>1. Untouched(b)
    BY <1>5 DEF Untouched, JobsOfOthersStay
  <2> QED
    BY <2>1, UntouchedTidy
<1>6. ASSUME NEW a \in Assets,
             intent(a) \/ Claims(a) \/ WritesOriginal(a) \/ Received(a) \/ DeletesOriginal(a)
               \/ AwaitsAgain(a) \/ Overdue(a) \/ requestAccountDeletion(a)
      PROVE  TidyOK(b)'
  <2>1. CASE b = a
    <3>1. CASE job' = job
      BY <1>6, <2>1, <3>1, RequestsTidy
    <3>2. CASE job' # job
      <4>1. Received(a)
        BY <1>6, <3>2 DEF intent, Claims, WritesOriginal, DeletesOriginal, AwaitsAgain, Overdue, requestAccountDeletion
      <4> QED
        BY <2>1, <3>2, <4>1, ArrivalTidy
    <3> QED
      BY <3>1, <3>2
  <2>2. CASE b # a
    <3>1. UNCHANGED worker
      BY <1>6 DEF intent, Claims, WritesOriginal, Received, DeletesOriginal, AwaitsAgain, Overdue, requestAccountDeletion
    <3>4. asset'[b] = asset[b]
      <4>1. intent(a) \/ Overdue(a) \/ requestAccountDeletion(a) => asset'[b] = asset[b]
        BY <1>0, <2>2, IntentEffect, OverdueEffect, AccountEffect DEF RowBecomes
      <4>5. Claims(a) => asset'[b] = asset[b]
        BY <1>0, <2>2, ClaimsEffect DEF RowBecomes
      <4>2. Received(a) => asset'[b] = asset[b]
        BY ZenonT(60), <1>0, <2>2, ReceivedEffect DEF RowBecomes
      <4>3. AwaitsAgain(a) => asset'[b] = asset[b]
        BY <1>0, <2>2, AwaitsAgainEffect DEF RowBecomes
      <4>4. WritesOriginal(a) \/ DeletesOriginal(a) => UNCHANGED asset
        BY DEF WritesOriginal, DeletesOriginal
      <4> QED
        BY <1>6, <4>1, <4>2, <4>3, <4>4, <4>5
    <3>5. receiver'[b] = receiver[b]
      <4>1. Claims(a) \/ WritesOriginal(a) \/ Received(a) \/ DeletesOriginal(a) \/ AwaitsAgain(a)
              => receiver'[b] = receiver[b]
        BY <1>0, <2>2, ClaimsEffect, WritesOriginalEffect, ReceivedEffect, DeletesOriginalEffect,
           AwaitsAgainEffect DEF ReceiverBecomes
      <4>2. intent(a) \/ Overdue(a) \/ requestAccountDeletion(a) => UNCHANGED receiver
        BY DEF intent, Overdue, requestAccountDeletion
      <4> QED
        BY <1>6, <4>1, <4>2
    <3>2. JobsOfOthersStay(a)
      <4>1. job' = job \/ job' = Queued(job, "media", a, TRUE)
        BY <1>6 DEF intent, Claims, WritesOriginal, Received, Arrives, DeletesOriginal, AwaitsAgain, Overdue,
                    requestAccountDeletion
      <4> QED
        BY <1>0, <4>1, QueuesMedia DEF JobsOfOthersStay
    <3>3. \A by \in Workers \cup {Nobody} : Display(b, by) \in objects' => Display(b, by) \in objects
      <4>1. objects' \subseteq objects \cup {Original(a)}
        BY <1>6 DEF intent, Claims, WritesOriginal, Received, DeletesOriginal, AwaitsAgain, Overdue, requestAccountDeletion
      <4> QED
        BY <2>2, <4>1, FileNames
    <3> QED
      BY <1>5, <2>2, <3>1, <3>2, <3>3, <3>4, <3>5
  <2> QED
    BY <2>1, <2>2
<1>7. ASSUME NEW a \in Assets, remove(a) \/ sweep(a) \/ removeMember(a) PROVE TidyOK(b)'
  <2>1. CASE b = a
    BY <1>7, <2>1, RemoveTidy, SweepTidy, MemberTidy
  <2>2. CASE b # a
    <3>1. UNCHANGED <<worker, receiver, objects>>
      BY <1>7 DEF remove, sweep, removeMember
    <3>3. asset'[b] = asset[b]
      <4>1. remove(a) => asset'[b] = asset[b]
        BY <1>0, <1>1, <2>2, RemoveEffect DEF RowBecomes
      <4>2. sweep(a) => asset'[b] = asset[b]
        BY <1>0, <2>2, SweepEffect DEF RowBecomes
      <4>3. removeMember(a) => asset'[b] = asset[b]
        BY <1>0, <2>2, RemoveMemberEffect DEF RowBecomes
      <4> QED
        BY <1>7, <4>1, <4>2, <4>3
    <3>2. JobsOfOthersStay(a)
      <4>1. CASE remove(a)
        BY <1>0, <1>1, <4>1, RemoveEffect, QueuesDelete
      <4>2. CASE sweep(a)
        BY <1>0, <4>2, SweepEffect, QueuesDelete, TheKinds
      <4>3. CASE removeMember(a)
        BY <1>0, <4>3, RemoveMemberEffect, CancelsJobs, CancelsAndQueues
      <4> QED
        BY <1>7, <4>1, <4>2, <4>3
    <3> QED
      BY <1>5, <2>2, <3>1, <3>2, <3>3
  <2> QED
    BY <2>1, <2>2
<1>8. ASSUME NEW w \in Workers, lease(w) PROVE TidyOK(b)'
  BY <1>8, LeaseTidy
<1>9. ASSUME NEW w \in Workers, Runs(w) PROVE TidyOK(b)'
  <2>1. CASE b # Asset(w)
    BY <1>9, <2>1, WorkerElsewhere
  <2>2. CASE b = Asset(w)
    <3>1. CASE Settles(w)
      BY <2>2, <3>1, SettlesTidy
    <3>2. CASE Commits(w) /\ ~UNCHANGED asset
      BY <2>2, <3>2, CommitTidy
    <3>3. CASE ~Settles(w) /\ (Commits(w) => UNCHANGED asset)
      <4>1. Running(w)
        BY <1>0, <1>9, ReadsAssetEffect, ChecksScopeEffect, MarksEffect, ConvertsEffect, WritesDisplayEffect,
           CommitsEffect, ClearsDisplayEffect, JudgesEffect, DeletesFilesEffect, ReleaseEffect, SettlesEffect
           DEF Runs
      <4>2. On(w, "media", b) \/ On(w, "media-delete", b)
        BY <1>0, <2>2, <4>1, TaskOf DEF Kinds
      <4>3. CASE On(w, "media", b)
        BY <1>9, <2>2, <3>3, <4>3, MediaTidy DEF Runs
      <4>4. CASE On(w, "media-delete", b)
        <5>1. worker[w].stage \in DeleteStages
          BY <4>4, CleanOK DEF WorkersOK, StageFits, On
        <5>2. ReadsAsset(w) \/ DeletesFiles(w) \/ release(w)
          BY <1>9, <3>3, <5>1 DEF Runs, ChecksScope, Marks, Converts, WritesDisplay, Commits, ClearsDisplay,
             Judges, AtStage, DeleteStages
        <5> QED
          BY <2>2, <4>4, <5>2, RemovalTidy
      <4> QED
        BY <4>2, <4>3, <4>4
    <3> QED
      BY <3>1, <3>2, <3>3
  <2> QED
    BY <2>1, <2>2
<1>10. ASSUME NEW a \in Assets, Starts(a) \/ StartsAgain(a) PROVE TidyOK(b)'
  BY <1>2, <1>10 DEF Starts, StartsAgain, ReadsRow
<1>11. ASSUME NEW a \in Assets, DeletesRecorded(a) \/ Expires(a) PROVE TidyOK(b)'
  <2>1. CASE b = a
    BY <1>11, <2>1, ReplayTidy
  <2>2. CASE b # a
    <3>1. UNCHANGED <<worker, receiver, job>> /\ objects' \subseteq objects
      BY <1>0, <1>11, DeletesRecordedEffect, ExpiresEffect
    <3>2. asset'[b] = asset[b]
      BY <1>0, <1>11, <2>2, DeletesRecordedEffect, ExpiresEffect DEF RowBecomes
    <3>3. JobsOfOthersStay(a)
      BY <3>1 DEF JobsOfOthersStay
    <3> QED
      BY <1>5, <2>2, <3>1, <3>2, <3>3
  <2> QED
    BY <2>1, <2>2
\* Nothing goes wrong in this step either.
<1>12. \A a \in Assets : ~ApiCrash(a) /\ ~StartFails(a)
  BY <1>0, <1>1, ApiCrashEffect, StartFailsEffect
<1>13. \A w \in Workers : ~WorkerCrash(w) /\ ~GivesUp(w) /\ ~Stalls(w)
  BY <1>0, <1>1, WorkerCrashEffect, GivesUpEffect, StallsEffect
<1>14. \A w \in Workers : ~Renews(w)
  <2> SUFFICES ASSUME NEW w \in Workers, Renews(w) PROVE FALSE
    OBVIOUS
  <2>1. Running(w) /\ ~Holds(w) /\ job[worker[w].job].state = "expired"
    BY <1>0, RenewsEffect
  <2>2. Asset(w) \in Assets
    BY <1>0, <2>1, TaskOf
  <2> QED
    BY <2>1, <2>2, CleanOK DEF WorkersOK, LeaseHeld
<1> QED
  BY <1>3, <1>4, <1>6, <1>7, <1>8, <1>9, <1>10, <1>11, <1>12, <1>13, <1>14
     DEF MediaNext, Asks, Receives, Replays, Works

\* While nothing went wrong, what is at rest has nothing in storage.
LEMMA TidyAtRest ==
  ASSUME Tidy PROVE NoStrayFiles
<1> SUFFICES ASSUME faults = 0, NEW a \in Assets, AtRest(a), NEW o \in objects, o.asset = a PROVE FALSE
  BY DEF NoStrayFiles
<1>1. TidyOK(a) /\ TypeOK
  BY DEF Tidy, Usable
<1>2. \A w \in Workers : \A k \in Kinds : ~On(w, k, a)
  BY DEF AtRest, On, Running, Asset
<1>3. /\ MediaJob(a) \in {"none", "succeeded", "failed", "cancelled"}
      /\ DeleteJob(a) \in {"none", "succeeded", "failed"}
      /\ receiver[a] = "none" /\ asset[a].processing # "ready"
  BY DEF AtRest, MediaJob, DeleteJob
<1>4. ~AtWork(a) /\ ~ToDelete(a) /\ ~ToDeleteDisplay(a) /\ ~InTransit(a)
  BY <1>2, <1>3, TheKinds DEF AtWork, ToDelete, ToDeleteDisplay, InTransit
<1>5. \A w \in Workers : ~Holding(w, a)
  BY <1>2, TheKinds DEF Holding
<1>6. Original(a) \notin objects
  BY <1>1, <1>3, <1>4 DEF TidyOK, OriginalOK
<1>7. \A w \in Workers : Display(a, w) \notin objects
  BY <1>1, <1>3, <1>4, <1>5 DEF TidyOK, DisplayOK
<1>8. o = Original(a) \/ \E w \in Workers : o = Display(a, w)
  BY <1>1 DEF TypeOK, Files, Original, Display
<1> QED
  BY <1>6, <1>7, <1>8

\* As long as nothing crashed and no call failed, no file is left that nothing refers to, for every number of
\* assets and workers: whoever stores a file takes it back, hands it over to a job or to
\* the row, and a removal finds what the row names.
THEOREM NoFileIsStray == FairMediaSpec => []NoStrayFiles
<1>1. MediaInit => Tidy
  BY TidyInit
<1>2. Tidy /\ [MediaNext]_mediaVars => Tidy'
  <2> SUFFICES ASSUME Tidy, [MediaNext]_mediaVars PROVE Tidy'
    OBVIOUS
  <2>1. Usable'
    BY UsableStep DEF Tidy
  <2>2. TypeOK
    BY DEF Tidy, Usable
  <2>3. faults' = 0 => mishaps' = {} /\ \A a \in Assets : TidyOK(a)'
    BY <2>2, HistoryGrows, TidyStep DEF Tidy, Clean
  <2> QED
    BY <2>1, <2>3 DEF Tidy
<1>3. Tidy => NoStrayFiles
  BY TidyAtRest
<1> QED
  BY <1>1, <1>2, <1>3, PTL DEF FairMediaSpec

=============================================================================
