----------------------------- MODULE EmailDelivery -----------------------------
(***************************************************************************)
(* The durable job queue as e-mail uses it: leases that expire, a send      *)
(* intent stored before the provider is called, failures at every step,     *)
(* provider callbacks that arrive late, twice or out of order, and the      *)
(* owner's retry of a failed message.                                       *)
(*                                                                          *)
(* Message 1 is queued by the application, every further one is a retry of  *)
(* an earlier one.  A message and its job (dedupe_key 'email:' || id) share *)
(* their number.  A worker is one process with its lease owner id.          *)
(***************************************************************************)
EXTENDS Naturals

CONSTANTS
  Workers,       \* worker processes
  Nobody,        \* a lease owner that no longer runs
  Idempotent,    \* the adapter's capability: RavenRelay TRUE, Maileroo FALSE
  MaxAttempts,   \* attempts after which a job fails: 5 in the code
  MaxMessages,   \* bound: the message and its retries
  MaxEvents,     \* bound: delivery events per message
  MaxFaults      \* bound: crashes, stalls, failed calls

ASSUME WorkersAssumption == Nobody \notin Workers
ASSUME NumbersAssumption ==
  /\ Idempotent \in BOOLEAN
  /\ {MaxAttempts, MaxMessages} \subseteq Nat \ {0}
  /\ {MaxEvents, MaxFaults} \subseteq Nat

VARIABLES
  message,    \* std_email_messages
  job,        \* std_jobs of type email
  refused,    \* why validateEmailContext would refuse a message now
  deleted,    \* the wedding has been deleted
  received,   \* std_provider_inbox: numbers of the events received
  processed,  \* those among them with processed_at
  worker,     \* what each worker is doing
  taken,      \* provider: how often it took a message on
  emitted,    \* provider: its delivery events for a message, in order
  faults

vars == <<message, job, refused, deleted, received, processed, worker, taken, emitted, faults>>

Ids     == 1..MaxMessages
Times   == 1..MaxEvents
Final   == {"delivered", "bounced", "complained"}
Statuses == {"accepted", "delayed", "failed", "unknown"} \cup Final

Absent   == [state |-> "absent", known |-> FALSE, at |-> 0, retryOf |-> 0]
Queued(m) == [state |-> "queued", known |-> FALSE, at |-> 0, retryOf |-> m]
NoJob    == [state |-> "absent", owner |-> Nobody, attempts |-> 0, expired |-> FALSE]
Pending  == [NoJob EXCEPT !.state = "pending"]
Idle     == [phase |-> "idle", id |-> 0, attempts |-> 0, result |-> "none"]

Init ==
  /\ message = [m \in Ids |-> IF m = 1 THEN Queued(0) ELSE Absent]
  /\ job = [m \in Ids |-> IF m = 1 THEN Pending ELSE NoJob]
  /\ refused = [m \in Ids |-> "no"]
  /\ deleted = FALSE
  /\ received = [m \in Ids |-> {}]
  /\ processed = [m \in Ids |-> {}]
  /\ worker = [w \in Workers |-> Idle]
  /\ taken = [m \in Ids |-> 0]
  /\ emitted = [m \in Ids |-> [t \in Times |-> "none"]]
  /\ faults = 0

Fault == faults < MaxFaults /\ faults' = faults + 1

-----------------------------------------------------------------------------
(* Owners                                                                     *)

\* The requester loses or regains an owner's role, or, for good, the linked pass, grant or
\* token is replaced.
ChangeContext(m, why) ==
  /\ message[m].state # "absent"
  /\ refused[m] \notin {why, "resource"}
  /\ refused' = [refused EXCEPT ![m] = why]
  /\ UNCHANGED <<message, job, deleted, received, processed, worker, taken, emitted, faults>>

\* PostgresStore.deleteWedding cancels the jobs that have not ended.
DeleteWedding ==
  /\ ~deleted
  /\ deleted' = TRUE
  /\ job' = [m \in Ids |-> IF job[m].state \in {"pending", "leased"}
                           THEN [job[m] EXCEPT !.state = "cancelled"] ELSE job[m]]
  /\ UNCHANGED <<message, refused, received, processed, worker, taken, emitted, faults>>

\* PostgresNotifications.retry: one child per failed message, its context checked for the
\* owner who asks.
Retry(m, child) ==
  /\ ~deleted
  /\ message[m].state = "failed"
  /\ \A n \in Ids : message[n].retryOf # m
  /\ refused[m] # "resource"
  /\ message[child].state = "absent"
  /\ \A n \in Ids : n < child => message[n].state # "absent"
  /\ message' = [message EXCEPT ![child] = Queued(m)]
  /\ job' = [job EXCEPT ![child] = Pending]
  /\ UNCHANGED <<refused, deleted, received, processed, worker, taken, emitted, faults>>

-----------------------------------------------------------------------------
(* Workers: PostgresJobs.lease and processOne                                 *)

Holds(w, m) == job[m].owner = w /\ job[m].state = "leased"

Becomes(w, phase, result) ==
  worker' = [worker EXCEPT ![w].phase = phase, ![w].result = result]

NextAttempt(n) == IF n < MaxAttempts THEN n + 1 ELSE MaxAttempts

Lease(w, m) ==
  /\ worker[w].phase = "idle"
  /\ job[m].state = "pending" \/ (job[m].state = "leased" /\ job[m].expired)
  /\ LET n == NextAttempt(job[m].attempts)
     IN /\ job' = [job EXCEPT ![m] = [state |-> "leased", owner |-> w, attempts |-> n,
                                      expired |-> FALSE]]
        /\ worker' = [worker EXCEPT ![w] = [phase |-> "leased", id |-> m, attempts |-> n,
                                            result |-> "none"]]
  /\ UNCHANGED <<message, refused, deleted, received, processed, taken, emitted, faults>>

\* Sixty seconds pass.  A worker that is still busy with the job has stalled.
Expire(m) ==
  /\ job[m].state = "leased"
  /\ ~job[m].expired
  /\ IF \E w \in Workers : job[m].owner = w /\ worker[w].id = m THEN Fault ELSE faults' = faults
  /\ job' = [job EXCEPT ![m].expired = TRUE]
  /\ UNCHANGED <<message, refused, deleted, received, processed, worker, taken, emitted>>

Reached == {"provider_queued", "accepted", "delayed"} \cup Final

Skips(w, m) == ~Holds(w, m) \/ message[m].state \in Reached \/ deleted

\* Mutant: an expired lease resends an uncertain message.
NeverUncertain(m) == FALSE

Uncertain(m) == message[m].state = "unknown" /\ ~Idempotent

\* The transaction that decides to send: nothing to do any more, refused, or the intent
\* ('unknown') is stored.
Decide(w) ==
  LET m == worker[w].id
  IN /\ worker[w].phase = "leased"
     /\ \/ /\ Skips(w, m)
           /\ Becomes(w, "acking", "none")
           /\ message' = message
        \/ /\ ~Skips(w, m) /\ Uncertain(m)
           /\ Becomes(w, "failing", "uncertain")
           /\ message' = message
        \/ /\ ~Skips(w, m) /\ ~Uncertain(m) /\ refused[m] # "no"
           /\ Becomes(w, "failing", "definite")
           /\ message' = message
        \/ /\ ~Skips(w, m) /\ ~Uncertain(m) /\ refused[m] = "no"
           /\ Becomes(w, "sending", "none")
           /\ message' = [message EXCEPT ![m].state = "unknown"]
     /\ UNCHANGED <<job, refused, deleted, received, processed, taken, emitted, faults>>

\* The provider takes a message on; one with idempotency keys takes each only once.
TakeOn(m) ==
  taken' = [taken EXCEPT ![m] = IF Idempotent THEN 1 ELSE IF @ < 2 THEN @ + 1 ELSE 2]

\* A message the provider suppresses is answered, and answered again, as suppressed.
Answer(w) ==
  LET m == worker[w].id
  IN /\ worker[w].phase = "sending"
     /\ \/ TakeOn(m) /\ Becomes(w, "sent", "queued")
        \/ Idempotent /\ taken[m] = 0 /\ taken' = taken /\ Becomes(w, "sent", "suppressed")
     /\ UNCHANGED <<message, job, refused, deleted, received, processed, emitted, faults>>

\* 4xx: the provider does not take it.
Reject(w) ==
  /\ worker[w].phase = "sending"
  /\ Becomes(w, "failing", "definite")
  /\ UNCHANGED <<message, job, refused, deleted, received, processed, taken, emitted, faults>>

\* 5xx, a timeout or an unreadable answer: taken on or not, the worker cannot tell.
SendFails(w) ==
  /\ worker[w].phase = "sending"
  /\ Fault
  /\ Becomes(w, "failing", IF Idempotent THEN "retryable" ELSE "uncertain")
  /\ TakeOn(worker[w].id) \/ taken' = taken
  /\ UNCHANGED <<message, job, refused, deleted, received, processed, emitted>>

\* Mutant: the report that arrives last wins.
AfterArrival(row, status, t) == [row EXCEPT !.state = status, !.at = t]

\* One event of reconcile: bounces and complaints stick, delivery yields only to them.
After(row, status, t) ==
  LET sticky == row.state \in {"bounced", "complained"}
      newer  == row.at = 0 \/ t >= row.at
      takes  == \/ /\ ~sticky
                   /\ \/ status \in {"bounced", "complained"}
                      \/ newer /\ (row.state # "delivered" \/ status = "delivered")
                \/ row.state = "bounced" /\ status = "complained"
  IN IF takes THEN [row EXCEPT !.state = status, !.at = t] ELSE row

\* PostgresNotifications.reconcile: the events not yet processed, by occurred_at.
Reconciled(m, row, events) ==
  LET upTo[t \in 0..MaxEvents] ==
        IF t = 0 THEN row
        ELSE IF t \in events THEN After(upTo[t - 1], emitted[m][t], t) ELSE upTo[t - 1]
  IN upTo[MaxEvents]

Acknowledged(row, result) ==
  IF row.at # 0 THEN row
  ELSE [row EXCEPT !.known = TRUE,
                   !.state = IF result = "suppressed" THEN "failed"
                             ELSE IF Idempotent THEN "provider_queued" ELSE "accepted"]

\* PostgresNotifications.submitted: callbacks may have come before it.
Submitted(w) ==
  LET m   == worker[w].id
      row == Acknowledged(message[m], worker[w].result)
  IN /\ worker[w].phase = "sent"
     /\ message' = [message EXCEPT ![m] = Reconciled(m, row, received[m] \ processed[m])]
     /\ processed' = [processed EXCEPT ![m] = received[m]]
     /\ Becomes(w, "acking", "none")
     /\ UNCHANGED <<job, refused, deleted, received, taken, emitted, faults>>

\* Mutant: ack does not look at the lease.
EndsAnyJob(w, m, state) == job' = [job EXCEPT ![m].state = state]

\* ack and fail change the job only for the worker that holds its lease.
EndsJob(w, m, state) ==
  job' = IF Holds(w, m) THEN [job EXCEPT ![m].state = state] ELSE job

Ack(w) ==
  /\ worker[w].phase = "acking"
  /\ EndsJob(w, worker[w].id, "succeeded")
  /\ worker' = [worker EXCEPT ![w] = Idle]
  /\ UNCHANGED <<message, refused, deleted, received, processed, taken, emitted, faults>>

\* The database fails in the deciding transaction, in submitted or in ack: like every error
\* that is not the adapter's, a definite failure.
DatabaseFails(w) ==
  /\ worker[w].phase \in {"leased", "sent", "acking"}
  /\ Fault
  /\ Becomes(w, "failing", "definite")
  /\ UNCHANGED <<message, job, refused, deleted, received, processed, taken, emitted>>

\* Mutant: a rejected message goes back to the queue.
AlwaysAgain(w) == "pending"

FailedState(w) ==
  CASE worker[w].result = "uncertain" -> "unknown_external"
    [] worker[w].result = "retryable" /\ worker[w].attempts < MaxAttempts -> "pending"
    [] OTHER -> "failed"

FailJob(w) ==
  /\ worker[w].phase = "failing"
  /\ EndsJob(w, worker[w].id, FailedState(w))
  /\ Becomes(w, "failed", worker[w].result)
  /\ UNCHANGED <<message, refused, deleted, received, processed, taken, emitted, faults>>

\* Mutant: a submission error overwrites a reported outcome.
OverwritesReports(m) == TRUE

\* The update of the message does not look at the lease, only at reported outcomes.
Overwrites(m) == message[m].state \notin Final

FailMessage(w) ==
  LET m     == worker[w].id
      state == IF worker[w].result = "definite" THEN "failed" ELSE "unknown"
  IN /\ worker[w].phase = "failed"
     /\ message' = IF Overwrites(m) THEN [message EXCEPT ![m].state = state] ELSE message
     /\ worker' = [worker EXCEPT ![w] = Idle]
     /\ UNCHANGED <<job, refused, deleted, received, processed, taken, emitted, faults>>

\* The database fails while a failure is recorded: processOne throws, the lease stays.
RecordingFails(w) ==
  /\ worker[w].phase \in {"failing", "failed"}
  /\ Fault
  /\ worker' = [worker EXCEPT ![w] = Idle]
  /\ UNCHANGED <<message, job, refused, deleted, received, processed, taken, emitted>>

\* A worker process ends; its successor has an id of its own.
Crash(w) ==
  /\ worker[w].phase # "idle"
  /\ Fault
  /\ worker' = [worker EXCEPT ![w] = Idle]
  /\ job' = [m \in Ids |-> IF job[m].owner = w THEN [job[m] EXCEPT !.owner = Nobody] ELSE job[m]]
  /\ UNCHANGED <<message, refused, deleted, received, processed, taken, emitted>>

-----------------------------------------------------------------------------
(* The provider                                                               *)

\* What the provider may report after its last report.
Follows(last) ==
  CASE last = "none" -> {"accepted", "delayed", "delivered", "bounced", "failed", "unknown"}
    [] last \in {"accepted", "delayed"} -> {"delayed", "delivered", "bounced"}
    [] last = "delivered" -> {"bounced", "complained"}
    [] last = "bounced" -> {"complained"}
    [] OTHER -> {}

Emit(m, t, status) ==
  /\ taken[m] > 0
  /\ Idempotent
  /\ emitted[m][t] = "none"
  /\ \A s \in Times : s < t => emitted[m][s] # "none"
  /\ status \in Follows(IF t = 1 THEN "none" ELSE emitted[m][t - 1])
  /\ emitted' = [emitted EXCEPT ![m][t] = status]
  /\ UNCHANGED <<message, job, refused, deleted, received, processed, worker, taken, faults>>

\* PostgresNotifications.receive: events come in any order; the provider id is known only
\* once submitted.  A second copy changes nothing.
Receive(m, t) ==
  /\ emitted[m][t] # "none"
  /\ t \notin received[m]
  /\ received' = [received EXCEPT ![m] = @ \cup {t}]
  /\ IF message[m].known
     THEN /\ message' = [message EXCEPT ![m] =
                           Reconciled(m, @, (received[m] \cup {t}) \ processed[m])]
          /\ processed' = [processed EXCEPT ![m] = received[m] \cup {t}]
     ELSE UNCHANGED <<message, processed>>
  /\ UNCHANGED <<job, refused, deleted, worker, taken, emitted, faults>>

-----------------------------------------------------------------------------
WorkerStep(w) ==
  \/ Decide(w) \/ Answer(w) \/ Reject(w) \/ Submitted(w) \/ Ack(w) \/ FailJob(w) \/ FailMessage(w)

FaultStep(w) ==
  \/ SendFails(w) \/ DatabaseFails(w) \/ RecordingFails(w) \/ Crash(w)

Next ==
  \/ \E m \in Ids, why \in {"no", "requester", "resource"} : ChangeContext(m, why)
  \/ DeleteWedding
  \/ \E m, child \in Ids : Retry(m, child)
  \/ \E w \in Workers, m \in Ids : Lease(w, m)
  \/ \E w \in Workers : WorkerStep(w) \/ FaultStep(w)
  \/ \E m \in Ids : Expire(m)
  \/ \E m \in Ids, t \in Times, status \in Statuses : Emit(m, t, status)
  \/ \E m \in Ids, t \in Times : Receive(m, t)

Spec == Init /\ [][Next]_vars

\* The worker's loop goes on as long as its process runs (main.ts:21) and time passes;
\* owners and the provider owe nothing.
Fairness ==
  /\ \A w \in Workers : WF_vars(WorkerStep(w))
  /\ WF_vars(\E w \in Workers, m \in Ids : Lease(w, m))
  /\ \A m \in Ids : WF_vars(Expire(m))

FairSpec == Spec /\ Fairness

-----------------------------------------------------------------------------
(* Properties                                                                 *)

\* jobs.ts:15: "Expired leases must not resend an uncertain effect".  A provider without
\* idempotency keys takes no message on twice.  True as long as one thing goes wrong; a
\* failure recorded after the lease was lost puts 'failed' over a successor's intent, and
\* with one more fault the message is sent again.
SentOnce == ~Idempotent => \A m \in Ids : taken[m] <= 1

\* A job counts as done only when the provider has answered for its message.
DoneWasAnswered ==
  \A m \in Ids : job[m].state = "succeeded" => taken[m] > 0 \/ message[m].known

\* raven-relay.md: "Bounce/complaint outcomes remain authoritative despite late delivery
\* events".  What the provider has reported decides the state, in whatever order the
\* reports came, before or after the acknowledgement of the submission.
Reported(m, status) == \E t \in processed[m] : emitted[m][t] = status
LastReport(m) == emitted[m][CHOOSE t \in processed[m] : \A s \in processed[m] : s <= t]
ReportsDecide ==
  \A m \in Ids :
    /\ Reported(m, "complained") => message[m].state = "complained"
    /\ Reported(m, "bounced") => message[m].state \in {"bounced", "complained"}
    /\ Reported(m, "delivered") => message[m].state \in Final
    /\ message[m].state \in {"accepted", "delayed"} /\ processed[m] # {}
         => message[m].state = LastReport(m)

\* ADR 015: "terminal bounce/complaint outcomes cannot be overwritten by a submission
\* error", nor by the acknowledgement of a second submission.
FinalIsKept ==
  [][\A m \in Ids :
       /\ message[m].state \in Final => message'[m].state \in Final
       /\ message[m].state = "complained" => message'[m].state = "complained"]_vars

\* Every queued e-mail ends: sent, failed, cancelled, or set aside for review, whatever
\* crashes, stalls or fails a bounded number of times.
Ended == {"succeeded", "failed", "cancelled", "unknown_external"}
EmailEnds == \A m \in Ids : job[m].state = "pending" ~> job[m].state \in Ended
=============================================================================
