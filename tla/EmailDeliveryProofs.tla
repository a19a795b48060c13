------------------------ MODULE EmailDeliveryProofs ------------------------
(***************************************************************************)
(* What the provider reported decides the state of an e-mail, a job counts *)
(* as done only when the provider answered, and a provider without         *)
(* idempotency keys takes no message on twice while one thing goes wrong:  *)
(* for every number of workers, messages, retries and delivery events.     *)
(*                                                                         *)
(* The events of a message are applied by a function on the naturals.      *)
(* What it does is proved by going to the smallest number of events for    *)
(* which it would be false: the naturals are well ordered.                 *)
(***************************************************************************)
EXTENDS EmailDelivery, Integers, WellFoundedInduction, TLAPS

States  == {"absent", "queued", "provider_queued"} \cup Statuses
Rows    == [state: States, known: BOOLEAN, at: Times \cup {0}, retryOf: Ids \cup {0}]
Jobs    == [state: {"absent", "pending", "leased", "succeeded", "failed", "cancelled", "unknown_external"},
            owner: Workers \cup {Nobody}, attempts: Nat, expired: BOOLEAN]
Phases  == {"leased", "sending", "sent", "acking", "failing", "failed"}
Results == {"none", "queued", "suppressed", "definite", "retryable", "uncertain"}
Tasks   == [phase: Phases, id: Ids, attempts: Nat, result: Results]
Places  == {Idle} \cup Tasks
Emissions == [Times -> Statuses \cup {"none"}]

TypeOK ==
  /\ message \in [Ids -> Rows]
  /\ job \in [Ids -> Jobs]
  /\ refused \in [Ids -> {"no", "requester", "resource"}]
  /\ deleted \in BOOLEAN
  /\ received \in [Ids -> SUBSET Times]
  /\ processed \in [Ids -> SUBSET Times]
  /\ worker \in [Workers -> Places]
  /\ taken \in [Ids -> 0..2]
  /\ emitted \in [Ids -> Emissions]
  /\ faults \in Nat

LEMMA Numbers == MaxAttempts \in Nat /\ MaxMessages \in Nat /\ MaxEvents \in Nat /\ MaxFaults \in Nat
                 /\ Idempotent \in BOOLEAN /\ 1 \in Ids
  BY NumbersAssumption DEF Ids

LEMMA TimesArePositive == \A t \in Times : t \in Int /\ t > 0 /\ t <= MaxEvents
  BY Numbers DEF Times

-----------------------------------------------------------------------------
(* What one report does                                                       *)

\* A provider reports in order, and nothing but a bounce or a complaint after a final outcome.
Ordered(e) ==
  \A s, t \in Times :
    s < t /\ e[t] # "none" => e[s] # "none" /\ (e[s] \in Final => e[t] \in {"bounced", "complained"})

\* The row has what the reports of P say.
Agrees(row, P, e) ==
  /\ row.at # 0 => row.at \in P
  /\ P # {} => row.at # 0
  /\ row.state \in Final => row.at # 0
  /\ row.state \notin Final => \A t \in P : t <= row.at /\ e[t] \notin Final
  /\ row.state \in {"accepted", "delayed"} /\ row.at # 0 => e[row.at] = row.state
  /\ (\E t \in P : e[t] = "complained") => row.state = "complained"
  /\ (\E t \in P : e[t] = "bounced") => row.state \in {"bounced", "complained"}

\* From one row to another nothing final is lost.
Keeps(old, new) ==
  /\ old.state \in Final => new.state \in Final
  /\ old.state = "complained" => new.state = "complained"
  /\ old.state # "absent" => new.state # "absent"
  /\ new.known = old.known

LEMMA AfterKeeps ==
  ASSUME NEW row \in Rows, NEW P \in SUBSET Times, NEW e \in Emissions, NEW t \in Times,
         Agrees(row, P, e), Ordered(e), e[t] # "none", \A s \in P : e[s] # "none"
  PROVE  /\ After(row, e[t], t) \in Rows
         /\ Agrees(After(row, e[t], t), P \cup {t}, e)
         /\ Keeps(row, After(row, e[t], t))
<1> DEFINE new == After(row, e[t], t)
           status == e[t]
           sticky == row.state \in {"bounced", "complained"}
           newer  == row.at = 0 \/ t >= row.at
           takes  == \/ /\ ~sticky
                        /\ \/ status \in {"bounced", "complained"}
                           \/ newer /\ (row.state # "delivered" \/ status = "delivered")
                     \/ row.state = "bounced" /\ status = "complained"
<1>1. new = IF takes THEN [row EXCEPT !.state = status, !.at = t] ELSE row
  BY DEF After
<1>2. status \in Statuses /\ t \in Int /\ t # 0 /\ (\A s \in P : s \in Int /\ s # 0)
  BY TimesArePositive DEF Emissions
<1>3. /\ row.state \in States /\ row.known \in BOOLEAN /\ row.at \in Times \cup {0}
      /\ row.at \in Int
  BY TimesArePositive DEF Rows
<1>4. ASSUME takes
      PROVE  new \in Rows /\ Agrees(new, P \cup {t}, e) /\ Keeps(row, new)
  <2>1. /\ new \in Rows /\ new.state = status /\ new.at = t /\ new.known = row.known
    BY <1>1, <1>2, <1>4 DEF Rows, States
  <2>2. Keeps(row, new)
    BY <1>2, <1>4, <2>1 DEF Keeps, Statuses, Final
  <2>3. ASSUME status \notin Final
        PROVE  \A s \in P : s <= t /\ e[s] \notin Final
    <3>1. row.state \notin Final /\ newer
      BY <1>4, <2>3 DEF Final
    <3> QED
      BY <1>2, <1>3, <3>1 DEF Agrees
  <2>4. ASSUME NEW s \in P \cup {t}, e[s] = "complained"
        PROVE  status = "complained"
    <3>1. CASE s \in P
      <4>1. row.state = "complained"
        BY <2>4, <3>1 DEF Agrees
      <4> QED
        BY <1>4, <4>1
    <3>2. CASE s = t
      BY <2>4, <3>2
    <3> QED
      BY <3>1, <3>2
  <2>5. ASSUME NEW s \in P \cup {t}, e[s] = "bounced"
        PROVE  status \in {"bounced", "complained"}
    <3>1. CASE s \in P
      <4>1. row.state \in {"bounced", "complained"}
        BY <2>5, <3>1 DEF Agrees
      <4> QED
        BY <1>4, <4>1
    <3>2. CASE s = t
      BY <2>5, <3>2
    <3> QED
      BY <3>1, <3>2
  <2>6. Agrees(new, P \cup {t}, e)
    BY <1>2, <2>1, <2>3, <2>4, <2>5 DEF Agrees
  <2> QED
    BY <2>1, <2>2, <2>6
<1>5. ASSUME ~takes
      PROVE  new \in Rows /\ Agrees(new, P \cup {t}, e) /\ Keeps(row, new)
  <2>1. new = row
    BY <1>1, <1>5
  <2>2. row.at # 0
    BY <1>5 DEF Agrees, Final
  <2>3. ASSUME row.state \notin Final
        PROVE  t <= row.at /\ status \notin Final
    <3>1. ~newer /\ status \notin {"bounced", "complained"}
      BY <1>5, <2>3 DEF Final
    <3>2. t < row.at
      BY <1>2, <1>3, <3>1
    <3>3. row.at \in Times /\ e[row.at] # "none" /\ e[row.at] \notin Final
      BY <1>3, <2>2, <2>3 DEF Agrees
    <3>4. status \notin Final
      BY <3>1, <3>2, <3>3 DEF Ordered, Final
    <3> QED
      BY <1>2, <1>3, <3>2, <3>4
  <2>4. status = "complained" => row.state = "complained"
    BY <1>5
  <2>5. status = "bounced" => row.state \in {"bounced", "complained"}
    BY <1>5
  <2>6. Agrees(row, P \cup {t}, e)
    BY <2>2, <2>3, <2>4, <2>5 DEF Agrees
  <2> QED
    BY <2>1, <2>6 DEF Keeps
<1> QED
  BY <1>4, <1>5

-----------------------------------------------------------------------------
(* What all the reports that were not yet processed do                        *)

LEMMA LeastNumber ==
  ASSUME NEW T \in SUBSET Nat, T # {}
  PROVE  \E n \in T : \A k \in T : ~(k < n)
<1>1. PICK n \in T : \A k \in T : ~(<<k, n>> \in OpToRel(<, Nat))
  BY NatLessThanWellFounded, WFMin
<1> QED
  BY <1>1 DEF OpToRel

UpTo(h, row, events, e, N) ==
  h = [t \in 0..N |-> IF t = 0 THEN row
                      ELSE IF t \in events THEN After(h[t - 1], e[t], t) ELSE h[t - 1]]

LEMMA UpToExists ==
  ASSUME NEW row, NEW events, NEW e, NEW N \in Nat
  PROVE  \E h : UpTo(h, row, events, e, N)
<1> DEFINE Bad == {n \in Nat : ~ \E h : UpTo(h, row, events, e, n)}
<1>1. ASSUME Bad # {} PROVE FALSE
  <2>1. Bad \in SUBSET Nat
    OBVIOUS
  <2>2. PICK n \in Bad : \A k \in Bad : ~(k < n)
    <3> HIDE DEF Bad
    <3> QED
      BY <1>1, <2>1, LeastNumber
  <2>3. n \in Nat /\ ~ \E h : UpTo(h, row, events, e, n)
    OBVIOUS
  <2>4. n # 0
    <3>1. UpTo([t \in 0..0 |-> row], row, events, e, 0)
      BY DEF UpTo
    <3> QED
      BY <2>3, <3>1
  <2>5. PICK g : UpTo(g, row, events, e, n - 1)
    <3>1. n - 1 \in Nat /\ n - 1 < n
      BY <2>3, <2>4
    <3>2. n - 1 \notin Bad
      BY <2>2, <3>1
    <3> QED
      BY <3>1, <3>2
  <2> HIDE DEF Bad
  <2> DEFINE last == IF n \in events THEN After(g[n - 1], e[n], n) ELSE g[n - 1]
             h == [t \in 0..n |-> IF t = n THEN last ELSE g[t]]
  <2>6. \A t \in 0..(n - 1) : g[t] = IF t = 0 THEN row
                                      ELSE IF t \in events THEN After(g[t - 1], e[t], t) ELSE g[t - 1]
    BY <2>5 DEF UpTo
  <2>7. \A t \in 0..(n - 1) : h[t] = g[t]
    BY <2>3
  <2>8. h[n] = last
    BY <2>3
  <2>9. ASSUME NEW t \in 0..n
        PROVE  h[t] = IF t = 0 THEN row
                      ELSE IF t \in events THEN After(h[t - 1], e[t], t) ELSE h[t - 1]
    <3>1. CASE t = n
      <4>1. h[n - 1] = g[n - 1]
        BY <2>3, <2>4, <2>7
      <4> QED
        BY <2>4, <2>8, <3>1, <4>1
    <3>2. CASE t # n
      <4>1. t \in 0..(n - 1)
        BY <2>3, <3>2
      <4>2. t # 0 => t - 1 \in 0..(n - 1)
        BY <2>3, <4>1
      <4> HIDE DEF h
      <4> QED
        BY <2>6, <2>7, <4>1, <4>2
    <3> QED
      BY <3>1, <3>2
  <2>10. h = [t \in 0..n |-> IF t = 0 THEN row
                             ELSE IF t \in events THEN After(h[t - 1], e[t], t) ELSE h[t - 1]]
    <3>1. h = [t \in 0..n |-> h[t]]
      OBVIOUS
    <3> HIDE DEF h
    <3> QED
      BY <2>9, <3>1
  <2>11. UpTo(h, row, events, e, n)
    BY <2>10 DEF UpTo
  <2> QED
    BY <2>3, <2>11
<1> QED
  BY <1>1

LEMMA ReconciledIs ==
  ASSUME NEW m, NEW row, NEW events
  PROVE  \E h : UpTo(h, row, events, emitted[m], MaxEvents) /\ Reconciled(m, row, events) = h[MaxEvents]
<1> DEFINE h == CHOOSE h : UpTo(h, row, events, emitted[m], MaxEvents)
<1>1. UpTo(h, row, events, emitted[m], MaxEvents)
  BY UpToExists, Numbers
<1>2. Reconciled(m, row, events) = h[MaxEvents]
  BY DEF Reconciled, UpTo
<1> QED
  BY <1>1, <1>2

LEMMA ReconcileKeeps ==
  ASSUME NEW m, NEW row \in Rows, NEW P \in SUBSET Times, NEW events \in SUBSET Times,
         emitted[m] \in Emissions, Agrees(row, P, emitted[m]), Ordered(emitted[m]),
         \A t \in P \cup events : emitted[m][t] # "none"
  PROVE  /\ Reconciled(m, row, events) \in Rows
         /\ Agrees(Reconciled(m, row, events), P \cup events, emitted[m])
         /\ Keeps(row, Reconciled(m, row, events))
<1> DEFINE e == emitted[m]
           Seen(n) == P \cup {t \in events : t <= n}
           Good(r, n) == r \in Rows /\ Agrees(r, Seen(n), e) /\ Keeps(row, r)
<1>1. PICK h : UpTo(h, row, events, e, MaxEvents) /\ Reconciled(m, row, events) = h[MaxEvents]
  BY ReconciledIs
<1>2. \A t \in 0..MaxEvents : h[t] = IF t = 0 THEN row
                                     ELSE IF t \in events THEN After(h[t - 1], e[t], t) ELSE h[t - 1]
  BY <1>1 DEF UpTo
<1>3. Seen(0) = P /\ Seen(MaxEvents) = P \cup events
  BY TimesArePositive
<1>4. Good(row, 0)
  BY <1>3 DEF Keeps
<1> DEFINE Bad == {n \in 0..MaxEvents : ~Good(h[n], n)}
<1>5. ASSUME Bad # {} PROVE FALSE
  <2>1. Bad \in SUBSET Nat
    BY Numbers
  <2>2. PICK n \in Bad : \A k \in Bad : ~(k < n)
    <3> HIDE DEF Bad
    <3> QED
      BY <1>5, <2>1, LeastNumber
  <2>3. n \in 0..MaxEvents /\ n \in Nat /\ ~Good(h[n], n)
    BY Numbers
  <2>4. n # 0
    <3>1. h[0] = row
      BY <1>2, Numbers
    <3> HIDE DEF Good
    <3> QED
      BY <1>4, <2>3, <3>1
  <2>5. n - 1 \in 0..MaxEvents /\ n - 1 < n
    BY <2>3, <2>4, Numbers
  <2>6. Good(h[n - 1], n - 1)
    <3>1. n - 1 \notin Bad
      BY <2>2, <2>5
    <3> HIDE DEF Good
    <3> QED
      BY <2>5, <3>1
  <2>7. CASE n \in events
    <3>1. h[n] = After(h[n - 1], e[n], n)
      BY <1>2, <2>3, <2>4, <2>7
    <3>2. Seen(n) = Seen(n - 1) \cup {n}
      <4> HIDE DEF Bad, Good
      <4>1. \A t \in events : t <= n <=> t <= n - 1 \/ t = n
        BY <2>3, TimesArePositive
      <4> QED
        BY <2>7, <4>1
    <3>3. Seen(n - 1) \in SUBSET Times /\ n \in Times /\ e[n] # "none" /\ \A s \in Seen(n - 1) : e[s] # "none"
      BY <2>7
    <3> HIDE DEF Seen, e
    <3>4. /\ After(h[n - 1], e[n], n) \in Rows
          /\ Agrees(After(h[n - 1], e[n], n), Seen(n - 1) \cup {n}, e)
          /\ Keeps(h[n - 1], After(h[n - 1], e[n], n))
      BY <2>6, <3>3, AfterKeeps DEF e
    <3>5. Keeps(row, h[n])
      BY <2>6, <3>1, <3>4 DEF Keeps
    <3> QED
      BY <2>3, <3>1, <3>2, <3>4, <3>5
  <2>8. CASE n \notin events
    <3>1. h[n] = h[n - 1]
      BY <1>2, <2>3, <2>4, <2>8
    <3>2. Seen(n) = Seen(n - 1)
      BY <2>3, <2>8, TimesArePositive
    <3> HIDE DEF Seen
    <3> QED
      BY <2>3, <2>6, <3>1, <3>2
  <2> QED
    BY <2>7, <2>8
<1>6. Good(h[MaxEvents], MaxEvents)
  <2>1. MaxEvents \in 0..MaxEvents
    BY Numbers
  <2> HIDE DEF Good
  <2> QED
    BY <1>5, <2>1
<1> QED
  BY <1>1, <1>3, <1>6

\* Without new reports the row stays.
LEMMA ReconcileNothing ==
  ASSUME NEW m, NEW row
  PROVE  Reconciled(m, row, {}) = row
<1>1. PICK h : UpTo(h, row, {}, emitted[m], MaxEvents) /\ Reconciled(m, row, {}) = h[MaxEvents]
  BY ReconciledIs
<1>2. \A t \in 0..MaxEvents : h[t] = IF t = 0 THEN row ELSE h[t - 1]
  BY <1>1 DEF UpTo
<1> DEFINE Bad == {n \in 0..MaxEvents : h[n] # row}
<1>3. ASSUME Bad # {} PROVE FALSE
  <2>1. Bad \in SUBSET Nat
    BY Numbers
  <2> HIDE DEF Bad
  <2>2. PICK n \in Bad : \A k \in Bad : ~(k < n)
    BY <1>3, <2>1, LeastNumber
  <2>3. n \in 0..MaxEvents /\ h[n] # row
    BY DEF Bad
  <2>4. n # 0 /\ n - 1 \in 0..MaxEvents /\ n - 1 < n
    BY <1>2, <2>3, Numbers
  <2>5. h[n - 1] = row
    BY <2>2, <2>4 DEF Bad
  <2> QED
    BY <1>2, <2>3, <2>4, <2>5
<1>4. h[MaxEvents] = row
  BY <1>3, Numbers
<1> QED
  BY <1>1, <1>4

-----------------------------------------------------------------------------
(* What the actions do                                                        *)

Busy(w)  == worker[w].phase # "idle"
On(w, m) == Busy(w) /\ worker[w].id = m

WorkerGoes(w, phase, result) ==
  /\ worker' \in [Workers -> Places]
  /\ \A v \in Workers \ {w} : worker'[v] = worker[v]
  /\ worker'[w].phase = phase /\ worker'[w].result = result /\ worker'[w].id = worker[w].id

WorkerRests(w) ==
  /\ worker' \in [Workers -> Places]
  /\ \A v \in Workers \ {w} : worker'[v] = worker[v]
  /\ worker'[w].phase = "idle"

LEMMA PlacesDiffer ==
  /\ Idle \in Places /\ Idle.phase = "idle"
  /\ \A p \in Places : p.phase # "idle" => p \in Tasks
  /\ \A p \in Tasks : p \in Places /\ p.phase \in Phases /\ p.id \in Ids /\ p.result \in Results /\ p.attempts \in Nat
                      /\ p.phase # "idle"
<1>1. Idle \in Places /\ Idle.phase = "idle"
  BY DEF Idle, Places
<1>2. \A p \in Tasks : p \in Places /\ p.phase \in Phases /\ p.id \in Ids /\ p.result \in Results /\ p.attempts \in Nat
                       /\ p.phase # "idle"
  BY DEF Tasks, Places, Phases
<1> QED
  BY <1>1, <1>2 DEF Places

LEMMA BusyHasTask ==
  ASSUME TypeOK, NEW w \in Workers, Busy(w)
  PROVE  /\ worker[w] \in Tasks /\ worker[w].id \in Ids /\ worker[w].phase \in Phases
         /\ worker[w].result \in Results /\ worker[w].attempts \in Nat
  BY PlacesDiffer DEF TypeOK, Busy

LEMMA BecomesGoes ==
  ASSUME TypeOK, NEW w \in Workers, Busy(w), NEW phase \in Phases, NEW result \in Results,
         Becomes(w, phase, result)
  PROVE  WorkerGoes(w, phase, result)
<1> DEFINE new == [worker[w] EXCEPT !.phase = phase, !.result = result]
<1>1. worker[w] \in Tasks
  BY BusyHasTask
<1>2. new \in Tasks /\ new.phase = phase /\ new.result = result /\ new.id = worker[w].id
  BY <1>1 DEF Tasks
<1>3. worker' = [worker EXCEPT ![w] = new]
  BY DEF Becomes
<1> HIDE DEF new
<1> QED
  BY <1>2, <1>3, PlacesDiffer DEF TypeOK, WorkerGoes

LEMMA RestsOK ==
  ASSUME TypeOK, NEW w \in Workers, worker' = [worker EXCEPT ![w] = Idle]
  PROVE  WorkerRests(w)
  BY PlacesDiffer DEF TypeOK, WorkerRests

\* The row of one message changes.
RowBecomes(m, new) ==
  /\ message' \in [Ids -> Rows]
  /\ \A n \in Ids \ {m} : message'[n] = message[n]
  /\ message'[m] = new

StateBecomes(m, state) ==
  /\ message' \in [Ids -> Rows]
  /\ \A n \in Ids \ {m} : message'[n] = message[n]
  /\ message'[m].state = state /\ message'[m].known = message[m].known /\ message'[m].at = message[m].at

LEMMA RowMoves ==
  ASSUME TypeOK, NEW m \in Ids, NEW new \in Rows, message' = [message EXCEPT ![m] = new]
  PROVE  RowBecomes(m, new)
  BY DEF TypeOK, RowBecomes

LEMMA StateMoves ==
  ASSUME TypeOK, NEW m \in Ids, NEW state \in States, message' = [message EXCEPT ![m].state = state]
  PROVE  StateBecomes(m, state)
<1> DEFINE new == [message[m] EXCEPT !.state = state]
<1>1. message[m] \in Rows
  BY DEF TypeOK
<1>2. new \in Rows /\ new.state = state /\ new.known = message[m].known /\ new.at = message[m].at
  BY <1>1 DEF Rows
<1>3. message' = [message EXCEPT ![m] = new]
  OBVIOUS
<1> HIDE DEF new
<1> QED
  BY <1>2, <1>3 DEF TypeOK, StateBecomes

\* The job of one message changes.
JobBecomes(m, state, owner, expired) ==
  /\ job' \in [Ids -> Jobs]
  /\ \A n \in Ids \ {m} : job'[n] = job[n]
  /\ job'[m].state = state /\ job'[m].owner = owner /\ job'[m].expired = expired

LEMMA JobMoves ==
  ASSUME TypeOK, NEW m \in Ids, NEW new \in Jobs, job' = [job EXCEPT ![m] = new]
  PROVE  JobBecomes(m, new.state, new.owner, new.expired)
  BY DEF TypeOK, JobBecomes

Ends == {"pending", "succeeded", "failed", "unknown_external"}

LEMMA EndsJobEffect ==
  ASSUME TypeOK, NEW w \in Workers, NEW m \in Ids, NEW state \in Ends, EndsJob(w, m, state)
  PROVE  \/ Holds(w, m) /\ JobBecomes(m, state, job[m].owner, job[m].expired)
         \/ ~Holds(w, m) /\ job' = job
<1> DEFINE new == [job[m] EXCEPT !.state = state]
<1>1. job[m] \in Jobs
  BY DEF TypeOK
<1>2. new \in Jobs /\ new.state = state /\ new.owner = job[m].owner /\ new.expired = job[m].expired
  BY <1>1 DEF Jobs, Ends
<1>3. CASE Holds(w, m)
  <2>1. job' = [job EXCEPT ![m] = new]
    BY <1>3 DEF EndsJob
  <2> HIDE DEF new
  <2> QED
    BY <1>2, <1>3, <2>1, JobMoves
<1>4. CASE ~Holds(w, m)
  BY <1>4 DEF EndsJob
<1> QED
  BY <1>3, <1>4

LEMMA StartRows == (\A m \in Ids \cup {0} : Queued(m) \in Rows) /\ Absent \in Rows
  BY DEF Queued, Absent, Rows, States

LEMMA StartJobs == /\ NoJob \in Jobs /\ NoJob.state = "absent" /\ NoJob.owner = Nobody /\ NoJob.expired = FALSE
                   /\ Pending \in Jobs /\ Pending.state = "pending" /\ Pending.owner = Nobody /\ Pending.expired = FALSE
<1>1. NoJob \in Jobs /\ NoJob.state = "absent" /\ NoJob.owner = Nobody /\ NoJob.expired = FALSE
  BY DEF NoJob, Jobs
<1>2. /\ Pending \in Jobs /\ Pending.state = "pending"
      /\ Pending.owner = NoJob.owner /\ Pending.expired = NoJob.expired
  BY <1>1 DEF Pending, Jobs
<1> QED
  BY <1>1, <1>2

Live(m) == job[m].state \in {"pending", "leased"}

LEMMA DeleteEffect ==
  ASSUME TypeOK, DeleteWedding
  PROVE  /\ TypeOK' /\ deleted'
         /\ \A m \in Ids : IF Live(m) THEN job'[m].state = "cancelled" ELSE job'[m] = job[m]
         /\ UNCHANGED <<message, refused, received, processed, worker, taken, emitted, faults>>
<1>1. ASSUME NEW m \in Ids
      PROVE  /\ job'[m] \in Jobs
             /\ IF Live(m) THEN job'[m].state = "cancelled" ELSE job'[m] = job[m]
  <2>1. job[m] \in Jobs
    BY DEF TypeOK
  <2>2. job'[m] = IF Live(m) THEN [job[m] EXCEPT !.state = "cancelled"] ELSE job[m]
    BY DEF DeleteWedding, Live
  <2> QED
    BY <2>1, <2>2 DEF Jobs
<1>2. job' \in [Ids -> Jobs]
  <2>1. job' = [m \in Ids |-> job'[m]]
    BY DEF DeleteWedding
  <2> QED
    BY <1>1, <2>1
<1> QED
  BY <1>1, <1>2 DEF DeleteWedding, TypeOK

LEMMA RetryEffect ==
  ASSUME TypeOK, NEW m \in Ids, NEW child \in Ids, Retry(m, child)
  PROVE  /\ TypeOK' /\ ~deleted /\ message[child].state = "absent"
         /\ RowBecomes(child, Queued(m)) /\ JobBecomes(child, "pending", Nobody, FALSE)
         /\ UNCHANGED <<refused, deleted, received, processed, worker, taken, emitted, faults>>
<1>1. RowBecomes(child, Queued(m))
  BY StartRows, RowMoves DEF Retry
<1>2. JobBecomes(child, "pending", Nobody, FALSE)
  BY StartJobs, JobMoves DEF Retry
<1> QED
  BY <1>1, <1>2 DEF Retry, TypeOK, RowBecomes, JobBecomes

Leasable(m) == job[m].state = "pending" \/ (job[m].state = "leased" /\ job[m].expired)

LEMMA LeaseEffect ==
  ASSUME TypeOK, NEW w \in Workers, NEW m \in Ids, Lease(w, m)
  PROVE  /\ TypeOK' /\ ~Busy(w) /\ Leasable(m)
         /\ JobBecomes(m, "leased", w, FALSE)
         /\ \A v \in Workers \ {w} : worker'[v] = worker[v]
         /\ worker'[w].phase = "leased" /\ worker'[w].id = m /\ worker'[w].result = "none"
         /\ UNCHANGED <<message, refused, deleted, received, processed, taken, emitted, faults>>
<1> DEFINE n == NextAttempt(job[m].attempts)
           row == [state |-> "leased", owner |-> w, attempts |-> n, expired |-> FALSE]
           task == [phase |-> "leased", id |-> m, attempts |-> n, result |-> "none"]
<1>1. n \in Nat
  BY Numbers DEF TypeOK, Jobs, NextAttempt
<1>2. job' = [job EXCEPT ![m] = row] /\ worker' = [worker EXCEPT ![w] = task]
  BY DEF Lease
<1> HIDE DEF n
<1>3. row \in Jobs /\ row.state = "leased" /\ row.owner = w /\ row.expired = FALSE
  BY <1>1 DEF Jobs
<1>4. task \in Tasks /\ task.phase = "leased" /\ task.id = m /\ task.result = "none"
  BY <1>1 DEF Tasks, Phases, Results
<1> HIDE DEF row, task
<1>5. JobBecomes(m, "leased", w, FALSE)
  BY <1>2, <1>3, JobMoves
<1>6. /\ worker' \in [Workers -> Places]
      /\ \A v \in Workers \ {w} : worker'[v] = worker[v]
      /\ worker'[w] = task
  BY <1>2, <1>4, PlacesDiffer DEF TypeOK
<1> QED
  BY <1>4, <1>5, <1>6 DEF Lease, Leasable, Busy, TypeOK, JobBecomes

LEMMA ExpireEffect ==
  ASSUME TypeOK, NEW m \in Ids, Expire(m)
  PROVE  /\ TypeOK' /\ job[m].state = "leased" /\ ~job[m].expired
         /\ JobBecomes(m, "leased", job[m].owner, TRUE)
         /\ \/ faults < MaxFaults /\ faults' = faults + 1
            \/ faults' = faults /\ \A w \in Workers : ~(job[m].owner = w /\ worker[w].id = m)
         /\ UNCHANGED <<message, refused, deleted, received, processed, worker, taken, emitted>>
<1> DEFINE new == [job[m] EXCEPT !.expired = TRUE]
<1>1. job[m] \in Jobs
  BY DEF TypeOK
<1>2. new \in Jobs /\ new.state = job[m].state /\ new.owner = job[m].owner /\ new.expired = TRUE
  BY <1>1 DEF Jobs
<1>3. job' = [job EXCEPT ![m] = new] /\ job[m].state = "leased" /\ ~job[m].expired
  BY DEF Expire
<1> HIDE DEF new
<1>4. JobBecomes(m, "leased", job[m].owner, TRUE)
  BY <1>2, <1>3, JobMoves
<1>5. \/ faults < MaxFaults /\ faults' = faults + 1
      \/ faults' = faults /\ \A w \in Workers : ~(job[m].owner = w /\ worker[w].id = m)
  BY DEF Expire, Fault
<1>6. faults' \in Nat
  BY <1>5 DEF TypeOK
<1> QED
  BY <1>3, <1>4, <1>5, <1>6 DEF Expire, TypeOK, JobBecomes

\* Every worker step is of a worker that is busy with a message.
StepOf(w) == /\ Busy(w) /\ worker[w].id \in Ids
             /\ UNCHANGED <<refused, deleted, received, emitted>>

LEMMA DecideEffect ==
  ASSUME TypeOK, NEW w \in Workers, Decide(w)
  PROVE  LET m == worker[w].id IN
         /\ TypeOK' /\ StepOf(w) /\ worker[w].phase = "leased"
         /\ \/ Skips(w, m) /\ WorkerGoes(w, "acking", "none") /\ message' = message
            \/ ~Skips(w, m) /\ Uncertain(m) /\ WorkerGoes(w, "failing", "uncertain") /\ message' = message
            \/ ~Skips(w, m) /\ ~Uncertain(m) /\ WorkerGoes(w, "failing", "definite") /\ message' = message
            \/ ~Skips(w, m) /\ ~Uncertain(m) /\ WorkerGoes(w, "sending", "none") /\ StateBecomes(m, "unknown")
         /\ UNCHANGED <<job, processed, taken, faults>>
<1> DEFINE m == worker[w].id
<1>1. worker[w].phase = "leased" /\ Busy(w)
  BY DEF Decide, Busy
<1>2. m \in Ids
  BY <1>1, BusyHasTask
<1>3. UNCHANGED <<job, refused, deleted, received, processed, taken, emitted, faults>>
  BY DEF Decide
<1>4. \/ Skips(w, m) /\ Becomes(w, "acking", "none") /\ message' = message
      \/ ~Skips(w, m) /\ Uncertain(m) /\ Becomes(w, "failing", "uncertain") /\ message' = message
      \/ ~Skips(w, m) /\ ~Uncertain(m) /\ Becomes(w, "failing", "definite") /\ message' = message
      \/ ~Skips(w, m) /\ ~Uncertain(m) /\ Becomes(w, "sending", "none")
         /\ message' = [message EXCEPT ![m].state = "unknown"]
  BY DEF Decide
<1>5. "unknown" \in States /\ {"acking", "failing", "sending"} \subseteq Phases
      /\ {"none", "uncertain", "definite"} \subseteq Results
  BY DEF States, Statuses, Phases, Results
<1>6. \/ Skips(w, m) /\ WorkerGoes(w, "acking", "none") /\ message' = message
      \/ ~Skips(w, m) /\ Uncertain(m) /\ WorkerGoes(w, "failing", "uncertain") /\ message' = message
      \/ ~Skips(w, m) /\ ~Uncertain(m) /\ WorkerGoes(w, "failing", "definite") /\ message' = message
      \/ ~Skips(w, m) /\ ~Uncertain(m) /\ WorkerGoes(w, "sending", "none") /\ StateBecomes(m, "unknown")
  BY <1>1, <1>2, <1>4, <1>5, BecomesGoes, StateMoves
<1>7. TypeOK'
  BY <1>3, <1>6 DEF TypeOK, WorkerGoes, StateBecomes
<1> QED
  BY <1>1, <1>2, <1>3, <1>6, <1>7 DEF StepOf

TakenOn(m) ==
  /\ taken' \in [Ids -> 0..2]
  /\ \A n \in Ids \ {m} : taken'[n] = taken[n]
  /\ taken'[m] > 0
  /\ ~Idempotent /\ taken[m] = 0 => taken'[m] = 1

LEMMA TakeOnEffect ==
  ASSUME TypeOK, NEW m \in Ids, TakeOn(m)
  PROVE  TakenOn(m)
<1> DEFINE n == IF Idempotent THEN 1 ELSE IF taken[m] < 2 THEN taken[m] + 1 ELSE 2
<1>1. taken[m] \in 0..2
  BY DEF TypeOK
<1>2. n \in 0..2 /\ n > 0 /\ (~Idempotent /\ taken[m] = 0 => n = 1)
  BY <1>1
<1>3. taken' = [taken EXCEPT ![m] = n]
  BY DEF TakeOn
<1> HIDE DEF n
<1> QED
  BY <1>2, <1>3 DEF TypeOK, TakenOn

LEMMA AnswerEffect ==
  ASSUME TypeOK, NEW w \in Workers, Answer(w)
  PROVE  LET m == worker[w].id IN
         /\ TypeOK' /\ StepOf(w) /\ worker[w].phase = "sending"
         /\ \/ TakenOn(m) /\ WorkerGoes(w, "sent", "queued")
            \/ Idempotent /\ taken' = taken /\ WorkerGoes(w, "sent", "suppressed")
         /\ UNCHANGED <<message, job, processed, faults>>
<1> DEFINE m == worker[w].id
<1>1. worker[w].phase = "sending" /\ Busy(w)
  BY DEF Answer, Busy
<1>2. m \in Ids
  BY <1>1, BusyHasTask
<1>3. UNCHANGED <<message, job, refused, deleted, received, processed, emitted, faults>>
  BY DEF Answer
<1>4. \/ TakeOn(m) /\ Becomes(w, "sent", "queued")
      \/ Idempotent /\ taken' = taken /\ Becomes(w, "sent", "suppressed")
  BY DEF Answer
<1>5. "sent" \in Phases /\ {"queued", "suppressed"} \subseteq Results
  BY DEF Phases, Results
<1>6. \/ TakenOn(m) /\ WorkerGoes(w, "sent", "queued")
      \/ Idempotent /\ taken' = taken /\ WorkerGoes(w, "sent", "suppressed")
  BY <1>1, <1>2, <1>4, <1>5, BecomesGoes, TakeOnEffect
<1>7. TypeOK'
  BY <1>3, <1>6 DEF TypeOK, WorkerGoes, TakenOn
<1> QED
  BY <1>1, <1>2, <1>3, <1>6, <1>7 DEF StepOf

LEMMA RejectEffect ==
  ASSUME TypeOK, NEW w \in Workers, Reject(w)
  PROVE  /\ TypeOK' /\ StepOf(w) /\ worker[w].phase = "sending"
         /\ WorkerGoes(w, "failing", "definite")
         /\ UNCHANGED <<message, job, processed, taken, faults>>
<1>1. worker[w].phase = "sending" /\ Busy(w)
  BY DEF Reject, Busy
<1>2. worker[w].id \in Ids
  BY <1>1, BusyHasTask
<1>3. "failing" \in Phases /\ "definite" \in Results
  BY DEF Phases, Results
<1>4. WorkerGoes(w, "failing", "definite")
  BY <1>1, <1>3, BecomesGoes DEF Reject
<1>5. TypeOK'
  BY <1>4 DEF Reject, TypeOK, WorkerGoes
<1> QED
  BY <1>1, <1>2, <1>4, <1>5 DEF StepOf, Reject

Faulted == faults < MaxFaults /\ faults' = faults + 1 /\ faults' \in Nat

LEMMA FaultEffect == TypeOK /\ Fault => Faulted
  BY DEF TypeOK, Fault, Faulted

LEMMA SendFailsEffect ==
  ASSUME TypeOK, NEW w \in Workers, SendFails(w)
  PROVE  LET m == worker[w].id IN
         /\ TypeOK' /\ StepOf(w) /\ worker[w].phase = "sending" /\ Faulted
         /\ WorkerGoes(w, "failing", IF Idempotent THEN "retryable" ELSE "uncertain")
         /\ TakenOn(m) \/ taken' = taken
         /\ UNCHANGED <<message, job, processed>>
<1> DEFINE m == worker[w].id
           result == IF Idempotent THEN "retryable" ELSE "uncertain"
<1>1. worker[w].phase = "sending" /\ Busy(w) /\ Faulted
  BY FaultEffect DEF SendFails, Busy
<1>2. m \in Ids
  BY <1>1, BusyHasTask
<1>3. "failing" \in Phases /\ result \in Results
  BY DEF Phases, Results
<1>4. Becomes(w, "failing", result)
  BY DEF SendFails
<1> HIDE DEF result
<1>5. WorkerGoes(w, "failing", result)
  BY <1>1, <1>3, <1>4, BecomesGoes
<1>6. TakenOn(m) \/ taken' = taken
  BY <1>2, TakeOnEffect DEF SendFails
<1>7. UNCHANGED <<message, job, refused, deleted, received, processed, emitted>>
  BY DEF SendFails
<1>8. TypeOK'
  BY <1>1, <1>5, <1>6, <1>7 DEF TypeOK, WorkerGoes, TakenOn, Faulted
<1> QED
  BY <1>1, <1>2, <1>5, <1>6, <1>7, <1>8 DEF StepOf, result

LEMMA AckEffect ==
  ASSUME TypeOK, NEW w \in Workers, Ack(w)
  PROVE  LET m == worker[w].id IN
         /\ TypeOK' /\ StepOf(w) /\ worker[w].phase = "acking" /\ WorkerRests(w)
         /\ \/ Holds(w, m) /\ JobBecomes(m, "succeeded", job[m].owner, job[m].expired)
            \/ ~Holds(w, m) /\ job' = job
         /\ UNCHANGED <<message, processed, taken, faults>>
<1> DEFINE m == worker[w].id
<1>1. worker[w].phase = "acking" /\ Busy(w)
  BY DEF Ack, Busy
<1>2. m \in Ids
  BY <1>1, BusyHasTask
<1>3. WorkerRests(w)
  BY RestsOK DEF Ack
<1>4. \/ Holds(w, m) /\ JobBecomes(m, "succeeded", job[m].owner, job[m].expired)
      \/ ~Holds(w, m) /\ job' = job
  BY <1>2, EndsJobEffect DEF Ack, Ends
<1>5. UNCHANGED <<message, refused, deleted, received, processed, taken, emitted, faults>>
  BY DEF Ack
<1>6. TypeOK'
  BY <1>3, <1>4, <1>5 DEF TypeOK, WorkerRests, JobBecomes
<1> QED
  BY <1>1, <1>2, <1>3, <1>4, <1>5, <1>6 DEF StepOf

LEMMA DatabaseFailsEffect ==
  ASSUME TypeOK, NEW w \in Workers, DatabaseFails(w)
  PROVE  /\ TypeOK' /\ StepOf(w) /\ worker[w].phase \in {"leased", "sent", "acking"} /\ Faulted
         /\ WorkerGoes(w, "failing", "definite")
         /\ UNCHANGED <<message, job, processed, taken>>
<1>1. worker[w].phase \in {"leased", "sent", "acking"} /\ Busy(w) /\ Faulted
  BY FaultEffect DEF DatabaseFails, Busy
<1>2. worker[w].id \in Ids
  BY <1>1, BusyHasTask
<1>3. "failing" \in Phases /\ "definite" \in Results
  BY DEF Phases, Results
<1>4. WorkerGoes(w, "failing", "definite")
  BY <1>1, <1>3, BecomesGoes DEF DatabaseFails
<1>5. TypeOK'
  BY <1>1, <1>4 DEF DatabaseFails, TypeOK, WorkerGoes, Faulted
<1> QED
  BY <1>1, <1>2, <1>4, <1>5 DEF StepOf, DatabaseFails

LEMMA FailJobEffect ==
  ASSUME TypeOK, NEW w \in Workers, FailJob(w)
  PROVE  LET m == worker[w].id IN
         /\ TypeOK' /\ StepOf(w) /\ worker[w].phase = "failing"
         /\ WorkerGoes(w, "failed", worker[w].result)
         /\ \/ /\ Holds(w, m)
               /\ \E state \in Ends \ {"succeeded"} :
                    /\ JobBecomes(m, state, job[m].owner, job[m].expired)
                    /\ state = "pending" => worker[w].result = "retryable"
            \/ ~Holds(w, m) /\ job' = job
         /\ UNCHANGED <<message, processed, taken, faults>>
<1> DEFINE m == worker[w].id
           state == FailedState(w)
<1>1. worker[w].phase = "failing" /\ Busy(w)
  BY DEF FailJob, Busy
<1>2. m \in Ids /\ worker[w].result \in Results
  BY <1>1, BusyHasTask
<1>3. state \in Ends \ {"succeeded"} /\ (state = "pending" => worker[w].result = "retryable")
  BY DEF FailedState, Ends
<1>4. EndsJob(w, m, state) /\ Becomes(w, "failed", worker[w].result)
  BY DEF FailJob
<1>5. "failed" \in Phases
  BY DEF Phases
<1> HIDE DEF state
<1>6. WorkerGoes(w, "failed", worker[w].result)
  BY <1>1, <1>2, <1>4, <1>5, BecomesGoes
<1>7. \/ Holds(w, m) /\ JobBecomes(m, state, job[m].owner, job[m].expired)
      \/ ~Holds(w, m) /\ job' = job
  BY <1>2, <1>3, <1>4, EndsJobEffect
<1>8. UNCHANGED <<message, refused, deleted, received, processed, taken, emitted, faults>>
  BY DEF FailJob
<1>9. TypeOK'
  BY <1>6, <1>7, <1>8 DEF TypeOK, WorkerGoes, JobBecomes
<1> QED
  BY <1>1, <1>2, <1>3, <1>6, <1>7, <1>8, <1>9 DEF StepOf

LEMMA FailMessageEffect ==
  ASSUME TypeOK, NEW w \in Workers, FailMessage(w)
  PROVE  LET m == worker[w].id IN
         /\ TypeOK' /\ StepOf(w) /\ worker[w].phase = "failed" /\ WorkerRests(w)
         /\ \/ message' = message
            \/ message[m].state \notin Final /\ worker[w].result # "definite" /\ StateBecomes(m, "unknown")
            \/ message[m].state \notin Final /\ worker[w].result = "definite" /\ StateBecomes(m, "failed")
         /\ UNCHANGED <<job, processed, taken, faults>>
<1> DEFINE m == worker[w].id
<1>1. worker[w].phase = "failed" /\ Busy(w)
  BY DEF FailMessage, Busy
<1>2. m \in Ids
  BY <1>1, BusyHasTask
<1>3. WorkerRests(w)
  BY RestsOK DEF FailMessage
<1>4. {"failed", "unknown"} \subseteq States
  BY DEF States, Statuses
<1>5. \/ message' = message
      \/ message[m].state \notin Final /\ worker[w].result # "definite"
         /\ message' = [message EXCEPT ![m].state = "unknown"]
      \/ message[m].state \notin Final /\ worker[w].result = "definite"
         /\ message' = [message EXCEPT ![m].state = "failed"]
  BY DEF FailMessage, Overwrites
<1>6. \/ message' = message
      \/ message[m].state \notin Final /\ worker[w].result # "definite" /\ StateBecomes(m, "unknown")
      \/ message[m].state \notin Final /\ worker[w].result = "definite" /\ StateBecomes(m, "failed")
  BY <1>2, <1>4, <1>5, StateMoves
<1>7. UNCHANGED <<job, refused, deleted, received, processed, taken, emitted, faults>>
  BY DEF FailMessage
<1>8. TypeOK'
  BY <1>3, <1>6, <1>7 DEF TypeOK, WorkerRests, StateBecomes
<1> QED
  BY <1>1, <1>2, <1>3, <1>6, <1>7, <1>8 DEF StepOf

LEMMA RecordingFailsEffect ==
  ASSUME TypeOK, NEW w \in Workers, RecordingFails(w)
  PROVE  /\ TypeOK' /\ StepOf(w) /\ worker[w].phase \in {"failing", "failed"} /\ Faulted /\ WorkerRests(w)
         /\ UNCHANGED <<message, job, processed, taken>>
<1>1. worker[w].phase \in {"failing", "failed"} /\ Busy(w) /\ Faulted
  BY FaultEffect DEF RecordingFails, Busy
<1>2. worker[w].id \in Ids
  BY <1>1, BusyHasTask
<1>3. WorkerRests(w)
  BY RestsOK DEF RecordingFails
<1>4. TypeOK'
  BY <1>1, <1>3 DEF RecordingFails, TypeOK, WorkerRests, Faulted
<1> QED
  BY <1>1, <1>2, <1>3, <1>4 DEF StepOf, RecordingFails

LEMMA CrashEffect ==
  ASSUME TypeOK, NEW w \in Workers, Crash(w)
  PROVE  /\ TypeOK' /\ StepOf(w) /\ Faulted /\ WorkerRests(w)
         /\ \A m \in Ids : /\ job'[m].state = job[m].state /\ job'[m].expired = job[m].expired
                           /\ job'[m].owner = IF job[m].owner = w THEN Nobody ELSE job[m].owner
         /\ UNCHANGED <<message, processed, taken>>
<1>1. Busy(w) /\ Faulted
  BY FaultEffect DEF Crash, Busy
<1>2. worker[w].id \in Ids
  BY <1>1, BusyHasTask
<1>3. WorkerRests(w)
  BY RestsOK DEF Crash
<1>4. ASSUME NEW m \in Ids
      PROVE  /\ job'[m] \in Jobs /\ job'[m].state = job[m].state /\ job'[m].expired = job[m].expired
             /\ job'[m].owner = IF job[m].owner = w THEN Nobody ELSE job[m].owner
  <2>1. job[m] \in Jobs
    BY DEF TypeOK
  <2>2. job'[m] = IF job[m].owner = w THEN [job[m] EXCEPT !.owner = Nobody] ELSE job[m]
    BY DEF Crash
  <2> QED
    BY <2>1, <2>2 DEF Jobs
<1>5. job' \in [Ids -> Jobs]
  <2>1. job' = [m \in Ids |-> job'[m]]
    BY DEF Crash
  <2> QED
    BY <1>4, <2>1
<1>6. TypeOK'
  BY <1>1, <1>3, <1>5 DEF Crash, TypeOK, WorkerRests, Faulted
<1> QED
  BY <1>1, <1>2, <1>3, <1>4, <1>6 DEF StepOf, Crash

LEMMA EmitEffect ==
  ASSUME TypeOK, NEW m \in Ids, NEW t \in Times, NEW status \in Statuses, Emit(m, t, status)
  PROVE  /\ TypeOK' /\ Idempotent
         /\ emitted[m][t] = "none" /\ emitted'[m][t] = status
         /\ \A s \in Times \ {t} : emitted'[m][s] = emitted[m][s]
         /\ \A n \in Ids \ {m} : emitted'[n] = emitted[n]
         /\ \A s \in Times : s < t => emitted[m][s] # "none"
         /\ status \in Follows(IF t = 1 THEN "none" ELSE emitted[m][t - 1])
         /\ UNCHANGED <<message, job, refused, deleted, received, processed, worker, taken, faults>>
<1> DEFINE new == [emitted[m] EXCEPT ![t] = status]
<1>1. emitted[m] \in Emissions
  BY DEF TypeOK
<1>2. /\ new \in Emissions /\ new[t] = status
      /\ \A s \in Times \ {t} : new[s] = emitted[m][s]
  BY <1>1 DEF Emissions
<1>3. emitted' = [emitted EXCEPT ![m] = new]
  BY DEF Emit
<1> HIDE DEF new
<1>4. /\ emitted' \in [Ids -> Emissions] /\ emitted'[m] = new
      /\ \A n \in Ids \ {m} : emitted'[n] = emitted[n]
  BY <1>2, <1>3 DEF TypeOK
<1> QED
  BY <1>2, <1>4 DEF Emit, TypeOK

-----------------------------------------------------------------------------
(* The reports and the row                                                    *)

Reports(m) ==
  /\ Ordered(emitted[m]) /\ Agrees(message[m], processed[m], emitted[m])
  /\ processed[m] \subseteq received[m] /\ \A t \in received[m] : emitted[m][t] # "none"
  /\ message[m].at # 0 => message[m].known
  /\ message[m].state \in Reached => message[m].known
  /\ message[m].state = "absent" => ~message[m].known

ReportsOK == \A m \in Ids : Reports(m)

LEMMA FinalIsReached == Final \subseteq Reached /\ "absent" \notin Reached /\ {"absent", "queued", "unknown", "failed"} \cap Final = {}
  BY DEF Final, Reached

Accords(row, P, e) ==
  /\ row \in Rows /\ Agrees(row, P, e)
  /\ row.at # 0 => row.known
  /\ row.state = "absent" => ~row.known

\* The row of a message whose submission is acknowledged.
Acks(row, new, result, P, e) ==
  /\ new \in Rows /\ new.known /\ new.state # "absent" /\ Agrees(new, P, e)
  /\ row.state \in Final => new.state \in Final
  /\ row.state = "complained" => new.state = "complained"
  /\ ~Idempotent /\ result # "suppressed" /\ P = {} => new.state = "accepted"

LEMMA AcknowledgedOK ==
  ASSUME NEW row, NEW P, NEW e, NEW result, Accords(row, P, e)
  PROVE  Acks(row, Acknowledged(row, result), result, P, e)
<1> DEFINE new == Acknowledged(row, result)
<1>0. row \in Rows /\ Agrees(row, P, e) /\ (row.at # 0 => row.known) /\ (row.state = "absent" => ~row.known)
  BY DEF Accords
<1>1. ASSUME row.at = 0
      PROVE  /\ new \in Rows /\ new.known /\ new.at = 0 /\ new.state \in {"failed", "provider_queued", "accepted"}
             /\ ~Idempotent /\ result # "suppressed" => new.state = "accepted"
  <2>1. new = [row EXCEPT !.known = TRUE, !.state = IF result = "suppressed" THEN "failed"
                                                    ELSE IF Idempotent THEN "provider_queued" ELSE "accepted"]
    BY <1>1 DEF Acknowledged
  <2> QED
    BY <1>0, <1>1, <2>1 DEF Rows, States, Statuses
<1>2. row.at # 0 => new = row
  BY DEF Acknowledged
<1> HIDE DEF new
<1>3. CASE row.at = 0
  <2>1. row.state \notin Final /\ P = {}
    BY <1>0, <1>3 DEF Agrees
  <2>2. Agrees(new, P, e)
    BY <1>1, <1>3, <2>1 DEF Agrees, Final
  <2>3. Acks(row, new, result, P, e)
    BY <1>1, <1>3, <2>1, <2>2 DEF Acks, Final
  <2> QED
    BY <2>3 DEF new
<1>4. CASE row.at # 0
  <2>1. new = row /\ P # {} /\ row.known /\ row.state # "absent"
    BY <1>0, <1>2, <1>4 DEF Agrees
  <2>2. Acks(row, new, result, P, e)
    BY <1>0, <2>1 DEF Acks
  <2> QED
    BY <2>2 DEF new
<1> QED
  BY <1>3, <1>4

LEMMA SubmittedEffect ==
  ASSUME TypeOK, ReportsOK, NEW w \in Workers, Submitted(w)
  PROVE  LET m == worker[w].id IN
         /\ TypeOK' /\ StepOf(w) /\ worker[w].phase = "sent" /\ WorkerGoes(w, "acking", "none")
         /\ \A n \in Ids \ {m} : message'[n] = message[n] /\ processed'[n] = processed[n]
         /\ processed'[m] = received[m] /\ Agrees(message'[m], received[m], emitted[m])
         /\ message'[m].known /\ message'[m].state # "absent"
         /\ message[m].state \in Final => message'[m].state \in Final
         /\ message[m].state = "complained" => message'[m].state = "complained"
         /\ ~Idempotent /\ worker[w].result # "suppressed" /\ received[m] = {} => message'[m].state = "accepted"
         /\ UNCHANGED <<job, taken, faults>>
<1> DEFINE m == worker[w].id
           row == Acknowledged(message[m], worker[w].result)
           events == received[m] \ processed[m]
           new == Reconciled(m, row, events)
<1>1. worker[w].phase = "sent" /\ Busy(w)
  BY DEF Submitted, Busy
<1>2. m \in Ids
  BY <1>1, BusyHasTask
<1>3. WorkerGoes(w, "acking", "none")
  <2>1. "acking" \in Phases /\ "none" \in Results
    BY DEF Phases, Results
  <2> QED
    BY <1>1, <2>1, BecomesGoes DEF Submitted
<1>4. /\ message[m] \in Rows /\ emitted[m] \in Emissions
      /\ processed[m] \in SUBSET Times /\ received[m] \in SUBSET Times /\ Reports(m)
  BY <1>2 DEF TypeOK, ReportsOK
<1>5. /\ row \in Rows /\ row.known /\ row.state # "absent" /\ Agrees(row, processed[m], emitted[m])
      /\ message[m].state \in Final => row.state \in Final
      /\ message[m].state = "complained" => row.state = "complained"
      /\ ~Idempotent /\ worker[w].result # "suppressed" /\ processed[m] = {} => row.state = "accepted"
  <2>1. Accords(message[m], processed[m], emitted[m])
    BY <1>4 DEF Reports, Accords
  <2>2. Acks(message[m], row, worker[w].result, processed[m], emitted[m])
    BY <2>1, AcknowledgedOK
  <2> QED
    BY <2>2 DEF Acks
<1>6. message' = [message EXCEPT ![m] = new] /\ processed' = [processed EXCEPT ![m] = received[m]]
      /\ UNCHANGED <<job, refused, deleted, received, taken, emitted, faults>>
  BY DEF Submitted
<1> HIDE DEF row
<1>7. new \in Rows /\ Agrees(new, processed[m] \cup events, emitted[m]) /\ Keeps(row, new)
  <2>1. \A t \in processed[m] \cup events : emitted[m][t] # "none"
    BY <1>4 DEF Reports
  <2>2. events \in SUBSET Times /\ Ordered(emitted[m])
    BY <1>4 DEF Reports
  <2> QED
    BY <1>4, <1>5, <2>1, <2>2, ReconcileKeeps
<1>8. received[m] = {} => new = row /\ processed[m] = {}
  <2>1. received[m] = {} => events = {} /\ processed[m] = {}
    BY <1>4 DEF Reports
  <2> QED
    BY <2>1, ReconcileNothing
<1>9. processed[m] \cup events = received[m]
  BY <1>4 DEF Reports
<1> HIDE DEF new, events
<1>10. RowBecomes(m, new) /\ processed' \in [Ids -> SUBSET Times] /\ processed'[m] = received[m]
       /\ \A n \in Ids \ {m} : processed'[n] = processed[n]
  BY <1>2, <1>4, <1>6, <1>7, RowMoves DEF TypeOK
<1>11. TypeOK'
  BY <1>3, <1>6, <1>10 DEF TypeOK, WorkerGoes, RowBecomes
<1>12. /\ new.known /\ new.state # "absent" /\ Agrees(new, received[m], emitted[m])
       /\ message[m].state \in Final => new.state \in Final
       /\ message[m].state = "complained" => new.state = "complained"
       /\ ~Idempotent /\ worker[w].result # "suppressed" /\ received[m] = {} => new.state = "accepted"
  BY <1>5, <1>7, <1>8, <1>9 DEF Keeps
<1> QED
  BY <1>1, <1>2, <1>3, <1>6, <1>10, <1>11, <1>12 DEF StepOf, RowBecomes

LEMMA ReceiveEffect ==
  ASSUME TypeOK, ReportsOK, NEW m \in Ids, NEW t \in Times, Receive(m, t)
  PROVE  /\ TypeOK' /\ emitted[m][t] # "none" /\ received'[m] = received[m] \cup {t}
         /\ \A n \in Ids \ {m} : /\ message'[n] = message[n] /\ processed'[n] = processed[n]
                                 /\ received'[n] = received[n]
         /\ \/ ~message[m].known /\ UNCHANGED <<message, processed>>
            \/ /\ message[m].known /\ processed'[m] = received'[m] /\ Keeps(message[m], message'[m])
               /\ Agrees(message'[m], received'[m], emitted[m])
         /\ UNCHANGED <<job, refused, deleted, worker, taken, emitted, faults>>
<1> DEFINE all == received[m] \cup {t}
           events == all \ processed[m]
           new == Reconciled(m, message[m], events)
<1>1. emitted[m][t] # "none" /\ received' = [received EXCEPT ![m] = all]
      /\ UNCHANGED <<job, refused, deleted, worker, taken, emitted, faults>>
  BY DEF Receive
<1>2. /\ message[m] \in Rows /\ emitted[m] \in Emissions
      /\ processed[m] \in SUBSET Times /\ all \in SUBSET Times /\ Reports(m)
  BY DEF TypeOK, ReportsOK
<1>3. /\ received' \in [Ids -> SUBSET Times] /\ received'[m] = all
      /\ \A n \in Ids \ {m} : received'[n] = received[n]
  BY <1>1, <1>2 DEF TypeOK
<1>4. CASE ~message[m].known
  <2>1. UNCHANGED <<message, processed>>
    BY <1>4 DEF Receive
  <2> QED
    BY <1>1, <1>3, <1>4, <2>1 DEF TypeOK
<1>5. CASE message[m].known
  <2>1. message' = [message EXCEPT ![m] = new] /\ processed' = [processed EXCEPT ![m] = all]
    BY <1>5 DEF Receive
  <2>2. \A s \in processed[m] \cup events : emitted[m][s] # "none"
    BY <1>1, <1>2 DEF Reports
  <2>3. events \in SUBSET Times /\ Ordered(emitted[m]) /\ Agrees(message[m], processed[m], emitted[m])
    BY <1>2 DEF Reports
  <2>4. new \in Rows /\ Agrees(new, processed[m] \cup events, emitted[m]) /\ Keeps(message[m], new)
    BY <1>2, <2>2, <2>3, ReconcileKeeps
  <2>5. processed[m] \cup events = all
    BY <1>2 DEF Reports
  <2> HIDE DEF new, events
  <2>6. RowBecomes(m, new) /\ processed' \in [Ids -> SUBSET Times] /\ processed'[m] = all
        /\ \A n \in Ids \ {m} : processed'[n] = processed[n]
    BY <1>2, <2>1, <2>4, RowMoves DEF TypeOK
  <2>7. TypeOK'
    BY <1>1, <1>3, <2>6 DEF TypeOK, RowBecomes
  <2> HIDE DEF all
  <2> QED
    BY <1>1, <1>3, <1>5, <2>4, <2>5, <2>6, <2>7 DEF RowBecomes, all
<1> QED
  BY <1>4, <1>5

-----------------------------------------------------------------------------
(* Every step                                                                 *)

QuietStep(w) == \/ Answer(w) \/ Reject(w) \/ Ack(w) \/ FailJob(w)
                \/ SendFails(w) \/ DatabaseFails(w) \/ RecordingFails(w) \/ Crash(w)

\* The steps, with the types of what they choose.
LEMMA Steps ==
  ASSUME [Next]_vars
  PROVE  \/ \E m \in Ids, why \in {"no", "requester", "resource"} : ChangeContext(m, why)
         \/ DeleteWedding
         \/ \E m \in Ids : \E child \in Ids : Retry(m, child)
         \/ \E w \in Workers : \E m \in Ids : Lease(w, m)
         \/ \E w \in Workers : QuietStep(w) \/ Decide(w) \/ Submitted(w) \/ FailMessage(w)
         \/ \E m \in Ids : Expire(m)
         \/ \E m \in Ids : \E t \in Times : \E status \in Statuses : Emit(m, t, status)
         \/ \E m \in Ids : \E t \in Times : Receive(m, t)
         \/ UNCHANGED vars
<1>1. CASE UNCHANGED vars
  BY <1>1
<1>2. CASE Next
  BY <1>2 DEF Next, WorkerStep, FaultStep, QuietStep
<1> QED
  BY <1>1, <1>2

LEMMA ContextEffect ==
  ASSUME TypeOK, NEW m \in Ids, NEW why \in {"no", "requester", "resource"}, ChangeContext(m, why)
  PROVE  TypeOK' /\ UNCHANGED <<message, job, deleted, received, processed, worker, taken, emitted, faults>>
  BY DEF ChangeContext, TypeOK

LEMMA QuietEffect ==
  ASSUME TypeOK, NEW w \in Workers, QuietStep(w)
  PROVE  TypeOK' /\ UNCHANGED <<message, received, processed, emitted>>
<1>1. TypeOK'
  BY AnswerEffect, RejectEffect, AckEffect, FailJobEffect, SendFailsEffect, DatabaseFailsEffect,
     RecordingFailsEffect, CrashEffect DEF QuietStep
<1>2. UNCHANGED <<message, received, processed, emitted>>
  BY DEF QuietStep, Answer, Reject, Ack, FailJob, SendFails, DatabaseFails, RecordingFails, Crash
<1> QED
  BY <1>1, <1>2

LEMMA TypeInit == Init => TypeOK
<1> SUFFICES ASSUME Init PROVE TypeOK
  OBVIOUS
<1>1. message \in [Ids -> Rows] /\ job \in [Ids -> Jobs]
  BY StartRows, StartJobs DEF Init
<1>2. worker \in [Workers -> Places]
  BY PlacesDiffer DEF Init
<1>3. emitted \in [Ids -> Emissions]
  BY DEF Init, Emissions
<1>4. refused \in [Ids -> {"no", "requester", "resource"}] /\ deleted \in BOOLEAN
  BY DEF Init
<1>5. received \in [Ids -> SUBSET Times] /\ processed \in [Ids -> SUBSET Times]
  BY DEF Init
<1>6. taken \in [Ids -> 0..2] /\ faults \in Nat
  BY DEF Init
<1> QED
  BY <1>1, <1>2, <1>3, <1>4, <1>5, <1>6 DEF TypeOK

LEMMA TypeStep == TypeOK /\ ReportsOK /\ [Next]_vars => TypeOK'
<1> SUFFICES ASSUME TypeOK, ReportsOK, [Next]_vars PROVE TypeOK'
  OBVIOUS
<1>1. ASSUME NEW w \in Workers, QuietStep(w) \/ Decide(w) \/ Submitted(w) \/ FailMessage(w) PROVE TypeOK'
  BY <1>1, QuietEffect, DecideEffect, SubmittedEffect, FailMessageEffect
<1>2. CASE UNCHANGED vars
  BY <1>2 DEF vars, TypeOK
<1> QED
  BY <1>1, <1>2, Steps, ContextEffect, DeleteEffect, RetryEffect, LeaseEffect, ExpireEffect, EmitEffect, ReceiveEffect

LEMMA ReportsSame ==
  ASSUME NEW m \in Ids, Reports(m), message'[m] = message[m], processed'[m] = processed[m],
         received'[m] = received[m], emitted'[m] = emitted[m]
  PROVE  Reports(m)'
  BY DEF Reports

LEMMA ReportsStep ==
  ASSUME TypeOK, ReportsOK, [Next]_vars
  PROVE  ReportsOK'
<1> SUFFICES ASSUME NEW n \in Ids PROVE Reports(n)'
  BY DEF ReportsOK
<1>0. Reports(n) /\ message[n] \in Rows
  BY DEF ReportsOK, TypeOK
<1>1. ASSUME UNCHANGED <<message, received, processed, emitted>> PROVE Reports(n)'
  BY <1>0, <1>1, ReportsSame
<1>2. ASSUME NEW m \in Ids, NEW why \in {"no", "requester", "resource"}, ChangeContext(m, why) PROVE Reports(n)'
  BY <1>1, <1>2, ContextEffect
<1>3. CASE DeleteWedding
  BY <1>1, <1>3, DeleteEffect
<1>4. ASSUME NEW m \in Ids, NEW child \in Ids, Retry(m, child) PROVE Reports(n)'
  <2>1. /\ message[child].state = "absent" /\ RowBecomes(child, Queued(m))
        /\ UNCHANGED <<received, processed, emitted>>
    BY <1>4, RetryEffect
  <2>2. CASE n = child
    <3>1. message[n].at = 0 /\ processed[n] = {}
      BY <1>0, <2>1, <2>2 DEF Reports, Agrees
    <3>2. message'[n] = Queued(m)
      BY <2>1, <2>2 DEF RowBecomes
    <3>3. Agrees(message'[n], {}, emitted[n])
      BY <3>2 DEF Agrees, Queued, Final
    <3> QED
      BY <1>0, <2>1, <3>1, <3>2, <3>3 DEF Reports, Queued, Reached, Final
  <2>3. CASE n # child
    BY <1>0, <2>1, <2>3, ReportsSame DEF RowBecomes
  <2> QED
    BY <2>2, <2>3
<1>5. ASSUME NEW w \in Workers, NEW m \in Ids, Lease(w, m) PROVE Reports(n)'
  BY <1>1, <1>5, LeaseEffect
<1>6. ASSUME NEW w \in Workers, QuietStep(w) PROVE Reports(n)'
  BY <1>1, <1>6, QuietEffect
<1>7. ASSUME NEW m \in Ids, NEW state \in {"unknown", "failed"}, message[m].state \notin Final,
             m = n => message[m].state # "absent" \/ ~message[m].known,
             StateBecomes(m, state), UNCHANGED <<received, processed, emitted>>
      PROVE  Reports(n)'
  <2>1. CASE n = m
    <3>1. /\ message'[n].state = state /\ message'[n].known = message[n].known /\ message'[n].at = message[n].at
      BY <1>7, <2>1 DEF StateBecomes
    <3>2. Agrees(message'[n], processed[n], emitted[n])
      BY <1>0, <1>7, <2>1, <3>1 DEF Reports, Agrees, Final
    <3> QED
      BY <1>0, <1>7, <3>1, <3>2 DEF Reports, Reached, Final
  <2>2. CASE n # m
    BY <1>0, <1>7, <2>2, ReportsSame DEF StateBecomes
  <2> QED
    BY <2>1, <2>2
<1>8. ASSUME NEW w \in Workers, Decide(w) PROVE Reports(n)'
  <2>1. worker[w].id \in Ids /\ UNCHANGED <<received, processed, emitted>>
    BY <1>8, DecideEffect DEF StepOf
  <2>2. \/ UNCHANGED message
        \/ message[worker[w].id].state \notin Final /\ StateBecomes(worker[w].id, "unknown")
    BY <1>8, DecideEffect DEF Skips, Reached
  <2> QED
    BY <1>0, <1>1, <1>7, <2>1, <2>2 DEF Reports
<1>9. ASSUME NEW w \in Workers, FailMessage(w) PROVE Reports(n)'
  <2>1. worker[w].id \in Ids /\ UNCHANGED <<received, processed, emitted>>
    BY <1>9, FailMessageEffect DEF StepOf
  <2>2. \/ UNCHANGED message
        \/ /\ message[worker[w].id].state \notin Final
           /\ StateBecomes(worker[w].id, "unknown") \/ StateBecomes(worker[w].id, "failed")
    BY <1>9, FailMessageEffect
  <2> QED
    BY <1>0, <1>1, <1>7, <2>1, <2>2 DEF Reports
<1>10. ASSUME NEW w \in Workers, Submitted(w) PROVE Reports(n)'
  <2> DEFINE m == worker[w].id
  <2>1. /\ m \in Ids /\ UNCHANGED <<received, emitted>>
        /\ \A k \in Ids \ {m} : message'[k] = message[k] /\ processed'[k] = processed[k]
        /\ processed'[m] = received[m] /\ Agrees(message'[m], received[m], emitted[m])
        /\ message'[m].known /\ message'[m].state # "absent"
    BY <1>10, SubmittedEffect DEF StepOf
  <2>2. CASE n = m
    BY <1>0, <2>1, <2>2 DEF Reports
  <2>3. CASE n # m
    BY <1>0, <2>1, <2>3, ReportsSame
  <2> QED
    BY <2>2, <2>3
<1>11. ASSUME NEW m \in Ids, Expire(m) PROVE Reports(n)'
  BY <1>1, <1>11, ExpireEffect
<1>12. ASSUME NEW m \in Ids, NEW t \in Times, NEW status \in Statuses, Emit(m, t, status) PROVE Reports(n)'
  <2>1. /\ emitted[m][t] = "none" /\ emitted'[m][t] = status
        /\ \A s \in Times \ {t} : emitted'[m][s] = emitted[m][s]
        /\ \A k \in Ids \ {m} : emitted'[k] = emitted[k]
        /\ \A s \in Times : s < t => emitted[m][s] # "none"
        /\ status \in Follows(IF t = 1 THEN "none" ELSE emitted[m][t - 1])
        /\ UNCHANGED <<message, received, processed>>
    BY <1>12, EmitEffect
  <2>2. CASE n = m
    <3>1. \A s \in received[n] : emitted'[n][s] = emitted[n][s] /\ emitted'[n][s] # "none"
      <4>1. t \notin received[n] /\ received[n] \subseteq Times
        BY <1>0, <2>1, <2>2 DEF Reports, TypeOK
      <4> QED
        BY <1>0, <2>1, <2>2, <4>1 DEF Reports
    <3>2. Ordered(emitted[n])
      BY <1>0 DEF Reports
    <3>3. ASSUME NEW s \in Times, s < t, emitted'[n][s] \in Final
          PROVE  status \in {"bounced", "complained"}
      <4>1. s \in Int /\ t \in Int /\ t > 1 /\ t <= MaxEvents /\ t - 1 \in Times /\ t # 1
        BY <3>3, TimesArePositive, Numbers DEF Times
      <4>2. emitted[n][s] \in Final
        BY <2>1, <2>2, <3>3, <4>1
      <4>3. emitted[n][t - 1] \in Final
        <5>1. CASE s = t - 1
          BY <4>2, <5>1
        <5>2. CASE s # t - 1
          <6>1. s < t - 1 /\ emitted[n][t - 1] # "none"
            BY <2>1, <2>2, <3>3, <4>1, <5>2
          <6> QED
            BY <3>2, <4>1, <4>2, <6>1 DEF Ordered, Final
        <5> QED
          BY <5>1, <5>2
      <4>4. status \in Follows(emitted[n][t - 1])
        BY <2>1, <2>2, <4>1
      <4> QED
        BY <4>3, <4>4 DEF Follows, Final
    <3>4. Ordered(emitted'[n])
      <4> SUFFICES ASSUME NEW s \in Times, NEW u \in Times, s < u, emitted'[n][u] # "none"
                   PROVE  /\ emitted'[n][s] # "none"
                          /\ emitted'[n][s] \in Final => emitted'[n][u] \in {"bounced", "complained"}
        BY DEF Ordered
      <4>1. CASE u = t
        <5>1. s # t /\ emitted'[n][s] = emitted[n][s]
          BY <2>1, <2>2, <4>1, TimesArePositive
        <5> QED
          BY <2>1, <2>2, <3>3, <4>1, <5>1
      <4>2. CASE u # t /\ s = t
        <5>1. t < u /\ emitted[n][u] # "none" /\ t \in Int /\ u \in Int
          BY <2>1, <2>2, <4>2, TimesArePositive
        <5>2. FALSE
          BY <2>1, <2>2, <3>2, <5>1 DEF Ordered
        <5> QED
          BY <5>2
      <4>3. CASE u # t /\ s # t
        BY <2>1, <2>2, <3>2, <4>3 DEF Ordered
      <4> QED
        BY <4>1, <4>2, <4>3
    <3>5. Agrees(message[n], processed[n], emitted'[n])
      BY <1>0, <3>1 DEF Reports, Agrees
    <3> QED
      BY <1>0, <2>1, <3>1, <3>4, <3>5 DEF Reports
  <2>3. CASE n # m
    BY <1>0, <2>1, <2>3, ReportsSame
  <2> QED
    BY <2>2, <2>3
<1>13. ASSUME NEW m \in Ids, NEW t \in Times, Receive(m, t) PROVE Reports(n)'
  <2>1. /\ emitted[m][t] # "none" /\ received'[m] = received[m] \cup {t} /\ emitted' = emitted
        /\ \A k \in Ids \ {m} : message'[k] = message[k] /\ processed'[k] = processed[k] /\ received'[k] = received[k]
        /\ \/ ~message[m].known /\ UNCHANGED <<message, processed>>
           \/ /\ message[m].known /\ processed'[m] = received'[m] /\ Keeps(message[m], message'[m])
              /\ Agrees(message'[m], received'[m], emitted[m])
    BY <1>13, ReceiveEffect
  <2>2. CASE n = m
    <3>1. \A s \in received'[n] : emitted'[n][s] # "none"
      BY <1>0, <2>1, <2>2 DEF Reports
    <3> QED
      BY <1>0, <2>1, <2>2, <3>1 DEF Reports, Keeps
  <2>3. CASE n # m
    BY <1>0, <2>1, <2>3, ReportsSame
  <2> QED
    BY <2>2, <2>3
<1>14. CASE UNCHANGED vars
  BY <1>1, <1>14 DEF vars
<1> QED
  BY <1>2, <1>3, <1>4, <1>5, <1>6, <1>8, <1>9, <1>10, <1>11, <1>12, <1>13, <1>14, Steps

LEMMA ReportsInit == Init => ReportsOK
<1> SUFFICES ASSUME Init, NEW m \in Ids PROVE Reports(m)
  BY DEF ReportsOK
<1>1. processed[m] = {} /\ received[m] = {} /\ \A t \in Times : emitted[m][t] = "none"
  BY DEF Init
<1>2. message[m].at = 0 /\ ~message[m].known /\ message[m].state \in {"queued", "absent"}
  BY DEF Init, Queued, Absent
<1> QED
  BY <1>1, <1>2 DEF Reports, Agrees, Ordered, Final, Reached

Sound == TypeOK /\ ReportsOK

LEMMA SoundStep == Sound /\ [Next]_vars => Sound'
  BY TypeStep, ReportsStep DEF Sound

LEMMA SoundInit == Init => Sound
  BY TypeInit, ReportsInit DEF Sound

\* Every variable of the queue, its workers and the provider has its type, for every number
\* of workers, messages, attempts, events and faults.
THEOREM TypeCorrect == Spec => []TypeOK
<1>1. Sound => TypeOK
  BY DEF Sound
<1> QED
  BY <1>1, SoundInit, SoundStep, PTL DEF Spec

\* What the provider has reported decides the state of a message, in whatever order the
\* reports came, before or after the acknowledgement of the submission, whatever failed and
\* whoever retried: for every number of messages, workers and reports.
THEOREM ReportsAreAuthoritative == Spec => []ReportsDecide
<1>1. Sound => ReportsDecide
  <2> SUFFICES ASSUME Sound, NEW m \in Ids
               PROVE  /\ Reported(m, "complained") => message[m].state = "complained"
                      /\ Reported(m, "bounced") => message[m].state \in {"bounced", "complained"}
                      /\ Reported(m, "delivered") => message[m].state \in Final
                      /\ message[m].state \in {"accepted", "delayed"} /\ processed[m] # {}
                           => message[m].state = LastReport(m)
    BY DEF ReportsDecide
  <2>1. Agrees(message[m], processed[m], emitted[m]) /\ processed[m] \subseteq Times /\ message[m] \in Rows
    BY DEF Sound, TypeOK, ReportsOK, Reports
  <2>2. ASSUME message[m].state \in {"accepted", "delayed"}, processed[m] # {}
        PROVE  message[m].state = LastReport(m)
    <3> DEFINE at == message[m].at
    <3>1. message[m].state \notin Final
      BY <2>2 DEF Final
    <3>2. at \in processed[m] /\ (\A t \in processed[m] : t <= at) /\ emitted[m][at] = message[m].state
      BY <2>1, <2>2, <3>1 DEF Agrees
    <3>3. \A t, s \in processed[m] : t <= s /\ s <= t => t = s
      BY <2>1, TimesArePositive
    <3>4. (CHOOSE t \in processed[m] : \A s \in processed[m] : s <= t) = at
      BY <3>2, <3>3
    <3> QED
      BY <3>2, <3>4 DEF LastReport
  <2> QED
    BY <2>1, <2>2 DEF Reported, Agrees, Final
<1> QED
  BY <1>1, SoundInit, SoundStep, PTL DEF Spec

LEMMA FinalStep ==
  ASSUME Sound, [Next]_vars, NEW n \in Ids
  PROVE  /\ message[n].state \in Final => message'[n].state \in Final
         /\ message[n].state = "complained" => message'[n].state = "complained"
<1>0. TypeOK /\ ReportsOK
  BY DEF Sound
<1>1. ASSUME NEW m \in Ids, message[m].state \notin Final, \A k \in Ids \ {m} : message'[k] = message[k]
      PROVE  /\ message[n].state \in Final => message'[n].state \in Final
             /\ message[n].state = "complained" => message'[n].state = "complained"
  BY <1>1 DEF Final
<1>2. ASSUME NEW m \in Ids, NEW why \in {"no", "requester", "resource"}, ChangeContext(m, why) PROVE message' = message
  BY <1>0, <1>2, ContextEffect
<1>3. ASSUME NEW m \in Ids, NEW child \in Ids, Retry(m, child)
      PROVE  message[child].state \notin Final /\ \A k \in Ids \ {child} : message'[k] = message[k]
  BY <1>0, <1>3, RetryEffect, FinalIsReached DEF RowBecomes
<1>4. ASSUME NEW w \in Workers, Decide(w)
      PROVE  \/ message' = message
             \/ worker[w].id \in Ids /\ message[worker[w].id].state \notin Final
                /\ \A k \in Ids \ {worker[w].id} : message'[k] = message[k]
  BY <1>0, <1>4, DecideEffect DEF Skips, Reached, StepOf, StateBecomes
<1>5. ASSUME NEW w \in Workers, FailMessage(w)
      PROVE  \/ message' = message
             \/ worker[w].id \in Ids /\ message[worker[w].id].state \notin Final
                /\ \A k \in Ids \ {worker[w].id} : message'[k] = message[k]
  BY <1>0, <1>5, FailMessageEffect DEF StepOf, StateBecomes
<1>6. ASSUME NEW w \in Workers, Submitted(w)
      PROVE  /\ message[n].state \in Final => message'[n].state \in Final
             /\ message[n].state = "complained" => message'[n].state = "complained"
  BY <1>0, <1>6, SubmittedEffect
<1>7. ASSUME NEW m \in Ids, NEW t \in Times, Receive(m, t)
      PROVE  /\ message[n].state \in Final => message'[n].state \in Final
             /\ message[n].state = "complained" => message'[n].state = "complained"
  BY <1>0, <1>7, ReceiveEffect DEF Keeps
<1>8. ASSUME NEW w \in Workers, QuietStep(w) PROVE message' = message
  BY <1>0, <1>8, QuietEffect
<1>9. ASSUME NEW w \in Workers, QuietStep(w) \/ Decide(w) \/ Submitted(w) \/ FailMessage(w)
      PROVE  /\ message[n].state \in Final => message'[n].state \in Final
             /\ message[n].state = "complained" => message'[n].state = "complained"
  BY <1>1, <1>4, <1>5, <1>6, <1>8, <1>9
<1>10. CASE DeleteWedding \/ UNCHANGED vars
  BY <1>0, <1>10, DeleteEffect DEF vars
<1>11. ASSUME NEW w \in Workers, NEW m \in Ids, Lease(w, m) PROVE message' = message
  BY <1>0, <1>11, LeaseEffect
<1>12. ASSUME NEW m \in Ids, Expire(m) PROVE message' = message
  BY <1>0, <1>12, ExpireEffect
<1>13. ASSUME NEW m \in Ids, NEW t \in Times, NEW status \in Statuses, Emit(m, t, status) PROVE message' = message
  BY <1>0, <1>13, EmitEffect
<1>14. CASE \E m \in Ids : \E child \in Ids : Retry(m, child)
  BY <1>1, <1>3, <1>14
<1> QED
  BY <1>2, <1>7, <1>9, <1>10, <1>11, <1>12, <1>13, <1>14, Steps

\* A final outcome is never overwritten, a complaint by nothing at all: not by a submission
\* error of a worker that lost its lease, nor by a second submission or a late report.
THEOREM OutcomesAreKept == Spec => FinalIsKept
<1>1. Sound /\ [Next]_vars =>
        [\A m \in Ids : /\ message[m].state \in Final => message'[m].state \in Final
                        /\ message[m].state = "complained" => message'[m].state = "complained"]_vars
  BY FinalStep
<1> QED
  BY <1>1, SoundInit, SoundStep, PTL DEF Spec, FinalIsKept

-----------------------------------------------------------------------------
(* Jobs that are done                                                         *)

LEMMA KnownStays ==
  ASSUME Sound, [Next]_vars, NEW n \in Ids
  PROVE  /\ message[n].known => message'[n].known
         /\ message'[n].state = "absent" => message[n].state = "absent"
<1>0. TypeOK /\ ReportsOK /\ Reports(n)
  BY DEF Sound, ReportsOK
<1>1. ASSUME NEW m \in Ids, NEW child \in Ids, Retry(m, child)
      PROVE  /\ message[n].known => message'[n].known
             /\ message'[n].state = "absent" => message[n].state = "absent"
  <2>1. message[child].state = "absent" /\ RowBecomes(child, Queued(m))
    BY <1>0, <1>1, RetryEffect
  <2> QED
    BY <1>0, <2>1 DEF RowBecomes, Reports
<1>2. ASSUME NEW w \in Workers, Decide(w)
      PROVE  /\ message[n].known => message'[n].known
             /\ message'[n].state = "absent" => message[n].state = "absent"
  BY <1>0, <1>2, DecideEffect DEF StateBecomes
<1>3. ASSUME NEW w \in Workers, FailMessage(w)
      PROVE  /\ message[n].known => message'[n].known
             /\ message'[n].state = "absent" => message[n].state = "absent"
  BY <1>0, <1>3, FailMessageEffect DEF StateBecomes
<1>4. ASSUME NEW w \in Workers, Submitted(w)
      PROVE  /\ message[n].known => message'[n].known
             /\ message'[n].state = "absent" => message[n].state = "absent"
  BY <1>0, <1>4, SubmittedEffect
<1>5. ASSUME NEW m \in Ids, NEW t \in Times, Receive(m, t)
      PROVE  /\ message[n].known => message'[n].known
             /\ message'[n].state = "absent" => message[n].state = "absent"
  BY <1>0, <1>5, ReceiveEffect DEF Keeps
<1>6. ASSUME NEW w \in Workers, QuietStep(w) PROVE message' = message
  BY <1>0, <1>6, QuietEffect
<1>7. ASSUME NEW m \in Ids, NEW why \in {"no", "requester", "resource"}, ChangeContext(m, why) PROVE message' = message
  BY <1>0, <1>7, ContextEffect
<1>8. CASE DeleteWedding \/ UNCHANGED vars
  BY <1>0, <1>8, DeleteEffect DEF vars
<1>9. ASSUME NEW w \in Workers, NEW m \in Ids, Lease(w, m) PROVE message' = message
  BY <1>0, <1>9, LeaseEffect
<1>10. ASSUME NEW m \in Ids, Expire(m) PROVE message' = message
  BY <1>0, <1>10, ExpireEffect
<1>11. ASSUME NEW m \in Ids, NEW t \in Times, NEW status \in Statuses, Emit(m, t, status) PROVE message' = message
  BY <1>0, <1>11, EmitEffect
<1> QED
  BY <1>1, <1>2, <1>3, <1>4, <1>5, <1>6, <1>7, <1>8, <1>9, <1>10, <1>11, Steps

\* Nothing has happened to a retry that was not asked for; a job that is done, and one a
\* worker is about to acknowledge under its lease, has the provider's answer.
Done(m) ==
  /\ message[m].state = "absent" =>
       job[m].state = "absent" /\ taken[m] = 0 /\ \A w \in Workers : ~On(w, m)
  /\ job[m].state = "succeeded" => message[m].known
  /\ \A w \in Workers : On(w, m) /\ worker[w].phase = "acking" => ~Holds(w, m) \/ message[m].known
  /\ deleted => ~Live(m)

DoneOK == \A m \in Ids : Done(m)

\* What KnownStays says of one message.
Remembers(n) == /\ message[n].known => message'[n].known
                /\ message'[n].state = "absent" => message[n].state = "absent"

\* A worker goes on, but not to an acknowledgement, or ends its work on a job.
Leaves(w) ==
  /\ \A v \in Workers \ {w} : worker'[v] = worker[v]
  /\ worker'[w].phase = "idle" \/ (worker'[w].id = worker[w].id /\ worker'[w].phase # "acking")

LEMMA GoesLeaves ==
  ASSUME NEW w \in Workers, NEW phase, NEW result, phase # "acking", WorkerGoes(w, phase, result)
  PROVE  Leaves(w)
  BY DEF WorkerGoes, Leaves

LEMMA RestsLeaves == \A w \in Workers : WorkerRests(w) => Leaves(w)
  BY DEF WorkerRests, Leaves

LEMMA DoneKept ==
  ASSUME NEW n \in Ids, Done(n), Remembers(n), NEW w \in Workers, Busy(w), Leaves(w),
         job'[n].state = job[n].state,
         \A v \in Workers : Holds(v, n)' => Holds(v, n),
         deleted' = deleted,
         taken'[n] = taken[n] \/ worker[w].id = n
  PROVE  Done(n)'
<1>1. \A v \in Workers : On(v, n)' => On(v, n)
  BY DEF On, Busy, Leaves
<1>2. \A v \in Workers : On(v, n)' /\ worker'[v].phase = "acking" => worker[v].phase = "acking"
  BY DEF On, Busy, Leaves
<1>3. message'[n].state = "absent" => taken'[n] = 0 /\ job'[n].state = "absent" /\ \A v \in Workers : ~On(v, n)'
  BY <1>1 DEF Done, Remembers, On
<1> QED
  BY <1>1, <1>2, <1>3 DEF Done, Remembers, Live

\* The job of the message a worker is busy with ends, and the worker leaves it.
LEMMA DoneEnds ==
  ASSUME NEW n \in Ids, Done(n), Remembers(n), NEW w \in Workers, Busy(w), Leaves(w), worker[w].id = n,
         NEW state \in Ends, Holds(w, n), state = "succeeded" => message[n].known,
         job'[n].state = state, deleted' = deleted, taken' = taken
  PROVE  Done(n)'
<1>1. \A v \in Workers : On(v, n)' => On(v, n)
  BY DEF On, Busy, Leaves
<1>2. message[n].state # "absent" /\ ~deleted
  BY DEF Done, On, Holds, Live
<1>3. \A v \in Workers : ~Holds(v, n)'
  BY DEF Holds, Ends
<1> QED
  BY <1>1, <1>2, <1>3 DEF Done, Remembers, Ends

LEMMA DoneStep ==
  ASSUME Sound, DoneOK, [Next]_vars, NEW n \in Ids
  PROVE  Done(n)'
<1>0. TypeOK /\ ReportsOK /\ Reports(n) /\ Done(n) /\ Remembers(n)
  BY KnownStays DEF Sound, ReportsOK, DoneOK, Remembers
<1>1. ASSUME UNCHANGED <<job, deleted, worker, taken>> PROVE Done(n)'
  BY <1>0, <1>1 DEF Done, Remembers, On, Busy, Holds, Live
<1>2. ASSUME NEW m \in Ids, NEW why \in {"no", "requester", "resource"}, ChangeContext(m, why) PROVE Done(n)'
  BY <1>0, <1>1, <1>2, ContextEffect
<1>3. CASE DeleteWedding
  <2>1. /\ IF Live(n) THEN job'[n].state = "cancelled" ELSE job'[n] = job[n]
        /\ UNCHANGED <<worker, taken>>
    BY <1>0, <1>3, DeleteEffect
  <2>2. job'[n].state \notin {"pending", "leased"} /\ (job'[n].state = "succeeded" => job[n].state = "succeeded")
        /\ (job[n].state = "absent" => job'[n].state = "absent")
    BY <2>1 DEF Live
  <2> QED
    BY <1>0, <2>1, <2>2 DEF Done, Remembers, On, Busy, Holds, Live
<1>4. ASSUME NEW m \in Ids, NEW child \in Ids, Retry(m, child) PROVE Done(n)'
  <2>1. /\ ~deleted /\ message[child].state = "absent" /\ RowBecomes(child, Queued(m))
        /\ JobBecomes(child, "pending", Nobody, FALSE) /\ UNCHANGED <<deleted, worker, taken>>
    BY <1>0, <1>4, RetryEffect
  <2>2. CASE n = child
    BY <1>0, <2>1, <2>2 DEF Done, RowBecomes, JobBecomes, Queued, On, Busy
  <2>3. CASE n # child
    <3>1. job'[n] = job[n]
      BY <2>1, <2>3 DEF JobBecomes
    <3> QED
      BY <1>0, <2>1, <3>1 DEF Done, Remembers, On, Busy, Holds, Live
  <2> QED
    BY <2>2, <2>3
<1>5. ASSUME NEW w \in Workers, NEW m \in Ids, Lease(w, m) PROVE Done(n)'
  <2>1. /\ ~Busy(w) /\ Leasable(m) /\ JobBecomes(m, "leased", w, FALSE)
        /\ \A v \in Workers \ {w} : worker'[v] = worker[v]
        /\ worker'[w].phase = "leased" /\ worker'[w].id = m
        /\ UNCHANGED <<message, deleted, taken>>
    BY <1>0, <1>5, LeaseEffect
  <2>2. CASE n = m
    <3>1. message[n].state # "absent" /\ ~deleted
      BY <1>0, <2>1, <2>2 DEF Done, Leasable, Live
    <3>2. job'[n].state = "leased" /\ job'[n].owner = w
      BY <2>1, <2>2 DEF JobBecomes
    <3>3. \A v \in Workers : worker'[v].phase = "acking" => ~Holds(v, n)'
      BY <2>1, <3>2 DEF Holds
    <3> QED
      BY <2>1, <3>1, <3>2, <3>3 DEF Done
  <2>3. CASE n # m
    <3>1. job'[n] = job[n]
      BY <2>1, <2>3 DEF JobBecomes
    <3>2. \A v \in Workers : On(v, n)' => On(v, n) /\ worker'[v] = worker[v]
      BY <2>1, <2>3 DEF On, Busy
    <3> QED
      BY <1>0, <2>1, <3>1, <3>2 DEF Done, Holds, Live
  <2> QED
    BY <2>2, <2>3
<1>6. ASSUME NEW w \in Workers, Decide(w) PROVE Done(n)'
  <2> DEFINE m == worker[w].id
  <2>1. Busy(w) /\ m \in Ids /\ UNCHANGED <<job, deleted, taken>>
    BY <1>0, <1>6, DecideEffect DEF StepOf
  <2>2. \/ Skips(w, m) /\ WorkerGoes(w, "acking", "none")
        \/ Leaves(w)
    BY <1>0, <1>6, DecideEffect, GoesLeaves
  <2>3. CASE Leaves(w)
    <3>1. \A v \in Workers : Holds(v, n)' => Holds(v, n)
      BY <2>1 DEF Holds
    <3> QED
      BY <1>0, <2>1, <2>3, <3>1, DoneKept
  <2>4. CASE Skips(w, m) /\ WorkerGoes(w, "acking", "none")
    <3>1. m = n => ~Holds(w, n) \/ message[n].known
      BY <1>0, <2>4 DEF Skips, Reports, Done, Live, Holds
    <3>2. \A v \in Workers : On(v, n)' => On(v, n) /\ (v # w => worker'[v] = worker[v])
      BY <2>1, <2>4 DEF On, Busy, WorkerGoes
    <3>3. w \in Workers /\ (On(w, n) => m = n)
      BY DEF On
    <3> QED
      BY <1>0, <2>1, <3>1, <3>2, <3>3 DEF Done, Remembers, Holds, Live
  <2> QED
    BY <2>2, <2>3, <2>4
<1>7. ASSUME NEW w \in Workers, Submitted(w) PROVE Done(n)'
  <2> DEFINE m == worker[w].id
  <2>1. /\ Busy(w) /\ m \in Ids /\ UNCHANGED <<job, deleted, taken>> /\ WorkerGoes(w, "acking", "none")
        /\ message'[m].known
    BY <1>0, <1>7, SubmittedEffect DEF StepOf
  <2>2. \A v \in Workers : On(v, n)' => On(v, n) /\ (v # w => worker'[v] = worker[v])
    BY <2>1 DEF On, Busy, WorkerGoes
  <2>3. On(w, n) => m = n
    BY DEF On
  <2> QED
    BY <1>0, <2>1, <2>2, <2>3 DEF Done, Remembers, Holds, Live
<1>8. ASSUME NEW w \in Workers, FailMessage(w) PROVE Done(n)'
  <2>1. Busy(w) /\ Leaves(w) /\ UNCHANGED <<job, deleted, taken>>
    BY <1>0, <1>8, FailMessageEffect, RestsLeaves DEF StepOf
  <2>2. \A v \in Workers : Holds(v, n)' => Holds(v, n)
    BY <2>1 DEF Holds
  <2> QED
    BY <1>0, <2>1, <2>2, DoneKept
<1>9. ASSUME NEW w \in Workers, Answer(w) \/ SendFails(w) PROVE Done(n)'
  <2>1. /\ Busy(w) /\ Leaves(w) /\ UNCHANGED <<job, deleted>>
        /\ TakenOn(worker[w].id) \/ taken' = taken
    BY <1>0, <1>9, AnswerEffect, SendFailsEffect, GoesLeaves DEF StepOf
  <2>2. \A v \in Workers : Holds(v, n)' => Holds(v, n)
    BY <2>1 DEF Holds
  <2>3. taken'[n] = taken[n] \/ worker[w].id = n
    BY <2>1 DEF TakenOn
  <2> QED
    BY <1>0, <2>1, <2>2, <2>3, DoneKept
<1>10. ASSUME NEW w \in Workers, Reject(w) \/ DatabaseFails(w) \/ RecordingFails(w) PROVE Done(n)'
  <2>1. Busy(w) /\ Leaves(w) /\ UNCHANGED <<job, deleted, taken>>
    BY <1>0, <1>10, RejectEffect, DatabaseFailsEffect, RecordingFailsEffect, GoesLeaves, RestsLeaves DEF StepOf
  <2>2. \A v \in Workers : Holds(v, n)' => Holds(v, n)
    BY <2>1 DEF Holds
  <2> QED
    BY <1>0, <2>1, <2>2, DoneKept
<1>11. ASSUME NEW w \in Workers, Crash(w) PROVE Done(n)'
  <2>1. /\ Busy(w) /\ Leaves(w) /\ UNCHANGED <<deleted, taken>>
        /\ job'[n].state = job[n].state /\ job'[n].owner = IF job[n].owner = w THEN Nobody ELSE job[n].owner
    BY <1>0, <1>11, CrashEffect, RestsLeaves DEF StepOf
  <2>2. \A v \in Workers : Holds(v, n)' => Holds(v, n)
    BY <2>1, WorkersAssumption DEF Holds
  <2> QED
    BY <1>0, <2>1, <2>2, DoneKept
<1>12. ASSUME NEW w \in Workers, NEW state \in Ends, Busy(w), Leaves(w), worker[w].id \in Ids, UNCHANGED <<deleted, taken>>,
              worker[w].id = n /\ Holds(w, n) /\ state = "succeeded" => message[n].known,
              \/ /\ Holds(w, worker[w].id)
                 /\ JobBecomes(worker[w].id, state, job[worker[w].id].owner, job[worker[w].id].expired)
              \/ ~Holds(w, worker[w].id) /\ job' = job
       PROVE  Done(n)'
  <2>1. CASE worker[w].id = n /\ Holds(w, n)
    BY <1>0, <1>12, <2>1, DoneEnds DEF JobBecomes
  <2>2. CASE ~(worker[w].id = n /\ Holds(w, n))
    <3>1. job'[n] = job[n]
      BY <1>12, <2>2 DEF JobBecomes
    <3>2. \A v \in Workers : Holds(v, n)' => Holds(v, n)
      BY <3>1 DEF Holds
    <3> QED
      BY <1>0, <1>12, <3>1, <3>2, DoneKept
  <2> QED
    BY <2>1, <2>2
<1>13. ASSUME NEW w \in Workers, Ack(w) PROVE Done(n)'
  <2> DEFINE m == worker[w].id
  <2>1. /\ Busy(w) /\ Leaves(w) /\ m \in Ids /\ UNCHANGED <<deleted, taken>> /\ worker[w].phase = "acking"
        /\ \/ Holds(w, m) /\ JobBecomes(m, "succeeded", job[m].owner, job[m].expired)
           \/ ~Holds(w, m) /\ job' = job
    BY <1>0, <1>13, AckEffect, RestsLeaves DEF StepOf
  <2>2. m = n /\ Holds(w, n) => message[n].known
    BY <1>0, <2>1 DEF Done, On
  <2>3. "succeeded" \in Ends
    BY DEF Ends
  <2> QED
    BY <1>12, <2>1, <2>2, <2>3
<1>14. ASSUME NEW w \in Workers, FailJob(w) PROVE Done(n)'
  <2> DEFINE m == worker[w].id
  <2>1. /\ Busy(w) /\ Leaves(w) /\ m \in Ids /\ UNCHANGED <<deleted, taken>>
        /\ \/ Holds(w, m) /\ \E state \in Ends \ {"succeeded"} : JobBecomes(m, state, job[m].owner, job[m].expired)
           \/ ~Holds(w, m) /\ job' = job
    BY <1>0, <1>14, FailJobEffect, GoesLeaves DEF StepOf
  <2>2. "failed" \in Ends \ {"succeeded"}
    BY DEF Ends
  <2> QED
    BY <1>12, <2>1, <2>2
<1>15. ASSUME NEW m \in Ids, Expire(m) PROVE Done(n)'
  <2>1. /\ job[m].state = "leased" /\ JobBecomes(m, "leased", job[m].owner, TRUE)
        /\ UNCHANGED <<deleted, worker, taken>>
    BY <1>0, <1>15, ExpireEffect
  <2>2. job'[n].state = job[n].state /\ job'[n].owner = job[n].owner
    BY <2>1 DEF JobBecomes
  <2> QED
    BY <1>0, <2>1, <2>2 DEF Done, Remembers, On, Busy, Holds, Live
<1>16. ASSUME NEW m \in Ids, NEW t \in Times, NEW status \in Statuses, Emit(m, t, status) PROVE Done(n)'
  BY <1>0, <1>1, <1>16, EmitEffect
<1>17. ASSUME NEW m \in Ids, NEW t \in Times, Receive(m, t) PROVE Done(n)'
  BY <1>0, <1>1, <1>17, ReceiveEffect
<1>18. CASE UNCHANGED vars
  BY <1>1, <1>18 DEF vars
<1>19. ASSUME NEW w \in Workers, QuietStep(w) PROVE Done(n)'
  BY <1>9, <1>10, <1>11, <1>13, <1>14, <1>19 DEF QuietStep
<1> QED
  BY <1>2, <1>3, <1>4, <1>5, <1>6, <1>7, <1>8, <1>15, <1>16, <1>17, <1>18, <1>19, Steps

LEMMA DoneInit == Init => DoneOK
<1> SUFFICES ASSUME Init, NEW m \in Ids PROVE Done(m)
  BY DEF DoneOK
<1>1. \A w \in Workers : ~On(w, m)
  BY DEF Init, On, Busy, Idle
<1>2. job[m].state \in {"absent", "pending"} /\ taken[m] = 0 /\ ~deleted
  BY StartJobs DEF Init
<1>3. message[m].state = "absent" => job[m].state = "absent"
  BY StartJobs DEF Init, Queued
<1> QED
  BY <1>1, <1>2, <1>3 DEF Done

\* A job counts as done only when the provider has answered for its message, however many
\* workers lost their leases or crashed and whatever the database refused on the way.
THEOREM DoneMeansAnswered == Spec => []DoneWasAnswered
<1>1. Init => Sound /\ DoneOK
  BY SoundInit, DoneInit
<1>2. Sound /\ DoneOK /\ [Next]_vars => (Sound /\ DoneOK)'
  BY SoundStep, DoneStep DEF DoneOK
<1>3. DoneOK => DoneWasAnswered
  BY DEF DoneOK, Done, DoneWasAnswered
<1> QED
  BY <1>1, <1>2, <1>3, PTL DEF Spec

-----------------------------------------------------------------------------
(* No message is taken on twice                                               *)

\* Some worker has begun to send, or the provider has the message.
Begun(m) == taken[m] > 0 \/ \E w \in Workers : On(w, m) /\ worker[w].phase = "sending"

\* States that keep a worker from sending.
Barred == {"unknown"} \cup Reached

\* The one fault has happened and a worker holds the job under a lease that is good.
Held(m) == /\ faults > 0 /\ job[m].state = "leased" /\ ~job[m].expired
           /\ \E v \in Workers : job[m].owner = v /\ On(v, m)

\* That worker has already decided.
Past(m) == /\ faults > 0 /\ job[m].state = "leased" /\ ~job[m].expired
           /\ \E v \in Workers : job[m].owner = v /\ On(v, m) /\ worker[v].phase # "leased"

\* Of a worker that is busy with the message, by what it is doing.
OnceBy(w, m) ==
  /\ worker[w].result \in {"none", "queued", "uncertain", "definite"}
  /\ worker[w].phase = "sending" =>
       taken[m] = 0 /\ \A v \in Workers : On(v, m) /\ worker[v].phase = "sending" => v = w
  /\ ~Holds(w, m) /\ Live(m) => Held(m)
  /\ Holds(w, m) /\ job[m].expired => faults > 0
  /\ worker[w].phase = "failed" => ~Holds(w, m)
  /\ worker[w].phase = "failing" /\ worker[w].result = "definite" /\ Holds(w, m) /\ Begun(m) =>
       faults > 0 /\ ~job[m].expired
  /\ worker[w].phase \in {"failing", "failed"} /\ worker[w].result = "definite" /\ ~Holds(w, m) =>
       \A v \in Workers : On(v, m) /\ Holds(v, m) /\ worker[v].phase = "leased" => ~Begun(m)

Once(m) ==
  /\ taken[m] <= 1 /\ \A t \in Times : emitted[m][t] = "none"
  /\ Begun(m) /\ Live(m) /\ message[m].state \notin Barred => Past(m)
  /\ \A w \in Workers : On(w, m) => OnceBy(w, m)

OnceOK == \A m \in Ids : Once(m)

\* Nothing about the message changes but who else owns its job.
Untouched(n) ==
  /\ taken'[n] = taken[n] /\ emitted'[n] = emitted[n] /\ message'[n].state = message[n].state
  /\ job'[n].state = job[n].state /\ job'[n].expired = job[n].expired
  /\ \A v \in Workers : /\ On(v, n)' <=> On(v, n)
                        /\ On(v, n) => worker'[v] = worker[v] /\ (job'[n].owner = v <=> job[n].owner = v)
  /\ faults > 0 => faults' > 0

LEMMA OnceUntouched ==
  ASSUME NEW n \in Ids, Once(n), Untouched(n)
  PROVE  Once(n)'
<1>1. Begun(n)' <=> Begun(n)
  BY DEF Begun, Untouched
<1>2. Past(n) => Past(n)'
  BY DEF Past, Untouched
<1>3. Held(n) => Held(n)'
  BY DEF Held, Untouched
<1>4. Live(n)' <=> Live(n)
  BY DEF Live, Untouched
<1>5. ASSUME NEW v \in Workers, On(v, n)
      PROVE  Holds(v, n)' <=> Holds(v, n)
  BY <1>5 DEF Holds, Untouched
<1>6. ASSUME NEW w \in Workers, On(w, n)'
      PROVE  OnceBy(w, n)'
  <2>1. On(w, n) /\ worker'[w] = worker[w] /\ OnceBy(w, n) /\ (Holds(w, n)' <=> Holds(w, n))
    BY <1>5, <1>6 DEF Once, Untouched
  <2>2. worker'[w].phase = "sending" =>
          taken'[n] = 0 /\ \A v \in Workers : On(v, n)' /\ worker'[v].phase = "sending" => v = w
    BY <2>1 DEF OnceBy, Untouched
  <2>3. /\ ~Holds(w, n)' /\ Live(n)' => Held(n)'
        /\ Holds(w, n)' /\ job'[n].expired => faults' > 0
        /\ worker'[w].phase = "failing" /\ worker'[w].result = "definite" /\ Holds(w, n)' /\ Begun(n)' =>
             faults' > 0 /\ ~job'[n].expired
    BY <1>1, <1>3, <1>4, <2>1 DEF OnceBy, Untouched
  <2>4. ASSUME worker'[w].phase \in {"failing", "failed"}, worker'[w].result = "definite", ~Holds(w, n)',
               NEW v \in Workers, On(v, n)', Holds(v, n)', worker'[v].phase = "leased"
        PROVE  ~Begun(n)'
    BY <1>1, <1>5, <2>1, <2>4 DEF OnceBy, Untouched
  <2> QED
    BY <2>1, <2>2, <2>3, <2>4 DEF OnceBy
<1> QED
  BY <1>1, <1>2, <1>4, <1>6 DEF Once, Untouched

\* A worker that is busy with the message goes on, not to send, or leaves it after its lease
\* was lost; the job and the provider stay as they are.
GoesOn(w, n) ==
  /\ \A v \in Workers \ {w} : worker'[v] = worker[v]
  /\ On(w, n) /\ worker'[w].phase \notin {"sending", "leased"}
  /\ On(w, n)' \/ (~Holds(w, n) /\ ~On(w, n)')
  /\ taken'[n] = taken[n] /\ emitted'[n] = emitted[n]
  /\ job'[n].state = job[n].state /\ job'[n].expired = job[n].expired
  /\ \A v \in Workers : Holds(v, n)' <=> Holds(v, n)
  /\ faults > 0 => faults' > 0

LEMMA GoesOnKeeps ==
  ASSUME NEW n \in Ids, NEW w \in Workers, Once(n), GoesOn(w, n)
  PROVE  /\ Begun(n)' => Begun(n)
         /\ Live(n)' <=> Live(n)
         /\ Past(n) => Past(n)'
         /\ Held(n) => Held(n)'
         /\ \A v \in Workers \ {w} : On(v, n)' => OnceBy(v, n)'
<1>1. Begun(n)' => Begun(n)
  BY DEF Begun, GoesOn, On, Busy
<1>2. Live(n)' <=> Live(n)
  BY DEF Live, GoesOn
<1>3. \A v \in Workers : job[n].state = "leased" /\ job[n].owner = v /\ On(v, n) =>
                           job'[n].owner = v /\ On(v, n)' /\ (v # w => worker'[v] = worker[v])
  BY DEF GoesOn, Holds, On, Busy
<1>4. Past(n) => Past(n)'
  <2> SUFFICES ASSUME Past(n) PROVE Past(n)'
    OBVIOUS
  <2>1. PICK v \in Workers : job[n].owner = v /\ On(v, n) /\ worker[v].phase # "leased"
    BY DEF Past
  <2>2. job'[n].owner = v /\ On(v, n)' /\ worker'[v].phase # "leased"
    BY <1>3, <2>1 DEF Past, GoesOn
  <2> QED
    BY <2>2 DEF Past, GoesOn
<1>5. Held(n) => Held(n)'
  BY <1>3 DEF Held, GoesOn
<1>6. ASSUME NEW v \in Workers \ {w}, On(v, n)'
      PROVE  OnceBy(v, n)'
  <2>1. On(v, n) /\ worker'[v] = worker[v] /\ OnceBy(v, n) /\ (Holds(v, n)' <=> Holds(v, n))
    BY <1>6 DEF Once, GoesOn, On, Busy
  <2>2. worker'[v].phase = "sending" =>
          taken'[n] = 0 /\ \A u \in Workers : On(u, n)' /\ worker'[u].phase = "sending" => u = v
    BY <2>1 DEF OnceBy, GoesOn, On, Busy
  <2>3. /\ ~Holds(v, n)' /\ Live(n)' => Held(n)'
        /\ Holds(v, n)' /\ job'[n].expired => faults' > 0
        /\ worker'[v].phase = "failing" /\ worker'[v].result = "definite" /\ Holds(v, n)' /\ Begun(n)' =>
             faults' > 0 /\ ~job'[n].expired
    BY <1>1, <1>2, <1>5, <2>1 DEF OnceBy, GoesOn
  <2>4. ASSUME worker'[v].phase \in {"failing", "failed"}, worker'[v].result = "definite", ~Holds(v, n)',
               NEW u \in Workers, On(u, n)', Holds(u, n)', worker'[u].phase = "leased"
        PROVE  ~Begun(n)'
    BY <1>1, <2>1, <2>4 DEF OnceBy, GoesOn, On, Busy
  <2> QED
    BY <2>1, <2>2, <2>3, <2>4 DEF OnceBy
<1> QED
  BY <1>1, <1>2, <1>4, <1>5, <1>6

\* The job has ended or is not there: nobody will send any more.
OverNow(n) ==
  /\ job'[n].state \notin {"pending", "leased"}
  /\ taken'[n] = taken[n] /\ emitted'[n] = emitted[n]
  /\ \A v \in Workers : On(v, n)' =>
       /\ On(v, n) /\ worker'[v].result = worker[v].result
       /\ worker'[v].phase = "sending" => worker[v].phase = "sending"

LEMMA OnceOver ==
  ASSUME NEW n \in Ids, Once(n), OverNow(n)
  PROVE  Once(n)'
<1>1. ~Live(n)' /\ \A v \in Workers : ~Holds(v, n)'
  BY DEF OverNow, Live, Holds
<1>2. ASSUME NEW w \in Workers, On(w, n)'
      PROVE  OnceBy(w, n)'
  <2>1. On(w, n) /\ OnceBy(w, n) /\ worker'[w].result = worker[w].result
        /\ (worker'[w].phase = "sending" => worker[w].phase = "sending")
    BY <1>2 DEF Once, OverNow
  <2>2. worker'[w].phase = "sending" =>
          taken'[n] = 0 /\ \A v \in Workers : On(v, n)' /\ worker'[v].phase = "sending" => v = w
    BY <2>1 DEF OnceBy, OverNow
  <2> QED
    BY <1>1, <2>1, <2>2 DEF OnceBy
<1> QED
  BY <1>1, <1>2 DEF Once, OverNow

\* While nothing has gone wrong, a worker that is busy with a live job holds its lease.
LEMMA FaultlessHolds ==
  ASSUME NEW n \in Ids, Once(n), ~(faults > 0)
  PROVE  /\ Begun(n) /\ Live(n) => message[n].state \in Barred
         /\ \A w \in Workers : On(w, n) /\ Live(n) => Holds(w, n) /\ ~job[n].expired
  BY DEF Once, OnceBy, Past, Held

\* What the actions know of the message.
Known(n) == Reports(n) /\ Done(n) /\ Once(n)

LEMMA OnceDecide ==
  ASSUME TypeOK, NEW w \in Workers, Decide(w), NEW n \in Ids, worker[w].id = n, Known(n), ~Idempotent
  PROVE  Once(n)'
<1>0. Once(n) /\ Done(n)
  BY DecideEffect DEF Known, StepOf
<1>1. /\ Busy(w) /\ worker[w].phase = "leased" /\ emitted' = emitted
      /\ UNCHANGED <<job, taken, faults>>
  BY DecideEffect DEF StepOf
<1> DEFINE Decided == \/ WorkerGoes(w, "acking", "none") /\ message' = message
                      \/ WorkerGoes(w, "failing", "uncertain") /\ message' = message
                      \/ ~Skips(w, n) /\ ~Uncertain(n) /\ WorkerGoes(w, "failing", "definite") /\ message' = message
                      \/ ~Skips(w, n) /\ ~Uncertain(n) /\ WorkerGoes(w, "sending", "none") /\ StateBecomes(n, "unknown")
<1>2. Decided
  BY DecideEffect
<1>3. \A v \in Workers : Holds(v, n)' <=> Holds(v, n)
  BY <1>1 DEF Holds
<1>4. On(w, n) /\ OnceBy(w, n)
  BY <1>0, <1>1 DEF On, Once
<1>5. ASSUME ~Skips(w, n), ~Uncertain(n)
      PROVE  Holds(w, n) /\ ~Begun(n) /\ \A v \in Workers : Holds(v, n) => v = w
  <2>1. Holds(w, n) /\ message[n].state \notin Reached
    BY <1>5 DEF Skips
  <2>2. message[n].state \notin Barred /\ Live(n)
    BY <1>5, <2>1 DEF Barred, Uncertain, Holds, Live
  <2>3. ~Past(n)
    BY <1>1, <2>1 DEF Past, Holds
  <2> QED
    BY <1>0, <2>1, <2>2, <2>3 DEF Once, Holds
<1>6. CASE \/ WorkerGoes(w, "acking", "none") /\ message' = message
           \/ WorkerGoes(w, "failing", "uncertain") /\ message' = message
  <2>1. GoesOn(w, n)
    BY <1>1, <1>3, <1>4, <1>6 DEF GoesOn, WorkerGoes, On, Busy
  <2>2. OnceBy(w, n)'
    BY <1>0, <1>3, <1>4, <1>6, <2>1, GoesOnKeeps DEF OnceBy, WorkerGoes, GoesOn
  <2> QED
    BY <1>0, <1>1, <1>6, <2>1, <2>2, GoesOnKeeps DEF Once
<1>7. CASE ~Skips(w, n) /\ ~Uncertain(n) /\ WorkerGoes(w, "failing", "definite") /\ message' = message
  <2>1. GoesOn(w, n)
    BY <1>1, <1>3, <1>4, <1>7 DEF GoesOn, WorkerGoes, On, Busy
  <2>2. OnceBy(w, n)'
    BY <1>0, <1>3, <1>4, <1>5, <1>7, <2>1, GoesOnKeeps DEF OnceBy, WorkerGoes, GoesOn
  <2> QED
    BY <1>0, <1>1, <1>7, <2>1, <2>2, GoesOnKeeps DEF Once
<1>8. CASE ~Skips(w, n) /\ ~Uncertain(n) /\ WorkerGoes(w, "sending", "none") /\ StateBecomes(n, "unknown")
  <2>1. Holds(w, n) /\ ~Begun(n) /\ \A v \in Workers : Holds(v, n) => v = w
    BY <1>5, <1>8
  <2>2. /\ \A v \in Workers : On(v, n)' <=> On(v, n)
        /\ \A v \in Workers \ {w} : worker'[v] = worker[v]
        /\ worker'[w].phase = "sending" /\ worker'[w].result = "none" /\ message'[n].state = "unknown"
    BY <1>4, <1>8 DEF WorkerGoes, StateBecomes, On, Busy
  <2>3. Held(n) => Held(n)'
    BY <1>1, <2>2 DEF Held
  <2>4. Live(n)' <=> Live(n)
    BY <1>1 DEF Live
  <2>5. taken[n] = 0 /\ \A v \in Workers : On(v, n) => worker[v].phase # "sending"
    BY <1>0, <2>1 DEF Begun, TypeOK
  <2>6. ASSUME NEW v \in Workers, On(v, n)'
        PROVE  OnceBy(v, n)'
    <3>1. OnceBy(v, n)
      BY <1>0, <2>2, <2>6 DEF Once
    <3>2. CASE v = w
      BY <1>1, <1>3, <2>1, <2>2, <2>5, <3>1, <3>2 DEF OnceBy
    <3>3. CASE v # w
      <4>1. worker'[v] = worker[v] /\ ~Holds(v, n)'
        BY <1>3, <2>1, <2>2, <3>3
      <4>2. \A u \in Workers : Holds(u, n)' => worker'[u].phase # "leased"
        BY <1>3, <2>1, <2>2
      <4> QED
        BY <1>1, <1>3, <2>2, <2>3, <2>4, <2>5, <2>6, <3>1, <4>1, <4>2 DEF OnceBy
    <3> QED
      BY <3>2, <3>3
  <2> QED
    BY <1>0, <1>1, <2>2, <2>6 DEF Once, Barred
<1> QED
  BY <1>2, <1>6, <1>7, <1>8

LEMMA OnceAnswer ==
  ASSUME TypeOK, NEW w \in Workers, Answer(w), NEW n \in Ids, worker[w].id = n, Known(n), ~Idempotent
  PROVE  Once(n)'
<1>0. Once(n)
  BY AnswerEffect DEF Known, StepOf
<1>1. /\ Busy(w) /\ worker[w].phase = "sending" /\ TakenOn(n) /\ WorkerGoes(w, "sent", "queued")
      /\ emitted' = emitted /\ UNCHANGED <<message, job, faults>>
  BY AnswerEffect DEF StepOf
<1>2. /\ \A v \in Workers : On(v, n)' <=> On(v, n)
      /\ \A v \in Workers \ {w} : worker'[v] = worker[v]
      /\ worker'[w].phase = "sent" /\ worker'[w].result = "queued"
  BY <1>1 DEF WorkerGoes, On, Busy
<1>3. On(w, n) /\ OnceBy(w, n) /\ Begun(n)
  BY <1>0, <1>1 DEF On, Once, Begun
<1>4. taken[n] = 0 /\ taken'[n] = 1 /\ \A v \in Workers : On(v, n) /\ worker[v].phase = "sending" => v = w
  BY <1>1, <1>3 DEF OnceBy, TakenOn
<1>5. /\ \A v \in Workers : Holds(v, n)' <=> Holds(v, n)
      /\ Live(n)' <=> Live(n)
  BY <1>1 DEF Holds, Live
<1>6. Held(n) => Held(n)'
  BY <1>1, <1>2 DEF Held
<1>7. Past(n) => Past(n)'
  BY <1>1, <1>2 DEF Past
<1>8. ASSUME NEW v \in Workers, On(v, n)'
      PROVE  OnceBy(v, n)'
  <2>1. OnceBy(v, n) /\ On(v, n)
    BY <1>0, <1>2, <1>8 DEF Once
  <2>2. CASE v = w
    BY <1>1, <1>2, <1>5, <1>6, <2>1, <2>2 DEF OnceBy
  <2>3. CASE v # w
    <3>1. worker'[v] = worker[v] /\ worker[v].phase # "sending"
      BY <1>2, <1>4, <2>1, <2>3
    <3>2. ASSUME worker'[v].phase \in {"failing", "failed"}, worker'[v].result = "definite", ~Holds(v, n)',
                 NEW u \in Workers, On(u, n)', Holds(u, n)', worker'[u].phase = "leased"
          PROVE  FALSE
      BY <1>2, <1>3, <1>5, <2>1, <3>1, <3>2 DEF OnceBy
    <3> QED
      BY <1>1, <1>3, <1>5, <1>6, <2>1, <3>1, <3>2 DEF OnceBy
  <2> QED
    BY <2>2, <2>3
<1> QED
  BY <1>0, <1>1, <1>3, <1>4, <1>5, <1>7, <1>8 DEF Once

LEMMA OnceReject ==
  ASSUME TypeOK, NEW w \in Workers, Reject(w), NEW n \in Ids, worker[w].id = n, Known(n)
  PROVE  Once(n)'
<1>0. Once(n)
  BY RejectEffect DEF Known, StepOf
<1>1. /\ Busy(w) /\ worker[w].phase = "sending" /\ WorkerGoes(w, "failing", "definite")
      /\ emitted' = emitted /\ UNCHANGED <<message, job, taken, faults>>
  BY RejectEffect DEF StepOf
<1>2. On(w, n) /\ OnceBy(w, n)
  BY <1>0, <1>1 DEF On, Once
<1>3. GoesOn(w, n)
  BY <1>1, <1>2 DEF GoesOn, WorkerGoes, On, Busy, Holds
<1>4. ~Begun(n)'
  BY <1>1, <1>2, <1>3 DEF Begun, GoesOn, OnceBy, On, Busy, WorkerGoes
<1>5. OnceBy(w, n)'
  BY <1>0, <1>1, <1>2, <1>3, <1>4, GoesOnKeeps DEF OnceBy, WorkerGoes, GoesOn
<1> QED
  BY <1>0, <1>1, <1>3, <1>4, <1>5, GoesOnKeeps DEF Once

LEMMA OnceSubmitted ==
  ASSUME TypeOK, ReportsOK, NEW w \in Workers, Submitted(w), NEW n \in Ids, worker[w].id = n, Known(n), ~Idempotent
  PROVE  Once(n)'
<1>0. Once(n) /\ Reports(n)
  BY SubmittedEffect DEF Known, StepOf
<1>1. /\ Busy(w) /\ WorkerGoes(w, "acking", "none") /\ emitted' = emitted
      /\ UNCHANGED <<job, taken, faults>>
      /\ worker[w].result # "suppressed" /\ received[n] = {} => message'[n].state = "accepted"
  BY SubmittedEffect DEF StepOf
<1>2. On(w, n) /\ OnceBy(w, n)
  BY <1>0, <1>1 DEF On, Once
<1>3. GoesOn(w, n)
  BY <1>1, <1>2 DEF GoesOn, WorkerGoes, On, Busy, Holds
<1>4. received[n] = {}
  <2>1. received[n] \subseteq Times
    BY <1>0 DEF TypeOK
  <2> QED
    BY <1>0, <2>1 DEF Reports, Once
<1>5. message'[n].state \in Barred
  BY <1>1, <1>2, <1>4 DEF OnceBy, Barred, Reached
<1>6. OnceBy(w, n)'
  BY <1>0, <1>1, <1>2, <1>3, GoesOnKeeps DEF OnceBy, WorkerGoes, GoesOn
<1> QED
  BY <1>0, <1>1, <1>3, <1>5, <1>6, GoesOnKeeps DEF Once

LEMMA OnceSendFails ==
  ASSUME TypeOK, NEW w \in Workers, SendFails(w), NEW n \in Ids, worker[w].id = n, Known(n), ~Idempotent,
         MaxFaults <= 1
  PROVE  Once(n)'
<1>0. Once(n) /\ MaxFaults \in Nat /\ faults \in Nat
  BY Numbers DEF Known, TypeOK
<1>1. /\ Busy(w) /\ worker[w].phase = "sending" /\ WorkerGoes(w, "failing", "uncertain")
      /\ TakenOn(n) \/ taken' = taken
      /\ emitted' = emitted /\ UNCHANGED <<message, job>>
  BY SendFailsEffect DEF StepOf
<1>2. ~(faults > 0) /\ faults' > 0
  <2>1. faults < MaxFaults /\ faults' = faults + 1
    BY SendFailsEffect DEF Faulted
  <2> QED
    BY <1>0, <2>1
<1>3. /\ \A v \in Workers : On(v, n)' <=> On(v, n)
      /\ \A v \in Workers \ {w} : worker'[v] = worker[v]
      /\ worker'[w].phase = "failing" /\ worker'[w].result = "uncertain"
  BY <1>1 DEF WorkerGoes, On, Busy
<1>4. On(w, n) /\ OnceBy(w, n) /\ Begun(n)
  BY <1>0, <1>1 DEF On, Once, Begun
<1>5. taken[n] = 0 /\ taken'[n] <= 1 /\ \A v \in Workers : On(v, n) /\ worker[v].phase = "sending" => v = w
  BY <1>1, <1>4 DEF OnceBy, TakenOn
<1>6. /\ \A v \in Workers : Holds(v, n)' <=> Holds(v, n)
      /\ Live(n)' <=> Live(n)
  BY <1>1 DEF Holds, Live
<1>7. /\ Live(n) => message[n].state \in Barred
      /\ \A v \in Workers : On(v, n) /\ Live(n) => Holds(v, n) /\ ~job[n].expired
  BY <1>0, <1>2, <1>4, FaultlessHolds
<1>8. ASSUME NEW v \in Workers, On(v, n)'
      PROVE  OnceBy(v, n)'
  <2>1. OnceBy(v, n) /\ On(v, n)
    BY <1>0, <1>3, <1>8 DEF Once
  <2>2. Holds(v, n)' => ~job'[n].expired
    BY <1>1, <1>6, <1>7, <2>1 DEF Holds, Live
  <2>3. ~Holds(v, n)' => ~Live(n)' /\ \A u \in Workers : ~Holds(u, n)'
    BY <1>6, <1>7, <2>1 DEF Holds, Live
  <2>4. CASE v = w
    BY <1>2, <1>3, <2>2, <2>3, <2>4 DEF OnceBy
  <2>5. CASE v # w
    BY <1>2, <1>3, <1>5, <1>6, <2>1, <2>2, <2>3, <2>5 DEF OnceBy
  <2> QED
    BY <2>4, <2>5
<1> QED
  BY <1>0, <1>1, <1>5, <1>6, <1>7, <1>8 DEF Once

LEMMA OnceDatabaseFails ==
  ASSUME TypeOK, NEW w \in Workers, DatabaseFails(w), NEW n \in Ids, worker[w].id = n, Known(n),
         MaxFaults <= 1
  PROVE  Once(n)'
<1>0. Once(n) /\ MaxFaults \in Nat /\ faults \in Nat
  BY Numbers DEF Known, TypeOK
<1>1. /\ Busy(w) /\ worker[w].phase \in {"leased", "sent", "acking"} /\ WorkerGoes(w, "failing", "definite")
      /\ emitted' = emitted /\ UNCHANGED <<message, job, taken>>
  BY DatabaseFailsEffect DEF StepOf
<1>2. ~(faults > 0) /\ faults' > 0
  <2>1. faults < MaxFaults /\ faults' = faults + 1
    BY DatabaseFailsEffect DEF Faulted
  <2> QED
    BY <1>0, <2>1
<1>3. On(w, n) /\ OnceBy(w, n)
  BY <1>0, <1>1 DEF On, Once
<1>4. GoesOn(w, n)
  BY <1>1, <1>2, <1>3 DEF GoesOn, WorkerGoes, On, Busy, Holds
<1>5. /\ Holds(w, n)' => ~job'[n].expired
      /\ ~Holds(w, n)' => ~Live(n)' /\ \A u \in Workers : ~Holds(u, n)'
  BY <1>0, <1>1, <1>2, <1>3, <1>4, FaultlessHolds DEF GoesOn, Holds, Live
<1>6. OnceBy(w, n)'
  BY <1>1, <1>2, <1>5 DEF OnceBy, WorkerGoes
<1> QED
  BY <1>0, <1>1, <1>4, <1>6, GoesOnKeeps DEF Once

LEMMA OnceFailJob ==
  ASSUME TypeOK, NEW w \in Workers, FailJob(w), NEW n \in Ids, worker[w].id = n, Known(n)
  PROVE  Once(n)'
<1>0. Once(n)
  BY DEF Known
<1>1. /\ Busy(w) /\ worker[w].phase = "failing" /\ WorkerGoes(w, "failed", worker[w].result)
      /\ emitted' = emitted /\ UNCHANGED <<message, taken, faults>>
  BY FailJobEffect DEF StepOf
<1>2. On(w, n) /\ OnceBy(w, n)
  BY <1>0, <1>1 DEF On, Once
<1>3. CASE Holds(w, n)
  <2>1. job'[n].state \notin {"pending", "leased"}
    BY <1>2, <1>3, FailJobEffect DEF OnceBy, JobBecomes, Ends
  <2>2. OverNow(n)
    BY <1>1, <1>2, <2>1 DEF OverNow, WorkerGoes, On, Busy
  <2> QED
    BY <1>0, <2>2, OnceOver
<1>4. CASE ~Holds(w, n)
  <2>1. job' = job
    BY <1>4, FailJobEffect
  <2>2. GoesOn(w, n)
    BY <1>1, <1>2, <2>1 DEF GoesOn, WorkerGoes, On, Busy, Holds
  <2>3. OnceBy(w, n)'
    BY <1>0, <1>1, <1>2, <1>4, <2>2, GoesOnKeeps DEF OnceBy, WorkerGoes, GoesOn, On, Busy
  <2> QED
    BY <1>0, <1>1, <2>1, <2>2, <2>3, GoesOnKeeps DEF Once
<1> QED
  BY <1>3, <1>4

LEMMA OnceAck ==
  ASSUME TypeOK, NEW w \in Workers, Ack(w), NEW n \in Ids, worker[w].id = n, Known(n)
  PROVE  Once(n)'
<1>0. Once(n)
  BY DEF Known
<1>1. /\ Busy(w) /\ WorkerRests(w) /\ emitted' = emitted /\ UNCHANGED <<message, taken, faults>>
  BY AckEffect DEF StepOf
<1>2. On(w, n) /\ ~On(w, n)'
  BY <1>1 DEF On, Busy, WorkerRests
<1>3. CASE Holds(w, n)
  <2>1. job'[n].state = "succeeded"
    BY <1>3, AckEffect DEF JobBecomes
  <2>2. OverNow(n)
    BY <1>1, <1>2, <2>1 DEF OverNow, WorkerRests, On, Busy
  <2> QED
    BY <1>0, <2>2, OnceOver
<1>4. CASE ~Holds(w, n)
  <2>1. job' = job
    BY <1>4, AckEffect
  <2>2. GoesOn(w, n)
    BY <1>1, <1>2, <1>4, <2>1 DEF GoesOn, WorkerRests, On, Busy, Holds
  <2> QED
    BY <1>0, <1>1, <1>2, <2>1, <2>2, GoesOnKeeps DEF Once
<1> QED
  BY <1>3, <1>4

LEMMA OnceFailMessage ==
  ASSUME TypeOK, NEW w \in Workers, FailMessage(w), NEW n \in Ids, worker[w].id = n, Known(n)
  PROVE  Once(n)'
<1>0. Once(n)
  BY DEF Known
<1>1. /\ Busy(w) /\ worker[w].phase = "failed" /\ WorkerRests(w)
      /\ emitted' = emitted /\ UNCHANGED <<job, taken, faults>>
  BY FailMessageEffect DEF StepOf
<1>2. On(w, n) /\ ~On(w, n)' /\ OnceBy(w, n)
  BY <1>0, <1>1 DEF On, Busy, WorkerRests, Once
<1>3. ~Holds(w, n)
  BY <1>1, <1>2 DEF OnceBy
<1>4. GoesOn(w, n)
  BY <1>1, <1>2, <1>3 DEF GoesOn, WorkerRests, On, Busy, Holds
<1>5. ASSUME Begun(n)', Live(n)', message'[n].state \notin Barred
      PROVE  Past(n)'
  <2>1. Begun(n) /\ Live(n) /\ (Past(n) => Past(n)')
    BY <1>0, <1>4, <1>5, GoesOnKeeps
  <2>2. message' = message \/ worker[w].result = "definite"
    BY <1>5, FailMessageEffect DEF StateBecomes, Barred
  <2>3. CASE message' = message
    BY <1>0, <1>5, <2>1, <2>3 DEF Once
  <2>4. CASE worker[w].result = "definite"
    <3>1. Held(n)
      BY <1>2, <1>3, <2>1 DEF OnceBy
    <3>2. PICK v \in Workers : job[n].owner = v /\ On(v, n)
      BY <3>1 DEF Held
    <3>3. Holds(v, n)
      BY <3>1, <3>2 DEF Held, Holds
    <3>4. worker[v].phase # "leased"
      BY <1>1, <1>2, <1>3, <2>1, <2>4, <3>2, <3>3 DEF OnceBy
    <3> QED
      BY <2>1, <3>1, <3>2, <3>4 DEF Held, Past
  <2> QED
    BY <2>2, <2>3, <2>4
<1> QED
  BY <1>0, <1>1, <1>2, <1>4, <1>5, GoesOnKeeps DEF Once

\* A worker process ends, or the recording of its failure fails: the first fault, so a job
\* that is live was the worker's.
LEMMA OnceGone ==
  ASSUME TypeOK, NEW w \in Workers, RecordingFails(w) \/ Crash(w), NEW n \in Ids, worker[w].id = n, Known(n),
         MaxFaults <= 1
  PROVE  Once(n)'
<1>0. Once(n) /\ MaxFaults \in Nat /\ faults \in Nat
  BY Numbers DEF Known, TypeOK
<1>1. /\ Busy(w) /\ WorkerRests(w) /\ emitted' = emitted /\ UNCHANGED <<message, taken>>
      /\ job'[n].state = job[n].state /\ job'[n].expired = job[n].expired
      /\ job'[n].owner = job[n].owner \/ (job[n].owner = w /\ job'[n].owner = Nobody)
  BY RecordingFailsEffect, CrashEffect DEF StepOf
<1>2. ~(faults > 0) /\ faults' > 0
  <2>1. faults < MaxFaults /\ faults' = faults + 1
    BY RecordingFailsEffect, CrashEffect DEF Faulted
  <2> QED
    BY <1>0, <2>1
<1>3. On(w, n) /\ ~On(w, n)'
  BY <1>1 DEF On, Busy, WorkerRests
<1>4. CASE Holds(w, n)
  <2>1. \A v \in Workers : ~On(v, n)'
    <3>1. \A v \in Workers : On(v, n) => Holds(v, n)
      BY <1>0, <1>2, <1>4, FaultlessHolds DEF Holds, Live
    <3> QED
      BY <1>1, <1>3, <1>4, <3>1 DEF Holds, On, Busy, WorkerRests
  <2>2. Begun(n)' => Begun(n)
    BY <2>1, <1>1 DEF Begun
  <2>3. Begun(n)' /\ Live(n)' => message'[n].state \in Barred
    BY <1>0, <1>1, <1>2, <2>2, FaultlessHolds DEF Live
  <2> QED
    BY <1>0, <1>1, <2>1, <2>3 DEF Once
<1>5. CASE ~Holds(w, n)
  <2>1. \A v \in Workers : Holds(v, n)' <=> Holds(v, n)
    BY <1>1, <1>5, WorkersAssumption DEF Holds
  <2>2. GoesOn(w, n)
    BY <1>1, <1>2, <1>3, <1>5, <2>1 DEF GoesOn, WorkerRests
  <2> QED
    BY <1>0, <1>1, <1>3, <2>2, GoesOnKeeps DEF Once
<1> QED
  BY <1>4, <1>5

LEMMA OnceLease ==
  ASSUME TypeOK, NEW w \in Workers, NEW n \in Ids, Lease(w, n), Known(n)
  PROVE  Once(n)'
<1>0. Once(n)
  BY DEF Known
<1>1. /\ ~Busy(w) /\ Leasable(n) /\ JobBecomes(n, "leased", w, FALSE)
      /\ \A v \in Workers \ {w} : worker'[v] = worker[v]
      /\ worker'[w].phase = "leased" /\ worker'[w].id = n /\ worker'[w].result = "none"
      /\ UNCHANGED <<message, taken, emitted, faults>>
  BY LeaseEffect
<1>2. Live(n) /\ ~Past(n) /\ ~Held(n)
  BY <1>1 DEF Leasable, Live, Past, Held
<1>3. /\ \A v \in Workers : Holds(v, n)' <=> v = w
      /\ job'[n].state = "leased" /\ ~job'[n].expired
  BY <1>1 DEF JobBecomes, Holds
<1>4. \A v \in Workers : On(v, n)' /\ v # w => On(v, n) /\ worker'[v] = worker[v]
  BY <1>1 DEF On, Busy
<1>5. Begun(n)' => Begun(n)
  BY <1>1, <1>4 DEF Begun
<1>6. ASSUME NEW v \in Workers, On(v, n)', v # w
      PROVE  OnceBy(v, n)'
  <2>1. On(v, n) /\ worker'[v] = worker[v] /\ OnceBy(v, n) /\ ~Holds(v, n)'
    BY <1>0, <1>3, <1>4, <1>6 DEF Once
  <2>2. Holds(v, n) /\ job[n].expired /\ faults > 0
    BY <1>1, <1>2, <2>1 DEF OnceBy, Leasable, Holds
  <2>3. Held(n)'
    <3>1. job'[n].owner = w /\ On(w, n)'
      BY <1>1 DEF JobBecomes, On, Busy
    <3> QED
      BY <1>1, <1>3, <2>2, <3>1 DEF Held
  <2>4. worker'[v].phase = "sending" =>
          taken'[n] = 0 /\ \A u \in Workers : On(u, n)' /\ worker'[u].phase = "sending" => u = v
    BY <1>1, <1>4, <2>1 DEF OnceBy
  <2>5. worker'[v].phase \in {"failing", "failed"} /\ worker'[v].result = "definite" => ~Begun(n)'
    BY <1>5, <2>1, <2>2 DEF OnceBy
  <2> QED
    BY <2>1, <2>3, <2>4, <2>5 DEF OnceBy
<1>7. OnceBy(w, n)'
  BY <1>1, <1>3 DEF OnceBy
<1> QED
  BY <1>0, <1>1, <1>2, <1>5, <1>6, <1>7 DEF Once

LEMMA OnceExpire ==
  ASSUME TypeOK, NEW n \in Ids, Expire(n), Known(n), MaxFaults <= 1
  PROVE  Once(n)'
<1>0. Once(n) /\ MaxFaults \in Nat /\ faults \in Nat
  BY Numbers DEF Known, TypeOK
<1>1. /\ job[n].state = "leased" /\ ~job[n].expired /\ JobBecomes(n, "leased", job[n].owner, TRUE)
      /\ UNCHANGED <<message, worker, taken, emitted>>
  BY ExpireEffect
<1>2. /\ Live(n) /\ Live(n)' /\ \A v \in Workers : Holds(v, n)' <=> Holds(v, n)
      /\ \A v \in Workers : On(v, n)' <=> On(v, n)
      /\ Begun(n)' <=> Begun(n)
  BY <1>1 DEF JobBecomes, Live, Holds, On, Busy, Begun
<1>3. CASE faults < MaxFaults /\ faults' = faults + 1
  <2>1. ~(faults > 0) /\ faults' > 0
    BY <1>0, <1>3
  <2>2. /\ Begun(n) => message[n].state \in Barred
        /\ \A v \in Workers : On(v, n) => Holds(v, n)
    BY <1>0, <1>2, <2>1, FaultlessHolds
  <2>3. ASSUME NEW v \in Workers, On(v, n)'
        PROVE  OnceBy(v, n)'
    <3>1. OnceBy(v, n) /\ Holds(v, n)
      BY <1>0, <1>2, <2>2, <2>3 DEF Once
    <3> QED
      BY <1>1, <1>2, <2>1, <3>1 DEF OnceBy
  <2> QED
    BY <1>0, <1>1, <1>2, <2>2, <2>3 DEF Once
<1>4. CASE \A v \in Workers : ~(job[n].owner = v /\ worker[v].id = n)
  <2>1. ~Past(n) /\ ~Held(n)
    BY <1>4 DEF Past, Held, On
  <2>2. \A v \in Workers : ~On(v, n)
    BY <1>0, <1>2, <1>4, <2>1 DEF Once, OnceBy, On, Holds
  <2> QED
    BY <1>0, <1>1, <1>2, <2>1, <2>2 DEF Once
<1> QED
  BY <1>3, <1>4, ExpireEffect

\* A step of a worker that is busy with another message.
LEMMA OnceElsewhere ==
  ASSUME TypeOK, NEW w \in Workers, QuietStep(w) \/ Decide(w) \/ Submitted(w) \/ FailMessage(w),
         ReportsOK, NEW n \in Ids, worker[w].id # n, Once(n)
  PROVE  Once(n)'
<1> DEFINE m == worker[w].id
           Frame == /\ Busy(w) /\ m \in Ids /\ emitted' = emitted
                    /\ \A v \in Workers \ {w} : worker'[v] = worker[v]
                    /\ worker'[w].phase = "idle" \/ worker'[w].id = worker[w].id
                    /\ message'[n].state = message[n].state /\ taken'[n] = taken[n]
                    /\ job'[n].state = job[n].state /\ job'[n].expired = job[n].expired
                    /\ \A v \in Workers \ {w} : job'[n].owner = v <=> job[n].owner = v
                    /\ faults > 0 => faults' > 0
<1>0. n \in Ids \ {m} /\ faults \in Nat /\ (Faulted => faults' > 0)
  BY DEF TypeOK, Faulted
<1>1. ASSUME Decide(w) PROVE Frame
  BY <1>0, <1>1, DecideEffect DEF StepOf, WorkerGoes, StateBecomes
<1>2. ASSUME Submitted(w) PROVE Frame
  BY <1>0, <1>2, SubmittedEffect DEF StepOf, WorkerGoes
<1>3. ASSUME FailMessage(w) PROVE Frame
  BY <1>0, <1>3, FailMessageEffect DEF StepOf, WorkerRests, StateBecomes
<1>4. ASSUME Answer(w) PROVE Frame
  BY <1>0, <1>4, AnswerEffect DEF StepOf, WorkerGoes, TakenOn
<1>5. ASSUME Reject(w) PROVE Frame
  BY <1>0, <1>5, RejectEffect DEF StepOf, WorkerGoes
<1>6. ASSUME Ack(w) PROVE Frame
  BY <1>0, <1>6, AckEffect DEF StepOf, WorkerRests, JobBecomes
<1>7. ASSUME FailJob(w) PROVE Frame
  BY <1>0, <1>7, FailJobEffect DEF StepOf, WorkerGoes, JobBecomes
<1>8. ASSUME SendFails(w) PROVE Frame
  BY <1>0, <1>8, SendFailsEffect DEF StepOf, WorkerGoes, TakenOn
<1>9. ASSUME DatabaseFails(w) PROVE Frame
  BY <1>0, <1>9, DatabaseFailsEffect DEF StepOf, WorkerGoes
<1>10. ASSUME RecordingFails(w) PROVE Frame
  BY <1>0, <1>10, RecordingFailsEffect DEF StepOf, WorkerRests
<1>11. ASSUME Crash(w) PROVE Frame
  BY <1>0, <1>11, CrashEffect, WorkersAssumption DEF StepOf, WorkerRests
<1>12. Frame
  BY <1>1, <1>2, <1>3, <1>4, <1>5, <1>6, <1>7, <1>8, <1>9, <1>10, <1>11 DEF QuietStep
<1>13. ~On(w, n) /\ ~On(w, n)'
  BY <1>12 DEF On, Busy
<1>14. Untouched(n)
  BY <1>12, <1>13 DEF Untouched, On, Busy
<1> QED
  BY <1>14, OnceUntouched

LEMMA OnceStep ==
  ASSUME Sound, DoneOK, OnceOK, [Next]_vars, ~Idempotent, MaxFaults <= 1, NEW n \in Ids
  PROVE  Once(n)'
<1>0. TypeOK /\ ReportsOK /\ Reports(n) /\ Done(n) /\ Once(n) /\ Known(n)
  BY DEF Sound, ReportsOK, DoneOK, OnceOK, Known
<1>1. ASSUME UNCHANGED <<message, job, worker, taken, emitted, faults>> PROVE Once(n)'
  <2>1. Untouched(n)
    BY <1>1 DEF Untouched, On, Busy
  <2> QED
    BY <1>0, <2>1, OnceUntouched
<1>2. ASSUME NEW m \in Ids, NEW why \in {"no", "requester", "resource"}, ChangeContext(m, why) PROVE Once(n)'
  BY <1>0, <1>1, <1>2, ContextEffect
<1>3. CASE DeleteWedding
  <2>1. /\ IF Live(n) THEN job'[n].state = "cancelled" ELSE job'[n] = job[n]
        /\ UNCHANGED <<worker, taken, emitted>>
    BY <1>0, <1>3, DeleteEffect
  <2>2. OverNow(n)
    BY <2>1 DEF OverNow, Live, On, Busy
  <2> QED
    BY <1>0, <2>2, OnceOver
<1>4. ASSUME NEW m \in Ids, NEW child \in Ids, Retry(m, child) PROVE Once(n)'
  <2>1. /\ message[child].state = "absent" /\ RowBecomes(child, Queued(m))
        /\ JobBecomes(child, "pending", Nobody, FALSE) /\ UNCHANGED <<worker, taken, emitted, faults>>
    BY <1>0, <1>4, RetryEffect
  <2>2. CASE n = child
    <3>1. taken'[n] = 0 /\ \A w \in Workers : ~On(w, n)'
      BY <1>0, <2>1, <2>2 DEF Done, On, Busy
    <3> QED
      BY <1>0, <2>1, <3>1 DEF Once, Begun
  <2>3. CASE n # child
    <3>1. Untouched(n)
      BY <2>1, <2>3 DEF Untouched, RowBecomes, JobBecomes, On, Busy
    <3> QED
      BY <1>0, <3>1, OnceUntouched
  <2> QED
    BY <2>2, <2>3
<1>5. ASSUME NEW w \in Workers, NEW m \in Ids, Lease(w, m) PROVE Once(n)'
  <2>1. CASE m = n
    BY <1>0, <1>5, <2>1, OnceLease
  <2>2. CASE m # n
    <3>1. /\ ~Busy(w) /\ JobBecomes(m, "leased", w, FALSE)
          /\ \A v \in Workers \ {w} : worker'[v] = worker[v]
          /\ worker'[w].id = m /\ UNCHANGED <<message, taken, emitted, faults>>
      BY <1>0, <1>5, LeaseEffect
    <3>2. Untouched(n)
      BY <2>2, <3>1 DEF Untouched, JobBecomes, On, Busy
    <3> QED
      BY <1>0, <3>2, OnceUntouched
  <2> QED
    BY <2>1, <2>2
<1>6. ASSUME NEW w \in Workers, QuietStep(w) \/ Decide(w) \/ Submitted(w) \/ FailMessage(w) PROVE Once(n)'
  <2>1. CASE worker[w].id # n
    BY <1>0, <1>6, <2>1, OnceElsewhere
  <2>2. CASE worker[w].id = n
    BY <1>0, <1>6, <2>2, OnceDecide, OnceAnswer, OnceReject, OnceSubmitted, OnceAck, OnceFailJob, OnceFailMessage,
       OnceSendFails, OnceDatabaseFails, OnceGone DEF QuietStep
  <2> QED
    BY <2>1, <2>2
<1>7. ASSUME NEW m \in Ids, Expire(m) PROVE Once(n)'
  <2>1. CASE m = n
    BY <1>0, <1>7, <2>1, OnceExpire
  <2>2. CASE m # n
    <3>1. /\ JobBecomes(m, "leased", job[m].owner, TRUE) /\ faults \in Nat
          /\ faults' = faults + 1 \/ faults' = faults
          /\ UNCHANGED <<message, worker, taken, emitted>>
      BY <1>0, <1>7, ExpireEffect DEF TypeOK
    <3>2. faults > 0 => faults' > 0
      BY <3>1
    <3>3. Untouched(n)
      BY <2>2, <3>1, <3>2 DEF Untouched, JobBecomes, On, Busy
    <3> QED
      BY <1>0, <3>3, OnceUntouched
  <2> QED
    BY <2>1, <2>2
<1>8. ASSUME NEW m \in Ids, NEW t \in Times, NEW status \in Statuses, Emit(m, t, status) PROVE Once(n)'
  BY <1>0, <1>8, EmitEffect
<1>9. ASSUME NEW m \in Ids, NEW t \in Times, Receive(m, t) PROVE Once(n)'
  BY <1>0, <1>9, ReceiveEffect DEF OnceOK, Once
<1>10. CASE UNCHANGED vars
  BY <1>1, <1>10 DEF vars
<1> QED
  BY <1>2, <1>3, <1>4, <1>5, <1>6, <1>7, <1>8, <1>9, <1>10, Steps

LEMMA OnceInit == Init => OnceOK
<1> SUFFICES ASSUME Init, NEW m \in Ids PROVE Once(m)
  BY DEF OnceOK
<1>1. (\A w \in Workers : ~On(w, m)) /\ taken[m] = 0 /\ \A t \in Times : emitted[m][t] = "none"
  BY DEF Init, On, Busy, Idle
<1> QED
  BY <1>1 DEF Once, Begun

\* As long as one thing goes wrong (one crash, stall, lost answer or failed call), no
\* expired lease and no retry makes a provider without idempotency keys take a message on
\* twice: for every number of workers, messages and attempts.  With two faults it is false.
THEOREM OneFaultSendsOnce ==
  ASSUME MaxFaults <= 1
  PROVE  Spec => []SentOnce
<1>1. CASE Idempotent
  <2>1. SentOnce
    BY <1>1 DEF SentOnce
  <2> QED
    BY <2>1, PTL
<1>2. CASE ~Idempotent
  <2>1. Init => Sound /\ DoneOK /\ OnceOK
    BY SoundInit, DoneInit, OnceInit
  <2>2. Sound /\ DoneOK /\ OnceOK /\ [Next]_vars => (Sound /\ DoneOK /\ OnceOK)'
    BY <1>2, SoundStep, DoneStep, OnceStep DEF DoneOK, OnceOK
  <2>3. OnceOK => SentOnce
    BY DEF OnceOK, Once, SentOnce
  <2> QED
    BY <2>1, <2>2, <2>3, PTL DEF Spec
<1> QED
  BY <1>1, <1>2

=============================================================================
